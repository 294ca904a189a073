-------------------------- MODULE TranslationCache --------------------------
(***************************************************************************)
(* The compilation cache of the PostgreSQL driver,                         *)
(* src/drivers/pg/translation_cache.go, with its callers                   *)
(* (SchemaManager.compile) and the schema changes that invalidate it       *)
(* (SchemaManager.AssertSchema, Driver.RefreshKinds).                      *)
(*                                                                         *)
(* Goroutines that hold `lock` take one step.  Between the steps of a call *)
(* anything may happen: another call, a schema change, the close of the    *)
(* driver, the cancellation of a context.  What a translation depends on   *)
(* is the version of the schema (the kind IDs) the build read; a key is    *)
(* the query shape (digest, graph, parameter types, policy) and the schema *)
(* generation.                                                             *)
(***************************************************************************)
EXTENDS Integers, FiniteSets

CONSTANTS
    Caller,         \* the goroutines that compile queries
    Query,          \* the query shapes
    Oversized,      \* the shapes whose text is longer than maxCachedCypherBytes
    capacity,       \* the capacity of the cache, 0 when it is disabled
    MaxGeneration,  \* bound: the number of schema changes
    MaxCalls,       \* bound: the number of calls each goroutine makes
    None            \* no version, no caller, nothing

Generation == 0..MaxGeneration
Key == Query \X Generation
Version == Generation

ASSUME CacheAssumption ==
    /\ Oversized \subseteq Query
    /\ capacity \in Nat
    /\ MaxGeneration \in Nat
    /\ MaxCalls \in Nat
    /\ None \notin Nat
    /\ None \notin Caller /\ None \notin Key

VARIABLES
    schema,       \* the version of the kind map
    schemaLock,   \* SchemaManager.lock: "free", "held", or "changed" (held, map changed)
    generation,   \* schemaGeneration
    entries,      \* Key -> the schema version the entry was built from, or None
    pending,      \* the map pending, as pairs of a key and the leader's call
    closed,
    pc,           \* where each caller is
    key,          \* the key of its call, or None
    asked,        \* the last schema version asserted when its call started
    seen,         \* the schema version its running build has read, or None
    waitOn,       \* the leader whose call it waits for
    signal,       \* what finish told it: "none", "reusable" or "spent"
    cancelled,    \* the callers whose context is cancelled
    result,       \* the version of the translation its last call returned, or None
    calls         \* how many calls it has started

cacheVars == <<generation, entries, pending, closed>>
schemaVars == <<schema, schemaLock>>
callVars == <<pc, key, asked, seen, waitOn, signal, cancelled, result, calls>>
vars == <<cacheVars, schemaVars, callVars>>

\* entries is a Sieve; this code relies on no more than a bounded cache.
Cache == INSTANCE BoundedCache
         WITH contents <- entries, last <- None, Absent <- None,
              Value <- Version, Capacity <- capacity

NoEntries == [k \in Key |-> None]

Init ==
    /\ schema = 0 /\ schemaLock = "free"
    /\ generation = 0
    /\ entries = NoEntries
    /\ pending = {}
    /\ closed = FALSE
    /\ pc = [c \in Caller |-> "idle"]
    /\ key = [c \in Caller |-> None]
    /\ asked = [c \in Caller |-> 0]
    /\ seen = [c \in Caller |-> None]
    /\ waitOn = [c \in Caller |-> None]
    /\ signal = [c \in Caller |-> "none"]
    /\ cancelled = {}
    /\ result = [c \in Caller |-> None]
    /\ calls = [c \in Caller |-> 0]
-----------------------------------------------------------------------------
\* A bug: a miss does not look for a call in progress.
LeadersIgnored(k) == {}

\* The leader of the call registered for k, if there is one.
Leaders(k) == {c \in Caller : <<k, c>> \in pending}

Goto(c, where) == pc' = [pc EXCEPT ![c] = where]

\* The call of c returns a translation of version, or an error (None).
Return(c, version) ==
    /\ Goto(c, "idle")
    /\ result' = [result EXCEPT ![c] = version]
    /\ key' = [key EXCEPT ![c] = None]
    /\ seen' = [seen EXCEPT ![c] = None]
    /\ waitOn' = [waitOn EXCEPT ![c] = None]
    /\ cancelled' = cancelled \ {c}

\* The newest schema whose AssertSchema or RefreshKinds has returned.
Asserted == IF schemaLock = "changed" THEN schema - 1 ELSE schema

\* compile: with the optimizer off the call is a build without the cache;
\* otherwise Key snapshots the schema generation.  A source that is too long
\* and a disabled cache bypass it too.
Compile(c, q, optimized) ==
    /\ pc[c] = "idle"
    /\ calls[c] < MaxCalls
    /\ Goto(c, IF ~optimized \/ q \in Oversized \/ capacity = 0 THEN "uncached" ELSE "top")
    /\ key' = [key EXCEPT ![c] = <<q, generation>>]
    /\ asked' = [asked EXCEPT ![c] = Asserted]
    /\ calls' = [calls EXCEPT ![c] = @ + 1]
    /\ UNCHANGED <<cacheVars, schemaVars, seen, waitOn, signal, cancelled, result>>

\* The caller's context is cancelled.
Cancel(c) ==
    /\ pc[c] # "idle" /\ c \notin cancelled
    /\ cancelled' = cancelled \cup {c}
    /\ UNCHANGED <<cacheVars, schemaVars, pc, key, asked, seen, waitOn, signal, result, calls>>

\* The head of the loop of GetOrBuildContext, one action for each way out.
TopCancelled(c) ==
    /\ pc[c] = "top" /\ c \in cancelled
    /\ Return(c, None)
    /\ UNCHANGED <<cacheVars, schemaVars, asked, signal, calls>>

TopClosed(c) ==
    /\ pc[c] = "top" /\ c \notin cancelled /\ closed
    /\ Goto(c, "uncached")
    /\ UNCHANGED <<cacheVars, schemaVars, key, asked, seen, waitOn, signal, cancelled, result, calls>>

\* A hit: the entry's SQL with the caller's own values bound, or the error of
\* bindCachedParameters.
TopHit(c, bound) ==
    /\ pc[c] = "top" /\ c \notin cancelled /\ ~closed
    /\ entries[key[c]] # None
    /\ Return(c, IF bound THEN entries[key[c]] ELSE None)
    /\ UNCHANGED <<cacheVars, schemaVars, asked, signal, calls>>

TopWait(c) ==
    /\ pc[c] = "top" /\ c \notin cancelled /\ ~closed
    /\ entries[key[c]] = None
    /\ \E l \in Leaders(key[c]) :
          waitOn' = [waitOn EXCEPT ![c] = l]
    /\ Goto(c, "wait")
    /\ UNCHANGED <<cacheVars, schemaVars, key, asked, seen, signal, cancelled, result, calls>>

TopLead(c) ==
    /\ pc[c] = "top" /\ c \notin cancelled /\ ~closed
    /\ entries[key[c]] = None
    /\ Leaders(key[c]) = {}
    /\ pending' = pending \cup {<<key[c], c>>}
    /\ Goto(c, "build")
    /\ UNCHANGED <<generation, entries, closed, schemaVars, key, asked, seen, waitOn, signal, cancelled, result, calls>>

\* select: the call waited for is finished, or the context is.
WaitReusable(c) ==
    /\ pc[c] = "wait" /\ signal[c] = "reusable"
    /\ Goto(c, "top")
    /\ waitOn' = [waitOn EXCEPT ![c] = None]
    /\ signal' = [signal EXCEPT ![c] = "none"]
    /\ UNCHANGED <<cacheVars, schemaVars, key, asked, seen, cancelled, result, calls>>

WaitSpent(c) ==
    /\ pc[c] = "wait" /\ signal[c] = "spent"
    /\ Goto(c, "uncached")
    /\ waitOn' = [waitOn EXCEPT ![c] = None]
    /\ signal' = [signal EXCEPT ![c] = "none"]
    /\ UNCHANGED <<cacheVars, schemaVars, key, asked, seen, cancelled, result, calls>>

WaitCancelled(c) ==
    /\ pc[c] = "wait" /\ c \in cancelled
    /\ Return(c, None)
    /\ signal' = [signal EXCEPT ![c] = "none"]
    /\ UNCHANGED <<cacheVars, schemaVars, asked, calls>>
-----------------------------------------------------------------------------
\* The translation a build makes depends on the kind IDs it reads first; it
\* reads them under SchemaManager.lock.
BuildRead(c) ==
    /\ pc[c] \in {"build", "uncached"} /\ seen[c] = None
    /\ schemaLock = "free"
    /\ seen' = [seen EXCEPT ![c] = schema]
    /\ UNCHANGED <<cacheVars, schemaVars, pc, key, asked, waitOn, signal, cancelled, result, calls>>

\* buildUncached: nothing is retained.
UncachedReturn(c) ==
    /\ pc[c] = "uncached"
    /\ Return(c, seen[c]) \/ Return(c, None)
    /\ UNCHANGED <<cacheVars, schemaVars, asked, signal, calls>>

Current(c) == key[c][2] = generation

\* How a build can end: with SQL all of whose parameters come from the
\* caller's, with SQL that has others, with an error, or with a panic.
Outcome == {"sql", "foreign", "error", "panic"}

\* cacheableTranslation.  After a panic it is given no error, no parameters and
\* an empty text, and agrees.
Cacheable(outcome) == outcome \in {"sql", "panic"}

Blank == -1     \* what an entry made of that empty text would hold

\* A bug: the generation of the key is not compared again.
ReusableStale(c, outcome) == Cacheable(outcome) /\ ~closed /\ outcome # "panic"

Reusable(c, outcome) == Cacheable(outcome) /\ Current(c) /\ ~closed /\ outcome # "panic"

\* A bug: only success wakes the waiters.
WokenBySuccess(ls, reusable) ==
    [w \in Caller |-> IF pc[w] = "wait" /\ signal[w] = "none" /\ waitOn[w] \in ls /\ reusable
                      THEN "reusable" ELSE signal[w]]

\* call.finish: what the goroutines blocked on a call of ls learn.
Woken(ls, reusable) ==
    [w \in Caller |-> IF pc[w] = "wait" /\ signal[w] = "none" /\ waitOn[w] \in ls
                      THEN IF reusable THEN "reusable" ELSE "spent"
                      ELSE signal[w]]

\* The leader's critical section after the build: it publishes a result that
\* may be reused, withdraws the pending call and wakes whoever waits for it.
Settle(c, outcome) ==
    /\ outcome \in {"sql", "foreign"} => seen[c] # None
    /\ IF Reusable(c, outcome)
       THEN Cache!Store(key[c], IF outcome = "panic" THEN Blank ELSE seen[c])
       ELSE entries' = entries
    /\ pending' = pending \ {<<key[c], c>>}
    /\ signal' = Woken({c}, Reusable(c, outcome))
    /\ UNCHANGED <<generation, closed, schemaVars, asked, calls>>

\* The error is returned, or the panic is raised again.
LeadFailed(c, outcome) ==
    /\ pc[c] = "build" /\ outcome \in {"error", "panic"}
    /\ Settle(c, outcome)
    /\ Return(c, None)

\* The schema changed under the build: compile again for the new generation.
LeadStale(c, outcome) ==
    /\ pc[c] = "build" /\ outcome \in {"sql", "foreign"} /\ ~Current(c) /\ ~closed
    /\ Settle(c, outcome)
    /\ key' = [key EXCEPT ![c] = <<@[1], generation>>]
    /\ seen' = [seen EXCEPT ![c] = None]
    /\ Goto(c, "top")
    /\ UNCHANGED <<waitOn, cancelled, result>>

LeadReturn(c, outcome) ==
    /\ pc[c] = "build" /\ outcome \in {"sql", "foreign"} /\ (Current(c) \/ closed)
    /\ Settle(c, outcome)
    /\ Return(c, seen[c])
-----------------------------------------------------------------------------
\* AssertSchema and RefreshKinds hold SchemaManager.lock from before the kind
\* map changes until Invalidate is done.
SchemaLock ==
    /\ schemaLock = "free" /\ generation < MaxGeneration
    /\ schemaLock' = "held"
    /\ UNCHANGED <<schema, cacheVars, callVars>>

SchemaChange ==
    /\ schemaLock = "held"
    /\ schema' = schema + 1
    /\ schemaLock' = "changed"
    /\ UNCHANGED <<cacheVars, callVars>>

\* The transaction failed: the IDs of the committed kinds are as they were, and
\* Invalidate is not called.  What it leaves in the maps in memory is the subject
\* of SchemaManager.
SchemaFail ==
    /\ schemaLock = "held"
    /\ schemaLock' = "free"
    /\ UNCHANGED <<schema, cacheVars, callVars>>

\* A bug: the entries are dropped and the generation stays.
InvalidateEntriesOnly ==
    /\ schemaLock = "changed"
    /\ entries' = NoEntries
    /\ schemaLock' = "free"
    /\ UNCHANGED <<generation, schema, pending, closed, callVars>>

Invalidate ==
    /\ schemaLock = "changed"
    /\ generation' = generation + 1
    /\ entries' = NoEntries
    /\ schemaLock' = "free"
    /\ UNCHANGED <<schema, pending, closed, callVars>>

\* A bug: the pending calls are forgotten and not finished.
CloseSilently ==
    /\ ~closed
    /\ closed' = TRUE
    /\ entries' = NoEntries
    /\ pending' = {}
    /\ UNCHANGED <<generation, schemaVars, callVars>>

Close ==
    /\ ~closed
    /\ closed' = TRUE
    /\ entries' = NoEntries
    /\ pending' = {}
    /\ signal' = Woken({p[2] : p \in pending}, FALSE)
    /\ UNCHANGED <<generation, schemaVars, pc, key, asked, seen, waitOn, cancelled, result, calls>>
-----------------------------------------------------------------------------
CallerStep(c) ==
    \/ TopCancelled(c) \/ TopClosed(c) \/ TopWait(c) \/ TopLead(c)
    \/ \E bound \in BOOLEAN : TopHit(c, bound)
    \/ WaitReusable(c) \/ WaitSpent(c) \/ WaitCancelled(c)
    \/ BuildRead(c) \/ UncachedReturn(c)
    \/ \E outcome \in Outcome :
          LeadFailed(c, outcome) \/ LeadStale(c, outcome) \/ LeadReturn(c, outcome)

Next ==
    \/ \E c \in Caller :
          \/ \E q \in Query, optimized \in BOOLEAN : Compile(c, q, optimized)
          \/ Cancel(c)
          \/ CallerStep(c)
    \/ SchemaLock \/ SchemaChange \/ SchemaFail \/ Invalidate \/ Close

Spec == Init /\ [][Next]_vars

\* A goroutine that can run is run, a build ends, and AssertSchema and
\* RefreshKinds do not sit on the lock.
Fairness ==
    /\ \A c \in Caller : WF_vars(CallerStep(c))
    /\ WF_vars(SchemaChange \/ SchemaFail \/ Invalidate)

FairSpec == Spec /\ Fairness
-----------------------------------------------------------------------------
Where == {"idle", "top", "wait", "build", "uncached"}

\* The type invariant of the cache and of the calls in progress.
TypeOK ==
    /\ schema \in Version /\ generation \in Generation
    /\ schemaLock \in {"free", "held", "changed"}
    /\ entries \in [Key -> Version \cup {None}]
    /\ pending \subseteq Key \X Caller
    /\ closed \in BOOLEAN
    /\ pc \in [Caller -> Where]
    /\ key \in [Caller -> Key \cup {None}]
    /\ asked \in [Caller -> Version]
    /\ seen \in [Caller -> Version \cup {None}]
    /\ waitOn \in [Caller -> Caller \cup {None}]
    /\ signal \in [Caller -> {"none", "reusable", "spent"}]
    /\ cancelled \subseteq Caller
    /\ result \in [Caller -> Version \cup {None}]
    /\ calls \in [Caller -> 0..MaxCalls]

\* The reason the cache may be used at all: a compilation that succeeds, from
\* the cache or not, returns SQL made from a schema at least as new as the
\* last one asserted before the compilation began, however the build, the
\* invalidation and the close of the cache interleave.
FreshResult ==
    \A c \in Caller :
        pc[c] = "idle" /\ result[c] # None => result[c] >= asked[c]

\* An entry that can be found belongs to the current generation and was built
\* from that schema or a newer one: a build that began before Invalidate never
\* publishes after it.
NoStaleEntry ==
    \A k \in Key : entries[k] # None => k[2] = generation /\ entries[k] >= generation

\* Concurrent misses of one key share one build: no two goroutines build for
\* the same key as leaders, and the map pending has one call for a key.
OneLeader ==
    \A c, d \in Caller : c # d =>
        /\ ~(pc[c] = "build" /\ pc[d] = "build" /\ key[c] = key[d])
        /\ \A k \in Key : ~(<<k, c>> \in pending /\ <<k, d>> \in pending)

\* No wakeup is lost: a goroutine that has not been told anything waits for a
\* call that is still registered, whose leader is still building for its key.
WaiterHasLeader ==
    \A c \in Caller :
        pc[c] = "wait" /\ signal[c] = "none" =>
            /\ <<key[c], waitOn[c]>> \in pending
            /\ pc[waitOn[c]] = "build" /\ key[waitOn[c]] = key[c]

\* Close retires the cache for good: nothing is found in it or registered with
\* it afterwards, although builds that Close overtook still finish.
ClosedIsEmpty == closed => entries = NoEntries /\ pending = {}

\* Every compilation returns, whatever the builds it waited for came to, when
\* schema changes and calls stop coming.
EveryCallReturns == \A c \in Caller : pc[c] # "idle" ~> pc[c] = "idle"
=============================================================================
