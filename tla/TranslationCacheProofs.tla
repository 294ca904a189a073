----------------------- MODULE TranslationCacheProofs -----------------------
(***************************************************************************)
(* For every number of goroutines, query shapes, schema changes and calls  *)
(* and every capacity: a compilation never returns SQL made for a schema   *)
(* older than the one asserted when it started, concurrent misses share    *)
(* one build, no goroutine waits for a call that is gone, and a closed     *)
(* cache stays empty.                                                      *)
(*                                                                         *)
(* None of these is inductive alone.  What carries them is how the key's   *)
(* generation, the schema version a build has read and the schema lock are *)
(* related while a call is under way (CallInv, SchemaInv), and that a      *)
(* registered call and a leader in the middle of a build are the same      *)
(* thing (PendingInv).                                                     *)
(***************************************************************************)
EXTENDS TranslationCache, TLAPS

\* While the schema lock is free the kind map is the one the generation
\* stands for; between the change and Invalidate it is one version ahead.
SchemaInv ==
    /\ schemaLock = "changed" => schema = generation + 1
    /\ schemaLock # "changed" => schema = generation
    /\ schemaLock # "free" => generation < MaxGeneration

\* The key of a call was made after the call started, and what its build has
\* read is at least as new as the key.
CallInv ==
    \A c \in Caller :
        /\ pc[c] # "idle" =>
              /\ key[c] \in Key
              /\ asked[c] <= key[c][2]
              /\ key[c][2] <= generation
        /\ pc[c] \in {"idle", "top", "wait"} => seen[c] = None
        /\ seen[c] # None => seen[c] >= key[c][2]

\* Until the cache is closed a leader that builds is registered, and only it.
PendingInv ==
    /\ \A k \in Key, c \in Caller :
          <<k, c>> \in pending => pc[c] = "build" /\ key[c] = k
    /\ \A c \in Caller : pc[c] = "build" /\ ~closed => <<key[c], c>> \in pending

\* Only a goroutine that waits has been told anything.
SignalInv == \A c \in Caller : pc[c] # "wait" => signal[c] = "none"

Inv ==
    /\ TypeOK /\ SchemaInv /\ CallInv /\ PendingInv /\ SignalInv
    /\ FreshResult /\ NoStaleEntry /\ OneLeader /\ WaiterHasLeader /\ ClosedIsEmpty
-----------------------------------------------------------------------------
\* What storing an entry in a bounded cache can do: that entry is there, every
\* other one is as it was or gone.
LEMMA StoreEffect ==
    ASSUME TypeOK, NEW k \in Key, NEW v \in Version, Cache!Store(k, v)
    PROVE  /\ entries' \in [Key -> Version \cup {None}]
           /\ entries'[k] = v
           /\ \A j \in Key : j # k => entries'[j] = entries[j] \/ entries'[j] = None
<1>1. CASE entries' = [entries EXCEPT ![k] = v]
      BY <1>1 DEF TypeOK
<1>2. CASE \E x \in Cache!Held : entries' = [entries EXCEPT ![x] = None, ![k] = v]
      <2>1. PICK x \in Cache!Held : entries' = [entries EXCEPT ![x] = None, ![k] = v]
            BY <1>2, ZenonT(30)
      <2>2. x \in Key
            BY DEF Cache!Held
      <2> QED  BY <2>1, <2>2 DEF TypeOK
<1> QED  BY <1>1, <1>2 DEF Cache!Store

\* The initial state satisfies the invariant.
LEMMA InitInv == Init => Inv
<1> SUFFICES ASSUME Init PROVE Inv
    OBVIOUS
<1> USE CacheAssumption DEF Init
<1>1. TypeOK
      <2>1. schema \in Version /\ generation \in Generation
            BY DEF Generation, Version
      <2>2. entries \in [Key -> Version \cup {None}]
            BY DEF NoEntries
      <2>3. pc \in [Caller -> Where]
            BY DEF Where
      <2>4. key \in [Caller -> Key \cup {None}]
            BY Zenon
      <2>5. asked \in [Caller -> Version]
            BY DEF Generation, Version
      <2>6. /\ seen \in [Caller -> Version \cup {None}]
            /\ waitOn \in [Caller -> Caller \cup {None}]
            /\ signal \in [Caller -> {"none", "reusable", "spent"}]
            /\ result \in [Caller -> Version \cup {None}]
            OBVIOUS
      <2>7. calls \in [Caller -> 0..MaxCalls]
            OBVIOUS
      <2> QED  BY <2>1, <2>2, <2>3, <2>4, <2>5, <2>6, <2>7, ZenonT(30) DEF TypeOK
<1>2. SchemaInv /\ CallInv /\ PendingInv /\ SignalInv
      BY DEF SchemaInv, CallInv, PendingInv, SignalInv
<1>3. FreshResult /\ NoStaleEntry /\ OneLeader /\ WaiterHasLeader /\ ClosedIsEmpty
      BY DEF FreshResult, NoStaleEntry, OneLeader, WaiterHasLeader, ClosedIsEmpty, NoEntries
<1> QED  BY <1>1, <1>2, <1>3 DEF Inv
-----------------------------------------------------------------------------
\* The leader's critical section: what it can publish is what its build read,
\* under a key of the current generation and in an open cache.
LEMMA SettleEffect ==
    ASSUME Inv, NEW c \in Caller, NEW outcome \in Outcome, pc[c] = "build", Settle(c, outcome)
    PROVE  /\ key[c] \in Key
           /\ entries' \in [Key -> Version \cup {None}]
           /\ \A k \in Key : entries'[k] # None =>
                 \/ entries'[k] = entries[k]
                 \/ /\ k = key[c] /\ k[2] = generation /\ ~closed
                    /\ seen[c] \in Version /\ entries'[k] = seen[c]
           /\ closed => entries' = entries
           /\ pending' = pending \ {<<key[c], c>>}
           /\ signal' \in [Caller -> {"none", "reusable", "spent"}]
           /\ \A w \in Caller :
                 IF pc[w] = "wait" /\ signal[w] = "none" /\ waitOn[w] = c
                 THEN signal'[w] # "none" ELSE signal'[w] = signal[w]
           /\ UNCHANGED <<generation, closed, schema, schemaLock, asked, calls>>
<1>1. key[c] \in Key
      BY DEF Inv, CallInv
<1>2. /\ signal' \in [Caller -> {"none", "reusable", "spent"}]
      /\ \A w \in Caller :
            IF pc[w] = "wait" /\ signal[w] = "none" /\ waitOn[w] = c
            THEN signal'[w] # "none" ELSE signal'[w] = signal[w]
      BY DEF Inv, TypeOK, Settle, Woken
<1>3. CASE Reusable(c, outcome)
      <2>1. seen[c] \in Version /\ Cache!Store(key[c], seen[c])
            BY <1>3 DEF Inv, TypeOK, Settle, Reusable, Cacheable, Outcome
      <2>2. TypeOK
            BY DEF Inv
      <2>3. /\ entries' \in [Key -> Version \cup {None}]
            /\ entries'[key[c]] = seen[c]
            /\ \A j \in Key : j # key[c] => entries'[j] = entries[j] \/ entries'[j] = None
            BY <1>1, <2>1, <2>2, StoreEffect
      <2> QED  BY <1>1, <1>2, <1>3, <2>1, <2>3, ZenonT(30) DEF Settle, Reusable, Current, schemaVars
<1>4. CASE ~Reusable(c, outcome)
      BY <1>1, <1>2, <1>4, ZenonT(30) DEF Inv, TypeOK, Settle, schemaVars
<1> QED  BY <1>3, <1>4

\* A key keeps its query when it is moved to another generation.
LEMMA KeyAt ==
    ASSUME NEW k \in Key, NEW g \in Generation
    PROVE  k[2] \in Generation /\ <<k[1], g>> \in Key /\ <<k[1], g>>[2] = g
BY DEF Key

\* Generations are ordered.
LEMMA LaterGeneration ==
    ASSUME NEW a \in Generation, NEW b \in Generation, NEW g \in Generation, a <= b, b <= g
    PROVE  a <= g /\ g <= g
BY CacheAssumption DEF Generation

\* A call that returns leaves every other call alone.
LEMMA ReturnFrame ==
    ASSUME TypeOK, NEW c \in Caller, NEW version, Return(c, version)
    PROVE  /\ pc'[c] = "idle" /\ seen'[c] = None
           /\ \A w \in Caller \ {c} :
                 pc'[w] = pc[w] /\ key'[w] = key[w] /\ seen'[w] = seen[w] /\ waitOn'[w] = waitOn[w]
BY DEF TypeOK, Return, Goto

\* So what holds of the keys of the calls under way still does.
LEMMA ReturnKeepsCallInv ==
    ASSUME Inv, NEW c \in Caller, NEW version, Return(c, version), UNCHANGED <<asked, generation>>
    PROVE  CallInv'
<1>1. /\ pc'[c] = "idle" /\ seen'[c] = None
      /\ \A w \in Caller \ {c} : pc'[w] = pc[w] /\ key'[w] = key[w] /\ seen'[w] = seen[w]
      BY ReturnFrame DEF Inv
<1>2. ASSUME NEW d \in Caller
      PROVE  /\ pc'[d] # "idle" =>
                    /\ key'[d] \in Key
                    /\ asked'[d] <= key'[d][2]
                    /\ key'[d][2] <= generation'
             /\ pc'[d] \in {"idle", "top", "wait"} => seen'[d] = None
             /\ seen'[d] # None => seen'[d] >= key'[d][2]
      <2>1. CASE d = c
            BY <1>1, <2>1
      <2>2. CASE d # c
            BY <1>1, <2>2 DEF Inv, CallInv
      <2> QED  BY <2>1, <2>2
<1> QED  BY <1>2 DEF CallInv, Key, Generation

\* After its build a leader leaves, and no other call is touched.
LEMMA LeadFrame ==
    ASSUME Inv, NEW c \in Caller, NEW outcome \in Outcome,
           LeadFailed(c, outcome) \/ LeadStale(c, outcome) \/ LeadReturn(c, outcome)
    PROVE  /\ pc[c] = "build" /\ Settle(c, outcome) /\ pc'[c] \in {"idle", "top"}
           /\ \A w \in Caller \ {c} : pc'[w] = pc[w] /\ key'[w] = key[w] /\ waitOn'[w] = waitOn[w]
<1>1. CASE LeadFailed(c, outcome)
      BY <1>1 DEF LeadFailed, Return, Goto, Inv, TypeOK
<1>2. CASE LeadStale(c, outcome)
      BY <1>2 DEF LeadStale, Goto, Inv, TypeOK
<1>3. CASE LeadReturn(c, outcome)
      BY <1>3 DEF LeadReturn, Return, Goto, Inv, TypeOK
<1> QED  BY <1>1, <1>2, <1>3

\* A leader that leaves preserves what relates leaders and waiters: those who
\* wait for it are told, and those who wait for another keep theirs.
LEMMA LeadKeeps ==
    ASSUME Inv, NEW c \in Caller, NEW outcome \in Outcome,
           LeadFailed(c, outcome) \/ LeadStale(c, outcome) \/ LeadReturn(c, outcome)
    PROVE  PendingInv' /\ SignalInv' /\ OneLeader' /\ WaiterHasLeader'
<1>1. /\ pc[c] = "build" /\ Settle(c, outcome) /\ pc'[c] \in {"idle", "top"}
      /\ \A w \in Caller \ {c} : pc'[w] = pc[w] /\ key'[w] = key[w] /\ waitOn'[w] = waitOn[w]
      BY LeadFrame
<1>2. /\ pending' = pending \ {<<key[c], c>>} /\ closed' = closed
      /\ \A w \in Caller :
            IF pc[w] = "wait" /\ signal[w] = "none" /\ waitOn[w] = c
            THEN signal'[w] # "none" ELSE signal'[w] = signal[w]
      BY <1>1, SettleEffect
<1>3. PendingInv'
      <2>1. ASSUME NEW k \in Key, NEW d \in Caller, <<k, d>> \in pending'
            PROVE  pc'[d] = "build" /\ key'[d] = k
            <3>1. pc[d] = "build" /\ key[d] = k /\ <<k, d>> # <<key[c], c>>
                  BY <1>2, <2>1 DEF Inv, PendingInv
            <3>2. d # c
                  BY <3>1
            <3> QED  BY <1>1, <3>1, <3>2
      <2>2. ASSUME NEW d \in Caller, pc'[d] = "build", ~closed'
            PROVE  <<key'[d], d>> \in pending'
            <3>1. d # c
                  BY <1>1, <2>2
            <3>2. <<key[d], d>> \in pending /\ key'[d] = key[d]
                  BY <1>1, <1>2, <2>2, <3>1 DEF Inv, PendingInv
            <3> QED  BY <1>2, <3>1, <3>2
      <2> QED  BY <2>1, <2>2 DEF PendingInv
<1>4. SignalInv'
      <2>1. ASSUME NEW d \in Caller, pc'[d] # "wait"
            PROVE  signal'[d] = "none"
            <3>1. pc[d] # "wait"
                  BY <1>1, <2>1
            <3> QED  BY <1>2, <3>1 DEF Inv, SignalInv
      <2> QED  BY <2>1 DEF SignalInv
<1>5. OneLeader'
      <2>1. ASSUME NEW d \in Caller, NEW e \in Caller, d # e,
                   pc'[d] = "build", pc'[e] = "build", key'[d] = key'[e]
            PROVE  FALSE
            <3>1. d # c /\ e # c
                  BY <1>1, <2>1
            <3> QED  BY <1>1, <2>1, <3>1 DEF Inv, OneLeader
      <2>2. ASSUME NEW d \in Caller, NEW e \in Caller, d # e,
                   NEW k \in Key, <<k, d>> \in pending', <<k, e>> \in pending'
            PROVE  FALSE
            BY <1>2, <2>2 DEF Inv, OneLeader
      <2> QED  BY <2>1, <2>2 DEF OneLeader
<1>6. ASSUME NEW w \in Caller, pc'[w] = "wait", signal'[w] = "none"
      PROVE  /\ <<key'[w], waitOn'[w]>> \in pending'
             /\ pc'[waitOn'[w]] = "build" /\ key'[waitOn'[w]] = key'[w]
      <2>1. w # c /\ pc[w] = "wait" /\ key'[w] = key[w] /\ waitOn'[w] = waitOn[w]
            BY <1>1, <1>6
      <2>2. signal[w] = "none" /\ waitOn[w] # c
            BY <1>2, <1>6, <2>1
      <2>3. <<key[w], waitOn[w]>> \in pending /\ pc[waitOn[w]] = "build" /\ key[waitOn[w]] = key[w]
            BY <2>1, <2>2 DEF Inv, WaiterHasLeader
      <2>4. waitOn[w] \in Caller \ {c}
            BY <2>2, <2>3 DEF Inv, TypeOK
      <2> QED  BY <1>1, <1>2, <2>1, <2>2, <2>3, <2>4
<1>7. WaiterHasLeader'
      BY <1>6 DEF WaiterHasLeader
<1> QED  BY <1>3, <1>4, <1>5, <1>7

\* Only these steps touch the cache.
LEMMA CacheFrame ==
    ASSUME Next
    PROVE  \/ UNCHANGED <<generation, entries, pending, closed>>
           \/ \E c \in Caller : TopLead(c)
           \/ \E c \in Caller, outcome \in Outcome : pc[c] = "build" /\ Settle(c, outcome)
           \/ Invalidate \/ Close
<1>1. ASSUME NEW c \in Caller, NEW outcome \in Outcome,
             LeadFailed(c, outcome) \/ LeadStale(c, outcome) \/ LeadReturn(c, outcome)
      PROVE  pc[c] = "build" /\ Settle(c, outcome)
      BY <1>1 DEF LeadFailed, LeadStale, LeadReturn
<1>2. ASSUME NEW c \in Caller, NEW bound \in BOOLEAN,
             \/ TopCancelled(c) \/ TopClosed(c) \/ TopHit(c, bound) \/ TopWait(c)
             \/ WaitReusable(c) \/ WaitSpent(c) \/ WaitCancelled(c)
             \/ BuildRead(c) \/ UncachedReturn(c)
      PROVE  UNCHANGED <<generation, entries, pending, closed>>
      BY <1>2 DEF TopCancelled, TopClosed, TopHit, TopWait, WaitReusable, WaitSpent,
         WaitCancelled, BuildRead, UncachedReturn, cacheVars
<1>3. ASSUME NEW c \in Caller, NEW q \in Query, NEW optimized \in BOOLEAN, Compile(c, q, optimized)
      PROVE  UNCHANGED <<generation, entries, pending, closed>>
      BY <1>3 DEF Compile, cacheVars
<1>4. ASSUME SchemaLock \/ SchemaChange \/ SchemaFail
      PROVE  UNCHANGED <<generation, entries, pending, closed>>
      BY <1>4 DEF SchemaLock, SchemaChange, SchemaFail, cacheVars
<1>5. ASSUME NEW c \in Caller, Cancel(c)
      PROVE  UNCHANGED <<generation, entries, pending, closed>>
      BY <1>5 DEF Cancel, cacheVars
<1>6. ASSUME NEW c \in Caller, CallerStep(c)
      PROVE  \/ UNCHANGED <<generation, entries, pending, closed>>
             \/ TopLead(c)
             \/ \E outcome \in Outcome : pc[c] = "build" /\ Settle(c, outcome)
      BY <1>1, <1>2, <1>6, ZenonT(30) DEF CallerStep
<1> QED  BY <1>3, <1>4, <1>5, <1>6 DEF Next

\* Only these steps touch the schema and the generation.
LEMMA SchemaFrame ==
    ASSUME Next
    PROVE  \/ UNCHANGED <<schema, schemaLock, generation>>
           \/ SchemaLock \/ SchemaChange \/ SchemaFail \/ Invalidate
<1>1. ASSUME NEW c \in Caller, CallerStep(c)
      PROVE  UNCHANGED <<schema, schemaLock, generation>>
      BY <1>1 DEF CallerStep, TopCancelled, TopClosed, TopHit, TopWait, TopLead, WaitReusable,
         WaitSpent, WaitCancelled, BuildRead, UncachedReturn, LeadFailed, LeadStale, LeadReturn,
         Settle, schemaVars, cacheVars
<1> QED  BY <1>1, ZenonT(30) DEF Next, Compile, Cancel, Close, schemaVars, cacheVars

\* A step preserves the relation between schema, lock and generation.
LEMMA NextSchemaInv == ASSUME Inv, Next PROVE SchemaInv'
<1>1. CASE UNCHANGED <<schema, schemaLock, generation>>
      BY <1>1 DEF Inv, SchemaInv
<1>2. CASE SchemaLock \/ SchemaChange \/ SchemaFail \/ Invalidate
      BY <1>2, CacheAssumption DEF Inv, TypeOK, SchemaInv, Generation, Version, SchemaLock, SchemaChange,
         SchemaFail, Invalidate, cacheVars
<1> QED  BY <1>1, <1>2, SchemaFrame

\* A step preserves that entries are of the current generation and schema, and
\* that a closed cache is empty.
LEMMA NextEntriesInv == ASSUME Inv, Next PROVE NoStaleEntry' /\ ClosedIsEmpty'
<1>1. CASE UNCHANGED <<generation, entries, pending, closed>>
      BY <1>1 DEF Inv, NoStaleEntry, ClosedIsEmpty
<1>2. ASSUME NEW c \in Caller, TopLead(c)
      PROVE  NoStaleEntry' /\ ClosedIsEmpty'
      BY <1>2 DEF TopLead, Inv, NoStaleEntry, ClosedIsEmpty
<1>3. ASSUME NEW c \in Caller, NEW outcome \in Outcome, pc[c] = "build", Settle(c, outcome)
      PROVE  NoStaleEntry' /\ ClosedIsEmpty'
      <2>1. seen[c] # None => seen[c] >= key[c][2]
            BY DEF Inv, CallInv
      <2>2. None \notin Version
            BY CacheAssumption DEF Version, Generation
      <2>3. /\ \A k \in Key : entries'[k] # None =>
                  \/ entries'[k] = entries[k]
                  \/ /\ k = key[c] /\ k[2] = generation
                     /\ seen[c] \in Version /\ entries'[k] = seen[c]
            /\ generation' = generation /\ closed' = closed
            /\ closed => entries' = entries
            /\ pending' \subseteq pending
            BY <1>3, SettleEffect
      <2>4. NoStaleEntry'
            BY <2>1, <2>2, <2>3 DEF Inv, NoStaleEntry
      <2>5. ClosedIsEmpty'
            BY <2>3, ZenonT(30) DEF Inv, ClosedIsEmpty
      <2> QED  BY <2>4, <2>5
<1>4. CASE Invalidate
      BY <1>4 DEF Invalidate, Inv, TypeOK, NoStaleEntry, ClosedIsEmpty, NoEntries
<1>5. CASE Close
      BY <1>5, ZenonT(30) DEF Close, Inv, TypeOK, NoStaleEntry, ClosedIsEmpty, NoEntries
<1> QED  BY <1>1, <1>2, <1>3, <1>4, <1>5, CacheFrame

\* A step preserves the type invariant.
LEMMA NextTypeOK == ASSUME Inv, Next PROVE TypeOK'
<1>1. ASSUME NEW c \in Caller, NEW q \in Query, NEW optimized \in BOOLEAN, Compile(c, q, optimized)
      PROVE  TypeOK'
      BY <1>1, CacheAssumption DEF Compile, Goto, Asserted, Inv, TypeOK, cacheVars,
         schemaVars, callVars, SchemaInv, CallInv, Generation, Version, Where, Key
<1>2. ASSUME NEW c \in Caller, Cancel(c)
      PROVE  TypeOK'
      BY <1>2, CacheAssumption DEF Cancel, Inv, TypeOK, cacheVars, schemaVars,
         callVars, SchemaInv, CallInv, Generation, Version, Where, Key
<1>3. ASSUME NEW c \in Caller, TopCancelled(c)
      PROVE  TypeOK'
      BY <1>3, CacheAssumption DEF TopCancelled, Return, Goto, Inv, TypeOK,
         cacheVars, schemaVars, callVars, SchemaInv, CallInv, Generation, Version,
         Where, Key
<1>4. ASSUME NEW c \in Caller, TopClosed(c)
      PROVE  TypeOK'
      BY <1>4, CacheAssumption DEF TopClosed, Goto, Inv, TypeOK, cacheVars,
         schemaVars, callVars, SchemaInv, CallInv, Generation, Version, Where, Key
<1>5. ASSUME NEW c \in Caller, NEW bound \in BOOLEAN, TopHit(c, bound)
      PROVE  TypeOK'
      BY <1>5, CacheAssumption DEF TopHit, Return, Goto, Inv, TypeOK, cacheVars,
         schemaVars, callVars, SchemaInv, CallInv, Generation, Version, Where, Key
<1>6. ASSUME NEW c \in Caller, TopWait(c)
      PROVE  TypeOK'
      BY <1>6, CacheAssumption DEF TopWait, Leaders, Goto, Inv, TypeOK, cacheVars,
         schemaVars, callVars, SchemaInv, CallInv, Generation, Version, Where, Key
<1>7. ASSUME NEW c \in Caller, TopLead(c)
      PROVE  TypeOK'
      BY <1>7, CacheAssumption DEF TopLead, Leaders, Goto, Inv, TypeOK, cacheVars,
         schemaVars, callVars, SchemaInv, CallInv, Generation, Version, Where, Key
<1>8. ASSUME NEW c \in Caller, WaitReusable(c)
      PROVE  TypeOK'
      BY <1>8, CacheAssumption DEF WaitReusable, Goto, Inv, TypeOK, cacheVars,
         schemaVars, callVars, SchemaInv, CallInv, Generation, Version, Where, Key
<1>9. ASSUME NEW c \in Caller, WaitSpent(c)
      PROVE  TypeOK'
      BY <1>9, CacheAssumption DEF WaitSpent, Goto, Inv, TypeOK, cacheVars,
         schemaVars, callVars, SchemaInv, CallInv, Generation, Version, Where, Key
<1>10. ASSUME NEW c \in Caller, WaitCancelled(c)
      PROVE  TypeOK'
      BY <1>10, CacheAssumption DEF WaitCancelled, Return, Goto, Inv, TypeOK,
         cacheVars, schemaVars, callVars, SchemaInv, CallInv, Generation, Version,
         Where, Key
<1>11. ASSUME NEW c \in Caller, BuildRead(c)
      PROVE  TypeOK'
      BY <1>11, CacheAssumption DEF BuildRead, Inv, TypeOK, cacheVars, schemaVars,
         callVars, SchemaInv, CallInv, Generation, Version, Where, Key
<1>12. ASSUME NEW c \in Caller, UncachedReturn(c)
      PROVE  TypeOK'
      <2>1. seen[c] \in Version \cup {None}
            BY DEF Inv, TypeOK
      <2>2. ASSUME NEW v \in Version \cup {None}, Return(c, v)
            PROVE  TypeOK'
            BY <1>12, <2>2 DEF UncachedReturn, Return, Goto, Inv, TypeOK, Where, cacheVars, schemaVars
      <2> QED  BY <1>12, <2>1, <2>2 DEF UncachedReturn
<1>13. ASSUME NEW c \in Caller, NEW outcome \in Outcome, LeadFailed(c, outcome)
      PROVE  TypeOK'
      <2>1. /\ pc' \in [Caller -> Where]
            /\ result' \in [Caller -> Version \cup {None}]
            /\ key' \in [Caller -> Key \cup {None}]
            /\ seen' \in [Caller -> Version \cup {None}]
            /\ waitOn' \in [Caller -> Caller \cup {None}]
            /\ cancelled' \subseteq Caller
            BY <1>13 DEF LeadFailed, Return, Goto, Inv, TypeOK, Where
      <2> QED  BY <1>13, <2>1, SettleEffect DEF LeadFailed, Inv, TypeOK
<1>14. ASSUME NEW c \in Caller, NEW outcome \in Outcome, LeadStale(c, outcome)
      PROVE  TypeOK'
      <2>1. key[c] \in Key /\ generation \in Generation
            BY <1>14, SettleEffect DEF LeadStale, Inv, TypeOK
      <2>2. <<key[c][1], generation>> \in Key
            BY <2>1, KeyAt
      <2>3. /\ pc' \in [Caller -> Where]
            /\ key' \in [Caller -> Key \cup {None}]
            /\ seen' \in [Caller -> Version \cup {None}]
            /\ UNCHANGED <<waitOn, cancelled, result>>
            BY <1>14, <2>2 DEF LeadStale, Goto, Inv, TypeOK, Where
      <2> QED  BY <1>14, <2>3, SettleEffect DEF LeadStale, Inv, TypeOK
<1>15. ASSUME NEW c \in Caller, NEW outcome \in Outcome, LeadReturn(c, outcome)
      PROVE  TypeOK'
      <2>1. seen[c] \in Version \cup {None} /\ pc[c] = "build"
            BY <1>15 DEF Inv, TypeOK, LeadReturn
      <2>2. /\ pc' \in [Caller -> Where]
            /\ result' \in [Caller -> Version \cup {None}]
            /\ key' \in [Caller -> Key \cup {None}]
            /\ seen' \in [Caller -> Version \cup {None}]
            /\ waitOn' \in [Caller -> Caller \cup {None}]
            /\ cancelled' \subseteq Caller
            BY <1>15, <2>1 DEF LeadReturn, Return, Goto, Inv, TypeOK, Where
      <2> QED  BY <1>15, <2>1, <2>2, SettleEffect DEF LeadReturn, Inv, TypeOK
<1>16. ASSUME SchemaLock
      PROVE  TypeOK'
      BY <1>16, CacheAssumption DEF SchemaLock, Inv, TypeOK, cacheVars, schemaVars,
         callVars, SchemaInv, CallInv, Generation, Version, Where, Key
<1>17. ASSUME SchemaChange
      PROVE  TypeOK'
      BY <1>17, CacheAssumption DEF SchemaChange, Inv, TypeOK, cacheVars,
         schemaVars, callVars, SchemaInv, CallInv, Generation, Version, Where, Key
<1>18. ASSUME SchemaFail
      PROVE  TypeOK'
      BY <1>18, CacheAssumption DEF SchemaFail, Inv, TypeOK, cacheVars, schemaVars,
         callVars, SchemaInv, CallInv, Generation, Version, Where, Key
<1>19. ASSUME Invalidate
      PROVE  TypeOK'
      BY <1>19, CacheAssumption DEF Invalidate, NoEntries, Inv, TypeOK, cacheVars,
         schemaVars, callVars, SchemaInv, CallInv, Generation, Version, Where, Key
<1>20. ASSUME Close
      PROVE  TypeOK'
      BY <1>20, CacheAssumption DEF Close, Woken, NoEntries, Inv, TypeOK, cacheVars,
         schemaVars, callVars, SchemaInv, CallInv, Generation, Version, Where, Key
<1> QED  BY <1>1, <1>2, <1>3, <1>4, <1>5, <1>6, <1>7, <1>8, <1>9, <1>10, <1>11,
         <1>12, <1>13, <1>14, <1>15, <1>16, <1>17, <1>18, <1>19, <1>20 DEF Next,
         CallerStep

\* A step preserves the relation between a call's key and what its build read.
LEMMA NextCallInv == ASSUME Inv, Next PROVE CallInv'
<1>1. ASSUME NEW c \in Caller, NEW q \in Query, NEW optimized \in BOOLEAN, Compile(c, q, optimized)
      PROVE  CallInv'
      BY <1>1, CacheAssumption DEF Compile, Goto, Asserted, Inv, TypeOK, cacheVars,
         schemaVars, callVars, CallInv, SchemaInv, Generation, Version, Key
<1>2. ASSUME NEW c \in Caller, Cancel(c)
      PROVE  CallInv'
      BY <1>2, CacheAssumption DEF Cancel, Inv, TypeOK, cacheVars, schemaVars,
         callVars, CallInv, SchemaInv, Generation, Version, Key
<1>3. ASSUME NEW c \in Caller, TopCancelled(c)
      PROVE  CallInv'
      <2>1. Return(c, None) /\ UNCHANGED <<asked, generation>>
            BY <1>3 DEF TopCancelled, cacheVars
      <2> QED  BY <2>1, ReturnKeepsCallInv
<1>4. ASSUME NEW c \in Caller, TopClosed(c)
      PROVE  CallInv'
      BY <1>4, CacheAssumption DEF TopClosed, Goto, Inv, TypeOK, cacheVars,
         schemaVars, callVars, CallInv, SchemaInv, Generation, Version, Key
<1>5. ASSUME NEW c \in Caller, NEW bound \in BOOLEAN, TopHit(c, bound)
      PROVE  CallInv'
      <2>1. (\E v : Return(c, v)) /\ UNCHANGED <<asked, generation>>
            BY <1>5 DEF TopHit, cacheVars
      <2> QED  BY <2>1, ReturnKeepsCallInv
<1>6. ASSUME NEW c \in Caller, TopWait(c)
      PROVE  CallInv'
      BY <1>6, CacheAssumption DEF TopWait, Leaders, Goto, Inv, TypeOK, cacheVars,
         schemaVars, callVars, CallInv, SchemaInv, Generation, Version, Key
<1>7. ASSUME NEW c \in Caller, TopLead(c)
      PROVE  CallInv'
      BY <1>7, CacheAssumption DEF TopLead, Leaders, Goto, Inv, TypeOK, cacheVars,
         schemaVars, callVars, CallInv, SchemaInv, Generation, Version, Key
<1>8. ASSUME NEW c \in Caller, WaitReusable(c)
      PROVE  CallInv'
      BY <1>8, CacheAssumption DEF WaitReusable, Goto, Inv, TypeOK, cacheVars,
         schemaVars, callVars, CallInv, SchemaInv, Generation, Version, Key
<1>9. ASSUME NEW c \in Caller, WaitSpent(c)
      PROVE  CallInv'
      BY <1>9, CacheAssumption DEF WaitSpent, Goto, Inv, TypeOK, cacheVars,
         schemaVars, callVars, CallInv, SchemaInv, Generation, Version, Key
<1>10. ASSUME NEW c \in Caller, WaitCancelled(c)
      PROVE  CallInv'
      <2>1. Return(c, None) /\ UNCHANGED <<asked, generation>>
            BY <1>10 DEF WaitCancelled, cacheVars
      <2> QED  BY <2>1, ReturnKeepsCallInv
<1>11. ASSUME NEW c \in Caller, BuildRead(c)
      PROVE  CallInv'
      BY <1>11, CacheAssumption DEF BuildRead, Inv, TypeOK, cacheVars, schemaVars,
         callVars, CallInv, SchemaInv, Generation, Version, Key
<1>12. ASSUME NEW c \in Caller, UncachedReturn(c)
      PROVE  CallInv'
      <2>1. (Return(c, seen[c]) \/ Return(c, None)) /\ UNCHANGED <<asked, generation>>
            BY <1>12 DEF UncachedReturn, cacheVars
      <2> QED  BY <2>1, ReturnKeepsCallInv
<1>13. ASSUME NEW c \in Caller, NEW outcome \in Outcome, LeadFailed(c, outcome)
      PROVE  CallInv'
      <2>1. Return(c, None) /\ UNCHANGED <<asked, generation>>
            BY <1>13 DEF LeadFailed, Settle
      <2> QED  BY <2>1, ReturnKeepsCallInv
<1>14. ASSUME NEW c \in Caller, NEW outcome \in Outcome, LeadStale(c, outcome)
      PROVE  CallInv'
      <2>1. /\ UNCHANGED <<asked, generation>> /\ pc[c] = "build"
            /\ pc'[c] = "top" /\ seen'[c] = None /\ key'[c] = <<key[c][1], generation>>
            /\ \A w \in Caller \ {c} : pc'[w] = pc[w] /\ key'[w] = key[w] /\ seen'[w] = seen[w]
            BY <1>14 DEF LeadStale, Settle, Goto, Inv, TypeOK
      <2>2. key[c] \in Key /\ asked[c] <= key[c][2] /\ key[c][2] <= generation
            BY <2>1 DEF Inv, CallInv
      <2>3. generation \in Generation /\ asked[c] \in Generation
            BY DEF Inv, TypeOK, Version
      <2>4. /\ key'[c] \in Key /\ key'[c][2] = generation
            /\ asked[c] <= generation /\ generation <= generation
            <3>1. key[c][2] \in Generation /\ key'[c] \in Key /\ key'[c][2] = generation
                  BY <2>1, <2>2, <2>3, KeyAt
            <3>2. asked[c] <= generation /\ generation <= generation
                  BY <2>2, <2>3, <3>1, LaterGeneration
            <3> QED  BY <3>1, <3>2
      <2>5. ASSUME NEW d \in Caller
            PROVE  /\ pc'[d] # "idle" =>
                          /\ key'[d] \in Key
                          /\ asked'[d] <= key'[d][2]
                          /\ key'[d][2] <= generation'
                   /\ pc'[d] \in {"idle", "top", "wait"} => seen'[d] = None
                   /\ seen'[d] # None => seen'[d] >= key'[d][2]
            <3>1. CASE d = c
                  BY <2>1, <2>4, <3>1
            <3>2. CASE d # c
                  BY <2>1, <3>2 DEF Inv, CallInv
            <3> QED  BY <3>1, <3>2
      <2> QED  BY <2>5 DEF CallInv, Key, Generation
<1>15. ASSUME NEW c \in Caller, NEW outcome \in Outcome, LeadReturn(c, outcome)
      PROVE  CallInv'
      <2>1. Return(c, seen[c]) /\ UNCHANGED <<asked, generation>>
            BY <1>15 DEF LeadReturn, Settle
      <2> QED  BY <2>1, ReturnKeepsCallInv
<1>16. ASSUME SchemaLock
      PROVE  CallInv'
      BY <1>16, CacheAssumption DEF SchemaLock, Inv, TypeOK, cacheVars, schemaVars,
         callVars, CallInv, SchemaInv, Generation, Version, Key
<1>17. ASSUME SchemaChange
      PROVE  CallInv'
      BY <1>17, CacheAssumption DEF SchemaChange, Inv, TypeOK, cacheVars,
         schemaVars, callVars, CallInv, SchemaInv, Generation, Version, Key
<1>18. ASSUME SchemaFail
      PROVE  CallInv'
      BY <1>18, CacheAssumption DEF SchemaFail, Inv, TypeOK, cacheVars, schemaVars,
         callVars, CallInv, SchemaInv, Generation, Version, Key
<1>19. ASSUME Invalidate
      PROVE  CallInv'
      BY <1>19, CacheAssumption DEF Invalidate, NoEntries, Inv, TypeOK, cacheVars,
         schemaVars, callVars, CallInv, SchemaInv, Generation, Version, Key
<1>20. ASSUME Close
      PROVE  CallInv'
      BY <1>20, CacheAssumption DEF Close, Woken, NoEntries, Inv, TypeOK, cacheVars,
         schemaVars, callVars, CallInv, SchemaInv, Generation, Version, Key
<1> QED  BY <1>1, <1>2, <1>3, <1>4, <1>5, <1>6, <1>7, <1>8, <1>9, <1>10, <1>11,
         <1>12, <1>13, <1>14, <1>15, <1>16, <1>17, <1>18, <1>19, <1>20 DEF Next,
         CallerStep

\* A step that changes nothing leaders and waiters depend on.
Quiet == UNCHANGED <<pc, key, waitOn, signal, pending, closed>>

\* A step of a goroutine that neither leads nor waits afterwards, and did not
\* lead before.
Alone(c) ==
    /\ pc[c] # "build" /\ pc'[c] \notin {"build", "wait"} /\ signal'[c] = "none"
    /\ \A w \in Caller \ {c} :
          pc'[w] = pc[w] /\ key'[w] = key[w] /\ waitOn'[w] = waitOn[w] /\ signal'[w] = signal[w]
    /\ UNCHANGED <<pending, closed>>

\* The steps, by what they mean for leaders and waiters.
LEMMA Steps ==
    ASSUME Inv, Next
    PROVE  \/ Quiet \/ Close
           \/ \E c \in Caller : Alone(c) \/ TopWait(c) \/ TopLead(c)
           \/ \E c \in Caller, outcome \in Outcome :
                 LeadFailed(c, outcome) \/ LeadStale(c, outcome) \/ LeadReturn(c, outcome)
<1>0. /\ pc \in [Caller -> Where] /\ key \in [Caller -> Key \cup {None}]
      /\ waitOn \in [Caller -> Caller \cup {None}]
      /\ signal \in [Caller -> {"none", "reusable", "spent"}]
      /\ \A c \in Caller : pc[c] # "wait" => signal[c] = "none"
      BY DEF Inv, TypeOK, SignalInv
<1>1. ASSUME NEW c \in Caller, NEW q \in Query, NEW optimized \in BOOLEAN, Compile(c, q, optimized)
      PROVE  Alone(c)
      BY <1>0, <1>1 DEF Compile, Goto, Alone, cacheVars
<1>2. ASSUME NEW c \in Caller, Cancel(c) \/ BuildRead(c)
      PROVE  Quiet
      BY <1>2 DEF Cancel, BuildRead, Quiet, cacheVars
<1>3. ASSUME NEW c \in Caller, TopCancelled(c)
      PROVE  Alone(c)
      BY <1>0, <1>3 DEF TopCancelled, Return, Goto, Alone, cacheVars
<1>4. ASSUME NEW c \in Caller, TopClosed(c)
      PROVE  Alone(c)
      BY <1>0, <1>4, ZenonT(30) DEF TopClosed, Goto, Alone, cacheVars
<1>5. ASSUME NEW c \in Caller, NEW bound \in BOOLEAN, TopHit(c, bound)
      PROVE  Alone(c)
      BY <1>0, <1>5 DEF TopHit, Return, Goto, Alone, cacheVars
<1>6. ASSUME NEW c \in Caller, WaitReusable(c)
      PROVE  Alone(c)
      BY <1>0, <1>6 DEF WaitReusable, Goto, Alone, cacheVars
<1>7. ASSUME NEW c \in Caller, WaitSpent(c)
      PROVE  Alone(c)
      BY <1>0, <1>7 DEF WaitSpent, Goto, Alone, cacheVars
<1>8. ASSUME NEW c \in Caller, WaitCancelled(c)
      PROVE  Alone(c)
      BY <1>0, <1>8 DEF WaitCancelled, Return, Goto, Alone, cacheVars
<1>9. ASSUME NEW c \in Caller, UncachedReturn(c)
      PROVE  Alone(c)
      <2>1. /\ pc[c] = "uncached" /\ UNCHANGED <<pending, closed, signal>>
            /\ Return(c, seen[c]) \/ Return(c, None)
            BY <1>9 DEF UncachedReturn, cacheVars
      <2>2. ASSUME NEW v, Return(c, v)
            PROVE  Alone(c)
            BY <1>0, <2>1, <2>2 DEF Return, Goto, Alone
      <2> QED  BY <2>1, <2>2
<1>10. ASSUME SchemaLock \/ SchemaChange \/ SchemaFail \/ Invalidate
       PROVE  Quiet
       BY <1>10 DEF SchemaLock, SchemaChange, SchemaFail, Invalidate, Quiet, cacheVars, callVars
<1> QED  BY <1>1, <1>2, <1>3, <1>4, <1>5, <1>6, <1>7, <1>8, <1>9, <1>10 DEF Next, CallerStep

\* Such a goroutine disturbs no leader and no waiter.
LEMMA AloneKeeps ==
    ASSUME Inv, NEW c \in Caller, Alone(c)
    PROVE  PendingInv' /\ SignalInv' /\ OneLeader' /\ WaiterHasLeader'
<1>1. PendingInv'
      <2>1. \A k \in Key, d \in Caller : <<k, d>> \in pending => d # c
            BY DEF Inv, PendingInv, Alone
      <2> QED  BY <2>1 DEF Inv, PendingInv, Alone
<1>2. SignalInv'
      BY DEF Inv, SignalInv, Alone
<1>3. OneLeader'
      BY DEF Inv, OneLeader, Alone
<1>4. ASSUME NEW w \in Caller, pc'[w] = "wait", signal'[w] = "none"
      PROVE  /\ <<key'[w], waitOn'[w]>> \in pending'
             /\ pc'[waitOn'[w]] = "build" /\ key'[waitOn'[w]] = key'[w]
      <2>1. w # c /\ pc[w] = "wait" /\ signal[w] = "none" /\ key'[w] = key[w] /\ waitOn'[w] = waitOn[w]
            BY <1>4 DEF Alone
      <2>2. <<key[w], waitOn[w]>> \in pending /\ pc[waitOn[w]] = "build" /\ key[waitOn[w]] = key[w]
            BY <2>1 DEF Inv, WaiterHasLeader
      <2>3. waitOn[w] \in Caller \ {c}
            BY <2>2 DEF Inv, TypeOK, Alone
      <2> QED  BY <2>1, <2>2, <2>3 DEF Alone
<1> QED  BY <1>1, <1>2, <1>3, <1>4 DEF WaiterHasLeader

\* A goroutine that begins to wait has found the leader of its key.
LEMMA TopWaitKeeps ==
    ASSUME Inv, NEW c \in Caller, TopWait(c)
    PROVE  PendingInv' /\ SignalInv' /\ OneLeader' /\ WaiterHasLeader'
<1>1. PICK l \in Leaders(key[c]) : waitOn' = [waitOn EXCEPT ![c] = l]
      BY ZenonT(30) DEF TopWait
<1>2. /\ pc[c] = "top" /\ pc'[c] = "wait" /\ UNCHANGED <<key, signal, pending, closed>>
      /\ \A w \in Caller \ {c} : pc'[w] = pc[w] /\ waitOn'[w] = waitOn[w]
      /\ waitOn'[c] = l
      BY <1>1 DEF TopWait, Goto, Inv, TypeOK, cacheVars
<1>3. l \in Caller /\ <<key[c], l>> \in pending /\ key[c] \in Key
      BY <1>1, <1>2 DEF Leaders, Inv, CallInv
<1>4. pc[l] = "build" /\ key[l] = key[c] /\ l # c
      BY <1>2, <1>3 DEF Inv, PendingInv
<1>5. PendingInv'
      <2>1. \A k \in Key, d \in Caller : <<k, d>> \in pending => d # c
            BY <1>2 DEF Inv, PendingInv
      <2> QED  BY <1>2, <2>1 DEF Inv, PendingInv
<1>6. SignalInv'
      BY <1>2 DEF Inv, SignalInv
<1>7. OneLeader'
      BY <1>2 DEF Inv, OneLeader
<1>8. ASSUME NEW w \in Caller \ {c}, pc'[w] = "wait", signal'[w] = "none"
      PROVE  /\ <<key'[w], waitOn'[w]>> \in pending'
             /\ pc'[waitOn'[w]] = "build" /\ key'[waitOn'[w]] = key'[w]
      <2>1. <<key[w], waitOn[w]>> \in pending /\ pc[waitOn[w]] = "build" /\ key[waitOn[w]] = key[w]
            BY <1>2, <1>8 DEF Inv, WaiterHasLeader
      <2>2. waitOn[w] \in Caller \ {c}
            BY <1>2, <2>1 DEF Inv, TypeOK
      <2> QED  BY <1>2, <1>8, <2>1, <2>2
<1>9. /\ <<key'[c], waitOn'[c]>> \in pending'
      /\ pc'[waitOn'[c]] = "build" /\ key'[waitOn'[c]] = key'[c]
      BY <1>2, <1>3, <1>4
<1>10. WaiterHasLeader'
      BY <1>8, <1>9 DEF WaiterHasLeader
<1> QED  BY <1>5, <1>6, <1>7, <1>10

\* A goroutine that begins to lead has found no leader of its key.
LEMMA TopLeadKeeps ==
    ASSUME Inv, NEW c \in Caller, TopLead(c)
    PROVE  PendingInv' /\ SignalInv' /\ OneLeader' /\ WaiterHasLeader'
<1>1. /\ pc[c] = "top" /\ pc'[c] = "build" /\ ~closed /\ UNCHANGED <<key, signal, waitOn, closed>>
      /\ \A w \in Caller \ {c} : pc'[w] = pc[w]
      /\ pending' = pending \cup {<<key[c], c>>}
      BY DEF TopLead, Goto, Inv, TypeOK
<1>2. \A d \in Caller : <<key[c], d>> \notin pending
      BY DEF TopLead, Leaders
<1>3. \A k \in Key, d \in Caller : <<k, d>> \in pending => d # c /\ pc[d] = "build" /\ key[d] = k
      BY <1>1 DEF Inv, PendingInv
<1>4. \A d \in Caller : pc[d] = "build" => <<key[d], d>> \in pending
      BY <1>1 DEF Inv, PendingInv
<1>5. PendingInv'
      <2>1. ASSUME NEW k \in Key, NEW d \in Caller, <<k, d>> \in pending'
            PROVE  pc'[d] = "build" /\ key'[d] = k
            <3>1. CASE <<k, d>> \in pending
                  BY <1>1, <1>3, <3>1
            <3>2. CASE <<k, d>> = <<key[c], c>>
                  BY <1>1, <3>2
            <3> QED  BY <1>1, <2>1, <3>1, <3>2
      <2>2. ASSUME NEW d \in Caller, pc'[d] = "build"
            PROVE  <<key'[d], d>> \in pending'
            BY <1>1, <1>4, <2>2
      <2> QED  BY <2>1, <2>2 DEF PendingInv
<1>6. SignalInv'
      BY <1>1 DEF Inv, SignalInv
<1>7. OneLeader'
      <2>1. ASSUME NEW d \in Caller, NEW e \in Caller, d # e,
                   pc'[d] = "build", pc'[e] = "build", key'[d] = key'[e]
            PROVE  FALSE
            <3>1. CASE d = c
                  BY <1>1, <1>2, <1>4, <2>1, <3>1, ZenonT(30)
            <3>2. CASE e = c
                  BY <1>1, <1>2, <1>4, <2>1, <3>2, ZenonT(30)
            <3>3. CASE d # c /\ e # c
                  BY <1>1, <2>1, <3>3 DEF Inv, OneLeader
            <3> QED  BY <3>1, <3>2, <3>3
      <2>2. ASSUME NEW d \in Caller, NEW e \in Caller, d # e,
                   NEW k \in Key, <<k, d>> \in pending', <<k, e>> \in pending'
            PROVE  FALSE
            <3>1. pc'[d] = "build" /\ key'[d] = k /\ pc'[e] = "build" /\ key'[e] = k
                  BY <1>5, <2>2 DEF PendingInv
            <3> QED  BY <2>1, <2>2, <3>1
      <2> QED  BY <2>1, <2>2 DEF OneLeader
<1>8. ASSUME NEW w \in Caller, pc'[w] = "wait", signal'[w] = "none"
      PROVE  /\ <<key'[w], waitOn'[w]>> \in pending'
             /\ pc'[waitOn'[w]] = "build" /\ key'[waitOn'[w]] = key'[w]
      <2>1. <<key[w], waitOn[w]>> \in pending /\ pc[waitOn[w]] = "build" /\ key[waitOn[w]] = key[w]
            BY <1>1, <1>8 DEF Inv, WaiterHasLeader
      <2>2. waitOn[w] \in Caller \ {c}
            BY <1>1, <2>1 DEF Inv, TypeOK
      <2> QED  BY <1>1, <2>1, <2>2
<1>9. WaiterHasLeader'
      BY <1>8 DEF WaiterHasLeader
<1> QED  BY <1>5, <1>6, <1>7, <1>9

\* Close tells every goroutine that waits.
LEMMA CloseKeeps ==
    ASSUME Inv, Close
    PROVE  PendingInv' /\ SignalInv' /\ OneLeader' /\ WaiterHasLeader'
<1>1. /\ UNCHANGED <<pc, key, waitOn>> /\ pending' = {} /\ closed'
      /\ signal' = Woken({p[2] : p \in pending}, FALSE)
      BY ZenonT(30) DEF Close
<1>2. ASSUME NEW w \in Caller, pc[w] = "wait", signal[w] = "none"
      PROVE  waitOn[w] \in {p[2] : p \in pending}
      <2>1. <<key[w], waitOn[w]>> \in pending
            BY <1>2 DEF Inv, WaiterHasLeader
      <2>2. <<key[w], waitOn[w]>>[2] = waitOn[w]
            OBVIOUS
      <2> QED  BY <2>1, <2>2
<1>3. \A w \in Caller : IF pc[w] = "wait" THEN signal'[w] # "none" ELSE signal'[w] = signal[w]
      BY <1>1, <1>2 DEF Woken
<1>4. PendingInv'
      BY <1>1, ZenonT(30) DEF PendingInv
<1>5. SignalInv'
      BY <1>1, <1>3, ZenonT(30) DEF Inv, SignalInv
<1>6. OneLeader'
      BY <1>1, SMTT(30) DEF Inv, OneLeader
<1>7. WaiterHasLeader'
      BY <1>1, <1>3, ZenonT(30) DEF WaiterHasLeader
<1> QED  BY <1>4, <1>5, <1>6, <1>7

\* Every step preserves what relates pending calls, leaders and waiters.
LEMMA NextLeaders == ASSUME Inv, Next PROVE PendingInv' /\ SignalInv' /\ OneLeader' /\ WaiterHasLeader'
<1>1. CASE Quiet
      <2>1. PendingInv' /\ SignalInv'
            BY <1>1 DEF Quiet, Inv, PendingInv, SignalInv
      <2>2. OneLeader' /\ WaiterHasLeader'
            BY <1>1 DEF Quiet, Inv, OneLeader, WaiterHasLeader
      <2> QED  BY <2>1, <2>2
<1> QED  BY <1>1, Steps, AloneKeeps, TopWaitKeeps, TopLeadKeeps, LeadKeeps, CloseKeeps

\* A step preserves that results are fresh: a call returns an error, or what is
\* no older than its key.
LEMMA NextFreshResult == ASSUME Inv, Next PROVE FreshResult'
<1>1. CASE UNCHANGED <<pc, result, asked>>
      BY <1>1 DEF Inv, FreshResult
<1>2. ASSUME NEW c \in Caller, pc'[c] # "idle", result' = result,
             \A w \in Caller \ {c} : pc'[w] = pc[w] /\ asked'[w] = asked[w]
      PROVE  FreshResult'
      BY <1>2 DEF Inv, FreshResult
<1>3. ASSUME NEW c \in Caller, NEW v, Return(c, v), asked' = asked, v # None => v >= asked[c]
      PROVE  FreshResult'
      <2>1. /\ result'[c] = v
            /\ \A w \in Caller \ {c} : pc'[w] = pc[w] /\ result'[w] = result[w]
            BY <1>3 DEF Return, Goto, Inv, TypeOK
      <2> QED  BY <1>3, <2>1 DEF Inv, FreshResult
<1>4. ASSUME NEW c \in Caller, pc[c] # "idle"
      PROVE  seen[c] # None => seen[c] >= asked[c]
      BY <1>4, CacheAssumption DEF Inv, TypeOK, CallInv, Generation, Version, Key
<1>5. ASSUME NEW c \in Caller, NEW q \in Query, NEW optimized \in BOOLEAN, Compile(c, q, optimized)
      PROVE  FreshResult'
      <2>1. /\ pc'[c] # "idle" /\ result' = result
            /\ \A w \in Caller \ {c} : pc'[w] = pc[w] /\ asked'[w] = asked[w]
            BY <1>5 DEF Compile, Goto, Inv, TypeOK
      <2> QED  BY <1>2, <2>1
<1>6. ASSUME NEW c \in Caller, Cancel(c) \/ BuildRead(c)
      PROVE  FreshResult'
      BY <1>1, <1>6 DEF Cancel, BuildRead
<1>7. ASSUME NEW c \in Caller, TopCancelled(c) \/ WaitCancelled(c)
      PROVE  FreshResult'
      <2>1. Return(c, None) /\ asked' = asked
            BY <1>7 DEF TopCancelled, WaitCancelled
      <2> QED  BY <1>3, <2>1
<1>8. ASSUME NEW c \in Caller,
             TopClosed(c) \/ TopWait(c) \/ TopLead(c) \/ WaitReusable(c) \/ WaitSpent(c)
      PROVE  FreshResult'
      <2>1. \E where \in {"uncached", "wait", "build", "top"} : Goto(c, where)
            BY <1>8 DEF TopClosed, TopWait, TopLead, WaitReusable, WaitSpent
      <2>2. asked' = asked /\ result' = result
            BY <1>8 DEF TopClosed, TopWait, TopLead, WaitReusable, WaitSpent
      <2>3. pc'[c] # "idle" /\ \A w \in Caller \ {c} : pc'[w] = pc[w]
            BY <2>1 DEF Goto, Inv, TypeOK
      <2> QED  BY <1>2, <2>2, <2>3
<1>9. ASSUME NEW c \in Caller, NEW bound \in BOOLEAN, TopHit(c, bound)
      PROVE  FreshResult'
      <2>1. pc[c] = "top" /\ asked' = asked /\ entries[key[c]] # None
            BY <1>9 DEF TopHit
      <2>2. /\ key[c] \in Key /\ asked[c] <= key[c][2]
            BY <2>1 DEF Inv, CallInv
      <2>3. /\ key[c][2] = generation /\ entries[key[c]] >= generation
            /\ entries[key[c]] \in Version /\ generation \in Generation /\ asked[c] \in Version
            BY <2>1, <2>2 DEF Inv, NoStaleEntry, TypeOK
      <2>4. entries[key[c]] >= asked[c]
            BY <2>2, <2>3, CacheAssumption DEF Version, Generation
      <2>5. CASE bound
            BY <1>3, <1>9, <2>1, <2>4, <2>5 DEF TopHit
      <2>6. CASE ~bound
            BY <1>3, <1>9, <2>1, <2>6 DEF TopHit
      <2> QED  BY <2>5, <2>6
<1>10. ASSUME NEW c \in Caller, UncachedReturn(c)
      PROVE  FreshResult'
      <2>1. pc[c] = "uncached" /\ asked' = asked /\ (Return(c, seen[c]) \/ Return(c, None))
            BY <1>10 DEF UncachedReturn
      <2>2. CASE Return(c, None)
            BY <1>3, <2>1, <2>2
      <2>3. CASE Return(c, seen[c])
            BY <1>3, <1>4, <2>1, <2>3
      <2> QED  BY <2>1, <2>2, <2>3
<1>11. ASSUME NEW c \in Caller, NEW outcome \in Outcome, LeadFailed(c, outcome)
      PROVE  FreshResult'
      <2>1. Return(c, None) /\ asked' = asked
            BY <1>11 DEF LeadFailed, Settle
      <2> QED  BY <1>3, <2>1
<1>12. ASSUME NEW c \in Caller, NEW outcome \in Outcome, LeadStale(c, outcome)
      PROVE  FreshResult'
      <2>1. Goto(c, "top") /\ asked' = asked /\ result' = result
            BY <1>12 DEF LeadStale, Settle
      <2>2. pc'[c] # "idle" /\ \A w \in Caller \ {c} : pc'[w] = pc[w]
            BY <2>1 DEF Goto, Inv, TypeOK
      <2> QED  BY <1>2, <2>1, <2>2
<1>13. ASSUME NEW c \in Caller, NEW outcome \in Outcome, LeadReturn(c, outcome)
      PROVE  FreshResult'
      <2>1. pc[c] = "build" /\ Return(c, seen[c]) /\ asked' = asked
            BY <1>13 DEF LeadReturn, Settle
      <2> QED  BY <1>3, <1>4, <2>1
<1>14. CASE SchemaLock \/ SchemaChange \/ SchemaFail \/ Invalidate \/ Close
      BY <1>1, <1>14 DEF SchemaLock, SchemaChange, SchemaFail, Invalidate, Close, callVars
<1> QED  BY <1>5, <1>6, <1>7, <1>8, <1>9, <1>10, <1>11, <1>12, <1>13, <1>14 DEF Next, CallerStep
-----------------------------------------------------------------------------
\* The invariant is inductive.
LEMMA InvStep == Inv /\ [Next]_vars => Inv'
<1>1. ASSUME Inv, Next PROVE Inv'
      BY <1>1, NextTypeOK, NextSchemaInv, NextCallInv, NextLeaders, NextFreshResult, NextEntriesInv
      DEF Inv
<1>2. ASSUME Inv, UNCHANGED vars PROVE Inv'
      BY <1>2 DEF vars, cacheVars, schemaVars, callVars, Inv, TypeOK, SchemaInv, CallInv, PendingInv,
         SignalInv, FreshResult, NoStaleEntry, OneLeader, WaiterHasLeader, ClosedIsEmpty
<1> QED  BY <1>1, <1>2

\* The invariant holds of every cache (GetOrBuildContext, Invalidate, Close).
THEOREM TranslationCacheInvariant == Spec => []Inv
<1> QED  BY InitInv, InvStep, PTL DEF Spec

\* Compilations return SQL at least as new as the last schema asserted before
\* they began (SchemaManager.compile through GetOrBuildContext).
THEOREM TranslationCacheFresh == Spec => []FreshResult
<1>1. Inv => FreshResult
      BY DEF Inv
<1> QED  BY <1>1, TranslationCacheInvariant, PTL

\* What can be found in the cache is of the current generation (Invalidate, and
\* the test of the generation before a leader publishes).
THEOREM TranslationCacheNoStaleEntry == Spec => []NoStaleEntry
<1>1. Inv => NoStaleEntry
      BY DEF Inv
<1> QED  BY <1>1, TranslationCacheInvariant, PTL

\* Concurrent misses of one key share one build (the map pending).
THEOREM TranslationCacheOneLeader == Spec => []OneLeader
<1>1. Inv => OneLeader
      BY DEF Inv
<1> QED  BY <1>1, TranslationCacheInvariant, PTL

\* No wakeup is lost, whatever becomes of the build that is waited for, and
\* after Close nothing is left to wait for or to find (Settle, Close).
THEOREM TranslationCacheWaiters == Spec => [](WaiterHasLeader /\ ClosedIsEmpty)
<1>1. Inv => WaiterHasLeader /\ ClosedIsEmpty
      BY DEF Inv
<1> QED  BY <1>1, TranslationCacheInvariant, PTL
=============================================================================
