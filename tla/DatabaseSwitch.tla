--------------------------- MODULE DatabaseSwitch ---------------------------
(***************************************************************************)
(* graph.DatabaseSwitch (src/graph/switch.go): every operation is issued   *)
(* an internal context and runs on the current database under a read lock; *)
(* Switch cancels the contexts it finds, takes the write lock and replaces *)
(* the database.                                                           *)
(*                                                                         *)
(* Operations are of three classes: "aware" ones pass the internal context *)
(* on (ReadTransaction, WriteTransaction, BatchOperation, Run,             *)
(* OptimizeStorage), "blind" ones are issued one but run with the caller's *)
(* (AssertSchema, Close, FetchKinds, RefreshKinds), and SetDefaultGraph,   *)
(* "bare", has none.  The flag inSwitch is written without ctxLock; the    *)
(* lock and unlock of ctxLock in cancelInternalContexts order the write    *)
(* before every later read, so the steps below lose no outcome of the      *)
(* race.  currentDBLock is Go's RWMutex: a writer that waits keeps new     *)
(* readers out.                                                            *)
(***************************************************************************)
EXTENDS FiniteSets, Naturals

CONSTANTS
    Client,     \* goroutines that operate on the database
    Switcher,   \* goroutines that call Switch, once each
    Initial,    \* the database the switch is created with
    None

ASSUME SwitchAssumption == None \notin Switcher /\ Client \cap Switcher = {}

\* The database a call of Switch installs is named after its caller.
DB == Switcher \cup {Initial}

VARIABLES
    currentDB,
    inSwitch,
    active,     \* activeContexts
    live,       \* the contexts that are not cancelled
    writer,     \* the Switcher that holds or waits for the write lock, or None
    readers,    \* the clients that hold the read lock
    pc,         \* where each client and switcher is
    class,      \* the class of a client's operation
    issued      \* the database that was current when its operation began

switchVars == <<currentDB, inSwitch, active, live, writer, readers, pc, class, issued>>
lockVars == <<writer, readers>>
opVars == <<class, issued>>

NewDatabaseSwitch ==
    /\ currentDB = Initial
    /\ inSwitch = FALSE
    /\ active = {} /\ live = {}
    /\ writer = None /\ readers = {}
    /\ pc = [p \in Client \cup Switcher |-> "idle"]
    /\ class = [c \in Client |-> "aware"]
    /\ issued = [c \in Client |-> Initial]

Goto(p, where) == pc' = [pc EXCEPT ![p] = where]
-----------------------------------------------------------------------------
\* A bug: contexts are issued during a switch too.
MayIssueAlways == TRUE

MayIssue == ~inSwitch

\* newInternalContext.
newInternalContext(c, k) ==
    /\ pc[c] = "idle" /\ k \in {"aware", "blind"} /\ MayIssue
    /\ active' = active \cup {c} /\ live' = live \cup {c}
    /\ class' = [class EXCEPT ![c] = k]
    /\ issued' = [issued EXCEPT ![c] = currentDB]
    /\ Goto(c, "issued")
    /\ UNCHANGED <<currentDB, inSwitch, lockVars>>

\* It returns ErrAuthoritativeDatabaseSwitching.
Refused(c) ==
    /\ pc[c] = "idle" /\ ~MayIssue
    /\ Goto(c, "refused")
    /\ UNCHANGED <<currentDB, inSwitch, active, live, lockVars, opVars>>

\* The caller tries again.
Retry(c) ==
    /\ pc[c] = "refused"
    /\ Goto(c, "idle")
    /\ UNCHANGED <<currentDB, inSwitch, active, live, lockVars, opVars>>

SetDefaultGraph(c) ==
    /\ pc[c] = "idle"
    /\ class' = [class EXCEPT ![c] = "bare"]
    /\ issued' = [issued EXCEPT ![c] = currentDB]
    /\ Goto(c, "issued")
    /\ UNCHANGED <<currentDB, inSwitch, active, live, lockVars>>

\* currentDBLock.RLock.
RLock(c) ==
    /\ pc[c] = "issued" /\ writer = None
    /\ readers' = readers \cup {c}
    /\ Goto(c, "running")
    /\ UNCHANGED <<currentDB, inSwitch, active, live, writer, opVars>>

\* The operation returns and the deferred RUnlock is run.
RUnlock(c) ==
    /\ pc[c] = "running"
    /\ readers' = readers \ {c}
    /\ Goto(c, IF class[c] = "bare" THEN "idle" ELSE "retiring")
    /\ UNCHANGED <<currentDB, inSwitch, active, live, writer, opVars>>

\* A bug: a context that was cancelled before is not forgotten.
ForgottenIfLive(c) == IF c \in live THEN active \ {c} ELSE active

CancelledOne(c) == live \ {c}

Forgotten(c) == active \ {c}

retireInternalContext(c) ==
    /\ pc[c] = "retiring"
    /\ active' = Forgotten(c) /\ live' = CancelledOne(c)
    /\ Goto(c, "idle")
    /\ UNCHANGED <<currentDB, inSwitch, lockVars, opVars>>
-----------------------------------------------------------------------------
Switch(s) ==
    /\ pc[s] = "idle"
    /\ inSwitch' = TRUE
    /\ Goto(s, "cancelling")
    /\ UNCHANGED <<currentDB, active, live, lockVars, opVars>>

\* A bug: the contexts are left alone.
CancelledNone == live

Cancelled == live \ active

cancelInternalContexts(s) ==
    /\ pc[s] = "cancelling"
    /\ live' = Cancelled
    /\ Goto(s, "locking")
    /\ UNCHANGED <<currentDB, inSwitch, active, lockVars, opVars>>

\* Lock: from here on new readers wait.
RequestLock(s) ==
    /\ pc[s] = "locking" /\ writer = None
    /\ writer' = s
    /\ Goto(s, "draining")
    /\ UNCHANGED <<currentDB, inSwitch, active, live, readers, opVars>>

Drained == readers = {}

\* The readers are gone: the database is replaced and the lock released.
Replace(s) ==
    /\ pc[s] = "draining" /\ Drained
    /\ currentDB' = s
    /\ writer' = None
    /\ Goto(s, "leaving")
    /\ UNCHANGED <<inSwitch, active, live, readers, opVars>>

\* The deferred reset of inSwitch.
Leave(s) ==
    /\ pc[s] = "leaving"
    /\ inSwitch' = FALSE
    /\ Goto(s, "done")
    /\ UNCHANGED <<currentDB, active, live, lockVars, opVars>>
-----------------------------------------------------------------------------
SwitchStep(s) == cancelInternalContexts(s) \/ RequestLock(s) \/ Replace(s) \/ Leave(s)

SwitchNext ==
    \/ \E c \in Client :
          \/ \E k \in {"aware", "blind"} : newInternalContext(c, k)
          \/ Refused(c) \/ Retry(c) \/ SetDefaultGraph(c)
          \/ RLock(c) \/ RUnlock(c) \/ retireInternalContext(c)
    \/ \E s \in Switcher : Switch(s) \/ SwitchStep(s)

SwitchSpec == NewDatabaseSwitch /\ [][SwitchNext]_switchVars

\* Goroutines that can run are run.  An operation is only assumed to end when
\* its context is cancelled or when it is one of the short ones that ignore
\* theirs: the caller's transaction may stay open for as long as it likes.
Fairness ==
    /\ \A s \in Switcher : WF_switchVars(SwitchStep(s))
    /\ \A c \in Client :
          /\ WF_switchVars(RUnlock(c) /\ (c \notin live \/ class[c] # "aware"))
          /\ WF_switchVars(RLock(c) \/ retireInternalContext(c))

FairSpec == SwitchSpec /\ Fairness
-----------------------------------------------------------------------------

\* What the cancellation of contexts is for: an operation whose context is
\* still alive runs on the database that was authoritative when the context
\* was issued.  Only a cancelled one can find itself on another.
LiveOperationOnItsDatabase ==
    \A c \in Client :
        pc[c] = "running" /\ class[c] = "aware" /\ c \in live => issued[c] = currentDB

\* The contexts that are registered are those of operations under way: none is
\* left behind when an operation that was cancelled, or not, returns.
NoContextLeft ==
    \A c \in Client : c \in active <=> pc[c] \in {"issued", "running", "retiring"} /\ class[c] # "bare"

\* Switch comes to an end although callers keep their transactions open as
\* long as they may: those it finds are cancelled and no new ones get in.
SwitchEnds == \A s \in Switcher : pc[s] = "cancelling" ~> pc[s] = "done"
=============================================================================
