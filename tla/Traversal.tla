----------------------------- MODULE Traversal -----------------------------
(***************************************************************************)
(* The parallel breadth-first traversal: src/traversal/traversal.go,       *)
(* Traversal.BreadthFirst, over the buffered pipe of src/util/channels.    *)
(*                                                                         *)
(* Workers take path segments from the pipe, ask the driver for the        *)
(* segments below, and put those back.  descentCount counts the segments   *)
(* in flight; after each segment a worker sends a completion, and the      *)
(* caller's goroutine looks at the count for every completion it receives. *)
(*                                                                         *)
(* A send on an unbuffered channel and its receipt are one step.  A select *)
(* with the context done and its channel ready takes either.               *)
(*                                                                         *)
(* The database may be a graph.DatabaseSwitch.  Its Switch cancels the     *)
(* contexts of the workers' transactions and leaves the traversal's alone. *)
(***************************************************************************)
EXTENDS Naturals, Sequences, FiniteSets

CONSTANTS
    Teams,      \* the sets of workers a traversal may be made with (numWorkers)
    Segment,    \* path segments
    Root,
    Trees,      \* what the driver answers: functions from segments to sequences
    Slots,      \* how many transactions the database may have open
    None

ASSUME TraversalAssumption ==
    /\ \A t \in Teams : IsFiniteSet(t) /\ t # {}
    /\ Root \in Segment /\ None \notin Segment
    /\ Trees \subseteq [Segment -> Seq(Segment)] /\ Slots \subseteq Nat \ {0}

Worker == UNION Teams

VARIABLES
    team,                       \* the workers of this traversal
    tree, free,                 \* the graph; transactions that may still be opened
    main,                       \* the caller's goroutine
    at, hold, below,            \* the workers: where, with which segment and what is to be sent
    buffer, pipe, closed,       \* the pipe, its goroutine, whether its writer was closed
    count, completions,         \* descentCount and the length of completionC
    cancelled, interrupted,     \* the traversal's context, and the caller's
    severed,                    \* workers whose transaction's context a switch cancelled
    collected,                  \* the errors collected
    failed, visits, dropped     \* history: workers that met an error, visits of a segment,
                                \* workers that ended with a segment in hand

workers == <<at, hold, below>>
channel == <<buffer, pipe, closed, completions>>
context == <<cancelled, interrupted, severed>>
history == <<failed, visits, dropped>>
vars == <<team, tree, free, main, workers, channel, count, context, collected, history>>

Capacity == 2 * Cardinality(team)

\* Where a worker has its transaction open.
Open == {"receive", "drive", "add", "send", "lower", "complete"}
NoRoot == "no root specified"

Init ==
    /\ team \in Teams /\ tree \in Trees /\ free \in Slots
    /\ main = "start"
    /\ at = [w \in Worker |-> "none"] /\ hold = [w \in Worker |-> None]
    /\ below = [w \in Worker |-> <<>>]
    /\ buffer = <<>> /\ pipe = "open" /\ closed = FALSE /\ completions = 0
    /\ count = 0 /\ cancelled = FALSE /\ interrupted = FALSE /\ collected = {}
    /\ failed = {} /\ visits = [s \in Segment |-> 0] /\ severed = {} /\ dropped = {}
-----------------------------------------------------------------------------
\* BreadthFirst up to the submission of the root.
Launch ==
    /\ main = "start"
    /\ main' = "submit" /\ at' = [w \in Worker |-> IF w \in team THEN "begin" ELSE "none"] /\ count' = count + 1
    /\ UNCHANGED <<team, tree, free, hold, below, channel, context, collected, history>>

Rootless ==
    /\ main = "start" /\ main' = "close" /\ collected' = {NoRoot}
    /\ UNCHANGED <<team, tree, free, workers, channel, count, context, history>>

SubmitRoot ==
    /\ main = "submit"
    /\ \/ /\ pipe = "open" /\ main' = "wait" /\ buffer' = Append(buffer, Root)
       \/ /\ cancelled /\ main' = "cancel" /\ UNCHANGED buffer
    /\ UNCHANGED <<team, tree, free, workers, pipe, closed, completions, count, context, collected, history>>

Await ==
    /\ main = "wait"
    /\ \/ /\ completions > 0 /\ completions' = completions - 1 /\ main' = "look"
       \/ /\ cancelled /\ main' = "cancel" /\ UNCHANGED completions
    /\ UNCHANGED <<team, tree, free, workers, buffer, pipe, closed, count, context, collected, history>>

\* A bug: the segment that has just been completed is taken to be counted still.
FinishedEarly == count <= 1

Finished == count = 0

Look ==
    /\ main = "look" /\ main' = IF Finished THEN "cancel" ELSE "wait"
    /\ UNCHANGED <<team, tree, free, workers, channel, count, context, collected, history>>

CancelTraversal ==
    /\ main = "cancel" /\ main' = "join" /\ cancelled' = TRUE
    /\ UNCHANGED <<team, tree, free, workers, channel, count, interrupted, severed, collected, history>>

\* A bug: the caller waits only for the workers that wait for segments.
JoinedIdle == \A w \in team : at[w] # "receive"

\* workerWG.Wait.
Joined == \A w \in team : at[w] = "exited"

Join ==
    /\ main = "join" /\ Joined /\ main' = "close"
    /\ UNCHANGED <<team, tree, free, workers, channel, count, context, collected, history>>

\* The deferred calls: the writer is closed, then the context is cancelled.
CloseWriter ==
    /\ main = "close" /\ main' = "release" /\ closed' = TRUE
    /\ UNCHANGED <<team, tree, free, workers, buffer, pipe, completions, count, context, collected, history>>

Return ==
    /\ main = "release" /\ main' = "returned" /\ cancelled' = TRUE
    /\ UNCHANGED <<team, tree, free, workers, channel, count, interrupted, severed, collected, history>>

\* The caller's context is cancelled or times out.
Interrupt ==
    /\ main # "returned" /\ ~interrupted /\ interrupted' = TRUE /\ cancelled' = TRUE
    /\ UNCHANGED <<team, tree, free, main, workers, channel, count, severed, collected, history>>

\* DatabaseSwitch.Switch cancels every context it has issued: those of the open
\* transactions, and of those workers at their start that have theirs already.
SwitchDatabase ==
    /\ main # "returned"
    /\ \E waiting \in SUBSET {w \in Worker : at[w] = "begin"} :
          severed' = severed \cup waiting \cup {w \in Worker : at[w] \in Open}
    /\ UNCHANGED <<team, tree, free, main, workers, channel, count, cancelled, interrupted, collected, history>>
-----------------------------------------------------------------------------
\* The goroutine of BufferedPipe, besides its sends and receives.
PipeDone ==
    /\ pipe # "exited"
    /\ cancelled \/ (pipe = "flush" /\ buffer = <<>>)
    /\ pipe' = "exited"
    /\ UNCHANGED <<team, tree, free, main, workers, buffer, closed, completions, count, context, collected, history>>

PipeFlush ==
    /\ pipe = "open" /\ closed /\ pipe' = "flush"
    /\ UNCHANGED <<team, tree, free, main, workers, buffer, closed, completions, count, context, collected, history>>
-----------------------------------------------------------------------------
Goto(w, where) == at' = [at EXCEPT ![w] = where]
Drop(w) == hold' = [hold EXCEPT ![w] = None] /\ below' = [below EXCEPT ![w] = <<>>]

\* The worker's transaction ends without an error that counts.
Leave(w) == Goto(w, "exited") /\ Drop(w) /\ free' = free + 1

\* The worker's transaction ends with an error.
Err(w) == Goto(w, "failing") /\ Drop(w) /\ failed' = failed \cup {w}

\* ReadTransaction waits for a connection on the caller's context, or on the one
\* the switch made of it; a context that is done ends the worker without a word.
Begin(w) ==
    /\ at[w] = "begin"
    /\ \/ free > 0 /\ free' = free - 1 /\ Goto(w, "receive")
       \/ (interrupted \/ w \in severed) /\ Goto(w, "exited") /\ UNCHANGED free
    /\ UNCHANGED <<team, tree, main, hold, below, channel, count, context, collected, history>>

\* It may fail: the database does, or a switch is under way.
BeginFails(w) ==
    /\ at[w] = "begin" /\ Err(w)
    /\ UNCHANGED <<team, tree, free, main, channel, count, context, collected, visits, dropped>>

Receive(w) ==
    /\ at[w] = "receive"
    /\ \/ /\ pipe # "exited" /\ buffer # <<>>
          /\ hold' = [hold EXCEPT ![w] = Head(buffer)] /\ buffer' = Tail(buffer)
          /\ Goto(w, "drive") /\ UNCHANGED <<free, below>>
       \/ /\ cancelled \/ pipe = "exited"
          /\ Leave(w) /\ UNCHANGED buffer
    /\ UNCHANGED <<team, tree, main, pipe, closed, completions, count, context, collected, history>>

\* A bug: the completion is sent before the count is lowered.
LowerLast == [send |-> "complete", complete |-> "lower", lower |-> "receive"]

\* The order in which a worker ends a segment.
Order == [send |-> "lower", lower |-> "complete", complete |-> "receive"]

\* Where a worker goes while it has segments to send, and after the last.
Sending(rest) == IF rest = <<>> THEN Order.send ELSE "add"

\* The memory limit and the driver: segments, an error, or the error of a
\* context that is done, the traversal's or the transaction's, which the worker
\* keeps to itself.  Its segment stays counted.
Drive(w) ==
    /\ at[w] = "drive"
    /\ \/ /\ visits' = [visits EXCEPT ![hold[w]] = @ + 1]
          /\ below' = [below EXCEPT ![w] = tree[hold[w]]]
          /\ Goto(w, Sending(tree[hold[w]])) /\ UNCHANGED <<hold, free, failed, dropped>>
       \/ Err(w) /\ free' = free + 1 /\ dropped' = dropped \cup {w} /\ UNCHANGED visits
       \/ /\ cancelled \/ w \in severed
          /\ Leave(w) /\ dropped' = dropped \cup {w} /\ UNCHANGED <<failed, visits>>
    /\ UNCHANGED <<team, tree, main, channel, count, context, collected>>

\* A bug: the segments below are counted once, not one by one.
AddedOnce(w) == IF Len(below[w]) = Len(tree[hold[w]]) THEN 1 ELSE 0

Added(w) == 1

Add(w) ==
    /\ at[w] = "add" /\ count' = count + Added(w) /\ Goto(w, "send")
    /\ UNCHANGED <<team, tree, free, main, hold, below, channel, context, collected, history>>

\* The result of this Submit is not looked at.
Send(w) ==
    /\ at[w] = "send"
    /\ \/ pipe = "open" /\ buffer' = Append(buffer, Head(below[w]))
       \/ cancelled /\ UNCHANGED buffer
    /\ below' = [below EXCEPT ![w] = Tail(@)] /\ Goto(w, Sending(Tail(below[w])))
    /\ UNCHANGED <<team, tree, free, main, hold, pipe, closed, completions, count, context, collected, history>>

Lower(w) ==
    /\ at[w] = "lower" /\ count' = count - 1 /\ Goto(w, Order.lower)
    /\ hold' = [hold EXCEPT ![w] = None]
    /\ UNCHANGED <<team, tree, free, main, below, channel, context, collected, history>>

Room == completions < Capacity

Complete(w) ==
    /\ at[w] = "complete"
    /\ \/ Room /\ completions' = completions + 1 /\ Goto(w, Order.complete) /\ UNCHANGED <<hold, below, free>>
       \/ cancelled /\ Leave(w) /\ UNCHANGED completions
    /\ UNCHANGED <<team, tree, main, buffer, pipe, closed, count, context, collected, history>>

\* doneFunc, and then errorCollector.Add.
Kill(w) ==
    /\ at[w] = "failing" /\ cancelled' = TRUE /\ Goto(w, "report")
    /\ UNCHANGED <<team, tree, free, main, hold, below, channel, count, interrupted, severed, collected, history>>

Report(w) ==
    /\ at[w] = "report" /\ collected' = collected \cup {w} /\ Goto(w, "exited")
    /\ UNCHANGED <<team, tree, free, main, hold, below, channel, count, context, history>>
-----------------------------------------------------------------------------
Caller ==
    \/ Launch \/ Rootless \/ SubmitRoot \/ Await \/ Look \/ CancelTraversal \/ Join
    \/ CloseWriter \/ Return
Pipe == PipeDone \/ PipeFlush
Progress(w) ==
    \/ Begin(w) \/ Receive(w) \/ Drive(w) \/ Add(w) \/ Send(w) \/ Lower(w) \/ Complete(w)
    \/ Kill(w) \/ Report(w)
Work(w) == Progress(w) \/ BeginFails(w)

Over == main = "returned" /\ pipe = "exited" /\ UNCHANGED vars

Next == Caller \/ Pipe \/ (\E w \in Worker : Work(w)) \/ Interrupt \/ SwitchDatabase \/ Over

Spec == Init /\ [][Next]_vars

\* Every goroutine that can go on does, and the driver answers.  A worker that
\* waits for a connection goes on when there is one; nothing makes it fail.
FairSpec == Spec /\ WF_vars(Caller) /\ WF_vars(Pipe) /\ \A w \in Worker : WF_vars(Progress(w))
-----------------------------------------------------------------------------

\* Until the traversal is cancelled, descentCount is the number of segments that
\* are queued, held by a worker, or counted and not yet sent, and of those that a
\* worker gave up when its transaction ended: these stay counted for good, also
\* when the worker says nothing (traversal.go:331), so the count cannot reach zero.
CountMatchesWork ==
    ~cancelled =>
        count = Len(buffer) + Cardinality({w \in Worker : hold[w] # None})
                + Cardinality({w \in Worker : at[w] = "send"}) + (IF main = "submit" THEN 1 ELSE 0)
                + Cardinality(dropped)

\* The segments of the tree.
Reached ==
    LET within[n \in Nat] ==
            IF n = 0 THEN {Root}
            ELSE within[n - 1] \cup UNION {{tree[s][i] : i \in DOMAIN tree[s]} : s \in within[n - 1]}
    IN within[Cardinality(Segment)]

\* BreadthFirst returns without an error, and was not interrupted, only after
\* every segment was given to the driver, once.
WholeTreeVisited ==
    main = "returned" /\ collected = {} /\ ~interrupted =>
        \A s \in Segment : visits[s] = IF s \in Reached THEN 1 ELSE 0

\* The error of every worker that failed is in what BreadthFirst returns,
\* although the worker cancels the traversal before it reports the error.
ErrorsReported == main = "returned" => failed \subseteq collected

\* No worker sends on the pipe after its writer was closed (a panic in Go).
NoSendOnClosed == closed => \A w \in Worker : at[w] \notin {"add", "send"}

\* A switch of the database ended a worker that had a segment, or all workers,
\* and nobody cancels the traversal: traversal.go:331 takes the error for one of
\* the traversal's own context.
Stranded ==
    ~cancelled /\ \/ \E w \in dropped : at[w] = "exited"
                  \/ \A w \in team : at[w] = "exited"

\* BreadthFirst returns, and leaves no worker and no pipe behind, also when there
\* are fewer connections than workers and some wait until others are through,
\* unless a switch of the database strands it for good.
Ends == [](~Stranded) => <>(main = "returned" /\ pipe = "exited" /\ \A w \in Worker : at[w] \in {"none", "exited"})
=============================================================================
