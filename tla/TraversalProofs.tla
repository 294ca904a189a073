-------------------------- MODULE TraversalProofs --------------------------
(***************************************************************************)
(* Proofs about the breadth-first traversal, for any team of workers, any  *)
(* tree and any number of connections.                                     *)
(***************************************************************************)
EXTENDS Traversal, FiniteSetTheorems, TLAPS

Main == {"start", "submit", "wait", "look", "cancel", "join", "close", "release", "returned"}
Busy == {"drive", "add", "send", "lower"}
At == Busy \cup {"none", "begin", "receive", "complete", "failing", "report", "exited"}

Types ==
    /\ team \in Teams /\ tree \in [Segment -> Seq(Segment)]
    /\ main \in Main /\ at \in [Worker -> At]
    /\ hold \in [Worker -> Segment \cup {None}] /\ below \in [Worker -> Seq(Segment)]
    /\ buffer \in Seq(Segment) /\ closed \in BOOLEAN /\ cancelled \in BOOLEAN /\ interrupted \in BOOLEAN
    /\ count \in Int /\ visits \in [Segment -> Nat]

\* The workers are those of the team, and their places tell what they have.
WorkerInv ==
    \A w \in Worker :
        /\ w \notin team => at[w] = "none"
        /\ hold[w] # None <=> at[w] \in Busy
        /\ at[w] \in {"add", "send"} <=> below[w] # <<>>

\* The caller waits for the workers before it closes the writer, and starts
\* them before it submits the root.
CallerInv ==
    /\ main = "start" => failed = {} /\ \A w \in Worker : at[w] = "none"
    /\ main \in {"start", "submit"} =>
          buffer = <<>> /\ (\A w \in Worker : hold[w] = None) /\ \A s \in Segment : visits[s] = 0
    /\ main \in {"close", "release", "returned"} => \A w \in Worker : at[w] \in {"none", "exited"}
    /\ closed => main \in {"release", "returned"}
    /\ interrupted => cancelled

\* An error that is not collected yet is about to be.
ErrorInv ==
    /\ \A w \in failed : w \in Worker /\ (w \in collected \/ at[w] \in {"failing", "report"})
    /\ \A w \in Worker : at[w] \in {"failing", "report"} => w \in failed

Holders == {w \in Worker : hold[w] # None}
Senders == {w \in Worker : at[w] = "send"}

Shape == Types /\ WorkerInv /\ CallerInv /\ ErrorInv

Elements(q) == {q[i] : i \in DOMAIN q}

\* A segment that was visited, or will be: it is in the pipe, given to the driver
\* or about to be sent.
Known(s) ==
    \/ visits[s] > 0 \/ s \in Elements(buffer)
    \/ \E w \in Worker : (at[w] = "drive" /\ hold[w] = s) \/ s \in Elements(below[w])

\* The root, once it is submitted, and what is below a visited segment.
Owed == {s \in Segment : s = Root \/ \E r \in Segment : visits[r] > 0 /\ s \in Elements(tree[r])}

\* The traversal is not cancelled before it is finished, what is owed is known
\* until then, and nothing is left to do after.
Clean ==
    /\ main \in {"start", "submit", "wait", "look"} => ~cancelled
    /\ main \in {"wait", "look"} => \A s \in Owed : Known(s)
    /\ main \in {"cancel", "join", "close", "release", "returned"} /\ collected = {} =>
          buffer = <<>> /\ Holders = {} /\ \A s \in Owed : visits[s] > 0

\* So it is as long as nothing goes wrong.  When a worker ended with a segment in
\* hand and said nothing, the caller waits.
CleanInv ==
    ~interrupted /\ failed = {} =>
        IF dropped = {} THEN Clean ELSE main \in {"wait", "look"} /\ ~cancelled

\* A worker that gave up its segment is through, and until the workers are joined
\* only their errors are collected.
DropInv ==
    /\ \A w \in dropped : w \in Worker /\ at[w] \in {"failing", "report", "exited"}
    /\ main \notin {"close", "release", "returned"} => collected \subseteq failed

IInv == Shape /\ DropInv /\ CountMatchesWork /\ CleanInv

\* The steps of others than the workers.
Around == Caller \/ Pipe \/ Interrupt \/ SwitchDatabase
-----------------------------------------------------------------------------
\* What the sequences of segments do.
LEMMA SegmentSequence ==
    ASSUME NEW q \in Seq(Segment)
    PROVE  /\ \A x \in Segment : Append(q, x) \in Seq(Segment) /\ Len(Append(q, x)) = Len(q) + 1
           /\ q # <<>> => Head(q) \in Segment /\ Tail(q) \in Seq(Segment) /\ Len(Tail(q)) = Len(q) - 1
           /\ Len(q) \in Nat /\ (Len(q) = 0 <=> q = <<>>)
OBVIOUS

\* Another visit of a segment.
LEMMA OneVisit ==
    ASSUME NEW f \in [Segment -> Nat], NEW s \in Segment
    PROVE  [f EXCEPT ![s] = @ + 1] \in [Segment -> Nat]
OBVIOUS

\* What no step of a worker changes, and what it only adds to (the workers of
\* BreadthFirst).
LEMMA WorkFrame ==
    ASSUME NEW w \in Worker, Work(w)
    PROVE  /\ team' = team /\ tree' = tree /\ main' = main /\ interrupted' = interrupted
           /\ failed \subseteq failed' /\ dropped \subseteq dropped'
           /\ (cancelled => cancelled') /\ at[w] # "none"
<1> USE DEF channel, context, history, Leave, Err
<1>1. CASE Begin(w)
  BY <1>1 DEF Begin
<1>2. CASE Receive(w)
  BY <1>2 DEF Receive
<1>3. CASE Drive(w)
  BY <1>3 DEF Drive
<1>4. CASE Add(w)
  BY <1>4 DEF Add
<1>5. CASE Send(w)
  BY <1>5 DEF Send
<1>6. CASE Lower(w)
  BY <1>6 DEF Lower
<1>7. CASE Complete(w)
  BY <1>7 DEF Complete
<1>8. CASE Kill(w)
  BY <1>8 DEF Kill
<1>9. CASE Report(w)
  BY <1>9 DEF Report
<1>10. CASE BeginFails(w)
  BY <1>10 DEF BeginFails
<1> QED
  BY <1>1, <1>2, <1>3, <1>4, <1>5, <1>6, <1>7, <1>8, <1>9, <1>10 DEF Work, Progress

\* A step of a worker that puts its own state in order (the workers of
\* BreadthFirst).
LEMMA OneWorker ==
    ASSUME WorkerInv, NEW w \in Worker, team' = team, at[w] # "none",
           \A v \in Worker : v # w => at'[v] = at[v] /\ hold'[v] = hold[v] /\ below'[v] = below[v],
           hold'[w] # None <=> at'[w] \in Busy,
           at'[w] \in {"add", "send"} <=> below'[w] # <<>>
    PROVE  WorkerInv'
BY DEF WorkerInv

\* What no step of the caller, the pipe or the context changes.
LEMMA CallerFrame ==
    ASSUME Around
    PROVE  /\ tree' = tree /\ visits' = visits /\ failed' = failed /\ dropped' = dropped
           /\ (interrupted => interrupted') /\ (Interrupt => interrupted')
<1> USE DEF channel, context, history, workers
<1>1. CASE Launch
  BY <1>1 DEF Launch, Interrupt
<1>2. CASE Rootless
  BY <1>2 DEF Rootless, Interrupt
<1>3. CASE SubmitRoot
  BY <1>3 DEF SubmitRoot, Interrupt
<1>4. CASE Await
  BY <1>4 DEF Await, Interrupt
<1>5. CASE Look
  BY <1>5 DEF Look, Interrupt
<1>6. CASE CancelTraversal
  BY <1>6 DEF CancelTraversal, Interrupt
<1>7. CASE Join
  BY <1>7 DEF Join, Interrupt
<1>8. CASE CloseWriter
  BY <1>8 DEF CloseWriter, Interrupt
<1>9. CASE Return
  BY <1>9 DEF Return, Interrupt
<1>10. CASE PipeDone
  BY <1>10 DEF PipeDone, Interrupt
<1>11. CASE PipeFlush
  BY <1>11, ZenonT(30) DEF PipeFlush, Interrupt
<1>12. CASE Interrupt
  BY <1>12 DEF Interrupt
<1>13. CASE SwitchDatabase
  BY <1>13 DEF SwitchDatabase, Interrupt
<1> QED
  BY <1>1, <1>2, <1>3, <1>4, <1>5, <1>6, <1>7, <1>8, <1>9, <1>10, <1>11, <1>12, <1>13 DEF Around, Caller, Pipe

\* A step of the caller's goroutine, of the pipe or of the caller's context
\* (BreadthFirst, BufferedPipe).
LEMMA CallerShape ==
    ASSUME Shape, Around
    PROVE  Shape'
<1> USE TraversalAssumption DEF Shape, Main, Busy, At, channel, context, history, workers
<1>1. CASE Launch
  <2>1. Types'
    BY <1>1 DEF Types, WorkerInv, Launch
  <2>2. WorkerInv'
    BY <1>1 DEF Types, WorkerInv, CallerInv, Launch
  <2>3. CallerInv'
    BY <1>1 DEF Types, WorkerInv, CallerInv, Launch
  <2>4. ErrorInv'
    BY <1>1 DEF Types, ErrorInv, CallerInv, Launch
  <2> QED
    BY <2>1, <2>2, <2>3, <2>4
<1>2. CASE Rootless
  <2>1. Types'
    BY <1>2 DEF Types, WorkerInv, Rootless
  <2>2. WorkerInv'
    BY <1>2 DEF Types, WorkerInv, CallerInv, Rootless
  <2>3. CallerInv'
    BY <1>2 DEF Types, WorkerInv, CallerInv, Rootless
  <2>4. ErrorInv'
    BY <1>2 DEF Types, ErrorInv, CallerInv, Rootless
  <2> QED
    BY <2>1, <2>2, <2>3, <2>4
<1>3. CASE SubmitRoot
  <2>1. Types'
    <3>1. buffer \in Seq(Segment) /\ Append(buffer, Root) \in Seq(Segment)
      BY SegmentSequence DEF Types
    <3>2. buffer' \in {buffer, Append(buffer, Root)}
      BY <1>3 DEF SubmitRoot
    <3> QED
      BY <1>3, <3>1, <3>2, ZenonT(30) DEF Types, SubmitRoot
  <2>2. WorkerInv'
    BY <1>3 DEF Types, WorkerInv, CallerInv, SubmitRoot
  <2>3. CallerInv'
    BY <1>3 DEF Types, WorkerInv, CallerInv, SubmitRoot
  <2>4. ErrorInv'
    BY <1>3 DEF Types, ErrorInv, CallerInv, SubmitRoot
  <2> QED
    BY <2>1, <2>2, <2>3, <2>4
<1>4. CASE Await
  BY <1>4 DEF Types, WorkerInv, CallerInv, ErrorInv, Await
<1>5. CASE Look
  BY <1>5 DEF Types, WorkerInv, CallerInv, ErrorInv, Look
<1>6. CASE CancelTraversal
  BY <1>6 DEF Types, WorkerInv, CallerInv, ErrorInv, CancelTraversal
<1>7. CASE Join
  BY <1>7 DEF Types, WorkerInv, CallerInv, ErrorInv, Join, Joined
<1>8. CASE CloseWriter
  BY <1>8 DEF Types, WorkerInv, CallerInv, ErrorInv, CloseWriter
<1>9. CASE Return
  BY <1>9 DEF Types, WorkerInv, CallerInv, ErrorInv, Return
<1>10. CASE PipeDone
  BY <1>10 DEF Types, WorkerInv, CallerInv, ErrorInv, PipeDone
<1>11. CASE PipeFlush
  BY <1>11, ZenonT(30) DEF Types, WorkerInv, CallerInv, ErrorInv, PipeFlush
<1>12. CASE Interrupt
  BY <1>12 DEF Types, WorkerInv, CallerInv, ErrorInv, Interrupt
<1>13. CASE SwitchDatabase
  <2>1. UNCHANGED <<team, tree, main, at, hold, below, buffer, closed, cancelled, interrupted, count, visits, failed, collected>>
    BY <1>13, ZenonT(30) DEF SwitchDatabase
  <2> QED
    BY <2>1 DEF Types, WorkerInv, CallerInv, ErrorInv
<1> QED
  BY <1>1, <1>2, <1>3, <1>4, <1>5, <1>6, <1>7, <1>8, <1>9, <1>10, <1>11, <1>12, <1>13 DEF Around, Caller, Pipe

\* A step of a worker (the workers of BreadthFirst).
LEMMA WorkShape ==
    ASSUME Shape, NEW w \in Worker, Work(w)
    PROVE  Shape'
<1> USE TraversalAssumption DEF Shape, Main, Busy, At, channel, context, history, Goto, Drop, Leave, Err
<1>1. CASE Begin(w)
  <2>1. Types'
    BY <1>1, ZenonT(30) DEF Types, Begin
  <2>2. WorkerInv'
    BY <1>1, ZenonT(30) DEF Types, WorkerInv, Begin
  <2>3. CallerInv'
    BY <1>1, ZenonT(30) DEF Types, WorkerInv, CallerInv, Begin
  <2>4. ErrorInv'
    BY <1>1, ZenonT(30) DEF Types, ErrorInv, Begin
  <2> QED
    BY <2>1, <2>2, <2>3, <2>4
<1>2. CASE Receive(w)
  <2>1. Types'
    <3>1. buffer' \in Seq(Segment) /\ hold' \in [Worker -> Segment \cup {None}]
      <4>1. buffer # <<>> => Head(buffer) \in Segment /\ Tail(buffer) \in Seq(Segment)
        BY SegmentSequence DEF Types
      <4>2. buffer' = buffer \/ (buffer # <<>> /\ buffer' = Tail(buffer))
        BY <1>2 DEF Receive
      <4>3. \/ hold' = [hold EXCEPT ![w] = None]
            \/ buffer # <<>> /\ hold' = [hold EXCEPT ![w] = Head(buffer)]
        BY <1>2 DEF Receive
      <4>4. buffer' \in Seq(Segment)
        BY <4>1, <4>2, ZenonT(30) DEF Types
      <4>5. hold' \in [Worker -> Segment \cup {None}]
        BY <4>1, <4>3, ZenonT(30) DEF Types
      <4> QED
        BY <4>4, <4>5
    <3>2. at' \in [Worker -> At]
      BY <1>2, ZenonT(30) DEF Types, Receive
    <3>3. below' \in {below, [below EXCEPT ![w] = <<>>]} /\ <<>> \in Seq(Segment)
      BY <1>2 DEF Receive
    <3>4. below' \in [Worker -> Seq(Segment)]
      BY <3>3, ZenonT(30) DEF Types
    <3> QED
      BY <1>2, <3>1, <3>2, <3>4, ZenonT(30) DEF Types, Receive
  <2>2. WorkerInv'
    <3>1. \A v \in Worker : v # w => at'[v] = at[v] /\ hold'[v] = hold[v] /\ below'[v] = below[v]
      BY <1>2 DEF Types, Receive
    <3>2. /\ hold'[w] # None <=> at'[w] \in Busy
          /\ at'[w] \in {"add", "send"} <=> below'[w] # <<>>
      <4>1. buffer # <<>> => Head(buffer) # None
        BY SegmentSequence DEF Types
      <4>2. at[w] = "receive" /\ below[w] = <<>>
        BY <1>2 DEF WorkerInv, Receive
      <4>3. CASE pipe # "exited" /\ buffer # <<>> /\ hold' = [hold EXCEPT ![w] = Head(buffer)] /\ Goto(w, "drive") /\ below' = below
        BY <4>1, <4>2, <4>3 DEF Types
      <4>4. CASE Leave(w)
        BY <4>4 DEF Types
      <4> QED
        BY <1>2, <4>3, <4>4 DEF Receive
    <3> QED
      BY <3>1, <3>2, WorkFrame, OneWorker
  <2>3. CallerInv'
    BY <1>2, ZenonT(30) DEF Types, WorkerInv, CallerInv, Receive
  <2>4. ErrorInv'
    <3>1. at' = [at EXCEPT ![w] = at'[w]] /\ collected' = collected
      BY <1>2 DEF Types, Receive
    <3>2. failed' = failed /\ at[w] = "receive" /\ at'[w] \notin {"failing", "report"}
      BY <1>2 DEF Types, Receive
    <3> QED
      BY <3>1, <3>2, ZenonT(30) DEF Types, ErrorInv
  <2> QED
    BY <2>1, <2>2, <2>3, <2>4
<1>3. CASE Drive(w)
  <2>1. Types'
    <3>1. hold[w] \in Segment
      BY <1>3 DEF Types, WorkerInv, Drive
    <3>2. at' \in [Worker -> At] /\ hold' \in [Worker -> Segment \cup {None}]
      BY <1>3, ZenonT(30) DEF Types, Drive, Sending, Order
    <3>3. visits' \in [Segment -> Nat]
      <4>1. visits' = visits \/ visits' = [visits EXCEPT ![hold[w]] = @ + 1]
        BY <1>3, ZenonT(30) DEF Drive
      <4>2. visits \in [Segment -> Nat]
        BY DEF Types
      <4>3. [visits EXCEPT ![hold[w]] = @ + 1] \in [Segment -> Nat]
        BY <3>1, <4>2, OneVisit, Zenon
      <4> QED
        BY <4>1, <4>2, <4>3, Zenon
    <3>4. below' \in {[below EXCEPT ![w] = tree[hold[w]]], [below EXCEPT ![w] = <<>>]} /\ <<>> \in Seq(Segment)
      BY <1>3 DEF Drive
    <3>5. below' \in [Worker -> Seq(Segment)]
      BY <3>1, <3>4, ZenonT(30) DEF Types
    <3> QED
      BY <1>3, <3>2, <3>3, <3>5, ZenonT(30) DEF Types, Drive
  <2>2. WorkerInv'
    <3>1. \A v \in Worker : v # w => at'[v] = at[v] /\ hold'[v] = hold[v] /\ below'[v] = below[v]
      BY <1>3 DEF Types, Drive
    <3>2. /\ hold'[w] # None <=> at'[w] \in Busy
          /\ at'[w] \in {"add", "send"} <=> below'[w] # <<>>
      BY <1>3 DEF Types, WorkerInv, Drive, Sending, Order
    <3> QED
      BY <3>1, <3>2, WorkFrame, OneWorker
  <2>3. CallerInv'
    BY <1>3, ZenonT(30) DEF Types, WorkerInv, CallerInv, Drive, Sending, Order
  <2>4. ErrorInv'
    <3>1. at' = [at EXCEPT ![w] = at'[w]] /\ collected' = collected
      BY <1>3 DEF Types, Drive
    <3>2. (failed' = failed /\ at'[w] \notin {"failing", "report"}) \/ (failed' = failed \cup {w} /\ at'[w] = "failing")
      BY <1>3 DEF Types, Drive, Sending, Order
    <3> QED
      BY <1>3, <3>1, <3>2, ZenonT(30) DEF Types, ErrorInv, Drive
  <2> QED
    BY <2>1, <2>2, <2>3, <2>4
<1>4. CASE Add(w)
  <2>1. Types'
    BY <1>4 DEF Types, WorkerInv, Add, Added
  <2>2. WorkerInv'
    BY <1>4 DEF Types, WorkerInv, CallerInv, Add, Added
  <2>3. CallerInv'
    BY <1>4, ZenonT(30) DEF Types, WorkerInv, CallerInv, Add, Added
  <2>4. ErrorInv'
    BY <1>4 DEF Types, ErrorInv, CallerInv, Add, Added
  <2> QED
    BY <2>1, <2>2, <2>3, <2>4
<1>5. CASE Send(w)
  <2>1. Types'
    <3>1. below[w] # <<>>
      BY <1>5 DEF WorkerInv, Send
    <3>2. /\ buffer \in Seq(Segment) /\ Append(buffer, Head(below[w])) \in Seq(Segment)
          /\ Tail(below[w]) \in Seq(Segment)
      BY <3>1, SegmentSequence DEF Types
    <3>3. buffer' \in {buffer, Append(buffer, Head(below[w]))} /\ below' = [below EXCEPT ![w] = Tail(below[w])]
      BY <1>5 DEF Send
    <3>4. below' \in [Worker -> Seq(Segment)]
      BY <3>2, <3>3 DEF Types
    <3> QED
      BY <1>5, <3>2, <3>3, <3>4, ZenonT(30) DEF Types, Send, Sending, Order
  <2>2. WorkerInv'
    <3>1. \A v \in Worker : v # w => at'[v] = at[v] /\ hold'[v] = hold[v] /\ below'[v] = below[v]
      BY <1>5 DEF Types, Send
    <3>2. /\ hold'[w] # None <=> at'[w] \in Busy
          /\ at'[w] \in {"add", "send"} <=> below'[w] # <<>>
      BY <1>5, ZenonT(30) DEF Types, WorkerInv, Send, Sending, Order
    <3> QED
      BY <3>1, <3>2, WorkFrame, OneWorker
  <2>3. CallerInv'
    BY <1>5, ZenonT(30) DEF Types, WorkerInv, CallerInv, Send, Sending, Order
  <2>4. ErrorInv'
    BY <1>5, ZenonT(30) DEF Types, ErrorInv, CallerInv, Send, Sending, Order
  <2> QED
    BY <2>1, <2>2, <2>3, <2>4
<1>6. CASE Lower(w)
  <2>1. Types'
    BY <1>6 DEF Types, WorkerInv, Lower, Order
  <2>2. WorkerInv'
    BY <1>6, ZenonT(30) DEF Types, WorkerInv, CallerInv, Lower, Order
  <2>3. CallerInv'
    BY <1>6 DEF Types, WorkerInv, CallerInv, Lower, Order
  <2>4. ErrorInv'
    BY <1>6 DEF Types, ErrorInv, CallerInv, Lower, Order
  <2> QED
    BY <2>1, <2>2, <2>3, <2>4
<1>7. CASE Complete(w)
  <2>1. Types'
    BY <1>7, ZenonT(30) DEF Types, WorkerInv, Complete, Order
  <2>2. WorkerInv'
    <3>1. \A v \in Worker : v # w => at'[v] = at[v] /\ hold'[v] = hold[v] /\ below'[v] = below[v]
      BY <1>7 DEF Types, Complete
    <3>2. /\ hold'[w] # None <=> at'[w] \in Busy
          /\ at'[w] \in {"add", "send"} <=> below'[w] # <<>>
      BY <1>7, ZenonT(30) DEF Types, WorkerInv, Complete, Order
    <3> QED
      BY <3>1, <3>2, WorkFrame, OneWorker
  <2>3. CallerInv'
    BY <1>7, ZenonT(30) DEF Types, WorkerInv, CallerInv, Complete, Order
  <2>4. ErrorInv'
    BY <1>7, ZenonT(30) DEF Types, ErrorInv, CallerInv, Complete, Order
  <2> QED
    BY <2>1, <2>2, <2>3, <2>4
<1>8. CASE Kill(w)
  BY <1>8, ZenonT(30) DEF Types, WorkerInv, CallerInv, ErrorInv, Kill
<1>9. CASE Report(w)
  BY <1>9, ZenonT(30) DEF Types, WorkerInv, CallerInv, ErrorInv, Report
<1>10. CASE BeginFails(w)
  <2>1. Types'
    <3>1. at' \in [Worker -> At] /\ hold' \in [Worker -> Segment \cup {None}]
      BY <1>10 DEF Types, BeginFails
    <3>2. below' \in {below, [below EXCEPT ![w] = <<>>]} /\ <<>> \in Seq(Segment)
      BY <1>10 DEF BeginFails
    <3>3. below' \in [Worker -> Seq(Segment)]
      BY <3>2, ZenonT(30) DEF Types
    <3> QED
      BY <1>10, <3>1, <3>3 DEF Types, BeginFails
  <2>2. WorkerInv'
    <3>1. \A v \in Worker : v # w => at'[v] = at[v] /\ hold'[v] = hold[v] /\ below'[v] = below[v]
      BY <1>10 DEF Types, BeginFails
    <3>2. /\ hold'[w] # None <=> at'[w] \in Busy
          /\ at'[w] \in {"add", "send"} <=> below'[w] # <<>>
      BY <1>10, ZenonT(30) DEF Types, WorkerInv, BeginFails
    <3> QED
      BY <3>1, <3>2, WorkFrame, OneWorker
  <2>3. CallerInv'
    BY <1>10, ZenonT(30) DEF Types, WorkerInv, CallerInv, BeginFails
  <2>4. ErrorInv'
    <3>1. at' = [at EXCEPT ![w] = at'[w]] /\ collected' = collected
      BY <1>10 DEF Types, BeginFails
    <3>2. (failed' = failed /\ at'[w] \notin {"failing", "report"}) \/ (failed' = failed \cup {w} /\ at'[w] = "failing")
      BY <1>10 DEF Types, BeginFails
    <3> QED
      BY <1>10, <3>1, <3>2, ZenonT(30) DEF Types, ErrorInv, BeginFails
  <2> QED
    BY <2>1, <2>2, <2>3, <2>4
<1> QED
  BY <1>1, <1>2, <1>3, <1>4, <1>5, <1>6, <1>7, <1>8, <1>9, <1>10 DEF Work, Progress

\* A worker gives up a segment only when it ends, and reports its own error only
\* (the workers of BreadthFirst).
LEMMA StepDrop ==
    ASSUME Shape, DropInv, Around \/ \E w \in Worker : Work(w)
    PROVE  DropInv'
<1>1. CASE Around
  <2>1. dropped' = dropped /\ failed' = failed
    BY <1>1, CallerFrame
  <2>2. CASE Launch
    BY <2>1, <2>2 DEF Launch, DropInv, Shape, CallerInv
  <2>3. CASE Rootless
    BY <2>1, <2>3 DEF Rootless, DropInv, workers
  <2>4. CASE ~Launch /\ ~Rootless
    <3>1. at' = at /\ collected' = collected /\ (main \in {"close", "release", "returned"} => main' \in {"close", "release", "returned"})
      BY <1>1, <2>4 DEF Around, Caller, Pipe, SubmitRoot, Await, Look, CancelTraversal, Join, CloseWriter,
             Return, PipeDone, PipeFlush, Interrupt, SwitchDatabase, workers
    <3> QED
      BY <3>1, <2>1 DEF DropInv
  <2> QED
    BY <2>2, <2>3, <2>4
<1>2. ASSUME NEW w \in Worker, Work(w) PROVE DropInv'
  <2> USE DEF Goto, Drop, Leave, Err
  <2>1. main' = main /\ failed \subseteq failed'
    BY <1>2, WorkFrame
  <2>2. at \in [Worker -> At]
    BY DEF Shape, Types
  <2>3. CASE Drive(w)
    <3>1. at' = [at EXCEPT ![w] = at'[w]] /\ collected' = collected
      BY <2>3, <2>2 DEF Drive
    <3>2. w \notin dropped
      BY <2>3 DEF Drive, DropInv
    <3>3. dropped' = dropped \/ (dropped' = dropped \cup {w} /\ at'[w] \in {"failing", "exited"})
      BY <2>3, <2>2 DEF Drive
    <3> QED
      BY <3>1, <3>2, <3>3, <2>1, <2>2, ZenonT(30) DEF DropInv
  <2>4. CASE ~Drive(w)
    <3>1. at' = [at EXCEPT ![w] = at'[w]] /\ dropped' = dropped
      BY <1>2, <2>2, <2>4 DEF Work, Progress, Begin, BeginFails, Receive, Add, Send, Lower, Complete, Kill, Report, history
    <3>2. w \in dropped => at'[w] \in {"report", "exited"}
      BY <1>2, <2>2, <2>4 DEF Work, Progress, Begin, BeginFails, Receive, Add, Send, Lower, Complete, Kill, Report, DropInv
    <3>3. collected' = collected \/ (collected' = collected \cup {w} /\ w \in failed)
      BY <1>2, <2>4 DEF Work, Progress, Begin, BeginFails, Receive, Add, Send, Lower, Complete, Kill, Report, Shape, ErrorInv
    <3> QED
      BY <3>1, <3>2, <3>3, <2>1, <2>2, ZenonT(30) DEF DropInv
  <2> QED
    BY <2>3, <2>4
<1> QED
  BY <1>1, <1>2
-----------------------------------------------------------------------------
\* The workers that hold, send or gave up a segment are finitely many.
LEMMA FiniteWork ==
    ASSUME Shape, DropInv
    PROVE  /\ IsFiniteSet(Holders) /\ IsFiniteSet(Senders) /\ IsFiniteSet(dropped)
           /\ Cardinality(Holders) \in Nat /\ Cardinality(Senders) \in Nat /\ Cardinality(dropped) \in Nat
<1>1. IsFiniteSet(team) /\ Holders \subseteq team /\ Senders \subseteq team
  BY TraversalAssumption, ZenonT(30) DEF Shape, Types, WorkerInv, Holders, Senders, Busy
<1>2. dropped \subseteq team
  BY DEF Shape, WorkerInv, DropInv
<1> QED
  BY <1>1, <1>2, FS_Subset, FS_CardinalityType

\* A worker more, a worker less.
LEMMA OneMore ==
    ASSUME NEW S, NEW x, IsFiniteSet(S)
    PROVE  /\ x \notin S => Cardinality(S \cup {x}) = Cardinality(S) + 1
           /\ x \in S => Cardinality(S \ {x}) = Cardinality(S) - 1
BY FS_AddElement, FS_RemoveElement

\* The segments in flight, and those given up.
InFlight ==
    Len(buffer) + Cardinality(Holders) + Cardinality(Senders) + (IF main = "submit" THEN 1 ELSE 0)
    + Cardinality(dropped)

\* A step of the caller, the pipe or the caller's context keeps the count
\* (descentCount in BreadthFirst).
LEMMA CallerCount ==
    ASSUME Shape, DropInv, CountMatchesWork, Around
    PROVE  CountMatchesWork'
<1> SUFFICES ASSUME ~cancelled' PROVE count' = InFlight'
  BY DEF CountMatchesWork, InFlight, Holders, Senders
<1>1. dropped' = dropped /\ hold' = hold /\ ~cancelled
  BY DEF Around, SwitchDatabase, Caller, Pipe, Launch, Rootless, SubmitRoot, Await, Look, CancelTraversal, Join, CloseWriter,
         Return, PipeDone, PipeFlush, Interrupt, context, history, workers
<1>2. count = InFlight /\ Len(buffer) \in Nat
  BY <1>1 DEF CountMatchesWork, InFlight, Holders, Senders, Shape, Types
<1>3. Holders' = Holders
  BY <1>1 DEF Holders
<1>4. Senders' = Senders
  <2>1. CASE Launch
    BY <2>1 DEF Launch, Senders, Shape, CallerInv
  <2>2. CASE ~Launch
    BY <2>2 DEF Around, Caller, Pipe, Rootless, SubmitRoot, Await, Look, CancelTraversal, Join, CloseWriter,
         Return, PipeDone, PipeFlush, Interrupt, SwitchDatabase, workers, Senders
  <2> QED
    BY <2>1, <2>2
<1>5. CASE Launch
  BY <1>5, <1>1, <1>2, <1>3, <1>4, FiniteWork DEF Launch, InFlight, channel
<1>6. CASE SubmitRoot
  <2>1. buffer' = Append(buffer, Root) /\ main = "submit" /\ main' = "wait" /\ count' = count
    BY <1>6, <1>1 DEF SubmitRoot
  <2>2. Len(buffer') = Len(buffer) + 1
    BY <2>1, SegmentSequence, TraversalAssumption DEF Shape, Types
  <2> QED
    BY <2>1, <2>2, <1>1, <1>2, <1>3, <1>4, FiniteWork DEF InFlight
<1>7. CASE ~Launch /\ ~SubmitRoot
  <2>1. buffer' = buffer /\ count' = count /\ (main = "submit" <=> main' = "submit")
    BY <1>7 DEF Around, Caller, Pipe, Rootless, Await, Look, CancelTraversal, Join, CloseWriter,
         Return, PipeDone, PipeFlush, Interrupt, SwitchDatabase, channel
  <2> QED
    BY <2>1, <1>1, <1>2, <1>3, <1>4 DEF InFlight
<1> QED
  BY <1>5, <1>6, <1>7

\* So does a step of a worker: it takes a segment from the pipe, counts one
\* before it sends it, and lowers the count when it is through with its own.
LEMMA WorkCount ==
    ASSUME Shape, DropInv, CountMatchesWork, NEW w \in Worker, Work(w)
    PROVE  CountMatchesWork'
<1> SUFFICES ASSUME ~cancelled' PROVE count' = InFlight'
  BY DEF CountMatchesWork, InFlight, Holders, Senders
<1> USE DEF Goto, Drop, Leave, Err
<1>1. ~cancelled /\ main' = main
  BY WorkFrame
<1>2. count = InFlight /\ Len(buffer) \in Nat /\ count \in Int
  BY <1>1 DEF CountMatchesWork, InFlight, Holders, Senders, Shape, Types
<1>3. /\ hold \in [Worker -> Segment \cup {None}] /\ DOMAIN at = Worker
      /\ hold[w] # None <=> at[w] \in Busy
  BY DEF Shape, Types, WorkerInv
<1>4. CASE Receive(w) /\ at'[w] = "drive"
  <2>1. /\ buffer # <<>> /\ buffer' = Tail(buffer) /\ hold' = [hold EXCEPT ![w] = Head(buffer)]
        /\ count' = count /\ dropped' = dropped
    BY <1>4, <1>3 DEF Receive, history
  <2>2. Len(buffer') = Len(buffer) - 1 /\ Head(buffer) # None
    BY <2>1, SegmentSequence, TraversalAssumption DEF Shape, Types
  <2>3. w \notin Holders /\ Holders' = Holders \cup {w}
    BY <2>1, <2>2, <1>3, <1>4 DEF Holders, Receive, Busy
  <2>4. Senders' = Senders
    BY <1>3, <1>4 DEF Senders, Receive
  <2>5. Cardinality(Holders') = Cardinality(Holders) + 1
    BY <2>3, FiniteWork, OneMore
  <2> QED
    BY <2>1, <2>2, <2>4, <2>5, <1>1, <1>2, FiniteWork DEF InFlight
<1>5. CASE Add(w)
  <2>1. Holders' = Holders /\ w \notin Senders /\ Senders' = Senders \cup {w}
    BY <1>3, <1>5 DEF Add, Holders, Senders
  <2>2. count' = count + 1 /\ buffer' = buffer /\ dropped' = dropped
    BY <1>5 DEF Add, Added, channel, history
  <2>3. Cardinality(Senders') = Cardinality(Senders) + 1
    BY <2>1, FiniteWork, OneMore
  <2> QED
    BY <2>1, <2>2, <2>3, <1>1, <1>2, FiniteWork DEF InFlight
<1>6. CASE Send(w)
  <2>1. buffer' = Append(buffer, Head(below[w])) /\ count' = count /\ below[w] # <<>> /\ dropped' = dropped
    BY <1>6, <1>1 DEF Send, history, Shape, WorkerInv
  <2>2. Len(buffer') = Len(buffer) + 1
    BY <2>1, SegmentSequence DEF Shape, Types
  <2>3. Holders' = Holders /\ w \in Senders /\ Senders' = Senders \ {w}
    BY <1>3, <1>6 DEF Send, Holders, Senders, Sending, Order
  <2>4. Cardinality(Senders') = Cardinality(Senders) - 1
    BY <2>3, FiniteWork, OneMore
  <2> QED
    BY <2>1, <2>2, <2>3, <2>4, <1>1, <1>2, FiniteWork DEF InFlight
<1>7. CASE Lower(w)
  <2>1. w \in Holders /\ Holders' = Holders \ {w} /\ Senders' = Senders
    BY <1>3, <1>7 DEF Lower, Holders, Senders, Order, Busy
  <2>2. count' = count - 1 /\ buffer' = buffer /\ dropped' = dropped
    BY <1>7 DEF Lower, channel, history
  <2>3. Cardinality(Holders') = Cardinality(Holders) - 1
    BY <2>1, FiniteWork, OneMore
  <2> QED
    BY <2>1, <2>2, <2>3, <1>1, <1>2, FiniteWork, SMTT(30) DEF InFlight
<1>8. CASE Drive(w) /\ at'[w] \in {"failing", "exited"}
  <2>1. buffer' = buffer /\ count' = count /\ dropped' = dropped \cup {w} /\ w \notin dropped
    BY <1>8, <1>3 DEF Drive, channel, Sending, Order, DropInv
  <2>2. w \in Holders /\ Holders' = Holders \ {w} /\ Senders' = Senders
    BY <1>8, <1>3 DEF Drive, Holders, Senders, Sending, Order, Busy
  <2>3. Cardinality(Holders') = Cardinality(Holders) - 1 /\ Cardinality(dropped') = Cardinality(dropped) + 1
    BY <2>1, <2>2, FiniteWork, OneMore
  <2> QED
    BY <2>1, <2>2, <2>3, <1>1, <1>2, FiniteWork, SMTT(30) DEF InFlight
<1>9. CASE \/ Begin(w) \/ BeginFails(w) \/ (Receive(w) /\ at'[w] # "drive") \/ Complete(w) \/ Kill(w) \/ Report(w)
           \/ (Drive(w) /\ at'[w] \notin {"failing", "exited"})
  <2>1. buffer' = buffer /\ count' = count /\ dropped' = dropped
    BY <1>9, <1>3 DEF Begin, BeginFails, Receive, Drive, Complete, Kill, Report, channel, history
  <2>2. Senders' = Senders
    BY <1>9, <1>3 DEF Begin, BeginFails, Receive, Drive, Complete, Kill, Report, Senders, Sending, Order
  <2>3. Holders' = Holders
    BY <1>9, <1>3, <1>1 DEF Begin, BeginFails, Receive, Drive, Complete, Kill, Report, Holders, Busy
  <2> QED
    BY <2>1, <2>2, <2>3, <1>1, <1>2 DEF InFlight
<1> QED
  BY <1>4, <1>5, <1>6, <1>7, <1>8, <1>9 DEF Work, Progress
-----------------------------------------------------------------------------
\* The elements of the sequences of segments.
LEMMA ElementsOf ==
    ASSUME NEW q \in Seq(Segment)
    PROVE  /\ \A x \in Segment : Elements(Append(q, x)) = Elements(q) \cup {x}
           /\ q # <<>> => Elements(q) = {Head(q)} \cup Elements(Tail(q))
           /\ Elements(<<>>) = {} /\ Elements(q) \subseteq Segment
<1>1. ASSUME NEW x \in Segment PROVE Elements(Append(q, x)) = Elements(q) \cup {x}
  <2> DEFINE r == Append(q, x)
  <2>1. /\ DOMAIN q = 1..Len(q) /\ DOMAIN r = 1..(Len(q) + 1) /\ Len(q) \in Nat
        /\ r[Len(q) + 1] = x /\ \A i \in 1..Len(q) : r[i] = q[i]
    OBVIOUS
  <2> HIDE DEF r
  <2>2. ASSUME NEW i \in DOMAIN r PROVE r[i] \in Elements(q) \cup {x}
    <3>1. i = Len(q) + 1 \/ i \in 1..Len(q)
      BY <2>1
    <3> QED
      BY <3>1, <2>1 DEF Elements
  <2>3. ASSUME NEW i \in DOMAIN q PROVE q[i] \in Elements(r)
    BY <2>1 DEF Elements
  <2>4. x \in Elements(r)
    BY <2>1 DEF Elements
  <2>5. Elements(r) = Elements(q) \cup {x}
    BY <2>2, <2>3, <2>4 DEF Elements
  <2> QED
    BY <2>5 DEF r
<1>2. ASSUME q # <<>> PROVE Elements(q) = {Head(q)} \cup Elements(Tail(q))
  <2> DEFINE r == Tail(q)
  <2>1. /\ DOMAIN q = 1..Len(q) /\ DOMAIN r = 1..(Len(q) - 1) /\ Len(q) \in Nat /\ Len(q) > 0
        /\ q[1] = Head(q) /\ \A i \in 1..(Len(q) - 1) : r[i] = q[i + 1]
    BY <1>2
  <2> HIDE DEF r
  <2>2. ASSUME NEW i \in DOMAIN q PROVE q[i] \in {Head(q)} \cup Elements(r)
    <3>1. CASE i = 1
      BY <3>1, <2>1
    <3>2. CASE i # 1
      <4>1. i - 1 \in DOMAIN r /\ r[i - 1] = q[i]
        BY <3>2, <2>1
      <4> QED
        BY <4>1 DEF Elements
    <3> QED
      BY <3>1, <3>2
  <2>3. ASSUME NEW i \in DOMAIN r PROVE r[i] \in Elements(q)
    <3>1. i + 1 \in DOMAIN q /\ r[i] = q[i + 1]
      BY <2>1
    <3> QED
      BY <3>1 DEF Elements
  <2>4. Head(q) \in Elements(q)
    BY <2>1 DEF Elements
  <2>5. Elements(q) = {Head(q)} \cup Elements(r)
    BY <2>2, <2>3, <2>4 DEF Elements
  <2> QED
    BY <2>5 DEF r
<1>3. Elements(<<>>) = {} /\ Elements(q) \subseteq Segment
  BY DEF Elements
<1> QED
  BY <1>1, <1>2, <1>3

\* Nothing in flight means that nothing was given up and what is owed was visited
\* (descentCount is zero).
LEMMA NothingInFlight ==
    ASSUME Shape, DropInv, count = InFlight, count = 0, dropped = {} => \A s \in Owed : Known(s)
    PROVE  dropped = {} /\ buffer = <<>> /\ Holders = {} /\ \A s \in Owed : visits[s] > 0
<1>1. Len(buffer) = 0 /\ Cardinality(Holders) = 0 /\ Cardinality(dropped) = 0
  BY FiniteWork, SegmentSequence DEF InFlight, Shape, Types
<1>2. buffer = <<>> /\ Holders = {} /\ dropped = {}
  BY <1>1, FiniteWork, FS_EmptySet, SegmentSequence DEF Shape, Types
<1>3. \A w \in Worker : at[w] # "drive" /\ below[w] = <<>>
  BY <1>2 DEF Holders, Shape, WorkerInv, Busy
<1>4. Elements(buffer) = {} /\ \A w \in Worker : Elements(below[w]) = {}
  BY <1>2, <1>3, ElementsOf DEF Shape, Types
<1> QED
  BY <1>2, <1>3, <1>4 DEF Known

\* The caller cancels the traversal only when nothing is left to do, or
\* something went wrong (BreadthFirst).
LEMMA CallerClean ==
    ASSUME Shape, DropInv, CountMatchesWork, CleanInv, Around
    PROVE  CleanInv'
<1> SUFFICES ASSUME ~interrupted', failed' = {}
             PROVE  IF dropped' = {} THEN Clean' ELSE main' \in {"wait", "look"} /\ ~cancelled'
  BY DEF CleanInv
<1>1. failed = {} /\ ~interrupted /\ ~Interrupt /\ visits' = visits /\ tree' = tree /\ dropped' = dropped
  BY CallerFrame
<1>a. ASSUME Look, Finished, ~cancelled, dropped = {} => \A s \in Owed : Known(s)
      PROVE  dropped = {} /\ buffer = <<>> /\ Holders = {} /\ \A s \in Owed : visits[s] > 0
  <2>1. count = InFlight /\ count = 0
    BY <1>a DEF Finished, CountMatchesWork, InFlight, Holders, Senders
  <2> QED
    BY <2>1, <1>a, NothingInFlight
<1>b. CASE dropped # {}
  <2>1. main \in {"wait", "look"} /\ ~cancelled
    BY <1>1, <1>b DEF CleanInv
  <2>2. ~(Look /\ Finished)
    BY <2>1, <1>a, <1>b
  <2>3. main' \in {"wait", "look"} /\ ~cancelled'
    BY <1>1, <2>1, <2>2 DEF Around, Caller, Pipe, Launch, Rootless, SubmitRoot, Await, Look, CancelTraversal, Join,
           CloseWriter, Return, PipeDone, PipeFlush, SwitchDatabase, context
  <2> QED
    BY <2>3, <1>1, <1>b
<1>c. SUFFICES ASSUME dropped = {} PROVE Clean'
  BY <1>1, <1>b
<1>2. Clean /\ Owed' = Owed
  BY <1>1, <1>c DEF CleanInv, Owed
<1>3. CASE Launch
  BY <1>2, <1>3 DEF Launch, Clean, context
<1>4. CASE Rootless
  BY <1>2, <1>4 DEF Rootless, Clean
<1>5. CASE SubmitRoot
  <2>1. buffer' = Append(buffer, Root) /\ main' = "wait" /\ cancelled' = cancelled /\ ~cancelled
    BY <1>2, <1>5 DEF SubmitRoot, Clean, context
  <2>2. Root \in Elements(buffer') /\ Owed \subseteq {Root}
    <3>1. Elements(buffer') = Elements(buffer) \cup {Root}
      BY <2>1, ElementsOf, TraversalAssumption DEF Shape, Types
    <3>2. \A s \in Segment : visits[s] = 0
      BY <1>5 DEF SubmitRoot, Shape, CallerInv
    <3> QED
      BY <3>1, <3>2 DEF Owed
  <2> QED
    BY <2>1, <2>2, <1>2 DEF Clean, Known
<1>6. ASSUME UNCHANGED <<at, hold, below, buffer, collected, cancelled>>,
             \/ main' = main \/ (main \in {"wait", "look"} /\ main' \in {"wait", "look"})
             \/ /\ main \in {"cancel", "join", "close", "release"}
                /\ main' \in {"join", "close", "release", "returned"}
      PROVE  Clean'
  BY <1>1, <1>2, <1>6 DEF Clean, Known, Holders
<1>7. CASE Await
  <2>1. main = "wait" /\ main' = "look"
    BY <1>2, <1>7 DEF Await, Clean
  <2> QED
    BY <2>1, <1>6, <1>7 DEF Await, workers, context
<1>8. CASE Look /\ Finished
  <2>1. ~cancelled /\ \A s \in Owed : Known(s)
    BY <1>2, <1>8 DEF Look, Clean
  <2>2. buffer = <<>> /\ Holders = {} /\ \A s \in Owed : visits[s] > 0
    BY <2>1, <1>8, <1>a
  <2> QED
    BY <2>2, <1>1, <1>2, <1>8 DEF Look, Clean, Holders, workers, channel
<1>9. CASE Look /\ ~Finished
  BY <1>6, <1>9 DEF Look, workers, channel, context
<1>10. CASE Join \/ CloseWriter \/ PipeDone \/ PipeFlush \/ SwitchDatabase
  BY <1>6, <1>10 DEF Join, CloseWriter, PipeDone, PipeFlush, SwitchDatabase, workers, channel, context
<1>11. CASE CancelTraversal \/ Return
  BY <1>1, <1>2, <1>11 DEF CancelTraversal, Return, Clean, Holders, workers, channel
<1> QED
  BY <1>1, <1>3, <1>4, <1>5, <1>7, <1>8, <1>9, <1>10, <1>11 DEF Around, Caller, Pipe

\* A worker loses no segment: what it takes from the pipe it gives to the driver,
\* and what the driver answers it sends (the workers of BreadthFirst).
LEMMA WorkClean ==
    ASSUME Shape, DropInv, CleanInv, NEW w \in Worker, Work(w)
    PROVE  CleanInv'
<1> SUFFICES ASSUME ~interrupted', failed' = {}
             PROVE  IF dropped' = {} THEN Clean' ELSE main' \in {"wait", "look"} /\ ~cancelled'
  BY DEF CleanInv
<1> USE DEF Goto, Drop, Leave, Err
<1>1. /\ failed = {} /\ ~interrupted /\ main' = main /\ tree' = tree
      /\ at[w] \notin {"failing", "report"} /\ main # "start"
  <2>1. failed = {} /\ ~interrupted /\ main' = main /\ tree' = tree /\ at[w] # "none"
    BY WorkFrame
  <2>2. at[w] \notin {"failing", "report"}
    BY <2>1 DEF Shape, ErrorInv
  <2>3. main # "start"
    BY <2>1 DEF Shape, CallerInv
  <2> QED
    BY <2>1, <2>2, <2>3
<1>3. /\ ~Kill(w) /\ ~Report(w) /\ ~BeginFails(w) /\ cancelled' = cancelled /\ collected' = collected
  BY <1>1 DEF Work, Progress, Begin, BeginFails, Receive, Drive, Add, Send, Lower, Complete, Kill, Report, context
<1>a. CASE dropped' # {}
  <2>1. CASE dropped # {}
    BY <1>1, <1>3, <1>a, <2>1 DEF CleanInv
  <2>2. CASE dropped = {}
    <3>1. at[w] = "drive"
      BY <1>3, <1>a, <2>2 DEF Work, Progress, Begin, Receive, Drive, Add, Send, Lower, Complete, history
    <3>2. w \in Holders /\ main \notin {"start", "submit", "close", "release", "returned"}
      BY <3>1, <1>1 DEF Shape, WorkerInv, CallerInv, Holders, Busy
    <3>3. main \notin {"cancel", "join"}
      BY <3>2, <2>2, <1>1 DEF CleanInv, Clean, DropInv
    <3>4. main \in {"wait", "look"}
      BY <3>2, <3>3 DEF Shape, Types, Main
    <3> QED
      BY <3>4, <2>2, <1>1, <1>3, <1>a DEF CleanInv, Clean
  <2> QED
    BY <2>1, <2>2
<1>b. SUFFICES ASSUME dropped' = {} PROVE Clean'
  BY <1>a
<1>2. Clean
  BY <1>1, <1>b, WorkFrame DEF CleanInv
<1>4. /\ at \in [Worker -> At] /\ hold \in [Worker -> Segment \cup {None}] /\ below \in [Worker -> Seq(Segment)]
      /\ tree \in [Segment -> Seq(Segment)] /\ visits \in [Segment -> Nat] /\ buffer \in Seq(Segment)
      /\ hold[w] # None <=> at[w] \in Busy
      /\ at[w] \in {"add", "send"} <=> below[w] # <<>>
  BY DEF Shape, Types, WorkerInv
<1>5. CASE main = "submit"
  BY <1>1, <1>2, <1>3, <1>5 DEF Clean
<1>6. CASE main \in {"wait", "look"}
  <2>1. ~cancelled /\ \A s \in Owed : Known(s)
    BY <1>2, <1>6 DEF Clean
  <2>2. SUFFICES \A s \in Owed' : Known(s)'
    BY <1>1, <1>3, <1>6, <2>1 DEF Clean
  <2>3. ASSUME UNCHANGED <<visits, buffer, below>>, at[w] # "drive",
               \A v \in Worker : v # w => at'[v] = at[v] /\ hold'[v] = hold[v]
        PROVE  \A s \in Owed' : Known(s)'
    BY <1>1, <2>1, <2>3 DEF Owed, Known
  <2>4. CASE Begin(w) \/ Add(w) \/ Lower(w) \/ (Complete(w) /\ ~cancelled)
    <3>1. at[w] # "drive" /\ UNCHANGED <<visits, buffer, below>>
      BY <2>4, <1>1 DEF Begin, Add, Lower, Complete, channel, history
    <3>2. \A v \in Worker : v # w => at'[v] = at[v] /\ hold'[v] = hold[v]
      BY <2>4, <1>4 DEF Begin, Add, Lower, Complete
    <3> QED
      BY <3>1, <3>2, <2>3
  <2>5. CASE Receive(w)
    <3>1. CASE at'[w] = "drive"
      <4>1. /\ buffer # <<>> /\ buffer' = Tail(buffer) /\ hold' = [hold EXCEPT ![w] = Head(buffer)]
            /\ at' = [at EXCEPT ![w] = "drive"] /\ UNCHANGED <<visits, below>> /\ at[w] = "receive"
        BY <2>5, <3>1, <1>4, ZenonT(30) DEF Receive, history
      <4>2. Elements(buffer) = {Head(buffer)} \cup Elements(buffer')
        BY <4>1, <1>4, ElementsOf
      <4>3. at'[w] = "drive" /\ hold'[w] = Head(buffer)
        BY <4>1, <1>4
      <4>4. \A v \in Worker : v # w => at'[v] = at[v] /\ hold'[v] = hold[v]
        BY <4>1, <1>4
      <4>5. Owed' = Owed
        BY <4>1, <1>1 DEF Owed
      <4>6. ASSUME NEW s \in Owed PROVE Known(s)'
        <5>1. CASE s = Head(buffer)
          BY <5>1, <4>3 DEF Known
        <5>2. CASE s # Head(buffer)
          <6>1. Known(s)
            BY <2>1
          <6>2. s \in Elements(buffer) => s \in Elements(buffer')
            BY <5>2, <4>2
          <6> QED
            BY <6>1, <6>2, <4>1, <4>4 DEF Known
        <5> QED
          BY <5>1, <5>2
      <4> QED
        BY <4>5, <4>6
    <3>2. CASE at'[w] # "drive"
      <4>1. UNCHANGED <<visits, buffer>> /\ at[w] = "receive" /\ below' = [below EXCEPT ![w] = <<>>]
        BY <2>5, <3>2, <1>4 DEF Receive, history
      <4>2. below' = below
        BY <4>1, <1>4
      <4>3. \A v \in Worker : v # w => at'[v] = at[v] /\ hold'[v] = hold[v]
        BY <2>5, <1>4 DEF Receive
      <4> QED
        BY <4>1, <4>2, <4>3, <2>3
    <3> QED
      BY <3>1, <3>2
  <2>6. CASE Drive(w)
    <3>1. /\ at[w] = "drive" /\ hold[w] \in Segment
          /\ visits' = [visits EXCEPT ![hold[w]] = @ + 1] /\ below' = [below EXCEPT ![w] = tree[hold[w]]]
          /\ UNCHANGED <<buffer, hold>>
          /\ \A v \in Worker : v # w => at'[v] = at[v]
      BY <2>6, <1>1, <1>4, <1>b DEF Drive, Busy, channel
    <3>2. \A s \in Segment : visits'[s] > 0 <=> visits[s] > 0 \/ s = hold[w]
      BY <3>1, <1>4
    <3>3. Elements(below[w]) = {} /\ Elements(below'[w]) = Elements(tree[hold[w]])
      BY <3>1, <1>4, ElementsOf
    <3>4. \A v \in Worker : v # w => below'[v] = below[v]
      BY <3>1, <1>4
    <3>5. ASSUME NEW s \in Segment, Known(s) PROVE Known(s)'
      BY <3>1, <3>2, <3>3, <3>4, <3>5 DEF Known
    <3>6. ASSUME NEW s \in Owed', s \notin Owed PROVE Known(s)'
      <4>1. s \in Elements(tree[hold[w]])
        BY <3>2, <3>6, <1>1 DEF Owed
      <4> QED
        BY <4>1, <3>3 DEF Known
    <3> QED
      BY <3>5, <3>6, <2>1 DEF Owed
  <2>7. CASE Send(w)
    <3>1. /\ at[w] = "send" /\ below[w] # <<>> /\ buffer' = Append(buffer, Head(below[w]))
          /\ below' = [below EXCEPT ![w] = Tail(below[w])] /\ UNCHANGED <<visits, hold>>
          /\ \A v \in Worker : v # w => at'[v] = at[v]
      BY <2>7, <2>1, <1>4 DEF Send, history
    <3>2. /\ Elements(buffer') = Elements(buffer) \cup {Head(below[w])}
          /\ Elements(below[w]) = {Head(below[w])} \cup Elements(below'[w])
      BY <3>1, <1>4, ElementsOf, SegmentSequence
    <3>3. \A v \in Worker : v # w => below'[v] = below[v]
      BY <3>1, <1>4
    <3>4. ASSUME NEW s \in Segment, Known(s) PROVE Known(s)'
      BY <3>1, <3>2, <3>3, <3>4 DEF Known
    <3>5. Owed' = Owed
      BY <3>1, <1>1 DEF Owed
    <3> QED
      BY <3>4, <3>5, <2>1 DEF Owed
  <2> QED
    BY <1>3, <2>1, <2>4, <2>5, <2>6, <2>7 DEF Work, Progress
<1>7. CASE main \in {"cancel", "join", "close", "release", "returned"}
  <2>1. SUFFICES ASSUME collected = {} PROVE buffer' = <<>> /\ Holders' = {} /\ \A s \in Owed' : visits'[s] > 0
    BY <1>1, <1>3, <1>7 DEF Clean
  <2>2. buffer = <<>> /\ Holders = {} /\ \A s \in Owed : visits[s] > 0
    BY <1>2, <1>7, <2>1 DEF Clean
  <2>3. at[w] \notin Busy /\ hold[w] = None
    BY <2>2, <1>4 DEF Holders
  <2>4. Begin(w) \/ Receive(w) \/ Complete(w)
    BY <1>3, <2>3 DEF Work, Progress, Drive, Add, Send, Lower, Busy
  <2>5. buffer' = buffer /\ visits' = visits /\ hold' \in {hold, [hold EXCEPT ![w] = None]}
    BY <2>2, <2>4, <1>1 DEF Begin, Receive, Complete, channel, history
  <2> QED
    BY <2>2, <2>5, <1>1, <1>4 DEF Holders, Owed
<1> QED
  BY <1>1, <1>5, <1>6, <1>7 DEF Shape, Types, Main
-----------------------------------------------------------------------------
\* Every step keeps the invariant.
LEMMA StepIInv == IInv /\ [Next]_vars => IInv'
<1> SUFFICES ASSUME IInv, [Next]_vars PROVE IInv'
  OBVIOUS
<1>1. CASE Around
  BY <1>1, CallerShape, StepDrop, CallerCount, CallerClean DEF IInv
<1>2. ASSUME NEW w \in Worker, Work(w) PROVE IInv'
  BY <1>2, WorkShape, StepDrop, WorkCount, WorkClean DEF IInv
<1>3. CASE UNCHANGED vars
  <2>1. Shape'
    BY <1>3 DEF vars, workers, channel, context, history, IInv, Shape, Types, WorkerInv, CallerInv, ErrorInv
  <2>2. CountMatchesWork'
    BY <1>3 DEF vars, workers, channel, context, history, IInv, CountMatchesWork
  <2>3. CleanInv'
    BY <1>3 DEF vars, workers, channel, context, history, IInv, CleanInv, Clean, Owed, Known, Holders
  <2>4. DropInv'
    BY <1>3 DEF vars, workers, channel, context, history, IInv, DropInv
  <2> QED
    BY <2>1, <2>2, <2>3, <2>4 DEF IInv
<1> QED
  BY <1>1, <1>2, <1>3 DEF Next, Over, Around

\* The invariant holds of every traversal (BreadthFirst).
THEOREM TraversalInvariant == Spec => []IInv
<1>1. Init => IInv
  <2> SUFFICES ASSUME Init PROVE IInv
    OBVIOUS
  <2>1. Shape
    <3>1. <<>> \in Seq(Segment) /\ tree \in [Segment -> Seq(Segment)]
      BY TraversalAssumption DEF Init
    <3>2. Types
      <4>1. buffer \in Seq(Segment) /\ below \in [Worker -> Seq(Segment)]
        BY <3>1 DEF Init
      <4>2. /\ at \in [Worker -> At] /\ hold \in [Worker -> Segment \cup {None}]
            /\ visits \in [Segment -> Nat]
        BY DEF Init, At
      <4>3. team \in Teams /\ main \in Main /\ count \in Int
        BY DEF Init, Main
      <4>4. closed \in BOOLEAN /\ cancelled \in BOOLEAN /\ interrupted \in BOOLEAN
        BY ZenonT(30) DEF Init
      <4> QED
        BY <3>1, <4>1, <4>2, <4>3, <4>4 DEF Types
    <3>3. WorkerInv
      BY DEF Init, WorkerInv, Busy
    <3>4. CallerInv /\ ErrorInv
      BY DEF Init, CallerInv, ErrorInv
    <3> QED
      BY <3>2, <3>3, <3>4 DEF Shape
  <2>2. Holders = {} /\ Senders = {} /\ Len(buffer) = 0 /\ dropped = {}
    BY DEF Init, Holders, Senders
  <2>3. CountMatchesWork
    <3>1. Cardinality(Holders) = 0 /\ Cardinality(Senders) = 0 /\ Cardinality(dropped) = 0
      BY <2>2, FS_EmptySet
    <3>2. count = InFlight
      BY <3>1, <2>2 DEF Init, InFlight
    <3> QED
      BY <3>2 DEF CountMatchesWork, InFlight, Holders, Senders
  <2>4. CleanInv /\ DropInv
    BY DEF Init, CleanInv, Clean, DropInv
  <2> QED
    BY <2>1, <2>3, <2>4 DEF IInv
<1> QED
  BY <1>1, StepIInv, PTL DEF Spec

\* Until the traversal is cancelled descentCount is the number of segments in
\* flight and of those that workers gave up, with or without a word, for every
\* team and every tree, and whatever switches of the database do to the workers.
THEOREM TraversalCount == Spec => []CountMatchesWork
<1>1. IInv => CountMatchesWork
  BY DEF IInv
<1> QED
  BY <1>1, TraversalInvariant, PTL

\* No worker's error is lost, although a worker cancels the traversal before it
\* reports its error (doneFunc, errorCollector.Add).
THEOREM TraversalReportsErrors == Spec => []ErrorsReported
<1>1. IInv => ErrorsReported
  BY DEF IInv, Shape, CallerInv, ErrorInv, ErrorsReported
<1> QED
  BY <1>1, TraversalInvariant, PTL

\* No worker sends on the pipe once the caller has closed its writer (the
\* deferred close of BreadthFirst).
THEOREM TraversalClosesLast == Spec => []NoSendOnClosed
<1>1. IInv => NoSendOnClosed
  BY DEF IInv, Shape, CallerInv, ErrorInv, NoSendOnClosed
<1> QED
  BY <1>1, TraversalInvariant, PTL

\* When BreadthFirst returns without an error and was not interrupted the root
\* was visited, and with every segment that was, the segments the driver
\* answered for it.
VisitedIsClosed ==
    main = "returned" /\ collected = {} /\ ~interrupted =>
        /\ visits[Root] > 0
        /\ \A s \in Segment : visits[s] > 0 => \A t \in Elements(tree[s]) : visits[t] > 0

\* A traversal that ends without an error leaves no part of the tree out: the
\* visited segments contain the root and are closed under the driver's answers
\* (BreadthFirst and its completion count).
THEOREM TraversalVisitsAll == Spec => []VisitedIsClosed
<1>1. IInv => VisitedIsClosed
  <2> SUFFICES ASSUME IInv, main = "returned", collected = {}, ~interrupted
               PROVE  /\ visits[Root] > 0
                      /\ \A s \in Segment : visits[s] > 0 => \A t \in Elements(tree[s]) : visits[t] > 0
    BY DEF VisitedIsClosed
  <2>1. failed = {}
    BY DEF IInv, Shape, CallerInv, ErrorInv
  <2>2. \A s \in Owed : visits[s] > 0
    BY <2>1 DEF IInv, CleanInv, Clean
  <2>3. Root \in Owed
    BY TraversalAssumption DEF Owed
  <2>4. ASSUME NEW s \in Segment, visits[s] > 0, NEW t \in Elements(tree[s]) PROVE t \in Owed
    <3>1. t \in Segment
      BY ElementsOf DEF IInv, Shape, Types
    <3> QED
      BY <3>1, <2>4 DEF Owed
  <2> QED
    BY <2>2, <2>3, <2>4
<1> QED
  BY <1>1, TraversalInvariant, PTL
=============================================================================
