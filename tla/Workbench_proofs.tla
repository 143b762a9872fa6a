--------------------------- MODULE Workbench_proofs ---------------------------
(***************************************************************************)
(* Theorems about Workbench, for every capacity of the queue: the types,    *)
(* the Frame's accounting, exclusive business, closing, and that the        *)
(* program implements RequestReply.                                         *)
(***************************************************************************)
EXTENDS Workbench, QueueLemmas

\* Where the worker is tells what it holds; it stops only when told to, and
\* the UI thread is in worker_.reset() from then on.
WorkerInv ==
    /\ hand # NoJob <=> wpc \in {"run", "call"}
    /\ wpc = "call" => hand.op \in {"start", "stop"}
    /\ wpc \in {"destroy", "exited"} => quit /\ jobs = <<>>
    /\ wpc = "exited" => session = "released"
    /\ quit <=> ui \in {"joining", "gone"}
    /\ ui = "gone" => wpc = "exited" /\ posted = <<>>

\* An answer says that a library was loaded only if one is.
HonestInv ==
    /\ loaded => session # "unloaded"
    /\ \A i \in 1..Len(posted) : posted[i].op = "load" /\ posted[i].ok => session # "unloaded"

ThreadsInv == TypeOK /\ WorkerInv /\ HonestInv

\* What the Frame believes of the requests under way.
FrameInv ==
    /\ PendingAccounting /\ ExclusiveBusiness /\ ClosingHasStop
    /\ ui = "confirm" => Outstanding = <<>>

---------------------------------------------------------------------------
(* The two threads *)

\* Whatever it does, Enqueue keeps the queue within its capacity, and adds
\* nothing once the worker is told to quit.
LEMMA EnqueueTypes ==
    ASSUME TypeOK, NEW job \in Jobs, NEW c \in BOOLEAN, NEW n \in Nat, NEW g \in SUBSET Buttons,
           Enqueue(job, c, n, g)
    PROVE  /\ jobs' \in Seq(Jobs) /\ Len(jobs') <= Capacity
           /\ closing' \in BOOLEAN /\ pending' \in Nat /\ gates' \in SUBSET Buttons
           /\ quit => jobs' = jobs
<1> USE WorkbenchAssumption DEF TypeOK, Enqueue, CanSubmit
<1>1. CASE CanSubmit
  <2>1. jobs' = Append(jobs, job) /\ Len(jobs) < Capacity
        BY <1>1
  <2>2. jobs' \in Seq(Jobs) /\ Len(jobs') = Len(jobs) + 1
        BY <2>1, AppendProperties
  <2>3. Len(jobs) \in Nat
        OBVIOUS
  <2> QED
        BY <1>1, <2>1, <2>2, <2>3
<1>2. CASE ~CanSubmit
      BY <1>2
<1> QED
      BY <1>1, <1>2

\* The oldest answer leaves the dispatcher's queue.
LEMMA ArrivesTypes ==
    ASSUME ThreadsInv, NEW row \in Rows, Arrives(row)
    PROVE  /\ posted # <<>> /\ row = Head(posted)
           /\ posted' \in Seq(Rows) /\ feeds' = feeds
           /\ loaded' \in BOOLEAN /\ (loaded' => session # "unloaded")
           /\ \A i \in 1..Len(posted') :
                 posted'[i].op = "load" /\ posted'[i].ok => session # "unloaded"
           /\ ui \in EventLoops
<1> USE DEF ThreadsInv, TypeOK, Arrives
<1>1. posted' \in Seq(Rows) /\ Len(posted') = Len(posted) - 1
      /\ \A i \in 1..Len(posted') : posted'[i] = posted[i + 1]
      BY HeadTailProperties
<1>2. Len(posted) \in Nat \ {0} /\ Head(posted) = posted[1]
      BY EmptySeq
<1>3. loaded' \in BOOLEAN
      BY DEF IsLoaded, Rows
<1>4. loaded' => session # "unloaded"
      BY <1>2 DEF IsLoaded, HonestInv
<1>5. \A i \in 1..Len(posted') : posted'[i].op = "load" /\ posted'[i].ok => session # "unloaded"
      BY <1>1, <1>2 DEF HonestInv
<1> QED
      BY <1>1, <1>3, <1>4, <1>5

\* A posted answer enters the dispatcher's queue; the worker waits again.
LEMMA AnswerTypes ==
    ASSUME ThreadsInv, NEW ok \in BOOLEAN, hand \in Jobs, Answer(ok),
           hand.op = "load" /\ ok => session' # "unloaded",
           session # "unloaded" => session' # "unloaded"
    PROVE  /\ posted' \in Seq(Rows) /\ feeds' \in 0..MaxFeeds
           /\ hand' = NoJob /\ wpc' = "wait"
           /\ \A i \in 1..Len(posted') :
                 posted'[i].op = "load" /\ posted'[i].ok => session' # "unloaded"
           /\ ui = "gone" => posted' = posted
<1> USE WorkbenchAssumption DEF ThreadsInv, TypeOK, Answer, Post
<1>1. CASE ui = "gone"
      BY <1>1 DEF HonestInv, postVars
<1>2. CASE ui # "gone"
  <2> DEFINE row == [op |-> hand.op, byClose |-> hand.byClose, ok |-> ok, feeds |-> feeds]
  <2>1. row \in Rows
        BY DEF Rows, Jobs
  <2>2. posted' = Append(posted, row) /\ feeds' = 0
        BY <1>2
  <2>3. /\ posted' \in Seq(Rows) /\ Len(posted') = Len(posted) + 1
        /\ \A i \in 1..Len(posted) : posted'[i] = posted[i]
        /\ posted'[Len(posted) + 1] = row
        BY <2>1, <2>2, AppendProperties
  <2>4. ASSUME NEW i \in 1..Len(posted'), posted'[i].op = "load", posted'[i].ok
        PROVE  session' # "unloaded"
    <3>1. Len(posted) \in Nat
          OBVIOUS
    <3>2. CASE i = Len(posted) + 1
          BY <2>3, <2>4, <3>2
    <3>3. CASE i # Len(posted) + 1
          BY <2>3, <2>4, <3>1, <3>3 DEF HonestInv
    <3> QED
          BY <3>2, <3>3
  <2> QED
        BY <1>2, <2>2, <2>3, <2>4
<1> QED
      BY <1>1, <1>2

\* A step of the Frame that leaves the worker alone and closes nothing.
LEMMA FrameKeeps ==
    ASSUME ThreadsInv, UNCHANGED <<quit, wpc, hand, session, smoke>>,
           ui \in EventLoops, ui' \in EventLoops,
           jobs' \in Seq(Jobs), Len(jobs') <= Capacity, quit => jobs' = jobs,
           closing' \in BOOLEAN, pending' \in Nat, gates' \in SUBSET Buttons,
           loaded' \in BOOLEAN, loaded' => session # "unloaded",
           posted' \in Seq(Rows), feeds' \in 0..MaxFeeds,
           \A i \in 1..Len(posted') : posted'[i].op = "load" /\ posted'[i].ok => session # "unloaded"
    PROVE  ThreadsInv'
<1>1. TypeOK'
      BY DEF ThreadsInv, TypeOK, EventLoops
<1>2. WorkerInv'
      BY DEF ThreadsInv, WorkerInv, EventLoops
<1>3. HonestInv'
      BY DEF HonestInv
<1> QED
      BY <1>1, <1>2, <1>3 DEF ThreadsInv

\* The types, where each thread is and what the answers say fit together at
\* every step (app.cpp; worker.cpp).
LEMMA UserStep == ThreadsInv /\ User => ThreadsInv'
<1> SUFFICES ASSUME ThreadsInv, User
             PROVE  ThreadsInv'
    OBVIOUS
<1> USE DEF workerVars, frameVars, postVars
<1>1. /\ closing \in BOOLEAN /\ pending \in Nat /\ gates \in SUBSET Buttons
      /\ loaded \in BOOLEAN /\ (loaded => session # "unloaded")
      /\ jobs \in Seq(Jobs) /\ Len(jobs) <= Capacity
      /\ posted \in Seq(Rows) /\ feeds \in 0..MaxFeeds
      /\ \A i \in 1..Len(posted) : posted[i].op = "load" /\ posted[i].ok => session # "unloaded"
      BY DEF ThreadsInv, TypeOK, HonestInv
<1>2. UserJob("load") \in Jobs /\ UserJob("start") \in Jobs /\ UserJob("stop") \in Jobs
      /\ UserJob("api") \in Jobs /\ [op |-> "stop", byClose |-> TRUE] \in Jobs
      BY DEF UserJob, Jobs, Ops
<1>3. ASSUME NEW job \in Jobs, NEW c \in BOOLEAN, Enqueue(job, c, pending, gates),
             ui \in EventLoops, ui' \in EventLoops,
             UNCHANGED <<quit, wpc, hand, session, smoke, loaded, posted, feeds>>
      PROVE  ThreadsInv'
  <2>1. /\ jobs' \in Seq(Jobs) /\ Len(jobs') <= Capacity
        /\ closing' \in BOOLEAN /\ pending' \in Nat /\ gates' \in SUBSET Buttons
        /\ quit => jobs' = jobs
        BY <1>1, <1>3, EnqueueTypes DEF ThreadsInv
  <2> QED
        BY <2>1, <1>1, <1>3, FrameKeeps
<1>4. ASSUME ui \in EventLoops, ui' \in EventLoops,
             UNCHANGED <<jobs, quit, wpc, hand, session, smoke, loaded, posted, feeds, closing, pending, gates>>
      PROVE  ThreadsInv'
      BY <1>1, <1>4, FrameKeeps
<1>5. ASSUME NEW op \in {"load", "start", "stop"}, Click(op)
      PROVE  ThreadsInv'
      BY <1>1, <1>2, <1>3, <1>5 DEF Click, EventLoops
<1>6. CASE ClickExecute \/ AnswerConfirm
      BY <1>1, <1>2, <1>3, <1>4, <1>6 DEF ClickExecute, AnswerConfirm, EventLoops
<1>7. CASE DismissError \/ OpenBox \/ CloseBox
      BY <1>4, <1>7 DEF DismissError, OpenBox, CloseBox, EventLoops
<1>8. CASE CloseWindow
      BY <1>2, <1>3, <1>8 DEF CloseWindow, EventLoops
<1>9. CASE ForcedClose
  <2>1. TypeOK'
        BY <1>9 DEF ForcedClose, ResetWorker, ThreadsInv, TypeOK
  <2>2. WorkerInv'
        BY <1>9 DEF ForcedClose, ResetWorker, ThreadsInv, WorkerInv
  <2>3. HonestInv'
        BY <1>9 DEF ForcedClose, ResetWorker, ThreadsInv, HonestInv
  <2> QED
        BY <2>1, <2>2, <2>3 DEF ThreadsInv
<1> QED
      BY <1>5, <1>6, <1>7, <1>8, <1>9 DEF User

\* A record of events or logs before an answer leaves the answer as it is.
LEMMA FewerFeeds ==
    ASSUME NEW row \in Rows, NEW n \in 0..MaxFeeds
    PROVE  /\ [row EXCEPT !.feeds = n] \in Rows
           /\ [row EXCEPT !.feeds = n].op = row.op
           /\ [row EXCEPT !.feeds = n].byClose = row.byClose
           /\ [row EXCEPT !.feeds = n].ok = row.ok
      BY DEF Rows

\* A feed row on its way is counted on the answer it arrives behind, and no
\* answer changes (worker.cpp: run, the log rows before a job).
LEMMA FeedTypes ==
    ASSUME ThreadsInv, FeedArrives
    PROVE  /\ posted' \in Seq(Rows) /\ Len(posted') = Len(posted)
           /\ feeds' \in 0..MaxFeeds
           /\ ui \in EventLoops
           /\ \A i \in 1..Len(posted) :
                 posted'[i].op = posted[i].op /\ posted'[i].byClose = posted[i].byClose
                    /\ posted'[i].ok = posted[i].ok
<1> USE WorkbenchAssumption DEF ThreadsInv, TypeOK, FeedArrives
<1>1. CASE posted = <<>>
      BY <1>1
<1>2. CASE posted # <<>>
  <2> DEFINE row == [Head(posted) EXCEPT !.feeds = @ - 1]
  <2>1. 1 \in 1..Len(posted) /\ Head(posted) = posted[1] /\ posted[1] \in Rows
        BY <1>2, EmptySeq, ElementOfSeq
  <2>2. Head(posted).feeds \in 1..MaxFeeds
        BY <1>2, <2>1 DEF Rows
  <2>3. row \in Rows /\ row.op = posted[1].op /\ row.byClose = posted[1].byClose
        /\ row.ok = posted[1].ok
    <3>1. Head(posted).feeds - 1 \in 0..MaxFeeds
          BY <2>2
    <3> QED
          BY <3>1, <2>1, FewerFeeds
  <2>4. posted' = [posted EXCEPT ![1] = row] /\ feeds' = feeds
        BY <1>2, <2>1
  <2>5. /\ posted' \in Seq(Rows) /\ Len(posted') = Len(posted)
        /\ \A i \in 1..Len(posted) : posted'[i] = IF i = 1 THEN row ELSE posted[i]
        BY <2>1, <2>3, <2>4, ExceptSeq
  <2> QED
        BY <2>3, <2>4, <2>5
<1> QED
      BY <1>1, <1>2

\* The event loop delivers an answer or a feed row (desktop.cc: DrainTasks;
\* app.cpp: result).
LEMMA DeliverStep == ThreadsInv /\ Deliver => ThreadsInv'
<1> SUFFICES ASSUME ThreadsInv, Deliver
             PROVE  ThreadsInv'
    OBVIOUS
<1> USE DEF workerVars, frameVars
<1>1. /\ closing \in BOOLEAN /\ pending \in Nat /\ gates \in SUBSET Buttons
      /\ jobs \in Seq(Jobs) /\ Len(jobs) <= Capacity /\ feeds \in 0..MaxFeeds
      BY DEF ThreadsInv, TypeOK
<1>2. Left \in Nat /\ \A a, b : OpenGates(a, b, Left) \in SUBSET Buttons
      BY <1>1 DEF Left, OpenGates, Buttons
<1>3. CASE ShowFeed
  <2>1. loaded' \in BOOLEAN /\ (loaded' => session # "unloaded")
        BY <1>3 DEF ShowFeed, ThreadsInv, TypeOK, HonestInv
  <2>2. \A i \in 1..Len(posted') : posted'[i].op = "load" /\ posted'[i].ok => session # "unloaded"
        BY <1>3, FeedTypes DEF ShowFeed, ThreadsInv, HonestInv
  <2> QED
        BY <1>1, <1>3, <2>1, <2>2, FeedTypes, FrameKeeps DEF ShowFeed
<1>4. ASSUME NEW row \in Rows, ShowResult(row) \/ CloseRefused(row)
      PROVE  ThreadsInv'
      BY <1>1, <1>2, <1>4, ArrivesTypes, FrameKeeps DEF ShowResult, CloseRefused, EventLoops
<1>5. ASSUME NEW row \in Rows, SmokeLoaded(row)
      PROVE  ThreadsInv'
  <2>1. UserJob("api") \in Jobs
        BY DEF UserJob, Jobs, Ops
  <2>2. /\ jobs' \in Seq(Jobs) /\ Len(jobs') <= Capacity
        /\ closing' \in BOOLEAN /\ pending' \in Nat /\ gates' \in SUBSET Buttons
        /\ quit => jobs' = jobs
        BY <1>1, <1>2, <1>5, <2>1, EnqueueTypes DEF SmokeLoaded, ThreadsInv
  <2> QED
        BY <1>1, <1>5, <2>2, ArrivesTypes, FrameKeeps DEF SmokeLoaded
<1>6. ASSUME NEW row \in Rows, StopForClose(row)
      PROVE  ThreadsInv'
  <2>1. TypeOK'
        BY <1>1, <1>2, <1>6, ArrivesTypes DEF StopForClose, ResetWorker, ThreadsInv, TypeOK
  <2>2. WorkerInv'
        BY <1>6, ArrivesTypes DEF StopForClose, ResetWorker, ThreadsInv, WorkerInv
  <2>3. HonestInv'
        BY <1>6, ArrivesTypes DEF StopForClose, HonestInv
  <2> QED
        BY <2>1, <2>2, <2>3 DEF ThreadsInv
<1> QED
      BY <1>3, <1>4, <1>5, <1>6 DEF Deliver

\* The worker ends a job: the answer is posted and the queue left alone.
LEMMA JobEnds ==
    ASSUME ThreadsInv, NEW ok \in BOOLEAN, hand \in Jobs, Answer(ok),
           wpc \in {"run", "call"},
           hand.op = "load" /\ ok => session' # "unloaded",
           session # "unloaded" => session' # "unloaded",
           session' \in Session!States,
           UNCHANGED <<jobs, quit, ui, closing, loaded, pending, gates, smoke>>
    PROVE  ThreadsInv'
<1>1. /\ posted' \in Seq(Rows) /\ feeds' \in 0..MaxFeeds
      /\ hand' = NoJob /\ wpc' = "wait"
      /\ \A i \in 1..Len(posted') :
            posted'[i].op = "load" /\ posted'[i].ok => session' # "unloaded"
      BY AnswerTypes
<1>2. ui # "gone"
      BY DEF ThreadsInv, WorkerInv
<1>3. TypeOK'
      BY <1>1 DEF ThreadsInv, TypeOK
<1>4. WorkerInv'
      BY <1>1, <1>2 DEF ThreadsInv, WorkerInv
<1>5. HonestInv'
      BY <1>1 DEF ThreadsInv, HonestInv
<1> QED
      BY <1>3, <1>4, <1>5 DEF ThreadsInv

\* A job is refused, loads, runs or calls the SDK, and is answered (worker.cpp:
\* ProcessJob).
LEMMA JobStep == ThreadsInv /\ ProcessJob => ThreadsInv'
<1> SUFFICES ASSUME ThreadsInv, ProcessJob
             PROVE  ThreadsInv'
    OBVIOUS
<1> USE DEF workerVars, frameVars, postVars
<1>1. wpc \in {"run", "call"} => hand \in Jobs
      BY DEF ThreadsInv, TypeOK, WorkerInv
<1>2. session \in Session!States
      BY DEF ThreadsInv, TypeOK
<1>3. ASSUME NEW ok \in BOOLEAN, Answer(ok), wpc \in {"run", "call"},
             hand.op = "load" /\ ok => session # "unloaded",
             UNCHANGED <<jobs, quit, session, ui, closing, loaded, pending, gates, smoke>>
      PROVE  ThreadsInv'
      BY <1>1, <1>2, <1>3, JobEnds
<1>4. CASE RefuseJob
      BY <1>3, <1>4 DEF RefuseJob
<1>5. CASE LoadJob
  <2>1. session' = "stopped" /\ session = "unloaded" /\ session' \in Session!States
        BY <1>5 DEF LoadJob, Session!Load, Session!States, Session!Idle
  <2>2. PICK checked \in BOOLEAN : Answer(checked)
        BY <1>5 DEF LoadJob
  <2> QED
        BY <1>1, <1>5, <2>1, <2>2, JobEnds DEF LoadJob
<1>6. CASE ApiJob
      BY <1>3, <1>6 DEF ApiJob
<1>7. CASE StopNothing
      BY <1>3, <1>7 DEF StopNothing
<1>8. CASE BeginCall
  <2>1. session # "unloaded" /\ session' \in {"starting", "stopping"} /\ wpc = "run" /\ wpc' = "call"
        /\ hand.op \in {"start", "stop"}
        BY <1>8 DEF BeginCall, Session!Start, Session!Stop, Session!Idle
  <2>2. TypeOK'
        BY <1>8, <2>1 DEF BeginCall, ThreadsInv, TypeOK, Session!States, Session!Calls
  <2>3. WorkerInv'
        BY <1>8, <2>1 DEF BeginCall, ThreadsInv, WorkerInv
  <2>4. HonestInv'
        BY <1>8, <2>1 DEF BeginCall, ThreadsInv, HonestInv
  <2> QED
        BY <2>2, <2>3, <2>4 DEF ThreadsInv
<1>9. CASE EndCall
  <2>1. session' \in {"started", "stopped", "unclean"}
        BY <1>9 DEF EndCall, Session!StartReturns, Session!StopReturns
  <2>2. hand.op # "load"
        BY <1>9 DEF EndCall, ThreadsInv, WorkerInv
  <2> DEFINE ok == session' = IF hand.op = "start" THEN "started" ELSE "stopped"
  <2>3. Answer(ok) /\ ok \in BOOLEAN
        BY <1>9 DEF EndCall
  <2>4. session' \in Session!States /\ session' # "unloaded"
        BY <2>1 DEF Session!States, Session!Idle
  <2>5. wpc = "call" /\ UNCHANGED <<jobs, quit, ui, closing, loaded, pending, gates, smoke>>
        BY <1>9 DEF EndCall
  <2> HIDE DEF ok
  <2> QED
        BY <1>1, <2>2, <2>3, <2>4, <2>5, JobEnds
<1> QED
      BY <1>4, <1>5, <1>6, <1>7, <1>8, <1>9 DEF ProcessJob

\* The worker thread takes and answers jobs and leaves its loop, and the window
\* ends the close (worker.cpp: run; app.cpp: FinishClose in result).
LEMMA ThreadStep == ThreadsInv /\ (Thread \/ PostFeed \/ FinishClose) => ThreadsInv'
<1> SUFFICES ASSUME ThreadsInv, Thread \/ PostFeed \/ FinishClose
             PROVE  ThreadsInv'
    OBVIOUS
<1> USE DEF workerVars, frameVars, postVars
<1>1. CASE TakeJob
  <2>1. Head(jobs) \in Jobs /\ Tail(jobs) \in Seq(Jobs) /\ Len(Tail(jobs)) = Len(jobs) - 1
        BY <1>1, TakeOldest DEF TakeJob, ThreadsInv, TypeOK
  <2>2. Len(jobs) \in Nat /\ Capacity \in Nat /\ NoJob \notin Jobs
        BY WorkbenchAssumption DEF ThreadsInv, TypeOK, NoJob, Jobs, Ops
  <2>3. TypeOK'
        BY <1>1, <2>1, <2>2 DEF TakeJob, ThreadsInv, TypeOK
  <2>4. WorkerInv'
        BY <1>1, <2>1, <2>2 DEF TakeJob, ThreadsInv, WorkerInv
  <2>5. HonestInv'
        BY <1>1 DEF TakeJob, ThreadsInv, HonestInv
  <2> QED
        BY <2>3, <2>4, <2>5 DEF ThreadsInv
<1>2. CASE LeaveLoop
      BY <1>2 DEF LeaveLoop, ThreadsInv, TypeOK, WorkerInv, HonestInv
<1>3. CASE ProcessJob
      BY <1>3, JobStep
<1>4. CASE DestroySdk
  <2>1. session' \in {"ending", "released"} /\ wpc = "destroy" /\ wpc' \in {"destroy", "exited"}
        /\ (wpc' = "exited" => session' = "released")
        BY <1>4 DEF DestroySdk, Session!Destroy, Session!Release
  <2>2. TypeOK'
        BY <1>4, <2>1 DEF DestroySdk, ThreadsInv, TypeOK, Session!States, Session!Calls
  <2>3. WorkerInv'
        BY <1>4, <2>1 DEF DestroySdk, ThreadsInv, WorkerInv
  <2>4. HonestInv'
        BY <1>4, <2>1 DEF DestroySdk, ThreadsInv, HonestInv
  <2> QED
        BY <2>2, <2>3, <2>4 DEF ThreadsInv
<1>5. CASE PostFeed
      BY <1>5, WorkbenchAssumption DEF PostFeed, ThreadsInv, TypeOK, WorkerInv, HonestInv
<1>6. CASE FinishClose
  <2>1. <<>> \in Seq(Rows) /\ Len(<<>>) = 0 /\ 0 \in 0..MaxFeeds
        BY EmptySeq, WorkbenchAssumption
  <2>2. TypeOK'
        BY <1>6, <2>1 DEF FinishClose, Joined, ThreadsInv, TypeOK
  <2>3. WorkerInv' /\ HonestInv'
        BY <1>6, <2>1 DEF FinishClose, Joined, ThreadsInv, WorkerInv, HonestInv
  <2> QED
        BY <2>2, <2>3 DEF ThreadsInv
<1> QED
      BY <1>1, <1>2, <1>3, <1>4, <1>5, <1>6 DEF Thread

\* Every step, of the user, the event loop or the worker, keeps the invariant.
LEMMA ThreadsInvStep == ThreadsInv /\ [Next]_vars => ThreadsInv'
<1>1. ThreadsInv /\ UNCHANGED vars => ThreadsInv'
      BY DEF vars, workerVars, frameVars, postVars, ThreadsInv, TypeOK, WorkerInv, HonestInv
<1> QED
      BY <1>1, UserStep, DeliverStep, ThreadStep DEF Next

\* What the worker holds and where the UI thread is agree at every step, and no
\* answer claims a library that is not loaded (app.cpp; worker.cpp).
THEOREM ThreadsInvariant == Spec => []ThreadsInv
<1>1. ASSUME Init
      PROVE  ThreadsInv
  <2>1. <<>> \in Seq(Jobs) /\ <<>> \in Seq(Rows) /\ Len(<<>>) = 0
        BY EmptySeq
  <2>2. Capacity \in Nat /\ 0 \in 0..MaxFeeds /\ 0 <= Capacity
        BY WorkbenchAssumption
  <2>3. jobs = <<>> /\ posted = <<>> /\ Len(jobs) <= Capacity /\ feeds = 0
        BY <1>1, <2>1, <2>2 DEF Init
  <2>4. TypeOK
        BY <1>1, <2>1, <2>2, <2>3
        DEF Init, TypeOK, Session!Init, Session!States, Session!Idle, EventLoops, Buttons
  <2>5. WorkerInv
        BY <1>1 DEF Init, WorkerInv
  <2>6. HonestInv
        BY <1>1, <2>1 DEF Init, HonestInv
  <2> QED
        BY <2>4, <2>5, <2>6 DEF ThreadsInv
<1>2. QED
      BY <1>1, ThreadsInvStep, PTL DEF Spec

\* The members of Frame and Worker keep their types, and the queue its
\* capacity (worker.cpp: submit).
THEOREM TypeCorrect == Spec => []TypeOK
<1>1. ThreadsInv => TypeOK
      BY DEF ThreadsInv
<1>2. QED
      BY <1>1, ThreadsInvariant, PTL

\* The window is destroyed only after every job was worked off, the SDK released
\* and the thread ended (app.cpp: result; worker.cpp: ~Worker, run).
THEOREM ClosesSafely == Spec => []SafeClose
<1>1. ThreadsInv => SafeClose
      BY DEF ThreadsInv, WorkerInv, SafeClose
<1>2. QED
      BY <1>1, ThreadsInvariant, PTL

\* The Frame offers business work only when a library is loaded
\* (app.cpp: result).
THEOREM LoadedIsHonest == Spec => []LoadedHonest
<1>1. ThreadsInv => LoadedHonest
      BY DEF ThreadsInv, HonestInv, LoadedHonest
<1>2. QED
      BY <1>1, ThreadsInvariant, PTL

---------------------------------------------------------------------------
(* What is outstanding *)

Posted(rows) == [i \in 1..Len(rows) |-> JobOf(rows[i])]

InHand(job) == IF job = NoJob THEN <<>> ELSE <<job>>

Spread(rows, job, queue) == (Posted(rows) \o InHand(job)) \o queue

\* The answers on their way are the jobs they answer: one comes as its job is
\* done, one leaves as the Frame handles it.
LEMMA PostedQueue ==
    ASSUME NEW rows \in Seq(Rows)
    PROVE  /\ Posted(rows) \in Seq(Jobs) /\ Len(Posted(rows)) = Len(rows)
           /\ \A i \in 1..Len(rows) : Posted(rows)[i] = JobOf(rows[i])
<1>1. \A i \in 1..Len(rows) : JobOf(rows[i]) \in Jobs
  <2>1. \A row \in Rows : JobOf(row) \in Jobs
        BY DEF JobOf, Rows, Jobs
  <2> QED
        BY <2>1, ElementOfSeq
<1>2. Len(rows) \in Nat
      OBVIOUS
<1> QED
      BY <1>1, <1>2 DEF Posted

\* An answer posted is the last of the jobs answered and not shown.
LEMMA PostedAppend ==
    ASSUME NEW rows \in Seq(Rows), NEW row \in Rows
    PROVE  Posted(Append(rows, row)) = Append(Posted(rows), JobOf(row))
<1> DEFINE s == Posted(Append(rows, row))
           t == Append(Posted(rows), JobOf(row))
<1>1. /\ Append(rows, row) \in Seq(Rows) /\ Len(Append(rows, row)) = Len(rows) + 1
      /\ \A i \in 1..Len(rows) : Append(rows, row)[i] = rows[i]
      /\ Append(rows, row)[Len(rows) + 1] = row
      BY AppendProperties
<1>2. JobOf(row) \in Jobs
      BY DEF JobOf, Rows, Jobs
<1>3. /\ s \in Seq(Jobs) /\ Len(s) = Len(rows) + 1
      /\ \A i \in 1..(Len(rows) + 1) : s[i] = JobOf(Append(rows, row)[i])
      BY <1>1, PostedQueue
<1>4. /\ t \in Seq(Jobs) /\ Len(t) = Len(rows) + 1
      /\ \A i \in 1..Len(rows) : t[i] = JobOf(rows[i])
      /\ t[Len(rows) + 1] = JobOf(row)
      BY <1>2, PostedQueue, AppendProperties
<1>5. \A i \in 1..(Len(rows) + 1) : s[i] = t[i]
  <2>1. Len(rows) \in Nat
        OBVIOUS
  <2> HIDE DEF s, t
  <2> QED
        BY <2>1, <1>1, <1>3, <1>4
<1> HIDE DEF s, t
<1>6. s = t
      BY <1>3, <1>4, <1>5, SeqEqual
<1> QED
      BY <1>6 DEF s, t

\* The answer delivered is the first of the jobs answered and not shown.
LEMMA PostedTail ==
    ASSUME NEW rows \in Seq(Rows), rows # <<>>
    PROVE  /\ Posted(rows) # <<>>
           /\ Head(Posted(rows)) = JobOf(Head(rows))
           /\ Posted(Tail(rows)) = Tail(Posted(rows))
<1>1. /\ Tail(rows) \in Seq(Rows) /\ Len(Tail(rows)) = Len(rows) - 1
      /\ \A i \in 1..Len(Tail(rows)) : Tail(rows)[i] = rows[i + 1]
      BY HeadTailProperties
<1>2. Len(rows) \in Nat \ {0}
      BY EmptySeq
<1>3. /\ Posted(rows) \in Seq(Jobs) /\ Len(Posted(rows)) = Len(rows)
      /\ \A i \in 1..Len(rows) : Posted(rows)[i] = JobOf(rows[i])
      BY PostedQueue
<1>4. Posted(rows) # <<>>
      BY <1>2, <1>3, EmptySeq
<1>5. Head(Posted(rows)) = JobOf(Head(rows))
      BY <1>2, <1>3, <1>4
<1> DEFINE s == Posted(Tail(rows))
           t == Tail(Posted(rows))
<1>6. /\ s \in Seq(Jobs) /\ Len(s) = Len(rows) - 1
      /\ \A i \in 1..(Len(rows) - 1) : s[i] = JobOf(Tail(rows)[i])
      BY <1>1, PostedQueue
<1>7. /\ t \in Seq(Jobs) /\ Len(t) = Len(rows) - 1
      /\ \A i \in 1..(Len(rows) - 1) : t[i] = Posted(rows)[i + 1]
      BY <1>3, <1>4, HeadTailProperties
<1> HIDE DEF s, t
<1>8. \A i \in 1..(Len(rows) - 1) : s[i] = t[i]
      BY <1>1, <1>2, <1>3, <1>6, <1>7
<1>9. s = t
      BY <1>6, <1>7, <1>8, SeqEqual
<1> QED
      BY <1>4, <1>5, <1>9 DEF s, t

\* What is outstanding is a sequence of jobs: those answered, the one in the
\* worker's hand, those queued.
LEMMA SpreadOut ==
    ASSUME NEW rows \in Seq(Rows), NEW job \in Jobs \cup {NoJob}, NEW queue \in Seq(Jobs)
    PROVE  /\ Posted(rows) \in Seq(Jobs) /\ InHand(job) \in Seq(Jobs)
           /\ Posted(rows) \o InHand(job) \in Seq(Jobs)
           /\ Spread(rows, job, queue) \in Seq(Jobs)
           /\ Len(Spread(rows, job, queue)) = Len(rows) + Len(InHand(job)) + Len(queue)
<1>1. Posted(rows) \in Seq(Jobs) /\ Len(Posted(rows)) = Len(rows)
      BY PostedQueue
<1>2. InHand(job) \in Seq(Jobs)
      BY EmptySeq DEF InHand
<1> DEFINE a == Posted(rows)
           b == InHand(job)
<1> HIDE DEF a, b
<1>3. a \o b \in Seq(Jobs) /\ Len(a \o b) = Len(a) + Len(b)
      BY <1>1, <1>2, ConcatProperties DEF a, b
<1>4. (a \o b) \o queue \in Seq(Jobs) /\ Len((a \o b) \o queue) = Len(a \o b) + Len(queue)
      BY <1>3, ConcatProperties
<1> QED
      BY <1>1, <1>2, <1>3, <1>4 DEF a, b, Spread

\* The run's Outstanding in the words of this module, before and after a step.
LEMMA OutstandingSpread ==
    /\ Outstanding = Spread(posted, hand, jobs)
    /\ Outstanding' = Spread(posted', hand', jobs')
      BY DEF Outstanding, Spread, Posted, InHand

\* The three places where a job may be.
LEMMA QueueTypes == ThreadsInv => posted \in Seq(Rows) /\ hand \in Jobs \cup {NoJob} /\ jobs \in Seq(Jobs)
      BY DEF ThreadsInv, TypeOK

\* An accepted job enters what is outstanding at the end.
LEMMA Enqueued ==
    ASSUME ThreadsInv, posted' \in Seq(Rows), hand' = hand, NEW job \in Jobs,
           NEW c, NEW n, NEW g, Enqueue(job, c, n, g)
    PROVE  LET q == Spread(posted', hand, jobs)
           IN  \/ Outstanding' = Append(q, job) /\ closing' = c /\ pending' = n + 1 /\ gates' = {}
               \/ Outstanding' = q /\ closing' = FALSE /\ pending' = n /\ gates' = g
<1>1. Outstanding' = Spread(posted', hand, jobs')
      BY OutstandingSpread
<1>2. hand \in Jobs \cup {NoJob} /\ jobs \in Seq(Jobs)
      BY DEF ThreadsInv, TypeOK
<1>3. CASE CanSubmit
  <2>1. jobs' = Append(jobs, job) /\ closing' = c /\ pending' = n + 1 /\ gates' = {}
        BY <1>3 DEF Enqueue
  <2>2. Posted(posted') \o InHand(hand) \in Seq(Jobs)
        BY <1>2, SpreadOut
  <2>3. Spread(posted', hand, Append(jobs, job)) = Append(Spread(posted', hand, jobs), job)
    <3> DEFINE sent == Posted(posted') \o InHand(hand)
    <3>1. sent \in Seq(Jobs) /\ jobs \in Seq(Jobs)
          BY <1>2, <2>2
    <3> HIDE DEF sent
    <3>2. Append(sent \o jobs, job) = sent \o Append(jobs, job)
      <4>1. <<job>> \in Seq(Jobs) /\ sent \o jobs \in Seq(Jobs)
            BY <3>1, ConcatProperties
      <4>2. Append(sent \o jobs, job) = (sent \o jobs) \o <<job>>
            BY <4>1, AppendIsConcat
      <4>3. Append(jobs, job) = jobs \o <<job>>
            BY <3>1, AppendIsConcat
      <4>4. (sent \o jobs) \o <<job>> = sent \o (jobs \o <<job>>)
            BY <3>1, <4>1, ConcatAssociative
      <4> QED
            BY <4>2, <4>3, <4>4, Zenon
    <3> QED
          BY <3>2, Zenon DEF Spread, sent
  <2>4. Outstanding' = Spread(posted', hand, Append(jobs, job))
        BY <1>1, <2>1, Zenon
  <2>5. Outstanding' = Append(Spread(posted', hand, jobs), job)
        BY <2>3, <2>4, Zenon
  <2> QED
        BY <2>1, <2>5, Zenon
<1>4. CASE ~CanSubmit
      BY <1>1, <1>4 DEF Enqueue
<1> QED
      BY <1>3, <1>4

\* The Frame handles the oldest of what is outstanding.
LEMMA Arrived ==
    ASSUME ThreadsInv, NEW row \in Rows, Arrives(row)
    PROVE  /\ posted' \in Seq(Rows)
           /\ Outstanding # <<>> /\ Head(Outstanding) = JobOf(row)
           /\ Spread(posted', hand, jobs) = Tail(Outstanding)
<1>1. posted # <<>> /\ row = Head(posted) /\ posted' = Tail(posted) /\ posted \in Seq(Rows)
      /\ hand \in Jobs \cup {NoJob} /\ jobs \in Seq(Jobs)
      BY DEF Arrives, ThreadsInv, TypeOK
<1>2. Posted(posted) # <<>> /\ Head(Posted(posted)) = JobOf(row)
      /\ Posted(posted') = Tail(Posted(posted)) /\ posted' \in Seq(Rows)
      BY <1>1, PostedTail, HeadTailProperties
<1>3. /\ Posted(posted) \in Seq(Jobs) /\ InHand(hand) \in Seq(Jobs)
      /\ Posted(posted) \o InHand(hand) \in Seq(Jobs)
      BY <1>1, SpreadOut
<1>4. /\ Posted(posted) \o InHand(hand) # <<>>
      /\ Head(Posted(posted) \o InHand(hand)) = JobOf(row)
      /\ Tail(Posted(posted) \o InHand(hand)) = Posted(posted') \o InHand(hand)
      BY <1>2, <1>3, FirstQueue
<1> DEFINE a == Posted(posted) \o InHand(hand)
<1>5. /\ Spread(posted, hand, jobs) # <<>>
      /\ Head(Spread(posted, hand, jobs)) = JobOf(row)
      /\ Tail(Spread(posted, hand, jobs)) = Spread(posted', hand, jobs)
  <2>1. a \in Seq(Jobs) /\ a # <<>>
        BY <1>3, <1>4
  <2> HIDE DEF a
  <2>2. a \o jobs # <<>> /\ Head(a \o jobs) = Head(a) /\ Tail(a \o jobs) = Tail(a) \o jobs
        BY <1>1, <2>1, FirstQueue
  <2> QED
        BY <1>4, <2>2 DEF a, Spread
<1> QED
      BY <1>2, <1>5, OutstandingSpread

\* Handing a job from queue to worker to dispatcher changes nothing outstanding.
LEMMA Taken ==
    ASSUME ThreadsInv, TakeJob
    PROVE  Outstanding' = Outstanding
<1>1. /\ hand = NoJob /\ hand' = Head(jobs) /\ jobs' = Tail(jobs) /\ jobs # <<>> /\ posted' = posted
      /\ posted \in Seq(Rows) /\ jobs \in Seq(Jobs)
      BY DEF TakeJob, ThreadsInv, TypeOK, WorkerInv, postVars
<1>2. hand' \in Jobs /\ jobs' \in Seq(Jobs) /\ jobs = <<hand'>> \o jobs'
      BY <1>1, TakeOldest
<1>3. InHand(NoJob) = <<>> /\ InHand(hand') = <<hand'>>
      BY <1>2 DEF InHand, NoJob, Jobs, Ops
<1>4. Posted(posted) \in Seq(Jobs)
      BY <1>1, PostedQueue
<1>5. Posted(posted) \o <<>> = Posted(posted)
      BY <1>4, ConcatEmptySeq
<1>6. Posted(posted) \o (<<hand'>> \o jobs') = (Posted(posted) \o <<hand'>>) \o jobs'
  <2> DEFINE sent == Posted(posted)
  <2>1. sent \in Seq(Jobs) /\ hand' \in Jobs /\ jobs' \in Seq(Jobs)
        BY <1>2, <1>4
  <2> HIDE DEF sent
  <2>2. sent \o (<<hand'>> \o jobs') = (sent \o <<hand'>>) \o jobs'
        BY <2>1
  <2> QED
        BY <2>2, Zenon DEF sent
<1>7. Outstanding = Posted(posted) \o jobs
      BY <1>1, <1>3, <1>5, OutstandingSpread, Zenon DEF Spread
<1>8. Outstanding' = (Posted(posted) \o <<hand'>>) \o jobs'
      BY <1>1, <1>3, OutstandingSpread, Zenon DEF Spread
<1> QED
      BY <1>2, <1>6, <1>7, <1>8, Zenon

\* An answer posted moves its job to the answered ones and changes nothing in
\* what is outstanding (worker.cpp: run, post).
LEMMA Answered ==
    ASSUME ThreadsInv, NEW ok \in BOOLEAN, hand \in Jobs, Answer(ok), ui # "gone", jobs' = jobs
    PROVE  Outstanding' = Outstanding
<1> DEFINE row == [op |-> hand.op, byClose |-> hand.byClose, ok |-> ok, feeds |-> feeds]
<1>1. row \in Rows /\ JobOf(row) = hand
      BY DEF Rows, Jobs, JobOf, ThreadsInv, TypeOK
<1>2. posted' = Append(posted, row) /\ hand' = NoJob /\ posted \in Seq(Rows)
      BY DEF Answer, Post, ThreadsInv, TypeOK
<1> HIDE DEF row
<1>3. Posted(posted) \in Seq(Jobs)
      BY <1>2, PostedQueue
<1>4. Posted(posted') = Posted(posted) \o <<hand>> /\ Posted(posted') \in Seq(Jobs)
  <2>1. Posted(posted') = Append(Posted(posted), hand)
        BY <1>1, <1>2, PostedAppend
  <2> QED
        BY <1>3, <2>1, AppendIsConcat, AppendProperties
<1>5. InHand(hand) = <<hand>> /\ InHand(NoJob) = <<>>
      BY DEF InHand, NoJob, Jobs, Ops
<1>6. Posted(posted') \o <<>> = Posted(posted')
      BY <1>4, ConcatEmptySeq
<1> QED
      BY <1>2, <1>4, <1>5, <1>6, OutstandingSpread DEF Spread

\* Records of events and logs change nothing outstanding.
LEMMA FeedShown ==
    ASSUME ThreadsInv, FeedArrives, UNCHANGED <<hand, jobs>>
    PROVE  Outstanding' = Outstanding
<1>1. /\ posted \in Seq(Rows) /\ posted' \in Seq(Rows) /\ Len(posted') = Len(posted)
      /\ \A i \in 1..Len(posted) :
            posted'[i].op = posted[i].op /\ posted'[i].byClose = posted[i].byClose
      BY FeedTypes DEF ThreadsInv, TypeOK
<1>2. /\ Posted(posted) \in Seq(Jobs) /\ Len(Posted(posted)) = Len(posted)
      /\ \A i \in 1..Len(posted) : Posted(posted)[i] = JobOf(posted[i])
      /\ Posted(posted') \in Seq(Jobs) /\ Len(Posted(posted')) = Len(posted')
      /\ \A i \in 1..Len(posted') : Posted(posted')[i] = JobOf(posted'[i])
      BY <1>1, PostedQueue
<1>3. \A i \in 1..Len(posted) : JobOf(posted'[i]) = JobOf(posted[i])
      BY <1>1 DEF JobOf
<1>4. Posted(posted') = Posted(posted)
      BY <1>1, <1>2, <1>3, SeqEqual
<1> QED
      BY <1>4, OutstandingSpread DEF Spread

---------------------------------------------------------------------------
(* The Frame *)

Business(q) == \A i, j \in 1..Len(q) : q[i].op # "stop" /\ q[j].op # "stop" => i = j

Stops(q) == \E i \in 1..Len(q) : q[i].op = "stop"

\* Exclusive business, and a stop under way, in terms of the queue's ends.
LEMMA QueueGrows ==
    ASSUME NEW q \in Seq(Jobs), NEW job \in Jobs
    PROVE  /\ Append(q, job) \in Seq(Jobs) /\ Len(Append(q, job)) = Len(q) + 1
           /\ Business(q) /\ (q = <<>> \/ job.op = "stop") => Business(Append(q, job))
           /\ Stops(q) \/ job.op = "stop" => Stops(Append(q, job))
<1> DEFINE r == Append(q, job)
<1>1. /\ r \in Seq(Jobs) /\ Len(r) = Len(q) + 1 /\ Len(q) \in Nat
      /\ \A i \in 1..Len(q) : r[i] = q[i]
      /\ r[Len(q) + 1] = job
      BY AppendProperties
<1>2. q = <<>> => Len(q) = 0
      OBVIOUS
<1> HIDE DEF r
<1>3. Business(q) /\ (q = <<>> \/ job.op = "stop") => Business(r)
      BY <1>1, <1>2 DEF Business
<1>4. Stops(q) \/ job.op = "stop" => Stops(r)
      BY <1>1 DEF Stops
<1> QED
      BY <1>1, <1>3, <1>4 DEF r

\* What the rules of the Frame say of a queue of jobs they say of the rest of
\* it, once its first job is answered.
LEMMA QueueShrinks ==
    ASSUME NEW q \in Seq(Jobs), q # <<>>
    PROVE  /\ Tail(q) \in Seq(Jobs) /\ Len(Tail(q)) = Len(q) - 1 /\ Len(q) \in Nat \ {0}
           /\ Business(q) => Business(Tail(q))
           /\ Business(q) /\ Head(q).op # "stop" => \A i \in 1..Len(Tail(q)) : Tail(q)[i].op = "stop"
           /\ Stops(q) /\ Head(q).op # "stop" => Stops(Tail(q))
<1> DEFINE r == Tail(q)
<1>1. /\ r \in Seq(Jobs) /\ Len(r) = Len(q) - 1 /\ Len(q) \in Nat \ {0}
      /\ \A i \in 1..Len(r) : r[i] = q[i + 1]
      /\ Head(q) = q[1]
      BY HeadTailProperties, EmptySeq
<1> HIDE DEF r
<1>2. \A i \in 1..Len(r) : i + 1 \in 1..Len(q) /\ i + 1 # 1
      BY <1>1
<1>3. Business(q) => Business(r)
  <2>1. ASSUME Business(q), NEW i \in 1..Len(r), NEW j \in 1..Len(r),
               r[i].op # "stop", r[j].op # "stop"
        PROVE  i = j
    <3>1. /\ i + 1 \in 1..Len(q) /\ q[i + 1].op # "stop"
          /\ j + 1 \in 1..Len(q) /\ q[j + 1].op # "stop"
          BY <1>1, <1>2, <2>1
    <3>2. i + 1 = j + 1
          BY <2>1, <3>1, Zenon DEF Business
    <3> QED
          BY <3>2
  <2> QED
        BY <2>1 DEF Business
<1>4. Business(q) /\ q[1].op # "stop" => \A i \in 1..Len(r) : r[i].op = "stop"
  <2>1. ASSUME Business(q), q[1].op # "stop", NEW i \in 1..Len(r)
        PROVE  r[i].op = "stop"
    <3>1. i + 1 \in 1..Len(q) /\ 1 \in 1..Len(q) /\ i + 1 # 1 /\ r[i] = q[i + 1]
          BY <1>1, <1>2
    <3> QED
          BY <2>1, <3>1 DEF Business
  <2> QED
        BY <2>1
<1>5. ASSUME Stops(q), q[1].op # "stop"
      PROVE  Stops(r)
  <2>1. PICK i \in 1..Len(q) : q[i].op = "stop"
        BY <1>5 DEF Stops
  <2>2. i - 1 \in 1..Len(r) /\ r[i - 1] = q[i]
        BY <1>1, <1>5, <2>1
  <2> QED
        BY <2>1, <2>2 DEF Stops
<1> QED
      BY <1>1, <1>3, <1>4, <1>5 DEF r

\* FrameInv, in terms of the queue.
LEMMA FrameInvIs ==
    FrameInv <=>
        /\ ui # "gone" => pending = Len(Outstanding)
        /\ Business(Outstanding)
        /\ gates # {} => Outstanding = <<>> \/ ui \in {"joining", "gone"}
        /\ closing /\ ui \in EventLoops => Stops(Outstanding) /\ gates = {}
        /\ ui = "confirm" => Outstanding = <<>>
      BY DEF FrameInv, PendingAccounting, ExclusiveBusiness, ClosingHasStop, Business, Stops

\* What is outstanding is a queue of jobs.
LEMMA OutstandingQueue == ThreadsInv => Outstanding \in Seq(Jobs)
      BY QueueTypes, SpreadOut, OutstandingSpread

\* The Frame's belief survives every click, in whatever state the requests
\* before it are.
LEMMA UserKeepsFrame == ThreadsInv /\ ThreadsInv' /\ FrameInv /\ User => FrameInv'
<1> SUFFICES ASSUME ThreadsInv, ThreadsInv', FrameInv, User
             PROVE  FrameInv'
    OBVIOUS
<1> DEFINE q == Outstanding
<1> USE DEF workerVars, frameVars, postVars
<1>1. /\ ui # "gone" => pending = Len(q)
      /\ Business(q)
      /\ gates # {} => q = <<>> \/ ui \in {"joining", "gone"}
      /\ closing /\ ui \in EventLoops => Stops(q) /\ gates = {}
      /\ ui = "confirm" => q = <<>>
      BY FrameInvIs
<1>2. q \in Seq(Jobs) /\ posted \in Seq(Rows) /\ q = Spread(posted, hand, jobs)
      BY OutstandingQueue, OutstandingSpread, QueueTypes
<1>3. /\ ui' # "gone" => pending' = Len(q')
      /\ Business(q')
      /\ gates' # {} => q' = <<>> \/ ui' \in {"joining", "gone"}
      /\ closing' /\ ui' \in EventLoops => Stops(q') /\ gates' = {}
      /\ ui' = "confirm" => q' = <<>>
      => FrameInv'
      BY DEF FrameInv, PendingAccounting, ExclusiveBusiness, ClosingHasStop, Business, Stops
<1> HIDE DEF q
<1>4. ASSUME NEW job \in Jobs, NEW c \in BOOLEAN, Enqueue(job, c, pending, gates),
             posted' = posted, hand' = hand,
             ui \in {"loop", "confirm"}, ui' = "loop",
             job.op = "stop" \/ q = <<>>,
             c = closing \/ job.op = "stop"
      PROVE  FrameInv'
  <2>1. CASE q' = Append(q, job) /\ closing' = c /\ pending' = pending + 1 /\ gates' = {}
    <3>1. /\ Len(q') = Len(q) + 1
          /\ Business(q')
          /\ Stops(q) \/ job.op = "stop" => Stops(q')
          BY <1>1, <1>2, <1>4, <2>1, QueueGrows
    <3>2. closing' => Stops(q')
          BY <1>1, <1>4, <2>1, <3>1 DEF EventLoops
    <3>3. pending' = Len(q')
          BY <1>1, <1>4, <2>1, <3>1
    <3> QED
          BY <1>3, <1>4, <2>1, <3>1, <3>2, <3>3
  <2>2. CASE q' = q /\ closing' = FALSE /\ pending' = pending /\ gates' = gates
        BY <1>1, <1>3, <1>4, <2>2
  <2> QED
        BY <1>2, <1>4, <2>1, <2>2, Enqueued DEF q
<1>5. ASSUME UNCHANGED <<posted, hand, jobs, closing, pending, gates>>,
             ui \in EventLoops, ui' \in EventLoops \cup {"joining"},
             ui' = "confirm" => q = <<>>
      PROVE  FrameInv'
  <2>1. q' = q
        BY <1>5, OutstandingSpread DEF q
  <2> QED
        BY <1>1, <1>3, <1>5, <2>1 DEF EventLoops
<1>6. /\ \A op \in Ops : UserJob(op) \in Jobs /\ UserJob(op).op = op
      /\ [op |-> "stop", byClose |-> TRUE] \in Jobs
      /\ closing \in BOOLEAN
      BY DEF UserJob, Jobs, Ops, ThreadsInv, TypeOK
<1>7. ASSUME NEW op \in {"load", "start", "stop"}, Click(op)
      PROVE  FrameInv'
  <2>1. UserJob(op) \in Jobs /\ UserJob(op).op = op
        BY <1>6 DEF Ops
  <2>2. op = "stop" \/ q = <<>>
        BY <1>1, <1>7 DEF Click
  <2> QED
        BY <1>4, <1>6, <1>7, <2>1, <2>2 DEF Click
<1>8. CASE ClickExecute
  <2>1. UserJob("api") \in Jobs
        BY <1>6 DEF Ops
  <2>2. q = <<>>
        BY <1>1, <1>8 DEF ClickExecute
  <2>3. CASE Enqueue(UserJob("api"), closing, pending, gates) /\ UNCHANGED ui
        BY <1>4, <1>6, <1>8, <2>1, <2>2, <2>3 DEF ClickExecute
  <2>4. CASE ui' = "confirm" /\ UNCHANGED <<jobs, closing, pending, gates>>
        BY <1>5, <1>8, <2>2, <2>4 DEF ClickExecute, EventLoops
  <2> QED
        BY <1>8, <2>3, <2>4 DEF ClickExecute
<1>9. CASE AnswerConfirm
  <2>1. UserJob("api") \in Jobs
        BY <1>6 DEF Ops
  <2>2. q = <<>>
        BY <1>1, <1>9 DEF AnswerConfirm
  <2>3. CASE Enqueue(UserJob("api"), closing, pending, gates)
        BY <1>4, <1>6, <1>9, <2>1, <2>2, <2>3 DEF AnswerConfirm
  <2>4. CASE UNCHANGED <<jobs, closing, pending, gates>>
        BY <1>5, <1>9, <2>4 DEF AnswerConfirm, EventLoops
  <2> QED
        BY <1>9, <2>3, <2>4 DEF AnswerConfirm
<1>10. CASE DismissError \/ OpenBox \/ CloseBox
       BY <1>5, <1>10 DEF DismissError, OpenBox, CloseBox, EventLoops
<1>11. CASE CloseWindow
       BY <1>4, <1>6, <1>11 DEF CloseWindow
<1>12. CASE ForcedClose
       BY <1>5, <1>12 DEF ForcedClose, ResetWorker, EventLoops
<1> QED
      BY <1>7, <1>8, <1>9, <1>10, <1>11, <1>12 DEF User

\* The queue with its oldest request answered and another behind it: at most
\* one business job, if the one answered was one.
LEMMA QueueMovesOn ==
    ASSUME NEW q \in Seq(Jobs), q # <<>>, Business(q), Head(q).op # "stop", NEW job \in Jobs
    PROVE  Business(Append(Tail(q), job))
<1> DEFINE r == Tail(q)
           s == Append(r, job)
<1>1. /\ r \in Seq(Jobs) /\ Len(r) \in Nat
      /\ \A i \in 1..Len(r) : r[i].op = "stop"
      BY QueueShrinks
<1> HIDE DEF r
<1>2. /\ Len(s) = Len(r) + 1
      /\ \A i \in 1..Len(r) : s[i] = r[i]
      BY <1>1, AppendProperties
<1> HIDE DEF s
<1>3. \A i \in 1..Len(s) : s[i].op # "stop" => i = Len(s)
      BY <1>1, <1>2
<1>4. Business(s)
      BY <1>3 DEF Business
<1> QED
      BY <1>4 DEF r, s

\* The Frame's belief survives every record the event loop handles, the next
\* request of the smoke test included.
LEMMA DeliverKeepsFrame == ThreadsInv /\ ThreadsInv' /\ FrameInv /\ Deliver => FrameInv'
<1> SUFFICES ASSUME ThreadsInv, ThreadsInv', FrameInv, Deliver
             PROVE  FrameInv'
    OBVIOUS
<1> DEFINE q == Outstanding
<1> USE DEF workerVars, frameVars, postVars
<1>1. /\ ui # "gone" => pending = Len(q)
      /\ Business(q)
      /\ gates # {} => q = <<>> \/ ui \in {"joining", "gone"}
      /\ closing /\ ui \in EventLoops => Stops(q) /\ gates = {}
      /\ ui = "confirm" => q = <<>>
      BY FrameInvIs
<1>2. q \in Seq(Jobs)
      BY OutstandingQueue
<1>3. /\ ui' # "gone" => pending' = Len(q')
      /\ Business(q')
      /\ gates' # {} => q' = <<>> \/ ui' \in {"joining", "gone"}
      /\ closing' /\ ui' \in EventLoops => Stops(q') /\ gates' = {}
      /\ ui' = "confirm" => q' = <<>>
      => FrameInv'
      BY DEF FrameInv, PendingAccounting, ExclusiveBusiness, ClosingHasStop, Business, Stops
<1> HIDE DEF q
<1>4. ASSUME NEW row \in Rows, Arrives(row)
      PROVE  /\ q # <<>> /\ Head(q) = JobOf(row) /\ Head(q).op = row.op
             /\ posted' \in Seq(Rows) /\ Spread(posted', hand, jobs) = Tail(q)
             /\ ui \in EventLoops /\ ui # "confirm"
             /\ Left = Len(Tail(q)) /\ (Left = 0 => Tail(q) = <<>>) /\ Left \in Nat
             /\ Tail(q) \in Seq(Jobs) /\ Business(Tail(q))
             /\ row.op # "stop" /\ closing => Stops(Tail(q))
  <2>1. /\ q # <<>> /\ Head(q) = JobOf(row) /\ posted' \in Seq(Rows)
        /\ Spread(posted', hand, jobs) = Tail(q)
        BY <1>4, Arrived DEF q
  <2>2. JobOf(row).op = row.op /\ ui \in EventLoops
        BY <1>4 DEF JobOf, Arrives
  <2>3. /\ Tail(q) \in Seq(Jobs) /\ Len(Tail(q)) = Len(q) - 1 /\ Len(q) \in Nat \ {0}
        /\ Business(q) => Business(Tail(q))
        /\ Stops(q) /\ Head(q).op # "stop" => Stops(Tail(q))
        BY <1>2, <2>1, QueueShrinks
  <2>4. pending = Len(q)
        BY <1>1, <2>2 DEF EventLoops
  <2>5. Left = Len(Tail(q)) /\ Left \in Nat
        BY <2>3, <2>4 DEF Left
  <2>6. Left = 0 => Tail(q) = <<>>
        BY <2>3, <2>5, EmptySeq
  <2> QED
        BY <1>1, <2>1, <2>2, <2>3, <2>5, <2>6
<1>5. CASE ShowFeed
  <2>1. q' = q /\ UNCHANGED <<ui, pending, gates, closing>>
        BY <1>5, FeedShown DEF ShowFeed, q
  <2> QED
        BY <1>1, <1>3, <2>1
<1>6. ASSUME NEW row \in Rows, ShowResult(row)
      PROVE  FrameInv'
  <2>1. Arrives(row) /\ UNCHANGED <<jobs, hand, ui, closing>>
        BY <1>6 DEF ShowResult
  <2>2. q' = Tail(q)
        BY <1>4, <2>1, OutstandingSpread DEF q
  <2>3. pending' = Left /\ gates' = OpenGates(IsLoaded(row), closing, Left)
        BY <1>6 DEF ShowResult
  <2>4. gates' # {} => ~closing /\ Left = 0
        BY <1>4, <2>1, <2>3 DEF OpenGates
  <2>5. closing => row.op # "stop"
        BY <1>6 DEF ShowResult
  <2> QED
        BY <1>3, <1>4, <2>1, <2>2, <2>3, <2>4, <2>5
<1>7. ASSUME NEW row \in Rows, SmokeLoaded(row)
      PROVE  FrameInv'
  <2> DEFINE job == UserJob("api")
             n == Left
             g == OpenGates(TRUE, closing, Left)
  <2>1. Arrives(row) /\ UNCHANGED <<hand, ui>> /\ row.op = "load"
        BY <1>7 DEF SmokeLoaded
  <2>2. job \in Jobs
        BY DEF UserJob, Jobs, Ops
  <2>3. Enqueue(job, closing, n, g)
        BY <1>7 DEF SmokeLoaded
  <2>4. g # {} => n = 0
        BY <1>4, <2>1 DEF OpenGates
  <2>5. ui # "confirm" /\ n = Len(Tail(q)) /\ (n = 0 => Tail(q) = <<>>)
        /\ Business(Tail(q)) /\ Tail(q) \in Seq(Jobs) /\ (closing => Stops(Tail(q)))
        /\ posted' \in Seq(Rows) /\ Spread(posted', hand, jobs) = Tail(q)
        /\ q # <<>> /\ Head(q).op # "stop"
        BY <1>4, <2>1
  <2> HIDE DEF job, g, n
  <2>6. \/ q' = Append(Tail(q), job) /\ closing' = closing /\ pending' = n + 1 /\ gates' = {}
        \/ q' = Tail(q) /\ closing' = FALSE /\ pending' = n /\ gates' = g
    <3>1. ASSUME NEW j \in Jobs, NEW c, NEW m, NEW h, Enqueue(j, c, m, h)
          PROVE  \/ q' = Append(Tail(q), j) /\ closing' = c /\ pending' = m + 1 /\ gates' = {}
                 \/ q' = Tail(q) /\ closing' = FALSE /\ pending' = m /\ gates' = h
          BY <2>1, <2>5, <3>1, Enqueued DEF q
    <3> QED
          BY <2>2, <2>3, <3>1
  <2>7. CASE q' = Append(Tail(q), job) /\ closing' = closing /\ pending' = n + 1 /\ gates' = {}
    <3>1. /\ Len(q') = Len(Tail(q)) + 1
          /\ Stops(Tail(q)) => Stops(q')
          BY <2>2, <2>5, <2>7, QueueGrows
    <3>2. Business(q')
          BY <1>1, <1>2, <2>2, <2>5, <2>7, QueueMovesOn
    <3> QED
          BY <1>3, <2>1, <2>5, <2>7, <3>1, <3>2
  <2>8. CASE q' = Tail(q) /\ closing' = FALSE /\ pending' = n /\ gates' = g
        BY <1>3, <2>1, <2>4, <2>5, <2>8
  <2> QED
        BY <2>6, <2>7, <2>8
<1>8. ASSUME NEW row \in Rows, StopForClose(row) \/ CloseRefused(row)
      PROVE  FrameInv'
  <2>1. Arrives(row) /\ UNCHANGED <<jobs, hand>> /\ pending' = Left
        BY <1>8 DEF StopForClose, CloseRefused
  <2>2. q' = Tail(q)
        BY <1>4, <2>1, OutstandingSpread DEF q
  <2>3. \/ ui' = "joining"
        \/ ui' = "error" /\ closing' = FALSE /\ gates' = OpenGates(IsLoaded(row), FALSE, Left)
        BY <1>8 DEF StopForClose, CloseRefused, ResetWorker
  <2>4. ui' = "error" => (gates' # {} => Left = 0)
        BY <1>4, <2>1, <2>3 DEF OpenGates
  <2> QED
        BY <1>3, <1>4, <2>1, <2>2, <2>3, <2>4 DEF EventLoops
<1> QED
      BY <1>5, <1>6, <1>7, <1>8 DEF Deliver

\* The worker's steps, and the records it posts on its own, leave what is
\* outstanding as it is.
LEMMA ThreadKeepsQueue ==
    ThreadsInv /\ (Thread \/ PostFeed)
        => Outstanding' = Outstanding /\ UNCHANGED <<ui, closing, pending, gates>>
<1> SUFFICES ASSUME ThreadsInv, Thread \/ PostFeed
             PROVE  Outstanding' = Outstanding /\ UNCHANGED <<ui, closing, pending, gates>>
    OBVIOUS
<1> USE DEF workerVars, frameVars, postVars
<1>1. ASSUME UNCHANGED <<posted, hand, jobs>>
      PROVE  Outstanding' = Outstanding
      BY <1>1, OutstandingSpread
<1>2. ASSUME NEW ok \in BOOLEAN, Answer(ok), wpc \in {"run", "call"}, jobs' = jobs
      PROVE  Outstanding' = Outstanding
  <2>1. hand \in Jobs /\ ui # "gone"
        BY <1>2 DEF ThreadsInv, TypeOK, WorkerInv
  <2> QED
        BY <1>2, <2>1, Answered
<1>3. CASE TakeJob
      BY <1>3, Taken DEF TakeJob
<1>4. CASE LeaveLoop \/ DestroySdk \/ BeginCall \/ PostFeed
      BY <1>1, <1>4 DEF LeaveLoop, DestroySdk, BeginCall, PostFeed
<1>5. CASE RefuseJob \/ ApiJob \/ StopNothing
      BY <1>2, <1>5 DEF RefuseJob, ApiJob, StopNothing
<1>6. CASE LoadJob
      BY <1>2, <1>6 DEF LoadJob
<1>7. CASE EndCall
  <2> DEFINE ok == session' = IF hand.op = "start" THEN "started" ELSE "stopped"
  <2>1. Answer(ok) /\ ok \in BOOLEAN /\ wpc = "call" /\ UNCHANGED <<jobs, ui, closing, pending, gates>>
        BY <1>7 DEF EndCall
  <2> HIDE DEF ok
  <2> QED
        BY <1>2, <2>1
<1> QED
      BY <1>3, <1>4, <1>5, <1>6, <1>7 DEF Thread, ProcessJob

\* The last answers go with the window.
LEMMA NothingAtTheEnd ==
    ThreadsInv /\ FinishClose => Outstanding' = <<>> /\ ui = "joining" /\ ui' = "gone"
<1> SUFFICES ASSUME ThreadsInv, FinishClose
             PROVE  Outstanding' = <<>> /\ ui = "joining" /\ ui' = "gone"
    OBVIOUS
<1>1. posted' = <<>> /\ hand' = NoJob /\ jobs' = <<>> /\ ui = "joining" /\ ui' = "gone"
      BY DEF FinishClose, Joined, ThreadsInv, WorkerInv, workerVars
<1>2. Posted(<<>>) = <<>> /\ InHand(NoJob) = <<>>
  <2>1. <<>> \in Seq(Rows) /\ Len(<<>>) = 0
        BY EmptySeq
  <2>2. Posted(<<>>) \in Seq(Jobs) /\ Len(Posted(<<>>)) = 0
        BY <2>1, PostedQueue
  <2> QED
        BY <2>2, EmptySeq DEF InHand
<1>3. <<>> \o <<>> = <<>>
      BY EmptySeq, ConcatEmptySeq
<1> QED
      BY <1>1, <1>2, <1>3, OutstandingSpread DEF Spread

\* Every step keeps the Frame's belief about what is outstanding.
LEMMA FrameInvStep == ThreadsInv /\ ThreadsInv' /\ FrameInv /\ [Next]_vars => FrameInv'
<1> SUFFICES ASSUME ThreadsInv, ThreadsInv', FrameInv, [Next]_vars
             PROVE  FrameInv'
    OBVIOUS
<1>1. CASE Thread \/ PostFeed
      BY <1>1, ThreadKeepsQueue
      DEF FrameInv, PendingAccounting, ExclusiveBusiness, ClosingHasStop
<1>2. CASE FinishClose
  <2>1. Len(<<>>) = 0
        BY EmptySeq
  <2> QED
        BY <1>2, <2>1, NothingAtTheEnd
        DEF FrameInv, PendingAccounting, ExclusiveBusiness, ClosingHasStop, EventLoops
<1>3. CASE UNCHANGED vars
  <2>1. Outstanding' = Outstanding /\ UNCHANGED <<ui, closing, pending, gates>>
        BY <1>3, OutstandingSpread DEF vars, workerVars, frameVars, postVars
  <2> QED
        BY <2>1 DEF FrameInv, PendingAccounting, ExclusiveBusiness, ClosingHasStop
<1> QED
      BY <1>1, <1>2, <1>3, UserKeepsFrame, DeliverKeepsFrame DEF Next

\* The requests under way, the buttons and the closing of the window fit together
\* whatever the user does and whenever the answers come (app.cpp: enqueue,
\* OnClose, result).
THEOREM FrameInvariant == Spec => []FrameInv
<1>1. ASSUME Init, ThreadsInv
      PROVE  FrameInv
  <2>1. Outstanding = Spread(<<>>, NoJob, <<>>)
        BY <1>1, OutstandingSpread DEF Init
  <2>2. Outstanding = <<>>
    <3>1. <<>> \in Seq(Rows) /\ <<>> \in Seq(Jobs) /\ Len(<<>>) = 0
          BY EmptySeq
    <3>2. Posted(<<>>) = <<>>
          BY <3>1, PostedQueue, EmptySeq
    <3>3. <<>> \o <<>> = <<>>
          BY EmptySeq, ConcatEmptySeq
    <3> QED
          BY <2>1, <3>2, <3>3 DEF Spread, InHand
  <2>3. Len(<<>>) = 0
        BY EmptySeq
  <2> QED
        BY <1>1, <2>2, <2>3
        DEF Init, FrameInv, PendingAccounting, ExclusiveBusiness, ClosingHasStop
<1>2. QED
      BY <1>1, FrameInvStep, ThreadsInvariant, PTL DEF Spec

\* pending_ is exactly the number of requests the user still waits for
\* (app.cpp: enqueue, result).
THEOREM PendingIsAccounted == Spec => []PendingAccounting
<1>1. FrameInv => PendingAccounting
      BY DEF FrameInv
<1>2. QED
      BY <1>1, FrameInvariant, PTL

\* No two business jobs are ever under way together, however the clicks, the
\* boxes and the answers interleave (app.cpp: enqueue, result).
THEOREM BusinessIsExclusive == Spec => []ExclusiveBusiness
<1>1. FrameInv => ExclusiveBusiness
      BY DEF FrameInv
<1>2. QED
      BY <1>1, FrameInvariant, PTL

\* A window that is closing waits for a stop that is under way, and offers
\* nothing else (app.cpp: OnClose, result).
THEOREM ClosingWaitsForStop == Spec => []ClosingHasStop
<1>1. FrameInv => ClosingHasStop
      BY DEF FrameInv
<1>2. QED
      BY <1>1, FrameInvariant, PTL

---------------------------------------------------------------------------
(* The promise to the user *)

\* Each step of the program accepts a request, answers the oldest, does both,
\* closes, or changes nothing the user waits for.
LEMMA RepliesStep == ThreadsInv /\ [Next]_vars => [Replies!Next]_(Replies!replyVars)
<1> SUFFICES ASSUME ThreadsInv, [Next]_vars
             PROVE  [Replies!Next]_(Replies!replyVars)
    OBVIOUS
<1> DEFINE q == Outstanding
           open == ui # "gone"
<1> USE DEF workerVars, frameVars, postVars
<1>1. /\ posted \in Seq(Rows) /\ q = Spread(posted, hand, jobs)
      BY OutstandingSpread, QueueTypes
<1>2. ASSUME q' = q, open' = open
      PROVE  UNCHANGED Replies!replyVars
      BY <1>2 DEF Replies!replyVars
<1>3. ASSUME UNCHANGED <<posted, hand, jobs>>, open' = open
      PROVE  UNCHANGED Replies!replyVars
      BY <1>2, <1>3, OutstandingSpread
<1>4. ASSUME NEW job \in Jobs, NEW c, NEW n, NEW g, Enqueue(job, c, n, g),
             posted' = posted, hand' = hand, open, open'
      PROVE  [Replies!Next]_(Replies!replyVars)
  <2>1. CASE q' = Append(q, job)
    <3>1. Replies!Accept(job)
          BY <1>4, <2>1 DEF Replies!Accept
    <3> QED
          BY <3>1 DEF Replies!Next
  <2>2. CASE q' = q
        BY <1>2, <1>4, <2>2
  <2> HIDE DEF q
  <2> QED
        BY <1>1, <1>4, <2>1, <2>2, Enqueued DEF q
<1>5. \A op \in Ops : UserJob(op) \in Jobs
      BY DEF UserJob, Jobs
<1>6. CASE User
  <2>1. [op |-> "stop", byClose |-> TRUE] \in Jobs
        BY DEF Jobs, Ops
  <2>2. ASSUME NEW op \in {"load", "start", "stop"}, Click(op)
        PROVE  [Replies!Next]_(Replies!replyVars)
        BY <1>4, <1>5, <2>2 DEF Click, Ops
  <2>3. CASE ClickExecute
        BY <1>3, <1>4, <1>5, <2>3 DEF ClickExecute, Ops
  <2>4. CASE AnswerConfirm
        BY <1>3, <1>4, <1>5, <2>4 DEF AnswerConfirm, Ops
  <2>5. CASE DismissError \/ OpenBox \/ CloseBox \/ ForcedClose
        BY <1>3, <2>5 DEF DismissError, OpenBox, CloseBox, ForcedClose, ResetWorker
  <2>6. CASE CloseWindow
        BY <1>4, <2>1, <2>6 DEF CloseWindow
  <2> QED
        BY <1>6, <2>2, <2>3, <2>4, <2>5, <2>6 DEF User
<1>7. CASE Deliver
  <2>1. ASSUME NEW row \in Rows, Arrives(row)
        PROVE  open /\ q # <<>> /\ posted' \in Seq(Rows) /\ Spread(posted', hand, jobs) = Tail(q)
        BY <2>1, Arrived DEF Arrives, EventLoops
  <2>2. CASE ShowFeed
        BY <1>2, <2>2, FeedShown DEF ShowFeed
  <2>3. ASSUME NEW row \in Rows, ShowResult(row) \/ StopForClose(row) \/ CloseRefused(row)
        PROVE  [Replies!Next]_(Replies!replyVars)
    <3>1. Arrives(row) /\ UNCHANGED <<hand, jobs>>
          BY <2>3 DEF ShowResult, StopForClose, CloseRefused
    <3>2. open'
          BY <2>1, <2>3, <3>1 DEF ShowResult, StopForClose, CloseRefused, ResetWorker
    <3>3. q' = Tail(q)
          BY <2>1, <3>1, OutstandingSpread
    <3>4. Replies!Reply
          BY <2>1, <3>1, <3>2, <3>3 DEF Replies!Reply
    <3> QED
          BY <3>4 DEF Replies!Next
  <2>4. ASSUME NEW row \in Rows, SmokeLoaded(row)
        PROVE  [Replies!Next]_(Replies!replyVars)
    <3>1. Arrives(row) /\ UNCHANGED <<hand, ui>>
          BY <2>4 DEF SmokeLoaded
    <3>2. ASSUME NEW job \in Jobs, NEW c, NEW n, NEW g, Enqueue(job, c, n, g)
          PROVE  q' = Append(Tail(q), job) \/ q' = Tail(q)
      <4> HIDE DEF q
      <4> QED
          BY <2>1, <3>1, <3>2, Enqueued DEF q
    <3>3. UserJob("api") \in Jobs
          BY <1>5 DEF Ops
    <3>4. CASE q' = Append(Tail(q), UserJob("api"))
      <4>1. Replies!ReplyAndAccept(UserJob("api"))
            BY <2>1, <3>1, <3>4 DEF Replies!ReplyAndAccept
      <4> QED
            BY <3>3, <4>1 DEF Replies!Next
    <3>5. CASE q' = Tail(q)
      <4>1. Replies!Reply
            BY <2>1, <3>1, <3>5 DEF Replies!Reply
      <4> QED
            BY <4>1 DEF Replies!Next
    <3> QED
          BY <2>4, <3>2, <3>3, <3>4, <3>5 DEF SmokeLoaded
  <2> QED
        BY <1>7, <2>2, <2>3, <2>4 DEF Deliver
<1>8. CASE FinishClose
  <2>1. Replies!Close
        BY <1>8, NothingAtTheEnd DEF Replies!Close
  <2> QED
        BY <2>1 DEF Replies!Next
<1>9. CASE Thread \/ PostFeed
      BY <1>2, <1>9, ThreadKeepsQueue
<1>10. CASE UNCHANGED vars
       BY <1>3, <1>10 DEF vars
<1> QED
      BY <1>6, <1>7, <1>8, <1>9, <1>10 DEF Next

\* Every accepted request is answered once and in the order of the clicks,
\* across the queue, the thread and the dispatcher, until the window is gone:
\* the workbench implements RequestReply (worker.cpp: submit, run; app.cpp:
\* enqueue, result).
THEOREM RepliesAreKept == Spec => Replies!Spec
<1>1. Init /\ FrameInv /\ ThreadsInv => Replies!Init
  <2> SUFFICES ASSUME Init, FrameInv, ThreadsInv
               PROVE  Replies!Init
      OBVIOUS
  <2>1. Len(Outstanding) = 0 /\ ui = "loop"
        BY DEF Init, FrameInv, PendingAccounting
  <2>2. Outstanding = <<>>
        BY <2>1, OutstandingQueue, EmptySeq
  <2> QED
        BY <2>1, <2>2 DEF Replies!Init
<1>2. QED
      BY <1>1, RepliesStep, ThreadsInvariant, FrameInvariant, PTL DEF Spec, Replies!Spec
=============================================================================
