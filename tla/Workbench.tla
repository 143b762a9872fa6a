----------------------------- MODULE Workbench -----------------------------
(***************************************************************************)
(* The desktop program around one Sdk: the Frame on the UI thread          *)
(* (src/app.cpp), the Worker and its thread (src/worker.cpp), and the      *)
(* dispatcher that carries results back (3rdparty/libwxui desktop.cc).     *)
(* The user may click, close, or be closed by the system at any moment;    *)
(* results travel asynchronously; the Sdk is the SessionCalls that         *)
(* HostSession implements.                                                 *)
(***************************************************************************)
EXTENDS Naturals, Sequences, SequencesExt

CONSTANTS
    Capacity,     \* jobs the queue holds: 16 in the code
    MaxPending,   \* bound of the model: clicks stop at this many unanswered requests
    MaxFeeds      \* bound of the model: undelivered events and logs records, in one place of
                  \* the order of answers at a time

ASSUME WorkbenchAssumption ==
    /\ Capacity \in Nat \ {0}
    /\ MaxPending \in Nat \ {0}
    /\ MaxFeeds \in Nat

VARIABLES
    \* Worker, shared by both threads under mutex_
    jobs, quit,
    \* worker thread
    wpc,          \* wait for a job, run one, inside a call of it, destroy the Sdk, exited
    hand,         \* the job being processed
    session,      \* the Sdk, as SessionCalls describes it
    \* Frame, UI thread only
    ui,           \* its event loop, a modal box, or the destruction of the worker
    closing, loaded, pending,
    gates,        \* which of the buttons load_, start_, execute_ are enabled
    smoke,        \* started with --smoke-report
    \* DesktopWindow dispatcher
    posted,       \* answers posted to the UI thread, not yet handled, each with the
                  \* number of events and logs records posted just before it
    feeds         \* those posted behind the last answer

workerVars == <<wpc, hand, session>>
frameVars == <<closing, loaded, pending, gates, smoke>>
postVars == <<posted, feeds>>
vars == <<jobs, quit, workerVars, ui, frameVars, postVars>>

Session == INSTANCE SessionCalls

Ops == {"load", "start", "stop", "api"}
NoJob == [op |-> "none", byClose |-> FALSE]
Jobs == [op : Ops, byClose : BOOLEAN]     \* byClose: submitted by OnClose
Rows == [op : Ops, byClose : BOOLEAN, ok : BOOLEAN, feeds : 0..MaxFeeds]

Buttons == {"load", "start", "api"}
EventLoops == {"loop", "confirm", "choose", "error"}   \* a modal box runs the event loop too

TypeOK ==
    /\ jobs \in Seq(Jobs) /\ Len(jobs) <= Capacity
    /\ quit \in BOOLEAN
    /\ wpc \in {"wait", "run", "call", "destroy", "exited"}
    /\ hand \in Jobs \cup {NoJob}
    /\ session \in Session!States
    /\ ui \in EventLoops \cup {"joining", "gone"}
    /\ closing \in BOOLEAN /\ loaded \in BOOLEAN /\ smoke \in BOOLEAN
    /\ pending \in Nat
    /\ gates \subseteq Buttons
    /\ posted \in Seq(Rows) /\ feeds \in 0..MaxFeeds

Init ==
    /\ jobs = <<>> /\ quit = FALSE
    /\ wpc = "wait" /\ hand = NoJob /\ Session!Init
    /\ ui = "loop" /\ closing = FALSE /\ loaded = FALSE /\ pending = 0
    /\ gates = {"load"} /\ smoke \in BOOLEAN
    /\ posted = <<>> /\ feeds = 0

---------------------------------------------------------------------------
(* Worker::submit and Frame::enqueue *)

\* Mutant: off by one at the capacity.
CanSubmit_OneMore == Len(jobs) <= Capacity /\ ~quit

CanSubmit == Len(jobs) < Capacity /\ ~quit

\* Mutant: an accepted job leaves the buttons enabled.
Enqueue_KeepsGates(job, closingNow, pendingNow, gatesNow) ==
    IF CanSubmit
      THEN /\ jobs' = Append(jobs, job)
           /\ closing' = closingNow /\ pending' = pendingNow + 1 /\ gates' = gatesNow
      ELSE /\ closing' = FALSE /\ pending' = pendingNow /\ gates' = gatesNow
           /\ UNCHANGED jobs

\* The arguments are the values the caller has reached; a refused job takes
\* closing_ back and changes nothing else.
Enqueue(job, closingNow, pendingNow, gatesNow) ==
    IF CanSubmit
      THEN /\ jobs' = Append(jobs, job)
           /\ closing' = closingNow /\ pending' = pendingNow + 1 /\ gates' = {}
      ELSE /\ closing' = FALSE /\ pending' = pendingNow /\ gates' = gatesNow
           /\ UNCHANGED jobs

UserJob(op) == [op |-> op, byClose |-> FALSE]

---------------------------------------------------------------------------
(* Frame: the user *)

\* Load, Start: the button submits at once.  Stop is always enabled.
Click(op) ==
    /\ ui = "loop" /\ pending < MaxPending
    /\ op = "stop" \/ op \in gates \cap {"load", "start"}
    /\ Enqueue(UserJob(op), closing, pending, gates)
    /\ UNCHANGED <<quit, workerVars, ui, loaded, smoke, postVars>>

\* Execute: some operations ask for a confirmation first.
ClickExecute ==
    /\ ui = "loop" /\ pending < MaxPending
    /\ "api" \in gates
    /\ \/ /\ Enqueue(UserJob("api"), closing, pending, gates)
          /\ UNCHANGED ui
       \/ /\ ui' = "confirm"
          /\ UNCHANGED <<jobs, closing, pending, gates>>
    /\ UNCHANGED <<quit, workerVars, loaded, smoke, postVars>>

AnswerConfirm ==
    /\ ui = "confirm"
    /\ ui' = "loop"
    /\ \/ Enqueue(UserJob("api"), closing, pending, gates)
       \/ UNCHANGED <<jobs, closing, pending, gates>>
    /\ UNCHANGED <<quit, workerVars, loaded, smoke, postVars>>

\* The choosers of files and directories, the documents and the export are always
\* offered, also while the window is closing.
OpenBox ==
    /\ ui = "loop" /\ ui' = "choose"
    /\ UNCHANGED <<jobs, quit, workerVars, frameVars, postVars>>

\* The handler goes on with the choice: it fills in a path or a request.
CloseBox ==
    /\ ui = "choose" /\ ui' = "loop"
    /\ UNCHANGED <<jobs, quit, workerVars, frameVars, postVars>>

DismissError ==
    /\ ui = "error" /\ ui' = "loop"
    /\ UNCHANGED <<jobs, quit, workerVars, frameVars, postVars>>

\* OnClose(true): the first request of a close submits a stop of its own.
CloseWindow ==
    /\ ui = "loop" /\ ~closing /\ pending < MaxPending
    /\ Enqueue([op |-> "stop", byClose |-> TRUE], TRUE, pending, gates)
    /\ UNCHANGED <<quit, workerVars, ui, loaded, smoke, postVars>>

\* worker_.reset(): ~Worker sets quit_ and waits for the thread.
ResetWorker == quit' = TRUE /\ ui' = "joining"

\* OnClose(false): the system closes the window and does not ask.
ForcedClose ==
    /\ ui \in {"loop", "error"}
    /\ ResetWorker
    /\ UNCHANGED <<jobs, workerVars, frameVars, postVars>>

\* Mutant: the window goes without waiting for the thread.
Joined_Detached == ui = "joining"

Joined == ui = "joining" /\ wpc = "exited"

\* The thread has ended: FinishClose, or the rest of Close, cancels what is
\* posted and destroys the window.
FinishClose ==
    /\ Joined
    /\ ui' = "gone" /\ posted' = <<>> /\ feeds' = 0
    /\ UNCHANGED <<jobs, quit, workerVars, frameVars>>

---------------------------------------------------------------------------
(* Frame::result, run by the event loop for each posted record *)

\* Mutant: the buttons open although requests are outstanding.
OpenGates_Early(isLoaded, isClosing, left) ==
    IF isClosing THEN {} ELSE IF isLoaded THEN {"start", "api"} ELSE {"load"}

OpenGates(isLoaded, isClosing, left) ==
    IF isClosing \/ left > 0 THEN {}
    ELSE IF isLoaded THEN {"start", "api"} ELSE {"load"}

\* Mutant: any answer to load counts as loaded.
IsLoaded_AnyAnswer(row) == loaded \/ row.op = "load"

IsLoaded(row) == loaded \/ (row.op = "load" /\ row.ok)

\* The part every result shares.
Arrives(row) ==
    /\ ui \in EventLoops /\ posted # <<>> /\ row = Head(posted) /\ row.feeds = 0
    /\ posted' = Tail(posted)
    /\ loaded' = IsLoaded(row)
    /\ UNCHANGED feeds

Left == IF pending > 0 THEN pending - 1 ELSE 0

\* Events and logs records arrive in their turn between the answers.
FeedArrives ==
    /\ ui \in EventLoops
    /\ \/ /\ posted # <<>> /\ Head(posted).feeds > 0
          /\ posted' = [posted EXCEPT ![1].feeds = @ - 1]
          /\ UNCHANGED feeds
       \/ /\ posted = <<>> /\ feeds > 0
          /\ feeds' = feeds - 1
          /\ UNCHANGED posted

\* Mutant: events and logs are counted like answers.
ShowFeed_Counted ==
    /\ FeedArrives
    /\ pending' = Left
    /\ UNCHANGED <<jobs, quit, workerVars, ui, closing, loaded, gates, smoke>>

ShowFeed ==
    /\ FeedArrives
    /\ UNCHANGED <<jobs, quit, workerVars, ui, frameVars>>

ShowResult(row) ==
    /\ Arrives(row)
    /\ ~(closing /\ row.op = "stop")
    /\ ~(smoke /\ row.op = "load" /\ row.ok)
    /\ pending' = Left
    /\ gates' = OpenGates(IsLoaded(row), closing, Left)
    /\ UNCHANGED <<jobs, quit, workerVars, ui, closing, smoke>>

\* The smoke test goes on by itself after the library is loaded.
SmokeLoaded(row) ==
    /\ Arrives(row)
    /\ smoke /\ row.op = "load" /\ row.ok
    /\ Enqueue(UserJob("api"), closing, Left, OpenGates(TRUE, closing, Left))
    /\ UNCHANGED <<quit, workerVars, ui, smoke>>

\* Any stop that succeeds while the window is closing lets it close.
StopForClose(row) ==
    /\ Arrives(row)
    /\ closing /\ row.op = "stop" /\ row.ok
    /\ pending' = Left /\ gates' = OpenGates(IsLoaded(row), closing, Left)
    /\ ResetWorker
    /\ UNCHANGED <<jobs, workerVars, closing, smoke>>

\* Mutant: the failed close is reported but not taken back.
CloseRefused_KeepsClosing(row) ==
    /\ Arrives(row)
    /\ closing /\ row.op = "stop" /\ ~row.ok
    /\ pending' = Left /\ gates' = OpenGates(IsLoaded(row), closing, Left)
    /\ ui' = "error"
    /\ UNCHANGED <<jobs, quit, workerVars, closing, smoke>>

\* Any stop that fails while the window is closing keeps it, and says so.
CloseRefused(row) ==
    /\ Arrives(row)
    /\ closing /\ row.op = "stop" /\ ~row.ok
    /\ closing' = FALSE
    /\ pending' = Left /\ gates' = OpenGates(IsLoaded(row), FALSE, Left)
    /\ ui' = "error"
    /\ UNCHANGED <<jobs, quit, workerVars, smoke>>

Deliver ==
    \/ ShowFeed
    \/ \E row \in Rows : ShowResult(row) \/ SmokeLoaded(row) \/ StopForClose(row) \/ CloseRefused(row)

---------------------------------------------------------------------------
(* Worker::run *)

\* The dispatcher drops what is posted after Cancel.
Post(op, byClose, ok) ==
    IF ui = "gone" THEN UNCHANGED postVars
    ELSE /\ posted' = Append(posted, [op |-> op, byClose |-> byClose, ok |-> ok, feeds |-> feeds])
         /\ feeds' = 0

\* Mutant: the newest job first.
TakeJob_Newest ==
    /\ wpc = "wait" /\ jobs # <<>>
    /\ hand' = Last(jobs) /\ jobs' = Front(jobs)
    /\ wpc' = "run"
    /\ UNCHANGED <<quit, session, ui, frameVars, postVars>>

TakeJob ==
    /\ wpc = "wait" /\ jobs # <<>>
    /\ hand' = Head(jobs) /\ jobs' = Tail(jobs)
    /\ wpc' = "run"
    /\ UNCHANGED <<quit, session, ui, frameVars, postVars>>

\* Mutant: the thread waits for jobs although told to quit.
LeaveLoop_Never == FALSE /\ UNCHANGED vars

\* Told to quit, the thread first works off the queue.
LeaveLoop ==
    /\ wpc = "wait" /\ quit /\ jobs = <<>>
    /\ wpc' = "destroy"
    /\ UNCHANGED <<jobs, quit, hand, session, ui, frameVars, postVars>>

\* Logs before a job, events when there is none: records that answer nothing.
PostFeed ==
    /\ wpc \in {"wait", "run"} /\ session # "unloaded"
    /\ ui # "gone" /\ feeds < MaxFeeds /\ \A i \in 1..Len(posted) : posted[i].feeds = 0
    /\ feeds' = feeds + 1
    /\ UNCHANGED <<posted, jobs, quit, workerVars, ui, frameVars>>

\* Mutant: an exception of the job ends it without an answer.
Answer_OnlyGood(ok) ==
    /\ IF ok THEN Post(hand.op, hand.byClose, ok) ELSE UNCHANGED postVars
    /\ hand' = NoJob /\ wpc' = "wait"

\* The end of a job: its answer, or the exception it threw made into one, is posted.
Answer(ok) ==
    /\ Post(hand.op, hand.byClose, ok)
    /\ hand' = NoJob /\ wpc' = "wait"

\* A job refused at once: no library, one already, an ill-formed request, a
\* session in the way.  It changes nothing.
RefuseJob ==
    /\ wpc = "run" /\ hand.op # "stop"
    /\ Answer(FALSE)
    /\ UNCHANGED <<jobs, quit, session, ui, frameVars>>

\* Load may succeed and its capability check fail.
LoadJob ==
    /\ wpc = "run" /\ hand.op = "load" /\ Session!Load
    /\ \E checked \in BOOLEAN : Answer(checked)
    /\ UNCHANGED <<jobs, quit, ui, frameVars>>

\* An operation of the SDK, by its code.
ApiJob ==
    /\ wpc = "run" /\ hand.op = "api" /\ session # "unloaded"
    /\ Answer(TRUE)
    /\ UNCHANGED <<jobs, quit, session, ui, frameVars>>

\* Without a library there is nothing to stop.
StopNothing ==
    /\ wpc = "run" /\ hand.op = "stop" /\ session = "unloaded"
    /\ Answer(TRUE)
    /\ UNCHANGED <<jobs, quit, session, ui, frameVars>>

BeginCall ==
    /\ wpc = "run"
    /\ (hand.op = "start" /\ Session!Start) \/ (hand.op = "stop" /\ Session!Stop)
    /\ wpc' = "call"
    /\ UNCHANGED <<jobs, quit, hand, ui, frameVars, postVars>>

\* start or stop comes back; its answer says whether it did what was asked.
EndCall ==
    /\ wpc = "call"
    /\ Session!StartReturns \/ Session!StopReturns
    /\ Answer(session' = IF hand.op = "start" THEN "started" ELSE "stopped")
    /\ UNCHANGED <<jobs, quit, ui, frameVars>>

ProcessJob == RefuseJob \/ LoadJob \/ ApiJob \/ StopNothing \/ BeginCall \/ EndCall

\* ~Sdk at the end of run(): it returns when the SDK has stopped.
DestroySdk ==
    /\ wpc = "destroy"
    /\ Session!Destroy \/ Session!Release
    /\ wpc' = IF session' = "released" THEN "exited" ELSE "destroy"
    /\ UNCHANGED <<jobs, quit, hand, ui, frameVars, postVars>>

---------------------------------------------------------------------------

User ==
    \/ \E op \in {"load", "start", "stop"} : Click(op)
    \/ ClickExecute \/ AnswerConfirm \/ DismissError
    \/ OpenBox \/ CloseBox
    \/ CloseWindow \/ ForcedClose

Thread == TakeJob \/ LeaveLoop \/ ProcessJob \/ DestroySdk

Next == User \/ Deliver \/ FinishClose \/ Thread \/ PostFeed

Spec == Init /\ [][Next]_vars

\* The worker thread and the event loop run; an SDK asked to stop stops in the
\* end.  Nothing is assumed of the user.
Fairness == WF_vars(Thread) /\ WF_vars(Deliver) /\ WF_vars(FinishClose)

FairSpec == Spec /\ Fairness

---------------------------------------------------------------------------
(* The promise to the user: RequestReply *)

JobOf(row) == [op |-> row.op, byClose |-> row.byClose]

\* Every accepted job not yet answered, oldest first: posted, in hand, queued.
Outstanding ==
    [i \in 1..Len(posted) |-> JobOf(posted[i])]
    \o (IF hand = NoJob THEN <<>> ELSE <<hand>>)
    \o jobs

Replies == INSTANCE RequestReply WITH
               Requests    <- Jobs,
               outstanding <- Outstanding,
               open        <- ui # "gone"

\* Accepted requests are answered once, in order, across the queue, the worker
\* and the dispatcher, and answers keep coming while requests wait, until the
\* window is gone (worker.cpp: submit, TakeJob, run; app.cpp: result).
RepliesComing == Replies!FairSpec

---------------------------------------------------------------------------
(* Properties *)

\* pending_ counts exactly the accepted requests whose answer the user has not
\* seen, wherever they are: events and logs records, refused jobs and nested
\* event loops never disturb it (app.cpp: enqueue, result).
PendingAccounting == ui # "gone" => pending = Len(Outstanding)

\* Business work is exclusive: whatever the order of clicks, confirmations and
\* answers, at most one job other than a stop is under way, and no button that
\* would submit another is enabled (app.cpp: enqueue, result).
ExclusiveBusiness ==
    /\ \A i, j \in 1..Len(Outstanding) :
          Outstanding[i].op # "stop" /\ Outstanding[j].op # "stop" => i = j
    /\ gates # {} => Outstanding = <<>> \/ ui \in {"joining", "gone"}

\* A window that is closing has a stop under way to answer it, and offers no
\* new work meanwhile (app.cpp: OnClose, enqueue, result).
ClosingHasStop ==
    closing /\ ui \in EventLoops =>
        /\ \E i \in 1..Len(Outstanding) : Outstanding[i].op = "stop"
        /\ gates = {}

\* The window goes only after the worker has worked off every accepted job,
\* the SDK has stopped and the thread has ended (app.cpp: OnClose, result;
\* worker.cpp: ~Worker, run).
SafeClose == ui = "gone" => wpc = "exited" /\ session = "released" /\ jobs = <<>> /\ hand = NoJob

\* The Frame never believes in an SDK that is not loaded.
LoadedHonest == loaded => session # "unloaded"

\* A close is always answered: the window goes, or the user is told and may
\* close again.
CloseAnswered == closing ~> (~closing \/ ui = "gone")

\* A forced close ends, with the window destroyed.
ResetEnds == (ui = "joining") ~> (ui = "gone")

\* A close waits for its stop to succeed and then closes the window: the stop
\* that OnClose submitted never succeeds without closing it.
CloseStopCloses ==
    [][\A row \in Rows :
          posted # <<>> /\ row = Head(posted) /\ row.op = "stop" /\ row.byClose /\ row.ok
             /\ row.feeds = 0 /\ Deliver
             => ui' = "joining"]_vars
=============================================================================
