------------------------------ MODULE SdkCalls ------------------------------
(***************************************************************************)
(* What the worker thread does with the SDK between two waits: the job it  *)
(* takes or, when there is none, a round of event polling (src/worker.cpp), *)
(* the operation the router finds for it (src/sdk/operations*.cpp), and    *)
(* the buffers the SDK hands out (src/sdk/buffer.hpp).  Events go from the *)
(* SDK's queue through rows and posted records to the event view.          *)
(***************************************************************************)
EXTENDS Integers, Sequences, SequencesExt

CONSTANTS
    Limit,       \* events polled in one round: 64 in the code
    Window,      \* bound of the model: fewer events than this are under way
    MaxJobs,     \* queue capacity: 16 in the code
    MaxPosted    \* bound of the model: no poll fails with this many records unshown

ASSUME CallsAssumption ==
    /\ Limit \in Nat \ {0} /\ Window \in Nat \ {0}
    /\ MaxJobs \in Nat \ {0} /\ MaxPosted \in Nat

VARIABLES
    queued, quit,   \* Worker: the number of jobs_, quit_
    pc,             \* wait for a job, run one, in an SDK call or after it, in a round
    session,        \* the Sdk, as SessionCalls describes it
    held,           \* buffers the SDK handed out and the host has not freed
    rows,           \* events of the round so far
    events,         \* the SDK's queue, oldest first
    posted,         \* records of rounds on their way to the UI thread
    next,           \* number of the first event the view has not shown or been told lost
    emitted         \* number of the next event the SDK queues

workerVars == <<queued, quit, pc, session, held>>
feedVars == <<rows, events, posted, next, emitted>>
vars == <<workerVars, feedVars>>

Session == INSTANCE SessionCalls

\* Events are numbered in the order the SDK queues them, modulo Window.
Numbers == 0..(Window - 1)

Succ(n) == IF n + 1 < Window THEN n + 1 ELSE 0

\* A record of one round is the events it shows or, when the round threw, the
\* events it reports lost.
TypeOK ==
    /\ queued \in 0..MaxJobs /\ quit \in BOOLEAN
    /\ pc \in {"wait", "run", "call", "selftest", "respond", "round", "ended"}
    /\ session \in Session!States
    /\ held \subseteq {"output", "encrypted", "decoded", "inner"}
    /\ rows \in Seq(Numbers) /\ Len(rows) < Limit
    /\ events \in Seq(Numbers) /\ posted \in Seq(Seq(Numbers))
    /\ next \in Numbers /\ emitted \in Numbers

Init ==
    /\ queued = 0 /\ quit = FALSE /\ pc = "wait" /\ Session!Init /\ held = {}
    /\ rows = <<>> /\ events = <<>> /\ posted = <<>> /\ next = 0 /\ emitted = 0

---------------------------------------------------------------------------
(* The SDK and the user *)

Emit ==
    /\ session \notin {"unloaded", "released"}
    /\ Succ(emitted) # next
    /\ events' = Append(events, emitted) /\ emitted' = Succ(emitted)
    /\ UNCHANGED <<workerVars, rows, posted, next>>

Submit ==
    /\ queued < MaxJobs /\ ~quit
    /\ queued' = queued + 1
    /\ UNCHANGED <<quit, pc, session, held, feedVars>>

Quit ==
    /\ quit' = TRUE
    /\ UNCHANGED <<queued, pc, session, held, feedVars>>

---------------------------------------------------------------------------
(* Worker::TakeJob *)

TakeJob ==
    /\ pc = "wait" /\ queued > 0
    /\ queued' = queued - 1 /\ pc' = "run"
    /\ UNCHANGED <<quit, session, held, feedVars>>

\* started_ holds in a session that runs, and perhaps in one that failed to stop.
MayBeStarted == session \in {"started", "unclean"}

\* Mutant: the wait has no timeout.
BeginRound_NoTimeout == FALSE /\ UNCHANGED vars

\* 250 ms without a job: poll the events of a started session.
BeginRound ==
    /\ pc = "wait" /\ queued = 0 /\ ~quit
    /\ MayBeStarted
    /\ pc' = "round" /\ rows' = <<>>
    /\ UNCHANGED <<queued, quit, session, held, events, posted, next, emitted>>

\* run() ends; ~Sdk stops the session.
LeaveLoop ==
    /\ pc = "wait" /\ quit /\ queued = 0
    /\ Session!Destroy \/ Session!Release
    /\ pc' = IF session' = "released" THEN "ended" ELSE pc
    /\ UNCHANGED <<queued, quit, held, feedVars>>

---------------------------------------------------------------------------
(* Sdk::events *)

\* The SDK hands out one event in a buffer.
PollEvent ==
    /\ pc = "round" /\ held = {}
    /\ events # <<>>
    /\ held' = {"output"}
    /\ UNCHANGED <<queued, quit, pc, session, feedVars>>

PostRound(round) == posted' = Append(posted, round)

EndRound == pc' = "wait" /\ rows' = <<>>

\* Mutant: off by one at the limit.
LastPoll_OneMore == Len(rows) = Limit

LastPoll == Len(rows) + 1 = Limit

\* Mutant: a full round is posted, and the next begins before jobs are looked at.
FullRound_GoesOn ==
    PostRound(Append(rows, Head(events))) /\ rows' = <<>> /\ UNCHANGED pc

FullRound == PostRound(Append(rows, Head(events))) /\ EndRound

\* MakeResponse parses the event; its buffer is freed at the end of the iteration.
ReadEvent ==
    /\ pc = "round" /\ held # {}
    /\ held' = {} /\ events' = Tail(events)
    /\ IF LastPoll THEN FullRound
       ELSE rows' = Append(rows, Head(events)) /\ UNCHANGED <<pc, posted>>
    /\ UNCHANGED <<queued, quit, session, next, emitted>>

\* Mutants: the exception of a round is not reported; the buffer is freed by hand
\* after the parse.
BadEvent_Silent ==
    /\ pc = "round" /\ held # {}
    /\ held' = {} /\ events' = Tail(events)
    /\ EndRound
    /\ UNCHANGED <<queued, quit, session, posted, next, emitted>>
BadEvent_Leaks ==
    /\ pc = "round" /\ held # {}
    /\ events' = Tail(events)
    /\ PostRound(Append(rows, Head(events))) /\ EndRound
    /\ UNCHANGED <<queued, quit, session, held, next, emitted>>

\* An event that is no JSON: the exception ends the round, and its rows with it.
BadEvent ==
    /\ pc = "round" /\ held # {}
    /\ held' = {} /\ events' = Tail(events)
    /\ PostRound(Append(rows, Head(events))) /\ EndRound
    /\ UNCHANGED <<queued, quit, session, next, emitted>>

\* -10004: no event left.
NoEvent ==
    /\ pc = "round" /\ held = {} /\ events = <<>>
    /\ IF rows = <<>> THEN UNCHANGED posted ELSE PostRound(rows)
    /\ EndRound
    /\ UNCHANGED <<queued, quit, session, held, events, next, emitted>>

\* Any other code is the last row, and no event: alone in its record, it adds
\* nothing to the line of events.
PollFails ==
    /\ pc = "round" /\ held = {} /\ Len(posted) < MaxPosted
    /\ IF rows = <<>> THEN UNCHANGED posted ELSE PostRound(rows)
    /\ EndRound
    /\ UNCHANGED <<queued, quit, session, held, events, next, emitted>>

\* Frame::result appends the record to the event view.
Show ==
    /\ posted # <<>>
    /\ posted' = Tail(posted)
    /\ next' = Succ(Last(Head(posted)))
    /\ UNCHANGED <<workerVars, rows, events, emitted>>

---------------------------------------------------------------------------
(* Worker::ProcessJob and Sdk::execute *)

\* A job refused before any SDK call: no library, no such operation, a request
\* that is no object or longer than 1 MiB, a session in the way.
RefuseJob ==
    /\ pc = "run" /\ pc' = "wait"
    /\ UNCHANGED <<queued, quit, session, held, feedVars>>

\* How the operations of a file call the SDK: for a buffer, or for a code alone.
IdentityCalls == {"buffer", "code"}
NetworkCalls == {"buffer", "code"}
MessageCalls == {"buffer", "code"}
StorageCalls == {"buffer"}
Calls == IdentityCalls \cup NetworkCalls \cup MessageCalls \cup StorageCalls

\* A call that fails may hand out a buffer or not.
CallSdk(call) ==
    /\ pc = "run" /\ session # "unloaded"
    /\ pc' = "respond"
    /\ held' \in IF call = "buffer" THEN {{}, {"output"}} ELSE {{}}
    /\ UNCHANGED <<queued, quit, session, feedVars>>

\* The answer, or the exception of MakeResponse: the scope ends either way.
Respond ==
    /\ pc = "respond"
    /\ pc' = "wait" /\ held' = {}
    /\ UNCHANGED <<queued, quit, session, feedVars>>

\* SelfTest: encrypt, and decrypt what came out.
Protect ==
    /\ pc = "run" /\ session # "unloaded"
    /\ \/ pc' = "selftest" /\ held' = {"encrypted"}
       \/ pc' = "respond" /\ held' \in {{}, {"encrypted"}}
    /\ UNCHANGED <<queued, quit, session, feedVars>>

Unprotect ==
    /\ pc = "selftest"
    /\ pc' = "respond" /\ held' \in {held, held \cup {"decoded"}}
    /\ UNCHANGED <<queued, quit, session, feedVars>>

\* Once the library is loaded, its info operation makes the answer.
LoadJob ==
    /\ pc = "run" /\ Session!Load
    /\ pc' = "respond" /\ held' \in {{}, {"output"}}
    /\ UNCHANGED <<queued, quit, feedVars>>

BeginCall ==
    /\ pc = "run" /\ (Session!Start \/ Session!Stop)
    /\ pc' = "call"
    /\ UNCHANGED <<queued, quit, held, feedVars>>

\* What a start asks of the SDK comes in buffers: one at a time or, while that of
\* StoreOpenV1 or Init is in scope, a second one.
TakeBuffer ==
    /\ pc = "call" /\ session = "starting"
    /\ \/ held = {} /\ held' = {"output"}
       \/ held = {"output"} /\ held' = {"output", "inner"}
    /\ UNCHANGED <<queued, quit, pc, session, feedVars>>

\* A scope ends, by a return or by an exception: the inner one first.
LeaveInner ==
    /\ pc = "call" /\ "inner" \in held
    /\ held' = held \ {"inner"}
    /\ UNCHANGED <<queued, quit, pc, session, feedVars>>

LeaveOuter ==
    /\ pc = "call" /\ held = {"output"}
    /\ held' = {}
    /\ UNCHANGED <<queued, quit, pc, session, feedVars>>

\* An SDK that is stopped may drop what it had queued; numbers start again there.
DropEvents ==
    /\ events # <<>>
    /\ events' = <<>> /\ emitted' = Head(events)

\* A start that failed has stopped the session too.
EndCall ==
    /\ pc = "call" /\ held = {}
    /\ Session!StartReturns \/ Session!StopReturns
    /\ DropEvents \/ UNCHANGED <<events, emitted>>
    /\ pc' = "wait"
    /\ UNCHANGED <<queued, quit, held, rows, posted, next>>

---------------------------------------------------------------------------

Job ==
    \/ RefuseJob \/ LoadJob \/ BeginCall \/ EndCall
    \/ TakeBuffer \/ LeaveInner \/ LeaveOuter
    \/ \E call \in Calls : CallSdk(call)
    \/ Protect \/ Unprotect \/ Respond

Round == PollEvent \/ ReadEvent \/ BadEvent \/ NoEvent \/ PollFails

Thread == TakeJob \/ BeginRound \/ Job \/ Round \/ LeaveLoop

Next == Emit \/ Submit \/ Quit \/ Thread \/ Show

Spec == Init /\ [][Next]_vars

\* The worker thread and the event loop run; a poll repeated forever returns a
\* queued event in the end; a start, which makes finitely many calls, returns
\* (SessionCalls: FairSpec).  Nothing is assumed of the user or of when the SDK
\* has events.
FairSpec ==
    /\ Spec /\ WF_vars(Thread) /\ WF_vars(Show)
    /\ SF_vars(PollEvent) /\ SF_vars(LeaveOuter) /\ SF_vars(EndCall)

---------------------------------------------------------------------------
(* Properties *)

\* The events of s are those from number a up to number b, in order.
Runs(s, a, b) ==
    IF s = <<>> THEN a = b
    ELSE /\ s[1] = a /\ Succ(s[Len(s)]) = b
         /\ \A i \in 1..(Len(s) - 1) : s[i + 1] = Succ(s[i])

\* The number that follows the first r records, and the rows behind them all.
After(r) == IF r = 0 THEN next ELSE Succ(Last(posted[r]))
Polled == IF rows = <<>> THEN After(Len(posted)) ELSE Succ(Last(rows))

\* Events are shown once and in the order the SDK queued them, and none is lost
\* without a record that says so: whatever the interleaving of polling, jobs and
\* showing, the records, the rows and the SDK's queue follow one another and the
\* events the view knows of without a gap; a round that throws takes its rows
\* with it but is itself reported (operations.cpp: events; worker.cpp: run).
NoSilentLoss ==
    /\ \A r \in 1..Len(posted) : Runs(posted[r], After(r - 1), After(r))
    /\ Runs(rows, After(Len(posted)), Polled)
    /\ Runs(events, Polled, emitted)

\* Every buffer the SDK handed out is freed before the thread waits again, on
\* every path out of an operation, a start or a round (ARCHITECTURE.md:
\* SdkBuffer; buffer.hpp, operations*.cpp, lifecycle.cpp).
BuffersReturned == pc \in {"wait", "ended"} => held = {}

\* An endless stream of events does not keep a request waiting: a queued job is
\* taken (operations.cpp: events, the limit of a round).
JobsServed == (queued > 0) ~> (pc = "run")

UnderWay(n) ==
    \/ Contains(events, n) \/ Contains(rows, n)
    \/ \E r \in 1..Len(posted) : Contains(posted[r], n)

\* Once the user leaves the queue empty, the events of a started session reach
\* the view (worker.cpp: TakeJob).
EventsReach ==
    <>[](queued = 0) =>
        \A n \in Numbers : UnderWay(n) ~> (~UnderWay(n) \/ session # "started" \/ quit)
=============================================================================
