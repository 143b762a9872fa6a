------------------------------- MODULE LogFeed -------------------------------
(***************************************************************************)
(* SDK log lines on their way to the log view: threads of the SDK call      *)
(* Sdk::log, the worker parses and empties the queue with Sdk::logs before  *)
(* a job and posts a record (src/sdk/logs.cpp, src/worker.cpp), the Frame   *)
(* appends it.                                                              *)
(***************************************************************************)
EXTENDS Integers, Sequences, SequencesExt

CONSTANTS
    Capacity,    \* lines the queue keeps: 256 in the code
    MaxLines     \* bound of the model: lines the SDK logs

ASSUME FeedAssumption == Capacity \in Nat \ {0} /\ MaxLines \in Nat

VARIABLES
    emitted,     \* lines logged so far; a line is named by its number
    broken,      \* those that are no JSON
    logs,        \* logs_, under log_mutex_
    at,          \* the line logs() parses next; 0 while it does not hold log_mutex_
    rows,        \* what logs() has parsed and the worker has not posted
    posted,      \* records on their way to the UI thread
    shown        \* lines in the log view

vars == <<emitted, broken, logs, at, rows, posted, shown>>

Lines == 1..MaxLines

TypeOK ==
    /\ emitted \in 0..MaxLines
    /\ broken \subseteq 1..emitted
    /\ logs \in Seq(Lines) /\ Len(logs) <= Capacity
    /\ at \in 0..(Len(logs) + 1)
    /\ rows \in Seq(Lines)
    /\ posted \in Seq(Seq(Lines))
    /\ shown \in Seq(Lines)

Init ==
    /\ emitted = 0 /\ broken = {} /\ logs = <<>>
    /\ at = 0 /\ rows = <<>> /\ posted = <<>> /\ shown = <<>>

\* Mutant: off by one at the capacity.
Room_OneMore == IF Len(logs) > Capacity THEN Tail(logs) ELSE logs

\* Mutant: a full queue gives up its newest line.
Room_DropsNewest == IF Len(logs) >= Capacity THEN Front(logs) ELSE logs

\* A full queue gives up its oldest line.
Room == IF Len(logs) >= Capacity THEN Tail(logs) ELSE logs

\* log: called by any thread of the SDK, under the mutex; lines over 32 KiB
\* never enter.
Log ==
    /\ at = 0
    /\ emitted < MaxLines
    /\ emitted' = emitted + 1
    /\ broken' \in {broken, broken \cup {emitted'}}
    /\ logs' = Append(Room, emitted')
    /\ UNCHANGED <<at, rows, posted, shown>>

\* logs takes the mutex; with no line it returns at once.
BeginDrain ==
    /\ at = 0 /\ rows = <<>> /\ logs # <<>>
    /\ at' = 1
    /\ UNCHANGED <<emitted, broken, logs, rows, posted, shown>>

\* A line that is no JSON is passed over.
Parse ==
    /\ at \in 1..Len(logs)
    /\ at' = at + 1
    /\ rows' = IF logs[at] \in broken THEN rows ELSE Append(rows, logs[at])
    /\ UNCHANGED <<emitted, broken, logs, posted, shown>>

\* Mutant: the queue is not emptied.
Drained_No == logs

Drained == <<>>

EndDrain ==
    /\ at = Len(logs) + 1
    /\ at' = 0 /\ logs' = Drained
    /\ UNCHANGED <<emitted, broken, rows, posted, shown>>

\* The worker posts what logs returned, if anything.
Post ==
    /\ at = 0 /\ rows # <<>>
    /\ posted' = Append(posted, rows) /\ rows' = <<>>
    /\ UNCHANGED <<emitted, broken, logs, at, shown>>

\* Frame::result appends the record to the log view.
Show ==
    /\ posted # <<>>
    /\ shown' = shown \o Head(posted)
    /\ posted' = Tail(posted)
    /\ UNCHANGED <<emitted, broken, logs, at, rows>>

Next == Log \/ BeginDrain \/ Parse \/ EndDrain \/ Post \/ Show

Spec == Init /\ [][Next]_vars

---------------------------------------------------------------------------
(* Properties *)

\* The lines of the queue that logs has not parsed.
Waiting == IF at = 0 THEN logs ELSE SubSeq(logs, at, Len(logs))

\* All lines from the view back to the queue, in the order they are shown.
Parts == <<shown>> \o posted \o <<rows, Waiting>>

Increasing(s) == \A i, j \in 1..Len(s) : i < j => s[i] < s[j]

Before(s, t) == \A i \in 1..Len(s), j \in 1..Len(t) : s[i] < t[j]

\* Lines are shown in the order they were logged and none twice, whatever
\* the interleaving of logging, draining, posting and showing (logs.cpp,
\* worker.cpp).
ShownInOrder ==
    \A p \in 1..Len(Parts) :
        /\ Increasing(Parts[p])
        /\ \A q \in 1..Len(Parts) : p < q => Before(Parts[p], Parts[q])

\* Only old lines are lost: the last Capacity lines that parse are in the queue,
\* on their way or in the view (logs.cpp: log).
NewestKept ==
    \A n \in 1..emitted : n > emitted - Capacity /\ n \notin broken =>
        \E p \in 1..Len(Parts) : Contains(Parts[p], n)
=============================================================================
