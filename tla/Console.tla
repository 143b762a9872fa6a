------------------------------- MODULE Console -------------------------------
(***************************************************************************)
(* sovkit-console (src/cli.cpp): one Sdk, one request per line of standard *)
(* input, one reply per line of standard output.  A script writes lines    *)
(* ahead of the replies and may close the input at any moment.             *)
(***************************************************************************)
EXTENDS Naturals, Sequences

CONSTANT MaxInput     \* bound of the model: lines the pipe holds

ASSUME ConsoleAssumption == MaxInput \in Nat \ {0}

VARIABLES
    input, eof,  \* standard input: lines not yet read, and whether the script closed it
    pc,          \* where main is
    line,        \* the line being worked on
    session,     \* the Sdk, as SessionCalls describes it
    status,      \* the exit code, Running before there is one
    lost         \* history: main left the loop with lines unanswered

vars == <<input, eof, pc, line, session, status, lost>>

Session == INSTANCE SessionCalls

\* bad: longer than 1 MiB, no JSON, no object, or without an operation.
\* raw: no JSON, and the parser's message quotes bytes that are no UTF-8.
Lines == {"bad", "raw", "start", "stop", "api"}
NoLine == "none"
Running == 255

InLoop == pc \in {"begin", "read", "work", "call"}

TypeOK ==
    /\ input \in Seq(Lines) /\ Len(input) <= MaxInput /\ eof \in BOOLEAN
    /\ pc \in {"begin", "read", "work", "call", "final", "destroy", "exited"}
    /\ line \in Lines \cup {NoLine} /\ (line # NoLine <=> pc \in {"work", "call"})
    /\ session \in Session!States
    /\ status \in {0, 1, 2, 64, Running} /\ lost \in BOOLEAN

Init ==
    /\ input = <<>> /\ eof = FALSE /\ pc = "begin" /\ line = NoLine
    /\ Session!Init /\ status = Running /\ lost = FALSE

---------------------------------------------------------------------------
(* The script *)

Write(some) ==
    /\ InLoop /\ ~eof /\ Len(input) < MaxInput
    /\ input' = Append(input, some)
    /\ UNCHANGED <<eof, pc, line, session, status, lost>>

CloseInput ==
    /\ ~eof /\ eof' = TRUE
    /\ UNCHANGED <<input, pc, line, session, status, lost>>

---------------------------------------------------------------------------
(* main *)

\* return from main, or the outer catch: the Sdk is destroyed next.
Return(code) ==
    /\ pc' = "destroy" /\ status' = code
    /\ input' = <<>> /\ line' = NoLine
    /\ lost' = (lost \/ input # <<>> \/ line # NoLine)

Load ==
    /\ pc = "begin" /\ Session!Load
    /\ pc' = "read"
    /\ UNCHANGED <<input, eof, line, status, lost>>

\* No argument, or a library that cannot be loaded.
LoadFails ==
    /\ pc = "begin"
    /\ Return(64) \/ Return(1)
    /\ UNCHANGED <<eof, session>>

ReadLine ==
    /\ pc = "read" /\ input # <<>>
    /\ line' = Head(input) /\ input' = Tail(input) /\ pc' = "work"
    /\ UNCHANGED <<eof, session, status, lost>>

\* Mutant: the request is kept after its reply.
Reply_KeepsLine == pc' = "read" /\ line' = line

\* The reply is written; the loop reads on.
Reply == pc' = "read" /\ line' = NoLine

\* Mutant: the line after a refused one is swallowed.
RefuseLine_Skips ==
    /\ pc = "work" /\ line \notin {"stop", "raw"}
    /\ Reply /\ input' = IF input = <<>> THEN input ELSE Tail(input)
    /\ UNCHANGED <<eof, session, status, lost>>

\* An exception of the line is its reply: what is no request, a start that is
\* refused, an operation that fails.
RefuseLine ==
    /\ pc = "work" /\ line \notin {"stop", "raw"}
    /\ Reply
    /\ UNCHANGED <<input, eof, session, status, lost>>

Execute ==
    /\ pc = "work" /\ line = "api"
    /\ Reply
    /\ UNCHANGED <<input, eof, session, status, lost>>

\* Mutant: the exception of the dump ends the loop as if the input had ended.
ReplyThrows_Breaks ==
    /\ pc = "work" /\ line = "raw"
    /\ pc' = "final" /\ line' = NoLine /\ input' = <<>> /\ lost' = TRUE
    /\ Session!Stop
    /\ UNCHANGED <<eof, status>>

\* reply.dump() throws on a message that is no UTF-8, outside the inner try.
ReplyThrows ==
    /\ pc = "work" /\ line = "raw"
    /\ Return(1)
    /\ UNCHANGED <<eof, session>>

BeginCall ==
    /\ pc = "work"
    /\ (line = "start" /\ Session!Start) \/ (line = "stop" /\ Session!Stop)
    /\ pc' = "call"
    /\ UNCHANGED <<input, eof, line, status, lost>>

EndCall ==
    /\ pc = "call"
    /\ Session!StartReturns \/ Session!StopReturns
    /\ Reply
    /\ UNCHANGED <<input, eof, status, lost>>

\* getline fails at the end of the input: the last stop decides the exit code.
EndOfInput ==
    /\ pc = "read" /\ input = <<>> /\ eof
    /\ Session!Stop
    /\ pc' = "final"
    /\ UNCHANGED <<input, eof, line, status, lost>>

FinalStop ==
    /\ pc = "final"
    /\ Session!StopReturns
    /\ Return(IF session' = "stopped" THEN 0 ELSE 2)
    /\ UNCHANGED eof

\* Mutant: the process ends without waiting for the destructor.
Exited_Early == pc' = "exited"

Exited == pc' = IF session' = "released" THEN "exited" ELSE pc

\* ~Sdk, on every way out of main.
DestroySdk ==
    /\ pc = "destroy"
    /\ Session!Destroy \/ Session!Release
    /\ Exited
    /\ UNCHANGED <<input, eof, line, status, lost>>

---------------------------------------------------------------------------

Script == CloseInput \/ \E some \in Lines : Write(some)

Main ==
    \/ Load \/ LoadFails
    \/ ReadLine \/ RefuseLine \/ Execute \/ ReplyThrows \/ BeginCall \/ EndCall
    \/ EndOfInput \/ FinalStop \/ DestroySdk

Next == Script \/ Main

Spec == Init /\ [][Next]_vars

\* The process runs, and calls of the Sdk come back.  Nothing is assumed of the script.
FairSpec == Spec /\ WF_vars(Main)

---------------------------------------------------------------------------
(* The promise to the script: RequestReply *)

Replies == INSTANCE RequestReply WITH
               Requests    <- Lines,
               outstanding <- (IF line = NoLine THEN <<>> ELSE <<line>>) \o input,
               open        <- InLoop

\* Every line is answered by one reply, in order, until main leaves its loop,
\* and replies keep coming (cli.cpp: main).
LinesAnswered == Replies!FairSpec

---------------------------------------------------------------------------
(* Properties *)

\* Exit code 0 promises that every line was answered and that the session was
\* stopped before the object was destroyed: no exception on the way is taken
\* for the end of the input (cli.cpp: main).
ZeroMeansDone ==
    status = 0 => ~lost /\ session \in {"stopped", "ending", "released"}

\* At the end of the input the process works off what was written, stops the
\* session and ends, however often a stop fails on the way
\* (MANUAL_TESTING.md: the host waits for the stop at EOF).
ConsoleEnds == eof ~> (pc = "exited" /\ session = "released")
=============================================================================
