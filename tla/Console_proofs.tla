---------------------------- MODULE Console_proofs ----------------------------
(***************************************************************************)
(* Theorems about Console, for every length of the pipe: the exit code, and *)
(* that the loop of main implements RequestReply.                          *)
(***************************************************************************)
EXTENDS Console, QueueLemmas

\* Until main leaves the loop nothing is lost and no exit code chosen; the
\* loop is left at the end of the input with nothing unread.
LoopInv ==
    /\ pc \notin {"destroy", "exited"} => ~lost /\ status = Running
    /\ ~InLoop => input = <<>>
    /\ pc = "final" => session \in {"stopping", "stopped", "unclean"}

\* An exit code of 0 is chosen by a stop that succeeded; only ~Sdk follows.
ExitInv ==
    status = 0 =>
        /\ ~lost
        /\ pc = "destroy" => session \in {"stopped", "ending"}
        /\ pc = "exited" => session = "released"

ConsoleInv == TypeOK /\ LoopInv /\ ExitInv

---------------------------------------------------------------------------
(* Invariance *)

\* The types, where main is and what it holds fit together at every step
\* (cli.cpp: main).
LEMMA ConsoleInvStep == ConsoleInv /\ [Next]_vars => ConsoleInv'
<1> SUFFICES ASSUME ConsoleInv, [Next]_vars
             PROVE  ConsoleInv'
    OBVIOUS
<1> USE ConsoleAssumption
        DEF ConsoleInv, TypeOK, LoopInv, ExitInv, InLoop, Lines, NoLine, Running,
            Session!States, Session!Idle, Session!Calls
<1>1. CASE CloseInput
      BY <1>1 DEF CloseInput
<1>2. ASSUME NEW some \in Lines, Write(some)
      PROVE  ConsoleInv'
      BY <1>2, AppendProperties DEF Write
<1>3. CASE Load
      BY <1>3 DEF Load, Session!Load
<1>4. CASE LoadFails
  <2>1. Len(<<>>) = 0 /\ <<>> \in Seq(Lines)
        BY EmptySeq
  <2>2. lost' \in BOOLEAN
        BY <1>4 DEF LoadFails, Return
  <2>3. /\ input' = <<>> /\ pc' = "destroy" /\ status' \in {64, 1} /\ line' = NoLine
        /\ UNCHANGED <<eof, session>>
        BY <1>4 DEF LoadFails, Return
  <2> QED
        BY <2>1, <2>2, <2>3
<1>5. CASE ReadLine
  <2>1. Head(input) \in Lines /\ Tail(input) \in Seq(Lines) /\ Len(Tail(input)) = Len(input) - 1
        BY <1>5, TakeOldest DEF ReadLine
  <2>2. Len(input) \in Nat
        OBVIOUS
  <2> QED
        BY <1>5, <2>1, <2>2 DEF ReadLine
<1>6. CASE RefuseLine
      BY <1>6 DEF RefuseLine, Reply
<1>7. CASE Execute
      BY <1>7 DEF Execute, Reply
<1>8. CASE ReplyThrows
      BY <1>8 DEF ReplyThrows, Return
<1>9. CASE BeginCall
      BY <1>9 DEF BeginCall, Session!Start, Session!Stop
<1>10. CASE EndCall
      BY <1>10 DEF EndCall, Reply, Session!StartReturns, Session!StopReturns
<1>11. CASE EndOfInput
      BY <1>11 DEF EndOfInput, Session!Stop
<1>12. CASE FinalStop
      BY <1>12 DEF FinalStop, Return, Session!StopReturns
<1>13. CASE DestroySdk
      BY <1>13 DEF DestroySdk, Exited, Session!Destroy, Session!Release
<1>14. CASE UNCHANGED vars
      BY <1>14 DEF vars
<1> QED
      BY <1>1, <1>2, <1>3, <1>4, <1>5, <1>6, <1>7, <1>8, <1>9, <1>10, <1>11, <1>12, <1>13, <1>14
      DEF Next, Script, Main

\* What holds of the loop, the exit code and the session at every step
\* (cli.cpp: main).
THEOREM ConsoleInvariant == Spec => []ConsoleInv
<1>1. ASSUME Init
      PROVE  ConsoleInv
  <2>1. input \in Seq(Lines) /\ Len(input) <= MaxInput
        BY <1>1, EmptySeq, ConsoleAssumption DEF Init
  <2>2. TypeOK
        BY <1>1, <2>1
        DEF Init, TypeOK, Lines, NoLine, Running,
            Session!Init, Session!States, Session!Idle, Session!Calls
  <2>3. LoopInv /\ ExitInv
        BY <1>1 DEF Init, LoopInv, ExitInv, InLoop, Running
  <2> QED
        BY <2>2, <2>3 DEF ConsoleInv
<1>2. QED
      BY <1>1, ConsoleInvStep, PTL DEF Spec

\* The variables of main keep their types, and a line is held exactly while it
\* is worked on (cli.cpp: main).
THEOREM TypeCorrect == Spec => []TypeOK
<1>1. ConsoleInv => TypeOK
      BY DEF ConsoleInv
<1>2. QED
      BY <1>1, ConsoleInvariant, PTL

\* The exit code does not lie: 0 means that every line was answered and the
\* session stopped (cli.cpp: main).
THEOREM ZeroMeansAnswered == Spec => []ZeroMeansDone
<1>1. ConsoleInv => ZeroMeansDone
      BY DEF ConsoleInv, TypeOK, LoopInv, ExitInv, InLoop, Running, ZeroMeansDone
<1>2. QED
      BY <1>1, ConsoleInvariant, PTL

---------------------------------------------------------------------------
(* RequestReply *)

\* Each step of the script and of main accepts a line, answers one, leaves the
\* loop, or is none of the script's business.
LEMMA RepliesStep == ConsoleInv /\ ConsoleInv' /\ [Next]_vars => [Replies!Next]_(Replies!replyVars)
<1> SUFFICES ASSUME ConsoleInv, ConsoleInv', [Next]_vars
             PROVE  [Replies!Next]_(Replies!replyVars)
    OBVIOUS
<1> DEFINE Waiting == (IF line = NoLine THEN <<>> ELSE <<line>>) \o input
<1>1. input \in Seq(Lines) /\ line \in Lines \cup {NoLine} /\ NoLine \notin Lines
      BY DEF ConsoleInv, TypeOK, NoLine, Lines
<1>2. /\ line = NoLine => Waiting = input
      /\ line # NoLine => Waiting # <<>> /\ Tail(Waiting) = input
  <2>1. <<>> \o input = input
        BY <1>1, ConcatEmptySeq
  <2>2. line # NoLine => Waiting # <<>> /\ Tail(Waiting) = input
        BY <1>1, BeforeQueue
  <2> QED
        BY <2>1, <2>2
<1>3. line' = NoLine => Waiting' = input'
  <2>1. input' \in Seq(Lines)
        BY DEF ConsoleInv, TypeOK
  <2> QED
        BY <2>1, ConcatEmptySeq
<1>4. ASSUME InLoop, InLoop', line # NoLine, line' = NoLine, input' = input
      PROVE  Replies!Next
  <2>1. Waiting # <<>> /\ Waiting' = Tail(Waiting)
        BY <1>2, <1>3, <1>4
  <2>2. Replies!Reply
        BY <2>1, <1>4 DEF Replies!Reply
  <2> QED
        BY <2>2 DEF Replies!Next
<1>5. ASSUME InLoop, ~InLoop', line' = NoLine, input' = <<>>
      PROVE  Replies!Next
  <2>1. Replies!Close
        BY <1>3, <1>5 DEF Replies!Close
  <2> QED
        BY <2>1 DEF Replies!Next
<1>6. ASSUME InLoop' = InLoop, UNCHANGED <<line, input>>
      PROVE  UNCHANGED Replies!replyVars
      BY <1>6 DEF Replies!replyVars
<1>7. CASE CloseInput
      BY <1>6, <1>7 DEF CloseInput, InLoop
<1>8. ASSUME NEW some \in Lines, Write(some)
      PROVE  Replies!Next
  <2>1. Waiting' = Append(Waiting, some)
    <3>1. CASE line = NoLine
          BY <1>2, <1>3, <1>8, <3>1 DEF Write
    <3>2. CASE line # NoLine
          BY <1>1, <1>8, <3>2, BeforeQueue DEF Write
    <3> QED
          BY <3>1, <3>2
  <2>2. Replies!Accept(some)
        BY <2>1, <1>8 DEF Replies!Accept, Write, InLoop
  <2> QED
        BY <2>2 DEF Replies!Next
<1>9. CASE Load
      BY <1>6, <1>9 DEF Load, InLoop
<1>10. CASE LoadFails \/ ReplyThrows
      BY <1>5, <1>10 DEF LoadFails, ReplyThrows, Return, InLoop
<1>11. CASE ReadLine
  <2>1. line = NoLine /\ line' # NoLine
        BY <1>11, <1>1, TakeOldest DEF ReadLine, ConsoleInv, TypeOK
  <2>2. input = <<line'>> \o input'
        BY <1>11, <1>1, TakeOldest DEF ReadLine
  <2>3. Waiting' = Waiting
        BY <1>2, <2>1, <2>2
  <2> QED
        BY <2>3, <1>11 DEF ReadLine, InLoop, Replies!replyVars
<1>12. CASE RefuseLine \/ Execute \/ EndCall
      BY <1>4, <1>12 DEF RefuseLine, Execute, EndCall, Reply, InLoop, ConsoleInv, TypeOK
<1>13. CASE BeginCall
      BY <1>6, <1>13 DEF BeginCall, InLoop
<1>14. CASE EndOfInput
      BY <1>5, <1>14 DEF EndOfInput, InLoop, ConsoleInv, TypeOK
<1>15. CASE FinalStop
  <2>1. ~InLoop /\ ~InLoop' /\ input = <<>> /\ input' = <<>> /\ line = NoLine /\ line' = NoLine
        BY <1>15 DEF FinalStop, Return, InLoop, ConsoleInv, TypeOK, LoopInv
  <2>2. InLoop' = InLoop
        BY <2>1 DEF InLoop
  <2> QED
        BY <1>6, <2>1, <2>2
<1>16. CASE DestroySdk
      BY <1>6, <1>16 DEF DestroySdk, Exited, InLoop
<1>17. CASE UNCHANGED vars
      BY <1>6, <1>17 DEF vars, InLoop
<1> QED
      BY <1>7, <1>8, <1>9, <1>10, <1>11, <1>12, <1>13, <1>14, <1>15, <1>16, <1>17
      DEF Next, Script, Main

\* Every line the script wrote is answered once and in order, until main leaves
\* its loop: the console implements RequestReply (cli.cpp: main).
THEOREM RepliesAreKept == Spec => Replies!Spec
<1>1. Init => Replies!Init
  <2>1. <<>> \o <<>> = <<>>
        BY ConcatEmptySeq, EmptySeq
  <2> QED
        BY <2>1 DEF Init, Replies!Init, InLoop, NoLine
<1>2. QED
      BY <1>1, RepliesStep, ConsoleInvariant, PTL DEF Spec, Replies!Spec
=============================================================================
