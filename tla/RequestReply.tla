---------------------------- MODULE RequestReply ----------------------------
(***************************************************************************)
(* What the workbench promises its user: accepted requests are answered    *)
(* one by one, in the order they were made, none lost and none answered    *)
(* twice, until the window closes.                                         *)
(***************************************************************************)
EXTENDS Sequences

CONSTANT Requests

VARIABLES outstanding,  \* accepted requests without an answer, oldest first
          open          \* the window is there to show answers

replyVars == <<outstanding, open>>

Init == outstanding = <<>> /\ open = TRUE

Accept(r) == open /\ outstanding' = Append(outstanding, r) /\ UNCHANGED open

Reply == open /\ outstanding # <<>> /\ outstanding' = Tail(outstanding) /\ UNCHANGED open

\* The answer to one request makes the program issue the next by itself.
ReplyAndAccept(r) ==
    /\ open /\ outstanding # <<>>
    /\ outstanding' = Append(Tail(outstanding), r)
    /\ UNCHANGED open

Close == open /\ open' = FALSE /\ outstanding' = <<>>

Next == Reply \/ Close \/ \E r \in Requests : Accept(r) \/ ReplyAndAccept(r)

Answer == Reply \/ \E r \in Requests : ReplyAndAccept(r)

Spec == Init /\ [][Next]_replyVars

\* While requests wait, answers keep coming or the window closes.
FairSpec == Spec /\ WF_replyVars(Answer \/ (outstanding # <<>> /\ Close))
=============================================================================
