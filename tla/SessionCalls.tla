---------------------------- MODULE SessionCalls ----------------------------
(***************************************************************************)
(* An Sdk object as its callers see it: the calls they make one at a time, *)
(* how each may end, and what is then known of the session.  HostSession   *)
(* implements it call by call; Workbench and Console are built on it.      *)
(***************************************************************************)
VARIABLE session

Idle == {"unloaded", "stopped", "started", "unclean"}   \* unclean: the last stop failed
Calls == {"starting", "stopping", "ending"}
States == Idle \cup Calls \cup {"released"}

Init == session = "unloaded"

Load == session = "unloaded" /\ session' = "stopped"

\* A start is accepted over some of what a failed stop leaves behind.
Start == session \in {"stopped", "unclean"} /\ session' = "starting"

StartReturns == session = "starting" /\ session' \in {"started", "stopped", "unclean"}

Stop == session \in Idle \ {"unloaded"} /\ session' = "stopping"

StopReturns == session = "stopping" /\ session' \in {"stopped", "unclean"}

\* The destructor: at once for an object that never loaded.
Destroy ==
    \/ session = "unloaded" /\ session' = "released"
    \/ session \in Idle \ {"unloaded"} /\ session' = "ending"

Release == session = "ending" /\ session' = "released"

\* The process ends and is started again.
NewProcess == session' = "unloaded"

Next ==
    \/ Load \/ Start \/ StartReturns \/ Stop \/ StopReturns
    \/ Destroy \/ Release \/ NewProcess

Spec == Init /\ [][Next]_session

\* Every call comes back, the destructor too.
FairSpec ==
    /\ Spec
    /\ WF_session(StartReturns) /\ WF_session(StopReturns) /\ WF_session(Release)
=============================================================================
