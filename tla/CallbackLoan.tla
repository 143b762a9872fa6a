---------------------------- MODULE CallbackLoan ----------------------------
(***************************************************************************)
(* What the host promises the SDK, whatever the order in which calls       *)
(* succeed or fail.  The host lends three things: its log callback, its    *)
(* keystore callbacks and, on top of them, an open business store.  While  *)
(* the keystore or the store is lent, the secrets behind them (profile,    *)
(* lock, vault key) do not change; the host object goes away only when     *)
(* nothing but the log callback is left to withdraw (SDK_INTEGRATION.md,   *)
(* sovkit.h: sovkit_register_keystore, sovkit_shutdown).                   *)
(***************************************************************************)
CONSTANTS Secrets,   \* what the host may hold for a session
          Nothing    \* it holds nothing

VARIABLES held,      \* the secrets the host holds
          lent,      \* what the SDK has been given
          alive      \* the host object exists

loanVars == <<held, lent, alive>>

Init == held = Nothing /\ lent = {} /\ alive = TRUE

\* The store is lent only on top of the keystore.
Lend(item) ==
    /\ alive
    /\ item = "store" => "keystore" \in lent
    /\ lent' = lent \cup {item}
    /\ UNCHANGED <<held, alive>>

\* The keystore is withdrawn only after the store.
Recall(item) ==
    /\ alive
    /\ item = "keystore" => "store" \notin lent
    /\ lent' = lent \ {item}
    /\ UNCHANGED <<held, alive>>

\* The secrets change only when nothing that needs them is lent.
ChangeSecrets ==
    /\ alive
    /\ lent \cap {"keystore", "store"} = {}
    /\ held' \in Secrets
    /\ UNCHANGED <<lent, alive>>

Destroy ==
    /\ alive
    /\ lent \subseteq {"log"} /\ held = Nothing
    /\ lent' = {} /\ alive' = FALSE
    /\ UNCHANGED held

\* Process death ends every loan.
NewProcess == held' = Nothing /\ lent' = {} /\ alive' = TRUE

Next ==
    \/ \E item \in {"log", "keystore", "store"} : Lend(item) \/ Recall(item)
    \/ ChangeSecrets \/ Destroy \/ NewProcess

Spec == Init /\ [][Next]_loanVars
=============================================================================
