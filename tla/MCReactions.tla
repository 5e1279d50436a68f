----------------------------- MODULE MCReactions ------------------------------
(* Two parts of the service that share nothing, in one run: a behaviour is     *)
(* about the alert responders or about the chats of the administration page.   *)
EXTENDS AlertReactions, AdminCodex

VARIABLE part   \* the part of this behaviour

Init ==
    /\ part \in {"alerts", "chats"}
    /\ InitAlerts /\ InitChats
    /\ part = "chats" => kind = "payment"

(* Bound: three alerts; for the dashboard a fourth, the rerun after a complete   *)
(* run.                                                                      *)
FewPosts == kind # "dashboard" => posted' <= 3

Next ==
    /\ UNCHANGED part
    /\ \/ part = "alerts" /\ NextAlerts /\ FewPosts /\ UNCHANGED chatVars
       \/ part = "chats" /\ NextChats /\ UNCHANGED alertVars

Spec == Init /\ [][Next]_<<part, alertVars, chatVars>>
=============================================================================
