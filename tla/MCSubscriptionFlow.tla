-------------------------- MODULE MCSubscriptionFlow --------------------------
(* Small instances of SubscriptionFlow for TLC. *)
EXTENDS SubscriptionFlow, TLC

CONSTANTS n1, n2, ios, web

OneComponent  == [n \in Natures |-> ios]
TwoComponents == [n \in Natures |-> IF n = n1 THEN ios ELSE web]
==============================================================================
