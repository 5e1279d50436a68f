------------------------------ MODULE GuidedTurn ------------------------------
(***************************************************************************)
(* What an agent turn promises to the thread it belongs to: it starts once, *)
(* takes guidance only while it works, has one end that is never revised,   *)
(* and no more than the given number of turns call a provider at a time.    *)
(***************************************************************************)
EXTENDS Naturals, FiniteSets

CONSTANTS Turns, Guidance, Permits

VARIABLES
    status,     \* idle, working, or how the turn ended
    accepted,   \* the guidance the turn took
    calling     \* the turns that hold a place at the provider

Ended == {"answered", "failed", "cancelled"}

Init ==
    /\ status = [t \in Turns |-> "idle"]
    /\ accepted = [t \in Turns |-> {}]
    /\ calling = {}

Start(t) ==
    /\ status[t] = "idle"
    /\ status' = [status EXCEPT ![t] = "working"]
    /\ UNCHANGED <<accepted, calling>>

Say(t, g) ==
    /\ status[t] = "working"
    /\ \A u \in Turns : g \notin accepted[u]
    /\ accepted' = [accepted EXCEPT ![t] = @ \cup {g}]
    /\ UNCHANGED <<status, calling>>

Enter(t) ==
    /\ status[t] = "working"
    /\ t \notin calling
    /\ Cardinality(calling) < Permits
    /\ calling' = calling \cup {t}
    /\ UNCHANGED <<status, accepted>>

Leave(t) ==
    /\ t \in calling
    /\ calling' = calling \ {t}
    /\ UNCHANGED <<status, accepted>>

End(t, how) ==
    /\ status[t] = "working"
    /\ status' = [status EXCEPT ![t] = how]
    /\ calling' = calling \ {t}
    /\ UNCHANGED accepted

Next ==
    \E t \in Turns :
        \/ Start(t) \/ Enter(t) \/ Leave(t)
        \/ \E g \in Guidance : Say(t, g)
        \/ \E how \in Ended : End(t, how)

Spec == Init /\ [][Next]_<<status, accepted, calling>>
==============================================================================
