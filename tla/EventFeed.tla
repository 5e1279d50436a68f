------------------------------ MODULE EventFeed ------------------------------
(***************************************************************************)
(* What the operations log promises to those who read its channel: an      *)
(* event is recorded once, under its key, and never taken back; the        *)
(* channel shows the events in the order in which they were recorded,      *)
(* none left out; what is called delivered is shown.                       *)
(***************************************************************************)
EXTENDS Naturals, Sequences

CONSTANT Keys

VARIABLES log,      \* the keys of the recorded events, in their order
          shown,    \* the places of those the channel shows
          called    \* the places of those called delivered

Recorded == {log[i] : i \in DOMAIN log}

Init == log = <<>> /\ shown = {} /\ called = {}

Record(k) == /\ k \notin Recorded
             /\ log' = Append(log, k)
             /\ UNCHANGED <<shown, called>>

Show(n) == /\ 1 .. n \ shown # {}
           /\ shown' = 1 .. n
           /\ UNCHANGED <<log, called>>

Call == /\ called' \in SUBSET shown
        /\ called \subseteq called'
        /\ UNCHANGED <<log, shown>>

Next == \/ \E k \in Keys : Record(k)
        \/ \E n \in DOMAIN log : Show(n)
        \/ Call

Spec == Init /\ [][Next]_<<log, shown, called>>
=============================================================================
