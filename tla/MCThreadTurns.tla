---------------------------- MODULE MCThreadTurns ----------------------------
(* Small instances of ThreadTurns for TLC. *)
EXTENDS ThreadTurns, TLC

CONSTANTS a, b, c, t1, t2, s1

OneThread  == [m \in Requests |-> t1]
TwoThreads == [m \in Requests |-> IF m = c THEN t2 ELSE t1]
Symmetry   == Permutations(Requests)
==============================================================================
