----------------------------- MODULE MCJiraTasks ------------------------------
(* Bounds for JiraTasks.                                                     *)
EXTENDS JiraTasks
=============================================================================
