---------------------------- MODULE MCHeadlessRuns ----------------------------
(* Model values and bounds for HeadlessRuns.                                *)
EXTENDS HeadlessRuns

AllChains == {"finalizer", "planner", "digest", "audit"}
=============================================================================
