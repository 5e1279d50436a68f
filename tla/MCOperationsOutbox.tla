-------------------------- MODULE MCOperationsOutbox --------------------------
(* Small instances of OperationsOutbox: each behaviour has a few sources. *)
EXTENDS OperationsOutbox

SomeMixes == {{"cron", "failure"}, {"journal"}, {"retry", "failure"}, {"children", "failure"},
              {"usage", "service"}, {"crontab", "service"}}
SomeNoise == {2}
=============================================================================
