----------------------------- MODULE MCTaskMonitor -----------------------------
(* Small instances of TaskMonitor for TLC: one critical task and one that is *)
(* not, in a table of two.                                                   *)
EXTENDS TaskMonitor

Brake == [name |-> "brake", critical |-> TRUE, redundant |-> TRUE, min_stack |-> 0]
Logger == [name |-> "logger", critical |-> FALSE, redundant |-> FALSE, min_stack |-> 2]
TwoConfigs == {Brake, Logger}
=============================================================================
