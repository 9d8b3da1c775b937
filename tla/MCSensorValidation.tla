-------------------------- MODULE MCSensorValidation --------------------------
(* Small instances of SensorValidation for TLC. *)
EXTENDS SensorValidation

Triples == {-8, -4, 0, 4, 8}
===============================================================================
