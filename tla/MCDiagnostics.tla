----------------------------- MODULE MCDiagnostics -----------------------------
(* A small instance of Diagnostics for TLC. *)
EXTENDS Diagnostics, TLC

\* Testers are interchangeable; no liveness is checked.
TesterSymmetry == Permutations(Testers)
===============================================================================
