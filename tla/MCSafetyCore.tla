------------------------------ MODULE MCSafetyCore ------------------------------
(* Small instances of SafetyCore for TLC. *)
EXTENDS SafetyCore, TLC

\* Application threads are interchangeable; the monitor is not one of them.
\* Sound for the runs that check no liveness.
ThreadSymmetry == Permutations(Threads)
=============================================================================
