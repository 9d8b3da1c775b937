------------------------------- MODULE MCServices -------------------------------
(* Small instances of Services for TLC: one goal with a recovery and one without.   *)
(* Each table filled under no lock has one entry and two threads that fill it, which *)
(* is enough for both to take the entry and for the count to leave the table.       *)
EXTENDS Services

TwoGoals ==
    {[goal_id |-> 1, recovery |-> r, verify |-> TRUE, timeout_ms |-> 2, last_verified |-> 0] :
        r \in BOOLEAN}
=============================================================================
