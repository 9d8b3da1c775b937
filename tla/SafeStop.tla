-------------------------------- MODULE SafeStop --------------------------------
(***************************************************************************)
(* What enter_safe_state promises, without how: a thread that begins to     *)
(* stop is halted for good, the outputs are off before the first thread     *)
(* halts, and they never come back.                                         *)
(***************************************************************************)
CONSTANT Threads

VARIABLES
    outputs_on,  \* the actuators are powered
    stopping,    \* threads inside enter_safe_state
    stopped      \* threads halted in it

vars == <<outputs_on, stopping, stopped>>

Init ==
    /\ outputs_on = TRUE
    /\ stopping = {}
    /\ stopped = {}

Begin(t) ==
    /\ t \notin stopping \cup stopped
    /\ stopping' = stopping \cup {t}
    /\ UNCHANGED <<outputs_on, stopped>>

CutOutputs ==
    /\ stopping # {}
    /\ outputs_on' = FALSE
    /\ UNCHANGED <<stopping, stopped>>

Halt(t) ==
    /\ t \in stopping
    /\ ~outputs_on
    /\ stopping' = stopping \ {t}
    /\ stopped' = stopped \cup {t}
    /\ UNCHANGED outputs_on

Next == CutOutputs \/ \E t \in Threads : Begin(t) \/ Halt(t)

Fairness == WF_vars(CutOutputs) /\ \A t \in Threads : WF_vars(Halt(t))

Spec == Init /\ [][Next]_vars
FairSpec == Spec /\ Fairness
=============================================================================
