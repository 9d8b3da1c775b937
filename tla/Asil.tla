--------------------------------- MODULE Asil ---------------------------------
(***************************************************************************)
(* The ASIL-B safety core of src/common/safety/asil.c: the monitor thread   *)
(* with its recovery path, the safety event queue, and enter_safe_state,    *)
(* which any thread of the node may call and which never returns.           *)
(*                                                                          *)
(* safety_ctx.current_state is written by the monitor and by every thread   *)
(* that enters the safe state, and the table of checkpoints by every thread *)
(* that registers one, under no lock: each access is a step of its own.     *)
(* The module gives the actions; SafetyCore composes them with the two      *)
(* handlers that call enter_safe_state.                                     *)
(***************************************************************************)
EXTENDS Naturals, Sequences, FiniteSets

CONSTANTS
    Threads,              \* application threads: CAN, MQTT, main, ...
    Monitor,              \* the thread running safety_monitor_task
    MaxRecoveryAttempts,  \* MAX_RECOVERY_ATTEMPTS
    MaxCheckpoints,       \* MAX_CHECKPOINTS
    LogCapacity,          \* MAX_EVENT_LOG_SIZE
    MaxFaults             \* bound: violations counted that need not stop the monitor

ASSUME MonitorAssumption == Monitor \notin Threads
ASSUME BoundsAssumption ==
    /\ MaxRecoveryAttempts \in Nat \ {0, 1}
    /\ MaxCheckpoints \in Nat
    /\ LogCapacity \in Nat \ {0}
    /\ MaxFaults \in Nat

UINT8_MAX == 255

AllThreads == Threads \cup {Monitor}

VARIABLES
    pc,                \* where each thread is
    current_state,     \* safety_ctx.current_state
    recovery_attempts, \* safety_ctx.recovery_attempts
    error_type,        \* the argument of the monitor's attempt_recovery
    expected_sequence, \* the table, from 1
    num_checkpoints,   \* its count, a uint8_t
    registering,       \* registering[t]: the count and the value a call has in registers
    event_log,         \* the number of events in safety_event_queue
    stats,             \* safety_ctx.stats, see Stats
    outputs_on,        \* the actuators disable_critical_outputs switches off
    vcu_notified       \* notify_safe_state_entry has been sent

checkpointVars == <<expected_sequence, num_checkpoints, registering>>

asilVars == <<pc, current_state, recovery_attempts, error_type,
              checkpointVars, event_log, stats, outputs_on, vcu_notified>>

-----------------------------------------------------------------------------
\* SAFETY_STATE_DEGRADED is declared in asil.h and never assigned.
SafetyStates == {"NORMAL", "RECOVERY", "SAFE_STOP"}

ControlFlow == "CONTROL_FLOW_VIOLATION"
MemoryCorruption == "MEMORY_CORRUPTION"
RedundancyMismatch == "REDUNDANCY_MISMATCH"
MonitorErrors == {ControlFlow, MemoryCorruption, RedundancyMismatch}

\* detected is the sum of the three violation counters.
Stats == [detected : Nat, successful_recoveries : Nat, failed_recoveries : Nat]

\* Past the size check of register_safety_checkpoint.
CheckpointSteps == {"cp_store", "cp_count"}
NotRegistering == [slot |-> 0, value |-> 0]

\* The statements of enter_safe_state still ahead of a thread.
EnteringSafeState == {"mark", "disable", "notify", "log"}
Recovering == {"backoff", "recovered"}
MonitorSteps == {"check_flow", "check_memory", "check_redundancy", "sleep",
                 "attempt"} \cup Recovering

Goto(t, label) == pc' = [pc EXCEPT ![t] = label]

\* What a step of another component leaves alone: all of this module's state
\* but the program counters.
asilDataUnchanged ==
    UNCHANGED <<current_state, recovery_attempts, error_type, checkpointVars,
                event_log, stats, outputs_on, vcu_notified>>

AsilInit ==
    /\ pc = [t \in AllThreads |-> IF t = Monitor THEN "check_flow" ELSE "idle"]
    /\ current_state = "NORMAL"
    /\ recovery_attempts = 0
    /\ error_type = ControlFlow
    /\ expected_sequence = [i \in 1..MaxCheckpoints |-> 0]
    /\ num_checkpoints = 0
    /\ registering = [t \in Threads |-> NotRegistering]
    /\ event_log = 0
    /\ stats = [detected |-> 0, successful_recoveries |-> 0, failed_recoveries |-> 0]
    /\ outputs_on = TRUE
    /\ vcu_notified = FALSE

-----------------------------------------------------------------------------
(* register_safety_checkpoint: the check of the size, the store and the     *)
(* increment, under no lock.  The C code does not say when num_checkpoints   *)
(* is loaded for the second and the third, so it may be loaded again at any  *)
(* time in between or be kept in a register: two calls may use one entry,    *)
(* leave the count too low, or go past the end of the table.  What a store   *)
(* behind the table hits is not in this state.                              *)

register_safety_checkpoint(t, expected_value) ==
    /\ pc[t] = "idle"
    /\ num_checkpoints < MaxCheckpoints
    /\ registering' = [registering EXCEPT
          ![t] = [slot |-> num_checkpoints, value |-> expected_value]]
    /\ Goto(t, "cp_store")
    /\ UNCHANGED <<current_state, recovery_attempts, error_type, expected_sequence,
                   num_checkpoints, event_log, stats, outputs_on, vcu_notified>>

LoadCountAgain(t) ==
    /\ pc[t] \in CheckpointSteps
    /\ registering' = [registering EXCEPT ![t].slot = num_checkpoints]
    /\ UNCHANGED <<pc, current_state, recovery_attempts, error_type, expected_sequence,
                   num_checkpoints, event_log, stats, outputs_on, vcu_notified>>

StoreExpected(t) ==
    LET r == registering[t] IN
    /\ pc[t] = "cp_store"
    /\ expected_sequence' = [i \in 1..MaxCheckpoints |->
          IF i = r.slot + 1 THEN r.value ELSE expected_sequence[i]]
    /\ Goto(t, "cp_count")
    /\ UNCHANGED <<current_state, recovery_attempts, error_type, num_checkpoints,
                   registering, event_log, stats, outputs_on, vcu_notified>>

CountCheckpoint(t) ==
    /\ pc[t] = "cp_count"
    /\ num_checkpoints' = (registering[t].slot + 1) % (UINT8_MAX + 1)
    /\ registering' = [registering EXCEPT ![t] = NotRegistering]
    /\ Goto(t, "idle")
    /\ UNCHANGED <<current_state, recovery_attempts, error_type, expected_sequence,
                   event_log, stats, outputs_on, vcu_notified>>

-----------------------------------------------------------------------------
(* verify_control_flow compares the entries one by one with                 *)
(* control_flow_checkpoints, into which nothing but 0 is ever stored, while  *)
(* threads may be registering.  The count and the entry that one turn of the *)
(* loop looks at are taken to be read at one moment.                        *)

\* An entry in use holds a value other than 0.
Mismatch(i) ==
    /\ i \in 1..MaxCheckpoints
    /\ i <= num_checkpoints
    /\ expected_sequence[i] # 0

\* The call of t can still store into entry i or count it out of use again.
Touches(t, i) == pc[t] \in CheckpointSteps /\ registering[t].slot < i

\* A mismatch that no call under way can take back.
Settled(i) == Mismatch(i) /\ \A t \in Threads : ~Touches(t, i)

\* The loop meets a settled mismatch for certain.  Any other may be gone, or
\* not there yet, when its entry is looked at.
VerifyPasses == \A i \in 1..MaxCheckpoints : ~Settled(i)

\* A count beyond the table makes the loop compare what lies behind it.
VerifyFails ==
    \/ \E i \in 1..MaxCheckpoints : Mismatch(i)
    \/ num_checkpoints > MaxCheckpoints

-----------------------------------------------------------------------------
\* log_safety_event: a full queue is purged, then takes the new event.
LogEvent == event_log' = IF event_log < LogCapacity THEN event_log + 1 ELSE 1

log_safety_event(t) ==
    /\ pc[t] = "idle"
    /\ LogEvent
    /\ UNCHANGED <<pc, current_state, recovery_attempts, error_type,
                   checkpointVars, stats, outputs_on, vcu_notified>>

-----------------------------------------------------------------------------
(* enter_safe_state, statement by statement.                               *)

\* Mutant: the state of a running recovery is not overwritten.
MarkUnlessRecovering(t) ==
    /\ pc[t] = "mark"
    /\ current_state' = IF current_state = "RECOVERY" THEN "RECOVERY" ELSE "SAFE_STOP"
    /\ Goto(t, "disable")
    /\ UNCHANGED <<recovery_attempts, error_type, checkpointVars, event_log,
                   stats, outputs_on, vcu_notified>>

\* Mutant: the VCU is told before the outputs are off.
MarkThenNotify(t) ==
    /\ pc[t] = "mark"
    /\ current_state' = "SAFE_STOP"
    /\ vcu_notified' = TRUE
    /\ Goto(t, "disable")
    /\ UNCHANGED <<recovery_attempts, error_type, checkpointVars, event_log,
                   stats, outputs_on>>

MarkSafeStop(t) ==
    /\ pc[t] = "mark"
    /\ current_state' = "SAFE_STOP"
    /\ Goto(t, "disable")
    /\ UNCHANGED <<recovery_attempts, error_type, checkpointVars, event_log,
                   stats, outputs_on, vcu_notified>>

DisableCriticalOutputs(t) ==
    /\ pc[t] = "disable"
    /\ outputs_on' = FALSE
    /\ Goto(t, "notify")
    /\ UNCHANGED <<current_state, recovery_attempts, error_type,
                   checkpointVars, event_log, stats, vcu_notified>>

\* Mutant: a thread waits until it is the first to notify.
NotifyOnce(t) ==
    /\ pc[t] = "notify"
    /\ ~vcu_notified
    /\ vcu_notified' = TRUE
    /\ Goto(t, "log")
    /\ UNCHANGED <<current_state, recovery_attempts, error_type,
                   checkpointVars, event_log, stats, outputs_on>>

NotifySafeStateEntry(t) ==
    /\ pc[t] = "notify"
    /\ vcu_notified' = TRUE
    /\ Goto(t, "log")
    /\ UNCHANGED <<current_state, recovery_attempts, error_type,
                   checkpointVars, event_log, stats, outputs_on>>

\* Mutant: enter_safe_state returns to its caller.
LogAndReturn(t) ==
    /\ pc[t] = "log"
    /\ LogEvent
    /\ Goto(t, "idle")
    /\ UNCHANGED <<current_state, recovery_attempts, error_type,
                   checkpointVars, stats, outputs_on, vcu_notified>>

\* After the log the thread sleeps in a loop for ever: it is "stopped".
LogSafeState(t) ==
    /\ pc[t] = "log"
    /\ LogEvent
    /\ Goto(t, "stopped")
    /\ UNCHANGED <<current_state, recovery_attempts, error_type,
                   checkpointVars, stats, outputs_on, vcu_notified>>

enter_safe_state(t) ==
    \/ MarkSafeStop(t)
    \/ DisableCriticalOutputs(t)
    \/ NotifySafeStateEntry(t)
    \/ LogSafeState(t)

-----------------------------------------------------------------------------
(* safety_monitor_task.  A failed check counts the violation and calls     *)
(* attempt_recovery with the error; a passed one goes on to the next.  The *)
(* timing check only counts and calls handle_timing_violation, which the   *)
(* repository does not define: it leaves no trace in this state.           *)

NextCheck(e) == CASE e = ControlFlow        -> "check_memory"
                  [] e = MemoryCorruption   -> "check_redundancy"
                  [] e = RedundancyMismatch -> "sleep"

CheckFails(e) ==
    /\ stats' = [stats EXCEPT !.detected = @ + 1]
    /\ error_type' = e
    /\ Goto(Monitor, "attempt")

CheckPasses(e) ==
    /\ Goto(Monitor, NextCheck(e))
    /\ UNCHANGED <<stats, error_type>>

\* Mutant: the result of the check is ignored.
IgnoreControlFlow ==
    /\ pc[Monitor] = "check_flow"
    /\ event_log' = 0
    /\ CheckPasses(ControlFlow)
    /\ UNCHANGED <<current_state, recovery_attempts, checkpointVars,
                   outputs_on, vcu_notified>>

\* Violations that may come and go are counted MaxFaults times in all.
CheckControlFlow ==
    /\ pc[Monitor] = "check_flow"
    /\ event_log' = 0             \* process_safety_events drains the queue
    /\ \/ VerifyPasses /\ CheckPasses(ControlFlow)
       \/ /\ VerifyFails
          /\ VerifyPasses => stats.detected < MaxFaults
          /\ CheckFails(ControlFlow)
    /\ UNCHANGED <<current_state, recovery_attempts, checkpointVars,
                   outputs_on, vcu_notified>>

\* verify_memory_integrity and verify_redundant_variables are external: they
\* may fail at any call, MaxFaults times in all.
CheckExternal(label, e) ==
    /\ pc[Monitor] = label
    /\ \/ CheckPasses(e)
       \/ stats.detected < MaxFaults /\ CheckFails(e)
    /\ UNCHANGED <<current_state, recovery_attempts, checkpointVars,
                   event_log, outputs_on, vcu_notified>>

CheckMemoryIntegrity == CheckExternal("check_memory", MemoryCorruption)
CheckRedundantVariables == CheckExternal("check_redundancy", RedundancyMismatch)

\* Mutant: every period starts from NORMAL again.
SleepAndResetState ==
    /\ pc[Monitor] = "sleep"
    /\ current_state' = "NORMAL"
    /\ Goto(Monitor, "check_flow")
    /\ UNCHANGED <<recovery_attempts, error_type, checkpointVars, event_log,
                   stats, outputs_on, vcu_notified>>

SleepPeriod ==
    /\ pc[Monitor] = "sleep"
    /\ Goto(Monitor, "check_flow")
    /\ asilDataUnchanged

-----------------------------------------------------------------------------
(* attempt_recovery.  It sleeps between the write of RECOVERY and the       *)
(* recovery action; the write of NORMAL is a third step.  The caller turns *)
(* every result but SUCCESS into enter_safe_state.                          *)

StartRecovery ==
    /\ current_state' = "RECOVERY"
    /\ Goto(Monitor, "backoff")
    /\ UNCHANGED stats

FailSafe ==
    /\ stats' = [stats EXCEPT !.failed_recoveries = @ + 1]
    /\ Goto(Monitor, "mark")
    /\ UNCHANGED current_state

AttemptRecovery ==
    /\ pc[Monitor] = "attempt"
    /\ IF recovery_attempts >= MaxRecoveryAttempts THEN FailSafe ELSE StartRecovery
    /\ UNCHANGED <<recovery_attempts, error_type, checkpointVars, event_log,
                   outputs_on, vcu_notified>>

\* Mutant: a control-flow recovery is trusted without the second check.
SuccessUnverified(e) == TRUE

\* execute_recovery_action succeeds.  The control-flow case only resets the
\* checkpoints, which are 0 already, and verifies again; the restore functions
\* of the other two are external.
RecoverySuccess(e) == e = ControlFlow => VerifyPasses
RecoveryFailure(e) == e = ControlFlow => VerifyFails

ExecuteRecoveryAction ==
    /\ pc[Monitor] = "backoff"
    /\ recovery_attempts' = recovery_attempts + 1
    /\ \/ RecoverySuccess(error_type) /\ Goto(Monitor, "recovered")
       \/ RecoveryFailure(error_type) /\ Goto(Monitor, "mark")
    /\ UNCHANGED <<current_state, error_type, checkpointVars, event_log,
                   stats, outputs_on, vcu_notified>>

\* Mutant: the success is not counted.
FinishUncounted ==
    /\ pc[Monitor] = "recovered"
    /\ recovery_attempts' = 0
    /\ current_state' = "NORMAL"
    /\ Goto(Monitor, NextCheck(error_type))
    /\ UNCHANGED <<error_type, checkpointVars, event_log, stats, outputs_on,
                   vcu_notified>>

FinishRecovery ==
    /\ pc[Monitor] = "recovered"
    /\ stats' = [stats EXCEPT !.successful_recoveries = @ + 1]
    /\ recovery_attempts' = 0
    /\ current_state' = "NORMAL"
    /\ Goto(Monitor, NextCheck(error_type))
    /\ UNCHANGED <<error_type, checkpointVars, event_log, outputs_on,
                   vcu_notified>>

safety_monitor_task ==
    \/ CheckControlFlow
    \/ CheckMemoryIntegrity
    \/ CheckRedundantVariables
    \/ SleepPeriod
    \/ AttemptRecovery
    \/ ExecuteRecoveryAction
    \/ FinishRecovery

-----------------------------------------------------------------------------
CheckpointTypeOK ==
    /\ expected_sequence \in [1..MaxCheckpoints -> Nat]
    /\ num_checkpoints \in 0..UINT8_MAX
    /\ registering \in [Threads -> [slot : 0..UINT8_MAX, value : Nat]]

AsilTypeOK ==
    /\ current_state \in SafetyStates
    /\ recovery_attempts \in Nat
    /\ error_type \in MonitorErrors
    /\ CheckpointTypeOK
    /\ event_log \in 0..LogCapacity
    /\ stats \in Stats
    /\ outputs_on \in BOOLEAN
    /\ vcu_notified \in BOOLEAN
=============================================================================
