------------------------------- MODULE SafetyCore -------------------------------
(***************************************************************************)
(* The safety core of a node: the safety monitor (Asil) and application     *)
(* threads that report errors (ErrorHandler) and emergencies                *)
(* (EmergencyHandler).  Each of them may end in enter_safe_state, which     *)
(* stops only the thread that calls it: the others run on.                  *)
(***************************************************************************)
EXTENDS ErrorHandler, EmergencyHandler

CONSTANT
    CheckpointValues  \* expected values callers register: 0 and others

ASSUME CheckpointAssumption == CheckpointValues \subseteq Nat

vars == <<asilVars, errorVars, emergencyVars>>

Init == AsilInit /\ ErrorInit /\ EmergencyInit

-----------------------------------------------------------------------------
MonitorStep ==
    safety_monitor_task /\ UNCHANGED <<errorVars, emergencyVars>>

SafeStateStep(t) ==
    enter_safe_state(t) /\ UNCHANGED <<errorVars, emergencyVars>>

ErrorStep(t) ==
    /\ \/ RunErrorRecovery(t)
       \/ ErrorRecovered(t)
       \/ ErrorNotRecovered(t)
    /\ UNCHANGED emergencyVars

EmergencyStep(t) ==
    /\ \/ LockEmergency(t)
       \/ TryEmergencyRecovery(t)
       \/ EmergencyBackoff(t)
       \/ ClearEmergency(t)
    /\ UNCHANGED errorVars

CheckpointStep(t) ==
    (StoreExpected(t) \/ CountCheckpoint(t)) /\ UNCHANGED <<errorVars, emergencyVars>>

ReloadStep(t) == LoadCountAgain(t) /\ UNCHANGED <<errorVars, emergencyVars>>

\* The calls an idle thread may make.
Call(t) ==
    \/ /\ \E e \in ErrorTypes : handle_error(t, e) \/ notify_error_recovery(t, e)
       /\ UNCHANGED emergencyVars
    \/ /\ \E type \in EventTypes : handle_emergency_event(t, type)
       /\ UNCHANGED errorVars
    \/ /\ \/ log_safety_event(t)
          \/ \E v \in CheckpointValues : register_safety_checkpoint(t, v)
       /\ UNCHANGED <<errorVars, emergencyVars>>

\* Every thread sleeps in the loop at the end of enter_safe_state.
AllStopped ==
    /\ \A t \in AllThreads : pc[t] = "stopped"
    /\ UNCHANGED vars

Next ==
    \/ MonitorStep
    \/ \E t \in AllThreads : SafeStateStep(t)
    \/ \E t \in Threads : \/ ErrorStep(t) \/ EmergencyStep(t) \/ Call(t)
                         \/ CheckpointStep(t) \/ ReloadStep(t)
    \/ AllStopped

\* The scheduler runs every thread that is ready, and k_mutex_unlock hands the
\* mutex to a waiting thread: no waiter is passed over for ever.
Fairness ==
    /\ WF_vars(MonitorStep)
    /\ \A t \in AllThreads : WF_vars(SafeStateStep(t))
    /\ \A t \in Threads : /\ WF_vars(ErrorStep(t) \/ CheckpointStep(t))
                         /\ SF_vars(EmergencyStep(t))

Spec == Init /\ [][Next]_vars
FairSpec == Spec /\ Fairness

-----------------------------------------------------------------------------
(* Types.                                                                   *)

Labels == {"idle", "stopped", "em_lock"} \cup EnteringSafeState
              \cup ErrorSteps \cup EmergencySteps \cup CheckpointSteps

\* The monitor and the application threads stay in their own code.
PcTypeOK ==
    /\ pc \in [AllThreads -> Labels \cup MonitorSteps]
    /\ pc[Monitor] \in MonitorSteps \cup EnteringSafeState \cup {"stopped"}
    /\ \A t \in Threads : pc[t] \in Labels

\* Every variable holds a value of the C type that declares it, every thread is
\* in code it can be in, and an emergency is retried within its limit.
TypeOK ==
    /\ PcTypeOK /\ AsilTypeOK /\ ErrorTypeOK /\ EmergencyTypeOK
    /\ \A t \in Threads : TurnsWithinLimit(t)

-----------------------------------------------------------------------------
(* The safety state, which no lock protects.                                *)

PastMark == {"disable", "notify", "log", "stopped"}
PastCut == {"notify", "log", "stopped"}

\* RECOVERY is published only while the monitor is inside attempt_recovery or
\* about to leave it for the safe state: no other write leaves it behind.
RecoveryOnlyWhileRecovering ==
    current_state = "RECOVERY" => pc[Monitor] \in Recovering \cup {"mark"}

\* Once the monitor itself has entered the safe state, SAFE_STOP is final:
\* it is the only thread that writes anything else.
MonitorStopIsFinal ==
    pc[Monitor] \in PastMark => current_state = "SAFE_STOP"

\* SAFE_STOP is lost in one way only: the monitor is at a write of its recovery.
SafeStopLostOnlyToRecovery ==
    [][current_state = "SAFE_STOP" /\ current_state' # "SAFE_STOP"
          => pc[Monitor] \in {"attempt", "recovered"}]_vars

\* The VCU is told of a safe state only after the actuators are off, and they
\* are off from the first thread that passed disable_critical_outputs on.
OutputsCutBeforeNotice ==
    /\ vcu_notified => ~outputs_on
    /\ outputs_on <=> \A t \in AllThreads : pc[t] \notin PastCut

-----------------------------------------------------------------------------
(* The monitor's recovery.                                                  *)

\* The retry budget and the growing back-off of attempt_recovery never come
\* into play: an attempt that fails ends in the safe state, one that succeeds
\* clears the count, so the FAIL_SAFE branch is dead.
NeverASecondAttempt ==
    /\ pc[Monitor] \in MonitorSteps \ {"recovered"} => recovery_attempts = 0
    /\ recovery_attempts <= 1
    /\ stats.failed_recoveries = 0

\* Every violation counted is recovered, in recovery, or stopped the monitor.
ViolationsAccounted ==
    stats.detected = stats.successful_recoveries
        + (IF pc[Monitor] \in {"attempt", "stopped"} \cup Recovering \cup EnteringSafeState
           THEN 1 ELSE 0)

\* The state, the count of attempts and the statistics tell one story of the
\* recovery, of which every thread reads a part.
RecoveryAccounted ==
    RecoveryOnlyWhileRecovering /\ NeverASecondAttempt /\ ViolationsAccounted

\* The count of checkpoints is a uint8_t: enough registrations that race, of
\* three threads at least, carry it beyond the table and round to 0.
CountWraps == num_checkpoints' = 0

\* A registered value that does not match, and that no registration under way
\* can still overwrite or count out of use, is there for good, and no recovery
\* of a control-flow violation succeeds any more: resetting the checkpoints to
\* 0 cannot make them equal to it.
ControlFlowNeverRecovers ==
    [][\A i \in 1..MaxCheckpoints : Settled(i) =>
          /\ Settled(i)' \/ CountWraps
          /\ ~(pc[Monitor] = "backoff" /\ error_type = ControlFlow
                 /\ pc'[Monitor] = "recovered")]_vars

\* So one settled value other than 0 stops the monitor for good.  A value that
\* is stored while another thread registers may be overwritten and lost.
NonzeroCheckpointStopsMonitor ==
    ~VerifyPasses ~> (pc[Monitor] = "stopped" \/ num_checkpoints = 0)

-----------------------------------------------------------------------------
(* Errors and their budget.                                                 *)

\* The attempts charged to an error type never exceed MAX_RETRIES, whatever
\* calls, failures and confirmations interleave.
RetriesWithinBudget == \A e \in Counted : error_counts[e] <= MaxRetries

\* The budget of a recoverable error that is in use is made of the calls in
\* flight and of the failures since the last reset, which cost two units each.
InFlight(e) == {t \in Threads : pc[t] \in ErrorSteps /\ handled[t] = e}
BudgetAccounted ==
    \A e \in Recoverable \cap Counted :
        error_counts[e] <= Cardinality(InFlight(e)) + 2 * failures[e]

\* So an error that is reported often but never fails keeps its budget.
BudgetRespected == RetriesWithinBudget /\ BudgetAccounted

\* An error for which there is a recovery stops a thread only when a recovery
\* of that type has failed since the last one that succeeded: calls that
\* merely overlap do not use the budget up (for at most MAX_RETRIES threads).
EscalationNeedsFailure ==
    [][\A t \in Threads :
          pc[t] \in {"idle", "err_recheck"} /\ pc'[t] = "mark"
            /\ handled'[t] \in Recoverable \cap Counted
             => failures'[handled'[t]] > 0]_vars

-----------------------------------------------------------------------------
(* Emergencies.                                                             *)

\* Exactly the thread inside handle_emergency_event owns the mutex: no two
\* threads are inside, and no path into the safe state keeps it.
EmergencyExclusive ==
    \A t \in Threads : emergency_mutex = t <=> pc[t] \in EmergencySteps

\* The published state and the count agree, and an emergency that nobody
\* handles any more but is still ACTIVE has stopped a thread.
EmergencyStateAgrees ==
    /\ emergency_state = "NORMAL" <=> emergency_count = 0
    /\ emergency_mutex # NoThread => emergency_state = "ACTIVE"
    /\ emergency_state = "ACTIVE" /\ emergency_mutex = NoThread
          => \E t \in Threads : pc[t] \in EnteringSafeState \cup {"stopped"}

\* The mutex and what is published of an emergency go together.
EmergencyConsistent == EmergencyExclusive /\ EmergencyStateAgrees

\* Every emergency reported is recovered or stops the thread that reported it.
EmergencyConcludes ==
    \A t \in Threads : pc[t] = "em_lock" ~> pc[t] \in {"idle", "stopped"}

-----------------------------------------------------------------------------
(* enter_safe_state as every caller relies on it.                           *)

Halting == INSTANCE SafeStop WITH
    Threads <- AllThreads,
    stopping <- {t \in AllThreads : pc[t] \in EnteringSafeState},
    stopped <- {t \in AllThreads : pc[t] = "stopped"}

\* A thread that calls enter_safe_state is halted for good, with the outputs
\* off first and never on again.
ImplementsSafeStop == Halting!Spec
HaltingIsLive == Halting!Fairness
=============================================================================
