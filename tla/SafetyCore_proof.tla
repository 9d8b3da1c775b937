---------------------------- MODULE SafetyCore_proof ----------------------------
(***************************************************************************)
(* Proofs about SafetyCore, for every set of application threads, every     *)
(* set of error, event and checkpoint values, and every value of the        *)
(* limits.                                                                  *)
(***************************************************************************)
EXTENDS SafetyCore, FiniteSetTheorems, TLAPS

LEMMA NextUint8 ==
  ASSUME NEW x \in 0..255
  PROVE  /\ (x + 1) % (UINT8_MAX + 1) \in 0..UINT8_MAX
         /\ (x + 1) % (UINT8_MAX + 1) \in {0, x + 1}
<1>1. CASE x = 255
  BY <1>1 DEF UINT8_MAX
<1>2. CASE x < 255
  <2>1. (x + 1) % 256 = x + 1
    BY <1>2
  <2> QED BY <1>2, <2>1 DEF UINT8_MAX
<1> QED BY <1>1, <1>2

LEMMA SameCheckpoints ==
  ASSUME CheckpointTypeOK, UNCHANGED checkpointVars PROVE CheckpointTypeOK'
  BY DEF CheckpointTypeOK, checkpointVars

\* The types without the limit of the emergency's turns, which rests on them.
CTypesOK == PcTypeOK /\ AsilTypeOK /\ ErrorTypeOK /\ EmergencyTypeOK

LEMMA InitTypeOK == Init => CTypesOK
<1> SUFFICES ASSUME Init PROVE CTypesOK
  OBVIOUS
<1>1. PcTypeOK
  BY MonitorAssumption DEF Init, AsilInit, PcTypeOK, AllThreads, Labels, MonitorSteps
<1>2. AsilTypeOK
  <2>1. CheckpointTypeOK
    BY DEF Init, AsilInit, NotRegistering, CheckpointTypeOK, UINT8_MAX
  <2>2. stats \in Stats
    BY DEF Init, AsilInit, Stats
  <2>3. event_log \in 0..LogCapacity
    BY BoundsAssumption DEF Init, AsilInit
  <2> QED BY <2>1, <2>2, <2>3 DEF Init, AsilInit, AsilTypeOK, SafetyStates, MonitorErrors
<1>3. ErrorTypeOK
  BY DEF Init, ErrorInit, ErrorTypeOK
<1>4. EmergencyTypeOK
  BY EmergencyAssumption DEF Init, EmergencyInit, EmergencyTypeOK, EventTypes
<1> QED BY <1>1, <1>2, <1>3, <1>4 DEF CTypesOK

\* A step of one thread that leads to a label of its own code keeps PcTypeOK.
LEMMA GotoTypeOK ==
  ASSUME PcTypeOK, NEW t \in AllThreads, NEW label, Goto(t, label),
         t = Monitor => label \in MonitorSteps \cup EnteringSafeState \cup {"stopped"},
         t \in Threads => label \in Labels
  PROVE  PcTypeOK'
  BY MonitorAssumption DEF PcTypeOK, Goto, AllThreads, Labels

LEMMA MonitorTypeOK == CTypesOK /\ MonitorStep => CTypesOK'
<1> SUFFICES ASSUME CTypesOK, MonitorStep PROVE CTypesOK'
  OBVIOUS
<1> USE DEF CTypesOK
<1>1. ErrorTypeOK' /\ EmergencyTypeOK'
  BY DEF MonitorStep, errorVars, emergencyVars, ErrorTypeOK, EmergencyTypeOK
<1>2. \A e \in MonitorErrors : NextCheck(e) \in MonitorSteps
  BY DEF MonitorErrors, MonitorSteps, NextCheck, ControlFlow, MemoryCorruption,
         RedundancyMismatch
<1>3. PcTypeOK'
  <2>1. PICK label \in MonitorSteps \cup {"mark"} : Goto(Monitor, label)
    BY <1>2 DEF MonitorStep, safety_monitor_task, CheckControlFlow, CheckMemoryIntegrity,
       CheckRedundantVariables, CheckExternal, CheckPasses, CheckFails, SleepPeriod,
       AttemptRecovery, FailSafe, StartRecovery, ExecuteRecoveryAction, FinishRecovery,
       AsilTypeOK, MonitorErrors, MonitorSteps, Recovering
  <2> QED BY <2>1, GotoTypeOK, MonitorAssumption DEF EnteringSafeState, AllThreads
<1>4. AsilTypeOK'
  <2> USE SameCheckpoints DEF AsilTypeOK, SafetyStates, Stats, MonitorErrors
  <2>1. CASE CheckControlFlow
    BY <2>1, BoundsAssumption DEF CheckControlFlow, CheckPasses, CheckFails
  <2>2. CASE CheckMemoryIntegrity \/ CheckRedundantVariables
    BY <2>2 DEF CheckMemoryIntegrity, CheckRedundantVariables, CheckExternal,
       CheckPasses, CheckFails
  <2>3. CASE SleepPeriod
    BY <2>3 DEF SleepPeriod, asilDataUnchanged
  <2>4. CASE AttemptRecovery
    BY <2>4 DEF AttemptRecovery, FailSafe, StartRecovery
  <2>5. CASE ExecuteRecoveryAction
    BY <2>5 DEF ExecuteRecoveryAction
  <2>6. CASE FinishRecovery
    BY <2>6 DEF FinishRecovery
  <2> QED BY <2>1, <2>2, <2>3, <2>4, <2>5, <2>6 DEF MonitorStep, safety_monitor_task
<1> QED BY <1>1, <1>3, <1>4

LEMMA SafeStateTypeOK ==
  ASSUME CTypesOK, NEW t \in AllThreads, SafeStateStep(t) PROVE CTypesOK'
<1> USE DEF CTypesOK
<1> USE DEF SafeStateStep, enter_safe_state, MarkSafeStop, DisableCriticalOutputs,
            NotifySafeStateEntry, LogSafeState
<1>1. ErrorTypeOK' /\ EmergencyTypeOK'
  BY DEF errorVars, emergencyVars, ErrorTypeOK, EmergencyTypeOK
<1>2. PcTypeOK'
  <2>1. PICK label \in EnteringSafeState \cup {"stopped"} : Goto(t, label)
    BY DEF EnteringSafeState
  <2> QED BY <2>1, GotoTypeOK DEF Labels
<1>3. AsilTypeOK'
  <2>1. CASE LogSafeState(t)
    BY <2>1, SameCheckpoints, BoundsAssumption DEF AsilTypeOK, LogEvent
  <2>2. CASE MarkSafeStop(t) \/ DisableCriticalOutputs(t) \/ NotifySafeStateEntry(t)
    BY <2>2, SameCheckpoints DEF AsilTypeOK, SafetyStates
  <2> QED BY <2>1, <2>2
<1> QED BY <1>1, <1>2, <1>3

LEMMA ErrorStepTypeOK ==
  ASSUME CTypesOK, NEW t \in Threads, ErrorStep(t) PROVE CTypesOK'
<1> USE DEF CTypesOK
<1> USE DEF ErrorStep, RunErrorRecovery, RecoveryOutcomes, ErrorRecovered, ErrorNotRecovered,
            should_attempt_recovery, WithCount, errorVars
<1>1. AsilTypeOK' /\ EmergencyTypeOK'
  BY SameCheckpoints DEF asilDataUnchanged, emergencyVars, AsilTypeOK, EmergencyTypeOK
<1>2. PcTypeOK'
  <2>1. PICK label \in {"idle", "mark"} \cup ErrorSteps : Goto(t, label)
    BY DEF ErrorSteps
  <2> QED BY <2>1, GotoTypeOK, MonitorAssumption DEF Labels, AllThreads, EnteringSafeState
<1>3. ErrorTypeOK'
  BY DEF ErrorTypeOK, ResetCount, WithCount, asilDataUnchanged
<1> QED BY <1>1, <1>2, <1>3

LEMMA EmergencyStepTypeOK ==
  ASSUME CTypesOK, NEW t \in Threads, EmergencyStep(t) PROVE CTypesOK'
<1> USE DEF CTypesOK
<1> USE DEF EmergencyStep, LockEmergency, TryEmergencyRecovery, HandlerResults, EmergencyBackoff,
            ClearEmergency, GiveUp
<1>1. AsilTypeOK' /\ ErrorTypeOK'
  BY SameCheckpoints DEF asilDataUnchanged, errorVars, AsilTypeOK, ErrorTypeOK
<1>2. PcTypeOK'
  <2>1. PICK label \in {"idle", "mark"} \cup EmergencySteps : Goto(t, label)
    BY DEF EmergencySteps
  <2> QED BY <2>1, GotoTypeOK, MonitorAssumption DEF Labels, AllThreads, EnteringSafeState
<1>3. EmergencyTypeOK'
  <2> USE EmergencyAssumption DEF EmergencyTypeOK, EventTypes, Unlock
  <2>1. CASE LockEmergency(t)
    BY <2>1
  <2>2. CASE TryEmergencyRecovery(t)
    BY <2>2
  <2>3. CASE EmergencyBackoff(t)
    BY <2>3
  <2>4. CASE ClearEmergency(t)
    BY <2>4
  <2> QED BY <2>1, <2>2, <2>3, <2>4
<1> QED BY <1>1, <1>2, <1>3

LEMMA CallTypeOK ==
  ASSUME CTypesOK, NEW t \in Threads, Call(t) PROVE CTypesOK'
<1> USE DEF CTypesOK
<1>1. ASSUME NEW e \in ErrorTypes, handle_error(t, e), UNCHANGED emergencyVars PROVE CTypesOK'
  <2> USE <1>1 DEF handle_error, should_attempt_recovery, WithCount
  <2>1. AsilTypeOK' /\ EmergencyTypeOK'
    BY SameCheckpoints DEF asilDataUnchanged, emergencyVars, AsilTypeOK, EmergencyTypeOK
  <2>2. PcTypeOK'
    BY GotoTypeOK, MonitorAssumption DEF Labels, AllThreads, EnteringSafeState, ErrorSteps
  <2>3. ErrorTypeOK'
    BY DEF ErrorTypeOK
  <2> QED BY <2>1, <2>2, <2>3
<1>2. ASSUME NEW e \in ErrorTypes, notify_error_recovery(t, e), UNCHANGED emergencyVars
      PROVE  CTypesOK'
  BY <1>2, SameCheckpoints DEF notify_error_recovery, ResetCount, WithCount, asilDataUnchanged, emergencyVars, PcTypeOK,
     AsilTypeOK, ErrorTypeOK, EmergencyTypeOK
<1>3. ASSUME NEW type \in EventTypes, handle_emergency_event(t, type), UNCHANGED errorVars
      PROVE  CTypesOK'
  <2> USE <1>3 DEF handle_emergency_event
  <2>1. AsilTypeOK' /\ ErrorTypeOK'
    BY SameCheckpoints DEF asilDataUnchanged, errorVars, AsilTypeOK, ErrorTypeOK
  <2>2. PcTypeOK'
    BY GotoTypeOK, MonitorAssumption DEF Labels, AllThreads
  <2>3. EmergencyTypeOK'
    BY DEF EmergencyTypeOK
  <2> QED BY <2>1, <2>2, <2>3
<1>4. ASSUME log_safety_event(t), UNCHANGED <<errorVars, emergencyVars>> PROVE CTypesOK'
  BY <1>4, SameCheckpoints, BoundsAssumption DEF log_safety_event, LogEvent, errorVars, emergencyVars,
     PcTypeOK, AsilTypeOK, ErrorTypeOK, EmergencyTypeOK
<1>5. ASSUME NEW v \in CheckpointValues, register_safety_checkpoint(t, v),
             UNCHANGED <<errorVars, emergencyVars>>
      PROVE  CTypesOK'
  <2> USE <1>5, CheckpointAssumption DEF register_safety_checkpoint
  <2>1. ErrorTypeOK' /\ EmergencyTypeOK'
    BY DEF errorVars, emergencyVars, ErrorTypeOK, EmergencyTypeOK
  <2>2. PcTypeOK'
    BY GotoTypeOK, MonitorAssumption DEF Labels, AllThreads, CheckpointSteps
  <2>3. CheckpointTypeOK'
    BY DEF AsilTypeOK, CheckpointTypeOK
  <2>4. AsilTypeOK'
    BY <2>3 DEF AsilTypeOK
  <2> QED BY <2>1, <2>2, <2>4
<1> QED BY <1>1, <1>2, <1>3, <1>4, <1>5 DEF Call

\* Two registrations may race, but the count stays a uint8_t and the table
\* keeps its entries.
LEMMA RegisterTypeOK ==
  ASSUME CTypesOK, NEW t \in Threads, CheckpointStep(t) \/ ReloadStep(t) PROVE CTypesOK'
<1> USE DEF CTypesOK
<1> USE DEF CheckpointStep, ReloadStep, StoreExpected, CountCheckpoint, LoadCountAgain
<1>1. ErrorTypeOK' /\ EmergencyTypeOK'
  BY DEF errorVars, emergencyVars, ErrorTypeOK, EmergencyTypeOK
<1>2. PcTypeOK'
  <2>1. CASE pc' = pc
    BY <2>1 DEF PcTypeOK
  <2>2. CASE \E label \in {"idle", "cp_count"} : Goto(t, label)
    BY <2>2, GotoTypeOK, MonitorAssumption DEF Labels, AllThreads, CheckpointSteps
  <2> QED BY <2>1, <2>2
<1>3. CheckpointTypeOK'
  <2> USE DEF AsilTypeOK, CheckpointTypeOK, UINT8_MAX
  <2>0. registering[t].value \in Nat /\ registering[t].slot \in 0..UINT8_MAX
    OBVIOUS
  <2>1. CASE StoreExpected(t)
    BY <2>0, <2>1
  <2>2. CASE CountCheckpoint(t)
    <3>1. registering[t].slot \in 0..255
      BY <2>0
    <3>2. num_checkpoints' \in 0..UINT8_MAX
      BY <2>2, <3>1, NextUint8
    <3>3. registering' \in [Threads -> [slot : 0..UINT8_MAX, value : Nat]]
      BY <2>2 DEF NotRegistering
    <3> QED BY <2>2, <3>2, <3>3
  <2>3. CASE LoadCountAgain(t)
    BY <2>3
  <2> QED BY <2>1, <2>2, <2>3
<1>4. AsilTypeOK'
  BY <1>3 DEF AsilTypeOK
<1> QED BY <1>1, <1>2, <1>4

LEMMA NextCTypesOK == CTypesOK /\ [Next]_vars => CTypesOK'
<1> SUFFICES ASSUME CTypesOK, [Next]_vars PROVE CTypesOK'
  OBVIOUS
<1>1. CASE UNCHANGED vars
  BY <1>1, SameCheckpoints DEF CTypesOK, PcTypeOK, AsilTypeOK, ErrorTypeOK, EmergencyTypeOK,
     vars, asilVars, errorVars, emergencyVars
<1> QED BY <1>1, MonitorTypeOK, SafeStateTypeOK, ErrorStepTypeOK, EmergencyStepTypeOK,
        CallTypeOK, RegisterTypeOK DEF Next, AllStopped

\* A step that neither enters nor leaves handle_emergency_event.
LEMMA OutsideTurns ==
  ASSUME CTypesOK, NEW t \in AllThreads, NEW label, Goto(t, label),
         retry_count' = retry_count, pc[t] \notin EmergencySteps, label \notin EmergencySteps,
         \A u \in Threads : TurnsWithinLimit(u)
  PROVE  \A u \in Threads : TurnsWithinLimit(u)'
  BY DEF CTypesOK, PcTypeOK, Goto, TurnsWithinLimit, EmergencySteps, AllThreads

LEMMA NextTurns ==
  ASSUME CTypesOK, \A u \in Threads : TurnsWithinLimit(u), [Next]_vars
  PROVE  \A u \in Threads : TurnsWithinLimit(u)'
<1>0. /\ pc \in [AllThreads -> Labels \cup MonitorSteps] /\ Threads \subseteq AllThreads
      /\ Monitor \in AllThreads /\ Monitor \notin Threads
  BY MonitorAssumption DEF CTypesOK, PcTypeOK, AllThreads
<1>1. CASE MonitorStep
  <2>1. UNCHANGED emergencyVars /\ \A u \in Threads : pc'[u] = pc[u]
    BY <1>0, <1>1 DEF MonitorStep, safety_monitor_task, CheckControlFlow,
       CheckMemoryIntegrity, CheckRedundantVariables, CheckExternal, CheckPasses,
       CheckFails, SleepPeriod, AttemptRecovery, FailSafe, StartRecovery,
       ExecuteRecoveryAction, FinishRecovery, Goto
  <2> QED BY <2>1 DEF TurnsWithinLimit, emergencyVars
<1>2. ASSUME NEW t \in AllThreads, SafeStateStep(t)
      PROVE  \A u \in Threads : TurnsWithinLimit(u)'
  BY <1>2, OutsideTurns DEF SafeStateStep, enter_safe_state, MarkSafeStop,
     DisableCriticalOutputs, NotifySafeStateEntry, LogSafeState, EmergencySteps, emergencyVars
<1>3. ASSUME NEW t \in Threads, ErrorStep(t)
      PROVE  \A u \in Threads : TurnsWithinLimit(u)'
  BY <1>0, <1>3, OutsideTurns DEF ErrorStep, RunErrorRecovery, RecoveryOutcomes,
     ErrorRecovered, ErrorNotRecovered, should_attempt_recovery, EmergencySteps, emergencyVars
<1>4. ASSUME NEW t \in Threads, EmergencyStep(t), NEW u \in Threads
      PROVE  TurnsWithinLimit(u)'
  <2> USE <1>0, <1>4, EmergencyAssumption DEF TurnsWithinLimit, EmergencySteps, Goto, CTypesOK,
          EmergencyTypeOK
  <2>1. CASE LockEmergency(t)
    BY <2>1 DEF LockEmergency
  <2>2. CASE TryEmergencyRecovery(t)
    BY <2>2 DEF TryEmergencyRecovery, HandlerResults, GiveUp, Unlock
  <2>3. CASE EmergencyBackoff(t)
    BY <2>3 DEF EmergencyBackoff, GiveUp, Unlock
  <2>4. CASE ClearEmergency(t)
    BY <2>4 DEF ClearEmergency, Unlock
  <2> QED BY <2>1, <2>2, <2>3, <2>4 DEF EmergencyStep
<1>5. ASSUME NEW t \in Threads, Call(t) \/ CheckpointStep(t) \/ ReloadStep(t)
      PROVE  \A u \in Threads : TurnsWithinLimit(u)'
  <2> USE DEF emergencyVars, EmergencySteps
  <2>1. CASE \E e \in ErrorTypes : handle_error(t, e) /\ UNCHANGED emergencyVars
    BY <1>0, <2>1, OutsideTurns DEF handle_error, should_attempt_recovery
  <2>2. CASE \E type \in EventTypes : handle_emergency_event(t, type)
    BY <1>0, <2>2, OutsideTurns DEF handle_emergency_event
  <2>3. CASE UNCHANGED <<pc, emergencyVars>>
    BY <2>3 DEF TurnsWithinLimit
  <2>4. CASE /\ CheckpointStep(t) \/ \E v \in CheckpointValues : register_safety_checkpoint(t, v)
             /\ UNCHANGED emergencyVars
    BY <1>0, <2>4, OutsideTurns DEF CheckpointStep, StoreExpected, CountCheckpoint,
       register_safety_checkpoint
  <2> QED BY <1>5, <2>1, <2>2, <2>3, <2>4 DEF Call, notify_error_recovery, log_safety_event,
          CheckpointStep, ReloadStep, LoadCountAgain
<1>6. CASE UNCHANGED vars
  BY <1>6 DEF vars, asilVars, emergencyVars, TurnsWithinLimit
<1> QED BY <1>1, <1>2, <1>3, <1>4, <1>5, <1>6 DEF Next, AllStopped

LEMMA NextTypeOK == TypeOK /\ [Next]_vars => TypeOK'
  BY NextCTypesOK, NextTurns DEF TypeOK, CTypesOK

\* Every variable keeps its type, every thread stays in its own code, and no
\* emergency is tried more often than MAX_EMERGENCY_RETRIES allows.
THEOREM TypeCorrect == Spec => []TypeOK
<1>1. Init => TypeOK
  BY InitTypeOK, EmergencyAssumption DEF TypeOK, CTypesOK, Init, AsilInit, EmergencyInit,
     TurnsWithinLimit, EmergencySteps, AllThreads
<1> QED BY <1>1, NextTypeOK, PTL DEF Spec

-----------------------------------------------------------------------------
(* The monitor.  MonitorInv is inductive: an application thread leaves the  *)
(* monitor's own variables alone and can only write SAFE_STOP over the      *)
(* state.                                                                   *)

MonitorInv ==
    /\ RecoveryOnlyWhileRecovering
    /\ MonitorStopIsFinal
    /\ NeverASecondAttempt
    /\ ViolationsAccounted

RegisterStep(t) == CheckpointStep(t) \/ ReloadStep(t)

ThreadStep(t) ==
    ErrorStep(t) \/ EmergencyStep(t) \/ Call(t) \/ RegisterStep(t) \/ SafeStateStep(t)

LEMMA ThreadLeavesMonitor ==
  ASSUME TypeOK, NEW t \in Threads, ThreadStep(t)
  PROVE  /\ pc'[Monitor] = pc[Monitor]
         /\ UNCHANGED <<recovery_attempts, error_type, stats>>
         /\ current_state' = current_state \/ current_state' = "SAFE_STOP"
<1>1. t # Monitor /\ t \in AllThreads /\ Monitor \in AllThreads
  BY MonitorAssumption DEF AllThreads
<1> USE <1>1 DEF TypeOK, PcTypeOK, Goto, asilDataUnchanged
<1>2. CASE ErrorStep(t)
  BY <1>2 DEF ErrorStep, RunErrorRecovery, RecoveryOutcomes, ErrorRecovered, ErrorNotRecovered,
     should_attempt_recovery
<1>3. CASE EmergencyStep(t)
  BY <1>3 DEF EmergencyStep, LockEmergency, TryEmergencyRecovery, HandlerResults, EmergencyBackoff,
     ClearEmergency, GiveUp
<1>4. CASE SafeStateStep(t)
  BY <1>4 DEF SafeStateStep, enter_safe_state, MarkSafeStop, DisableCriticalOutputs,
     NotifySafeStateEntry, LogSafeState
<1>5. CASE RegisterStep(t)
  BY <1>5 DEF RegisterStep, CheckpointStep, ReloadStep, StoreExpected, CountCheckpoint,
     LoadCountAgain
<1>6. CASE Call(t)
  BY <1>6 DEF Call, handle_error, notify_error_recovery, should_attempt_recovery,
     handle_emergency_event, log_safety_event, register_safety_checkpoint
<1> QED BY <1>2, <1>3, <1>4, <1>5, <1>6 DEF ThreadStep

LEMMA InitMonitorInv == Init => MonitorInv
  BY DEF Init, AsilInit, AllThreads, MonitorInv, RecoveryOnlyWhileRecovering,
     MonitorStopIsFinal, NeverASecondAttempt, ViolationsAccounted,
     MonitorSteps, Recovering, PastMark, EnteringSafeState

LEMMA ThreadMonitorInv ==
  ASSUME TypeOK, MonitorInv, NEW t \in Threads, ThreadStep(t) PROVE MonitorInv'
  BY ThreadLeavesMonitor DEF MonitorInv, RecoveryOnlyWhileRecovering, MonitorStopIsFinal,
     NeverASecondAttempt, ViolationsAccounted

LEMMA OwnMonitorInv ==
  ASSUME TypeOK, MonitorInv, MonitorStep \/ SafeStateStep(Monitor) PROVE MonitorInv'
<1>1. Monitor \in AllThreads /\ pc \in [AllThreads -> Labels \cup MonitorSteps]
  BY DEF AllThreads, TypeOK, PcTypeOK
<1>2. /\ recovery_attempts \in Nat /\ stats \in Stats
      /\ MaxRecoveryAttempts \in Nat \ {0, 1}
  BY BoundsAssumption DEF TypeOK, AsilTypeOK
<1> USE <1>1, <1>2 DEF MonitorInv, RecoveryOnlyWhileRecovering, MonitorStopIsFinal,
     NeverASecondAttempt, ViolationsAccounted, MonitorSteps,
     Recovering, EnteringSafeState, PastMark, Goto, Stats
<1>3. CASE SafeStateStep(Monitor)
  BY <1>3 DEF SafeStateStep, enter_safe_state, MarkSafeStop, DisableCriticalOutputs,
     NotifySafeStateEntry, LogSafeState
<1>4. CASE MonitorStep
  <2>1. CASE CheckControlFlow
    BY <2>1 DEF CheckControlFlow, CheckPasses, CheckFails, NextCheck
  <2>2. CASE CheckMemoryIntegrity \/ CheckRedundantVariables
    BY <2>2 DEF CheckMemoryIntegrity, CheckRedundantVariables, CheckExternal, CheckPasses,
       CheckFails, NextCheck, ControlFlow, MemoryCorruption, RedundancyMismatch
  <2>3. CASE SleepPeriod
    BY <2>3 DEF SleepPeriod, asilDataUnchanged
  <2>4. CASE AttemptRecovery
    BY <2>4 DEF AttemptRecovery, FailSafe, StartRecovery
  <2>5. CASE ExecuteRecoveryAction
    BY <2>5 DEF ExecuteRecoveryAction, RecoverySuccess, RecoveryFailure
  <2>6. CASE FinishRecovery
    <3>1. NextCheck(error_type) \in {"check_memory", "check_redundancy", "sleep"}
      BY DEF TypeOK, AsilTypeOK, MonitorErrors, NextCheck, ControlFlow, MemoryCorruption,
         RedundancyMismatch
    <3> QED BY <2>6, <3>1 DEF FinishRecovery
  <2> QED BY <1>4, <2>1, <2>2, <2>3, <2>4, <2>5, <2>6 DEF MonitorStep, safety_monitor_task
<1> QED BY <1>3, <1>4

LEMMA NextMonitorInv == TypeOK /\ MonitorInv /\ [Next]_vars => MonitorInv'
<1> SUFFICES ASSUME TypeOK, MonitorInv, [Next]_vars PROVE MonitorInv'
  OBVIOUS
<1>1. CASE UNCHANGED vars
  BY <1>1 DEF vars, asilVars, MonitorInv, RecoveryOnlyWhileRecovering, MonitorStopIsFinal,
     NeverASecondAttempt, ViolationsAccounted
<1> QED BY <1>1, ThreadMonitorInv, OwnMonitorInv DEF Next, AllStopped, ThreadStep, RegisterStep, AllThreads

LEMMA MonitorCorrect == Spec => []MonitorInv
  BY TypeCorrect, InitMonitorInv, NextMonitorInv, PTL DEF Spec

\* RECOVERY is seen only while the monitor is inside attempt_recovery.
THEOREM RecoveryStateCorrect == Spec => []RecoveryOnlyWhileRecovering
  BY MonitorCorrect, PTL DEF MonitorInv

\* The SAFE_STOP of the monitor is final, whatever the other threads do.
THEOREM MonitorStopCorrect == Spec => []MonitorStopIsFinal
  BY MonitorCorrect, PTL DEF MonitorInv

\* So the state, the attempts and the statistics agree at every moment.
THEOREM RecoveryCorrect == Spec => []RecoveryAccounted
  BY MonitorCorrect, PTL DEF MonitorInv, RecoveryAccounted

\* The retry budget of attempt_recovery is never used: its FAIL_SAFE is dead.
THEOREM RetryLoopIsDead == Spec => []NeverASecondAttempt
  BY MonitorCorrect, PTL DEF MonitorInv

\* No violation that was counted is lost by the recovery.
THEOREM ViolationsCorrect == Spec => []ViolationsAccounted
  BY MonitorCorrect, PTL DEF MonitorInv

-----------------------------------------------------------------------------
(* The control-flow check.                                                  *)

\* A step that begins no registration and leaves the table alone.
LEMMA SettledUntouched ==
  ASSUME NEW i \in 1..MaxCheckpoints, Settled(i), UNCHANGED checkpointVars,
         \A t \in Threads : pc'[t] \in CheckpointSteps => pc[t] \in CheckpointSteps
  PROVE  Settled(i)'
  BY DEF Settled, Mismatch, Touches, checkpointVars

LEMMA SettledKept ==
  ASSUME NEW i \in 1..MaxCheckpoints, Settled(i), i <= num_checkpoints',
         expected_sequence'[i] = expected_sequence[i],
         \A t \in Threads : pc'[t] \in CheckpointSteps => ~(registering'[t].slot < i)
  PROVE  Settled(i)'
  BY DEF Settled, Mismatch, Touches

\* A registration that comes, is under way or ends stays clear of a settled
\* mismatch, unless its count wraps.
LEMMA SettledOnRegister ==
  ASSUME TypeOK, NEW i \in 1..MaxCheckpoints, Settled(i), NEW t \in Threads,
         RegisterStep(t) \/ \E v \in CheckpointValues : register_safety_checkpoint(t, v)
  PROVE  Settled(i)' \/ CountWraps
<1>0. /\ pc \in [AllThreads -> Labels \cup MonitorSteps] /\ Threads \subseteq AllThreads
      /\ registering \in [Threads -> [slot : 0..UINT8_MAX, value : Nat]]
      /\ num_checkpoints \in Nat /\ i <= num_checkpoints /\ i \in Nat
      /\ expected_sequence \in [1..MaxCheckpoints -> Nat]
  BY BoundsAssumption DEF TypeOK, PcTypeOK, AsilTypeOK, CheckpointTypeOK, AllThreads, Settled,
     Mismatch, UINT8_MAX
<1>1. /\ \A u \in Threads : registering[u].slot \in 0..255
      /\ \A u \in Threads : pc[u] \in CheckpointSteps => ~(registering[u].slot < i)
  BY <1>0 DEF Settled, Touches, UINT8_MAX
<1>2. ~(num_checkpoints < i)
  BY <1>0
<1>3. ASSUME NEW v \in CheckpointValues, register_safety_checkpoint(t, v) PROVE Settled(i)'
  <2>1. \A u \in Threads : pc'[u] \in CheckpointSteps => ~(registering'[u].slot < i)
    BY <1>0, <1>1, <1>2, <1>3 DEF register_safety_checkpoint, Goto
  <2> QED BY <1>0, <1>3, <2>1, SettledKept DEF register_safety_checkpoint
<1>4. CASE LoadCountAgain(t)
  <2>1. \A u \in Threads : pc'[u] \in CheckpointSteps => ~(registering'[u].slot < i)
    BY <1>0, <1>1, <1>2, <1>4 DEF LoadCountAgain
  <2> QED BY <1>0, <1>4, <2>1, SettledKept DEF LoadCountAgain
<1>5. CASE StoreExpected(t)
  <2>1. registering[t].slot + 1 # i
    BY <1>0, <1>1, <1>5 DEF StoreExpected, CheckpointSteps
  <2>2. expected_sequence'[i] = expected_sequence[i]
    BY <1>5, <2>1 DEF StoreExpected
  <2>3. \A u \in Threads : pc'[u] \in CheckpointSteps => ~(registering'[u].slot < i)
    BY <1>0, <1>1, <1>5 DEF StoreExpected, Goto, CheckpointSteps
  <2> QED BY <1>0, <1>5, <2>2, <2>3, SettledKept DEF StoreExpected
<1>6. CASE CountCheckpoint(t)
  <2>1. ~(registering[t].slot < i) /\ registering[t].slot \in 0..255
    BY <1>1, <1>6 DEF CountCheckpoint, CheckpointSteps
  <2>2. num_checkpoints' = 0 \/ num_checkpoints' = registering[t].slot + 1
    BY <1>6, <2>1, NextUint8 DEF CountCheckpoint
  <2>3. CASE num_checkpoints' = registering[t].slot + 1
    <3>1. i <= num_checkpoints'
      BY <1>0, <2>1, <2>3
    <3>2. \A u \in Threads : pc'[u] \in CheckpointSteps => ~(registering'[u].slot < i)
      BY <1>0, <1>1, <1>6 DEF CountCheckpoint, Goto, CheckpointSteps
    <3> QED BY <1>6, <3>1, <3>2, SettledKept DEF CountCheckpoint
  <2> QED BY <2>2, <2>3 DEF CountWraps
<1> QED BY <1>3, <1>4, <1>5, <1>6 DEF RegisterStep, CheckpointStep, ReloadStep

LEMMA SettledStays ==
  ASSUME TypeOK, NEW i \in 1..MaxCheckpoints, Settled(i), [Next]_vars
  PROVE  Settled(i)' \/ CountWraps
<1>0. /\ pc \in [AllThreads -> Labels \cup MonitorSteps] /\ Threads \subseteq AllThreads
      /\ Monitor \in AllThreads /\ Monitor \notin Threads
  BY MonitorAssumption DEF TypeOK, PcTypeOK, AllThreads
<1> USE DEF CheckpointSteps, Goto
<1>1. CASE MonitorStep
  <2>1. UNCHANGED checkpointVars /\ \A t \in Threads : pc'[t] = pc[t]
    BY <1>0, <1>1 DEF MonitorStep, safety_monitor_task, CheckControlFlow,
       CheckMemoryIntegrity, CheckRedundantVariables, CheckExternal, CheckPasses,
       CheckFails, SleepPeriod, asilDataUnchanged, AttemptRecovery, FailSafe, StartRecovery,
       ExecuteRecoveryAction, FinishRecovery
  <2> QED BY <2>1, SettledUntouched
<1>2. ASSUME NEW t \in AllThreads, SafeStateStep(t) PROVE Settled(i)'
  BY <1>0, <1>2, SettledUntouched DEF SafeStateStep, enter_safe_state, MarkSafeStop,
     DisableCriticalOutputs, NotifySafeStateEntry, LogSafeState
<1>3. ASSUME NEW t \in Threads, ErrorStep(t) PROVE Settled(i)'
  BY <1>0, <1>3, SettledUntouched DEF ErrorStep, RunErrorRecovery, RecoveryOutcomes,
     ErrorRecovered, ErrorNotRecovered, should_attempt_recovery, asilDataUnchanged
<1>4. ASSUME NEW t \in Threads, EmergencyStep(t) PROVE Settled(i)'
  BY <1>0, <1>4, SettledUntouched DEF EmergencyStep, LockEmergency, TryEmergencyRecovery,
     HandlerResults, EmergencyBackoff, ClearEmergency, GiveUp, asilDataUnchanged
<1>5. ASSUME NEW t \in Threads, Call(t) PROVE Settled(i)' \/ CountWraps
  <2>1. CASE \E v \in CheckpointValues : register_safety_checkpoint(t, v)
    BY <2>1, SettledOnRegister
  <2>2. CASE ~\E v \in CheckpointValues : register_safety_checkpoint(t, v)
    BY <1>0, <1>5, <2>2, SettledUntouched DEF Call, handle_error, should_attempt_recovery,
       notify_error_recovery, handle_emergency_event, log_safety_event, asilDataUnchanged
  <2> QED BY <2>1, <2>2
<1>6. CASE UNCHANGED vars
  BY <1>6, SettledUntouched DEF vars, asilVars
<1> QED BY <1>1, <1>2, <1>3, <1>4, <1>5, <1>6, SettledOnRegister
        DEF Next, AllStopped, RegisterStep

\* A settled mismatch stays in the table, and no recovery of the control flow
\* succeeds any more, whatever any number of threads registers meanwhile.
THEOREM ControlFlowStops == Spec => ControlFlowNeverRecovers
<1>1. ASSUME TypeOK, [Next]_vars, NEW i \in 1..MaxCheckpoints, Settled(i),
             pc[Monitor] = "backoff", error_type = ControlFlow, pc'[Monitor] = "recovered"
      PROVE  FALSE
  <2>0. /\ pc \in [AllThreads -> Labels \cup MonitorSteps] /\ Threads \subseteq AllThreads
        /\ Monitor \in AllThreads /\ Monitor \notin Threads
    BY <1>1, MonitorAssumption DEF TypeOK, PcTypeOK, AllThreads
  <2>1. CASE MonitorStep
    BY <1>1, <2>0, <2>1 DEF MonitorStep, safety_monitor_task, CheckControlFlow,
       CheckMemoryIntegrity, CheckRedundantVariables, CheckExternal, SleepPeriod,
       AttemptRecovery, FinishRecovery, ExecuteRecoveryAction, RecoverySuccess, VerifyPasses, Goto
  <2>2. CASE SafeStateStep(Monitor)
    BY <1>1, <2>2 DEF SafeStateStep, enter_safe_state, MarkSafeStop, DisableCriticalOutputs,
       NotifySafeStateEntry, LogSafeState
  <2>3. ASSUME NEW t \in Threads, ThreadStep(t) PROVE FALSE
    BY <1>1, <2>3, ThreadLeavesMonitor
  <2>4. CASE UNCHANGED vars
    BY <1>1, <2>4 DEF vars, asilVars
  <2> QED BY <1>1, <2>1, <2>2, <2>3, <2>4
          DEF Next, AllStopped, ThreadStep, RegisterStep, AllThreads
<1>2. TypeOK /\ [Next]_vars =>
        [\A i \in 1..MaxCheckpoints : Settled(i) =>
          /\ Settled(i)' \/ CountWraps
          /\ ~(pc[Monitor] = "backoff" /\ error_type = ControlFlow
                 /\ pc'[Monitor] = "recovered")]_vars
  BY <1>1, SettledStays
<1> QED BY <1>2, TypeCorrect, PTL DEF Spec, ControlFlowNeverRecovers

-----------------------------------------------------------------------------
(* The safety state.                                                        *)

\* SAFE_STOP is overwritten by nothing but the two writes of the recovery.
THEOREM SafeStopLoss == Spec => SafeStopLostOnlyToRecovery
<1>1. ASSUME TypeOK, [Next]_vars, current_state = "SAFE_STOP", current_state' # "SAFE_STOP"
      PROVE  pc[Monitor] \in {"attempt", "recovered"}
  <2>1. CASE MonitorStep
    BY <1>1, <2>1 DEF MonitorStep, safety_monitor_task, CheckControlFlow,
       CheckMemoryIntegrity, CheckRedundantVariables, CheckExternal, SleepPeriod,
       asilDataUnchanged, AttemptRecovery, FailSafe, StartRecovery, ExecuteRecoveryAction,
       FinishRecovery
  <2>2. CASE SafeStateStep(Monitor)
    BY <1>1, <2>2 DEF SafeStateStep, enter_safe_state, MarkSafeStop, DisableCriticalOutputs,
       NotifySafeStateEntry, LogSafeState
  <2>3. ASSUME NEW t \in Threads, ThreadStep(t) PROVE FALSE
    BY <1>1, <2>3, ThreadLeavesMonitor
  <2>4. CASE UNCHANGED vars
    BY <1>1, <2>4 DEF vars, asilVars
  <2> QED BY <1>1, <2>1, <2>2, <2>3, <2>4 DEF Next, AllStopped, ThreadStep, RegisterStep, AllThreads
<1>2. TypeOK /\ [Next]_vars
         => [current_state = "SAFE_STOP" /\ current_state' # "SAFE_STOP"
               => pc[Monitor] \in {"attempt", "recovered"}]_vars
  BY <1>1
<1> QED BY <1>2, TypeCorrect, PTL DEF Spec, SafeStopLostOnlyToRecovery

-----------------------------------------------------------------------------
(* enter_safe_state.  Outside it a step powers nothing, notifies nobody and  *)
(* moves one thread between labels before the cut.                          *)

OtherStep ==
    \/ MonitorStep
    \/ \E t \in Threads : ErrorStep(t) \/ EmergencyStep(t) \/ Call(t) \/ RegisterStep(t)

LEMMA OtherStepKeepsOutputs ==
  ASSUME TypeOK, OtherStep
  PROVE  /\ UNCHANGED <<outputs_on, vcu_notified>>
         /\ \E t \in AllThreads :
               /\ pc[t] \notin EnteringSafeState \cup {"stopped"}
               /\ pc'[t] \notin PastMark
               /\ \A u \in AllThreads \ {t} : pc'[u] = pc[u]
<1>0. pc \in [AllThreads -> Labels \cup MonitorSteps] /\ Threads \subseteq AllThreads
      /\ Monitor \in AllThreads
  BY DEF TypeOK, PcTypeOK, AllThreads
<1> USE <1>0 DEF PastMark, EnteringSafeState, Goto
<1>1. CASE MonitorStep
  <2>1. NextCheck(error_type) \in {"check_memory", "check_redundancy", "sleep"}
    BY DEF TypeOK, AsilTypeOK, MonitorErrors, NextCheck, ControlFlow, MemoryCorruption,
       RedundancyMismatch
  <2>2. /\ NextCheck(ControlFlow) = "check_memory"
        /\ NextCheck(MemoryCorruption) = "check_redundancy"
        /\ NextCheck(RedundancyMismatch) = "sleep"
    BY DEF NextCheck, ControlFlow, MemoryCorruption, RedundancyMismatch
  <2> QED BY <1>1, <2>1, <2>2 DEF MonitorStep, safety_monitor_task, CheckControlFlow,
          CheckMemoryIntegrity, CheckRedundantVariables, CheckExternal, CheckPasses,
          CheckFails, SleepPeriod, asilDataUnchanged, AttemptRecovery, FailSafe,
          StartRecovery, ExecuteRecoveryAction, FinishRecovery
<1>2. ASSUME NEW t \in Threads,
             ErrorStep(t) \/ EmergencyStep(t) \/ Call(t) \/ RegisterStep(t)
      PROVE  /\ UNCHANGED <<outputs_on, vcu_notified>>
             /\ pc[t] \notin EnteringSafeState \cup {"stopped"}
             /\ pc'[t] \notin PastMark
             /\ \A u \in AllThreads \ {t} : pc'[u] = pc[u]
  <2> USE DEF asilDataUnchanged
  <2>1. CASE ErrorStep(t)
    BY <2>1 DEF ErrorStep, RunErrorRecovery, RecoveryOutcomes, ErrorRecovered, ErrorNotRecovered,
       should_attempt_recovery
  <2>2. CASE EmergencyStep(t)
    BY <2>2 DEF EmergencyStep, LockEmergency, TryEmergencyRecovery, HandlerResults, EmergencyBackoff,
       ClearEmergency, GiveUp
  <2>3. CASE Call(t)
    BY <2>3 DEF Call, handle_error, notify_error_recovery, should_attempt_recovery,
       handle_emergency_event, log_safety_event, register_safety_checkpoint
  <2>4. CASE RegisterStep(t)
    BY <2>4 DEF RegisterStep, CheckpointStep, ReloadStep, StoreExpected, CountCheckpoint,
       LoadCountAgain, CheckpointSteps
  <2> QED BY <1>2, <2>1, <2>2, <2>3, <2>4
<1> QED BY <1>1, <1>2 DEF OtherStep

LEMMA NextOutputsInv ==
  TypeOK /\ OutputsCutBeforeNotice /\ [Next]_vars => OutputsCutBeforeNotice'
<1> SUFFICES ASSUME TypeOK, OutputsCutBeforeNotice, [Next]_vars
             PROVE  OutputsCutBeforeNotice'
  OBVIOUS
<1> USE DEF OutputsCutBeforeNotice, PastCut
<1>1. ASSUME NEW t \in AllThreads, SafeStateStep(t) PROVE OutputsCutBeforeNotice'
  <2> USE <1>1 DEF SafeStateStep, enter_safe_state, Goto, TypeOK, PcTypeOK, AsilTypeOK
  <2>1. CASE MarkSafeStop(t)
    BY <2>1 DEF MarkSafeStop
  <2>2. CASE DisableCriticalOutputs(t)
    BY <2>2 DEF DisableCriticalOutputs
  <2>3. CASE NotifySafeStateEntry(t)
    BY <2>3 DEF NotifySafeStateEntry
  <2>4. CASE LogSafeState(t)
    BY <2>4 DEF LogSafeState
  <2> QED BY <2>1, <2>2, <2>3, <2>4
<1>2. CASE OtherStep
  BY <1>2, OtherStepKeepsOutputs DEF EnteringSafeState, PastMark
<1>3. CASE UNCHANGED vars
  BY <1>3 DEF vars, asilVars
<1> QED BY <1>1, <1>2, <1>3 DEF Next, AllStopped, OtherStep, RegisterStep

\* The VCU is told only after the outputs are off, and they are off exactly
\* from the first thread that passed disable_critical_outputs on.
THEOREM OutputsCorrect == Spec => []OutputsCutBeforeNotice
<1>1. Init => OutputsCutBeforeNotice
  BY DEF Init, AsilInit, OutputsCutBeforeNotice, PastCut
<1> QED BY <1>1, NextOutputsInv, TypeCorrect, PTL DEF Spec

LEMMA InitRefines == Init => Halting!Init
  BY DEF Init, AsilInit, Halting!Init, EnteringSafeState

LEMMA NextRefines ==
  TypeOK /\ OutputsCutBeforeNotice /\ [Next]_vars => [Halting!Next]_Halting!vars
<1> SUFFICES ASSUME TypeOK, OutputsCutBeforeNotice, [Next]_vars
             PROVE  [Halting!Next]_Halting!vars
  OBVIOUS
<1> USE DEF EnteringSafeState, Halting!vars, Halting!Next, Halting!Begin,
            Halting!CutOutputs, Halting!Halt
<1>0. pc \in [AllThreads -> Labels \cup MonitorSteps]
  BY DEF TypeOK, PcTypeOK
<1>1. ASSUME NEW t \in AllThreads, SafeStateStep(t) PROVE [Halting!Next]_Halting!vars
  <2> USE <1>0, <1>1 DEF SafeStateStep, enter_safe_state, Goto
  <2>1. CASE MarkSafeStop(t) \/ NotifySafeStateEntry(t)
    BY <2>1 DEF MarkSafeStop, NotifySafeStateEntry
  <2>2. CASE DisableCriticalOutputs(t)
    BY <2>2 DEF DisableCriticalOutputs
  <2>3. CASE LogSafeState(t)
    <3>1. outputs_on = FALSE
      BY <2>3 DEF LogSafeState, OutputsCutBeforeNotice, PastCut, TypeOK, AsilTypeOK
    <3>2. Halting!Halt(t)
      BY <2>3, <3>1 DEF LogSafeState
    <3> QED BY <3>2
  <2> QED BY <2>1, <2>2, <2>3
<1>2. CASE OtherStep
  <2>1. PICK t \in AllThreads :
               /\ pc[t] \notin EnteringSafeState \cup {"stopped"}
               /\ pc'[t] \notin PastMark
               /\ \A u \in AllThreads \ {t} : pc'[u] = pc[u]
    BY <1>2, OtherStepKeepsOutputs
  <2>2. outputs_on' = outputs_on
    BY <1>2, OtherStepKeepsOutputs
  <2>3. CASE pc'[t] = "mark"
    <3>1. Halting!Begin(t)
      BY <2>1, <2>2, <2>3
    <3> QED BY <3>1
  <2>4. CASE pc'[t] # "mark"
    BY <2>1, <2>2, <2>4 DEF PastMark
  <2> QED BY <2>3, <2>4
<1>3. CASE UNCHANGED vars
  BY <1>3 DEF vars, asilVars
<1> QED BY <1>1, <1>2, <1>3 DEF Next, AllStopped, OtherStep, RegisterStep

\* enter_safe_state keeps its promise: the safety core implements SafeStop.
THEOREM Refinement == Spec => ImplementsSafeStop
<1> USE DEF ImplementsSafeStop, Halting!Spec, Spec
<1> QED BY InitRefines, NextRefines, TypeCorrect, OutputsCorrect, PTL

-----------------------------------------------------------------------------
(* The limit of the retries.                                                *)

LEMMA NextRetries ==
  TypeOK /\ RetriesWithinBudget /\ [Next]_vars => RetriesWithinBudget'
<1> SUFFICES ASSUME TypeOK, RetriesWithinBudget, [Next]_vars PROVE RetriesWithinBudget'
  OBVIOUS
<1> USE ErrorsAssumption DEF RetriesWithinBudget, TypeOK, ErrorTypeOK
<1>1. ASSUME NEW t \in Threads, ErrorStep(t) \/ Call(t) PROVE RetriesWithinBudget'
  BY <1>1 DEF ErrorStep, Call, RunErrorRecovery, RecoveryOutcomes, ErrorRecovered, ErrorNotRecovered,
     handle_error, notify_error_recovery, should_attempt_recovery, MayAttempt, WithCount,
     Counted, ResetCount, errorVars
<1>2. CASE UNCHANGED errorVars
  BY <1>2 DEF errorVars
<1> QED BY <1>1, <1>2 DEF Next, AllStopped, MonitorStep, SafeStateStep, EmergencyStep,
        CheckpointStep, ReloadStep, vars

\* No error type is ever charged more than MAX_RETRIES attempts, for any number
\* of threads reporting it at once.
THEOREM RetriesCorrect == Spec => []RetriesWithinBudget
<1>1. Init => RetriesWithinBudget
  BY ErrorsAssumption DEF Init, ErrorInit, RetriesWithinBudget, Counted
<1> QED BY <1>1, NextRetries, TypeCorrect, PTL DEF Spec

-----------------------------------------------------------------------------
(* What the budget in use is made of.                                       *)

LEMMA InFlightFinite ==
  \A e \in ErrorTypes : IsFiniteSet(InFlight(e)) /\ Cardinality(InFlight(e)) \in Nat
<1> TAKE e \in ErrorTypes
<1>1. InFlight(e) \in SUBSET Threads
  BY DEF InFlight
<1> QED BY <1>1, ErrorsAssumption, FS_Subset, FS_CardinalityType

\* A step that neither begins nor ends the handling of an error.
LEMMA SameInFlight ==
  ASSUME TypeOK, BudgetAccounted, UNCHANGED errorVars, NEW t \in AllThreads, NEW label,
         Goto(t, label), pc[t] \in ErrorSteps <=> label \in ErrorSteps
  PROVE  BudgetAccounted'
<1>1. \A u \in Threads : pc'[u] \in ErrorSteps <=> pc[u] \in ErrorSteps
  BY DEF Goto, TypeOK, PcTypeOK, AllThreads
<1>2. \A e \in ErrorTypes : InFlight(e)' = InFlight(e)
  BY <1>1 DEF InFlight, errorVars
<1> QED BY <1>2, ErrorsAssumption DEF BudgetAccounted, errorVars

\* A call that is granted an attempt joins those in flight, one that is not
\* leaves them as they were.
LEMMA BudgetOnCall ==
  ASSUME TypeOK, BudgetAccounted, NEW t \in Threads, NEW x \in ErrorTypes, handle_error(t, x)
  PROVE  BudgetAccounted'
<1> USE DEF TypeOK, PcTypeOK, ErrorTypeOK, AllThreads, handle_error, should_attempt_recovery,
            Goto, ErrorSteps, WithCount, Counted
<1> SUFFICES ASSUME NEW e \in Recoverable \cap Counted
             PROVE  error_counts'[e] <= Cardinality(InFlight(e)') + 2 * failures'[e]
  BY DEF BudgetAccounted
<1>0. /\ e \in ErrorTypes /\ error_counts[e] \in Nat /\ failures[e] \in Nat
      /\ error_counts[e] <= Cardinality(InFlight(e)) + 2 * failures[e]
      /\ IsFiniteSet(InFlight(e)) /\ Cardinality(InFlight(e)) \in Nat
      /\ failures'[e] = failures[e]
  BY ErrorsAssumption, InFlightFinite DEF BudgetAccounted
<1>1. t \notin InFlight(e)
  BY DEF InFlight
<1>2. CASE MayAttempt(x) /\ e = x
  <2>0. ~MayRefuse(x)
    BY <1>0, <1>2, ErrorsAssumption DEF MayAttempt, MayRefuse
  <2>1. InFlight(e)' = InFlight(e) \cup {t}
    BY <1>2, <2>0 DEF InFlight
  <2>2. Cardinality(InFlight(e)') = Cardinality(InFlight(e)) + 1
    BY <2>1, <1>0, <1>1, FS_AddElement
  <2>3. error_counts'[e] = error_counts[e] + 1
    BY <1>2, <2>0
  <2> QED BY <2>2, <2>3, <1>0
<1>3. CASE ~(MayAttempt(x) /\ e = x)
  <2>1. InFlight(e)' = InFlight(e)
    BY <1>3 DEF InFlight
  <2>2. error_counts'[e] = error_counts[e]
    BY <1>3, <1>0
  <2> QED BY <2>1, <2>2, <1>0
<1> QED BY <1>2, <1>3

\* A failure is two units of budget more, of which its call gives one back and
\* at most one is charged again.
LEMMA BudgetOnErrorStep ==
  ASSUME TypeOK, BudgetAccounted, NEW t \in Threads, ErrorStep(t)
  PROVE  BudgetAccounted'
<1> USE DEF TypeOK, PcTypeOK, ErrorTypeOK, AllThreads, Goto, ErrorSteps, errorVars, WithCount, Counted
<1> SUFFICES ASSUME NEW e \in Recoverable \cap Counted
             PROVE  error_counts'[e] <= Cardinality(InFlight(e)') + 2 * failures'[e]
  BY DEF BudgetAccounted
<1>0. /\ e \in ErrorTypes /\ error_counts[e] \in Nat /\ failures[e] \in Nat
      /\ error_counts[e] <= Cardinality(InFlight(e)) + 2 * failures[e]
      /\ IsFiniteSet(InFlight(e)) /\ Cardinality(InFlight(e)) \in Nat
  BY ErrorsAssumption, InFlightFinite DEF BudgetAccounted
<1>1. CASE RunErrorRecovery(t)
  <2>1. InFlight(e)' = InFlight(e)
    BY <1>1 DEF InFlight, RunErrorRecovery, RecoveryOutcomes
  <2> QED BY <1>1, <2>1, <1>0 DEF RunErrorRecovery
<1>2. CASE (ErrorRecovered(t) \/ ErrorNotRecovered(t)) /\ handled[t] # e
  <2>1. InFlight(e)' = InFlight(e)
    BY <1>2 DEF InFlight, ErrorRecovered, ErrorNotRecovered, should_attempt_recovery
  <2>2. error_counts'[e] = error_counts[e] /\ failures'[e] = failures[e]
    BY <1>0, <1>2 DEF ErrorRecovered, ErrorNotRecovered, should_attempt_recovery, ResetCount
  <2> QED BY <2>1, <2>2, <1>0
<1>3. CASE (ErrorRecovered(t) \/ ErrorNotRecovered(t)) /\ handled[t] = e
  <2>1. t \in InFlight(e) /\ InFlight(e)' = InFlight(e) \ {t}
    BY <1>3 DEF InFlight, ErrorRecovered, ErrorNotRecovered, should_attempt_recovery
  <2>2. /\ Cardinality(InFlight(e)') = Cardinality(InFlight(e)) - 1
        /\ Cardinality(InFlight(e)') \in Nat
    BY <2>1, <1>0, FS_RemoveElement, FS_CardinalityType
  <2>3. CASE ErrorRecovered(t)
    BY <1>0, <1>3, <2>2, <2>3 DEF ErrorRecovered, ResetCount
  <2>4. CASE ErrorNotRecovered(t)
    <3>1. failures'[e] = failures[e] + 1 /\ error_counts'[e] <= error_counts[e] + 1
          /\ error_counts'[e] \in Nat
      BY <1>0, <1>3, <2>4 DEF ErrorNotRecovered, should_attempt_recovery
    <3> QED BY <3>1, <2>2, <1>0
  <2> QED BY <1>3, <2>3, <2>4
<1> QED BY <1>1, <1>2, <1>3 DEF ErrorStep

LEMMA NextBudget == TypeOK /\ BudgetAccounted /\ [Next]_vars => BudgetAccounted'
<1> SUFFICES ASSUME TypeOK, BudgetAccounted, [Next]_vars PROVE BudgetAccounted'
  OBVIOUS
<1>0. Threads \subseteq AllThreads /\ Monitor \notin Threads
  BY MonitorAssumption DEF AllThreads
<1>1. CASE UNCHANGED errorVars /\ \A u \in Threads : pc'[u] = pc[u]
  <2>1. \A e \in ErrorTypes : InFlight(e)' = InFlight(e)
    BY <1>1 DEF InFlight, errorVars
  <2> QED BY <1>1, <2>1, ErrorsAssumption DEF BudgetAccounted, errorVars
<1>2. CASE MonitorStep
  <2>1. UNCHANGED errorVars /\ \A u \in Threads : pc'[u] = pc[u]
    BY <1>0, <1>2 DEF TypeOK, PcTypeOK, MonitorStep, safety_monitor_task, CheckControlFlow,
       CheckMemoryIntegrity, CheckRedundantVariables, CheckExternal, CheckPasses,
       CheckFails, SleepPeriod, AttemptRecovery, FailSafe, StartRecovery,
       ExecuteRecoveryAction, FinishRecovery, Goto
  <2> QED BY <1>1, <2>1
<1>3. ASSUME NEW t \in AllThreads, SafeStateStep(t) PROVE BudgetAccounted'
  BY <1>3, SameInFlight DEF SafeStateStep, enter_safe_state, MarkSafeStop,
     DisableCriticalOutputs, NotifySafeStateEntry, LogSafeState, ErrorSteps
<1>4. ASSUME NEW t \in Threads, EmergencyStep(t) PROVE BudgetAccounted'
  BY <1>0, <1>4, SameInFlight DEF EmergencyStep, LockEmergency, TryEmergencyRecovery,
     HandlerResults, EmergencyBackoff, ClearEmergency, GiveUp, ErrorSteps
<1>5. ASSUME NEW t \in Threads, Call(t) PROVE BudgetAccounted'
  <2>1. CASE \E e \in ErrorTypes : handle_error(t, e)
    BY <2>1, BudgetOnCall
  <2>2. CASE \E e \in ErrorTypes : notify_error_recovery(t, e)
    <3>1. \A e \in ErrorTypes : InFlight(e)' = InFlight(e)
      BY <2>2 DEF InFlight, notify_error_recovery
    <3> QED BY <2>2, <3>1, ErrorsAssumption, InFlightFinite DEF BudgetAccounted,
            notify_error_recovery, ResetCount, WithCount, Counted, TypeOK, ErrorTypeOK
  <2>3. CASE (\E type \in EventTypes : handle_emergency_event(t, type)) /\ UNCHANGED errorVars
    BY <1>0, <2>3, SameInFlight DEF handle_emergency_event, ErrorSteps
  <2>4. CASE UNCHANGED <<pc, errorVars>>
    BY <1>1, <2>4
  <2>5. CASE UNCHANGED errorVars /\ \E v \in CheckpointValues : register_safety_checkpoint(t, v)
    BY <1>0, <2>5, SameInFlight DEF register_safety_checkpoint, ErrorSteps
  <2> QED BY <1>5, <2>1, <2>2, <2>3, <2>4, <2>5 DEF Call, log_safety_event, errorVars
<1>6. CASE UNCHANGED vars
  BY <1>1, <1>6 DEF vars, asilVars, errorVars
<1>7. ASSUME NEW t \in Threads, RegisterStep(t) PROVE BudgetAccounted'
  <2>1. CASE UNCHANGED <<pc, errorVars>>
    BY <1>1, <2>1
  <2>2. CASE UNCHANGED errorVars /\ (StoreExpected(t) \/ CountCheckpoint(t))
    BY <1>0, <2>2, SameInFlight DEF StoreExpected, CountCheckpoint, ErrorSteps
  <2> QED BY <1>7, <2>1, <2>2 DEF RegisterStep, CheckpointStep, ReloadStep, LoadCountAgain
<1> QED BY <1>2, <1>3, <1>4, <1>5, <1>6, <1>7, BudgetOnErrorStep DEF Next, AllStopped, RegisterStep

\* No error type is charged beyond MAX_RETRIES, and what it is charged is paid
\* for by calls in flight and by failures, for any number of threads.
THEOREM BudgetCorrect == Spec => []BudgetRespected
<1>1. Init => BudgetAccounted
  BY ErrorsAssumption, InFlightFinite DEF Init, ErrorInit, BudgetAccounted
<1>2. Spec => []BudgetAccounted
  BY <1>1, NextBudget, TypeCorrect, PTL DEF Spec
<1> QED BY <1>2, RetriesCorrect, PTL DEF BudgetRespected

-----------------------------------------------------------------------------
(* Who is turned away.                                                      *)

\* A thread is sent from these two labels into the safe state by one charge
\* that was refused.
LEMMA TurnedAway ==
  ASSUME TypeOK, [Next]_vars, NEW t \in Threads, pc[t] \in {"idle", "err_recheck"}, pc'[t] = "mark"
  PROVE  \/ \E e \in ErrorTypes : handle_error(t, e)
         \/ ErrorNotRecovered(t)
<1>0. /\ DOMAIN pc = AllThreads /\ pc = [u \in AllThreads |-> pc[u]]
      /\ Threads \subseteq AllThreads
      /\ t \in AllThreads /\ t # Monitor /\ pc[t] # "mark"
  BY MonitorAssumption DEF AllThreads, TypeOK, PcTypeOK
<1>1. CASE MonitorStep
  <2>1. \A u \in Threads : pc'[u] = pc[u]
    BY <1>0, <1>1, MonitorAssumption DEF MonitorStep, safety_monitor_task, CheckControlFlow,
       CheckMemoryIntegrity, CheckRedundantVariables, CheckExternal, CheckPasses,
       CheckFails, SleepPeriod, AttemptRecovery, FailSafe, StartRecovery,
       ExecuteRecoveryAction, FinishRecovery, Goto
  <2> QED BY <1>0, <2>1
<1>2. ASSUME NEW u \in AllThreads, SafeStateStep(u) PROVE FALSE
  <2>1. pc[u] \notin {"idle", "err_recheck"} /\ \A s \in AllThreads \ {u} : pc'[s] = pc[s]
    BY <1>0, <1>2 DEF SafeStateStep, enter_safe_state, MarkSafeStop,
       DisableCriticalOutputs, NotifySafeStateEntry, LogSafeState, Goto
  <2> QED BY <1>0, <2>1
<1>3. ASSUME NEW u \in Threads, EmergencyStep(u) PROVE FALSE
  <2>1. pc[u] \notin {"idle", "err_recheck"} /\ \A s \in AllThreads \ {u} : pc'[s] = pc[s]
    BY <1>0, <1>3 DEF EmergencyStep, LockEmergency, TryEmergencyRecovery,
       HandlerResults, EmergencyBackoff, ClearEmergency, GiveUp, Goto
  <2> QED BY <1>0, <2>1
<1>4. ASSUME NEW u \in Threads, ErrorStep(u) PROVE ErrorNotRecovered(t)
  <2>1. \A s \in AllThreads \ {u} : pc'[s] = pc[s]
    BY <1>0, <1>4 DEF ErrorStep, RunErrorRecovery, ErrorRecovered, ErrorNotRecovered,
       should_attempt_recovery, Goto
  <2>2. u = t
    BY <1>0, <2>1
  <2> QED BY <1>0, <1>4, <2>2 DEF ErrorStep, RunErrorRecovery, ErrorRecovered, Goto
<1>5. ASSUME NEW u \in Threads, Call(u) PROVE \E e \in ErrorTypes : handle_error(t, e)
  <2>1. CASE \E e \in ErrorTypes : handle_error(u, e)
    <3>1. \A s \in AllThreads \ {u} : pc'[s] = pc[s]
      BY <1>0, <2>1 DEF handle_error, should_attempt_recovery, Goto
    <3>2. u = t
      BY <1>0, <3>1
    <3> QED BY <2>1, <3>2
  <2>2. CASE \E type \in EventTypes : handle_emergency_event(u, type)
    BY <1>0, <2>2 DEF handle_emergency_event, Goto
  <2>3. CASE UNCHANGED pc
    BY <1>0, <2>3
  <2>4. CASE \E v \in CheckpointValues : register_safety_checkpoint(u, v)
    BY <1>0, <2>4 DEF register_safety_checkpoint, Goto
  <2> QED BY <1>5, <2>1, <2>2, <2>3, <2>4 DEF Call, log_safety_event, notify_error_recovery
<1>6. CASE UNCHANGED vars
  BY <1>0, <1>6 DEF vars, asilVars
<1>7. ASSUME NEW u \in Threads, RegisterStep(u) PROVE FALSE
  BY <1>0, <1>7 DEF RegisterStep, CheckpointStep, ReloadStep, StoreExpected, CountCheckpoint,
     LoadCountAgain, Goto
<1> QED BY <1>1, <1>2, <1>3, <1>4, <1>5, <1>6, <1>7 DEF Next, AllStopped, RegisterStep

LEMMA RefusedForFailures ==
  ASSUME TypeOK, BudgetAccounted, Cardinality(Threads) <= MaxRetries,
         NEW t \in Threads, NEW e \in Recoverable \cap Counted, handle_error(t, e),
         pc'[t] = "mark"
  PROVE  handled'[t] = e /\ failures'[e] > 0
<1>1. e \in ErrorTypes /\ MaxRetries \in Nat /\ IsFiniteSet(Threads)
  BY ErrorsAssumption
<1>2. pc[t] = "idle" /\ handled'[t] = e /\ failures' = failures
  BY DEF handle_error, TypeOK, ErrorTypeOK
<1>3. error_counts[e] \in Nat /\ failures[e] \in Nat
  BY <1>1 DEF TypeOK, ErrorTypeOK
<1>4. error_counts[e] >= MaxRetries
  <2>1. MayRefuse(e)
    BY DEF handle_error, should_attempt_recovery, Goto, TypeOK, PcTypeOK, AllThreads
  <2> QED BY <1>1, <1>3, <2>1 DEF MayRefuse, Counted
<1>5. /\ Cardinality(InFlight(e)) \in Nat
      /\ Cardinality(InFlight(e)) < Cardinality(Threads) /\ Cardinality(Threads) \in Nat
  <2>1. InFlight(e) \subseteq Threads \ {t}
    BY <1>2 DEF InFlight, ErrorSteps
  <2>2. /\ Cardinality(Threads \ {t}) = Cardinality(Threads) - 1 /\ IsFiniteSet(Threads \ {t})
        /\ Cardinality(Threads) \in Nat
    BY <1>1, FS_RemoveElement, FS_CardinalityType
  <2>3. Cardinality(InFlight(e)) <= Cardinality(Threads \ {t})
    BY <2>1, <2>2, FS_Subset
  <2> QED BY <1>1, <2>2, <2>3, InFlightFinite
<1>6. error_counts[e] <= Cardinality(InFlight(e)) + 2 * failures[e]
  BY DEF BudgetAccounted
<1>7. failures[e] > 0
  BY <1>1, <1>3, <1>4, <1>5, <1>6
<1> QED BY <1>2, <1>7

\* Overlapping reports alone stop no thread (should_attempt_recovery): with no
\* more threads than MAX_RETRIES a refusal needs a recovery that failed since
\* the last success.  With more threads it is false: as many reports at once as
\* there are retries leave none for the next one.
THEOREM RefusalNeedsFailure ==
  ASSUME Cardinality(Threads) <= MaxRetries
  PROVE  Spec => EscalationNeedsFailure
<1>1. ASSUME TypeOK, BudgetAccounted, [Next]_vars, NEW t \in Threads,
             pc[t] \in {"idle", "err_recheck"}, pc'[t] = "mark", handled'[t] \in Recoverable \cap Counted
      PROVE  failures'[handled'[t]] > 0
  <2>1. CASE ErrorNotRecovered(t)
    <3>1. handled'[t] = handled[t] /\ handled[t] \in ErrorTypes
      BY <1>1, <2>1 DEF ErrorNotRecovered, TypeOK, ErrorTypeOK
    <3>2. failures'[handled[t]] = failures[handled[t]] + 1 /\ failures[handled[t]] \in Nat
      BY <1>1, <2>1, <3>1 DEF ErrorNotRecovered, TypeOK, ErrorTypeOK
    <3> QED BY <3>1, <3>2
  <2>2. ASSUME NEW e \in ErrorTypes, handle_error(t, e) PROVE failures'[handled'[t]] > 0
    <3>1. handled'[t] = e
      BY <1>1, <2>2 DEF handle_error, TypeOK, ErrorTypeOK
    <3> QED BY <1>1, <2>2, <3>1, RefusedForFailures
  <2> QED BY <1>1, <2>1, <2>2, TurnedAway
<1>2. TypeOK /\ BudgetAccounted /\ [Next]_vars =>
        [\A t \in Threads :
          pc[t] \in {"idle", "err_recheck"} /\ pc'[t] = "mark"
            /\ handled'[t] \in Recoverable \cap Counted
             => failures'[handled'[t]] > 0]_vars
  BY <1>1
<1>3. Spec => []BudgetAccounted
  BY BudgetCorrect, PTL DEF BudgetRespected
<1> QED BY <1>2, <1>3, TypeCorrect, PTL DEF Spec, EscalationNeedsFailure

-----------------------------------------------------------------------------
(* Emergencies.                                                             *)

\* The steps that touch neither the mutex and what it protects nor the labels
\* between lock and unlock.
LEMMA OutsideEmergency ==
  ASSUME TypeOK, NEW t \in AllThreads, NEW label,
         Goto(t, label), UNCHANGED emergencyVars,
         pc[t] \notin EmergencySteps, label \notin EmergencySteps,
         pc[t] \in EnteringSafeState \cup {"stopped"}
           => label \in EnteringSafeState \cup {"stopped"},
         EmergencyExclusive, EmergencyStateAgrees
  PROVE  EmergencyExclusive' /\ EmergencyStateAgrees'
  BY DEF Goto, TypeOK, PcTypeOK, AllThreads, emergencyVars, EmergencyExclusive,
     EmergencyStateAgrees

LEMMA NextEmergency ==
  TypeOK /\ EmergencyExclusive /\ EmergencyStateAgrees /\ [Next]_vars
    => EmergencyExclusive' /\ EmergencyStateAgrees'
<1> SUFFICES ASSUME TypeOK, EmergencyExclusive, EmergencyStateAgrees, [Next]_vars
             PROVE  EmergencyExclusive' /\ EmergencyStateAgrees'
  OBVIOUS
<1>0. /\ pc \in [AllThreads -> Labels \cup MonitorSteps] /\ Threads \subseteq AllThreads
      /\ Monitor \in AllThreads /\ Monitor \notin Threads
      /\ NoThread \notin Threads
  BY MonitorAssumption, EmergencyAssumption DEF TypeOK, PcTypeOK, AllThreads
<1>1. CASE MonitorStep
  <2>1. UNCHANGED emergencyVars /\ \A t \in Threads : pc'[t] = pc[t]
    BY <1>0, <1>1 DEF MonitorStep, safety_monitor_task, CheckControlFlow,
       CheckMemoryIntegrity, CheckRedundantVariables, CheckExternal, CheckPasses,
       CheckFails, SleepPeriod, AttemptRecovery, FailSafe, StartRecovery,
       ExecuteRecoveryAction, FinishRecovery, Goto
  <2> QED BY <2>1 DEF emergencyVars, EmergencyExclusive, EmergencyStateAgrees
<1>2. ASSUME NEW t \in AllThreads, SafeStateStep(t)
      PROVE  EmergencyExclusive' /\ EmergencyStateAgrees'
  BY <1>2, OutsideEmergency DEF SafeStateStep, enter_safe_state, MarkSafeStop,
     DisableCriticalOutputs, NotifySafeStateEntry, LogSafeState, EmergencySteps,
     EnteringSafeState
<1>3. ASSUME NEW t \in Threads, ErrorStep(t)
      PROVE  EmergencyExclusive' /\ EmergencyStateAgrees'
  BY <1>0, <1>3, OutsideEmergency DEF ErrorStep, RunErrorRecovery, RecoveryOutcomes, ErrorRecovered,
     ErrorNotRecovered, should_attempt_recovery, EmergencySteps, EnteringSafeState
<1>4. ASSUME NEW t \in Threads, EmergencyStep(t)
      PROVE  EmergencyExclusive' /\ EmergencyStateAgrees'
  <2> USE <1>0, <1>4 DEF EmergencyExclusive, EmergencyStateAgrees, EmergencySteps,
          EnteringSafeState, Goto, TypeOK, EmergencyTypeOK
  <2>1. CASE LockEmergency(t)
    BY <2>1 DEF LockEmergency
  <2>2. CASE TryEmergencyRecovery(t)
    BY <2>2 DEF TryEmergencyRecovery, HandlerResults, GiveUp, Unlock
  <2>3. CASE EmergencyBackoff(t)
    BY <2>3 DEF EmergencyBackoff, GiveUp, Unlock
  <2>4. CASE ClearEmergency(t)
    BY <2>4 DEF ClearEmergency, Unlock
  <2> QED BY <2>1, <2>2, <2>3, <2>4 DEF EmergencyStep
<1>5. ASSUME NEW t \in Threads, Call(t)
      PROVE  EmergencyExclusive' /\ EmergencyStateAgrees'
  <2>1. CASE \E e \in ErrorTypes : handle_error(t, e) /\ UNCHANGED emergencyVars
    BY <1>0, <2>1, OutsideEmergency DEF handle_error, should_attempt_recovery,
       EmergencySteps, EnteringSafeState
  <2>2. CASE \E type \in EventTypes : handle_emergency_event(t, type)
    BY <1>0, <2>2 DEF handle_emergency_event, Goto, EmergencyExclusive,
       EmergencyStateAgrees, EmergencySteps, EnteringSafeState
  <2>3. CASE UNCHANGED <<pc, emergencyVars>>
    BY <2>3 DEF emergencyVars, EmergencyExclusive, EmergencyStateAgrees
  <2>4. CASE /\ UNCHANGED emergencyVars
             /\ \E v \in CheckpointValues : register_safety_checkpoint(t, v)
    BY <1>0, <2>4, OutsideEmergency DEF register_safety_checkpoint, EmergencySteps,
       EnteringSafeState
  <2> QED BY <1>5, <2>1, <2>2, <2>3, <2>4 DEF Call, notify_error_recovery, log_safety_event,
          emergencyVars
<1>6. CASE UNCHANGED vars
  BY <1>6 DEF vars, asilVars, emergencyVars, EmergencyExclusive, EmergencyStateAgrees
<1>7. ASSUME NEW t \in Threads, RegisterStep(t)
      PROVE  EmergencyExclusive' /\ EmergencyStateAgrees'
  <2>1. CASE UNCHANGED <<pc, emergencyVars>>
    BY <2>1 DEF emergencyVars, EmergencyExclusive, EmergencyStateAgrees
  <2>2. CASE UNCHANGED emergencyVars /\ (StoreExpected(t) \/ CountCheckpoint(t))
    BY <1>0, <2>2, OutsideEmergency DEF StoreExpected, CountCheckpoint, EmergencySteps,
       EnteringSafeState
  <2> QED BY <1>7, <2>1, <2>2 DEF RegisterStep, CheckpointStep, ReloadStep, LoadCountAgain
<1> QED BY <1>1, <1>2, <1>3, <1>4, <1>5, <1>6, <1>7 DEF Next, AllStopped, RegisterStep

LEMMA EmergencyCorrect == Spec => [](EmergencyExclusive /\ EmergencyStateAgrees)
<1>1. Init => EmergencyExclusive /\ EmergencyStateAgrees
  BY EmergencyAssumption, MonitorAssumption DEF Init, AsilInit, EmergencyInit, AllThreads,
     EmergencyExclusive, EmergencyStateAgrees, EmergencySteps
<1> QED BY <1>1, NextEmergency, TypeCorrect, PTL DEF Spec

\* The mutex and the published emergency agree, for any number of threads.
THEOREM EmergencyConsistency == Spec => []EmergencyConsistent
  BY EmergencyCorrect, PTL DEF EmergencyConsistent

\* One thread at a time handles an emergency, and every way out of it, into
\* the safe state too, releases the mutex.
THEOREM EmergencyMutexCorrect == Spec => []EmergencyExclusive
  BY EmergencyCorrect, PTL

\* NORMAL is published only when no emergency is outstanding, and an emergency
\* nobody handles any more has stopped a thread.
THEOREM EmergencyStateCorrect == Spec => []EmergencyStateAgrees
  BY EmergencyCorrect, PTL
=============================================================================
