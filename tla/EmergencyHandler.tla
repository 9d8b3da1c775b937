---------------------------- MODULE EmergencyHandler ----------------------------
(***************************************************************************)
(* src/vcu/src/emergency_handler.c: handle_emergency_event runs with        *)
(* emergency_mutex held, sleeps between its retries, and leaves either      *)
(* recovered or through enter_safe_state, after it released the mutex.      *)
(* get_emergency_state reads emergency_state without the mutex, so the      *)
(* state a reader can see is the variable in every state of the model.      *)
(***************************************************************************)
EXTENDS Asil

CONSTANTS
    KnownEvents,          \* the event types of the switch
    UnknownEvent,         \* any other event type
    MaxEmergencyRetries,  \* MAX_EMERGENCY_RETRIES
    NoThread              \* nobody holds the mutex

ASSUME EmergencyAssumption ==
    /\ UnknownEvent \notin KnownEvents
    /\ MaxEmergencyRetries \in Nat \ {0}
    /\ NoThread \notin Threads

VARIABLES
    emergency_state,  \* "NORMAL" or "ACTIVE"
    emergency_count,
    emergency_mutex,  \* the owner
    event_type,       \* event_type[t]: the argument of the thread's call
    retry_count       \* retry_count[t]: the local of the thread's call

emergencyVars == <<emergency_state, emergency_count, emergency_mutex,
                   event_type, retry_count>>

EventTypes == KnownEvents \cup {UnknownEvent}
EmergencySteps == {"em_try", "em_backoff", "em_clear"}

EmergencyInit ==
    /\ emergency_state = "NORMAL"
    /\ emergency_count = 0
    /\ emergency_mutex = NoThread
    /\ event_type = [t \in Threads |-> UnknownEvent]
    /\ retry_count = [t \in Threads |-> 0]

-----------------------------------------------------------------------------
\* The mutex is released; the locals of the call end with it.
Unlock(t) ==
    /\ emergency_mutex' = NoThread
    /\ event_type' = [event_type EXCEPT ![t] = UnknownEvent]
    /\ retry_count' = [retry_count EXCEPT ![t] = 0]

\* Mutant: enter_safe_state is called with the mutex held.
GiveUpLocked(t) ==
    /\ Goto(t, "mark")
    /\ UNCHANGED <<emergency_mutex, event_type, retry_count>>

\* Release the mutex first, then call enter_safe_state.
GiveUp(t) == Unlock(t) /\ Goto(t, "mark")

handle_emergency_event(t, type) ==
    /\ pc[t] = "idle"
    /\ event_type' = [event_type EXCEPT ![t] = type]
    /\ Goto(t, "em_lock")
    /\ UNCHANGED <<emergency_state, emergency_count, emergency_mutex, retry_count>>
    /\ asilDataUnchanged

LockEmergency(t) ==
    /\ pc[t] = "em_lock"
    /\ emergency_mutex = NoThread
    /\ emergency_mutex' = t
    /\ emergency_count' = emergency_count + 1
    /\ emergency_state' = "ACTIVE"
    /\ Goto(t, "em_try")
    /\ UNCHANGED <<event_type, retry_count>>
    /\ asilDataUnchanged

\* What the five handle_* functions (collision, brake, sensor, system,
\* communication) return: FALSE for data that is too short, and otherwise what
\* their external calls report.
HandlerResults == BOOLEAN

\* One turn of the retry loop.
TryEmergencyRecovery(t) ==
    /\ pc[t] = "em_try"
    /\ \/ /\ event_type[t] \in KnownEvents
          /\ \E recovered \in HandlerResults :
                /\ retry_count' = IF recovered THEN retry_count
                                  ELSE [retry_count EXCEPT ![t] = @ + 1]
                /\ Goto(t, IF recovered THEN "em_clear" ELSE "em_backoff")
          /\ UNCHANGED <<emergency_mutex, event_type>>
       \/ event_type[t] = UnknownEvent /\ GiveUp(t)
    /\ UNCHANGED <<emergency_state, emergency_count>>
    /\ asilDataUnchanged

\* Mutant: the loop condition is off by one.
BackoffOnceMore(t) ==
    /\ pc[t] = "em_backoff"
    /\ \/ /\ retry_count[t] <= MaxEmergencyRetries
          /\ Goto(t, "em_try")
          /\ UNCHANGED <<emergency_mutex, event_type, retry_count>>
       \/ retry_count[t] > MaxEmergencyRetries /\ GiveUp(t)
    /\ UNCHANGED <<emergency_state, emergency_count>>
    /\ asilDataUnchanged

\* The sleep after a failed turn and the loop condition.
EmergencyBackoff(t) ==
    /\ pc[t] = "em_backoff"
    /\ \/ /\ retry_count[t] < MaxEmergencyRetries
          /\ Goto(t, "em_try")
          /\ UNCHANGED <<emergency_mutex, event_type, retry_count>>
       \/ retry_count[t] >= MaxEmergencyRetries /\ GiveUp(t)
    /\ UNCHANGED <<emergency_state, emergency_count>>
    /\ asilDataUnchanged

\* Mutant: the count survives the recovery.
ClearStateOnly(t) ==
    /\ pc[t] = "em_clear"
    /\ emergency_state' = "NORMAL"
    /\ Unlock(t)
    /\ Goto(t, "idle")
    /\ UNCHANGED emergency_count
    /\ asilDataUnchanged

ClearEmergency(t) ==
    /\ pc[t] = "em_clear"
    /\ emergency_state' = "NORMAL"
    /\ emergency_count' = 0
    /\ Unlock(t)
    /\ Goto(t, "idle")
    /\ asilDataUnchanged

-----------------------------------------------------------------------------
\* retry_count counts the turns of a call, never more than MAX_EMERGENCY_RETRIES,
\* and one turn may still be made while the thread is before it.
TurnsWithinLimit(t) ==
    /\ retry_count[t] \in 0..MaxEmergencyRetries
    /\ pc[t] = "em_try" => retry_count[t] < MaxEmergencyRetries
    /\ pc[t] \notin EmergencySteps => retry_count[t] = 0

EmergencyTypeOK ==
    /\ emergency_state \in {"NORMAL", "ACTIVE"}
    /\ emergency_count \in Nat
    /\ emergency_mutex \in Threads \cup {NoThread}
    /\ event_type \in [Threads -> EventTypes]
    /\ retry_count \in [Threads -> Nat]
=============================================================================
