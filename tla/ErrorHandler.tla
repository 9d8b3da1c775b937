------------------------------ MODULE ErrorHandler ------------------------------
(***************************************************************************)
(* src/common/error/error_handler.c: handle_error counts the attempts per   *)
(* error type and sends the calling thread to the safe state when they are  *)
(* used up or when the error has no recovery.  The count is read and        *)
(* raised, or reset, in one critical section of error_mutex (one step); the *)
(* recovery itself runs outside it, so calls of several threads interleave. *)
(***************************************************************************)
EXTENDS Asil

CONSTANTS
    ErrorTypes,    \* the error types callers report
    Recoverable,   \* those the switch of handle_error has a recovery for
    OutOfRange,    \* those that are not below ERROR_TYPE_MAX
    MaxRetries     \* MAX_RETRIES

ASSUME ErrorsAssumption ==
    /\ Recoverable \subseteq ErrorTypes
    /\ OutOfRange \subseteq ErrorTypes
    /\ MaxRetries \in Nat
    /\ IsFiniteSet(Threads)

\* The error types that have an entry in error_counts.  The repository does not
\* define ERROR_TYPE_MAX, and neither handler compares an error type with it.
Counted == ErrorTypes \ OutOfRange

VARIABLES
    error_counts,  \* error_counts[e], in use for e \in Counted
    handled,       \* handled[t]: the argument of the thread's handle_error
    failures       \* history: failed recoveries of e since the count was reset

errorVars == <<error_counts, handled, failures>>

ErrorSteps == {"err_handle", "err_reset", "err_recheck"}

ErrorInit ==
    /\ error_counts = [e \in ErrorTypes |-> 0]
    /\ handled \in [Threads -> ErrorTypes]
    /\ failures = [e \in ErrorTypes |-> 0]

-----------------------------------------------------------------------------
\* The count of a type that is out of range is memory behind the table, which
\* may hold anything; what the increment of it hits is not in this state.
MayAttempt(e) == e \in OutOfRange \/ error_counts[e] < MaxRetries
MayRefuse(e) == e \in OutOfRange \/ error_counts[e] >= MaxRetries

WithCount(e, count) ==
    error_counts' = IF e \in Counted THEN [error_counts EXCEPT ![e] = count]
                    ELSE error_counts

\* should_attempt_recovery: the thread goes to granted with the count raised,
\* or, with the budget used up, into enter_safe_state.
should_attempt_recovery(t, e, granted) ==
    \/ /\ MayAttempt(e)
       /\ WithCount(e, error_counts[e] + 1)
       /\ Goto(t, granted)
    \/ /\ MayRefuse(e)
       /\ Goto(t, "mark")
       /\ UNCHANGED error_counts

\* Mutant: a recovery leaves the count where it is.
KeepCount(e) ==
    /\ failures' = [failures EXCEPT ![e] = 0]
    /\ UNCHANGED error_counts

ResetCount(e) ==
    /\ WithCount(e, 0)
    /\ failures' = [failures EXCEPT ![e] = 0]

handle_error(t, e) ==
    /\ pc[t] = "idle"
    /\ handled' = [handled EXCEPT ![t] = e]
    /\ should_attempt_recovery(t, e, "err_handle")
    /\ UNCHANGED failures
    /\ asilDataUnchanged

\* Where a recovery function leads to.  The five (CAN bus, sensor, deadline,
\* stack, memory) return what their external calls report and leave nothing
\* behind that this module keeps, so each may succeed or fail.
RecoveryOutcomes == {"err_reset", "err_recheck"}

\* The switch: one of the recovery functions, or the safe state.
RunErrorRecovery(t) ==
    /\ pc[t] = "err_handle"
    /\ \/ handled[t] \in Recoverable /\ \E outcome \in RecoveryOutcomes : Goto(t, outcome)
       \/ handled[t] \notin Recoverable /\ Goto(t, "mark")
    /\ UNCHANGED errorVars
    /\ asilDataUnchanged

ErrorRecovered(t) ==
    /\ pc[t] = "err_reset"
    /\ ResetCount(handled[t])
    /\ Goto(t, "idle")
    /\ UNCHANGED handled
    /\ asilDataUnchanged

\* A failed recovery takes a second unit of the budget.
ErrorNotRecovered(t) ==
    /\ pc[t] = "err_recheck"
    /\ failures' = [failures EXCEPT ![handled[t]] = @ + 1]
    /\ should_attempt_recovery(t, handled[t], "idle")
    /\ UNCHANGED handled
    /\ asilDataUnchanged

notify_error_recovery(t, e) ==
    /\ pc[t] = "idle"
    /\ ResetCount(e)
    /\ UNCHANGED <<pc, handled>>
    /\ asilDataUnchanged

-----------------------------------------------------------------------------
ErrorTypeOK ==
    /\ error_counts \in [ErrorTypes -> Nat]
    /\ handled \in [Threads -> ErrorTypes]
    /\ failures \in [ErrorTypes -> Nat]
=============================================================================
