------------------------------ MODULE Diagnostics ------------------------------
(***************************************************************************)
(* src/common/diagnostic/diag_service.c: requests of several testers to     *)
(* change the session, unlock a security level and run routines.            *)
(*                                                                          *)
(* context_lock is held for single sections only, each of which is a step.  *)
(* The session is read, and the time of a key taken, before it.  Whether    *)
(* a service is allowed in a session (validate_service_in_session) and what *)
(* a routine does are external.  Left out are requests refused for their    *)
(* arguments, which change nothing, and settings nothing here reads (DTC,   *)
(* communication, downloads).                                               *)
(***************************************************************************)
EXTENDS Integers, Sequences, FiniteSets

CONSTANTS
    Testers,              \* threads that process a request
    SecurityLevels,       \* levels a tester unlocks, not 0
    Routines,             \* ids that start a routine
    UnknownRoutine,       \* any other id
    MaxSecurityAttempts,  \* MAX_SECURITY_ATTEMPTS
    LockoutTime,          \* SECURITY_LOCKOUT_TIME_MS, in ticks
    TimeRange,            \* 2^32: k_uptime_get_32 and the difference of two times wrap
    MaxTime,              \* bound: ticks
    MaxRequests           \* bound: requests

ASSUME ServiceAssumption ==
    /\ SecurityLevels \subseteq Nat \ {0}
    /\ UnknownRoutine \notin Routines
    /\ MaxSecurityAttempts \in Nat \ {0} /\ LockoutTime \in Nat \ {0}
    /\ TimeRange \in Nat \ {0} /\ MaxTime \in Nat /\ MaxRequests \in Nat

Sessions == {"DEFAULT", "PROGRAMMING", "EXTENDED", "SAFETY"}
RoutineIds == Routines \cup {UnknownRoutine}

VARIABLES
    current_session, security_level, security_attempts,
    last_security_attempt,  \* 0 before the first
    active_routine,         \* [routine_id, status]; <<>> before the first
    now,                    \* k_uptime_get, all 64 bits of it
    pc, request,            \* pc[t], request[t]: where t is, with what
    requests,
    wrong_keys,             \* history: times of the wrong keys since a right one
    overtaken,              \* history: a key was looked at after a later one
    stopped                 \* history: testers whose routine was stopped under them

sessionVars == <<current_session, security_level>>
attemptVars == <<security_attempts, last_security_attempt, wrong_keys, overtaken>>
routineVars == <<active_routine, stopped>>
vars == <<sessionVars, attemptVars, routineVars, now, pc, request, requests>>

NoRequest == [session |-> "DEFAULT", seen |-> "DEFAULT", time |-> 0, level |-> 0,
              routine |-> UnknownRoutine]

Goto(t, label) == pc' = [pc EXCEPT ![t] = label]
Return(t) == Goto(t, "idle") /\ request' = [request EXCEPT ![t] = NoRequest]

\* validate_service_in_session let the request pass.
Begin(t, label, req) ==
    /\ pc[t] = "idle" /\ requests < MaxRequests
    /\ requests' = requests + 1
    /\ Goto(t, label)
    /\ request' = [request EXCEPT ![t] = req]

-----------------------------------------------------------------------------
(* Sessions.                                                                *)

\* Mutant: every session but programming may be left for any other.
AllowedFromProgrammingOnly(from, to) == from # "PROGRAMMING" \/ to = "DEFAULT"

validate_session_transition(from, to) ==
    \/ from = "DEFAULT"
    \/ from = "PROGRAMMING" /\ to = "DEFAULT"
    \/ from \in {"EXTENDED", "SAFETY"} /\ to \in {"DEFAULT", "PROGRAMMING"}

RequestSession(t) ==
    /\ \E s \in Sessions : Begin(t, "validate", [NoRequest EXCEPT !.session = s])
    /\ UNCHANGED <<sessionVars, attemptVars, routineVars, now>>

\* current_session is read without context_lock.
ValidateSession(t) ==
    /\ pc[t] = "validate"
    /\ \/ /\ validate_session_transition(current_session, request[t].session)
          /\ Goto(t, "commit")
          /\ request' = [request EXCEPT ![t].seen = current_session]
       \/ /\ ~validate_session_transition(current_session, request[t].session)
          /\ Return(t)
    /\ UNCHANGED <<sessionVars, attemptVars, routineVars, now, requests>>

start_diagnostic_session(t) ==
    /\ pc[t] = "commit"
    /\ current_session' = request[t].session
    /\ security_level' = 0
    /\ Return(t)
    /\ UNCHANGED <<attemptVars, routineVars, now, requests>>

-----------------------------------------------------------------------------
(* Security access.                                                         *)

\* The time is taken before the lock.
RequestAccess(t) ==
    /\ \E level \in SecurityLevels :
          Begin(t, "key", [NoRequest EXCEPT !.level = level, !.time = now])
    /\ UNCHANGED <<sessionVars, attemptVars, routineVars, now>>

\* Mutant: the lockout ends one attempt too late.
LockedOutLater(time) ==
    /\ security_attempts > MaxSecurityAttempts
    /\ (time - last_security_attempt) % TimeRange < LockoutTime

\* A time older than the last attempt makes the unsigned difference wrap.
LockedOut(time) ==
    /\ security_attempts >= MaxSecurityAttempts
    /\ (time - last_security_attempt) % TimeRange < LockoutTime

AttemptsKept == security_attempts    \* mutant: a lockout leaves the count

Attempts == IF security_attempts >= MaxSecurityAttempts THEN 0 ELSE security_attempts

LastWrong == wrong_keys[Len(wrong_keys)]

RefuseKey(t) ==
    /\ LockedOut(request[t].time % TimeRange)
    /\ UNCHANGED <<sessionVars, attemptVars>>

WrongKey(t) ==
    /\ ~LockedOut(request[t].time % TimeRange)
    /\ security_attempts' = Attempts + 1
    /\ last_security_attempt' = request[t].time % TimeRange
    /\ wrong_keys' = Append(wrong_keys, request[t].time)
    /\ overtaken' = (overtaken \/ (wrong_keys # <<>> /\ request[t].time < LastWrong))
    /\ UNCHANGED sessionVars

\* The key is derived from the time of the last attempt, so which one is right
\* is not known before.
RightKey(t) ==
    /\ ~LockedOut(request[t].time % TimeRange)
    /\ security_level' = request[t].level
    /\ security_attempts' = 0
    /\ wrong_keys' = <<>>
    /\ UNCHANGED <<current_session, last_security_attempt, overtaken>>

verify_security_access(t) ==
    /\ pc[t] = "key"
    /\ RefuseKey(t) \/ WrongKey(t) \/ RightKey(t)
    /\ Return(t)
    /\ UNCHANGED <<routineVars, now, requests>>

-----------------------------------------------------------------------------
(* Routines.                                                                *)

NoRoutine == <<>>
Active == active_routine # NoRoutine /\ active_routine.status = 1

\* An unknown id is refused only after it has become the active routine.
StartRoutine(t) ==
    /\ \E id \in RoutineIds :
          /\ ~Active
          /\ active_routine' = [routine_id |-> id, status |-> 1]
          /\ \/ id \in Routines /\ Begin(t, "execute", [NoRequest EXCEPT !.routine = id])
             \/ id \notin Routines /\ Begin(t, "idle", NoRequest)
    /\ stopped' = stopped \ {t}
    /\ UNCHANGED <<sessionVars, attemptVars, now>>

\* Mutant: a routine that ends is no longer the active one, whoever started it.
FinishRoutineInactive(t) ==
    /\ pc[t] = "execute"
    /\ Return(t)
    /\ active_routine' = [active_routine EXCEPT !.status = 0]
    /\ stopped' = stopped \ {t}
    /\ UNCHANGED <<sessionVars, attemptVars, now, requests>>

\* execute_self_test and the others run outside the lock and change nothing here.
FinishRoutine(t) ==
    /\ pc[t] = "execute"
    /\ Return(t)
    /\ stopped' = stopped \ {t}
    /\ UNCHANGED <<sessionVars, attemptVars, active_routine, now, requests>>

StopRoutine(t) ==
    /\ active_routine # NoRoutine
    /\ Begin(t, "idle", NoRequest)
    /\ active_routine' = [active_routine EXCEPT !.status = 0]
    /\ stopped' = {u \in Testers : pc[u] = "execute"}
    /\ UNCHANGED <<sessionVars, attemptVars, now>>

-----------------------------------------------------------------------------
Tick ==
    /\ now < MaxTime
    /\ now' = now + 1
    /\ UNCHANGED <<sessionVars, attemptVars, routineVars, pc, request, requests>>

Init ==
    /\ current_session = "DEFAULT" /\ security_level = 0
    /\ security_attempts = 0 /\ last_security_attempt = 0
    /\ active_routine = NoRoutine
    /\ now = 0
    /\ pc = [t \in Testers |-> "idle"]
    /\ request = [t \in Testers |-> NoRequest]
    /\ requests = 0
    /\ wrong_keys = <<>> /\ overtaken = FALSE /\ stopped = {}

Next ==
    \/ \E t \in Testers :
          \/ RequestSession(t) \/ ValidateSession(t) \/ start_diagnostic_session(t)
          \/ RequestAccess(t) \/ verify_security_access(t)
          \/ StartRoutine(t) \/ FinishRoutine(t) \/ StopRoutine(t)
    \/ Tick

Spec == Init /\ [][Next]_vars

-----------------------------------------------------------------------------
\* Every field of the context holds a value of its type, the attempts stay
\* within their limit, and a request is where the service put it.
TypeOK ==
    /\ current_session \in Sessions
    /\ security_level \in SecurityLevels \cup {0}
    /\ security_attempts \in 0 .. MaxSecurityAttempts
    /\ last_security_attempt \in 0 .. TimeRange - 1
    /\ active_routine # NoRoutine => active_routine \in [routine_id : RoutineIds, status : 0..1]
    /\ pc \in [Testers -> {"idle", "validate", "commit", "key", "execute"}]
    /\ request \in [Testers -> [session : Sessions, seen : Sessions, time : Nat,
                                level : SecurityLevels \cup {0}, routine : RoutineIds]]
    /\ wrong_keys \in Seq(Nat)
    /\ stopped \subseteq Testers

\* The sessions of the service as a graph: programming is left for the default
\* session only, and nothing but the default session leads to extended or safety.
SessionGraph ==
    ({"DEFAULT"} \X Sessions) \cup (Sessions \X {"DEFAULT"})
        \cup ({"EXTENDED", "SAFETY"} \X {"PROGRAMMING"})

\* A step outside this graph happens only when another request changed the
\* session between the check of this one and its commit.
ForbiddenOnlyIfOvertaken ==
    [][current_session' # current_session
          /\ <<current_session, current_session'>> \notin SessionGraph
       => \E t \in Testers : pc[t] = "commit" /\ request[t].seen # current_session]_vars

\* Whatever the order in which keys arrive, within one lockout time no more
\* wrong keys are looked at than the limit: three failures, however they are
\* spread, close the door.  Except when a request that took its time earlier
\* gets the lock later: the difference of the times wraps and ends the lockout.
WrongKeysLimited ==
    ~overtaken /\ wrong_keys # <<>> =>
        Cardinality({k \in DOMAIN wrong_keys : wrong_keys[k] > LastWrong - LockoutTime})
            <= MaxSecurityAttempts

\* While a routine runs that nobody has stopped it is the active one, so no
\* second one runs beside it.
RunningIsActive ==
    LET running == {t \in Testers : pc[t] = "execute"} \ stopped
    IN  /\ \A t \in running : Active /\ active_routine.routine_id = request[t].routine
        /\ Cardinality(running) <= 1
=============================================================================
