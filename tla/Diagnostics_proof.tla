--------------------------- MODULE Diagnostics_proof ---------------------------
(***************************************************************************)
(* Theorems about Diagnostics, for any number of testers, any security      *)
(* levels, routines and limits.                                             *)
(***************************************************************************)
EXTENDS Diagnostics, FiniteSetTheorems, TLAPS

(* The three services by what each of them leaves alone.                    *)
SessionStep(t) == RequestSession(t) \/ ValidateSession(t) \/ start_diagnostic_session(t)
SecurityStep(t) == RequestAccess(t) \/ verify_security_access(t)
RoutineStep(t) == StartRoutine(t) \/ FinishRoutine(t) \/ StopRoutine(t)

Request == [session : Sessions, seen : Sessions, time : Nat,
            level : SecurityLevels \cup {0}, routine : RoutineIds]
TesterLabels == {"idle", "validate", "commit", "key", "execute"}

-----------------------------------------------------------------------------
(* Types.                                                                   *)

\* The time is a number, which TypeOK does not say.
TypeInv == TypeOK /\ now \in Nat

LEMMA NoRequestType == NoRequest \in Request
  BY DEF NoRequest, Request, Sessions, RoutineIds

LEMMA AttemptsType ==
  ASSUME TypeOK PROVE Attempts \in 0 .. MaxSecurityAttempts - 1
  BY ServiceAssumption DEF TypeOK, Attempts

\* Where a request is put it is a request.
LEMMA BeginType ==
  ASSUME TypeOK, NEW t \in Testers, NEW label \in TesterLabels, NEW req \in Request,
         Begin(t, label, req)
  PROVE  pc' \in [Testers -> TesterLabels] /\ request' \in [Testers -> Request]
  BY DEF Begin, Goto, TypeOK, TesterLabels, Request

LEMMA ReturnType ==
  ASSUME TypeOK, NEW t \in Testers, Return(t)
  PROVE  pc' \in [Testers -> TesterLabels] /\ request' \in [Testers -> Request]
  BY NoRequestType DEF Return, Goto, TypeOK, TesterLabels, Request

LEMMA SessionStepType ==
  ASSUME TypeInv, NEW t \in Testers, SessionStep(t) PROVE TypeInv'
<1> USE DEF TypeInv, Request, TesterLabels
<1>1. CASE RequestSession(t)
  <2>1. PICK s \in Sessions : Begin(t, "validate", [NoRequest EXCEPT !.session = s])
    BY <1>1 DEF RequestSession
  <2>2. [NoRequest EXCEPT !.session = s] \in Request
    BY NoRequestType
  <2>3. pc' \in [Testers -> TesterLabels] /\ request' \in [Testers -> Request]
    BY <2>1, <2>2, BeginType
  <2> QED BY <1>1, <2>3 DEF RequestSession, TypeOK, sessionVars, attemptVars, routineVars
<1>2. CASE ValidateSession(t)
  <2>1. pc' \in [Testers -> TesterLabels] /\ request' \in [Testers -> Request]
    <3>1. CASE Return(t)
      BY <3>1, ReturnType
    <3>2. CASE /\ Goto(t, "commit")
               /\ request' = [request EXCEPT ![t].seen = current_session]
      BY <3>2 DEF Goto, TypeOK
    <3> QED BY <1>2, <3>1, <3>2 DEF ValidateSession
  <2> QED BY <1>2, <2>1 DEF ValidateSession, TypeOK, sessionVars, attemptVars, routineVars
<1>3. CASE start_diagnostic_session(t)
  BY <1>3, ReturnType DEF start_diagnostic_session, TypeOK, attemptVars, routineVars
<1> QED BY <1>1, <1>2, <1>3 DEF SessionStep

LEMMA SecurityStepType ==
  ASSUME TypeInv, NEW t \in Testers, SecurityStep(t) PROVE TypeInv'
<1> USE DEF TypeInv, Request, TesterLabels
<1>1. CASE RequestAccess(t)
  <2>1. PICK l \in SecurityLevels :
           Begin(t, "key", [NoRequest EXCEPT !.level = l, !.time = now])
    BY <1>1 DEF RequestAccess
  <2>2. [NoRequest EXCEPT !.level = l, !.time = now] \in Request
    BY NoRequestType
  <2>3. pc' \in [Testers -> TesterLabels] /\ request' \in [Testers -> Request]
    BY <2>1, <2>2, BeginType
  <2> QED BY <1>1, <2>3 DEF RequestAccess, TypeOK, sessionVars, attemptVars, routineVars
<1>2. CASE verify_security_access(t)
  <2>1. pc' \in [Testers -> TesterLabels] /\ request' \in [Testers -> Request]
    BY <1>2, ReturnType DEF verify_security_access
  <2>2. now' = now /\ UNCHANGED routineVars
    BY <1>2 DEF verify_security_access
  <2>3. request[t].time \in Nat /\ request[t].level \in SecurityLevels \cup {0}
    BY DEF TypeOK
  <2>4. request[t].time % TimeRange \in 0 .. TimeRange - 1
    BY <2>3, ServiceAssumption
  <2>5. CASE RefuseKey(t)
    BY <2>1, <2>2, <2>5 DEF RefuseKey, TypeOK, sessionVars, attemptVars, routineVars
  <2>6. CASE WrongKey(t)
    <3>1. security_attempts' \in 0 .. MaxSecurityAttempts
      BY <2>6, AttemptsType, ServiceAssumption DEF WrongKey
    <3>2. wrong_keys' \in Seq(Nat)
      BY <2>3, <2>6 DEF WrongKey, TypeOK
    <3> QED BY <2>1, <2>2, <2>4, <2>6, <3>1, <3>2 DEF WrongKey, TypeOK, sessionVars, routineVars
  <2>7. CASE RightKey(t)
    BY <2>1, <2>2, <2>3, <2>7, ServiceAssumption DEF RightKey, TypeOK, routineVars
  <2> QED BY <1>2, <2>5, <2>6, <2>7 DEF verify_security_access
<1> QED BY <1>1, <1>2 DEF SecurityStep

LEMMA RoutineStepType ==
  ASSUME TypeInv, NEW t \in Testers, RoutineStep(t) PROVE TypeInv'
<1> USE DEF TypeInv, Request, TesterLabels
<1>1. CASE StartRoutine(t)
  <2>1. PICK id \in RoutineIds :
          /\ active_routine' = [routine_id |-> id, status |-> 1]
          /\ \/ Begin(t, "execute", [NoRequest EXCEPT !.routine = id])
             \/ Begin(t, "idle", NoRequest)
    BY <1>1 DEF StartRoutine
  <2>2. [NoRequest EXCEPT !.routine = id] \in Request
    BY NoRequestType
  <2>3. pc' \in [Testers -> TesterLabels] /\ request' \in [Testers -> Request]
    BY <2>1, <2>2, NoRequestType, BeginType
  <2> QED BY <1>1, <2>1, <2>3 DEF StartRoutine, TypeOK, sessionVars, attemptVars
<1>2. CASE FinishRoutine(t)
  BY <1>2, ReturnType DEF FinishRoutine, TypeOK, sessionVars, attemptVars
<1>3. CASE StopRoutine(t)
  <2>1. pc' \in [Testers -> TesterLabels] /\ request' \in [Testers -> Request]
    BY <1>3, NoRequestType, BeginType DEF StopRoutine
  <2>2. active_routine' \in [routine_id : RoutineIds, status : 0..1]
    BY <1>3 DEF StopRoutine, NoRoutine, TypeOK
  <2> QED BY <1>3, <2>1, <2>2 DEF StopRoutine, TypeOK, sessionVars, attemptVars
<1> QED BY <1>1, <1>2, <1>3 DEF RoutineStep

LEMMA TypeInvCorrect == Spec => []TypeInv
<1>1. Init => TypeInv
  BY NoRequestType, ServiceAssumption DEF Init, TypeInv, TypeOK, Request, Sessions
<1>2. TypeInv /\ [Next]_vars => TypeInv'
  <2> SUFFICES ASSUME TypeInv, [Next]_vars PROVE TypeInv'
    OBVIOUS
  <2>1. CASE UNCHANGED vars
    BY <2>1 DEF TypeInv, TypeOK, vars, sessionVars, attemptVars, routineVars
  <2>2. CASE Tick
    BY <2>2 DEF Tick, TypeInv, TypeOK, sessionVars, attemptVars, routineVars
  <2> QED BY <2>1, <2>2, SessionStepType, SecurityStepType, RoutineStepType
          DEF Next, SessionStep, SecurityStep, RoutineStep
<1> QED BY <1>1, <1>2, PTL DEF Spec

\* The context of the service keeps its types and its limit of attempts.
THEOREM TypeCorrect == Spec => []TypeOK
  BY TypeInvCorrect, PTL DEF TypeInv

-----------------------------------------------------------------------------
(* Sessions.  A request that was let through remembers the session it was   *)
(* let through from; a step outside the graph means that session is gone.   *)

Validated ==
    \A t \in Testers : pc[t] = "commit" =>
        validate_session_transition(request[t].seen, request[t].session)

LEMMA ValidatedCorrect == Spec => []Validated
<1>1. Init => Validated
  BY DEF Init, Validated
<1>2. TypeInv /\ Validated /\ [Next]_vars => Validated'
  <2> SUFFICES ASSUME TypeInv, Validated, [Next]_vars PROVE Validated'
    OBVIOUS
  <2> USE DEF TypeInv, TypeOK, Validated
  <2>1. ASSUME NEW t \in Testers, ValidateSession(t) PROVE Validated'
    <3>1. CASE Return(t)
      BY <3>1 DEF Return, Goto
    <3>2. CASE /\ validate_session_transition(current_session, request[t].session)
               /\ Goto(t, "commit")
               /\ request' = [request EXCEPT ![t].seen = current_session]
      BY <3>2 DEF Goto
    <3> QED BY <2>1, <3>1, <3>2 DEF ValidateSession
  <2>2. ASSUME NEW t \in Testers,
               \/ RequestSession(t) \/ start_diagnostic_session(t) \/ SecurityStep(t)
               \/ RoutineStep(t)
        PROVE  \A u \in Testers \ {t} : pc'[u] = pc[u] /\ request'[u] = request[u]
    BY <2>2 DEF RequestSession, start_diagnostic_session, SecurityStep, RequestAccess,
       verify_security_access, RoutineStep, StartRoutine, FinishRoutine, StopRoutine,
       Begin, Return, Goto
  <2>3. ASSUME NEW t \in Testers,
               \/ RequestSession(t) \/ start_diagnostic_session(t) \/ SecurityStep(t)
               \/ RoutineStep(t)
        PROVE  pc'[t] # "commit"
    BY <2>3 DEF RequestSession, start_diagnostic_session, SecurityStep, RequestAccess,
       verify_security_access, RoutineStep, StartRoutine, FinishRoutine, StopRoutine,
       Begin, Return, Goto
  <2>4. CASE UNCHANGED <<pc, request>>
    BY <2>4
  <2> QED BY <2>1, <2>2, <2>3, <2>4 DEF Next, Tick, vars, SecurityStep, RoutineStep
<1> QED BY <1>1, <1>2, TypeInvCorrect, PTL DEF Spec

LEMMA AllowedIsInGraph ==
  ASSUME NEW from \in Sessions, NEW to \in Sessions, validate_session_transition(from, to)
  PROVE  <<from, to>> \in SessionGraph
  BY DEF validate_session_transition, SessionGraph, Sessions

\* A session is left against the rules only by a request that another one
\* overtook between its check and its commit.
THEOREM SessionsCorrect == Spec => ForbiddenOnlyIfOvertaken
<1>1. ASSUME TypeInv, Validated, [Next]_vars, current_session' # current_session
      PROVE  \E t \in Testers : start_diagnostic_session(t)
  BY <1>1 DEF Next, RequestSession, ValidateSession, RequestAccess, verify_security_access,
     RefuseKey, WrongKey, RightKey, StartRoutine, FinishRoutine, StopRoutine, Tick,
     vars, sessionVars
<1>2. ASSUME TypeInv, Validated, [Next]_vars, current_session' # current_session,
             <<current_session, current_session'>> \notin SessionGraph
      PROVE  \E t \in Testers : pc[t] = "commit" /\ request[t].seen # current_session
  <2>1. PICK t \in Testers : start_diagnostic_session(t)
    BY <1>1, <1>2
  <2>2. pc[t] = "commit" /\ current_session' = request[t].session
    BY <2>1 DEF start_diagnostic_session
  <2>3. validate_session_transition(request[t].seen, current_session')
    BY <1>2, <2>2 DEF Validated
  <2>4. current_session \in Sessions /\ current_session' \in Sessions
    BY <1>2, <2>2 DEF TypeInv, TypeOK
  <2>5. request[t].seen # current_session
    BY <1>2, <2>3, <2>4, AllowedIsInGraph
  <2> QED BY <2>2, <2>5
<1>3. TypeInv /\ Validated /\ [Next]_vars =>
        [current_session' # current_session
            /\ <<current_session, current_session'>> \notin SessionGraph
         => \E t \in Testers : pc[t] = "commit" /\ request[t].seen # current_session]_vars
  BY <1>2
<1> QED BY <1>3, TypeInvCorrect, ValidatedCorrect, PTL DEF Spec, ForbiddenOnlyIfOvertaken

-----------------------------------------------------------------------------
(* Routines.  Running is the set RunningIsActive speaks of.                 *)

Running == {t \in Testers : pc[t] = "execute"} \ stopped

RoutineInv ==
    /\ \A t \in Running : Active /\ active_routine.routine_id = request[t].routine
    /\ \A t, u \in Running : t = u

\* A step of another service leaves the routines alone.
LEMMA OtherStepRoutines ==
  ASSUME TypeInv, NEW t \in Testers, SessionStep(t) \/ SecurityStep(t)
  PROVE  /\ UNCHANGED routineVars
         /\ Running' = Running
         /\ \A u \in Running : request'[u] = request[u]
<1>1. UNCHANGED routineVars
  BY DEF SessionStep, RequestSession, ValidateSession, start_diagnostic_session,
     SecurityStep, RequestAccess, verify_security_access
<1>2. pc[t] # "execute" /\ pc'[t] # "execute"
  BY DEF TypeInv, TypeOK, SessionStep, RequestSession, ValidateSession,
     start_diagnostic_session, SecurityStep, RequestAccess, verify_security_access,
     Begin, Return, Goto
<1>3. \A u \in Testers \ {t} : pc'[u] = pc[u] /\ request'[u] = request[u]
  BY DEF TypeInv, TypeOK, SessionStep, RequestSession, ValidateSession,
     start_diagnostic_session, SecurityStep, RequestAccess, verify_security_access,
     Begin, Return, Goto
<1> QED BY <1>1, <1>2, <1>3 DEF Running, routineVars

LEMMA RoutineStepInv ==
  ASSUME TypeInv, RoutineInv, NEW t \in Testers, RoutineStep(t) PROVE RoutineInv'
<1> USE DEF TypeInv, TypeOK, RoutineInv, Running
<1>1. CASE StartRoutine(t)
  <2>1. PICK id \in RoutineIds :
          /\ ~Active
          /\ active_routine' = [routine_id |-> id, status |-> 1]
          /\ \/ Begin(t, "execute", [NoRequest EXCEPT !.routine = id])
             \/ Begin(t, "idle", NoRequest)
    BY <1>1 DEF StartRoutine
  <2>2. Running = {} /\ stopped' = stopped \ {t}
    BY <1>1, <2>1 DEF StartRoutine
  <2>3. \A u \in Testers \ {t} : pc'[u] = pc[u]
    BY <2>1 DEF Begin, Goto
  <2>4. Running' \subseteq {t}
    BY <2>2, <2>3
  <2>5. Active'
    BY <2>1 DEF Active, NoRoutine
  <2>6. t \in Running' => request'[t].routine = id
    BY <2>1 DEF Begin, Goto, NoRequest
  <2> QED BY <2>1, <2>4, <2>5, <2>6
<1>2. CASE FinishRoutine(t)
  <2>1. Running' \subseteq Running /\ \A u \in Running' : request'[u] = request[u]
    BY <1>2 DEF FinishRoutine, Return, Goto
  <2> QED BY <1>2, <2>1 DEF FinishRoutine, Active
<1>3. CASE StopRoutine(t)
  BY <1>3 DEF StopRoutine, Begin, Goto
<1> QED BY <1>1, <1>2, <1>3 DEF RoutineStep

LEMMA RoutineInvCorrect == Spec => []RoutineInv
<1>1. Init => RoutineInv
  BY DEF Init, RoutineInv, Running
<1>2. TypeInv /\ RoutineInv /\ [Next]_vars => RoutineInv'
  <2> SUFFICES ASSUME TypeInv, RoutineInv, [Next]_vars PROVE RoutineInv'
    OBVIOUS
  <2>1. ASSUME NEW t \in Testers, SessionStep(t) \/ SecurityStep(t) PROVE RoutineInv'
    BY <2>1, OtherStepRoutines DEF RoutineInv, routineVars, Active
  <2>2. CASE UNCHANGED <<pc, request, routineVars>>
    BY <2>2 DEF RoutineInv, Running, routineVars, Active
  <2> QED BY <2>1, <2>2, RoutineStepInv
          DEF Next, Tick, vars, SessionStep, SecurityStep, RoutineStep
<1> QED BY <1>1, <1>2, TypeInvCorrect, PTL DEF Spec

\* Of the routines nobody has stopped at most one runs, and it is the active
\* one, however many testers there are.
THEOREM RoutinesCorrect == Spec => []RunningIsActive
<1>1. RoutineInv => RunningIsActive
  <2> SUFFICES ASSUME RoutineInv PROVE RunningIsActive
    OBVIOUS
  <2>1. Cardinality(Running) <= 1
    <3>1. CASE Running = {}
      BY <3>1, FS_EmptySet
    <3>2. ASSUME NEW t \in Running PROVE Cardinality(Running) = 1
      <4>1. Running = {t}
        BY DEF RoutineInv
      <4>2. Cardinality({t}) = 1
        BY FS_Singleton
      <4> QED BY <4>1, <4>2
    <3> QED BY <3>1, <3>2
  <2> QED BY <2>1 DEF RunningIsActive, RoutineInv, Running
<1> QED BY <1>1, RoutineInvCorrect, PTL

-----------------------------------------------------------------------------
(* Wrong keys.  The keys counted in security_attempts are the last ones; all *)
(* others are older than the lockout, by the full 64-bit times although only *)
(* their 32 bits are ever subtracted.                                        *)

\* A difference of times that wraps is never longer than the time that passed.
LEMMA WrappedDifference ==
  ASSUME NEW T \in Nat \ {0}, NEW a \in Nat, NEW b \in Nat, b <= a
  PROVE  ((a % T) - (b % T)) % T <= a - b
<1> DEFINE A == a \div T
           B == b \div T
           x == a % T
           y == b % T
<1>1. A \in Nat /\ B \in Nat /\ x \in 0 .. T - 1 /\ y \in 0 .. T - 1
  OBVIOUS
<1>2. a = T * A + x /\ b = T * B + y
  OBVIOUS
<1> HIDE DEF A, B, x, y
<1>3. T * A - T * B = T * (A - B)
  BY <1>1
<1>4. CASE x >= y
  <2>1. (x - y) % T = x - y
    BY <1>1, <1>4
  <2>2. A >= B
    <3>1. SUFFICES ASSUME A <= B - 1 PROVE FALSE
      BY <1>1
    <3>2. T * A <= T * (B - 1)
      BY <1>1, <3>1
    <3>3. T * (B - 1) = T * B - T
      BY <1>1
    <3> QED BY <1>1, <1>2, <3>2, <3>3
  <2>3. T * A >= T * B
    BY <1>1, <2>2
  <2> QED BY <1>1, <1>2, <2>1, <2>3 DEF x, y
<1>5. CASE x < y
  <2>1. (x - y) % T = x - y + T
    BY <1>1, <1>5
  <2>2. A >= B + 1
    <3>1. SUFFICES ASSUME A <= B PROVE FALSE
      BY <1>1
    <3>2. T * A <= T * B
      BY <1>1, <3>1
    <3>3. T * A \in Nat /\ T * B \in Nat
      BY <1>1
    <3> QED BY <1>1, <1>2, <1>5, <3>2, <3>3
  <2>3. T * A >= T * (B + 1)
    BY <1>1, <2>2
  <2>4. T * (B + 1) = T * B + T
    BY <1>1
  <2>5. T * A \in Nat /\ T * B \in Nat
    BY <1>1
  <2> QED BY <1>1, <1>2, <2>1, <2>3, <2>4, <2>5 DEF x, y
<1> QED BY <1>1, <1>4, <1>5

\* Key k was looked at a lockout before the last one.
Old(k) == wrong_keys[k] <= LastWrong - LockoutTime

KeysInv ==
    /\ wrong_keys = <<>> => security_attempts = 0
    /\ security_attempts <= Len(wrong_keys)
    /\ ~overtaken /\ wrong_keys # <<>> =>
          /\ last_security_attempt = LastWrong % TimeRange
          /\ \A k \in DOMAIN wrong_keys : wrong_keys[k] <= LastWrong
          /\ \A k \in DOMAIN wrong_keys : k <= Len(wrong_keys) - security_attempts => Old(k)

LEMMA WrongKeyKeeps ==
  ASSUME TypeInv, KeysInv, NEW t \in Testers, WrongKey(t) PROVE KeysInv'
<1> DEFINE time == request[t].time
           L == Len(wrong_keys)
<1>1. /\ time \in Nat /\ wrong_keys \in Seq(Nat) /\ L \in Nat /\ DOMAIN wrong_keys = 1 .. L
      /\ security_attempts \in 0 .. MaxSecurityAttempts /\ MaxSecurityAttempts \in Nat \ {0}
      /\ LockoutTime \in Nat \ {0} /\ TimeRange \in Nat \ {0}
      /\ \A k \in DOMAIN wrong_keys : wrong_keys[k] \in Nat
  BY ServiceAssumption DEF TypeInv, TypeOK
<1>2. /\ ~LockedOut(time % TimeRange)
      /\ security_attempts' = Attempts + 1
      /\ last_security_attempt' = time % TimeRange
      /\ wrong_keys' = Append(wrong_keys, time)
      /\ overtaken' = (overtaken \/ (wrong_keys # <<>> /\ time < LastWrong))
  BY DEF WrongKey
<1>0. ~overtaken' => ~overtaken /\ (wrong_keys = <<>> \/ ~(time < LastWrong))
  BY <1>2, Zenon
<1> HIDE DEF time
<1>3. /\ Len(wrong_keys') = L + 1 /\ wrong_keys' # <<>> /\ DOMAIN wrong_keys' = 1 .. L + 1
      /\ wrong_keys'[L + 1] = time /\ LastWrong' = time
      /\ \A k \in 1 .. L : wrong_keys'[k] = wrong_keys[k]
  BY <1>1, <1>2 DEF LastWrong
<1>4. Attempts \in Nat /\ Attempts <= L
  BY <1>1 DEF Attempts, KeysInv
<1>5. ASSUME ~overtaken'
      PROVE  /\ \A k \in DOMAIN wrong_keys' : wrong_keys'[k] <= time
             /\ \A k \in DOMAIN wrong_keys' : k <= L - Attempts => wrong_keys'[k] <= time - LockoutTime
  <2>1. CASE wrong_keys = <<>>
    <3>1. L = 0
      BY <2>1
    <3> QED BY <1>1, <1>3, <1>4, <3>1
  <2>2. CASE wrong_keys # <<>>
    <3>1. LastWrong \in Nat
      <4>1. L \in DOMAIN wrong_keys
        BY <1>1, <2>2
      <4> QED BY <1>1, <4>1 DEF LastWrong
    <3>2. /\ LastWrong <= time /\ last_security_attempt = LastWrong % TimeRange
          /\ \A k \in 1 .. L : wrong_keys[k] <= LastWrong
          /\ \A k \in 1 .. L : k <= L - security_attempts =>
                wrong_keys[k] <= LastWrong - LockoutTime
      <4>1. ~overtaken /\ ~(time < LastWrong)
        BY <1>0, <1>5, <2>2
      <4>2. LastWrong <= time
        BY <1>1, <3>1, <4>1
      <4>3. /\ last_security_attempt = LastWrong % TimeRange
            /\ \A k \in DOMAIN wrong_keys : wrong_keys[k] <= LastWrong
            /\ \A k \in DOMAIN wrong_keys : k <= L - security_attempts => Old(k)
        BY <2>2, <4>1, Zenon DEF KeysInv
      <4> QED BY <1>1, <4>2, <4>3 DEF Old
    <3>3. \A k \in 1 .. L : wrong_keys[k] <= time
      BY <1>1, <3>1, <3>2
    <3>4. ASSUME NEW k \in 1 .. L, k <= L - Attempts PROVE wrong_keys[k] <= time - LockoutTime
      <4>1. CASE security_attempts >= MaxSecurityAttempts
        <5> DEFINE diff == ((time % TimeRange) - (LastWrong % TimeRange)) % TimeRange
        <5>1. ~(diff < LockoutTime)
          BY <1>2, <3>2, <4>1 DEF LockedOut
        <5>0. diff \in Int
          <6>1. time % TimeRange \in Int /\ LastWrong % TimeRange \in Int
            BY <1>1, <3>1
          <6> QED BY <1>1, <6>1
        <5>2. diff <= time - LastWrong
          BY <1>1, <3>1, <3>2, WrappedDifference
        <5> HIDE DEF diff
        <5>3. LastWrong <= time - LockoutTime
          BY <1>1, <3>1, <5>0, <5>1, <5>2
        <5> QED BY <1>1, <3>1, <3>2, <5>3
      <4>2. CASE ~(security_attempts >= MaxSecurityAttempts)
        <5>1. Attempts = security_attempts
          BY <4>2 DEF Attempts
        <5>2. wrong_keys[k] <= LastWrong - LockoutTime
          BY <3>2, <3>4, <5>1
        <5> QED BY <1>1, <3>1, <3>2, <5>2
      <4> QED BY <4>1, <4>2
    <3>5. \A k \in DOMAIN wrong_keys' : k = L + 1 \/ k \in 1 .. L
      BY <1>1, <1>3
    <3>6. time <= time /\ ~(L + 1 <= L - Attempts)
      BY <1>1, <1>4
    <3>7. \A k \in DOMAIN wrong_keys' : wrong_keys'[k] <= time
      BY <1>3, <3>3, <3>5, <3>6
    <3>8. \A k \in DOMAIN wrong_keys' :
             k <= L - Attempts => wrong_keys'[k] <= time - LockoutTime
      BY <1>3, <3>4, <3>5, <3>6
    <3> QED BY <3>7, <3>8
  <2> QED BY <2>1, <2>2
<1>6. (\A k \in DOMAIN wrong_keys : Old(k))' <=>
         \A k \in DOMAIN wrong_keys' : wrong_keys'[k] <= time - LockoutTime
  BY <1>3 DEF Old
<1>7. Len(wrong_keys') - security_attempts' = L - Attempts
  BY <1>1, <1>2, <1>3, <1>4
<1>8. ~overtaken' =>
         \A k \in DOMAIN wrong_keys' :
            k <= Len(wrong_keys') - security_attempts' => wrong_keys'[k] <= LastWrong' - LockoutTime
  BY <1>3, <1>5, <1>7
<1>9. security_attempts' <= Len(wrong_keys')
  BY <1>1, <1>2, <1>3, <1>4
<1> QED BY <1>2, <1>3, <1>5, <1>8, <1>9 DEF KeysInv, Old

LEMMA KeysInvCorrect == Spec => []KeysInv
<1>1. Init => KeysInv
  BY DEF Init, KeysInv
<1>2. TypeInv /\ KeysInv /\ [Next]_vars => KeysInv'
  <2> SUFFICES ASSUME TypeInv, KeysInv, [Next]_vars PROVE KeysInv'
    OBVIOUS
  <2>1. CASE UNCHANGED attemptVars
    BY <2>1 DEF KeysInv, Old, LastWrong, attemptVars
  <2>2. ASSUME NEW t \in Testers, RightKey(t) PROVE KeysInv'
    BY <2>2 DEF RightKey, KeysInv
  <2>3. ASSUME NEW t \in Testers, verify_security_access(t) PROVE KeysInv'
    BY <2>1, <2>2, <2>3, WrongKeyKeeps DEF verify_security_access, RefuseKey
  <2>4. CASE UNCHANGED vars \/ Tick
    BY <2>1, <2>4 DEF vars, Tick
  <2>5. ASSUME NEW t \in Testers, SessionStep(t) \/ RequestAccess(t) \/ RoutineStep(t)
        PROVE  UNCHANGED attemptVars
    BY <2>5 DEF SessionStep, RequestSession, ValidateSession, start_diagnostic_session,
       RequestAccess, RoutineStep, StartRoutine, FinishRoutine, StopRoutine
  <2> QED BY <2>1, <2>3, <2>4, <2>5 DEF Next, SessionStep, RoutineStep
<1> QED BY <1>1, <1>2, TypeInvCorrect, PTL DEF Spec

\* Within one lockout time never more wrong keys are looked at than
\* MAX_SECURITY_ATTEMPTS, for any limits, any number of testers and any time the
\* service runs, although the difference of two 32-bit times is all that
\* verify_security_access looks at: unless a request that took its time earlier
\* got context_lock later.
THEOREM WrongKeysCorrect == Spec => []WrongKeysLimited
<1>1. TypeInv /\ KeysInv => WrongKeysLimited
  <2> SUFFICES ASSUME TypeInv, KeysInv, ~overtaken, wrong_keys # <<>>
               PROVE  Cardinality({k \in DOMAIN wrong_keys :
                                     wrong_keys[k] > LastWrong - LockoutTime})
                        <= MaxSecurityAttempts
    BY DEF WrongKeysLimited
  <2> DEFINE L == Len(wrong_keys)
             recent == {k \in DOMAIN wrong_keys : wrong_keys[k] > LastWrong - LockoutTime}
             counted == L - security_attempts + 1 .. L
  <2>1. /\ wrong_keys \in Seq(Nat) /\ L \in Nat /\ DOMAIN wrong_keys = 1 .. L
        /\ security_attempts \in 0 .. MaxSecurityAttempts /\ MaxSecurityAttempts \in Nat
        /\ LockoutTime \in Nat /\ LastWrong \in Nat /\ security_attempts <= L
        /\ \A k \in DOMAIN wrong_keys : wrong_keys[k] \in Nat
    <3>1. wrong_keys \in Seq(Nat) /\ L \in Nat \ {0} /\ DOMAIN wrong_keys = 1 .. L
      BY DEF TypeInv, TypeOK
    <3>2. L \in DOMAIN wrong_keys
      BY <3>1
    <3> QED BY <3>1, <3>2, ServiceAssumption DEF TypeInv, TypeOK, LastWrong, KeysInv
  <2>2. \A k \in 1 .. L : k <= L - security_attempts => wrong_keys[k] <= LastWrong - LockoutTime
    BY <2>1 DEF KeysInv, Old
  <2>3. recent \subseteq counted
    <3> SUFFICES ASSUME NEW k \in 1 .. L, wrong_keys[k] > LastWrong - LockoutTime
                 PROVE  k \in counted
      BY <2>1
    <3>1. ~(k <= L - security_attempts)
      BY <2>1, <2>2
    <3> QED BY <2>1, <3>1
  <2>4. IsFiniteSet(counted) /\ Cardinality(counted) = security_attempts
    <3>1. L - security_attempts + 1 \in Int /\ L \in Int
      BY <2>1
    <3>2. L - security_attempts + 1 > L => security_attempts = 0
      BY <2>1
    <3>3. L - (L - security_attempts + 1) + 1 = security_attempts
      BY <2>1
    <3> HIDE DEF L
    <3> QED BY <3>1, <3>2, <3>3, FS_Interval
  <2> HIDE DEF counted, recent
  <2>5. Cardinality(recent) <= Cardinality(counted)
    BY <2>3, <2>4, FS_Subset
  <2>6. Cardinality(recent) \in Nat
    BY <2>3, <2>4, FS_Subset, FS_CardinalityType
  <2> QED BY <2>1, <2>4, <2>5, <2>6 DEF recent
<1> QED BY <1>1, TypeInvCorrect, KeysInvCorrect, PTL
=============================================================================
