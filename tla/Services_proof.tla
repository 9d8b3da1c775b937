---------------------------- MODULE Services_proof ----------------------------
(***************************************************************************)
(* Theorems about Services, for any number of segments, obstacles, lengths,  *)
(* characters and all bounds the assumptions of the modules allow.  The types *)
(* come last, because some of them need the invariants of their service.      *)
(***************************************************************************)
EXTENDS RuntimeStats_proof, FiniteSetTheorems, SequenceTheorems, TLAPS

LEMMA SeqElement ==
  ASSUME NEW S, NEW s \in Seq(S), NEW i \in DOMAIN s PROVE s[i] \in S
  OBVIOUS

-----------------------------------------------------------------------------
(* Safety goals.                                                            *)

\* What LateGoalsStayLate says of the time at which the entry was found late.
FoundLate(i) ==
    /\ late_since[i] <= goal_clock
    /\ late_since[i] > 0 /\ safety_goals[i].last_verified <= late_since[i]
       => late_since[i] - safety_goals[i].last_verified > safety_goals[i].timeout_ms

\* While the 32-bit clock has not come round, its readings are the time.
BeforeWrap ==
    goal_clock < GoalTimeRange =>
        current_time <= goal_clock /\ \A i \in GoalSlots : FoundLate(i)

Additions == [at : {"idle", "count", "copy"}, goal : Goals, slot : 0 .. 255]

GoalInv ==
    /\ safety_goals \in [GoalSlots -> Goals]
    /\ late_since \in [GoalSlots -> Nat]
    /\ adding \in [GoalRegistrars -> Additions]
    /\ num_goals \in 0 .. 255
    /\ goal_clock \in Nat /\ current_time \in Nat
    /\ BeforeWrap

\* A remainder is no larger than what is divided, and all of it if that is small.
LEMMA Remainder ==
  ASSUME NEW n \in Nat \ {0}, NEW a \in Nat PROVE a % n \in Nat /\ a % n <= a
  OBVIOUS

LEMMA SmallRemainder ==
  ASSUME NEW n \in Nat \ {0}, NEW a \in 0 .. n - 1 PROVE a % n = a
  OBVIOUS

\* What a registrar does to its own record, and to an entry that nobody has
\* found late since.
LEMMA RegistrationKeeps ==
  ASSUME GoalInv, NEW t \in GoalRegistrars, Registration(t) PROVE GoalInv'
<1> USE DEF GoalInv, Additions
<1>1. UNCHANGED <<goal_clock, current_time>> /\ adding[t] \in Additions
  BY DEF Registration, register_safety_goal, LoadGoalsAgain, CountGoal, CopyGoal, loopVars
<1>2. ASSUME NEW g \in GoalCandidates, NEW time \in {0, goal_clock % GoalTimeRange},
             register_safety_goal(t, g, time)
      PROVE  GoalInv'
  <2>1. time \in Nat
    BY GoalAssumption, Remainder
  <2>2. [g EXCEPT !.last_verified = time] \in Goals
    BY <2>1, GoalAssumption DEF Goals
  <2>3. adding' \in [GoalRegistrars -> Additions]
    BY <1>2, <2>2 DEF register_safety_goal
  <2> QED BY <1>1, <1>2, <2>3 DEF register_safety_goal, BeforeWrap, FoundLate
<1>3. CASE LoadGoalsAgain(t)
  BY <1>1, <1>3 DEF LoadGoalsAgain, BeforeWrap, FoundLate
<1>4. CASE CountGoal(t)
  <2>1. num_goals' \in 0 .. 255
    BY <1>1, <1>4 DEF CountGoal
  <2>2. adding' \in [GoalRegistrars -> Additions]
    BY <1>1, <1>4 DEF CountGoal
  <2> QED BY <1>1, <1>4, <2>1, <2>2 DEF CountGoal, BeforeWrap, FoundLate
<1>5. CASE CopyGoal(t)
  <2>1. /\ safety_goals' = [i \in GoalSlots |-> IF i = adding[t].slot + 1 THEN adding[t].goal ELSE safety_goals[i]]
        /\ late_since' = [i \in GoalSlots |-> IF i = adding[t].slot + 1 THEN 0 ELSE late_since[i]]
        /\ adding' = [adding EXCEPT ![t] = NotAdding]
        /\ num_goals' = num_goals
    BY <1>5 DEF CopyGoal
  <2>2. safety_goals' \in [GoalSlots -> Goals] /\ late_since' \in [GoalSlots -> Nat]
    BY <1>1, <2>1
  <2>3. NotAdding \in Additions
    BY DEF NotAdding, ZeroGoal, Goals
  <2>4. adding' \in [GoalRegistrars -> Additions]
    BY <2>1, <2>3
  <2>5. ASSUME goal_clock < GoalTimeRange, NEW i \in GoalSlots PROVE FoundLate(i)'
    BY <1>1, <2>1, <2>5 DEF BeforeWrap, FoundLate
  <2> QED BY <1>1, <2>1, <2>2, <2>4, <2>5 DEF BeforeWrap
<1> QED BY <1>2, <1>3, <1>4, <1>5 DEF Registration

LEMMA CheckGoalStep == ASSUME GoalInv, CheckGoal PROVE GoalInv'
<1> USE DEF GoalInv, Additions
<1> DEFINE g == safety_goals[goal_index]
<1>1. /\ goal_index \in GoalSlots
      /\ LateGoal(g) \/ VerifiedGoal(g) \/ FailedGoal(g) \/ CallNothing(g)
      /\ UNCHANGED <<num_goals, adding, goal_clock, current_time>>
  BY DEF CheckGoal
<1>2. g \in Goals /\ g.last_verified \in Nat /\ g.timeout_ms \in Nat
  BY <1>1 DEF Goals
<1>3. CASE LateGoal(g)
  <2>1. safety_goals' = safety_goals
    BY <1>3 DEF LateGoal
  <2>2. late_since' = [late_since EXCEPT ![goal_index] = IF @ = 0 THEN current_time ELSE @]
    BY <1>3 DEF LateGoal
  <2>3. late_since' \in [GoalSlots -> Nat]
    BY <1>1, <2>2
  <2>4. ASSUME goal_clock < GoalTimeRange, NEW i \in GoalSlots PROVE FoundLate(i)'
    <3>1. CASE i = goal_index /\ late_since[i] = 0
      <4>1. late_since'[i] = current_time
        BY <2>2, <3>1
      <4>2. SUFFICES ASSUME g.last_verified <= current_time
                     PROVE  current_time - g.last_verified > g.timeout_ms
        BY <1>1, <2>1, <2>4, <3>1, <4>1 DEF FoundLate, BeforeWrap
      <4>3. current_time - g.last_verified \in 0 .. GoalTimeRange - 1 /\ GoalTimeRange \in Nat \ {0}
        BY <1>2, <2>4, <4>2, GoalAssumption DEF BeforeWrap
      <4>4. (current_time - g.last_verified) % GoalTimeRange = current_time - g.last_verified
        BY <4>3, SmallRemainder
      <4> QED BY <1>3, <4>4 DEF LateGoal, GoalLate
    <3>2. CASE ~(i = goal_index /\ late_since[i] = 0)
      <4>1. late_since'[i] = late_since[i]
        BY <2>2, <3>2
      <4> QED BY <1>1, <2>1, <2>4, <4>1 DEF BeforeWrap, FoundLate
    <3> QED BY <3>1, <3>2
  <2> QED BY <1>1, <2>1, <2>3, <2>4 DEF BeforeWrap
<1>4. CASE VerifiedGoal(g)
  <2>1. /\ safety_goals' = [safety_goals EXCEPT ![goal_index].last_verified = current_time]
        /\ late_since' = [late_since EXCEPT ![goal_index] = 0]
    BY <1>4 DEF VerifiedGoal
  <2>2. [g EXCEPT !.last_verified = current_time] \in Goals
    BY <1>2 DEF Goals
  <2>3. safety_goals' \in [GoalSlots -> Goals] /\ late_since' \in [GoalSlots -> Nat]
    BY <1>1, <2>1, <2>2
  <2>4. ASSUME goal_clock < GoalTimeRange, NEW i \in GoalSlots PROVE FoundLate(i)'
    BY <1>1, <2>1, <2>4 DEF BeforeWrap, FoundLate
  <2> QED BY <1>1, <2>1, <2>3, <2>4 DEF BeforeWrap
<1>5. CASE FailedGoal(g) \/ CallNothing(g)
  BY <1>1, <1>5 DEF FailedGoal, CallNothing, BeforeWrap, FoundLate
<1> QED BY <1>1, <1>3, <1>4, <1>5

LEMMA GoalStepKeeps == ASSUME GoalInv, GoalsNext PROVE GoalInv'
<1> USE DEF GoalInv, Additions
<1>1. CASE \E t \in GoalRegistrars : Registration(t)
  BY <1>1, RegistrationKeeps
<1>2. CASE StartGoalCheck
  <2>1. goal_clock % GoalTimeRange \in Nat /\ goal_clock % GoalTimeRange <= goal_clock
    BY GoalAssumption, Remainder
  <2> QED BY <1>2, <2>1 DEF StartGoalCheck, BeforeWrap, FoundLate, registrationVars
<1>3. CASE CheckGoal
  BY <1>3, CheckGoalStep
<1>4. CASE CheckBehindTable \/ EndGoalCheck
  BY <1>4 DEF CheckBehindTable, EndGoalCheck, BeforeWrap, FoundLate, registrationVars
<1>5. CASE GoalClock
  <2>1. goal_clock' = goal_clock + 1 /\ UNCHANGED <<safety_goals, num_goals, adding, late_since, current_time>>
    BY <1>5 DEF GoalClock, registrationVars, loopVars
  <2>2. BeforeWrap'
    BY <2>1, GoalAssumption DEF BeforeWrap, FoundLate
  <2> QED BY <2>1, <2>2
<1> QED BY <1>1, <1>2, <1>3, <1>4, <1>5 DEF GoalsNext, monitor_safety_goals

LEMMA GoalNext == GoalInv /\ [Next]_vars => GoalInv'
<1> SUFFICES ASSUME GoalInv, [Next]_vars PROVE GoalInv'
  OBVIOUS
<1>1. CASE GoalStep
  BY <1>1, GoalStepKeeps DEF GoalStep
<1>2. CASE UNCHANGED goalVars
  BY <1>2 DEF goalVars, registrationVars, loopVars, GoalInv, BeforeWrap, FoundLate
<1> QED BY <1>1, <1>2 DEF Next, vars, StatsStep, NotificationStep, IsoTpStep, VcuStep,
        RoadStep, WifiStep

LEMMA InitGoals == GoalsInit => GoalInv
<1> SUFFICES ASSUME GoalsInit PROVE GoalInv
  OBVIOUS
<1>1. ZeroGoal \in Goals
  BY DEF ZeroGoal, Goals
<1>2. NotAdding \in Additions
  BY <1>1 DEF NotAdding, Additions
<1> QED BY <1>1, <1>2 DEF GoalsInit, GoalInv, BeforeWrap, FoundLate

LEMMA LateStaysLate == GoalInv => LateGoalsStayLate
<1> SUFFICES ASSUME GoalInv, NEW i \in GoalSlots,
                    late_since[i] > 0, safety_goals[i].last_verified <= late_since[i],
                    goal_clock < GoalTimeRange
             PROVE  goal_clock - safety_goals[i].last_verified > safety_goals[i].timeout_ms
  BY DEF LateGoalsStayLate
<1>1. safety_goals[i].last_verified \in Nat /\ safety_goals[i].timeout_ms \in Nat
  BY DEF Goals, GoalInv
<1>2. FoundLate(i)
  BY DEF GoalInv, BeforeWrap
<1> QED BY <1>1, <1>2 DEF GoalInv, FoundLate

\* A goal found late is never verified again while the clock does not come
\* round, for any registrars that race for the table and any goals.
THEOREM GoalsCorrect == Spec => []LateGoalsStayLate
<1>1. Init => GoalInv
  BY InitGoals DEF Init
<1> QED BY <1>1, GoalNext, LateStaysLate, PTL DEF Spec

-----------------------------------------------------------------------------
(* Notifications.                                                           *)

\* Numbers go through the queue, the thread and the callbacks in the order of
\* their size, so that what is taken is in none of the later places yet.
SignalInv ==
    /\ signal_queue \in Seq(Signals)
    /\ in_thread \in Signals \cup {NoSignal}
    /\ signals_sent \in Nat /\ called \in Seq(Nat)
    /\ SignalsConsumedOnce
    /\ \A i, j \in DOMAIN signal_queue : i < j => signal_queue[i].n < signal_queue[j].n
    /\ \A c \in Calls, q \in Queued : c < q
    /\ \A t \in Taken, q \in Queued : t < q
    /\ \A t \in Taken, c \in Calls : c <= t

\* The ring only fills: its tail is the number of events it has taken.
RingInv ==
    /\ queue_head = 0 /\ queue_tail = published.ok
    /\ published \in [ok : Nat, full : Nat]
    /\ EventsAcceptedOnce

\* Everything the invariant is about; receivers and the table of callbacks are not.
tracked == <<signal_queue, in_thread, signals_sent, called, received, discarded>>

LEMMA TrackedUnchanged == ASSUME SignalInv, UNCHANGED tracked PROVE SignalInv'
<1>1. UNCHANGED <<signal_queue, in_thread, signals_sent, called, received, discarded>>
  BY DEF tracked
<1>2. Calls' = Calls /\ Queued' = Queued /\ Taken' = Taken
  BY <1>1 DEF Calls, Queued, Taken
<1>3. SignalsConsumedOnce'
  BY <1>1, <1>2 DEF SignalInv, SignalsConsumedOnce
<1> QED BY <1>1, <1>2, <1>3 DEF SignalInv

LEMMA SignalSendStep ==
  ASSUME SignalInv, NEW id \in SignalIds, signal_send(id) PROVE SignalInv'
<1> USE DEF SignalInv
<1> DEFINE new == [id |-> id, n |-> signals_sent + 1]
<1>1. /\ signals_sent' = signals_sent + 1
      /\ UNCHANGED <<in_thread, called, received>>
      /\ Calls' = Calls /\ Taken' = Taken
  BY DEF signal_send, threadVars, Calls, Taken
<1>2. 1 .. signals_sent' = (1 .. signals_sent) \cup {signals_sent + 1}
  BY <1>1
<1>3. signals_sent + 1 \notin 1 .. signals_sent
  OBVIOUS
<1>4. CASE Len(signal_queue) < MaxSignals
  <2>1. signal_queue' = Append(signal_queue, new) /\ UNCHANGED discarded
    BY <1>4 DEF signal_send
  <2>2. new \in Signals
    BY DEF Signals
  <2>3. signal_queue' \in Seq(Signals)
    BY <2>1, <2>2
  <2>4. /\ DOMAIN signal_queue' = DOMAIN signal_queue \cup {Len(signal_queue) + 1}
        /\ \A i \in DOMAIN signal_queue : signal_queue'[i] = signal_queue[i]
        /\ signal_queue'[Len(signal_queue) + 1] = new
    BY <2>1, <2>2
  <2>5. Queued' = Queued \cup {signals_sent + 1}
    BY <2>4 DEF Queued
  <2>6. SignalsConsumedOnce'
    BY <1>1, <1>2, <1>3, <2>1, <2>5 DEF SignalsConsumedOnce
  <2>7. \A x \in Queued \cup Taken \cup Calls : x \in 1 .. signals_sent
    BY DEF SignalsConsumedOnce
  <2>8. \A i, j \in DOMAIN signal_queue' : i < j => signal_queue'[i].n < signal_queue'[j].n
    <3>1. \A i \in DOMAIN signal_queue : signal_queue[i].n \in 1 .. signals_sent
      BY <2>7 DEF Queued
    <3>2. new.n = signals_sent + 1
      OBVIOUS
    <3>3. DOMAIN signal_queue = 1 .. Len(signal_queue) /\ Len(signal_queue) \in Nat
      OBVIOUS
    <3> QED BY <2>4, <3>1, <3>2, <3>3
  <2> QED BY <1>1, <2>3, <2>5, <2>6, <2>7, <2>8
<1>5. CASE ~(Len(signal_queue) < MaxSignals)
  <2>1. UNCHANGED signal_queue /\ discarded' = discarded \cup {signals_sent + 1}
    BY <1>5 DEF signal_send
  <2>2. Queued' = Queued
    BY <2>1 DEF Queued
  <2>3. SignalsConsumedOnce'
    BY <1>1, <1>2, <1>3, <2>1, <2>2 DEF SignalsConsumedOnce
  <2> QED BY <1>1, <2>1, <2>2, <2>3
<1> QED BY <1>4, <1>5

\* Whoever takes the oldest signal takes the smallest number.
LEMMA GetOldest ==
  ASSUME SignalInv, Get
  PROVE  /\ signal_queue' \in Seq(Signals) /\ Head(signal_queue) \in Signals
         /\ Queued = Queued' \cup {Head(signal_queue).n}
         /\ \A q \in Queued' : Head(signal_queue).n < q
         /\ \A i, j \in DOMAIN signal_queue' :
                i < j => signal_queue'[i].n < signal_queue'[j].n
<1> USE DEF SignalInv
<1>1. signal_queue # <<>> /\ signal_queue' = Tail(signal_queue)
  BY DEF Get
<1>2. signal_queue' \in Seq(Signals) /\ Head(signal_queue) \in Signals
  BY <1>1
<1>3. /\ Len(signal_queue) \in Nat \ {0} /\ Len(signal_queue') = Len(signal_queue) - 1
      /\ 1 \in DOMAIN signal_queue /\ Head(signal_queue) = signal_queue[1]
      /\ \A i \in DOMAIN signal_queue' :
             i + 1 \in DOMAIN signal_queue /\ signal_queue'[i] = signal_queue[i + 1]
  BY <1>1
<1>4. \A i \in DOMAIN signal_queue :
          i = 1 \/ (i - 1 \in DOMAIN signal_queue' /\ signal_queue'[i - 1] = signal_queue[i])
  BY <1>1, <1>3
<1>5. Queued = Queued' \cup {Head(signal_queue).n}
  <2>1. ASSUME NEW q \in Queued PROVE q \in Queued' \cup {Head(signal_queue).n}
    <3>1. PICK i \in DOMAIN signal_queue : q = signal_queue[i].n
      BY <2>1 DEF Queued
    <3>2. CASE i = 1
      BY <1>3, <3>1, <3>2
    <3>3. CASE i # 1
      BY <1>4, <3>1, <3>3 DEF Queued
    <3> QED BY <3>2, <3>3
  <2>2. Queued' \subseteq Queued /\ Head(signal_queue).n \in Queued
    BY <1>3 DEF Queued
  <2> QED BY <2>1, <2>2
<1>6. \A q \in Queued' : Head(signal_queue).n < q
  <2> TAKE q \in Queued'
  <2>1. PICK i \in DOMAIN signal_queue' : q = signal_queue'[i].n
    BY DEF Queued
  <2>2. i \in Nat /\ 1 < i + 1
    BY <1>2
  <2> QED BY <1>3, <2>1, <2>2
<1>7. \A i, j \in DOMAIN signal_queue' : i < j => signal_queue'[i].n < signal_queue'[j].n
  <2> TAKE i, j \in DOMAIN signal_queue'
  <2>1. i \in Nat /\ j \in Nat
    BY <1>2
  <2> QED BY <1>3, <2>1
<1> QED BY <1>2, <1>5, <1>6, <1>7

LEMMA TakeSignalStep == ASSUME SignalInv, TakeSignal PROVE SignalInv'
<1> DEFINE h == Head(signal_queue)
<1>1. /\ in_thread = NoSignal /\ Get /\ in_thread' = h
      /\ UNCHANGED <<signals_sent, called, received, discarded>>
  BY DEF TakeSignal
<1>2. /\ signal_queue' \in Seq(Signals) /\ h \in Signals /\ h.n \in Nat
      /\ Queued = Queued' \cup {h.n}
      /\ \A q \in Queued' : h.n < q
      /\ \A i, j \in DOMAIN signal_queue' :
             i < j => signal_queue'[i].n < signal_queue'[j].n
  BY <1>1, GetOldest DEF Signals
<1>3. h.n \notin Queued'
  BY <1>2
<1>4. Taken = {} /\ Taken' = {h.n} /\ Calls' = Calls
  BY <1>1, <1>2, NotificationAssumption DEF Taken, Calls
<1>5. SignalsConsumedOnce'
  BY <1>1, <1>2, <1>3, <1>4 DEF SignalInv, SignalsConsumedOnce
<1>6. \A c \in Calls : c \in Nat /\ c < h.n
  BY <1>2, SeqElement DEF Calls, SignalInv
<1>7. \A t \in Taken', c \in Calls' : c <= t
  BY <1>2, <1>4, <1>6
<1>8. /\ \A c \in Calls', q \in Queued' : c < q
      /\ \A t \in Taken', q \in Queued' : t < q
  BY <1>2, <1>4 DEF SignalInv
<1> QED BY <1>1, <1>2, <1>5, <1>7, <1>8 DEF SignalInv

LEMMA RunCallbackStep == ASSUME SignalInv, RunCallback PROVE SignalInv'
<1> USE DEF SignalInv
<1>1. /\ in_thread \in Signals /\ Taken = {in_thread.n} /\ in_thread.n \in Nat
      /\ UNCHANGED <<signal_queue, in_thread, signals_sent, received, discarded>>
      /\ Queued' = Queued /\ Taken' = Taken
  BY DEF RunCallback, Taken, Queued, Signals
<1>2. CASE called' = called
  BY <1>1, <1>2, TrackedUnchanged DEF tracked
<1>3. CASE called' = Append(called, in_thread.n)
  <2>1. /\ called' \in Seq(Nat)
        /\ DOMAIN called' = DOMAIN called \cup {Len(called) + 1}
        /\ \A i \in DOMAIN called : called'[i] = called[i]
        /\ called'[Len(called) + 1] = in_thread.n
    BY <1>1, <1>3
  <2>2. Calls' = Calls \cup {in_thread.n}
    BY <2>1 DEF Calls
  <2>3. \A i, j \in DOMAIN called' : i <= j => called'[i] <= called'[j]
    <3>1. \A i \in DOMAIN called : called[i] <= in_thread.n
      BY <1>1 DEF Calls
    <3>2. \A i, j \in DOMAIN called : i <= j => called[i] <= called[j]
      BY DEF SignalsConsumedOnce
    <3>3. DOMAIN called = 1 .. Len(called) /\ Len(called) \in Nat
      OBVIOUS
    <3> QED BY <1>1, <2>1, <3>1, <3>2, <3>3
  <2>4. SignalsConsumedOnce'
    BY <1>1, <2>2, <2>3 DEF SignalsConsumedOnce
  <2> QED BY <1>1, <2>1, <2>2, <2>4
<1> QED BY <1>2, <1>3 DEF RunCallback, CallCallback, PassEntry, CallFaults

LEMMA SignalProcessedStep == ASSUME SignalInv, SignalProcessed PROVE SignalInv'
<1> USE DEF SignalInv
<1>1. /\ in_thread \in Signals /\ Taken = {in_thread.n}
      /\ Taken' = {} /\ in_thread' = NoSignal
      /\ UNCHANGED <<signal_queue, signals_sent, called, received>>
      /\ Queued' = Queued /\ Calls' = Calls
  BY DEF SignalProcessed, Taken, Queued, Calls
<1>2. discarded' = IF in_thread.n \in Calls THEN discarded ELSE discarded \cup {in_thread.n}
  BY DEF SignalProcessed, Calls
<1>3. in_thread.n \notin Queued
  BY <1>1 DEF SignalsConsumedOnce
<1>4. SignalsConsumedOnce'
  BY <1>1, <1>2, <1>3 DEF SignalsConsumedOnce
<1> QED BY <1>1, <1>4

LEMMA SignalReceiveStep ==
  ASSUME SignalInv, NEW r \in Receivers, signal_receive(r) PROVE SignalInv'
<1> DEFINE h == Head(signal_queue)
<1>1. /\ Get /\ UNCHANGED <<in_thread, signals_sent, called>>
      /\ \/ received' = received \cup {h.n} /\ UNCHANGED discarded
         \/ discarded' = discarded \cup {h.n} /\ UNCHANGED received
      /\ Taken' = Taken /\ Calls' = Calls
  BY DEF signal_receive, threadVars, Taken, Calls
<1>2. /\ signal_queue' \in Seq(Signals) /\ h \in Signals /\ h.n \in Nat
      /\ Queued = Queued' \cup {h.n}
      /\ \A q \in Queued' : h.n < q
      /\ \A i, j \in DOMAIN signal_queue' :
             i < j => signal_queue'[i].n < signal_queue'[j].n
  BY <1>1, GetOldest DEF Signals
<1>3. h.n \notin Queued'
  BY <1>2
<1>4. SignalsConsumedOnce'
  BY <1>1, <1>2, <1>3 DEF SignalInv, SignalsConsumedOnce
<1> QED BY <1>1, <1>2, <1>4 DEF SignalInv

LEMMA PublishEventStep == ASSUME RingInv, publish_event PROVE RingInv'
<1> USE DEF RingInv
<1> DEFINE N == MaxEventQueue
<1>1. N \in Nat \ {0}
  BY NotificationAssumption
<1>2. published.ok \in Nat /\ published.full \in Nat /\ published.ok <= N - 1
  BY DEF EventsAcceptedOnce
<1>3. CASE published.ok = N - 1
  <2>1. N % N = 0
    BY <1>1
  <2>2. RingFull
    BY <1>1, <1>3, <2>1 DEF RingFull
  <2>3. /\ queue_tail' = queue_tail /\ queue_head' = queue_head
        /\ published' = [published EXCEPT !.full = @ + 1]
    BY <2>2 DEF publish_event
  <2>4. published'.ok = published.ok /\ published' \in [ok : Nat, full : Nat]
    BY <1>2, <2>3
  <2> QED BY <1>1, <1>3, <2>3, <2>4 DEF EventsAcceptedOnce
<1>4. CASE published.ok # N - 1
  <2>1. PICK k \in 0 .. N - 1 : k = published.ok + 1
    BY <1>1, <1>2, <1>4
  <2>2. k % N = k
    BY <1>1, <2>1, SmallRemainder
  <2>3. (queue_tail + 1) % N = k /\ k # 0
    BY <1>2, <2>1, <2>2
  <2>4. /\ queue_tail' = k /\ queue_head' = queue_head
        /\ published' = [published EXCEPT !.ok = @ + 1]
    BY <2>3 DEF publish_event, RingFull
  <2>5. /\ published'.ok = k /\ published'.full = published.full
        /\ published' \in [ok : Nat, full : Nat]
    BY <1>2, <2>1, <2>4
  <2> QED BY <1>1, <1>2, <1>4, <2>1, <2>4, <2>5 DEF EventsAcceptedOnce
<1> QED BY <1>3, <1>4

LEMMA NotificationsStep ==
  ASSUME SignalInv, RingInv, NotificationsNext PROVE SignalInv' /\ RingInv'
<1>1. CASE (SignalCall \/ signal_processing_thread) /\ UNCHANGED eventVars
  <2>1. RingInv'
    BY <1>1 DEF RingInv, EventsAcceptedOnce, eventVars
  <2>2. ASSUME NEW t \in CallbackRegistrars, CallbackRegistration(t) PROVE SignalInv'
    BY <2>2, TrackedUnchanged DEF CallbackRegistration, threadVars, tracked
  <2>3. ASSUME NEW r \in Receivers, NEW id \in SignalIds, StartReceive(r, id) PROVE SignalInv'
    BY <2>3, TrackedUnchanged DEF StartReceive, threadVars, tracked
  <2>4. CASE SignalCall
    BY <2>1, <2>2, <2>3, <2>4, SignalSendStep, SignalReceiveStep DEF SignalCall
  <2>5. CASE signal_processing_thread
    BY <2>1, <2>5, TakeSignalStep, RunCallbackStep, SignalProcessedStep DEF signal_processing_thread
  <2> QED BY <1>1, <2>1, <2>4, <2>5
<1>2. CASE publish_event /\ UNCHANGED signalVars
  <2>1. UNCHANGED tracked
    BY <1>2 DEF signalVars, threadVars, tracked
  <2> QED BY <1>2, <2>1, TrackedUnchanged, PublishEventStep
<1> QED BY <1>1, <1>2 DEF NotificationsNext

LEMMA NotificationsKeep ==
  SignalInv /\ RingInv /\ [Next]_vars => SignalInv' /\ RingInv'
<1> SUFFICES ASSUME SignalInv, RingInv, [Next]_vars PROVE SignalInv' /\ RingInv'
  OBVIOUS
<1>1. CASE NotificationStep
  BY <1>1, NotificationsStep DEF NotificationStep
<1>2. CASE UNCHANGED notificationVars
  <2>1. UNCHANGED tracked
    BY <1>2 DEF notificationVars, signalVars, threadVars, tracked
  <2>2. UNCHANGED eventVars
    BY <1>2 DEF notificationVars
  <2> QED BY <2>1, <2>2, TrackedUnchanged DEF RingInv, EventsAcceptedOnce, eventVars
<1> QED BY <1>1, <1>2 DEF Next, vars, GoalStep, StatsStep, IsoTpStep, VcuStep, RoadStep, WifiStep

\* However the signal thread and the receivers take from the queue and however
\* registrations race, a signal is
\* in one place and callbacks keep the order of sending; and the ring of events
\* fills up once and for all.
THEOREM NotificationsCorrect == Spec => []NotificationsAccounted
<1>1. Init => SignalInv
  BY DEF Init, NotificationsInit, SignalInv, SignalsConsumedOnce, Queued, Taken, Calls
<1>2. Init => RingInv
  BY NotificationAssumption DEF Init, NotificationsInit, RingInv, EventsAcceptedOnce
<1>3. SignalInv /\ RingInv => NotificationsAccounted
  BY DEF SignalInv, RingInv, NotificationsAccounted
<1> QED BY <1>1, <1>2, <1>3, NotificationsKeep, PTL DEF Spec

-----------------------------------------------------------------------------
(* A lost link.                                                             *)

\* Connecting is scheduled while there is no link, and not after a loss.
LossInv ==
    /\ mqtt_link # "down" => ~mqtt_work
    /\ link_lost => mqtt_link = "down" /\ ~mqtt_work

LEMMA LossStep ==
  ASSUME LossInv, VcuNext
  PROVE  LossInv' /\ (link_lost => link_lost')
<1> USE DEF LossInv
<1>1. CASE main
  BY <1>1 DEF main, BootFails, AddFilter, InitMqtt
<1>2. CASE ScheduleFirst
  BY <1>2 DEF ScheduleFirst
<1>3. CASE mqtt_connect_work_handler
  BY <1>3 DEF mqtt_connect_work_handler
<1>4. CASE mqtt_evt_handler
  BY <1>4 DEF mqtt_evt_handler, Connack, Disconnect, Acknowledge, RefuseSubscription,
     IncomingMessage, mqttVars
<1>5. CASE LinkBreaks
  BY <1>5 DEF LinkBreaks
<1>6. CASE ObstacleMoves \/ collision_thread \/ OtherNodeReports \/ can_handler
  <2>1. UNCHANGED mqttVars
    BY <1>6 DEF ObstacleMoves, collision_thread, OtherNodeReports, can_handler, Send
  <2> QED BY <2>1 DEF mqttVars
<1> QED BY <1>1, <1>2, <1>3, <1>4, <1>5, <1>6 DEF VcuNext

LEMMA LossNext ==
  LossInv /\ [Next]_vars => LossInv' /\ (link_lost => link_lost')
<1> SUFFICES ASSUME LossInv, [Next]_vars PROVE LossInv' /\ (link_lost => link_lost')
  OBVIOUS
<1>1. CASE VcuStep
  BY <1>1, LossStep DEF VcuStep
<1>2. CASE UNCHANGED mqttVars
  BY <1>2 DEF mqttVars, LossInv
<1> QED BY <1>1, <1>2 DEF Next, vars, GoalStep, StatsStep, NotificationStep, IsoTpStep,
        RoadStep, WifiStep, vcuVars

\* A link that was lost stays down, whatever thread noticed it first.
THEOREM LinkLossIsFinal == Spec => LossIsFinal
<1>1. Init => LossInv
  BY DEF Init, VcuInit, LossInv
<1>2. LossInv /\ [Next]_vars => [link_lost => mqtt_link' = "down" /\ ~mqtt_work']_vcuVars
  BY LossNext DEF LossInv
<1> QED BY <1>1, <1>2, LossNext, PTL DEF Spec, LossIsFinal

-----------------------------------------------------------------------------
(* Warnings.                                                                *)

\* A distance comes in whole metres, and so below 100.
BusFrames == [id : {"COLLISION", "TEMP"}, value : 0 .. 99, of : Distances \cup {NoObstacle}]

BusInv ==
    /\ on_bus \in Seq(BusFrames)
    /\ obstacle \in Distances \cup {NoObstacle}
    /\ NearObstaclesWarned

LEMMA BusStep == ASSUME BusInv, VcuNext PROVE BusInv'
<1> USE DEF BusInv, NearObstaclesWarned
<1>1. CASE UNCHANGED canVars
  BY <1>1 DEF canVars
<1>2. CASE ObstacleMoves
  BY <1>2 DEF ObstacleMoves
<1>3. CASE collision_thread
  <2>1. PICK d \in Measurements(obstacle) :
               Send([id |-> "COLLISION", value |-> d, of |-> obstacle])
    BY <1>3 DEF collision_thread
  <2>2. d \in 0 .. 99
    <3>1. CASE obstacle = NoObstacle
      BY <2>1, <3>1 DEF Measurements
    <3>2. CASE obstacle # NoObstacle
      <4>1. obstacle \in 0 .. 514
        BY <3>2, VcuAssumption
      <4>2. obstacle \div 100 \in 0 .. 99
        BY <4>1
      <4>3. d = 0 \/ d = obstacle \div 100
        BY <2>1, <3>2 DEF Measurements
      <4> QED BY <4>2, <4>3
    <3> QED BY <3>1, <3>2
  <2>3. [id |-> "COLLISION", value |-> d, of |-> obstacle] \in BusFrames
    BY <2>2 DEF BusFrames
  <2> QED BY <2>1, <2>3 DEF Send
<1>4. CASE OtherNodeReports
  <2>1. PICK v \in {0, 91} : Send([id |-> "TEMP", value |-> v, of |-> NoObstacle])
    BY <1>4 DEF OtherNodeReports
  <2>2. [id |-> "TEMP", value |-> v, of |-> NoObstacle] \in BusFrames
    BY DEF BusFrames
  <2> QED BY <2>1, <2>2 DEF Send
<1>5. CASE can_handler
  <2>1. Head(on_bus) \in BusFrames /\ on_bus' \in Seq(BusFrames)
    BY <1>5 DEF can_handler
  <2>2. Head(on_bus).value < 100
    <3>1. PICK v \in 0 .. 99 : Head(on_bus).value = v
      BY <2>1 DEF BusFrames
    <3> QED BY <3>1
  <2>3. UNCHANGED obstacle
    BY <1>5 DEF can_handler
  <2>4. CASE Head(on_bus).id = "COLLISION"
    <3>1. /\ warned' = warned \cup {Head(on_bus).of}
          /\ measured' = measured \cup {Head(on_bus).of}
      BY <1>5, <2>2, <2>4 DEF can_handler, Near
    <3> QED BY <2>1, <2>3, <3>1
  <2>5. CASE Head(on_bus).id # "COLLISION"
    <3>1. UNCHANGED <<warned, measured>>
      BY <1>5, <2>5 DEF can_handler, Near
    <3> QED BY <2>1, <2>3, <3>1
  <2> QED BY <2>4, <2>5
<1> QED BY <1>1, <1>2, <1>3, <1>4, <1>5 DEF VcuNext, main, BootFails, AddFilter, InitMqtt,
        ScheduleFirst, mqtt_connect_work_handler, mqtt_evt_handler, LinkBreaks

LEMMA BusNext == BusInv /\ [Next]_vars => BusInv'
<1> SUFFICES ASSUME BusInv, [Next]_vars PROVE BusInv'
  OBVIOUS
<1>1. CASE VcuStep
  BY <1>1, BusStep DEF VcuStep
<1>2. CASE UNCHANGED canVars
  BY <1>2 DEF canVars, BusInv, NearObstaclesWarned
<1> QED BY <1>1, <1>2 DEF Next, vars, GoalStep, StatsStep, NotificationStep, IsoTpStep,
        RoadStep, WifiStep, vcuVars

LEMMA InitBus == Init => BusInv
BY DEF Init, VcuInit, BusInv, NearObstaclesWarned

-----------------------------------------------------------------------------
(* Road hazards.                                                            *)

Reportings == [at : {"idle", "check", "count", "copy"}, segment : Segments, slot : 0 .. 255]

\* 0 is the id of an entry that is not yet copied, too.
Reported(s) == s = 0 \/ reports[s] >= 1

\* A segment in the table, or on its way to it, has been reported; one that was
\* announced as well has been reported twice, but for what lies behind the table.
RoadInv ==
    /\ segments \in [SegmentSlots -> Segments]
    /\ num_segments \in 0 .. 255
    /\ reporting \in [Reporters -> Reportings]
    /\ reports \in [SegmentIds -> 0 .. 2]
    /\ announced \subseteq SegmentIds /\ overrun \in BOOLEAN
    /\ \A i \in SegmentSlots : Reported(segments[i].id)
    /\ \A t \in Reporters : Reported(reporting[t].segment.id)
    /\ FirstReportsKept

LEMMA NotReportingIsOne == NotReporting \in Reportings /\ ZeroSegment \in Segments
BY V2xAssumption DEF NotReporting, ZeroSegment, Reportings, Segments, Conditions

\* One more report of a segment.
LEMMA CountedReports ==
  ASSUME RoadInv, NEW s \in SegmentIds, Count(s)
  PROVE  /\ reports' \in [SegmentIds -> 0 .. 2] /\ reports'[s] >= 1
         /\ reports[s] >= 1 => reports'[s] = 2
         /\ \A r \in SegmentIds : reports[r] = 2 => reports'[r] = 2
         /\ \A r \in SegmentIds : Reported(r) => Reported(r)'
<1>1. reports[s] \in 0 .. 2 /\ reports \in [SegmentIds -> 0 .. 2]
  BY DEF RoadInv
<1>2. CASE reports[s] < 2
  <2>1. reports' = [reports EXCEPT ![s] = reports[s] + 1]
    BY <1>2 DEF Count
  <2>2. reports[s] + 1 \in 1 .. 2
    BY <1>1, <1>2
  <2>3. /\ reports'[s] = reports[s] + 1
        /\ \A r \in SegmentIds : r # s => reports'[r] = reports[r]
    BY <1>1, <2>1
  <2> QED BY <1>1, <1>2, <2>1, <2>2, <2>3 DEF Reported
<1>3. CASE ~(reports[s] < 2)
  <2>1. reports' = reports
    BY <1>3 DEF Count
  <2> QED BY <1>1, <1>3, <2>1 DEF Reported
<1> QED BY <1>2, <1>3

LEMMA UpdateKnownStep ==
  ASSUME RoadInv, NEW t \in Reporters, NEW s \in SegmentIds, NEW c \in Conditions,
         UpdateKnown(t, s, c)
  PROVE  RoadInv'
<1> DEFINE new == [id |-> s, condition |-> c]
<1>1. /\ segments' = [segments EXCEPT ![Min(Known(s))] = new]
      /\ Announce(s, c) /\ Count(s)
      /\ UNCHANGED <<num_segments, reporting, overrun>>
  BY DEF UpdateKnown
<1>2. new \in Segments /\ new.id = s
  BY DEF Segments
<1>3. PICK i \in SegmentSlots : segments[i].id = s
  BY DEF UpdateKnown, Known
<1>4. s = 0 \/ reports[s] >= 1
  BY <1>3 DEF RoadInv, Reported
<1>5. segments' \in [SegmentSlots -> Segments]
  BY <1>1, <1>2 DEF RoadInv
<1>6. \A k \in SegmentSlots : segments'[k] = segments[k] \/ segments'[k] = new
  BY <1>1 DEF RoadInv
<1>7. \A k \in SegmentSlots : segments[k].id \in SegmentIds
  BY DEF RoadInv, Segments
<1>8. \A k \in SegmentSlots : Reported(segments[k].id)'
  BY <1>1, <1>2, <1>6, <1>7, CountedReports DEF RoadInv, Reported
<1>9. \A r \in Reporters : Reported(reporting[r].segment.id)'
  <2>1. \A r \in Reporters : reporting[r].segment.id \in SegmentIds
    BY DEF RoadInv, Reportings, Segments
  <2> QED BY <1>1, <2>1, CountedReports DEF RoadInv, Reported
<1>10. announced' \subseteq announced \cup {s}
  BY <1>1 DEF Announce
<1>11. FirstReportsKept'
  <2>1. announced \subseteq SegmentIds
    BY DEF RoadInv
  <2>2. s # 0 => reports'[s] = 2
    BY <1>1, <1>4, CountedReports
  <2>3. \A r \in SegmentIds : reports[r] = 2 => reports'[r] = 2
    BY <1>1, CountedReports
  <2> QED BY <1>1, <1>10, <2>1, <2>2, <2>3 DEF RoadInv, FirstReportsKept
<1>12. announced' \subseteq SegmentIds /\ reports' \in [SegmentIds -> 0 .. 2]
  BY <1>1, <1>10, CountedReports DEF RoadInv
<1> QED BY <1>1, <1>5, <1>8, <1>9, <1>11, <1>12 DEF RoadInv

LEMMA SearchStep ==
  ASSUME RoadInv, NEW t \in Reporters, NEW s \in SegmentIds, NEW c \in Conditions,
         SearchInVain(t, s, c) \/ FindBehindTable(t, s, c)
  PROVE  RoadInv'
<1> DEFINE r == [at |-> "check", segment |-> [id |-> s, condition |-> c], slot |-> 0]
<1>1. /\ Count(s) /\ UNCHANGED <<segments, num_segments>>
      /\ overrun' \in BOOLEAN /\ (overrun => overrun')
      /\ reporting' = reporting \/ reporting' = [reporting EXCEPT ![t] = r]
      /\ announced' = announced \/ (overrun' /\ announced' \subseteq announced \cup {s})
  BY DEF SearchInVain, FindBehindTable, Announce, RoadInv
<1>2. r \in Reportings /\ r.segment.id = s
  BY DEF Reportings, Segments
<1>3. reporting' \in [Reporters -> Reportings]
  BY <1>1, <1>2 DEF RoadInv
<1>4. \A k \in Reporters : reporting'[k] = reporting[k] \/ reporting'[k] = r
  BY <1>1 DEF RoadInv
<1>5. \A k \in Reporters : reporting[k].segment.id \in SegmentIds
  BY DEF RoadInv, Reportings, Segments
<1>6. \A k \in Reporters : Reported(reporting[k].segment.id)'
  BY <1>1, <1>2, <1>4, <1>5, CountedReports DEF RoadInv, Reported
<1>7. \A k \in SegmentSlots : Reported(segments[k].id)'
  <2>1. \A k \in SegmentSlots : segments[k].id \in SegmentIds
    BY DEF RoadInv, Segments
  <2> QED BY <1>1, <2>1, CountedReports DEF RoadInv, Reported
<1>8. announced' \subseteq SegmentIds /\ reports' \in [SegmentIds -> 0 .. 2]
  BY <1>1, CountedReports DEF RoadInv
<1>9. FirstReportsKept'
  <2>1. announced \subseteq SegmentIds
    BY DEF RoadInv
  <2>2. \A k \in SegmentIds : reports[k] = 2 => reports'[k] = 2
    BY <1>1, CountedReports
  <2> QED BY <1>1, <2>1, <2>2 DEF RoadInv, FirstReportsKept
<1> QED BY <1>1, <1>3, <1>6, <1>7, <1>8, <1>9 DEF RoadInv

\* The steps after the search count nothing.
LEMMA AddSegmentStep ==
  ASSUME RoadInv, NEW t \in Reporters,
         CheckRoom(t) \/ LoadSegmentsAgain(t) \/ CountSegment(t) \/ CopySegment(t)
  PROVE  RoadInv'
<1> DEFINE r == reporting[t]
<1>1. UNCHANGED <<reports, announced, overrun>>
  BY DEF CheckRoom, LoadSegmentsAgain, CountSegment, CopySegment
<1>2. r \in Reportings
  BY DEF RoadInv
<1>3. /\ r.segment \in Segments /\ r.slot \in 0 .. 255
      /\ num_segments \in 0 .. 255 /\ Reported(r.segment.id)
  BY <1>2 DEF Reportings, RoadInv
<1>4. num_segments' \in 0 .. 255
  BY <1>3 DEF CheckRoom, LoadSegmentsAgain, CountSegment, CopySegment
<1>5. PICK new \in Reportings : /\ reporting' = [reporting EXCEPT ![t] = new]
                                /\ new.segment = r.segment \/ new = NotReporting
  <2>1. CASE CheckRoom(t)
    <3>1. [r EXCEPT !.at = "count", !.slot = num_segments] \in Reportings
      BY <1>2, <1>3 DEF Reportings
    <3>2. CASE num_segments < MaxRoadSegments
      <4>1. /\ reporting' = [reporting EXCEPT ![t] = [r EXCEPT !.at = "count", !.slot = num_segments]]
            /\ [r EXCEPT !.at = "count", !.slot = num_segments].segment = r.segment
        BY <1>2, <2>1, <3>2 DEF CheckRoom, Reportings
      <4> QED BY <3>1, <4>1
    <3>3. CASE ~(num_segments < MaxRoadSegments)
      <4>1. reporting' = [reporting EXCEPT ![t] = NotReporting]
        BY <2>1, <3>3 DEF CheckRoom
      <4> QED BY <4>1, NotReportingIsOne
    <3> QED BY <3>2, <3>3
  <2>2. CASE LoadSegmentsAgain(t)
    <3>1. /\ [r EXCEPT !.slot = num_segments] \in Reportings
          /\ [r EXCEPT !.slot = num_segments].segment = r.segment
      BY <1>2, <1>3 DEF Reportings
    <3>2. reporting' = [reporting EXCEPT ![t] = [r EXCEPT !.slot = num_segments]]
      BY <2>2 DEF LoadSegmentsAgain, RoadInv
    <3> QED BY <3>1, <3>2
  <2>3. CASE CountSegment(t)
    <3>1. [r EXCEPT !.at = "copy"] \in Reportings /\ [r EXCEPT !.at = "copy"].segment = r.segment
      BY <1>2, <1>3 DEF Reportings
    <3>2. reporting' = [reporting EXCEPT ![t] = [r EXCEPT !.at = "copy"]]
      BY <2>3 DEF CountSegment, RoadInv
    <3> QED BY <3>1, <3>2
  <2>4. CASE CopySegment(t)
    BY <2>4, NotReportingIsOne DEF CopySegment
  <2> QED BY <2>1, <2>2, <2>3, <2>4
<1>6. Reported(new.segment.id)
  BY <1>3, <1>5 DEF NotReporting, ZeroSegment, Reported
<1>7. /\ reporting' \in [Reporters -> Reportings]
      /\ \A k \in Reporters : reporting'[k] = reporting[k] \/ reporting'[k] = new
  BY <1>5 DEF RoadInv
<1>8. \A k \in Reporters : Reported(reporting[k].segment.id)'
  BY <1>1, <1>6, <1>7 DEF RoadInv, Reported
<1>9. /\ segments' \in [SegmentSlots -> Segments]
      /\ \A k \in SegmentSlots : segments'[k] = segments[k] \/ segments'[k] = r.segment
  BY <1>3 DEF RoadInv, CheckRoom, LoadSegmentsAgain, CountSegment, CopySegment
<1>10. \A k \in SegmentSlots : Reported(segments[k].id)'
  BY <1>1, <1>3, <1>9 DEF RoadInv, Reported
<1> QED BY <1>1, <1>4, <1>7, <1>8, <1>9, <1>10 DEF RoadInv, FirstReportsKept

LEMMA RoadUnchanged == ASSUME RoadInv, UNCHANGED roadVars PROVE RoadInv'
BY DEF roadVars, RoadInv, Reported, FirstReportsKept

LEMMA RoadStepLemma == ASSUME RoadInv, RoadReport PROVE RoadInv'
<1>1. ASSUME NEW s \in SegmentIds, NEW c \in Conditions, process_road_condition(s, c)
      PROVE  RoadInv'
  BY <1>1, RoadUnchanged DEF process_road_condition
<1>2. ASSUME NEW t \in Reporters, update_road_condition(t) PROVE RoadInv'
  BY <1>2, UpdateKnownStep, SearchStep, AddSegmentStep DEF update_road_condition
<1> QED BY <1>1, <1>2 DEF RoadReport

LEMMA RoadNext == RoadInv /\ [Next]_vars => RoadInv'
<1> SUFFICES ASSUME RoadInv, [Next]_vars PROVE RoadInv'
  OBVIOUS
<1>1. CASE RoadStep
  BY <1>1, RoadStepLemma DEF RoadStep
<1>2. CASE VcuStep
  <2>1. UNCHANGED roadVars
    BY <1>2 DEF VcuStep, VcuNext, main, BootFails, AddFilter, InitMqtt, v2xVars,
       ScheduleFirst, mqtt_connect_work_handler, mqtt_evt_handler, Connack, Disconnect,
       Acknowledge, RefuseSubscription, IncomingMessage, process_v2i_message, LinkBreaks,
       ObstacleMoves, collision_thread, OtherNodeReports, Send, can_handler
  <2> QED BY <2>1, RoadUnchanged
<1>3. CASE UNCHANGED v2xVars
  BY <1>3, RoadUnchanged DEF v2xVars
<1> QED BY <1>1, <1>2, <1>3 DEF Next, vars, GoalStep, StatsStep, NotificationStep, IsoTpStep,
        WifiStep, vcuVars

LEMMA InitRoad == V2xInit => RoadInv
<1> SUFFICES ASSUME V2xInit PROVE RoadInv
  OBVIOUS
<1>1. /\ NotReporting.segment.id = 0 /\ ZeroSegment.id = 0
      /\ NotReporting \in Reportings /\ ZeroSegment \in Segments
  BY NotReportingIsOne DEF NotReporting, ZeroSegment
<1>2. /\ segments \in [SegmentSlots -> Segments]
      /\ \A i \in SegmentSlots : segments[i].id = 0
  BY <1>1 DEF V2xInit
<1>3. /\ reporting \in [Reporters -> Reportings]
      /\ \A t \in Reporters : reporting[t].segment.id = 0
  BY <1>1 DEF V2xInit
<1>4. /\ reports \in [SegmentIds -> 0 .. 2] /\ num_segments \in 0 .. 255
      /\ announced = {}
  BY DEF V2xInit
<1>6. overrun \in BOOLEAN
  <2>1. overrun = FALSE
    BY DEF V2xInit
  <2> QED BY <2>1
<1>5. FirstReportsKept
  BY <1>4 DEF FirstReportsKept
<1> QED BY <1>2, <1>3, <1>4, <1>5, <1>6 DEF RoadInv, Reported

\* For any obstacles a sensor can measure, and any segments and reporters that
\* race for the table: no near obstacle goes without its warning, and a road
\* segment that is announced has been reported twice.
THEOREM WarningsHaveReports == Spec => []WarningsFollowReports
<1>1. Init => BusInv /\ RoadInv
  BY InitBus, InitRoad DEF Init, VcuInit
<1>2. BusInv /\ RoadInv => WarningsFollowReports
  BY DEF BusInv, RoadInv, WarningsFollowReports
<1> QED BY <1>1, <1>2, BusNext, RoadNext, PTL DEF Spec

-----------------------------------------------------------------------------
(* ISO-TP.                                                                  *)

ByteSet == Nat \X Nat
SevenBytes == [1 .. 7 -> ByteSet]

\* A frame with data[0] = x and bytes d behind it holds bytes of one message m at
\* most; of a message that fits into a frame it holds all, and its length.
SoundFor(x, d, m, ls) ==
    /\ \A k \in 1 .. 7 : d[k][1] \in {0, m}
    /\ m \in DOMAIN ls /\ ls[m] <= 7 =>
          x = ls[m] /\ \A j \in 1 .. 7 : j <= x => d[j] = <<m, j>>

Sound(x, d, ls) ==
    /\ x \in 0 .. 15 /\ d \in SevenBytes
    /\ \E m \in 0 .. Len(ls) : SoundFor(x, d, m, ls)

\* What is sent in pieces does not fit into a frame.
Underway ==
    sending.remaining > 0 =>
        lengths # <<>> /\ CurrentLength > 7 /\ sending.remaining <= CurrentLength

DeliverySound ==
    /\ delivery \in Seq(ByteSet)
    /\ \A i \in DOMAIN delivery : delivery[i][1] \in 0 .. Len(lengths)
    /\ ShortMessagesWhole

Frames == [own : BOOLEAN, data0 : 0 .. 15, data : SevenBytes]

FramesSound ==
    /\ frames \in Seq(Frames)
    /\ \A i \in DOMAIN frames : Sound(frames[i].data0, frames[i].data, lengths)

IsoTpInv ==
    /\ lengths \in Seq(Nat)
    /\ sending \in [seq_id : 0 .. 15, remaining : Nat]
    /\ Underway
    /\ FramesSound
    /\ DeliverySound

LEMMA FunctionIsSequence ==
  ASSUME NEW S, NEW n \in Nat, NEW s \in [1 .. n -> S]
  PROVE  s \in Seq(S) /\ Len(s) = n
  OBVIOUS

LEMMA SequenceIsFunction ==
  ASSUME NEW S, NEW s \in Seq(S) PROVE s \in [1 .. Len(s) -> S]
  OBVIOUS

LEMMA Joined ==
  ASSUME NEW a \in Nat, NEW b \in Nat, a + b = 7,
         NEW s \in [1 .. a -> ByteSet], NEW t \in [1 .. b -> ByteSet]
  PROVE  /\ s \o t \in SevenBytes
         /\ \A k \in 1 .. 7 : (s \o t)[k] = IF k <= a THEN s[k] ELSE t[k - a]
<1>1. s \in Seq(ByteSet) /\ Len(s) = a /\ t \in Seq(ByteSet) /\ Len(t) = b
  BY FunctionIsSequence
<1>2. s \o t \in Seq(ByteSet) /\ Len(s \o t) = 7
  BY <1>1
<1>3. s \o t \in SevenBytes
  <2>1. s \o t \in [1 .. Len(s \o t) -> ByteSet]
    BY <1>2, SequenceIsFunction
  <2> QED BY <1>2, <2>1, Zenon DEF SevenBytes
<1>4. \A k \in 1 .. 7 : (s \o t)[k] = IF k <= a THEN s[k] ELSE t[k - a]
  BY <1>1
<1> QED BY <1>3, <1>4

LEMMA OtherBytes ==
  ASSUME NEW n \in Nat
  PROVE  Other(n) \in [1 .. n -> ByteSet] /\ \A k \in 1 .. n : Other(n)[k] = <<0, 0>>
  BY DEF Other, ByteSet

LEMMA MessageBytes ==
  ASSUME NEW first \in Nat, NEW n \in Nat, lengths' \in Seq(Nat)
  PROVE  /\ Bytes(first, first + n - 1) \in [1 .. n -> ByteSet]
         /\ \A k \in 1 .. n :
               Bytes(first, first + n - 1)[k] = <<Len(lengths'), first + k - 1>>
<1>1. Len(lengths') \in Nat /\ first + n - 1 - first + 1 = n
  OBVIOUS
<1>2. Bytes(first, first + n - 1) = [k \in 1 .. n |-> <<Len(lengths'), first + k - 1>>]
  BY <1>1 DEF Bytes
<1>3. \A k \in 1 .. n : <<Len(lengths'), first + k - 1>> \in ByteSet
  BY <1>1 DEF ByteSet
<1> QED BY <1>2, <1>3

\* The seven bytes of a single or consecutive frame: n of the message first.
LEMMA FrameBytes ==
  ASSUME NEW first \in Nat, NEW n \in 0 .. 7, lengths' \in Seq(Nat)
  PROVE  LET d == Bytes(first, first + n - 1) \o Other(7 - n)
         IN  /\ d \in SevenBytes
             /\ \A k \in 1 .. 7 : d[k] = IF k <= n THEN <<Len(lengths'), first + k - 1>>
                                         ELSE <<0, 0>>
<1> DEFINE b == Bytes(first, first + n - 1)
           o == Other(7 - n)
<1>1. n \in Nat /\ 7 - n \in Nat /\ n + (7 - n) = 7
  OBVIOUS
<1>2. b \in [1 .. n -> ByteSet] /\ \A k \in 1 .. n : b[k] = <<Len(lengths'), first + k - 1>>
  BY <1>1, MessageBytes
<1>3. o \in [1 .. 7 - n -> ByteSet] /\ \A k \in 1 .. 7 - n : o[k] = <<0, 0>>
  BY <1>1, OtherBytes
<1> HIDE DEF b, o
<1>4. /\ b \o o \in SevenBytes
      /\ \A k \in 1 .. 7 : (b \o o)[k] = IF k <= n THEN b[k] ELSE o[k - n]
  BY <1>1, <1>2, <1>3, Joined
<1>5. ASSUME NEW k \in 1 .. 7
      PROVE  (b \o o)[k] = IF k <= n THEN <<Len(lengths'), first + k - 1>> ELSE <<0, 0>>
  <2>1. CASE k <= n
    <3>1. k \in 1 .. n
      BY <2>1
    <3>2. (b \o o)[k] = b[k]
      BY <1>4, <2>1
    <3>3. b[k] = <<Len(lengths'), first + k - 1>>
      BY <1>2, <3>1
    <3> QED BY <2>1, <3>2, <3>3
  <2>2. CASE ~(k <= n)
    <3>1. k - n \in 1 .. 7 - n
      BY <2>2
    <3>2. (b \o o)[k] = o[k - n]
      BY <1>4, <2>2
    <3>3. o[k - n] = <<0, 0>>
      BY <1>3, <3>1
    <3> QED BY <2>2, <3>2, <3>3
  <2> QED BY <2>1, <2>2
<1> QED BY <1>4, <1>5 DEF b, o

\* The first of several frames: the low half of the length, then 6 bytes.
LEMMA FirstFrameBytes ==
  ASSUME lengths' \in Seq(Nat)
  PROVE  LET d == Other(1) \o Bytes(1, 6)
         IN  /\ d \in SevenBytes
             /\ \A k \in 1 .. 7 : d[k] = IF k = 1 THEN <<0, 0>> ELSE <<Len(lengths'), k - 1>>
<1> DEFINE o == Other(1)
           b == Bytes(1, 6)
<1>1. o \in [1 .. 1 -> ByteSet] /\ \A k \in 1 .. 1 : o[k] = <<0, 0>>
  BY OtherBytes
<1>2. b \in [1 .. 6 -> ByteSet] /\ \A k \in 1 .. 6 : b[k] = <<Len(lengths'), k>>
  <2>1. 1 + 6 - 1 = 6 /\ \A k \in 1 .. 6 : 1 + k - 1 = k
    OBVIOUS
  <2>2. /\ Bytes(1, 1 + 6 - 1) \in [1 .. 6 -> ByteSet]
        /\ \A k \in 1 .. 6 : Bytes(1, 1 + 6 - 1)[k] = <<Len(lengths'), 1 + k - 1>>
    BY MessageBytes
  <2>3. Bytes(1, 1 + 6 - 1) = b
    BY <2>1
  <2>4. \A k \in 1 .. 6 : b[k] = <<Len(lengths'), 1 + k - 1>>
    BY <2>2, <2>3
  <2> HIDE DEF b
  <2> QED BY <2>1, <2>2, <2>3, <2>4
<1> HIDE DEF b, o
<1>3. /\ o \o b \in SevenBytes
      /\ \A k \in 1 .. 7 : (o \o b)[k] = IF k <= 1 THEN o[k] ELSE b[k - 1]
  <2>1. 1 \in Nat /\ 6 \in Nat /\ 1 + 6 = 7
    OBVIOUS
  <2> QED BY <1>1, <1>2, <2>1, Joined, Zenon
<1>4. ASSUME NEW k \in 1 .. 7
      PROVE  (o \o b)[k] = IF k = 1 THEN <<0, 0>> ELSE <<Len(lengths'), k - 1>>
  <2>1. CASE k = 1
    BY <1>1, <1>3, <2>1
  <2>2. CASE k # 1
    <3>1. k - 1 \in 1 .. 6 /\ ~(k <= 1)
      BY <2>2
    <3>2. (o \o b)[k] = b[k - 1]
      BY <1>3, <3>1
    <3>3. b[k - 1] = <<Len(lengths'), k - 1>>
      BY <1>2, <3>1
    <3> QED BY <2>2, <3>2, <3>3
  <2> QED BY <2>1, <2>2
<1> QED BY <1>3, <1>4 DEF b, o

\* What Append does to the lengths.
LEMMA OneMore ==
  ASSUME lengths \in Seq(Nat), NEW len \in Nat, lengths' = Append(lengths, len)
  PROVE  /\ Len(lengths) \in Nat /\ Len(lengths') = Len(lengths) + 1
         /\ DOMAIN lengths = 1 .. Len(lengths) /\ DOMAIN lengths' = 1 .. Len(lengths) + 1
         /\ \A m \in 1 .. Len(lengths) : lengths'[m] = lengths[m]
         /\ lengths'[Len(lengths) + 1] = len /\ lengths' \in Seq(Nat)
  OBVIOUS

LEMMA NonemptyLengths ==
  ASSUME NEW s \in Seq(Nat), s # <<>>
  PROVE  Len(s) \in Nat \ {0} /\ DOMAIN s = 1 .. Len(s)
  OBVIOUS

\* A frame of earlier messages is as sound when the next one is begun.
LEMMA SoundKept ==
  ASSUME NEW x, NEW d, Sound(x, d, lengths),
         lengths \in Seq(Nat), NEW len \in Nat, lengths' = Append(lengths, len)
  PROVE  Sound(x, d, lengths')
<1>1. PICK m \in 0 .. Len(lengths) : SoundFor(x, d, m, lengths)
  BY DEF Sound
<1>2. /\ m \in 0 .. Len(lengths')
      /\ m \in DOMAIN lengths' => m \in DOMAIN lengths /\ lengths'[m] = lengths[m]
  BY OneMore
<1>3. SoundFor(x, d, m, lengths')
  BY <1>1, <1>2 DEF SoundFor
<1> QED BY <1>2, <1>3 DEF Sound

LEMMA DeliveryKept ==
  ASSUME DeliverySound, UNCHANGED delivery,
         lengths \in Seq(Nat), NEW len \in Nat, lengths' = Append(lengths, len)
  PROVE  DeliverySound'
<1>1. ASSUME NEW i \in DOMAIN delivery PROVE delivery[i][1] \in 0 .. Len(lengths')
  BY OneMore DEF DeliverySound
<1>2. ASSUME NEW m \in 0 .. Len(lengths), m \in DOMAIN lengths'
      PROVE  m \in DOMAIN lengths /\ lengths'[m] = lengths[m] /\ Whole(m)' = Whole(m)
  <2>1. m \in DOMAIN lengths /\ lengths'[m] = lengths[m]
    BY <1>2, OneMore
  <2> QED BY <2>1 DEF Whole
<1>3. ShortMessagesWhole'
  BY <1>2 DEF DeliverySound, ShortMessagesWhole
<1> QED BY <1>1, <1>3 DEF DeliverySound

LEMMA DeliverySame == ASSUME DeliverySound, UNCHANGED <<delivery, lengths>> PROVE DeliverySound'
BY DEF DeliverySound, ShortMessagesWhole, Whole

LEMMA OrFirst ==
  ASSUME NEW h \in 0 .. 15 PROVE Or(ISOTP_FIRST_FRAME, h) \in 0 .. 15
<1>1. Or(ISOTP_FIRST_FRAME, h) = IF h % 2 = 1 THEN h ELSE h + 1
  <2>1. h \div 1 = h
    OBVIOUS
  <2> QED BY <2>1 DEF Or, ISOTP_FIRST_FRAME
<1>2. 15 % 2 = 1 /\ (h = 15 \/ h + 1 \in 0 .. 15)
  OBVIOUS
<1> QED BY <1>1, <1>2

LEMMA OrConsecutive ==
  ASSUME NEW q \in 0 .. 15 PROVE Or(ISOTP_CONSECUTIVE, q) \in 0 .. 15
<1>1. Or(ISOTP_CONSECUTIVE, q) = IF (q \div 2) % 2 = 1 THEN q ELSE q + 2
  BY DEF Or, ISOTP_CONSECUTIVE
<1>2. 15 \div 2 = 7 /\ 14 \div 2 = 7 /\ 7 % 2 = 1
  OBVIOUS
<1>3. q = 15 \/ q = 14 \/ q + 2 \in 0 .. 15
  OBVIOUS
<1> QED BY <1>1, <1>2, <1>3

\* A frame of the newest message, which does not fit into one.
LEMMA PieceSound ==
  ASSUME NEW ls \in Seq(Nat), ls # <<>>, ls[Len(ls)] > 7, NEW x \in 0 .. 15,
         NEW d \in SevenBytes, \A k \in 1 .. 7 : d[k][1] \in {0, Len(ls)}
  PROVE  Sound(x, d, ls)
<1>1. Len(ls) \in 0 .. Len(ls) /\ ls[Len(ls)] \in Nat
  BY NonemptyLengths, SeqElement
<1>2. SoundFor(x, d, Len(ls), ls)
  BY <1>1 DEF SoundFor
<1> QED BY <1>1, <1>2 DEF Sound

\* A frame more, or none.
LEMMA FramesAppend ==
  ASSUME frames \in Seq(Frames), NEW f \in Frames, Sound(f.data0, f.data, lengths'),
         \A i \in DOMAIN frames : Sound(frames[i].data0, frames[i].data, lengths'),
         frames' = Append(frames, f) \/ UNCHANGED frames
  PROVE  FramesSound'
<1>1. CASE UNCHANGED frames
  BY <1>1 DEF FramesSound
<1>2. CASE frames' = Append(frames, f)
  <2>1. frames' \in Seq(Frames)
    BY <1>2
  <2>2. ASSUME NEW i \in DOMAIN frames'
        PROVE  frames'[i] = f \/ (i \in DOMAIN frames /\ frames'[i] = frames[i])
    BY <1>2, <2>2
  <2> QED BY <2>1, <2>2 DEF FramesSound
<1> QED BY <1>1, <1>2

LEMMA TailPlaces ==
  ASSUME NEW S, NEW s \in Seq(S), s # <<>>
  PROVE  /\ Tail(s) \in Seq(S)
         /\ \A i \in DOMAIN Tail(s) : i + 1 \in DOMAIN s /\ Tail(s)[i] = s[i + 1]
  OBVIOUS

LEMMA FramesTail ==
  ASSUME FramesSound, frames # <<>>, frames' = Tail(frames), UNCHANGED lengths
  PROVE  FramesSound'
<1>1. frames' \in Seq(Frames)
  BY DEF FramesSound
<1>2. ASSUME NEW i \in DOMAIN frames' PROVE i + 1 \in DOMAIN frames /\ frames'[i] = frames[i + 1]
  <2>1. frames \in Seq(Frames)
    BY DEF FramesSound
  <2> QED BY <2>1, TailPlaces, Zenon
<1> QED BY <1>1, <1>2 DEF FramesSound

LEMMA BytesAccepted ==
  ASSUME NEW d \in SevenBytes, NEW x \in 1 .. 7
  PROVE  /\ SubSeq(d, 1, x) = [i \in 1 .. x |-> d[i]]
         /\ SubSeq(d, 1, x) \in Seq(ByteSet) /\ Len(SubSeq(d, 1, x)) = x
<1> DEFINE s == SubSeq(d, 1, x)
<1>1. 1 \in Int /\ x \in Int /\ x - 1 + 1 = x /\ 1 <= x
  OBVIOUS
<1>2. \A i \in 1 .. x : i \in 1 .. 7 /\ 1 + i - 1 = i
  OBVIOUS
<1>3. \A i \in 1 .. x : d[i] \in ByteSet
  BY <1>2 DEF SevenBytes
<1>4. /\ s \in Seq(ByteSet) /\ Len(s) = x
      /\ \A i \in 1 .. x - 1 + 1 : s[i] = d[1 + i - 1]
  BY <1>1, <1>3, SubSeqProperties
<1> HIDE DEF s
<1>5. \A i \in 1 .. x : s[i] = d[i]
  BY <1>1, <1>2, <1>4
<1>6. s \in [1 .. x -> ByteSet]
  BY <1>4, SequenceIsFunction
<1>7. s = [i \in 1 .. x |-> d[i]]
  BY <1>5, <1>6
<1> QED BY <1>4, <1>7 DEF s

LEMMA ReceiveSound ==
  ASSUME IsoTpInv, NEW len \in Nat, isotp_receive(len)
  PROVE  DeliverySound'
<1> DEFINE f == Head(frames)
<1>1. Sound(f.data0, f.data, lengths)
  <2>1. 1 \in DOMAIN frames /\ f = frames[1]
    BY DEF IsoTpInv, FramesSound, isotp_receive
  <2> HIDE DEF f
  <2> QED BY <2>1 DEF IsoTpInv, FramesSound
<1>2. UNCHANGED lengths
  BY DEF isotp_receive
<1>3. CASE ~(f.own /\ Accepted(f.data0, len))
  <2>1. delivery' = <<>>
    BY <1>3 DEF isotp_receive
  <2> QED BY <2>1 DEF DeliverySound, ShortMessagesWhole
<1>4. CASE f.own /\ Accepted(f.data0, len)
  <2> DEFINE x == f.data0
             d == f.data
  <2>0. delivery' = SubSeq(d, 1, LowHalf(x))
    BY <1>4 DEF isotp_receive
  <2> HIDE DEF f
  <2>1. x \in 0 .. 15 /\ d \in SevenBytes
    BY <1>1 DEF Sound
  <2>2. PICK m \in 0 .. Len(lengths) : SoundFor(x, d, m, lengths)
    BY <1>1 DEF Sound
  <2>3. LowHalf(x) \in 1 .. 7
    BY <1>4 DEF Accepted
  <2> HIDE DEF x, d
  <2>4. LowHalf(x) = x /\ x \in 1 .. 7
    BY <2>1, <2>3 DEF LowHalf
  <2>5. /\ delivery' = [i \in 1 .. x |-> d[i]]
        /\ delivery' \in Seq(ByteSet) /\ Len(delivery') = x
    BY <2>0, <2>1, <2>4, BytesAccepted
  <2>6. \A i \in 1 .. x : i \in 1 .. 7 /\ i <= x
    BY <2>4
  <2>7. DOMAIN delivery' = 1 .. x /\ \A i \in 1 .. x : delivery'[i] = d[i]
    BY <2>5
  <2>8. \A i \in DOMAIN delivery' : delivery'[i][1] \in {0, m}
    BY <2>2, <2>6, <2>7 DEF SoundFor
  <2>9. 0 \notin DOMAIN lengths /\ lengths \in Seq(Nat)
    BY DEF IsoTpInv
  <2>10. m \in DOMAIN lengths /\ lengths[m] <= 7 => delivery' = Whole(m)
    BY <2>2, <2>5, <2>6 DEF SoundFor, Whole
  <2>11. Whole(m)' = Whole(m) /\ lengths' = lengths
    BY <1>2 DEF Whole
  <2>12. ShortMessagesWhole'
    BY <2>8, <2>9, <2>10, <2>11 DEF ShortMessagesWhole
  <2>13. 0 \in 0 .. Len(lengths) /\ m \in 0 .. Len(lengths)
    BY <2>9
  <2> QED BY <2>5, <2>8, <2>11, <2>12, <2>13 DEF DeliverySound
<1> QED BY <1>3, <1>4

LEMMA CanSendAppends ==
  ASSUME NEW x \in 0 .. 15, NEW d \in SevenBytes, CanSend(x, d), frames \in Seq(Frames),
         \A i \in DOMAIN frames : Sound(frames[i].data0, frames[i].data, lengths'),
         Sound(x, d, lengths')
  PROVE  FramesSound'
<1> DEFINE f == [own |-> TRUE, data0 |-> x, data |-> d]
<1>1. f \in Frames /\ f.data0 = x /\ f.data = d
  BY DEF Frames
<1>2. frames' = Append(frames, f) \/ UNCHANGED frames
  BY DEF CanSend
<1> HIDE DEF f
<1> QED BY <1>1, <1>2, FramesAppend

LEMMA SendStep ==
  ASSUME IsoTpInv, NEW len \in Nat, isotp_send(len) PROVE IsoTpInv'
<1>0. lengths \in Seq(Nat) /\ FramesSound /\ DeliverySound /\ UNCHANGED delivery
  BY DEF IsoTpInv, isotp_send
<1>1. lengths' = Append(lengths, len)
  BY DEF isotp_send, SendSingle, SendFirst
<1>2. /\ lengths' \in Seq(Nat) /\ frames \in Seq(Frames) /\ lengths' # <<>>
      /\ \A i \in DOMAIN frames : Sound(frames[i].data0, frames[i].data, lengths')
      /\ lengths'[Len(lengths')] = len /\ Len(lengths') \in Nat
  BY <1>0, <1>1, OneMore, SoundKept DEF FramesSound
<1>3. DeliverySound'
  BY <1>0, <1>1, DeliveryKept
<1>4. CASE SendSingle(len)
  <2> DEFINE d == Bytes(1, 1 + len - 1) \o Other(7 - len)
  <2>1. len \in 0 .. 7 /\ len \in 0 .. 15 /\ ISOTP_SINGLE_FRAME + len = len /\ 1 + len - 1 = len
    BY <1>4 DEF SendSingle, ISOTP_SINGLE_FRAME
  <2>2. CanSend(len, d) /\ UNCHANGED sending
    BY <1>4, <2>1 DEF SendSingle
  <2>3. /\ d \in SevenBytes
        /\ \A k \in 1 .. 7 : d[k] = IF k <= len THEN <<Len(lengths'), 1 + k - 1>> ELSE <<0, 0>>
    BY <1>2, <2>1, FrameBytes
  <2> HIDE DEF d
  <2>4. ASSUME NEW k \in 1 .. 7
        PROVE  d[k][1] \in {0, Len(lengths')} /\ (k <= len => d[k] = <<Len(lengths'), k>>)
    <3>1. 1 + k - 1 = k
      OBVIOUS
    <3> QED BY <2>3, <3>1
  <2>5. SoundFor(len, d, Len(lengths'), lengths')
    BY <1>2, <2>4 DEF SoundFor
  <2>6. Sound(len, d, lengths')
    <3>1. Len(lengths') \in 0 .. Len(lengths')
      BY <1>2
    <3> QED BY <2>1, <2>3, <2>5, <3>1 DEF Sound
  <2>7. FramesSound'
    BY <1>2, <2>1, <2>2, <2>3, <2>6, CanSendAppends
  <2>8. sending.remaining = 0
    BY DEF isotp_send, NotSending
  <2> QED BY <1>2, <1>3, <2>2, <2>7, <2>8 DEF IsoTpInv, Underway
<1>5. CASE SendFirst(len)
  <2> DEFINE d == Other(1) \o Bytes(1, 6)
             h == (len \div 256) % 16
             x == Or(ISOTP_FIRST_FRAME, h)
  <2>1. CanSend(x, d) /\ len > 7 /\ sending' = [seq_id |-> 0, remaining |-> len - 6]
    BY <1>5 DEF SendFirst
  <2>2. /\ d \in SevenBytes
        /\ \A k \in 1 .. 7 : d[k] = IF k = 1 THEN <<0, 0>> ELSE <<Len(lengths'), k - 1>>
    BY <1>2, FirstFrameBytes
  <2>3. h \in 0 .. 15
    OBVIOUS
  <2> HIDE DEF d, h
  <2>4. x \in 0 .. 15
    BY <2>3, OrFirst
  <2> HIDE DEF x
  <2>5. \A k \in 1 .. 7 : d[k][1] \in {0, Len(lengths')}
    BY <2>2
  <2>6. Sound(x, d, lengths')
    BY <1>2, <2>1, <2>2, <2>4, <2>5, PieceSound
  <2>7. FramesSound'
    BY <1>2, <2>1, <2>2, <2>4, <2>6, CanSendAppends
  <2>8. len - 6 \in Nat /\ len - 6 <= len
    BY <2>1
  <2>9. sending' \in [seq_id : 0 .. 15, remaining : Nat]
    BY <2>1, <2>8
  <2>10. Underway'
    BY <1>2, <2>1, <2>8 DEF Underway, CurrentLength
  <2> QED BY <1>2, <1>3, <2>7, <2>9, <2>10 DEF IsoTpInv
<1> QED BY <1>4, <1>5 DEF isotp_send

LEMMA ConsecutiveStep ==
  ASSUME IsoTpInv, isotp_send_consecutive PROVE IsoTpInv'
<1> DEFINE n == IF sending.remaining < 7 THEN sending.remaining ELSE 7
           sent == CurrentLength - sending.remaining
           q == sending.seq_id
           d == Bytes(sent + 1, sent + n) \o Other(7 - n)
           x == Or(ISOTP_CONSECUTIVE, q)
<1>0. /\ lengths \in Seq(Nat) /\ FramesSound /\ DeliverySound
      /\ UNCHANGED <<lengths, delivery>> /\ lengths' \in Seq(Nat)
  BY DEF IsoTpInv, isotp_send_consecutive
<1>1. /\ sending.remaining \in Nat \ {0} /\ q \in 0 .. 15
      /\ lengths # <<>> /\ CurrentLength > 7 /\ sending.remaining <= CurrentLength
  BY DEF IsoTpInv, isotp_send_consecutive, Underway
<1>2. CurrentLength \in Nat
  BY <1>0, <1>1, SeqElement DEF CurrentLength
<1>3. /\ CanSend(x, d)
      /\ sending' = IF sending.remaining = n THEN NotSending
                    ELSE [seq_id |-> (q + 1) % 16, remaining |-> sending.remaining - n]
  BY DEF isotp_send_consecutive
<1>4. /\ n \in 0 .. 7 /\ sent \in Nat
      /\ sending.remaining # n =>
            sending.remaining - n \in Nat /\ sending.remaining - n <= CurrentLength
  BY <1>1, <1>2
<1>5. x \in 0 .. 15
  BY <1>1, OrConsecutive
<1>6. /\ d \in SevenBytes
      /\ \A k \in 1 .. 7 : d[k][1] \in {0, Len(lengths')}
  <2> HIDE DEF n, sent
  <2>1. sent + 1 \in Nat /\ sent + 1 + n - 1 = sent + n
    BY <1>4
  <2> DEFINE e == Bytes(sent + 1, sent + 1 + n - 1) \o Other(7 - n)
  <2>2. /\ e \in SevenBytes
        /\ \A k \in 1 .. 7 : e[k] = IF k <= n THEN <<Len(lengths'), sent + 1 + k - 1>>
                                     ELSE <<0, 0>>
    BY <1>0, <1>4, <2>1, FrameBytes
  <2>3. e = d
    BY <2>1
  <2> HIDE DEF e, d
  <2> QED BY <2>2, <2>3
<1> HIDE DEF d, x, n, sent, q
<1>7. Sound(x, d, lengths')
  <2>1. lengths' # <<>> /\ lengths'[Len(lengths')] > 7
    BY <1>0, <1>1 DEF CurrentLength
  <2> QED BY <1>0, <1>5, <1>6, <2>1, PieceSound
<1>8. FramesSound'
  BY <1>0, <1>3, <1>5, <1>6, <1>7, CanSendAppends DEF FramesSound
<1>9. sending' \in [seq_id : 0 .. 15, remaining : Nat] /\ Underway'
  <2>1. CASE sending.remaining = n
    BY <1>3, <2>1 DEF NotSending, Underway
  <2>2. CASE sending.remaining # n
    <3>1. (q + 1) % 16 \in 0 .. 15
      BY <1>1
    <3>2. /\ sending'.remaining = sending.remaining - n
          /\ sending' \in [seq_id : 0 .. 15, remaining : Nat]
      BY <1>3, <1>4, <2>2, <3>1
    <3> QED BY <1>0, <1>1, <1>4, <2>2, <3>2 DEF Underway, CurrentLength
  <2> QED BY <2>1, <2>2
<1>10. DeliverySound'
  BY <1>0, DeliverySame
<1> QED BY <1>0, <1>8, <1>9, <1>10 DEF IsoTpInv

LEMMA IsoTpStepSound == ASSUME IsoTpInv, IsoTpNext PROVE IsoTpInv'
<1>1. ASSUME NEW len \in BufferLengths, isotp_receive(len) PROVE IsoTpInv'
  <2>0. len \in Nat
    BY IsoTpAssumption
  <2>1. DeliverySound'
    BY <1>1, <2>0, ReceiveSound
  <2>2. FramesSound'
    BY <1>1, FramesTail DEF IsoTpInv, isotp_receive
  <2>3. UNCHANGED <<sending, lengths>>
    BY <1>1 DEF isotp_receive
  <2> QED BY <2>1, <2>2, <2>3 DEF IsoTpInv, Underway, CurrentLength
<1>2. CASE OtherNodeSends
  <2>1. PICK own \in BOOLEAN :
             frames' = Append(frames, [own |-> own, data0 |-> 3, data |-> Other(7)])
    BY <1>2 DEF OtherNodeSends
  <2>2. UNCHANGED <<sending, lengths, delivery>>
    BY <1>2 DEF OtherNodeSends
  <2> DEFINE f == [own |-> own, data0 |-> 3, data |-> Other(7)]
  <2>3. Other(7) \in SevenBytes /\ \A k \in 1 .. 7 : Other(7)[k] = <<0, 0>>
    BY OtherBytes DEF SevenBytes
  <2>4. Sound(3, Other(7), lengths')
    <3>1. 0 \in 0 .. Len(lengths') /\ 0 \notin DOMAIN lengths'
      BY <2>2 DEF IsoTpInv
    <3>2. SoundFor(3, Other(7), 0, lengths')
      BY <2>3, <3>1 DEF SoundFor
    <3> QED BY <2>3, <3>1, <3>2 DEF Sound
  <2>5. f \in Frames /\ f.data0 = 3 /\ f.data = Other(7)
    BY <2>3 DEF Frames
  <2>6. /\ frames \in Seq(Frames)
        /\ \A i \in DOMAIN frames : Sound(frames[i].data0, frames[i].data, lengths')
    BY <2>2 DEF IsoTpInv, FramesSound
  <2>7. frames' = Append(frames, f)
    BY <2>1
  <2> HIDE DEF f
  <2>8. FramesSound'
    BY <2>4, <2>5, <2>6, <2>7, FramesAppend
  <2>9. DeliverySound'
    BY <2>2, DeliverySame DEF IsoTpInv
  <2> QED BY <2>2, <2>8, <2>9 DEF IsoTpInv, Underway, CurrentLength
<1> QED BY <1>1, <1>2, SendStep, ConsecutiveStep, IsoTpAssumption DEF IsoTpNext

LEMMA IsoTpAllNext == IsoTpInv /\ [Next]_vars => IsoTpInv'
<1> SUFFICES ASSUME IsoTpInv, [Next]_vars PROVE IsoTpInv'
  OBVIOUS
<1>1. CASE IsoTpStep
  BY <1>1, IsoTpStepSound DEF IsoTpStep
<1>2. CASE UNCHANGED isotpVars
  <2>1. UNCHANGED <<sending, frames, lengths, delivery>>
    BY <1>2 DEF isotpVars
  <2>2. DeliverySound'
    BY <2>1, DeliverySame DEF IsoTpInv
  <2> QED BY <2>1, <2>2 DEF IsoTpInv, Underway, CurrentLength, FramesSound
<1> QED BY <1>1, <1>2 DEF Next, vars, GoalStep, StatsStep, NotificationStep, VcuStep,
        RoadStep, WifiStep

LEMMA InitIsoTp == Init => IsoTpInv
  BY DEF Init, IsoTpInit, IsoTpInv, NotSending, Underway, FramesSound, DeliverySound,
     ShortMessagesWhole

\* For any lengths and buffers, whichever frames are lost and whatever others
\* send: what a call returns of a message of at most 7 bytes is that message,
\* and it never mixes two messages.
THEOREM ShortMessagesArriveWhole == Spec => []ShortMessagesWhole
<1>1. Init => IsoTpInv
  BY InitIsoTp
<1>2. IsoTpInv => ShortMessagesWhole
  BY DEF IsoTpInv, DeliverySound
<1> QED BY <1>1, <1>2, IsoTpAllNext, PTL DEF Spec

-----------------------------------------------------------------------------
(* WiFi credentials.                                                        *)

LEMMA MinExists ==
  ASSUME NEW S \in SUBSET Nat, S # {}
  PROVE  Min(S) \in S /\ \A y \in S : Min(S) <= y
<1>1. PICK x \in S : \A y \in S : ~ (<<y, x>> \in OpToRel(<, Nat))
  BY NatLessThanWellFounded, WFMin
<1>2. ASSUME NEW y \in S PROVE x <= y
  <2>1. x \in Nat /\ y \in Nat
    OBVIOUS
  <2>2. CASE y < x
    <3>1. <<y, x>> \in Nat \X Nat /\ <<y, x>>[1] < <<y, x>>[2]
      BY <2>1, <2>2
    <3> QED BY <1>1, <3>1, Zenon DEF OpToRel
  <2> QED BY <2>1, <2>2
<1> QED BY <1>2 DEF Min

Characters == Chars \cup {Nul}

\* A credential is no longer than the part of its buffer without an end.
Covers(buffer, text) ==
    /\ buffer \in [Indices -> Characters]
    /\ text \in Seq(Characters) /\ Len(text) <= MaxLen - 1
    /\ \A i \in 0 .. Len(text) - 1 : buffer[i] # Nul

\* strlen says no more than where the first end is.
LEMMA StrlenIsFirstEnd ==
  ASSUME NEW buffer \in [Indices -> Characters], NEW length \in Strlen(buffer)
  PROVE  /\ length \in Nat
         /\ \A i \in Indices : i < length => buffer[i] # Nul
         /\ length < MaxLen => buffer[length] = Nul
<1> DEFINE ends == {i \in Indices : buffer[i] = Nul}
<1>0. MaxLen \in Nat /\ ends \in SUBSET Nat
  BY WifiAssumption DEF Indices
<1>1. CASE ends = {}
  <2>1. length \in {MaxLen, MaxLen + 1}
    BY <1>1 DEF Strlen
  <2> QED BY <1>0, <1>1, <2>1
<1>2. CASE ends # {}
  <2>1. length = Min(ends)
    BY <1>2 DEF Strlen
  <2> HIDE DEF ends
  <2>2. length \in ends /\ \A i \in ends : length <= i
    BY <1>0, <1>2, <2>1, MinExists
  <2>3. length \in Nat
    BY <1>0, <2>2
  <2>4. ASSUME NEW i \in Indices, i < length PROVE i \notin ends
    <3>1. i \in Nat
      BY <1>0 DEF Indices
    <3> QED BY <2>2, <2>3, <2>4, <3>1
  <2> QED BY <2>2, <2>3, <2>4 DEF ends
<1> QED BY <1>1, <1>2

LEMMA TextIsSequence ==
  ASSUME NEW text \in Texts
  PROVE  text \in Seq(Chars) /\ Len(text) \in Nat
<1>1. PICK n \in 0 .. MaxLen : text \in [1 .. n -> Chars]
  BY DEF Texts
<1>2. n \in Nat
  BY WifiAssumption
<1> QED BY <1>1, <1>2

\* A write without a Nul is a text.
LEMMA CleanWrite ==
  ASSUME NEW w \in Writes, ~\E i \in DOMAIN w : w[i] = Nul PROVE w \in Texts
<1>1. PICK n \in 0 .. MaxLen : w \in [1 .. n -> Chars \cup {Nul}]
  BY DEF Writes
<1>2. \A i \in 1 .. n : w[i] \in Chars
  BY <1>1
<1>3. w \in [1 .. n -> Chars]
  BY <1>1, <1>2
<1> QED BY <1>3 DEF Texts

LEMMA WrittenTyped ==
  ASSUME NEW buffer \in [Indices -> Characters],
         NEW offset \in 0 .. MaxLen, NEW w \in Writes
  PROVE  Written(buffer, offset, w) \in [Indices -> Characters]
<1>1. PICK n \in 0 .. MaxLen : w \in [1 .. n -> Chars \cup {Nul}]
  BY DEF Writes
<1>2. n \in Nat /\ offset \in Nat /\ w \in Seq(Characters) /\ Len(w) = n
  <2>1. n \in Nat /\ offset \in Nat
    BY WifiAssumption
  <2> QED BY <1>1, <2>1 DEF Characters
<1>3. ASSUME NEW i \in Indices, i \in offset .. offset + Len(w) - 1
      PROVE  w[i - offset + 1] \in Characters
  <2>1. i - offset + 1 \in 1 .. n
    BY <1>2, <1>3
  <2> QED BY <1>1, <2>1 DEF Characters
<1> QED BY <1>3 DEF Written

\* What is written holds no end, so what was covered stays covered.
LEMMA WrittenCovers ==
  ASSUME NEW buffer, NEW text, Covers(buffer, text),
         NEW offset \in 0 .. MaxLen, NEW w \in Texts, Fits(offset, w)
  PROVE  Covers(Written(buffer, offset, w), text)
<1> DEFINE b == Written(buffer, offset, w)
<1>1. w \in Seq(Chars) /\ Len(w) \in Nat /\ offset \in Nat
  BY TextIsSequence, WifiAssumption
<1>2. ASSUME NEW i \in Indices
      PROVE  b[i] \in Characters /\ (buffer[i] # Nul => b[i] # Nul)
  <2>1. i \in Int /\ buffer[i] \in Characters
    BY WifiAssumption DEF Indices, Covers
  <2>2. CASE i \in offset .. offset + Len(w) - 1
    <3>1. b[i] = w[i - offset + 1]
      BY <2>2 DEF Written
    <3>2. i - offset + 1 \in 1 .. Len(w)
      BY <1>1, <2>1, <2>2
    <3>3. w[i - offset + 1] \in Chars
      BY <1>1, <3>2
    <3> QED BY <3>1, <3>3, WifiAssumption DEF Characters
  <2>3. CASE i \notin offset .. offset + Len(w) - 1
    BY <2>1, <2>3 DEF Written
  <2> QED BY <2>2, <2>3
<1>3. b \in [Indices -> Characters]
  BY <1>2 DEF Written
<1>4. \A i \in 0 .. Len(text) - 1 : i \in Indices
  BY WifiAssumption DEF Covers, Indices
<1> HIDE DEF b
<1>5. Covers(b, text)
  BY <1>2, <1>3, <1>4 DEF Covers
<1> QED BY <1>5 DEF b

\* What is copied from a buffer covers it, and is no shorter than before.
LEMMA CopiedCovers ==
  ASSUME NEW buffer, NEW text, Covers(buffer, text), NEW length \in Strlen(buffer)
  PROVE  Covers(buffer, Copied(buffer, length)) /\ Len(Copied(buffer, length)) >= Len(text)
<1> DEFINE n == Min({length, MaxLen - 1})
<1>1. /\ length \in Nat
      /\ \A i \in Indices : i < length => buffer[i] # Nul
      /\ length < MaxLen => buffer[length] = Nul
  BY StrlenIsFirstEnd DEF Covers
<1>2. MaxLen \in Nat /\ MaxLen - 1 \in Nat /\ Len(text) \in Nat
  BY WifiAssumption DEF Covers
<1>3. n \in Nat /\ n <= length /\ n <= MaxLen - 1 /\ n \in {length, MaxLen - 1}
  BY <1>1, <1>2, MinExists
<1>4. length >= Len(text)
  <2>1. CASE length < MaxLen /\ length < Len(text)
    <3>1. length \in 0 .. Len(text) - 1
      BY <1>1, <1>2, <2>1
    <3> QED BY <1>1, <2>1, <3>1 DEF Covers
  <2> QED BY <1>1, <1>2, <2>1 DEF Covers
<1> HIDE DEF n
<1>5. n >= Len(text)
  BY <1>1, <1>2, <1>3, <1>4 DEF Covers
<1>6. \A i \in 0 .. n - 1 : i \in Indices /\ buffer[i] # Nul
  BY <1>1, <1>2, <1>3 DEF Indices
<1>7. First(buffer, n) \in Seq(Characters) /\ Len(First(buffer, n)) = n
  <2>1. \A i \in 1 .. n : buffer[i - 1] \in Characters
    <3>1. \A i \in 1 .. n : i - 1 \in 0 .. n - 1
      BY <1>3
    <3> QED BY <1>6, <3>1 DEF Covers
  <2>2. First(buffer, n) \in [1 .. n -> Characters]
    BY <2>1 DEF First
  <2> QED BY <1>3, <2>2
<1>8. Copied(buffer, length) = First(buffer, n)
  BY DEF Copied, n
<1> QED BY <1>3, <1>5, <1>6, <1>7, <1>8 DEF Covers

\* What strlen finds before the end of a buffer are characters.
LEMMA FirstIsText ==
  ASSUME NEW buffer \in [Indices -> Characters], NEW length \in Strlen(buffer),
         NEW n \in Nat, n <= length, n <= MaxLen
  PROVE  First(buffer, n) \in Texts /\ Len(First(buffer, n)) = n
<1>0. MaxLen \in Nat
  BY WifiAssumption
<1>1. ASSUME NEW i \in 1 .. n PROVE buffer[i - 1] \in Chars
  <2>1. i - 1 \in Indices /\ i - 1 < length
    <3>1. length \in Nat
      BY StrlenIsFirstEnd
    <3> QED BY <1>0, <3>1 DEF Indices
  <2>2. buffer[i - 1] # Nul
    BY <2>1, StrlenIsFirstEnd
  <2> QED BY <2>1, <2>2 DEF Characters
<1>2. First(buffer, n) \in [1 .. n -> Chars]
  BY <1>1 DEF First
<1>3. n \in 0 .. MaxLen
  BY <1>0
<1> QED BY <1>2, <1>3, FunctionIsSequence DEF Texts

LEMMA CopiedIsString ==
  ASSUME NEW buffer \in [Indices -> Characters], NEW length \in Strlen(buffer)
  PROVE  Copied(buffer, length) \in Strings
<1> DEFINE n == Min({length, MaxLen - 1})
<1>1. length \in Nat /\ MaxLen \in Nat /\ MaxLen - 1 \in Nat
  BY StrlenIsFirstEnd, WifiAssumption
<1>2. n \in Nat /\ n <= length /\ n <= MaxLen - 1
  BY <1>1, MinExists
<1> HIDE DEF n
<1>3. First(buffer, n) \in Texts /\ Len(First(buffer, n)) = n
  BY <1>1, <1>2, FirstIsText
<1>4. Copied(buffer, length) = First(buffer, n)
  BY DEF Copied, n
<1> QED BY <1>1, <1>2, <1>3, <1>4 DEF Strings

LEMMA InitWifiTypes == WifiInit => WifiTypeOK
<1> SUFFICES ASSUME WifiInit PROVE WifiTypeOK
  OBVIOUS
<1>1. <<>> \in Texts /\ <<>> \in Strings
  <2>1. <<>> \in [1 .. 0 -> Chars] /\ 0 \in 0 .. MaxLen
    BY WifiAssumption
  <2>2. <<>> \in Texts
    BY <2>1 DEF Texts
  <2>3. Len(<<>>) < MaxLen
    BY WifiAssumption
  <2> QED BY <2>2, <2>3 DEF Strings
<1>2. Empty \in [Indices -> Chars \cup {Nul}]
  BY DEF Empty
<1>3. nul_written \in BOOLEAN
  <2>1. nul_written = FALSE
    BY DEF WifiInit
  <2> QED BY <2>1
<1>4. [ssid |-> <<>>, password |-> <<>>] \in [ssid : Strings, password : Strings]
  BY <1>1
<1> QED BY <1>1, <1>2, <1>3, <1>4 DEF WifiInit, WifiTypeOK

LEMMA WifiStepTypes == ASSUME WifiTypeOK, WifiNext PROVE WifiTypeOK'
<1>0. /\ credentials \in [ssid : Strings, password : Strings]
      /\ stored \in [ssid : Strings, password : Strings]
      /\ ssid \in [Indices -> Characters] /\ password \in [Indices -> Characters]
      /\ connecting \in Texts
  BY DEF WifiTypeOK, Characters
<1>1. PICK offset \in 0 .. MaxLen, text \in Writes :
           wifi_ssid_write(offset, text) \/ wifi_pass_write(offset, text)
  BY DEF WifiNext
<1>4. nul_written' \in BOOLEAN
  <2>1. \E b \in BOOLEAN : nul_written' = b
    BY Zenon DEF WifiNext
  <2> QED BY <2>1
<1>2. CASE wifi_ssid_write(offset, text)
  <2>1. ssid' \in [Indices -> Characters]
    BY <1>0, <1>2, WrittenTyped DEF wifi_ssid_write
  <2>2. PICK length \in Strlen(ssid') :
          credentials' = IF offset + Len(text) = length
                         THEN [credentials EXCEPT !.ssid = Copied(ssid', length)]
                         ELSE credentials
    BY <1>2 DEF wifi_ssid_write
  <2>3. Copied(ssid', length) \in Strings
    BY <2>1, CopiedIsString
  <2>4. credentials' \in [ssid : Strings, password : Strings]
    BY <1>0, <2>2, <2>3
  <2>5. UNCHANGED <<password, stored, connecting>>
    BY <1>2 DEF wifi_ssid_write
  <2> QED BY <1>0, <1>4, <2>1, <2>4, <2>5 DEF WifiTypeOK, Characters
<1>3. CASE wifi_pass_write(offset, text)
  <2>1. password' \in [Indices -> Characters]
    BY <1>0, <1>3, WrittenTyped DEF wifi_pass_write
  <2>2. PICK length \in Strlen(password') :
          IF offset + Len(text) = length THEN TakePassword(length)
          ELSE UNCHANGED <<credentials, stored, connecting>>
    BY <1>3 DEF wifi_pass_write
  <2>3. UNCHANGED ssid
    BY <1>3 DEF wifi_pass_write
  <2>4. CASE offset + Len(text) = length
    <3>1. length \in Nat /\ length <= MaxLen
      BY <1>3, <2>1, <2>4, StrlenIsFirstEnd DEF wifi_pass_write, Fits
    <3>2. connecting' \in Texts
      BY <2>1, <2>2, <2>4, <3>1, FirstIsText DEF TakePassword
    <3>3. Copied(password', length) \in Strings
      BY <2>1, CopiedIsString
    <3>4. credentials' \in [ssid : Strings, password : Strings] /\ stored' = credentials'
      BY <1>0, <2>2, <2>4, <3>3 DEF TakePassword
    <3> QED BY <1>0, <1>4, <2>1, <2>3, <3>2, <3>4 DEF WifiTypeOK, Characters
  <2>5. CASE offset + Len(text) # length
    BY <1>0, <1>4, <2>1, <2>2, <2>3, <2>5 DEF WifiTypeOK, Characters
  <2> QED BY <2>4, <2>5
<1> QED BY <1>1, <1>2, <1>3

LEMMA StringLength == ASSUME NEW s \in Strings PROVE s \in Seq(Characters) /\ Len(s) \in Nat
BY TextIsSequence DEF Strings, Characters

\* What holds until somebody writes a Nul.
Covered ==
    /\ Covers(ssid, credentials.ssid)
    /\ Covers(password, credentials.password)
    /\ Len(stored.ssid) <= Len(credentials.ssid)

WifiInv == WifiTypeOK /\ (~nul_written => Covered)

Grows ==
    /\ Len(credentials'.ssid) >= Len(credentials.ssid)
    /\ Len(credentials'.password) >= Len(credentials.password)
    /\ Len(stored'.ssid) >= Len(stored.ssid)

LEMMA TextStepGrows ==
  ASSUME WifiTypeOK, Covered, NEW offset \in 0 .. MaxLen, NEW text \in Texts,
         wifi_ssid_write(offset, text) \/ wifi_pass_write(offset, text)
  PROVE  Covered' /\ Grows
<1>0. /\ Len(credentials.ssid) \in Nat /\ Len(credentials.password) \in Nat
      /\ Len(stored.ssid) \in Nat
      /\ credentials \in [ssid : Strings, password : Strings]
      /\ stored \in [ssid : Strings, password : Strings]
  BY StringLength DEF WifiTypeOK
<1>2. CASE wifi_ssid_write(offset, text)
  <2>1. Covers(ssid', credentials.ssid)
    BY <1>2, WrittenCovers DEF wifi_ssid_write, Covered
  <2>2. PICK length \in Strlen(ssid') :
          credentials' = IF offset + Len(text) = length
                         THEN [credentials EXCEPT !.ssid = Copied(ssid', length)]
                         ELSE credentials
    BY <1>2 DEF wifi_ssid_write
  <2>3. /\ Covers(ssid', Copied(ssid', length))
        /\ Len(Copied(ssid', length)) >= Len(credentials.ssid)
    BY <2>1, CopiedCovers
  <2>4. UNCHANGED <<password, stored, connecting>>
    BY <1>2 DEF wifi_ssid_write
  <2>5. CASE credentials' = credentials
    BY <1>0, <2>1, <2>4, <2>5 DEF Covered, Grows
  <2>6. CASE credentials' = [credentials EXCEPT !.ssid = Copied(ssid', length)]
    <3>1. Copied(ssid', length) \in Seq(Characters) /\ Len(Copied(ssid', length)) \in Nat
      BY <2>3 DEF Covers
    <3>2. /\ credentials'.ssid = Copied(ssid', length)
          /\ credentials'.password = credentials.password
      BY <1>0, <2>6
    <3> QED BY <1>0, <2>3, <2>4, <3>1, <3>2 DEF Covered, Grows
  <2> QED BY <2>2, <2>5, <2>6
<1>3. CASE wifi_pass_write(offset, text)
  <2>1. Covers(password', credentials.password)
    BY <1>3, WrittenCovers DEF wifi_pass_write, Covered
  <2>2. PICK length \in Strlen(password') :
          IF offset + Len(text) = length THEN TakePassword(length)
          ELSE UNCHANGED <<credentials, stored, connecting>>
    BY <1>3 DEF wifi_pass_write
  <2>3. /\ Covers(password', Copied(password', length))
        /\ Len(Copied(password', length)) >= Len(credentials.password)
    BY <2>1, CopiedCovers
  <2>4. UNCHANGED ssid
    BY <1>3 DEF wifi_pass_write
  <2>5. CASE UNCHANGED <<credentials, stored, connecting>>
    BY <1>0, <2>1, <2>4, <2>5 DEF Covered, Grows
  <2>6. CASE TakePassword(length)
    <3>1. Copied(password', length) \in Seq(Characters)
          /\ Len(Copied(password', length)) \in Nat
      BY <2>3 DEF Covers
    <3>2. /\ credentials'.password = Copied(password', length)
          /\ credentials'.ssid = credentials.ssid
          /\ stored' = credentials'
      BY <1>0, <2>6 DEF TakePassword
    <3> QED BY <1>0, <2>3, <2>4, <3>1, <3>2 DEF Covered, Grows
  <2> QED BY <2>2, <2>5, <2>6
<1> QED BY <1>2, <1>3

LEMMA WifiStepGrows ==
  ASSUME WifiInv, WifiNext PROVE WifiInv' /\ (~nul_written' => Grows)
<1>1. WifiTypeOK'
  BY WifiStepTypes DEF WifiInv
<1>2. ASSUME ~nul_written' PROVE Covered' /\ Grows
  <2>1. PICK offset \in 0 .. MaxLen, text \in Writes :
             /\ wifi_ssid_write(offset, text) \/ wifi_pass_write(offset, text)
             /\ ~nul_written /\ ~\E i \in DOMAIN text : text[i] = Nul
    BY <1>2, Zenon DEF WifiNext
  <2>2. text \in Texts
    BY <2>1, CleanWrite
  <2>3. WifiTypeOK /\ Covered
    BY <2>1, Zenon DEF WifiInv
  <2> QED BY <2>1, <2>2, <2>3, TextStepGrows
<1> QED BY <1>1, <1>2 DEF WifiInv

LEMMA WifiAllNext == WifiInv /\ [Next]_vars => WifiInv' /\ [~nul_written' => Grows]_wifiVars
<1> SUFFICES ASSUME WifiInv, [Next]_vars PROVE WifiInv' /\ [~nul_written' => Grows]_wifiVars
  OBVIOUS
<1>1. CASE WifiStep
  BY <1>1, WifiStepGrows DEF WifiStep
<1>2. CASE UNCHANGED wifiVars
  BY <1>2 DEF wifiVars, WifiInv, WifiTypeOK, Covered
<1> QED BY <1>1, <1>2 DEF Next, vars, GoalStep, StatsStep, NotificationStep, IsoTpStep,
        VcuStep, RoadStep

LEMMA InitWifi == Init => WifiInv
<1> SUFFICES ASSUME WifiInit PROVE WifiInv
  BY DEF Init
<1>1. Covers(Empty, <<>>)
  BY WifiAssumption DEF Covers, Empty, Characters
<1>2. Covered
  BY <1>1 DEF WifiInit, Covered
<1> QED BY <1>2, InitWifiTypes, Zenon DEF WifiInv

\* As long as nobody writes a Nul, no credential gets shorter, whatever is
\* written and in whatever pieces.
THEOREM CredentialsNeverShrink == Spec => CredentialsOnlyGrow
<1> QED BY InitWifi, WifiAllNext, PTL DEF Spec, CredentialsOnlyGrow, Grows

-----------------------------------------------------------------------------
(* Types of the goals.                                                      *)

\* The time a cycle has read is one the clock has shown.
GoalTypes == GoalsTypeOK /\ current_time <= goal_clock

\* What of the types is not in GoalInv already.
LoopTypes ==
    /\ goal_clock \in 1 .. MaxGoalTime
    /\ goal_pc \in {"sleep", "check", "stopped", "crashed"}
    /\ goal_index \in 1 .. 256
    /\ current_time \in 0 .. GoalTimeRange - 1
    /\ late_since \in [GoalSlots -> 0 .. MaxGoalTime]
    /\ current_time <= goal_clock

LEMMA GoalConstants ==
    MaxSafetyGoals \in Nat /\ GoalTimeRange \in Nat \ {0} /\ MaxGoalTime \in Nat \ {0}
BY GoalAssumption

LEMMA GoalTypesAre == GoalInv /\ LoopTypes => GoalTypes
BY Zenon DEF GoalInv, LoopTypes, GoalTypes, GoalsTypeOK, Additions

LEMMA InitGoalTypes == GoalsInit => LoopTypes
BY GoalConstants DEF GoalsInit, LoopTypes

LEMMA CheckGoalTypes ==
  ASSUME GoalInv, LoopTypes, CheckGoal \/ CheckBehindTable PROVE LoopTypes'
<1>1. /\ goal_index <= num_goals /\ num_goals \in 0 .. 255 /\ goal_index \in 1 .. 256
      /\ UNCHANGED <<goal_clock, current_time>>
  BY DEF CheckGoal, CheckBehindTable, GoalInv, LoopTypes
<1>2. /\ goal_index' \in {goal_index, goal_index + 1}
      /\ goal_pc' \in {goal_pc, "stopped", "crashed"}
  BY DEF CheckGoal, CheckBehindTable, LateGoal, VerifiedGoal, FailedGoal, CallNothing,
     handle_goal_violation, NextGoal, StopLoop, CrashLoop
<1>3. current_time \in 0 .. MaxGoalTime
  BY GoalConstants DEF LoopTypes
<1>4. late_since' \in [GoalSlots -> 0 .. MaxGoalTime]
  <2>1. ASSUME NEW t \in 0 .. MaxGoalTime, late_since' = [late_since EXCEPT ![goal_index] = t]
        PROVE  late_since' \in [GoalSlots -> 0 .. MaxGoalTime]
    BY <2>1 DEF LoopTypes
  <2>2. CASE CheckGoal
    <3>1. goal_index \in GoalSlots /\ late_since[goal_index] \in 0 .. MaxGoalTime
          /\ 0 \in 0 .. MaxGoalTime
      BY <2>2, GoalConstants DEF CheckGoal, LoopTypes
    <3>2. \/ late_since' = late_since
          \/ \E t \in 0 .. MaxGoalTime : late_since' = [late_since EXCEPT ![goal_index] = t]
      BY <1>3, <2>2, <3>1 DEF CheckGoal, LateGoal, VerifiedGoal, FailedGoal, CallNothing
    <3> QED BY <2>1, <3>2 DEF LoopTypes
  <2>3. CASE CheckBehindTable
    BY <2>3 DEF CheckBehindTable, LoopTypes
  <2> QED BY <2>2, <2>3
<1>5. goal_index' \in 1 .. 256
  BY <1>1, <1>2
<1> QED BY <1>1, <1>2, <1>4, <1>5 DEF LoopTypes

LEMMA GoalStepTypes == ASSUME GoalInv, LoopTypes, GoalsNext PROVE LoopTypes'
<1>1. goal_clock \in 1 .. MaxGoalTime /\ current_time <= goal_clock /\ current_time \in Nat
      /\ MaxGoalTime \in Nat \ {0} /\ GoalTimeRange \in Nat \ {0}
  BY GoalConstants DEF LoopTypes
<1>2. ASSUME NEW t \in GoalRegistrars, Registration(t) PROVE LoopTypes'
  <2>1. UNCHANGED <<goal_clock, loopVars>>
    BY <1>2 DEF Registration, register_safety_goal, LoadGoalsAgain, CountGoal, CopyGoal
  <2>2. late_since' \in [GoalSlots -> 0 .. MaxGoalTime]
    BY <1>1, <1>2
       DEF Registration, register_safety_goal, LoadGoalsAgain, CountGoal, CopyGoal, LoopTypes
  <2> QED BY <2>1, <2>2 DEF loopVars, LoopTypes
<1>3. CASE StartGoalCheck
  <2>1. /\ goal_clock % GoalTimeRange \in 0 .. GoalTimeRange - 1
        /\ goal_clock % GoalTimeRange <= goal_clock
    BY <1>1, Remainder
  <2> QED BY <1>3, <2>1 DEF StartGoalCheck, LoopTypes
<1>4. CASE CheckGoal \/ CheckBehindTable
  BY <1>4, CheckGoalTypes
<1>5. CASE EndGoalCheck
  BY <1>5 DEF EndGoalCheck, LoopTypes
<1>6. CASE GoalClock
  BY <1>1, <1>6 DEF GoalClock, loopVars, LoopTypes
<1> QED BY <1>2, <1>3, <1>4, <1>5, <1>6 DEF GoalsNext, monitor_safety_goals

-----------------------------------------------------------------------------
(* Types of the notifications.                                              *)

LEMMA NotificationConstants ==
    /\ MaxSignals \in Nat \ {0} /\ MaxCallbacks \in Nat \ {0} /\ MaxEventQueue \in Nat \ {0}
    /\ MaxSent \in Nat \ {0} /\ 0 \in SignalIds
BY NotificationAssumption

Numbered == [id : SignalIds, n : Numbers]
Registrations == [at : {"idle", "id", "callback", "count"}, id : SignalIds, slot : 0 .. 255]

NotificationTypes == NotificationsTypeOK /\ signals_sent \in 0 .. MaxSent

LEMMA InitNotificationTypes == NotificationsInit => NotificationTypes
<1> SUFFICES ASSUME NotificationsInit PROVE NotificationTypes
  OBVIOUS
<1>1. /\ signal_queue \in Seq(Numbered) /\ Len(signal_queue) = 0
      /\ called \in Seq(Numbers)
      /\ callbacks \in [Slots -> [id : SignalIds, set : BOOLEAN]]
      /\ registering \in [CallbackRegistrars -> Registrations]
      /\ num_callbacks \in 0 .. 255
  BY NotificationConstants DEF NotificationsInit, NotRegistering, Registrations
<1>2. /\ waits_for \in [Receivers -> SignalIds \cup {NoSignal}]
      /\ in_thread = NoSignal /\ received = {} /\ discarded = {}
  BY DEF NotificationsInit
<1>3. /\ callback_index \in 1 .. 256 /\ signals_sent \in 0 .. MaxSent
      /\ queue_head = 0 /\ queue_tail \in 0 .. MaxEventQueue - 1
  BY NotificationConstants DEF NotificationsInit
<1>4. signal_fault \in BOOLEAN
  <2>1. signal_fault = FALSE
    BY DEF NotificationsInit
  <2> QED BY <2>1
<1> QED BY <1>1, <1>2, <1>3, <1>4, NotificationConstants
        DEF NotificationsTypeOK, NotificationTypes, Numbered, Registrations

\* What Get takes is a signal, and what it leaves are signals.
LEMMA GetTypes ==
  ASSUME NotificationTypes, Get
  PROVE  /\ Head(signal_queue) \in Numbered
         /\ Head(signal_queue).id \in SignalIds /\ Head(signal_queue).n \in Numbers
         /\ signal_queue' \in Seq(Numbered) /\ Len(signal_queue') <= MaxSignals
<1>1. /\ signal_queue \in Seq(Numbered) /\ Len(signal_queue) <= MaxSignals
      /\ signal_queue # <<>> /\ signal_queue' = Tail(signal_queue)
  BY DEF NotificationTypes, NotificationsTypeOK, Get, Numbered
<1>2. /\ Head(signal_queue) \in Numbered /\ Tail(signal_queue) \in Seq(Numbered)
      /\ Len(Tail(signal_queue)) = Len(signal_queue) - 1 /\ Len(signal_queue) \in Nat
  BY <1>1
<1> QED BY <1>1, <1>2, NotificationConstants DEF Numbered

LEMMA SignalSendTypes ==
  ASSUME NotificationTypes, NEW id \in SignalIds, signal_send(id), UNCHANGED eventVars
  PROVE  NotificationTypes'
<1>1. /\ signal_queue \in Seq(Numbered) /\ Len(signal_queue) <= MaxSignals
      /\ signals_sent \in Nat /\ signals_sent < MaxSent
  BY NotificationConstants DEF NotificationTypes, NotificationsTypeOK, signal_send, Numbered
<1>2. signals_sent + 1 \in Numbers /\ signals_sent' \in 0 .. MaxSent
  BY <1>1, NotificationConstants DEF signal_send, Numbers
<1>3. discarded' \subseteq Numbers
  BY <1>2 DEF signal_send, NotificationTypes, NotificationsTypeOK
<1>4. signal_queue' \in Seq(Numbered) /\ Len(signal_queue') <= MaxSignals
  <2>1. CASE Len(signal_queue) < MaxSignals
    <3> DEFINE s == [id |-> id, n |-> signals_sent + 1]
    <3>1. s \in Numbered
      BY <1>2 DEF Numbered
    <3>2. signal_queue' = Append(signal_queue, s)
      BY <2>1 DEF signal_send
    <3> HIDE DEF s
    <3> QED BY <1>1, <2>1, <3>1, <3>2, NotificationConstants
  <2> QED BY <1>1, <2>1 DEF signal_send
<1>5. UNCHANGED <<callbackVars, waits_for, threadVars, called, received>>
  BY DEF signal_send
<1>6. UNCHANGED <<queue_head, queue_tail>>
  BY DEF eventVars
<1> QED BY <1>2, <1>3, <1>4, <1>5, <1>6
        DEF NotificationTypes, NotificationsTypeOK, Numbered, callbackVars, threadVars

LEMMA RegistrationTypes ==
  ASSUME NotificationTypes, NEW t \in CallbackRegistrars, CallbackRegistration(t),
         UNCHANGED eventVars
  PROVE  NotificationTypes'
<1> DEFINE Registered == [id : SignalIds, set : BOOLEAN]
           r == registering[t]
<1>1. /\ callbacks \in [Slots -> Registered] /\ num_callbacks \in 0 .. 255
      /\ registering \in [CallbackRegistrars -> Registrations]
  BY DEF NotificationTypes, NotificationsTypeOK, Registrations
<1>2. r \in Registrations /\ r.id \in SignalIds /\ r.slot \in 0 .. 255
  <2>1. r \in Registrations
    BY <1>1
  <2> QED BY <2>1 DEF Registrations
<1>3. ASSUME NEW id \in SignalIds, register_signal_callback(t, id)
      PROVE  /\ callbacks' = callbacks /\ num_callbacks' = num_callbacks
             /\ registering' \in [CallbackRegistrars -> Registrations]
  BY <1>1, <1>3 DEF register_signal_callback, Registrations
<1>4. ASSUME LoadCallbacksAgain(t) PROVE registering' \in [CallbackRegistrars -> Registrations]
  <2>1. [r EXCEPT !.slot = num_callbacks] \in Registrations
    BY <1>1, <1>2 DEF Registrations
  <2>2. registering' = [registering EXCEPT ![t] = [r EXCEPT !.slot = num_callbacks]]
    BY <1>1, <1>4 DEF LoadCallbacksAgain
  <2> QED BY <1>1, <2>1, <2>2
<1>5. ASSUME NEW p \in {"callback", "count"} PROVE [r EXCEPT !.at = p] \in Registrations
  BY <1>2 DEF Registrations
<1>6. ASSUME NEW p \in {"callback", "count"}, registering' = [registering EXCEPT ![t].at = p]
      PROVE  registering' \in [CallbackRegistrars -> Registrations]
  <2>1. registering' = [registering EXCEPT ![t] = [r EXCEPT !.at = p]]
    BY <1>1, <1>6
  <2> QED BY <1>1, <1>5, <2>1
<1>7. ASSUME StoreSignalId(t)
      PROVE  /\ callbacks' \in [Slots -> Registered]
             /\ registering' \in [CallbackRegistrars -> Registrations]
  <2>1. callbacks' \in [Slots -> Registered]
    <3>1. \A i \in Slots : [callbacks[i] EXCEPT !.id = r.id] \in Registered
      BY <1>1, <1>2
    <3> QED BY <1>1, <1>7, <3>1 DEF StoreSignalId
  <2> QED BY <1>6, <1>7, <2>1 DEF StoreSignalId
<1>8. ASSUME StoreCallback(t)
      PROVE  /\ callbacks' \in [Slots -> Registered]
             /\ registering' \in [CallbackRegistrars -> Registrations]
  <2>1. callbacks' \in [Slots -> Registered]
    <3>1. \A i \in Slots : [callbacks[i] EXCEPT !.set = TRUE] \in Registered
      BY <1>1
    <3> QED BY <1>1, <1>8, <3>1 DEF StoreCallback
  <2> QED BY <1>6, <1>8, <2>1 DEF StoreCallback
<1>9. ASSUME CountCallback(t)
      PROVE  /\ num_callbacks' \in 0 .. 255
             /\ registering' \in [CallbackRegistrars -> Registrations]
  <2>1. num_callbacks' \in 0 .. 255
    BY <1>2, <1>9 DEF CountCallback
  <2>2. NotRegistering \in Registrations
    BY NotificationConstants DEF NotRegistering, Registrations
  <2> QED BY <1>1, <1>9, <2>1, <2>2 DEF CountCallback
<1>10. /\ callbacks' \in [Slots -> Registered] /\ num_callbacks' \in 0 .. 255
       /\ registering' \in [CallbackRegistrars -> Registrations]
  <2>1. CASE LoadCallbacksAgain(t)
    BY <1>1, <1>4, <2>1 DEF LoadCallbacksAgain
  <2>2. CASE StoreSignalId(t)
    BY <1>1, <1>7, <2>2 DEF StoreSignalId
  <2>3. CASE StoreCallback(t)
    BY <1>1, <1>8, <2>3 DEF StoreCallback
  <2>4. CASE CountCallback(t)
    BY <1>1, <1>9, <2>4 DEF CountCallback
  <2> QED BY <1>1, <1>3, <2>1, <2>2, <2>3, <2>4 DEF CallbackRegistration
<1>11. UNCHANGED <<signal_queue, waits_for, in_thread, callback_index, signal_fault,
                   signals_sent, called, received, discarded, queue_head, queue_tail>>
  BY DEF CallbackRegistration, threadVars, eventVars
<1> QED BY <1>10, <1>11 DEF NotificationTypes, NotificationsTypeOK, Registrations

LEMMA CallTypes ==
  ASSUME NotificationTypes, SignalCall, UNCHANGED eventVars PROVE NotificationTypes'
<1>0. UNCHANGED <<queue_head, queue_tail>>
  BY DEF eventVars
<1>1. ASSUME NEW t \in CallbackRegistrars, CallbackRegistration(t) PROVE NotificationTypes'
  BY <1>1, RegistrationTypes
<1>2. ASSUME NEW r \in Receivers, NEW id \in SignalIds, StartReceive(r, id)
      PROVE  NotificationTypes'
  <2>1. waits_for' \in [Receivers -> SignalIds \cup {NoSignal}]
    BY <1>2 DEF StartReceive, NotificationTypes, NotificationsTypeOK
  <2>2. UNCHANGED <<signal_queue, callbackVars, threadVars, signals_sent, called, received,
                    discarded>>
    BY <1>2 DEF StartReceive
  <2> QED BY <1>0, <2>1, <2>2
          DEF NotificationTypes, NotificationsTypeOK, callbackVars, threadVars
<1>3. ASSUME NEW r \in Receivers, signal_receive(r) PROVE NotificationTypes'
  <2>1. /\ Head(signal_queue).n \in Numbers
        /\ signal_queue' \in Seq(Numbered) /\ Len(signal_queue') <= MaxSignals
    BY <1>3, GetTypes DEF signal_receive
  <2>2. received' \subseteq Numbers /\ discarded' \subseteq Numbers
    BY <1>3, <2>1 DEF signal_receive, NotificationTypes, NotificationsTypeOK
  <2>3. waits_for' \in [Receivers -> SignalIds \cup {NoSignal}]
    BY <1>3 DEF signal_receive, NotificationTypes, NotificationsTypeOK
  <2>4. UNCHANGED <<callbackVars, threadVars, signals_sent, called>>
    BY <1>3 DEF signal_receive
  <2> QED BY <1>0, <2>1, <2>2, <2>3, <2>4
          DEF NotificationTypes, NotificationsTypeOK, Numbered, callbackVars, threadVars
<1> QED BY <1>1, <1>2, <1>3, SignalSendTypes DEF SignalCall

LEMMA ThreadTypes ==
  ASSUME NotificationTypes, signal_processing_thread, UNCHANGED eventVars
  PROVE  NotificationTypes'
<1>0. UNCHANGED <<queue_head, queue_tail>>
  BY DEF eventVars
<1>a. num_callbacks \in 0 .. 255 /\ called \in Seq(Numbers) /\ callback_index \in 1 .. 256
  BY DEF NotificationTypes, NotificationsTypeOK
<1>b. in_thread # NoSignal => in_thread.n \in Numbers
  BY DEF NotificationTypes, NotificationsTypeOK
<1>1. CASE TakeSignal
  <2>1. /\ in_thread' \in Numbered
        /\ signal_queue' \in Seq(Numbered) /\ Len(signal_queue') <= MaxSignals
    BY <1>1, GetTypes DEF TakeSignal
  <2>2. callback_index' \in 1 .. 256
    BY <1>1 DEF TakeSignal
  <2>3. UNCHANGED <<callbackVars, waits_for, signal_fault, signals_sent, called, received,
                    discarded>>
    BY <1>1 DEF TakeSignal
  <2> QED BY <1>0, <2>1, <2>2, <2>3
          DEF NotificationTypes, NotificationsTypeOK, Numbered, callbackVars
<1>2. CASE RunCallback
  <2>1. callback_index' \in 1 .. 256
    BY <1>2, <1>a DEF RunCallback
  <2>2. \/ called' = Append(called, in_thread.n) /\ UNCHANGED signal_fault
        \/ UNCHANGED <<called, signal_fault>>
        \/ signal_fault' = TRUE /\ UNCHANGED called
    BY <1>2 DEF RunCallback, CallCallback, PassEntry, CallFaults
  <2>3. in_thread.n \in Numbers
    BY <1>2, <1>b DEF RunCallback
  <2>4. called' \in Seq(Numbers)
    BY <1>a, <2>2, <2>3
  <2>5. signal_fault' \in BOOLEAN
    <3>1. signal_fault' = signal_fault \/ signal_fault' = TRUE
      BY <2>2
    <3> QED BY <3>1 DEF NotificationTypes, NotificationsTypeOK
  <2>6. UNCHANGED <<signal_queue, callbackVars, waits_for, in_thread, signals_sent,
                    received, discarded>>
    BY <1>2 DEF RunCallback
  <2> QED BY <1>0, <2>1, <2>4, <2>5, <2>6
          DEF NotificationTypes, NotificationsTypeOK, callbackVars
<1>3. CASE SignalProcessed
  <2>1. in_thread' = NoSignal /\ discarded' \subseteq Numbers
    BY <1>3, <1>b DEF SignalProcessed, NotificationTypes, NotificationsTypeOK
  <2>2. UNCHANGED <<signal_queue, callbackVars, waits_for, callback_index, signal_fault,
                    signals_sent, called, received>>
    BY <1>3 DEF SignalProcessed
  <2> QED BY <1>0, <2>1, <2>2 DEF NotificationTypes, NotificationsTypeOK, callbackVars
<1> QED BY <1>1, <1>2, <1>3 DEF signal_processing_thread

LEMMA NotificationStepTypes ==
  ASSUME NotificationTypes, NotificationsNext PROVE NotificationTypes'
<1>1. CASE publish_event /\ UNCHANGED signalVars
  <2>1. queue_tail \in Nat /\ MaxEventQueue \in Nat \ {0} /\ queue_head = 0
        /\ queue_tail \in 0 .. MaxEventQueue - 1
    BY NotificationConstants DEF NotificationTypes, NotificationsTypeOK
  <2>2. (queue_tail + 1) % MaxEventQueue \in 0 .. MaxEventQueue - 1
    BY <2>1
  <2>3. queue_head' = 0 /\ queue_tail' \in 0 .. MaxEventQueue - 1
    BY <1>1, <2>1, <2>2 DEF publish_event
  <2> QED BY <1>1, <2>3
          DEF signalVars, callbackVars, threadVars, NotificationTypes, NotificationsTypeOK
<1> QED BY <1>1, CallTypes, ThreadTypes DEF NotificationsNext

-----------------------------------------------------------------------------
(* Types of ISO-TP.                                                         *)

\* Bounds of the ISO-TP state, whose types are in IsoTpInv.
IsoTpSizes ==
    /\ lengths \in Seq(MessageLengths) /\ Len(lengths) <= MaxMessages
    /\ Len(frames) <= MaxFrames

LEMMA IsoTpStepSizes ==
  ASSUME IsoTpInv, IsoTpSizes, IsoTpNext PROVE IsoTpSizes'
<1>0. /\ lengths \in Seq(MessageLengths) /\ Len(lengths) <= MaxMessages /\ Len(lengths) \in Nat
      /\ frames \in Seq(Frames) /\ Len(frames) <= MaxFrames /\ Len(frames) \in Nat
      /\ MaxMessages \in Nat /\ MaxFrames \in Nat
  BY IsoTpAssumption DEF IsoTpInv, IsoTpSizes, FramesSound
<1>1. ASSUME NEW x, NEW d, CanSend(x, d) PROVE Len(frames') <= MaxFrames
  <2>1. \A f : Len(Append(frames, f)) = Len(frames) + 1
    BY <1>0
  <2> QED BY <1>0, <1>1, <2>1 DEF CanSend
<1>2. ASSUME NEW len \in MessageLengths, isotp_send(len) PROVE IsoTpSizes'
  <2>1. lengths' = Append(lengths, len) /\ Len(lengths) < MaxMessages
    BY <1>2 DEF isotp_send, SendSingle, SendFirst
  <2>2. lengths' \in Seq(MessageLengths) /\ Len(lengths') <= MaxMessages
    BY <1>0, <2>1
  <2>3. Len(frames') <= MaxFrames
    BY <1>1, <1>2 DEF isotp_send, SendSingle, SendFirst
  <2> QED BY <2>2, <2>3 DEF IsoTpSizes
<1>3. CASE isotp_send_consecutive
  <2>1. Len(frames') <= MaxFrames /\ UNCHANGED lengths
    BY <1>1, <1>3 DEF isotp_send_consecutive
  <2> QED BY <1>0, <2>1 DEF IsoTpSizes
<1>4. ASSUME NEW len \in BufferLengths, isotp_receive(len) PROVE IsoTpSizes'
  <2>1. frames # <<>> /\ frames' = Tail(frames) /\ UNCHANGED lengths
    BY <1>4 DEF isotp_receive
  <2>2. Len(frames') = Len(frames) - 1
    BY <1>0, <2>1
  <2>3. Len(frames') <= MaxFrames
    BY <1>0, <2>2
  <2> QED BY <1>0, <2>1, <2>3 DEF IsoTpSizes
<1>5. CASE OtherNodeSends
  <2>1. \A f : Len(Append(frames, f)) = Len(frames) + 1
    BY <1>0
  <2>2. Len(frames') <= MaxFrames /\ UNCHANGED lengths
    BY <1>0, <1>5, <2>1 DEF OtherNodeSends
  <2> QED BY <1>0, <2>2 DEF IsoTpSizes
<1> QED BY <1>2, <1>3, <1>4, <1>5 DEF IsoTpNext

LEMMA IsoTpTypes == IsoTpInv /\ IsoTpSizes => IsoTpTypeOK
<1> SUFFICES ASSUME IsoTpInv, IsoTpSizes PROVE IsoTpTypeOK
  OBVIOUS
<1>1. ASSUME NEW i \in DOMAIN frames
      PROVE  frames[i].data0 \in 0 .. 255 /\ Len(frames[i].data) = 7
  <2> DEFINE f == frames[i]
  <2>1. f \in Frames
    BY DEF IsoTpInv, FramesSound
  <2> HIDE DEF f
  <2>2. f.data0 \in 0 .. 15 /\ f.data \in [1 .. 7 -> ByteSet]
    BY <2>1 DEF Frames, SevenBytes
  <2>3. Len(f.data) = 7
    BY <2>2, FunctionIsSequence
  <2>4. f.data0 \in 0 .. 255
    BY <2>2
  <2> QED BY <2>3, <2>4 DEF f
<1> QED BY <1>1 DEF IsoTpInv, IsoTpSizes, IsoTpTypeOK

-----------------------------------------------------------------------------
(* Types of the road and of the VCU.                                        *)

\* What of the types is not in RoadInv already.
VehicleTypes ==
    /\ v2i_ctx \in [light : BOOLEAN, road : Conditions, flow : Flows]
    /\ node_condition \in Conditions
    /\ brake_warnings \in BOOLEAN

LEMMA RoadTypes == RoadInv /\ VehicleTypes => V2xTypeOK
<1> SUFFICES ASSUME RoadInv, VehicleTypes PROVE V2xTypeOK
  OBVIOUS
<1>1. {brake_warnings, overrun} \subseteq BOOLEAN
  BY Zenon DEF RoadInv, VehicleTypes
<1> QED BY <1>1, Zenon DEF RoadInv, VehicleTypes, V2xTypeOK, Reportings

LEMMA InitVehicleTypes == V2xInit => VehicleTypes
<1> SUFFICES ASSUME V2xInit PROVE VehicleTypes
  OBVIOUS
<1>1. brake_warnings = FALSE
  BY DEF V2xInit
<1>2. /\ v2i_ctx \in [light : BOOLEAN, road : Conditions, flow : Flows]
      /\ node_condition \in Conditions
  BY DEF V2xInit, Conditions, Flows
<1> QED BY <1>1, <1>2 DEF VehicleTypes

LEMMA MessageTypes == ASSUME VehicleTypes, process_v2i_message PROVE VehicleTypes'
<1>1. /\ v2i_ctx \in [light : BOOLEAN, road : Conditions, flow : Flows]
      /\ brake_warnings \in BOOLEAN /\ UNCHANGED node_condition
  BY DEF VehicleTypes, process_v2i_message
<1>2. ASSUME NEW light \in Lights, NEW near \in BOOLEAN, handle_traffic_light_data(light, near)
      PROVE  /\ v2i_ctx' \in [light : BOOLEAN, road : Conditions, flow : Flows]
             /\ brake_warnings' \in BOOLEAN
  <2>1. v2i_ctx' \in [light : BOOLEAN, road : Conditions, flow : Flows]
    <3>1. (light # ZeroLight) \in BOOLEAN
      OBVIOUS
    <3> QED BY <1>1, <1>2, <3>1 DEF handle_traffic_light_data
  <2>2. brake_warnings' \in BOOLEAN
    BY <1>2, Zenon DEF handle_traffic_light_data
  <2> QED BY <2>1, <2>2
<1>3. ASSUME NEW c \in Conditions, handle_road_condition_data(c)
      PROVE  /\ v2i_ctx' \in [light : BOOLEAN, road : Conditions, flow : Flows]
             /\ brake_warnings' = brake_warnings
  BY <1>1, <1>3 DEF handle_road_condition_data
<1>4. ASSUME NEW f \in Flows, handle_traffic_flow_data(f)
      PROVE  /\ v2i_ctx' \in [light : BOOLEAN, road : Conditions, flow : Flows]
             /\ brake_warnings' = brake_warnings
  BY <1>1, <1>4 DEF handle_traffic_flow_data
<1>5. /\ v2i_ctx' \in [light : BOOLEAN, road : Conditions, flow : Flows]
      /\ brake_warnings' \in BOOLEAN
  BY <1>1, <1>2, <1>3, <1>4 DEF process_v2i_message
<1> QED BY <1>1, <1>5 DEF VehicleTypes

LEMMA RoadReportTypes == ASSUME VehicleTypes, RoadReport PROVE VehicleTypes'
BY DEF RoadReport, update_road_condition, process_road_condition, VehicleTypes

LEMMA VcuConstants == MaxOnBus \in Nat /\ MaxUnacked \in Nat
BY VcuAssumption

\* The part of the state that the MQTT thread, main and the work queue write.
Places == [main : {"boot", "stopped", "returned", "filter", "loop"},
           mqtt : {"run", "stopped"}, workq : {"run", "stopped"}]

MqttTypes ==
    /\ vcu_pc \in Places
    /\ mqtt_link \in {"down", "connecting", "up"}
    /\ mqtt_work \in BOOLEAN /\ subscribed \in BOOLEAN /\ link_lost \in BOOLEAN
    /\ unacked \in 0 .. MaxUnacked

CanTypes ==
    /\ Len(on_bus) <= MaxOnBus
    /\ obstacle \in Distances \cup {NoObstacle}
    /\ warned \cup measured \subseteq Distances \cup {NoObstacle}

VcuTypes == VehicleTypes /\ MqttTypes /\ CanTypes

LEMMA VcuTypesAre == RoadInv /\ VcuTypes => VcuTypeOK
<1> SUFFICES ASSUME RoadInv, VcuTypes PROVE VcuTypeOK
  OBVIOUS
<1>1. {mqtt_work, subscribed, link_lost} \subseteq BOOLEAN
  BY Zenon DEF VcuTypes, MqttTypes
<1>2. /\ vcu_pc \in Places /\ mqtt_link \in {"down", "connecting", "up"}
      /\ unacked \in 0 .. MaxUnacked /\ V2xTypeOK /\ CanTypes
  BY RoadTypes DEF VcuTypes, MqttTypes
<1>3. VcuTypeOK = (/\ V2xTypeOK /\ vcu_pc \in Places
                   /\ mqtt_link \in {"down", "connecting", "up"}
                   /\ {mqtt_work, subscribed, link_lost} \subseteq BOOLEAN
                   /\ unacked \in 0 .. MaxUnacked
                   /\ CanTypes)
  BY Zenon DEF CanTypes, VcuTypeOK, Places
<1> QED BY <1>1, <1>2, <1>3, Zenon

LEMMA InitVcuTypes == VcuInit => VcuTypes
<1> SUFFICES ASSUME VcuInit PROVE VcuTypes
  OBVIOUS
<1>1. VehicleTypes
  BY InitVehicleTypes DEF VcuInit
<1>2. MqttTypes
  <2>1. vcu_pc \in Places /\ unacked \in 0 .. MaxUnacked /\ mqtt_link = "down"
    BY VcuConstants DEF VcuInit, Places
  <2>2. mqtt_work = FALSE /\ subscribed = FALSE /\ link_lost = FALSE
    BY DEF VcuInit
  <2>3. mqtt_work \in BOOLEAN /\ subscribed \in BOOLEAN /\ link_lost \in BOOLEAN
    BY <2>2
  <2> QED BY <2>1, <2>3, Zenon DEF MqttTypes
<1>3. CanTypes
  BY VcuConstants DEF VcuInit, CanTypes
<1> QED BY <1>1, <1>2, <1>3 DEF VcuTypes

LEMMA PlaceChanges ==
  ASSUME NEW p \in Places
  PROVE  /\ \A m \in {"boot", "stopped", "returned", "filter", "loop"} : [p EXCEPT !.main = m] \in Places
         /\ [p EXCEPT !["mqtt"] = "stopped"] \in Places
         /\ [p EXCEPT !["workq"] = "stopped"] \in Places
BY DEF Places

LEMMA MqttStepTypes == ASSUME MqttTypes, VcuNext PROVE MqttTypes'
<1>0. unacked \in Nat /\ MaxUnacked \in Nat /\ 0 \in 0 .. MaxUnacked
  BY VcuConstants DEF MqttTypes
<1>1. CASE main
  <2>1. vcu_pc' \in Places
    BY <1>1, PlaceChanges DEF main, BootFails, AddFilter, InitMqtt, MqttTypes
  <2>2. UNCHANGED <<mqtt_link, mqtt_work, subscribed, link_lost, unacked>>
    BY <1>1 DEF main, BootFails, AddFilter, InitMqtt
  <2> QED BY <2>1, <2>2 DEF MqttTypes
<1>2. CASE ScheduleFirst
  BY <1>2 DEF ScheduleFirst, MqttTypes
<1>3. CASE mqtt_connect_work_handler
  <2>1. vcu_pc' \in Places
    BY <1>3, PlaceChanges DEF mqtt_connect_work_handler, handle_error, MqttTypes
  <2> QED BY <1>3, <2>1 DEF mqtt_connect_work_handler, MqttTypes
<1>4. CASE mqtt_evt_handler
  <2>1. CASE Connack
    BY <2>1 DEF Connack, MqttTypes
  <2>2. CASE Disconnect
    BY <1>0, <2>2, PlaceChanges DEF Disconnect, handle_error, MqttTypes
  <2>3. CASE Acknowledge
    <3>1. unacked' \in 0 .. MaxUnacked
      BY <1>0, <2>3 DEF Acknowledge, MqttTypes
    <3> QED BY <2>3, <3>1, PlaceChanges DEF Acknowledge, handle_error, MqttTypes
  <2>4. CASE RefuseSubscription
    BY <2>4, PlaceChanges DEF RefuseSubscription, handle_error, MqttTypes
  <2>5. CASE IncomingMessage
    BY <2>5 DEF IncomingMessage, mqttVars, MqttTypes
  <2> QED BY <1>4, <2>1, <2>2, <2>3, <2>4, <2>5 DEF mqtt_evt_handler
<1>5. CASE LinkBreaks
  BY <1>0, <1>5 DEF LinkBreaks, MqttTypes
<1>6. CASE ObstacleMoves \/ collision_thread \/ OtherNodeReports
  <2>1. UNCHANGED <<mqttVars, unacked>>
    BY <1>6 DEF ObstacleMoves, collision_thread, OtherNodeReports, Send
  <2> QED BY <2>1 DEF mqttVars, MqttTypes
<1>7. CASE can_handler
  <2>1. \E n \in {1, 2} : Publish(n)
    BY <1>7 DEF can_handler
  <2>2. unacked' \in 0 .. MaxUnacked
    BY <1>0, <2>1 DEF Publish, MqttTypes
  <2>3. UNCHANGED mqttVars
    BY <1>7 DEF can_handler
  <2> QED BY <2>2, <2>3 DEF mqttVars, MqttTypes
<1> QED BY <1>1, <1>2, <1>3, <1>4, <1>5, <1>6, <1>7 DEF VcuNext

LEMMA CanStepTypes == ASSUME BusInv, CanTypes, VcuNext PROVE CanTypes'
<1>0. on_bus \in Seq(BusFrames) /\ Len(on_bus) \in Nat /\ MaxOnBus \in Nat
  BY VcuConstants DEF BusInv
<1>1. ASSUME NEW f, Send(f) PROVE CanTypes'
  <2>1. Len(Append(on_bus, f)) = Len(on_bus) + 1
    BY <1>0
  <2>2. Len(on_bus') <= MaxOnBus
    BY <1>0, <1>1, <2>1 DEF Send
  <2> QED BY <1>1, <2>2 DEF Send, CanTypes
<1>2. CASE ObstacleMoves
  BY <1>2 DEF ObstacleMoves, CanTypes
<1>3. CASE can_handler
  <2>1. Head(on_bus) \in BusFrames /\ Len(on_bus') = Len(on_bus) - 1
    BY <1>0, <1>3 DEF can_handler
  <2>2. Head(on_bus).of \in Distances \cup {NoObstacle}
    BY <2>1 DEF BusFrames
  <2>3. warned' \cup measured' \subseteq Distances \cup {NoObstacle}
    BY <1>3, <2>2 DEF can_handler, CanTypes
  <2> QED BY <1>0, <1>3, <2>1, <2>3 DEF can_handler, CanTypes
<1>4. CASE UNCHANGED canVars
  BY <1>4 DEF canVars, CanTypes
<1> QED BY <1>1, <1>2, <1>3, <1>4 DEF VcuNext, main, BootFails, AddFilter, InitMqtt,
        ScheduleFirst, mqtt_connect_work_handler, mqtt_evt_handler, LinkBreaks,
        collision_thread, OtherNodeReports

LEMMA VcuStepTypes == ASSUME BusInv, VcuTypes, VcuNext PROVE VcuTypes'
<1>1. VehicleTypes'
  <2>1. CASE process_v2i_message
    BY <2>1, MessageTypes DEF VcuTypes
  <2>2. CASE UNCHANGED v2xVars
    BY <2>2 DEF v2xVars, VcuTypes, VehicleTypes
  <2> QED BY <2>1, <2>2 DEF VcuNext, main, BootFails, AddFilter, InitMqtt,
          ScheduleFirst, mqtt_connect_work_handler, mqtt_evt_handler, Connack, Disconnect,
          Acknowledge, RefuseSubscription, IncomingMessage, LinkBreaks, ObstacleMoves,
          collision_thread, OtherNodeReports, Send, can_handler
<1> QED BY <1>1, MqttStepTypes, CanStepTypes DEF VcuTypes

-----------------------------------------------------------------------------
(* Type correctness.                                                        *)

\* The types of the services, with the invariants they are proved from.
TypeInv ==
    /\ GoalInv /\ LoopTypes
    /\ NotificationTypes
    /\ IsoTpInv /\ IsoTpSizes
    /\ BusInv /\ RoadInv /\ VcuTypes
    /\ WifiInv

LEMMA TypesInitially == Init => TypeInv
<1> SUFFICES ASSUME Init PROVE TypeInv
  OBVIOUS
<1>1. LoopTypes /\ NotificationTypes /\ VcuTypes
  BY InitGoalTypes, InitNotificationTypes, InitVcuTypes DEF Init
<1>2. GoalInv /\ IsoTpInv /\ BusInv /\ RoadInv /\ WifiInv
  BY InitGoals, InitIsoTp, InitBus, InitRoad, InitWifi DEF Init, VcuInit
<1>3. IsoTpSizes
  BY IsoTpAssumption DEF Init, IsoTpInit, IsoTpSizes
<1> QED BY <1>1, <1>2, <1>3 DEF TypeInv

LEMMA TypesKept == TypeInv /\ [Next]_vars => TypeInv'
<1> SUFFICES ASSUME TypeInv, [Next]_vars PROVE TypeInv'
  OBVIOUS
<1>1. GoalInv' /\ IsoTpInv' /\ BusInv' /\ RoadInv' /\ WifiInv'
  BY GoalNext, IsoTpAllNext, BusNext, RoadNext, WifiAllNext DEF TypeInv
<1>2. LoopTypes'
  <2>1. CASE GoalStep
    BY <2>1, GoalStepTypes DEF GoalStep, TypeInv
  <2>2. CASE UNCHANGED goalVars
    BY <2>2 DEF goalVars, loopVars, TypeInv, LoopTypes
  <2> QED BY <2>1, <2>2 DEF Next, vars, StatsStep, NotificationStep, IsoTpStep, VcuStep,
          RoadStep, WifiStep
<1>3. NotificationTypes'
  <2>1. CASE NotificationStep
    BY <2>1, NotificationStepTypes DEF NotificationStep, TypeInv
  <2>2. CASE UNCHANGED notificationVars
    BY <2>2 DEF notificationVars, signalVars, eventVars, callbackVars, threadVars, TypeInv,
       NotificationTypes,
       NotificationsTypeOK
  <2> QED BY <2>1, <2>2 DEF Next, vars, GoalStep, StatsStep, IsoTpStep, VcuStep,
          RoadStep, WifiStep
<1>4. IsoTpSizes'
  <2>1. CASE IsoTpStep
    BY <2>1, IsoTpStepSizes DEF IsoTpStep, TypeInv
  <2>2. CASE UNCHANGED isotpVars
    BY <2>2 DEF isotpVars, TypeInv, IsoTpSizes
  <2> QED BY <2>1, <2>2 DEF Next, vars, GoalStep, StatsStep, NotificationStep, VcuStep,
          RoadStep, WifiStep
<1>5. VcuTypes'
  <2>1. CASE VcuStep
    BY <2>1, VcuStepTypes DEF VcuStep, TypeInv
  <2>2. CASE RoadReport /\ UNCHANGED <<mqttVars, unacked, canVars>>
    BY <2>2, RoadReportTypes DEF TypeInv, VcuTypes, MqttTypes, CanTypes, mqttVars, canVars
  <2>3. CASE UNCHANGED vcuVars
    BY <2>3 DEF vcuVars, mqttVars, canVars, v2xVars, TypeInv, VcuTypes, MqttTypes, CanTypes,
       VehicleTypes
  <2> QED BY <2>1, <2>2, <2>3 DEF Next, vars, GoalStep, StatsStep, NotificationStep, IsoTpStep,
          RoadStep, WifiStep
<1> QED BY <1>1, <1>2, <1>3, <1>4, <1>5 DEF TypeInv

\* Every service keeps its types, its tables their bounds and its indices their
\* tables, for any sizes; the average of run times (runtime_stats.c:84) stays
\* within 32 bits, and what is stored as a credential holds no Nul.
THEOREM TypeCorrect == Spec => []TypeOK
<1>1. StatsInv /\ TypeInv => TypeOK
  BY StatsTypes, GoalTypesAre, IsoTpTypes, VcuTypesAre
     DEF TypeInv, GoalTypes, NotificationTypes, WifiInv, TypeOK
<1> QED BY <1>1, StatsAlways, TypesInitially, TypesKept, PTL DEF Spec
=============================================================================
