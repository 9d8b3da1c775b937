------------------------------ MODULE SafetyGoals ------------------------------
(***************************************************************************)
(* Supervision of safety goals (asil_monitor.c): a thread runs              *)
(* monitor_safety_goals again and again, others register goals meanwhile.   *)
(* Nothing is locked, so each goal is a step of the loop, and a registration *)
(* is its check of the size, its increment and its copy, in this order.      *)
(***************************************************************************)
EXTENDS Integers

CONSTANTS
    GoalRegistrars,    \* threads that call register_safety_goal
    GoalCandidates,    \* goals they register, records of Goals
    MaxSafetyGoals,    \* MAX_SAFETY_GOALS
    GoalTimeRange,     \* 2^32: a time is read with k_uptime_get_32
    MaxGoalTime        \* bound: ticks of the run

VARIABLES
    safety_goals,      \* the table, entry i of the code being i + 1 here
    num_goals,         \* uint8_t
    adding,            \* what each registrar is about to do: at, goal and slot
    goal_clock,        \* uptime, of which the code sees goal_clock % GoalTimeRange
    goal_pc,           \* "sleep", "check", "stopped" or "crashed"
    goal_index,        \* i of the loop, + 1
    current_time,      \* read once, at the start of the loop
    late_since         \* history: current_time at which an entry was found late, 0 if not

registrationVars == <<safety_goals, num_goals, adding>>
loopVars == <<goal_pc, goal_index, current_time>>
goalVars == <<registrationVars, goal_clock, loopVars, late_since>>

Goals == [goal_id : Nat, recovery : BOOLEAN, verify : BOOLEAN,
          timeout_ms : Nat, last_verified : Nat]
GoalSlots == 1 .. MaxSafetyGoals

ASSUME GoalAssumption ==
    /\ GoalCandidates \subseteq Goals
    /\ MaxSafetyGoals \in Nat /\ {GoalTimeRange, MaxGoalTime} \subseteq Nat \ {0}

\* A static entry before it is written: no functions, every field 0.
ZeroGoal == [goal_id |-> 0, recovery |-> FALSE, verify |-> FALSE,
             timeout_ms |-> 0, last_verified |-> 0]
NotAdding == [at |-> "idle", goal |-> ZeroGoal, slot |-> 0]

GoalsInit ==
    /\ safety_goals = [i \in GoalSlots |-> ZeroGoal]
    /\ num_goals = 0
    /\ adding = [t \in GoalRegistrars |-> NotAdding]
    /\ goal_clock = 1
    /\ goal_pc = "sleep"
    /\ goal_index = 1
    /\ current_time = 0
    /\ late_since = [i \in GoalSlots |-> 0]

-----------------------------------------------------------------------------
(* register_safety_goal.  num_goals may be loaded again for the increment or *)
(* kept from the check; what a copy behind the table hits is not in this     *)
(* state.  Callers leave last_verified at 0 or put the present time there.   *)

register_safety_goal(t, g, time) ==
    /\ adding[t].at = "idle"
    /\ num_goals < MaxSafetyGoals
    /\ adding' = [adding EXCEPT ![t] =
          [at |-> "count", goal |-> [g EXCEPT !.last_verified = time], slot |-> num_goals]]
    /\ UNCHANGED <<safety_goals, num_goals, goal_clock, loopVars, late_since>>

LoadGoalsAgain(t) ==
    /\ adding[t].at = "count"
    /\ adding' = [adding EXCEPT ![t].slot = num_goals]
    /\ UNCHANGED <<safety_goals, num_goals, goal_clock, loopVars, late_since>>

\* The argument of memcpy counts num_goals up before anything is copied.
CountGoal(t) ==
    /\ adding[t].at = "count"
    /\ num_goals' = (adding[t].slot + 1) % 256
    /\ adding' = [adding EXCEPT ![t].at = "copy"]
    /\ UNCHANGED <<safety_goals, goal_clock, loopVars, late_since>>

CopyGoal(t) ==
    LET a == adding[t] IN
    /\ a.at = "copy"
    /\ safety_goals' = [i \in GoalSlots |-> IF i = a.slot + 1 THEN a.goal ELSE safety_goals[i]]
    /\ late_since' = [i \in GoalSlots |-> IF i = a.slot + 1 THEN 0 ELSE late_since[i]]
    /\ adding' = [adding EXCEPT ![t] = NotAdding]
    /\ UNCHANGED <<num_goals, goal_clock, loopVars>>

Registration(t) ==
    \/ \E g \in GoalCandidates, time \in {0, goal_clock % GoalTimeRange} :
          register_safety_goal(t, g, time)
    \/ LoadGoalsAgain(t) \/ CountGoal(t) \/ CopyGoal(t)

-----------------------------------------------------------------------------
\* A count that racing registrars have raised beyond the table makes the loops
\* look at what lies behind it.
BeyondTable == num_goals > MaxSafetyGoals

\* handle_goal_violation looks for the first goal with this id that has a
\* recovery; what that achieves is not looked at, although line 42 speaks of a
\* recovery that failed.
Recoverable(id) ==
    \E j \in GoalSlots :
        j <= num_goals /\ safety_goals[j].goal_id = id /\ safety_goals[j].recovery

StartGoalCheck ==
    /\ goal_pc = "sleep"
    /\ goal_pc' = "check"
    /\ goal_index' = 1
    /\ current_time' = goal_clock % GoalTimeRange
    /\ UNCHANGED <<registrationVars, goal_clock, late_since>>

\* Mutant: a goal is late on its last tick already.
GoalLateOnTime(g) == (current_time - g.last_verified) % GoalTimeRange >= g.timeout_ms

\* The test of line 20, in unsigned arithmetic.
GoalLate(g) == (current_time - g.last_verified) % GoalTimeRange > g.timeout_ms

NextGoal == goal_index' = goal_index + 1 /\ UNCHANGED goal_pc
StopLoop == goal_pc' = "stopped" /\ UNCHANGED goal_index
CrashLoop == goal_pc' = "crashed" /\ UNCHANGED goal_index

\* A violation is recovered from and the loop goes on, or stops the thread.
handle_goal_violation(id) ==
    \/ (Recoverable(id) \/ BeyondTable) /\ NextGoal
    \/ ~Recoverable(id) /\ StopLoop

\* A late goal is not verified and keeps its time (line 22).
LateGoal(g) ==
    /\ GoalLate(g)
    /\ handle_goal_violation(g.goal_id)
    /\ late_since' = [late_since EXCEPT ![goal_index] = IF @ = 0 THEN current_time ELSE @]
    /\ UNCHANGED safety_goals

VerifiedGoal(g) ==
    /\ ~GoalLate(g) /\ g.verify
    /\ NextGoal
    /\ safety_goals' = [safety_goals EXCEPT ![goal_index].last_verified = current_time]
    /\ late_since' = [late_since EXCEPT ![goal_index] = 0]

\* verify_func returns false.
FailedGoal(g) ==
    /\ ~GoalLate(g) /\ g.verify
    /\ handle_goal_violation(g.goal_id)
    /\ UNCHANGED <<safety_goals, late_since>>

\* The entry is counted and not copied, and verify_func is NULL.
CallNothing(g) ==
    /\ ~GoalLate(g) /\ ~g.verify
    /\ CrashLoop
    /\ UNCHANGED <<safety_goals, late_since>>

\* One pass of the loop.
CheckGoal ==
    /\ goal_pc = "check"
    /\ goal_index <= num_goals /\ goal_index \in GoalSlots
    /\ LET g == safety_goals[goal_index]
       IN  LateGoal(g) \/ VerifiedGoal(g) \/ FailedGoal(g) \/ CallNothing(g)
    /\ UNCHANGED <<num_goals, adding, goal_clock, current_time>>

CheckBehindTable ==
    /\ goal_pc = "check"
    /\ goal_index <= num_goals /\ goal_index \notin GoalSlots
    /\ NextGoal \/ StopLoop \/ CrashLoop
    /\ UNCHANGED <<registrationVars, goal_clock, current_time, late_since>>

EndGoalCheck ==
    /\ goal_pc = "check"
    /\ goal_index > num_goals
    /\ goal_pc' = "sleep"
    /\ UNCHANGED <<registrationVars, goal_clock, goal_index, current_time, late_since>>

monitor_safety_goals == StartGoalCheck \/ CheckGoal \/ CheckBehindTable \/ EndGoalCheck

GoalClock ==
    /\ goal_clock < MaxGoalTime
    /\ goal_clock' = goal_clock + 1
    /\ UNCHANGED <<registrationVars, loopVars, late_since>>

GoalsNext ==
    \/ \E t \in GoalRegistrars : Registration(t)
    \/ monitor_safety_goals
    \/ GoalClock

-----------------------------------------------------------------------------
GoalsTypeOK ==
    /\ safety_goals \in [GoalSlots -> Goals]
    /\ num_goals \in 0 .. 255
    /\ adding \in [GoalRegistrars -> [at : {"idle", "count", "copy"}, goal : Goals, slot : 0 .. 255]]
    /\ goal_clock \in 1 .. MaxGoalTime
    /\ goal_pc \in {"sleep", "check", "stopped", "crashed"}
    /\ goal_index \in 1 .. 256
    /\ current_time \in 0 .. GoalTimeRange - 1
    /\ late_since \in [GoalSlots -> 0 .. MaxGoalTime]

\* A goal once found late is late in every later cycle, whatever its recovery
\* did, until the 32-bit clock has come round: nothing refreshes last_verified
\* but a verification, which lateness forbids (lines 20-22), and a registrar
\* that takes the entry for its own goal.  A goal registered while the loop
\* runs is the exception: its time may be ahead of current_time, which makes
\* it late for that one cycle.
LateGoalsStayLate ==
    \A i \in GoalSlots :
        /\ late_since[i] > 0 /\ safety_goals[i].last_verified <= late_since[i]
        /\ goal_clock < GoalTimeRange
        => goal_clock - safety_goals[i].last_verified > safety_goals[i].timeout_ms
=============================================================================
