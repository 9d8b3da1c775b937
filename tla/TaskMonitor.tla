------------------------------ MODULE TaskMonitor ------------------------------
(***************************************************************************)
(* src/common/safety/task_monitor.c: a monitor thread scans the registered  *)
(* tasks for missed deadlines, overruns and low stack, and application      *)
(* threads register, reset and report.                                      *)
(*                                                                          *)
(* monitor_mutex guards the table, one stats_mutex per task its statistics; *)
(* both are recursive and hand over to a waiter.  enter_safe_state stops    *)
(* the calling thread for ever, with every mutex it holds.  Left out are    *)
(* statistics that are only counted (misses, interference, attempts) and    *)
(* the CPU load, which a second thread sums under monitor_mutex.            *)
(***************************************************************************)
EXTENDS Naturals, Sequences, FiniteSets

CONSTANTS
    Callers,             \* application threads
    Registrars,          \* those of them that register tasks
    Monitor,             \* the thread running monitor_thread
    NoThread,            \* nobody holds the mutex
    Configs,             \* what is registered: records, see Config
    MaxTasks,            \* MAX_MONITORED_TASKS
    MaxMissedDeadlines,  \* MAX_MISSED_DEADLINES
    FreeStack,           \* values stack_size_free can have
    MaxCalls             \* bound: calls of application threads, other than
                         \* registrations and direct recoveries

Config == [name : STRING, critical : BOOLEAN, redundant : BOOLEAN, min_stack : Nat]

ASSUME ThreadsAssumption ==
    /\ Registrars \subseteq Callers
    /\ {Monitor, NoThread} \cap Callers = {}
    /\ NoThread # Monitor
ASSUME TasksAssumption ==
    /\ Configs \subseteq Config
    /\ MaxTasks \in Nat /\ MaxMissedDeadlines \in Nat \ {0} /\ MaxCalls \in Nat
    /\ FreeStack \subseteq Nat \ {0}

Threads == Callers \cup {Monitor}

VARIABLES
    tasks,          \* tasks[0 .. num_tasks - 1]
    monitor_mutex,  \* the owner
    pc,             \* where each thread is
    frame,          \* frame[t]: the arguments of the call t is in, see Frames
    index,          \* i of monitor_thread's loop, 1 outside it
    observed,       \* missed_deadlines as missed_deadlines++ has read it, then 0
    free,           \* runtime_stats.stack_size_free between its two uses, then 0
    calls           \* those calls so far

vars == <<tasks, monitor_mutex, pc, frame, index, observed, free, calls>>

-----------------------------------------------------------------------------
(* Tasks, mutexes and frames.                                               *)

\* checkpoint tells how last_checkpoint compares with the scan's current_time:
\* "recent", "late" by more than the deadline, or "ahead" of it, where the
\* unsigned difference wraps and is above every deadline.
\* running stands for execution_start > 0.  Nobody clears is_active.
NewTask(c) ==
    [config |-> c, checkpoint |-> "recent", running |-> FALSE, missed |-> 0,
     state |-> "INIT", stack_overflow |-> FALSE, stack_usage_peak |-> 0,
     owner |-> NoThread, depth |-> 0]

Overdue(i) == tasks[i].checkpoint # "recent"

\* The loops over names stop at the first task of that name; 0: there is none.
Named(name) == {i \in DOMAIN tasks : tasks[i].config.name = name}
Lookup(name) ==
    IF Named(name) = {} THEN 0
    ELSE CHOOSE i \in Named(name) : \A j \in Named(name) : i <= j

CanLock(i, t) == tasks[i].owner \in {NoThread, t}
Locked(task, t) == [task EXCEPT !.owner = t, !.depth = @ + 1]
Unlocked(task) ==
    [task EXCEPT !.depth = @ - 1,
                 !.owner = IF task.depth = 1 THEN NoThread ELSE @]

Goto(t, label) == pc' = [pc EXCEPT ![t] = label]

\* The frame of no call; slot is the task handle_task_error has found.
NoFrame == [name |-> "", return_to |-> "idle", slot |-> 0]

Init ==
    /\ tasks = <<>>
    /\ monitor_mutex = NoThread
    /\ pc = [t \in Threads |-> IF t = Monitor THEN "scan" ELSE "idle"]
    /\ frame = [t \in Threads |-> NoFrame]
    /\ index = 1
    /\ observed = 0
    /\ free = 0
    /\ calls = 0

-----------------------------------------------------------------------------
(* handle_task_error and recover_task_error, for any thread.                *)

\* The call: the thread is at the lookup of the name.
CallHandleTaskError(t, name, return_to) ==
    /\ frame' = [frame EXCEPT ![t] = [name |-> name, return_to |-> return_to, slot |-> 0]]
    /\ Goto(t, "handle")

Return(t) ==
    /\ Goto(t, frame[t].return_to)
    /\ frame' = [frame EXCEPT ![t] = NoFrame]

\* A critical task's error stops the thread that handles it.
Stops(task) == task.config.critical

\* Mutant: the mutex is released before enter_safe_state is called.
MarkedReleased(task, t) ==
    IF Stops(task) THEN [task EXCEPT !.state = "ERROR"]
    ELSE [Locked(task, t) EXCEPT !.state = "ERROR"]

Marked(task, t) == [Locked(task, t) EXCEPT !.state = "ERROR"]

\* The task is marked under its stats_mutex; a critical one stops the thread.
MarkTaskError(t) ==
    LET j == Lookup(frame[t].name) IN
    /\ pc[t] = "handle"
    /\ j # 0
    /\ CanLock(j, t)
    /\ tasks' = [tasks EXCEPT ![j] = Marked(@, t)]
    /\ frame' = [frame EXCEPT ![t].slot = j]
    /\ Goto(t, IF Stops(tasks[j]) THEN "stopped" ELSE "recover")
    /\ UNCHANGED <<monitor_mutex, index, observed, free, calls>>

\* Mutant: the misses are left to be counted again.
RecoveredCounting(task) ==
    [task EXCEPT !.running = FALSE, !.state = "READY", !.stack_overflow = FALSE]

\* recover_task_error on the task found.
Recovered(task) ==
    [task EXCEPT !.missed = 0, !.running = FALSE, !.state = "READY",
                 !.stack_overflow = FALSE]

\* Mutants: the mutex is not released; the task is not recovered.
HandledLocked(task) == Recovered(task)
HandledOnly(task) == Unlocked(task)

Handled(task) == Unlocked(Recovered(task))

RecoverTask(t) ==
    /\ pc[t] = "recover"
    /\ tasks' = [tasks EXCEPT ![frame[t].slot] = Handled(@)]
    /\ Return(t)
    /\ UNCHANGED <<monitor_mutex, index, observed, free, calls>>

\* No task of that name: the error is only logged.
UnknownTask(t) ==
    /\ pc[t] = "handle"
    /\ Lookup(frame[t].name) = 0
    /\ Return(t)
    /\ UNCHANGED <<tasks, monitor_mutex, index, observed, free, calls>>

handle_task_error(t) == MarkTaskError(t) \/ RecoverTask(t) \/ UnknownTask(t)

-----------------------------------------------------------------------------
(* monitor_thread.                                                          *)

\* current_time is read once a scan: what was ahead of it no longer is.
StartScan ==
    /\ pc[Monitor] = "scan"
    /\ monitor_mutex = NoThread
    /\ monitor_mutex' = Monitor
    /\ tasks' = [i \in DOMAIN tasks |->
                    IF tasks[i].checkpoint = "ahead"
                    THEN [tasks[i] EXCEPT !.checkpoint = "recent"] ELSE tasks[i]]
    /\ Goto(Monitor, "deadline")
    /\ UNCHANGED <<frame, index, observed, free, calls>>

EndScan ==
    /\ pc[Monitor] = "deadline"
    /\ index > Len(tasks)
    /\ monitor_mutex' = NoThread
    /\ index' = 1
    /\ Goto(Monitor, "scan")
    /\ UNCHANGED <<tasks, frame, observed, free, calls>>

CheckDeadline ==
    /\ pc[Monitor] = "deadline"
    /\ index <= Len(tasks)
    /\ Goto(Monitor, IF Overdue(index) THEN "miss" ELSE "runtime")
    /\ UNCHANGED <<tasks, monitor_mutex, frame, index, observed, free, calls>>

\* missed_deadlines++ is a read and a write: recover_task_error, called
\* directly, sets it under no lock.
ReadMissed ==
    /\ pc[Monitor] = "miss"
    /\ CanLock(index, Monitor)
    /\ tasks' = [tasks EXCEPT ![index] = Locked(@, Monitor)]
    /\ observed' = tasks[index].missed
    /\ Goto(Monitor, "count")
    /\ UNCHANGED <<monitor_mutex, frame, index, free, calls>>

\* Bound: misses beyond the limit are told apart by one value only.
Counted(n) == IF n > MaxMissedDeadlines THEN n ELSE n + 1

WriteMissed ==
    /\ pc[Monitor] = "count"
    /\ tasks' = [tasks EXCEPT ![index] = [Unlocked(@) EXCEPT !.missed = Counted(observed)]]
    /\ observed' = 0
    /\ Goto(Monitor, "escalate")
    /\ UNCHANGED <<monitor_mutex, frame, index, free, calls>>

LimitNeverReached(task) == FALSE    \* mutant: a miss is counted and nothing else

LimitReached(task) == task.missed >= MaxMissedDeadlines

Escalate ==
    /\ pc[Monitor] = "escalate"
    /\ LET task == tasks[index] IN
       \/ ~LimitReached(task) /\ Goto(Monitor, "runtime") /\ UNCHANGED frame
       \/ LimitReached(task) /\ Stops(task) /\ Goto(Monitor, "stopped") /\ UNCHANGED frame
       \/ /\ LimitReached(task) /\ ~Stops(task)
          /\ CallHandleTaskError(Monitor, task.config.name, "runtime")
    /\ UNCHANGED <<tasks, monitor_mutex, index, observed, free, calls>>

CheckRuntime ==
    /\ pc[Monitor] = "runtime"
    /\ \/ Goto(Monitor, "stack") /\ UNCHANGED frame
       \/ /\ tasks[index].running
          /\ CallHandleTaskError(Monitor, tasks[index].config.name, "stack")
    /\ UNCHANGED <<tasks, monitor_mutex, index, observed, free, calls>>

\* handle_task_error is called with the stats_mutex of the task held.
CheckStack ==
    /\ pc[Monitor] = "stack"
    /\ CanLock(index, Monitor)
    /\ free' \in FreeStack
    /\ IF free' < tasks[index].config.min_stack
       THEN /\ tasks' = [tasks EXCEPT ![index] =
                            [Locked(@, Monitor) EXCEPT !.stack_overflow = TRUE]]
            /\ CallHandleTaskError(Monitor, tasks[index].config.name, "peak")
       ELSE /\ tasks' = [tasks EXCEPT ![index] = Locked(@, Monitor)]
            /\ Goto(Monitor, "peak")
            /\ UNCHANGED frame
    /\ UNCHANGED <<monitor_mutex, index, observed, calls>>

PeakRecorded(task) ==
    [Unlocked(task) EXCEPT !.stack_usage_peak = IF free < @ THEN free ELSE @]

RecordPeak ==
    /\ pc[Monitor] = "peak"
    /\ tasks' = [tasks EXCEPT ![index] = PeakRecorded(@)]
    /\ index' = index + 1
    /\ free' = 0
    /\ Goto(Monitor, "deadline")
    /\ UNCHANGED <<monitor_mutex, frame, observed, calls>>

monitor_thread ==
    \/ StartScan
    \/ EndScan
    \/ CheckDeadline
    \/ ReadMissed
    \/ WriteMissed
    \/ Escalate
    \/ CheckRuntime
    \/ CheckStack
    \/ RecordPeak

-----------------------------------------------------------------------------
(* The calls of application threads.                                        *)

Begins(c) == pc[c] = "idle" /\ calls < MaxCalls /\ calls' = calls + 1

Names == {config.name : config \in Configs}

\* The table is looked at before monitor_mutex is taken.
BeginRegister(c, config) ==
    /\ pc[c] = "idle"
    /\ Len(tasks) < MaxTasks
    /\ frame' = [frame EXCEPT ![c].name = config.name]
    /\ Goto(c, "register")
    /\ UNCHANGED <<tasks, monitor_mutex, index, observed, free, calls>>

register_monitored_task(c) ==
    /\ pc[c] = "register"
    /\ monitor_mutex = NoThread
    /\ \E config \in Configs :
          /\ config.name = frame[c].name
          /\ tasks' = Append(tasks, NewTask(config))
    /\ Return(c)
    /\ UNCHANGED <<monitor_mutex, index, observed, free, calls>>

\* A thread reports an error of a task.
ReportError(c, name) ==
    /\ Begins(c)
    /\ CallHandleTaskError(c, name, "idle")
    /\ UNCHANGED <<tasks, monitor_mutex, index, observed, free>>

\* The three results of a redundant task differ.
verify_redundant_task_output(c, name) ==
    /\ Begins(c)
    /\ \E i \in Named(name) : tasks[i].config.redundant
    /\ CallHandleTaskError(c, name, "idle")
    /\ UNCHANGED <<tasks, monitor_mutex, index, observed, free>>

BeginInterference(c, name) ==
    /\ Begins(c)
    /\ Lookup(name) # 0
    /\ frame' = [frame EXCEPT ![c].name = name]
    /\ Goto(c, "interference")
    /\ UNCHANGED <<tasks, monitor_mutex, index, observed, free>>

\* Interference is counted under the stats_mutex.
monitor_task_interference(c) ==
    /\ pc[c] = "interference"
    /\ CanLock(Lookup(frame[c].name), c)
    /\ Return(c)
    /\ UNCHANGED <<tasks, monitor_mutex, index, observed, free, calls>>

BeginReset(c, name) ==
    /\ Begins(c)
    /\ frame' = [frame EXCEPT ![c].name = name]
    /\ Goto(c, "reset")
    /\ UNCHANGED <<tasks, monitor_mutex, index, observed, free>>

\* The statistics are cleared under monitor_mutex, not under stats_mutex.
reset_task_monitoring(c) ==
    LET i == Lookup(frame[c].name) IN
    /\ pc[c] = "reset"
    /\ monitor_mutex = NoThread
    /\ tasks' = IF i = 0 THEN tasks
                ELSE [tasks EXCEPT ![i].missed = 0, ![i].running = TRUE,
                          ![i].checkpoint = "recent", ![i].state = "READY",
                          ![i].stack_overflow = FALSE, ![i].stack_usage_peak = 0]
    /\ Return(c)
    /\ UNCHANGED <<monitor_mutex, index, observed, free, calls>>

\* recover_task_error is also called directly, then without stats_mutex, and
\* as often as its callers like.
recover_task_error(c, name) ==
    /\ pc[c] = "idle"
    /\ Lookup(name) # 0
    /\ tasks' = [tasks EXCEPT ![Lookup(name)] = Recovered(@)]
    /\ UNCHANGED <<monitor_mutex, pc, frame, index, observed, free, calls>>

Call(c) ==
    \/ c \in Registrars /\ \E config \in Configs : BeginRegister(c, config)
    \/ \E name \in Names :
          \/ ReportError(c, name)
          \/ verify_redundant_task_output(c, name)
          \/ BeginInterference(c, name)
          \/ BeginReset(c, name)
          \/ recover_task_error(c, name)

CallerStep(c) ==
    \/ register_monitored_task(c)
    \/ monitor_task_interference(c)
    \/ reset_task_monitoring(c)

-----------------------------------------------------------------------------
(* The tasks themselves.  task_monitor_checkpoint, _start_execution and      *)
(* _end_execution are declared in task_monitor.h and defined nowhere: they   *)
(* are taken to set the fields the monitor reads, under no lock.             *)

SetTask(i, task) ==
    /\ tasks' = [tasks EXCEPT ![i] = task]
    /\ UNCHANGED <<monitor_mutex, pc, frame, index, observed, free, calls>>

\* A deadline passes; a scan that has read its current_time does not see it.
DeadlinePasses(i) ==
    /\ pc[Monitor] = "scan"
    /\ tasks[i].checkpoint = "recent"
    /\ SetTask(i, [tasks[i] EXCEPT !.checkpoint = "late"])

task_monitor_checkpoint(i) ==
    \/ SetTask(i, [tasks[i] EXCEPT !.checkpoint = "recent"])
    \/ /\ pc[Monitor] # "scan"
       /\ SetTask(i, [tasks[i] EXCEPT !.checkpoint = "ahead"])

ChangeExecution(i) == SetTask(i, [tasks[i] EXCEPT !.running = ~@])

TaskStep ==
    \E i \in DOMAIN tasks :
        DeadlinePasses(i) \/ task_monitor_checkpoint(i) \/ ChangeExecution(i)

MonitorStep == monitor_thread \/ handle_task_error(Monitor)
CallerRuns(c) == CallerStep(c) \/ handle_task_error(c)

Next ==
    \/ MonitorStep
    \/ \E c \in Callers : Call(c) \/ CallerRuns(c)
    \/ TaskStep

\* Every thread that is ready runs, and k_mutex_unlock hands the mutex to a
\* waiter: none is passed over for ever.
Fairness == SF_vars(MonitorStep) /\ \A c \in Callers : SF_vars(CallerRuns(c))

Spec == Init /\ [][Next]_vars
FairSpec == Spec /\ Fairness

-----------------------------------------------------------------------------
(* Types.                                                                   *)

Tasks == [config : Configs, checkpoint : {"recent", "late", "ahead"}, running : BOOLEAN,
          missed : 0..(MaxMissedDeadlines + 1), state : {"INIT", "READY", "ERROR"},
          stack_overflow : BOOLEAN, stack_usage_peak : {0} \cup FreeStack,
          owner : Threads \cup {NoThread}, depth : 0..2]

ScanLabels == {"scan", "deadline", "miss", "count", "escalate", "runtime", "stack", "peak"}
CallLabels == {"idle", "register", "interference", "reset"}
ErrorLabels == {"handle", "recover", "stopped"}

Handles(t, i) == pc[t] \in {"recover", "stopped"} /\ frame[t].slot = i

\* The monitor is between the lock and the unlock of a stats_mutex.
ScansLocked(i) ==
    /\ index = i
    /\ \/ pc[Monitor] \in {"count", "peak"}
       \/ pc[Monitor] \in ErrorLabels /\ frame[Monitor].return_to = "peak"

\* A stats_mutex is held by the threads the code puts between its lock and
\* its unlock, and by no other: one thread, even where the calls nest.  The
\* scan owns monitor_mutex from its first task to its last, through every
\* error it handles.  A thread that is stopped keeps what it holds.
MutexesHeld ==
    /\ \A i \in DOMAIN tasks : \A t \in Threads :
          tasks[i].owner = t <=> Handles(t, i) \/ (t = Monitor /\ ScansLocked(i))
    /\ monitor_mutex = Monitor <=> pc[Monitor] # "scan"

\* Tasks hold values of their C types, threads are in their own code, a mutex
\* is free exactly when it is locked zero times, and else held by a thread that
\* is between its lock and its unlock.
TypeOK ==
    /\ tasks \in Seq(Tasks)
    /\ \A i \in DOMAIN tasks : tasks[i].owner = NoThread <=> tasks[i].depth = 0
    /\ monitor_mutex \in Threads \cup {NoThread}
    /\ pc[Monitor] \in ScanLabels \cup ErrorLabels
    /\ \A c \in Callers : pc[c] \in CallLabels \cup ErrorLabels
    /\ frame \in [Threads -> [name : Names \cup {""}, slot : Nat,
                              return_to : {"idle", "runtime", "stack", "peak"}]]
    /\ index \in Nat \ {0} /\ observed \in 0..(MaxMissedDeadlines + 1)
    /\ free \in {0} \cup FreeStack /\ calls \in 0..MaxCalls
    /\ MutexesHeld

-----------------------------------------------------------------------------
\* The table has room for every task the code puts into it.  Two threads that
\* register at once go past its end.
TableWithinBounds == Len(tasks) <= MaxTasks

-----------------------------------------------------------------------------
(* Escalation.                                                              *)

Stopped(t) == pc[t] = "stopped"
FirstOfItsName(i) == Lookup(tasks[i].config.name) = i

\* A thread is stopped only on account of a critical task: the one whose
\* error it handles, or the one whose deadlines the monitor has counted.
OnlyCriticalTasksStop ==
    \A t \in Threads : Stopped(t) =>
        LET i == IF frame[t].slot # 0 THEN frame[t].slot ELSE index IN
        i \in DOMAIN tasks /\ tasks[i].config.critical

\* Misses are acted upon at the limit: none is counted beyond it.  (A second
\* task of the same name is out of reach of the recovery, its misses pile up.)
MissesWithinLimit ==
    \A i \in DOMAIN tasks : FirstOfItsName(i) => tasks[i].missed <= MaxMissedDeadlines

\* Misses escalate when the limit is reached, and then for critical tasks only.
EscalatesAtLimit == OnlyCriticalTasksStop /\ MissesWithinLimit

\* How long a task shows its error.  get_task_safety_status takes no mutex and
\* reads whatever is there.  It finds TASK_STATE_ERROR only while some thread is
\* in handle_task_error of that very task, and for ever once that thread has
\* been stopped there: no other path leaves the state behind.  The overflow flag
\* of a task that is not critical is up only between the two halves of one
\* critical section of the monitor.  So an error that is over is in no status.
ErrorsShownWhileHandled ==
    \A i \in DOMAIN tasks :
        /\ tasks[i].state = "ERROR" => \E t \in Threads : Handles(t, i)
        /\ tasks[i].stack_overflow /\ FirstOfItsName(i) /\ ~tasks[i].config.critical
              => tasks[i].owner = Monitor

-----------------------------------------------------------------------------
(* Liveness.                                                                *)

SomeThreadStopped == \E t \in Threads : Stopped(t)

\* Every call returns, unless some thread has been stopped: no order of
\* monitor_mutex and the stats_mutexes deadlocks.
CallsReturn ==
    \A c \in Callers : pc[c] # "idle" ~> (pc[c] = "idle" \/ SomeThreadStopped)

\* recover_task_error takes back misses that were counted against task i.
Forgiven(i) ==
    /\ i \in DOMAIN tasks
    /\ tasks[i].missed > 0 /\ tasks'[i].missed = 0

\* A critical task that stays overdue stops a thread, whatever else is
\* registered, reported, reset and recovered meanwhile.  Only recoveries that
\* take its misses back again and again can keep it from that: without an end
\* to them the count never reaches the limit.
CriticalOverdueStops ==
    \A i \in 1..MaxTasks :
        /\ <>[](i \in DOMAIN tasks /\ tasks[i].config.critical /\ tasks[i].checkpoint = "late")
        /\ <>[][~Forgiven(i)]_vars
        => <>SomeThreadStopped

\* The monitor can go no further: it is stopped or waits for a stopped thread.
HeldByStopped(i) == \E t \in Threads : Stopped(t) /\ tasks[i].owner = t

MonitorDead ==
    \/ Stopped(Monitor)
    \/ pc[Monitor] \in {"miss", "stack"} /\ HeldByStopped(index)
    \/ pc[Monitor] = "handle" /\ HeldByStopped(Lookup(frame[Monitor].name))

\* Whichever thread it is that is stopped, the monitor follows it: the mutexes
\* it keeps end the supervision of all tasks, and monitor_mutex with it.
StopEndsSupervision == SomeThreadStopped ~> [](MonitorDead /\ monitor_mutex = Monitor)
=============================================================================
