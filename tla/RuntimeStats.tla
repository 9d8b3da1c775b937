------------------------------ MODULE RuntimeStats ------------------------------
(***************************************************************************)
(* Run times of tasks (runtime_stats.c).  Every call holds runtime_mutex     *)
(* from its first line to its last, and stats_mutex inside it, so each is    *)
(* one step.  uptime is 64 bits wide and does not come round: the branch of  *)
(* line 99 for an end before its start is never taken.                       *)
(***************************************************************************)
EXTENDS Integers, Sequences, FiniteSets, FiniteSetsExt

CONSTANTS
    ShortNames,       \* task names of at most 31 characters
    LongNames,        \* longer ones, which strncpy cuts off
    MaxTasks,         \* MAX_TASKS
    HistorySize,      \* HISTORY_SIZE
    MovingAvgWindow,  \* MOVING_AVG_WINDOW
    HistoryPeriod,    \* 100: executions between two snapshots
    StatsMax,         \* UINT32_MAX
    MaxUptime, MaxStatsCalls  \* bounds

VARIABLES
    task_data,        \* the table up to num_task_data
    uptime,
    started,          \* history: when each name was last started, or 0
    longest,          \* history: longest run of each name
    unpaired,         \* history: names whose starts and ends did not alternate
    stats_calls

statsVars == <<task_data, uptime, started, longest, unpaired, stats_calls>>

TaskNames == ShortNames \cup LongNames

ASSUME StatsAssumption ==
    /\ ShortNames \cap LongNames = {}
    /\ {MaxTasks, HistorySize, MovingAvgWindow, HistoryPeriod, StatsMax} \subseteq Nat \ {0}

\* What is left of a name in the entry made for it.
Stored(name) == IF name \in LongNames THEN <<name, "cut">> ELSE <<name, "whole">>

NewEntry(name) ==
    [name |-> Stored(name), start_time |-> 0, total |-> 0, execution_count |-> 0,
     max |-> 0, min |-> 0, avg |-> 0,
     execution_times |-> [i \in 0 .. MovingAvgWindow - 1 |-> 0], moving_avg_index |-> 0,
     history |-> [i \in 0 .. HistorySize - 1 |-> [count |-> 0, min |-> 0, max |-> 0]],
     history_index |-> 0]

StatsInit ==
    /\ task_data = <<>>
    /\ uptime = 1
    /\ started = [name \in TaskNames |-> 0]
    /\ longest = [name \in TaskNames |-> 0]
    /\ unpaired = {}
    /\ stats_calls = 0

-----------------------------------------------------------------------------
\* The comparison is with the name as the caller knows it: a name that was cut
\* off is not found again.
Entries(name) == {i \in DOMAIN task_data : task_data[i].name = <<name, "whole">>}

\* find_or_create_task: the table with an entry for the name, if there is room.
Table(name) ==
    IF Entries(name) = {} /\ Len(task_data) < MaxTasks
    THEN Append(task_data, NewEntry(name)) ELSE task_data

\* The index of that entry, 0 for NULL.
Found(name) ==
    IF Entries(name) # {} THEN Min(Entries(name))
    ELSE IF Len(task_data) < MaxTasks THEN Len(task_data) + 1 ELSE 0

Started(entry) ==
    [entry EXCEPT !.start_time = uptime, !.execution_count = @ + 1]

Duration(entry) == (uptime - entry.start_time) % (StatsMax + 1)

\* Mutant: the index of the window does not come round.
AveragedUnwrapped(entry) ==
    LET times == [entry.execution_times EXCEPT ![entry.moving_avg_index] = Duration(entry)]
    IN  [entry EXCEPT !.execution_times = times, !.moving_avg_index = @ + 1]

\* The loop of lines 80-82, in 64 bits.
WindowSum(times) ==
    LET sum[i \in 0 .. MovingAvgWindow] == IF i = 0 THEN 0 ELSE sum[i - 1] + times[i - 1]
    IN  sum[MovingAvgWindow]

\* update_moving_average divides by the whole window from the first run on.
Averaged(entry) ==
    LET times == [entry.execution_times EXCEPT ![entry.moving_avg_index] = Duration(entry)]
    IN  [entry EXCEPT
            !.execution_times = times,
            !.moving_avg_index = (@ + 1) % MovingAvgWindow,
            !.avg = WindowSum(times) \div MovingAvgWindow]

\* Mutant: the maximum is that of the last run.
MeasuredLast(entry) ==
    LET d == Duration(entry)
    IN  [Averaged(entry) EXCEPT
            !.total = IF @ + d <= StatsMax THEN @ + d ELSE StatsMax,
            !.max = d,
            !.min = IF d < @ \/ @ = 0 THEN d ELSE @]

\* Total, extremes (a minimum of 0 counts as none) and average.
Measured(entry) ==
    LET d == Duration(entry)
    IN  [Averaged(entry) EXCEPT
            !.total = IF @ + d <= StatsMax THEN @ + d ELSE StatsMax,
            !.max = IF d > @ THEN d ELSE @,
            !.min = IF d < @ \/ @ = 0 THEN d ELSE @]

\* Lines 118-124.  The count is not yet that of this end.
Snapshot(entry) ==
    LET next == (entry.history_index + 1) % HistorySize
    IN  IF entry.execution_count % HistoryPeriod = 0 /\ entry.execution_count > 0
        THEN [entry EXCEPT
                !.history_index = next,
                !.history[next] = [count |-> entry.execution_count,
                                   min |-> entry.min, max |-> entry.max]]
        ELSE entry

Ended(entry) == [Snapshot(Measured(entry)) EXCEPT !.execution_count = @ + 1]

-----------------------------------------------------------------------------
runtime_stats_start_task(name) ==
    /\ task_data' = IF Found(name) = 0 THEN task_data
                    ELSE [Table(name) EXCEPT ![Found(name)] = Started(@)]
    /\ started' = [started EXCEPT ![name] = uptime]
    /\ unpaired' = IF started[name] # 0 THEN unpaired \cup {name} ELSE unpaired
    /\ UNCHANGED longest

runtime_stats_end_task(name) ==
    /\ task_data' = IF Found(name) = 0 THEN task_data
                    ELSE [Table(name) EXCEPT ![Found(name)] = Ended(@)]
    /\ started' = [started EXCEPT ![name] = 0]
    /\ unpaired' = IF started[name] = 0 THEN unpaired \cup {name} ELSE unpaired
    /\ longest' = [longest EXCEPT ![name] = Max({@, uptime - started[name]})]

\* What runtime_stats_verify_history answers for an entry.
runtime_stats_verify_history(entry) ==
    \A j \in DOMAIN entry.history :
        entry.history[j].count > 0 => entry.history[j].min <= entry.history[j].max

StatsCall ==
    /\ stats_calls < MaxStatsCalls
    /\ stats_calls' = stats_calls + 1
    /\ UNCHANGED uptime
    /\ \E name \in TaskNames :
          runtime_stats_start_task(name) \/ runtime_stats_end_task(name)

StatsClock ==
    /\ uptime < MaxUptime
    /\ uptime' = uptime + 1
    /\ UNCHANGED <<task_data, started, longest, unpaired, stats_calls>>

StatsNext == StatsCall \/ StatsClock

-----------------------------------------------------------------------------
StatsTypeOK ==
    /\ Len(task_data) <= MaxTasks
    /\ \A i \in DOMAIN task_data :
        /\ task_data[i].name \in TaskNames \X {"whole", "cut"}
        /\ {task_data[i].total, task_data[i].max, task_data[i].min, task_data[i].avg}
               \subseteq 0 .. StatsMax
        /\ task_data[i].history_index \in 0 .. HistorySize - 1
        /\ task_data[i].moving_avg_index \in 0 .. MovingAvgWindow - 1
    /\ unpaired \subseteq TaskNames

\* A task whose starts and ends alternate is measured truly, whatever the other
\* tasks do to the table: its maximum is its longest run.  And whatever snapshot
\* there is passes runtime_stats_verify_history, so that a failure of that check
\* would mean the memory, not the statistics, is damaged.
PairedTasksAreMeasured ==
    \A i \in DOMAIN task_data :
        LET entry == task_data[i] IN
        /\ runtime_stats_verify_history(entry)
        /\ /\ entry.name[1] \in ShortNames \ unpaired
           /\ longest[entry.name[1]] <= StatsMax
           => entry.max = longest[entry.name[1]]
=============================================================================
