--------------------------- MODULE RuntimeStats_proof ---------------------------
(***************************************************************************)
(* What tlapm proves of RuntimeStats, as the service it is in Services: its  *)
(* types, and what the table of run times says of a task whose starts and    *)
(* ends alternate.                                                           *)
(*                                                                           *)
(* The average is a sum over the window, defined as the loop of the code.    *)
(* That it has a value at all, and which bound, is shown by a least place    *)
(* where it has none (LeastNumber).                                          *)
(***************************************************************************)
EXTENDS Services, WellFoundedInduction, TLAPS

-----------------------------------------------------------------------------
(* The inductive invariant.                                                 *)

Windows == [0 .. MovingAvgWindow - 1 -> 0 .. StatsMax]

Snapshots == [count : Nat, min : Nat, max : Nat]
EntryNames == (ShortNames \X {"whole"}) \cup (LongNames \X {"cut"})

Entry ==
    [name : EntryNames, start_time : Nat, total : 0 .. StatsMax, execution_count : Nat,
     max : 0 .. StatsMax, min : 0 .. StatsMax, avg : 0 .. StatsMax,
     execution_times : Windows, moving_avg_index : 0 .. MovingAvgWindow - 1,
     history : [0 .. HistorySize - 1 -> Snapshots], history_index : 0 .. HistorySize - 1]

\* The minimum is one, in the entry and in its snapshots.
Ordered(entry) == entry.min <= entry.max /\ runtime_stats_verify_history(entry)

\* The start is that of the run under way, and the maximum that of the runs so far.
Measures(entry, start, run) ==
    /\ start # 0 => entry.start_time = start
    /\ run <= StatsMax => entry.max = run

\* The table T, of the names st says are running, with the longest runs lg, when
\* the names of un are not paired.  A name without an entry, while there is room
\* for one, was never used.
Recorded(T, st, lg, un) ==
    /\ \A k \in DOMAIN T : Ordered(T[k])
    /\ \A j, k \in DOMAIN T : T[j].name = T[k].name /\ T[j].name[2] = "whole" => j = k
    /\ \A name \in ShortNames :
          (\A k \in DOMAIN T : T[k].name # <<name, "whole">>) /\ Len(T) < MaxTasks
             => st[name] = 0 /\ lg[name] = 0
    /\ \A k \in DOMAIN T, name \in ShortNames \ un :
          T[k].name = <<name, "whole">> => Measures(T[k], st[name], lg[name])

StatsOK ==
    /\ task_data \in Seq(Entry) /\ Len(task_data) <= MaxTasks
    /\ uptime \in Nat \ {0}
    /\ started \in [TaskNames -> Nat] /\ \A name \in TaskNames : started[name] <= uptime
    /\ longest \in [TaskNames -> Nat]
    /\ unpaired \subseteq TaskNames

StatsInv == StatsOK /\ Recorded(task_data, started, longest, unpaired)
-----------------------------------------------------------------------------
(* The sum over the window.                                                 *)

LEMMA StatsConstants ==
    /\ MaxTasks \in Nat \ {0} /\ HistorySize \in Nat \ {0} /\ MovingAvgWindow \in Nat \ {0}
    /\ HistoryPeriod \in Nat \ {0} /\ StatsMax \in Nat \ {0}
    /\ ShortNames \cap LongNames = {}
BY StatsAssumption

\* A sum up to place n.
SumsTo(times, n, s) ==
    /\ s \in [0 .. n -> Nat] /\ s[0] = 0
    /\ \A i \in 1 .. n : s[i] = s[i - 1] + times[i - 1] /\ s[i] <= i * StatsMax

LEMMA OneMoreSum ==
  ASSUME NEW times \in Windows, NEW n \in 0 .. MovingAvgWindow - 1, NEW s, SumsTo(times, n, s)
  PROVE  \E z : SumsTo(times, n + 1, z)
<1> DEFINE x == s[n] + times[n]
           z == [i \in 0 .. n + 1 |-> IF i = n + 1 THEN x ELSE s[i]]
<1>0. /\ n \in Nat /\ MovingAvgWindow \in Nat /\ StatsMax \in Nat
      /\ n * StatsMax \in Nat /\ (n + 1) * StatsMax = n * StatsMax + StatsMax
  BY StatsConstants
<1>1. s[n] \in Nat /\ s[n] <= n * StatsMax
  <2>1. CASE n = 0
    BY <2>1, <1>0 DEF SumsTo
  <2>2. CASE n # 0
    BY <2>2, <1>0 DEF SumsTo
  <2> QED BY <2>1, <2>2
<1>2. times[n] \in 0 .. StatsMax
  BY DEF Windows
<1>3. x \in Nat /\ x <= (n + 1) * StatsMax
  BY <1>0, <1>1, <1>2
<1> HIDE DEF x
<1>4. z \in [0 .. n + 1 -> Nat]
  BY <1>0, <1>3 DEF SumsTo
<1>5. z[0] = 0 /\ z[n + 1] = x
  BY <1>0 DEF SumsTo
<1>6. \A i \in 0 .. n : z[i] = s[i]
  BY <1>0
<1> HIDE DEF z
<1>7. ASSUME NEW i \in 1 .. n + 1
      PROVE  z[i] = z[i - 1] + times[i - 1] /\ z[i] <= i * StatsMax
  <2>1. CASE i = n + 1
    <3>1. i - 1 = n /\ n \in 0 .. n
      BY <1>0, <2>1
    <3>2. z[i - 1] = s[n] /\ z[i] = x
      BY <1>5, <1>6, <2>1, <3>1
    <3> QED BY <1>3, <2>1, <3>1, <3>2 DEF x
  <2>2. CASE i # n + 1
    <3>1. i \in 1 .. n /\ i \in 0 .. n /\ i - 1 \in 0 .. n
      BY <1>0, <2>2
    <3>2. z[i] = s[i] /\ z[i - 1] = s[i - 1]
      BY <1>6, <3>1
    <3> QED BY <3>1, <3>2 DEF SumsTo
  <2> QED BY <2>1, <2>2
<1>8. SumsTo(times, n + 1, z)
  BY <1>4, <1>5, <1>7 DEF SumsTo
<1> QED BY <1>8

LEMMA LeastNumber ==
  ASSUME NEW T \in SUBSET Nat, T # {}
  PROVE  \E x \in T : \A y \in T : x <= y
<1> DEFINE R == {p \in Nat \X Nat : p[1] < p[2]}
<1>1. IsWellFoundedOn(R, Nat)
  BY NatLessThanWellFounded DEF OpToRel
<1>2. PICK x \in T : \A y \in T : <<y, x>> \notin R
  BY <1>1, WFMin
<1>3. ASSUME NEW y \in T PROVE x <= y
  <2>1. x \in Nat /\ y \in Nat
    OBVIOUS
  <2>2. y < x => <<y, x>> \in R
    BY <2>1
  <2> QED BY <1>2, <2>1, <2>2
<1> QED BY <1>3

LEMMA SumExists ==
  ASSUME NEW times \in Windows
  PROVE  \E s : SumsTo(times, MovingAvgWindow, s)
<1> DEFINE T == {n \in 0 .. MovingAvgWindow : ~\E s : SumsTo(times, n, s)}
<1>0. MovingAvgWindow \in Nat
  BY StatsConstants
<1> SUFFICES ASSUME T # {} PROVE FALSE
  BY <1>0
<1>1. PICK n \in T : \A k \in T : n <= k
  <2>1. T \in SUBSET Nat
    BY <1>0
  <2> HIDE DEF T
  <2> QED BY <2>1, LeastNumber
<1>2. n \in 0 .. MovingAvgWindow /\ ~\E s : SumsTo(times, n, s)
  OBVIOUS
<1>3. CASE n = 0
  <2> DEFINE z == [i \in {0} |-> 0]
  <2>1. 0 .. 0 = {0} /\ 1 .. 0 = {}
    OBVIOUS
  <2>2. z \in [0 .. 0 -> Nat] /\ z[0] = 0
    BY <2>1
  <2>3. SumsTo(times, 0, z)
    BY <2>1, <2>2 DEF SumsTo
  <2> QED BY <1>2, <1>3, <2>3
<1>4. CASE n # 0
  <2>1. n - 1 \in 0 .. MovingAvgWindow - 1 /\ n - 1 \in 0 .. MovingAvgWindow /\ ~(n <= n - 1) /\ (n - 1) + 1 = n
    BY <1>0, <1>2, <1>4
  <2>2. n - 1 \notin T
    BY <1>1, <2>1
  <2>3. PICK s : SumsTo(times, n - 1, s)
    BY <2>1, <2>2
  <2>4. \E z : SumsTo(times, (n - 1) + 1, z)
    BY <2>1, <2>3, OneMoreSum
  <2> QED BY <1>2, <2>1, <2>4
<1> QED BY <1>3, <1>4

LEMMA WindowSumBounded ==
  ASSUME NEW times \in Windows
  PROVE  WindowSum(times) \in 0 .. MovingAvgWindow * StatsMax
<1>0. MovingAvgWindow \in Nat \ {0} /\ StatsMax \in Nat
  BY StatsConstants
<1>1. PICK s : SumsTo(times, MovingAvgWindow, s)
  BY SumExists
<1> DEFINE sum[i \in 0 .. MovingAvgWindow] == IF i = 0 THEN 0 ELSE sum[i - 1] + times[i - 1]
<1>2. s = [i \in 0 .. MovingAvgWindow |-> IF i = 0 THEN 0 ELSE s[i - 1] + times[i - 1]]
  <2>1. \A i \in 0 .. MovingAvgWindow : s[i] = IF i = 0 THEN 0 ELSE s[i - 1] + times[i - 1]
    BY <1>0, <1>1 DEF SumsTo
  <2>2. s = [i \in 0 .. MovingAvgWindow |-> s[i]]
    BY <1>1 DEF SumsTo
  <2> QED BY <2>1, <2>2
<1>3. sum = [i \in 0 .. MovingAvgWindow |-> IF i = 0 THEN 0 ELSE sum[i - 1] + times[i - 1]]
  BY <1>2
<1> HIDE DEF sum
<1>4. \A n \in 0 .. MovingAvgWindow : sum[n] = IF n = 0 THEN 0 ELSE sum[n - 1] + times[n - 1]
  BY <1>3
<1> HIDE DEF sum
<1> DEFINE T == {n \in 0 .. MovingAvgWindow : sum[n] \notin 0 .. n * StatsMax}
<1>5. T = {}
  <2> SUFFICES ASSUME T # {} PROVE FALSE
    OBVIOUS
  <2>1. PICK n \in T : \A k \in T : n <= k
    <3>1. T \in SUBSET Nat
      BY <1>0
    <3> HIDE DEF T
    <3> QED BY <3>1, LeastNumber
  <2>2. n \in 0 .. MovingAvgWindow /\ sum[n] \notin 0 .. n * StatsMax
    OBVIOUS
  <2>3. n # 0
    BY <1>0, <1>4, <2>2
  <2>4. n - 1 \in 0 .. MovingAvgWindow - 1 /\ n - 1 \in 0 .. MovingAvgWindow /\ ~(n <= n - 1) /\ n - 1 \in Nat /\ n \in Nat
    BY <1>0, <2>2, <2>3
  <2>5. sum[n - 1] \in 0 .. (n - 1) * StatsMax
    BY <2>1, <2>4
  <2>6. times[n - 1] \in 0 .. StatsMax
    BY <2>4 DEF Windows
  <2>7. sum[n] = sum[n - 1] + times[n - 1]
    BY <1>4, <2>2, <2>3
  <2>8. (n - 1) * StatsMax \in Nat /\ n * StatsMax = (n - 1) * StatsMax + StatsMax
    BY <1>0, <2>4
  <2>9. sum[n] \in 0 .. n * StatsMax
    BY <1>0, <2>5, <2>6, <2>7, <2>8
  <2> QED BY <2>2, <2>9
<1>6. sum[MovingAvgWindow] \in 0 .. MovingAvgWindow * StatsMax
  BY <1>0, <1>5
<1>7. WindowSum(times) = sum[MovingAvgWindow]
  BY DEF WindowSum, sum
<1> QED BY <1>6, <1>7

LEMMA Quotient ==
  ASSUME NEW n \in Nat \ {0}, NEW m \in Nat, NEW a \in 0 .. n * m
  PROVE  a \div n \in 0 .. m
<1> DEFINE q == a \div n  r == a % n
<1>1. n * m \in Nat
  OBVIOUS
<1>2. a \in Nat /\ a <= n * m
  BY <1>1
<1>3. q \in Nat /\ r \in 0 .. n - 1 /\ a = n * q + r
  BY <1>2
<1> HIDE DEF q, r
<1>4. CASE q <= m
  BY <1>3, <1>4 DEF q
<1>5. CASE q > m
  <2>1. n * q >= n * (m + 1)
    BY <1>3, <1>5
  <2>2. n * (m + 1) = n * m + n
    OBVIOUS
  <2> QED BY <1>1, <1>2, <1>3, <2>1, <2>2
<1> QED BY <1>3, <1>4, <1>5

LEMMA AverageBounded ==
  ASSUME NEW times \in Windows
  PROVE  WindowSum(times) \div MovingAvgWindow \in 0 .. StatsMax
BY WindowSumBounded, Quotient, StatsConstants

-----------------------------------------------------------------------------
(* One entry.                                                               *)

LEMMA EntryFacts ==
  ASSUME NEW e \in Entry
  PROVE  /\ e.name \in EntryNames /\ e.start_time \in Nat /\ e.total \in 0 .. StatsMax
         /\ e.execution_count \in Nat /\ e.max \in 0 .. StatsMax /\ e.min \in 0 .. StatsMax
         /\ e.execution_times \in Windows /\ e.moving_avg_index \in 0 .. MovingAvgWindow - 1
         /\ e.history \in [0 .. HistorySize - 1 -> Snapshots]
         /\ e.history_index \in 0 .. HistorySize - 1
BY DEF Entry

LEMMA StoredNames ==
  ASSUME NEW name \in TaskNames
  PROVE  /\ Stored(name) \in EntryNames
         /\ name \in ShortNames => Stored(name) = <<name, "whole">>
         /\ name \in LongNames => Stored(name) = <<name, "cut">>
BY StatsConstants DEF Stored, EntryNames, TaskNames

LEMMA NewEntryOK ==
  ASSUME NEW name \in TaskNames
  PROVE  /\ NewEntry(name) \in Entry /\ NewEntry(name).name = Stored(name)
         /\ Ordered(NewEntry(name)) /\ Measures(NewEntry(name), 0, 0)
<1> DEFINE e == NewEntry(name)
<1>1. Stored(name) \in EntryNames
  BY StoredNames
<1>2. [k \in 0 .. MovingAvgWindow - 1 |-> 0] \in Windows
  BY StatsConstants DEF Windows
<1>3. [k \in 0 .. HistorySize - 1 |-> [count |-> 0, min |-> 0, max |-> 0]]
         \in [0 .. HistorySize - 1 -> Snapshots]
  BY DEF Snapshots
<1>4. /\ 0 \in 0 .. StatsMax /\ 0 \in 0 .. MovingAvgWindow - 1 /\ 0 \in 0 .. HistorySize - 1
  BY StatsConstants
<1>5. e \in Entry
  BY <1>1, <1>2, <1>3, <1>4 DEF NewEntry, Entry
<1>6. /\ e.name = Stored(name) /\ e.min = 0 /\ e.max = 0 /\ e.execution_count = 0
      /\ e.history = [k \in 0 .. HistorySize - 1 |-> [count |-> 0, min |-> 0, max |-> 0]]
  BY DEF NewEntry
<1> HIDE DEF e
<1>7. DOMAIN e.history = 0 .. HistorySize - 1
      /\ \A j \in 0 .. HistorySize - 1 : e.history[j].count = 0
  BY <1>6
<1>8. Ordered(e)
  BY <1>6, <1>7 DEF Ordered, runtime_stats_verify_history
<1>9. Measures(e, 0, 0)
  BY <1>6 DEF Measures
<1> QED BY <1>5, <1>6, <1>8, <1>9 DEF e

LEMMA StartedFacts ==
  ASSUME NEW e \in Entry, uptime \in Nat
  PROVE  /\ Started(e) \in Entry /\ Started(e).name = e.name
         /\ Started(e).start_time = uptime
         /\ Started(e).execution_count = e.execution_count + 1
         /\ Started(e).max = e.max /\ Started(e).min = e.min /\ Started(e).history = e.history
<1>1. e.execution_count + 1 \in Nat
  BY EntryFacts
<1>2. \A n \in Nat : [e EXCEPT !.start_time = uptime, !.execution_count = n] \in Entry
  BY DEF Entry
<1>3. Started(e) = [e EXCEPT !.start_time = uptime, !.execution_count = e.execution_count + 1]
  BY DEF Started
<1>4. Started(e) \in Entry
  BY <1>1, <1>2, <1>3
<1> QED BY <1>3, <1>4 DEF Entry

\* A run that fits 32 bits is measured as it was.
LEMMA DurationFacts ==
  ASSUME NEW e \in Entry, uptime \in Nat
  PROVE  /\ Duration(e) \in 0 .. StatsMax
         /\ e.start_time <= uptime /\ uptime - e.start_time <= StatsMax
               => Duration(e) = uptime - e.start_time
<1>1. e.start_time \in Nat /\ StatsMax + 1 \in Nat \ {0}
  BY EntryFacts, StatsConstants
<1> DEFINE a == uptime - e.start_time  n == StatsMax + 1
<1>2. a \in Int /\ n \in Nat \ {0} /\ n - 1 = StatsMax
  BY <1>1, StatsConstants
<1> HIDE DEF a, n
<1>3. a % n \in 0 .. n - 1
  BY <1>2
<1>4. 0 <= a /\ a <= n - 1 => a % n = a
  BY <1>2
<1>5. Duration(e) = a % n
  BY DEF Duration, a, n
<1>6. Duration(e) \in 0 .. StatsMax
  BY <1>2, <1>3, <1>5
<1>7. e.start_time <= uptime /\ a <= StatsMax => Duration(e) = a
  <2>1. e.start_time <= uptime => 0 <= a
    BY <1>1 DEF a
  <2> QED BY <1>2, <1>4, <1>5, <2>1
<1> QED BY <1>6, <1>7 DEF a

LEMMA AveragedFacts ==
  ASSUME NEW e \in Entry, uptime \in Nat
  PROVE  /\ Averaged(e) \in Entry /\ Averaged(e).name = e.name
         /\ Averaged(e).start_time = e.start_time
         /\ Averaged(e).execution_count = e.execution_count
         /\ Averaged(e).total = e.total
         /\ Averaged(e).max = e.max /\ Averaged(e).min = e.min /\ Averaged(e).history = e.history
<1> DEFINE times == [e.execution_times EXCEPT ![e.moving_avg_index] = Duration(e)]
           next == (e.moving_avg_index + 1) % MovingAvgWindow
           average == WindowSum(times) \div MovingAvgWindow
<1>1. times \in Windows
  BY EntryFacts, DurationFacts DEF Windows
<1>2. next \in 0 .. MovingAvgWindow - 1
  BY EntryFacts, StatsConstants
<1>3. average \in 0 .. StatsMax
  BY <1>1, AverageBounded
<1>4. Averaged(e) = [e EXCEPT !.execution_times = times, !.moving_avg_index = next,
                              !.avg = average]
  BY DEF Averaged
<1> HIDE DEF times, next, average
<1>5. Averaged(e) \in Entry
  BY <1>1, <1>2, <1>3, <1>4 DEF Entry
<1> QED BY <1>4, <1>5 DEF Entry

LEMMA MeasuredFacts ==
  ASSUME NEW e \in Entry, uptime \in Nat
  PROVE  /\ Measured(e) \in Entry /\ Measured(e).name = e.name
         /\ Measured(e).start_time = e.start_time
         /\ Measured(e).execution_count = e.execution_count
         /\ Measured(e).history = e.history
         /\ Measured(e).max = IF Duration(e) > e.max THEN Duration(e) ELSE e.max
         /\ Measured(e).min = IF Duration(e) < e.min \/ e.min = 0 THEN Duration(e) ELSE e.min
<1> DEFINE d == Duration(e)
           a == Averaged(e)
           total == IF a.total + d <= StatsMax THEN a.total + d ELSE StatsMax
           max == IF d > a.max THEN d ELSE a.max
           min == IF d < a.min \/ a.min = 0 THEN d ELSE a.min
<1>1. /\ a \in Entry /\ a.name = e.name /\ a.start_time = e.start_time
      /\ a.execution_count = e.execution_count /\ a.history = e.history
      /\ a.max = e.max /\ a.min = e.min
  BY AveragedFacts
<1>2. d \in 0 .. StatsMax
  BY DurationFacts
<1>3. Measured(e) = [a EXCEPT !.total = total, !.max = max, !.min = min]
  BY DEF Measured
<1> HIDE DEF a, d
<1>4. a.total \in 0 .. StatsMax /\ a.max \in 0 .. StatsMax /\ a.min \in 0 .. StatsMax
  BY <1>1, EntryFacts
<1>5. total \in 0 .. StatsMax /\ max \in 0 .. StatsMax /\ min \in 0 .. StatsMax
  BY <1>2, <1>4, StatsConstants
<1> HIDE DEF total, max, min
<1>6. [a EXCEPT !.total = total, !.max = max, !.min = min] \in Entry
  BY <1>1, <1>5 DEF Entry
<1>7. /\ Measured(e).name = a.name /\ Measured(e).start_time = a.start_time
      /\ Measured(e).execution_count = a.execution_count /\ Measured(e).history = a.history
      /\ Measured(e).max = max /\ Measured(e).min = min
  BY <1>1, <1>3 DEF Entry
<1> QED BY <1>1, <1>3, <1>6, <1>7 DEF max, min, d

\* The minimum is not above the maximum after a run if it was not before.
LEMMA MeasuredOrdered ==
  ASSUME NEW e \in Entry, uptime \in Nat, e.min <= e.max
  PROVE  Measured(e).min <= Measured(e).max
<1>1. e.max \in 0 .. StatsMax /\ e.min \in 0 .. StatsMax /\ Duration(e) \in 0 .. StatsMax
  BY EntryFacts, DurationFacts
<1> DEFINE d == Duration(e)
<1>2. Measured(e).max = (IF d > e.max THEN d ELSE e.max)
      /\ Measured(e).min = (IF d < e.min \/ e.min = 0 THEN d ELSE e.min)
  BY MeasuredFacts
<1> HIDE DEF d
<1> QED BY <1>1, <1>2, StatsConstants DEF d

LEMMA SnapshotFacts ==
  ASSUME NEW u \in Entry
  PROVE  /\ Snapshot(u) \in Entry /\ Snapshot(u).name = u.name
         /\ Snapshot(u).start_time = u.start_time
         /\ Snapshot(u).execution_count = u.execution_count
         /\ Snapshot(u).max = u.max /\ Snapshot(u).min = u.min
         /\ u.min <= u.max /\ runtime_stats_verify_history(u)
               => runtime_stats_verify_history(Snapshot(u))
<1> DEFINE next == (u.history_index + 1) % HistorySize
           new == [count |-> u.execution_count, min |-> u.min, max |-> u.max]
           history == [u.history EXCEPT ![next] = new]
           s == [u EXCEPT !.history_index = next, !.history = history]
<1>1. next \in 0 .. HistorySize - 1
  BY EntryFacts, StatsConstants
<1>2. /\ new \in Snapshots /\ new.min = u.min /\ new.max = u.max
  BY EntryFacts, StatsConstants DEF Snapshots
<1>3. u.history \in [0 .. HistorySize - 1 -> Snapshots]
  BY EntryFacts
<1>4. Snapshot(u) = u \/ Snapshot(u) = s
  BY DEF Snapshot
<1> HIDE DEF next, new
<1>6. history \in [0 .. HistorySize - 1 -> Snapshots]
  BY <1>1, <1>2, <1>3
<1>7. \A j \in 0 .. HistorySize - 1 : history[j] = new \/ history[j] = u.history[j]
  BY <1>1, <1>3
<1> HIDE DEF history
<1>8. /\ s \in Entry /\ s.name = u.name /\ s.start_time = u.start_time
      /\ s.execution_count = u.execution_count
      /\ s.max = u.max /\ s.min = u.min /\ s.history = history
  BY <1>1, <1>6 DEF Entry
<1> HIDE DEF s
<1>9. u.min <= u.max /\ runtime_stats_verify_history(u) => runtime_stats_verify_history(s)
  <2> SUFFICES ASSUME u.min <= u.max, runtime_stats_verify_history(u),
                      NEW j \in 0 .. HistorySize - 1, history[j].count > 0
               PROVE  history[j].min <= history[j].max
    BY <1>6, <1>8 DEF runtime_stats_verify_history
  <2>1. CASE history[j] = new
    BY <1>2, <2>1
  <2>2. CASE history[j] = u.history[j]
    BY <1>3, <2>2 DEF runtime_stats_verify_history
  <2> QED BY <1>7, <2>1, <2>2
<1> QED BY <1>4, <1>8, <1>9

LEMMA EndedFacts ==
  ASSUME NEW e \in Entry, uptime \in Nat, Ordered(e)
  PROVE  /\ Ended(e) \in Entry /\ Ended(e).name = e.name /\ Ordered(Ended(e))
         /\ Ended(e).max = IF Duration(e) > e.max THEN Duration(e) ELSE e.max
<1> DEFINE u == Measured(e)
           s == Snapshot(u)
           max == IF Duration(e) > e.max THEN Duration(e) ELSE e.max
<1>1. /\ u \in Entry /\ u.name = e.name /\ u.execution_count = e.execution_count
      /\ u.history = e.history /\ u.max = max /\ u.min <= u.max
  BY MeasuredFacts, MeasuredOrdered DEF Ordered
<1>2. runtime_stats_verify_history(u)
  BY <1>1 DEF Ordered, runtime_stats_verify_history
<1> HIDE DEF u, max
<1>3. /\ s \in Entry /\ s.name = u.name /\ s.execution_count = u.execution_count
      /\ s.max = u.max /\ s.min = u.min /\ runtime_stats_verify_history(s)
  BY <1>1, <1>2, SnapshotFacts
<1>4. e.execution_count \in Nat /\ s.execution_count + 1 \in Nat
  BY <1>3, EntryFacts
<1>6. Ended(e) = [s EXCEPT !.execution_count = s.execution_count + 1]
  BY DEF Ended, u
<1> HIDE DEF s
<1>7. \A n \in Nat : [s EXCEPT !.execution_count = n] \in Entry
  BY <1>3 DEF Entry
<1>8. /\ Ended(e) \in Entry
      /\ Ended(e).name = s.name /\ Ended(e).max = s.max /\ Ended(e).min = s.min
      /\ Ended(e).history = s.history /\ Ended(e).execution_count = s.execution_count + 1
  <2>1. Ended(e) \in Entry
    BY <1>4, <1>6, <1>7
  <2> QED BY <1>3, <1>6, <2>1 DEF Entry
<1>9. Ordered(Ended(e))
  BY <1>1, <1>3, <1>8 DEF Ordered, runtime_stats_verify_history
<1> QED BY <1>1, <1>3, <1>8, <1>9 DEF max

-----------------------------------------------------------------------------
(* The table.                                                               *)

\* The three answers of find_or_create_task.
LEMMA FoundFacts ==
  ASSUME StatsInv, NEW name \in TaskNames
  PROVE  \/ /\ Found(name) = 0
            /\ name \in ShortNames => \A k \in DOMAIN task_data : task_data[k].name # <<name, "whole">>
            /\ Len(task_data) = MaxTasks
         \/ /\ Found(name) = Len(task_data) + 1 /\ Table(name) = Append(task_data, NewEntry(name))
            /\ \A k \in DOMAIN task_data : task_data[k].name # <<name, "whole">>
            /\ Len(task_data) < MaxTasks
         \/ /\ Found(name) \in DOMAIN task_data /\ Table(name) = task_data
            /\ name \in ShortNames /\ task_data[Found(name)].name = <<name, "whole">>
<1>1. /\ task_data \in Seq(Entry) /\ Len(task_data) <= MaxTasks
      /\ Len(task_data) \in Nat /\ MaxTasks \in Nat
  BY StatsConstants DEF StatsInv, StatsOK
<1>2. CASE Entries(name) = {}
  <2>1. \A k \in DOMAIN task_data : task_data[k].name # <<name, "whole">>
    BY <1>2 DEF Entries
  <2>2. CASE Len(task_data) < MaxTasks
    BY <1>2, <2>1, <2>2 DEF Found, Table
  <2>3. CASE ~(Len(task_data) < MaxTasks)
    <3>1. Len(task_data) = MaxTasks
      BY <1>1, <2>3
    <3>2. Found(name) = 0
      BY <1>2, <2>3 DEF Found
    <3> QED BY <2>1, <3>1, <3>2
  <2> QED BY <2>2, <2>3
<1>3. CASE Entries(name) # {}
  <2>1. PICK i \in DOMAIN task_data : task_data[i].name = <<name, "whole">>
    BY <1>3 DEF Entries
  <2>2. \A j \in Entries(name) : j = i
    <3> SUFFICES ASSUME NEW j \in Entries(name) PROVE j = i
      OBVIOUS
    <3>1. j \in DOMAIN task_data /\ task_data[j].name = <<name, "whole">>
      BY DEF Entries
    <3>2. task_data[j].name = task_data[i].name /\ task_data[j].name[2] = "whole"
      BY <2>1, <3>1
    <3>3. \A k, l \in DOMAIN task_data :
             task_data[k].name = task_data[l].name /\ task_data[k].name[2] = "whole" => k = l
      BY DEF StatsInv, Recorded
    <3> QED BY <3>1, <3>2, <3>3
  <2>3. i \in Entries(name)
    BY <2>1 DEF Entries
  <2>4. i \in Nat /\ i <= i
    BY <1>1
  <2>5. Min(Entries(name)) = i
    BY <2>2, <2>3, <2>4 DEF Min
  <2>6. task_data[i] \in Entry
    BY <1>1
  <2>7. task_data[i].name \in EntryNames
    BY <2>6, EntryFacts
  <2>8. name \in ShortNames
    BY <2>1, <2>7 DEF EntryNames
  <2>9. Found(name) = i /\ Table(name) = task_data
    BY <1>3, <2>5 DEF Found, Table
  <2> QED BY <2>1, <2>8, <2>9
<1> QED BY <1>2, <1>3

\* A new entry at the end of the table.
LEMMA GrownTable ==
  ASSUME NEW T \in Seq(Entry), Len(T) < MaxTasks, NEW st, NEW lg, NEW un, Recorded(T, st, lg, un),
         NEW name \in TaskNames, \A k \in DOMAIN T : T[k].name # <<name, "whole">>
  PROVE  /\ Append(T, NewEntry(name)) \in Seq(Entry)
         /\ Len(Append(T, NewEntry(name))) <= MaxTasks
         /\ Recorded(Append(T, NewEntry(name)), st, lg, un)
<1> DEFINE e == NewEntry(name)  U == Append(T, e)  n == Len(T) + 1
<1>1. e \in Entry /\ e.name = Stored(name) /\ Ordered(e) /\ Measures(e, 0, 0)
  BY NewEntryOK
<1> HIDE DEF e
<1>2. Len(T) \in Nat /\ MaxTasks \in Nat
  BY StatsConstants
<1>3. /\ U \in Seq(Entry) /\ Len(U) = n /\ U[n] = e /\ DOMAIN U = 1 .. n /\ n \in DOMAIN U
      /\ \A k \in DOMAIN T : k \in DOMAIN U /\ U[k] = T[k]
      /\ \A k \in DOMAIN U : k \in DOMAIN T \/ k = n
  BY <1>1, <1>2
<1>4. Len(U) <= MaxTasks
  BY <1>2, <1>3
<1> HIDE DEF U, n
<1>5. \A k \in DOMAIN U : Ordered(U[k])
  BY <1>1, <1>3 DEF Recorded
<1>6. e.name[2] = "whole" => e.name = <<name, "whole">> /\ name \in ShortNames
  <2>1. e.name = <<name, "whole">> \/ e.name = <<name, "cut">>
    BY <1>1 DEF Stored
  <2>2. name \in LongNames => e.name = <<name, "cut">>
    BY <1>1 DEF Stored
  <2> QED BY <2>1, <2>2 DEF TaskNames
<1>7. \A j, k \in DOMAIN U : U[j].name = U[k].name /\ U[j].name[2] = "whole" => j = k
  <2> SUFFICES ASSUME NEW j \in DOMAIN U, NEW k \in DOMAIN U,
                      U[j].name = U[k].name, U[j].name[2] = "whole"
               PROVE  j = k
    OBVIOUS
  <2>1. CASE j \in DOMAIN T /\ k \in DOMAIN T
    BY <1>3, <2>1 DEF Recorded
  <2>2. CASE j = n
    <3>1. U[k].name = <<name, "whole">>
      BY <1>3, <1>6, <2>2
    <3> QED BY <1>3, <2>2, <3>1
  <2>3. CASE k = n
    <3>1. U[j].name = <<name, "whole">>
      BY <1>3, <1>6, <2>3
    <3> QED BY <1>3, <2>3, <3>1
  <2> QED BY <1>3, <2>1, <2>2, <2>3
<1>8. \A s \in ShortNames :
         (\A k \in DOMAIN U : U[k].name # <<s, "whole">>) /\ Len(U) < MaxTasks
            => st[s] = 0 /\ lg[s] = 0
  <2> SUFFICES ASSUME NEW s \in ShortNames, \A k \in DOMAIN U : U[k].name # <<s, "whole">>
               PROVE  st[s] = 0 /\ lg[s] = 0
    OBVIOUS
  <2>1. \A k \in DOMAIN T : T[k].name # <<s, "whole">>
    BY <1>3
  <2> QED BY <2>1 DEF Recorded
<1>9. \A k \in DOMAIN U, s \in ShortNames \ un :
         U[k].name = <<s, "whole">> => Measures(U[k], st[s], lg[s])
  <2> SUFFICES ASSUME NEW k \in DOMAIN U, NEW s \in ShortNames \ un, U[k].name = <<s, "whole">>
               PROVE  Measures(U[k], st[s], lg[s])
    OBVIOUS
  <2>1. CASE k \in DOMAIN T
    BY <1>3, <2>1 DEF Recorded
  <2>2. CASE k = n
    <3>1. U[k] = e
      BY <1>3, <2>2
    <3>2. e.name = <<s, "whole">>
      BY <3>1
    <3>3. e.name[2] = "whole"
      BY <3>2
    <3>4. s = name
      BY <1>6, <3>2, <3>3
    <3>5. st[s] = 0 /\ lg[s] = 0
      BY <3>4 DEF Recorded
    <3> QED BY <1>1, <3>1, <3>5
  <2> QED BY <1>3, <2>1, <2>2
<1>10. Recorded(U, st, lg, un)
  BY <1>5, <1>7, <1>8, <1>9 DEF Recorded
<1> QED BY <1>3, <1>4, <1>10 DEF U, e

\* An entry written over.
LEMMA WrittenTable ==
  ASSUME NEW T \in Seq(Entry), NEW st, NEW lg, NEW un, Recorded(T, st, lg, un),
         NEW i \in DOMAIN T, NEW w \in Entry, w.name = T[i].name, Ordered(w),
         NEW name \in TaskNames, T[i].name = Stored(name),
         NEW st2, NEW lg2, NEW un2, un \subseteq un2,
         \A s \in TaskNames \ {name} : st2[s] = st[s] /\ lg2[s] = lg[s],
         name \in ShortNames \ un2 => Measures(w, st2[name], lg2[name])
  PROVE  /\ [T EXCEPT ![i] = w] \in Seq(Entry)
         /\ Len([T EXCEPT ![i] = w]) = Len(T)
         /\ Recorded([T EXCEPT ![i] = w], st2, lg2, un2)
<1> DEFINE U == [T EXCEPT ![i] = w]
<1>1. /\ U \in Seq(Entry) /\ Len(U) = Len(T) /\ DOMAIN U = DOMAIN T /\ U[i] = w
      /\ \A k \in DOMAIN T : k # i => U[k] = T[k]
  OBVIOUS
<1> HIDE DEF U
<1>2. \A k \in DOMAIN T : U[k].name = T[k].name
  BY <1>1
<1>3. \A k \in DOMAIN U : Ordered(U[k])
  BY <1>1 DEF Recorded
<1>4. \A j, k \in DOMAIN U : U[j].name = U[k].name /\ U[j].name[2] = "whole" => j = k
  BY <1>1, <1>2 DEF Recorded
<1>5. \A s \in ShortNames : s # name => st2[s] = st[s] /\ lg2[s] = lg[s]
  BY DEF TaskNames
<1>6. name \in ShortNames => T[i].name = <<name, "whole">>
  BY StoredNames
<1>7. \A s \in ShortNames :
         (\A k \in DOMAIN U : U[k].name # <<s, "whole">>) /\ Len(U) < MaxTasks
            => st2[s] = 0 /\ lg2[s] = 0
  <2> SUFFICES ASSUME NEW s \in ShortNames, \A k \in DOMAIN U : U[k].name # <<s, "whole">>,
                      Len(U) < MaxTasks
               PROVE  st2[s] = 0 /\ lg2[s] = 0
    OBVIOUS
  <2>1. s # name
    BY <1>1, <1>2, <1>6
  <2>2. (\A k \in DOMAIN T : T[k].name # <<s, "whole">>) /\ Len(T) < MaxTasks
    BY <1>1, <1>2
  <2>3. st[s] = 0 /\ lg[s] = 0
    BY <2>2 DEF Recorded
  <2> QED BY <1>5, <2>1, <2>3
<1>8. \A k \in DOMAIN U, s \in ShortNames \ un2 :
         U[k].name = <<s, "whole">> => Measures(U[k], st2[s], lg2[s])
  <2> SUFFICES ASSUME NEW k \in DOMAIN U, NEW s \in ShortNames \ un2, U[k].name = <<s, "whole">>
               PROVE  Measures(U[k], st2[s], lg2[s])
    OBVIOUS
  <2>1. T[k].name = <<s, "whole">> /\ s \in ShortNames \ un /\ k \in DOMAIN T
    BY <1>1, <1>2
  <2>2. CASE s = name
    <3>1. T[k].name = T[i].name /\ T[k].name[2] = "whole"
      BY <1>6, <2>1, <2>2
    <3>2. k = i
      BY <2>1, <3>1 DEF Recorded
    <3> QED BY <1>1, <2>2, <3>2
  <2>3. CASE s # name
    <3>1. T[k].name # T[i].name
      <4>1. T[i].name = <<name, "whole">> \/ T[i].name = <<name, "cut">>
        BY DEF Stored
      <4> QED BY <2>1, <2>3, <4>1
    <3>2. U[k] = T[k]
      BY <1>1, <2>1, <3>1
    <3>3. Measures(T[k], st[s], lg[s])
      BY <2>1 DEF Recorded
    <3>4. st2[s] = st[s] /\ lg2[s] = lg[s]
      BY <1>5, <2>3
    <3> QED BY <3>2, <3>3, <3>4
  <2> QED BY <2>2, <2>3
<1>9. Recorded(U, st2, lg2, un2)
  BY <1>3, <1>4, <1>7, <1>8 DEF Recorded
<1> QED BY <1>1, <1>9 DEF U

\* No entry for the name and no room for one.
Crowded(T, name, st, lg, un, st2, lg2, un2) ==
    /\ T \in Seq(Entry) /\ Len(T) = MaxTasks
    /\ name \in ShortNames => \A k \in DOMAIN T : T[k].name # <<name, "whole">>
    /\ un \subseteq un2
    /\ \A s \in TaskNames \ {name} : st2[s] = st[s] /\ lg2[s] = lg[s]

LEMMA FullTable ==
  ASSUME NEW T, NEW name, NEW st, NEW lg, NEW un, NEW st2, NEW lg2, NEW un2,
         Recorded(T, st, lg, un), Crowded(T, name, st, lg, un, st2, lg2, un2)
  PROVE  Recorded(T, st2, lg2, un2)
<1>1. ~(Len(T) < MaxTasks)
  BY StatsConstants DEF Crowded
<1>2. \A k \in DOMAIN T, s \in ShortNames \ un2 :
         T[k].name = <<s, "whole">> => Measures(T[k], st2[s], lg2[s])
  <2> SUFFICES ASSUME NEW k \in DOMAIN T, NEW s \in ShortNames \ un2, T[k].name = <<s, "whole">>
               PROVE  Measures(T[k], st2[s], lg2[s])
    OBVIOUS
  <2>1. s # name /\ s \notin un
    BY DEF Crowded
  <2>2. st2[s] = st[s] /\ lg2[s] = lg[s]
    BY <2>1 DEF TaskNames, Crowded
  <2> QED BY <2>1, <2>2 DEF Recorded
<1> QED BY <1>1, <1>2 DEF Recorded

\* The table a run is entered in.
LEMMA ReadyTable ==
  ASSUME StatsInv, NEW name \in TaskNames, Found(name) # 0
  PROVE  /\ Table(name) \in Seq(Entry) /\ Len(Table(name)) <= MaxTasks
         /\ Found(name) \in DOMAIN Table(name)
         /\ Table(name)[Found(name)].name = Stored(name)
         /\ Recorded(Table(name), started, longest, unpaired)
<1>1. task_data \in Seq(Entry) /\ Len(task_data) <= MaxTasks
      /\ Recorded(task_data, started, longest, unpaired)
  BY DEF StatsInv, StatsOK
<1>2. CASE /\ Found(name) = Len(task_data) + 1 /\ Table(name) = Append(task_data, NewEntry(name))
           /\ \A k \in DOMAIN task_data : task_data[k].name # <<name, "whole">>
           /\ Len(task_data) < MaxTasks
  <2>1. /\ Append(task_data, NewEntry(name)) \in Seq(Entry)
        /\ Len(Append(task_data, NewEntry(name))) <= MaxTasks
        /\ Recorded(Append(task_data, NewEntry(name)), started, longest, unpaired)
    BY <1>1, <1>2, GrownTable
  <2>2. NewEntry(name) \in Entry /\ NewEntry(name).name = Stored(name)
    BY NewEntryOK
  <2>3. /\ Len(task_data) + 1 \in DOMAIN Append(task_data, NewEntry(name))
        /\ Append(task_data, NewEntry(name))[Len(task_data) + 1] = NewEntry(name)
    BY <1>1, <2>2
  <2> QED BY <1>2, <2>1, <2>2, <2>3
<1>3. CASE /\ Found(name) \in DOMAIN task_data /\ Table(name) = task_data
           /\ name \in ShortNames /\ task_data[Found(name)].name = <<name, "whole">>
  BY <1>1, <1>3, StoredNames
<1> QED BY <1>2, <1>3, FoundFacts

LEMMA StartedMeasures ==
  ASSUME uptime \in Nat \ {0}, NEW e \in Entry, NEW run
  PROVE  /\ Ordered(e) => Ordered(Started(e))
         /\ Measures(e, 0, run) => Measures(Started(e), uptime, run)
<1> DEFINE s == Started(e)
<1>1. /\ s.start_time = uptime
      /\ s.max = e.max /\ s.min = e.min /\ s.history = e.history
  BY StartedFacts
<1> HIDE DEF s
<1>3. Ordered(e) => Ordered(s)
  BY <1>1 DEF Ordered, runtime_stats_verify_history
<1>4. Measures(e, 0, run) => Measures(s, uptime, run)
  <2> SUFFICES ASSUME Measures(e, 0, run) PROVE Measures(s, uptime, run)
    OBVIOUS
  <2>1. run <= StatsMax => s.max = run
    BY <1>1 DEF Measures
  <2> QED BY <1>1, <2>1 DEF Measures
<1> QED BY <1>3, <1>4 DEF s

LEMMA MaxOfTwo ==
  ASSUME NEW a \in Int, NEW b \in Int
  PROVE  Max({a, b}) = IF a < b THEN b ELSE a
BY DEF Max

LEMMA EndedMeasures ==
  ASSUME uptime \in Nat, NEW e \in Entry, Ordered(e),
         NEW start \in Nat \ {0}, start <= uptime, NEW run \in Nat, Measures(e, start, run)
  PROVE  Measures(Ended(e), 0, Max({run, uptime - start}))
<1> DEFINE d == uptime - start  s == Ended(e)  longer == Max({run, d})
<1>1. e.start_time = start /\ (run <= StatsMax => e.max = run)
  BY DEF Measures
<1>2. d \in Nat
  OBVIOUS
<1>3. Duration(e) \in 0 .. StatsMax /\ (d <= StatsMax => Duration(e) = d)
  BY <1>1, DurationFacts
<1>4. s.max = IF Duration(e) > e.max THEN Duration(e) ELSE e.max
  BY <1>1, EndedFacts
<1>5. longer = IF run < d THEN d ELSE run
  BY <1>2, MaxOfTwo
<1>6. StatsMax \in Nat
  BY StatsConstants
<1> HIDE DEF d, s, longer
<1>7. longer <= StatsMax => s.max = longer
  <2> SUFFICES ASSUME longer <= StatsMax PROVE s.max = longer
    OBVIOUS
  <2>1. run <= StatsMax /\ d <= StatsMax
    BY <1>2, <1>5, <1>6
  <2>2. e.max = run /\ Duration(e) = d
    BY <1>1, <1>3, <2>1
  <2> QED BY <1>2, <1>4, <1>5, <2>2
<1>8. Measures(s, 0, longer)
  BY <1>7 DEF Measures
<1> QED BY <1>8 DEF s, longer, d

-----------------------------------------------------------------------------
(* The invariant.                                                           *)

LEMMA StatsInitially ==
  ASSUME StatsInit
  PROVE  StatsInv
<1>1. task_data = <<>> /\ task_data \in Seq(Entry) /\ Len(task_data) = 0
      /\ DOMAIN task_data = {}
  BY DEF StatsInit
<1>2. /\ started = [name \in TaskNames |-> 0] /\ longest = [name \in TaskNames |-> 0]
      /\ uptime = 1 /\ unpaired = {} /\ MaxTasks \in Nat
  BY StatsConstants DEF StatsInit
<1>3. StatsOK
  BY <1>1, <1>2 DEF StatsOK
<1>4. Recorded(task_data, started, longest, unpaired)
  BY <1>1, <1>2 DEF Recorded, TaskNames
<1> QED BY <1>3, <1>4 DEF StatsInv

LEMMA ClockKeepsStats ==
  ASSUME StatsInv, StatsClock
  PROVE  StatsInv'
<1>1. /\ StatsOK /\ uptime' = uptime + 1 /\ task_data' = task_data /\ started' = started
      /\ longest' = longest /\ unpaired' = unpaired
      /\ Recorded(task_data, started, longest, unpaired)
  BY DEF StatsInv, StatsClock
<1>2. Recorded(task_data', started', longest', unpaired')
  BY <1>1
<1>3. StatsOK'
  BY <1>1 DEF StatsOK
<1> QED BY <1>2, <1>3 DEF StatsInv

LEMMA StartKeepsStats ==
  ASSUME StatsInv, NEW name \in TaskNames, runtime_stats_start_task(name), UNCHANGED uptime
  PROVE  StatsInv'
<1> DEFINE T == Table(name)  i == Found(name)
<1>1. StatsOK /\ Recorded(task_data, started, longest, unpaired)
  BY DEF StatsInv
<1>2. /\ task_data \in Seq(Entry) /\ Len(task_data) <= MaxTasks /\ uptime \in Nat \ {0}
      /\ started \in [TaskNames -> Nat] /\ longest \in [TaskNames -> Nat]
      /\ unpaired \subseteq TaskNames /\ \A s \in TaskNames : started[s] <= uptime
  BY <1>1 DEF StatsOK
<1>3. /\ task_data' = IF i = 0 THEN task_data ELSE [T EXCEPT ![i] = Started(T[i])]
      /\ started' = [started EXCEPT ![name] = uptime] /\ longest' = longest /\ uptime' = uptime
      /\ unpaired' = IF started[name] # 0 THEN unpaired \cup {name} ELSE unpaired
  BY DEF runtime_stats_start_task
<1>4. /\ unpaired \subseteq unpaired' /\ unpaired' \subseteq TaskNames
      /\ name \notin unpaired' => name \notin unpaired /\ started[name] = 0
  BY <1>2, <1>3
<1>5. \A s \in TaskNames \ {name} : started'[s] = started[s] /\ longest'[s] = longest[s]
  BY <1>2, <1>3
<1>6. started'[name] = uptime /\ longest'[name] = longest[name]
  BY <1>2, <1>3
<1>7. /\ started' \in [TaskNames -> Nat] /\ \A s \in TaskNames : started'[s] <= uptime
  BY <1>2, <1>3
<1>8. /\ task_data' \in Seq(Entry) /\ Len(task_data') <= MaxTasks
      /\ Recorded(task_data', started', longest', unpaired')
  <2>1. CASE i = 0
    <3>1. /\ Len(task_data) = MaxTasks
          /\ name \in ShortNames => \A k \in DOMAIN task_data : task_data[k].name # <<name, "whole">>
      <4>1. Len(task_data) + 1 # 0 /\ 0 \notin DOMAIN task_data
        BY <1>2
      <4> QED BY <2>1, <4>1, FoundFacts
    <3>2. Recorded(task_data, started', longest', unpaired')
      <4>1. Crowded(task_data, name, started, longest, unpaired, started', longest', unpaired')
        BY <1>2, <1>4, <1>5, <3>1 DEF Crowded
      <4> QED BY <1>1, <4>1, FullTable
    <3>3. task_data' = task_data
      BY <1>3, <2>1
    <3> QED BY <1>2, <3>2, <3>3
  <2>2. CASE i # 0
    <3>1. /\ T \in Seq(Entry) /\ Len(T) <= MaxTasks /\ i \in DOMAIN T /\ T[i].name = Stored(name)
          /\ Recorded(T, started, longest, unpaired)
      BY <2>2, ReadyTable
    <3> HIDE DEF T, i
    <3>2. T[i] \in Entry /\ Ordered(T[i])
      BY <3>1 DEF Recorded
    <3>3. /\ Started(T[i]) \in Entry /\ Started(T[i]).name = T[i].name /\ Ordered(Started(T[i]))
      BY <1>2, <3>2, StartedFacts, StartedMeasures
    <3>4. name \in ShortNames \ unpaired' => Measures(Started(T[i]), started'[name], longest'[name])
      <4> SUFFICES ASSUME name \in ShortNames, name \notin unpaired'
                   PROVE  Measures(Started(T[i]), started'[name], longest'[name])
        OBVIOUS
      <4>1. T[i].name = <<name, "whole">> /\ name \in ShortNames \ unpaired /\ started[name] = 0
        BY <1>4, <3>1, StoredNames
      <4>2. Measures(T[i], started[name], longest[name])
        BY <3>1, <4>1 DEF Recorded
      <4>3. Measures(T[i], 0, longest[name])
        BY <4>1, <4>2
      <4>4. Measures(Started(T[i]), uptime, longest[name])
        BY <1>2, <3>2, <4>3, StartedMeasures
      <4> QED BY <1>6, <4>4
    <3>5. /\ [T EXCEPT ![i] = Started(T[i])] \in Seq(Entry)
          /\ Len([T EXCEPT ![i] = Started(T[i])]) = Len(T)
          /\ Recorded([T EXCEPT ![i] = Started(T[i])], started', longest', unpaired')
      BY <1>4, <1>5, <3>1, <3>3, <3>4, WrittenTable
    <3>6. task_data' = [T EXCEPT ![i] = Started(T[i])]
      BY <1>3, <2>2
    <3> QED BY <3>1, <3>5, <3>6
  <2> QED BY <2>1, <2>2
<1>9. StatsOK'
  BY <1>2, <1>3, <1>4, <1>7, <1>8 DEF StatsOK
<1> QED BY <1>8, <1>9 DEF StatsInv

LEMMA EndKeepsStats ==
  ASSUME StatsInv, NEW name \in TaskNames, runtime_stats_end_task(name), UNCHANGED uptime
  PROVE  StatsInv'
<1> DEFINE T == Table(name)  i == Found(name)  run == Max({longest[name], uptime - started[name]})
<1>1. StatsOK /\ Recorded(task_data, started, longest, unpaired)
  BY DEF StatsInv
<1>2. /\ task_data \in Seq(Entry) /\ Len(task_data) <= MaxTasks /\ uptime \in Nat \ {0}
      /\ started \in [TaskNames -> Nat] /\ longest \in [TaskNames -> Nat]
      /\ unpaired \subseteq TaskNames /\ \A s \in TaskNames : started[s] <= uptime
  BY <1>1 DEF StatsOK
<1>3. /\ task_data' = IF i = 0 THEN task_data ELSE [T EXCEPT ![i] = Ended(T[i])]
      /\ started' = [started EXCEPT ![name] = 0] /\ uptime' = uptime
      /\ longest' = [longest EXCEPT ![name] = run]
      /\ unpaired' = IF started[name] = 0 THEN unpaired \cup {name} ELSE unpaired
  BY DEF runtime_stats_end_task
<1>4. /\ unpaired \subseteq unpaired' /\ unpaired' \subseteq TaskNames
      /\ name \notin unpaired' => name \notin unpaired /\ started[name] # 0
  BY <1>2, <1>3
<1>5. started[name] \in Nat /\ started[name] <= uptime /\ longest[name] \in Nat
  BY <1>2
<1>6. run \in Nat
  <2>1. uptime - started[name] \in Nat
    BY <1>2, <1>5
  <2> QED BY <1>5, <2>1, MaxOfTwo
<1>7. \A s \in TaskNames \ {name} : started'[s] = started[s] /\ longest'[s] = longest[s]
  BY <1>2, <1>3
<1>8. started'[name] = 0 /\ longest'[name] = run
  BY <1>2, <1>3
<1>9. /\ started' \in [TaskNames -> Nat] /\ \A s \in TaskNames : started'[s] <= uptime
      /\ longest' \in [TaskNames -> Nat]
  <2> HIDE DEF run
  <2> QED BY <1>2, <1>3, <1>6
<1> HIDE DEF run
<1>10. /\ task_data' \in Seq(Entry) /\ Len(task_data') <= MaxTasks
       /\ Recorded(task_data', started', longest', unpaired')
  <2>1. CASE i = 0
    <3>1. /\ Len(task_data) = MaxTasks
          /\ name \in ShortNames => \A k \in DOMAIN task_data : task_data[k].name # <<name, "whole">>
      <4>1. Len(task_data) + 1 # 0 /\ 0 \notin DOMAIN task_data
        BY <1>2
      <4> QED BY <2>1, <4>1, FoundFacts
    <3>2. Recorded(task_data, started', longest', unpaired')
      <4>1. Crowded(task_data, name, started, longest, unpaired, started', longest', unpaired')
        BY <1>2, <1>4, <1>7, <3>1 DEF Crowded
      <4> QED BY <1>1, <4>1, FullTable
    <3>3. task_data' = task_data
      BY <1>3, <2>1
    <3> QED BY <1>2, <3>2, <3>3
  <2>2. CASE i # 0
    <3>1. /\ T \in Seq(Entry) /\ Len(T) <= MaxTasks /\ i \in DOMAIN T /\ T[i].name = Stored(name)
          /\ Recorded(T, started, longest, unpaired)
      BY <2>2, ReadyTable
    <3> HIDE DEF T, i
    <3>2. T[i] \in Entry /\ Ordered(T[i])
      BY <3>1 DEF Recorded
    <3>3. /\ Ended(T[i]) \in Entry /\ Ended(T[i]).name = T[i].name /\ Ordered(Ended(T[i]))
      BY <1>2, <3>2, EndedFacts
    <3>4. name \in ShortNames \ unpaired' => Measures(Ended(T[i]), started'[name], longest'[name])
      <4> SUFFICES ASSUME name \in ShortNames, name \notin unpaired'
                   PROVE  Measures(Ended(T[i]), started'[name], longest'[name])
        OBVIOUS
      <4>1. T[i].name = <<name, "whole">> /\ name \in ShortNames \ unpaired
            /\ started[name] \in Nat \ {0}
        BY <1>4, <1>5, <3>1, StoredNames
      <4>2. Measures(T[i], started[name], longest[name])
        BY <3>1, <4>1 DEF Recorded
      <4>3. Measures(Ended(T[i]), 0, run)
        BY <1>2, <1>5, <3>2, <4>1, <4>2, EndedMeasures DEF run
      <4> QED BY <1>8, <4>3
    <3>5. /\ [T EXCEPT ![i] = Ended(T[i])] \in Seq(Entry)
          /\ Len([T EXCEPT ![i] = Ended(T[i])]) = Len(T)
          /\ Recorded([T EXCEPT ![i] = Ended(T[i])], started', longest', unpaired')
      BY <1>4, <1>7, <3>1, <3>3, <3>4, WrittenTable
    <3>6. task_data' = [T EXCEPT ![i] = Ended(T[i])]
      BY <1>3, <2>2
    <3> QED BY <3>1, <3>5, <3>6
  <2> QED BY <2>1, <2>2
<1>11. StatsOK'
  BY <1>2, <1>3, <1>4, <1>9, <1>10 DEF StatsOK
<1> QED BY <1>10, <1>11 DEF StatsInv

LEMMA StatsStandStill ==
  ASSUME StatsInv, UNCHANGED statsVars
  PROVE  StatsInv'
<1>1. /\ task_data' = task_data /\ started' = started /\ longest' = longest
      /\ unpaired' = unpaired /\ uptime' = uptime
  BY DEF statsVars
<1> QED BY <1>1 DEF StatsInv, StatsOK

LEMMA StepKeepsStats ==
  ASSUME StatsInv, [Next]_vars
  PROVE  StatsInv'
<1>1. CASE UNCHANGED statsVars
  BY <1>1, StatsStandStill
<1>2. CASE StatsStep
  <2>1. CASE StatsClock
    BY <2>1, ClockKeepsStats
  <2>2. CASE StatsCall
    <3>1. PICK name \in TaskNames : runtime_stats_start_task(name) \/ runtime_stats_end_task(name)
      BY <2>2 DEF StatsCall
    <3>2. UNCHANGED uptime
      BY <2>2 DEF StatsCall
    <3> QED BY <3>1, <3>2, StartKeepsStats, EndKeepsStats
  <2> QED BY <1>2, <2>1, <2>2 DEF StatsStep, StatsNext
<1>3. StatsStep \/ UNCHANGED statsVars
  BY DEF Next, vars, GoalStep, NotificationStep, IsoTpStep, VcuStep, RoadStep, WifiStep
<1> QED BY <1>1, <1>2, <1>3

\* What a paired task's entry says follows from the invariant.
LEMMA MeasuredThen ==
  ASSUME StatsInv
  PROVE  PairedTasksAreMeasured
<1>1. task_data \in Seq(Entry) /\ Recorded(task_data, started, longest, unpaired)
  BY DEF StatsInv, StatsOK
<1> SUFFICES ASSUME NEW i \in DOMAIN task_data
             PROVE  LET entry == task_data[i] IN
                    /\ runtime_stats_verify_history(entry)
                    /\ /\ entry.name[1] \in ShortNames \ unpaired
                       /\ longest[entry.name[1]] <= StatsMax
                       => entry.max = longest[entry.name[1]]
  BY DEF PairedTasksAreMeasured
<1> DEFINE e == task_data[i]  name == e.name[1]
<1>2. e \in Entry
  BY <1>1
<1>3. Ordered(e)
  BY <1>1 DEF Recorded
<1>4. e.name \in EntryNames
  BY <1>2, EntryFacts
<1>5. name \in ShortNames => e.name = <<name, "whole">>
  BY <1>4, StatsConstants DEF EntryNames
<1>6. name \in ShortNames \ unpaired => Measures(e, started[name], longest[name])
  BY <1>1, <1>5 DEF Recorded
<1> HIDE DEF e, name
<1>7. name \in ShortNames \ unpaired /\ longest[name] <= StatsMax => e.max = longest[name]
  BY <1>6 DEF Measures
<1>8. runtime_stats_verify_history(e)
  BY <1>3 DEF Ordered
<1> QED BY <1>7, <1>8 DEF e, name

LEMMA StatsAlways == Spec => []StatsInv
<1>1. Init => StatsInv
  BY StatsInitially DEF Init
<1>2. StatsInv /\ [Next]_vars => StatsInv'
  BY StepKeepsStats
<1> QED BY <1>1, <1>2, PTL DEF Spec

\* The table of run times keeps its types: in particular the average of a window
\* of 32-bit times is one, and its index stays in the window.
LEMMA StatsTypes == StatsInv => StatsTypeOK
<1> SUFFICES ASSUME StatsInv PROVE StatsTypeOK
  OBVIOUS
<1>1. task_data \in Seq(Entry) /\ Len(task_data) <= MaxTasks /\ unpaired \subseteq TaskNames
  BY DEF StatsInv, StatsOK
<1>2. ASSUME NEW i \in DOMAIN task_data
      PROVE  /\ task_data[i].name \in TaskNames \X {"whole", "cut"}
             /\ {task_data[i].total, task_data[i].max, task_data[i].min, task_data[i].avg}
                    \subseteq 0 .. StatsMax
             /\ task_data[i].history_index \in 0 .. HistorySize - 1
             /\ task_data[i].moving_avg_index \in 0 .. MovingAvgWindow - 1
  <2> DEFINE e == task_data[i]
  <2>1. e \in Entry
    BY <1>1
  <2> HIDE DEF e
  <2>2. e.name \in EntryNames
    BY <2>1, EntryFacts
  <2>3. e.name \in TaskNames \X {"whole", "cut"}
    BY <2>2 DEF EntryNames, TaskNames
  <2>4. e.avg \in 0 .. StatsMax
    BY <2>1 DEF Entry
  <2> QED BY <2>1, <2>3, <2>4, EntryFacts DEF e
<1> QED BY <1>1, <1>2 DEF StatsTypeOK

\* A task whose starts and ends alternate (runtime_stats.c, lines 49 to 135) has
\* its longest run for a maximum, however many tasks there are and however long
\* they run, and no history ever fails its verification.
THEOREM PairedTasksMeasured == Spec => []PairedTasksAreMeasured
<1>1. StatsInv => PairedTasksAreMeasured
  BY MeasuredThen
<1> QED BY StatsAlways, <1>1, PTL

=============================================================================
