---------------------------- MODULE TaskMonitor_proof ----------------------------
(***************************************************************************)
(* Proofs about TaskMonitor, for every set of application threads, every    *)
(* table size, every set of tasks and every limit.                          *)
(*                                                                          *)
(* The inductive invariant says who holds each stats_mutex and how often,   *)
(* which task the error under way is about, and at which places of the      *)
(* scan a task may have reached the limit or still show a stack overflow.   *)
(***************************************************************************)
EXTENDS TaskMonitor, WellFoundedInduction, SequenceTheorems, TLAPS

\* A stats_mutex is locked once for each place its owner is at.
MutexSound ==
    \A i \in DOMAIN tasks :
        /\ tasks[i].owner \in Threads \cup {NoThread}
        /\ \A t \in Threads :
              tasks[i].owner = t <=> Handles(t, i) \/ (t = Monitor /\ ScansLocked(i))
        /\ tasks[i].depth =
              IF tasks[i].owner = NoThread THEN 0
              ELSE IF Handles(Monitor, i) /\ ScansLocked(i) THEN 2 ELSE 1

\* A thread that has marked a task goes on with the first one of that name; it
\* is stopped by a critical task.  The monitor may also be stopped by the task
\* it scans.
ErrorSound(t) ==
    /\ pc[t] = "recover" => frame[t].slot # 0
    /\ pc[t] \in {"recover", "stopped"} /\ frame[t].slot # 0 =>
          frame[t].slot = Lookup(frame[t].name)
    /\ pc[t] = "stopped" /\ frame[t].slot # 0 => tasks[frame[t].slot].config.critical
    /\ pc[t] = "stopped" /\ frame[t].slot = 0 =>
          t = Monitor /\ frame[t] = NoFrame /\ tasks[index].config.critical
    /\ t \in Callers => frame[t].return_to = "idle"

ErrorsSound == \A t \in Threads : ErrorSound(t)

\* An error that the monitor handles is about the task it scans.
HandlesScanned ==
    \/ pc[Monitor] \in {"handle", "recover"}
    \/ pc[Monitor] = "stopped" /\ frame[Monitor].slot # 0

ScanSound ==
    /\ pc[Monitor] \notin {"scan", "deadline"} => index \in DOMAIN tasks
    /\ pc[Monitor] \in ScanLabels => frame[Monitor] = NoFrame
    /\ HandlesScanned =>
          /\ frame[Monitor].return_to # "idle"
          /\ frame[Monitor].name = tasks[index].config.name

\* Between the miss that reaches the limit and the end of the recovery.
Escalating(i) ==
    /\ index = i
    /\ \/ pc[Monitor] \in {"escalate", "stopped"}
       \/ pc[Monitor] \in {"handle", "recover"} /\ frame[Monitor].return_to = "runtime"

MissSound(i) ==
    \/ tasks[i].missed < MaxMissedDeadlines
    \/ tasks[i].missed = MaxMissedDeadlines /\ Escalating(i)

CountSound ==
    pc[Monitor] = "count" /\ FirstOfItsName(index) => observed < MaxMissedDeadlines

MissesSound ==
    /\ \A i \in DOMAIN tasks : FirstOfItsName(i) => MissSound(i)
    /\ CountSound

\* Between the overflow found and the end of the recovery.
Overflowing(i) ==
    /\ index = i
    /\ pc[Monitor] \in {"handle", "recover"} /\ frame[Monitor].return_to = "peak"

OverflowsSound ==
    \A i \in DOMAIN tasks :
        tasks[i].stack_overflow /\ FirstOfItsName(i) /\ ~tasks[i].config.critical
            => Overflowing(i)

StatesSound ==
    \A i \in DOMAIN tasks :
        tasks[i].state = "ERROR" => \E t \in Threads : Handles(t, i)

TableOK ==
    /\ tasks \in Seq(Tasks)
    /\ \A i \in DOMAIN tasks : tasks[i].stack_usage_peak = 0

Labels == ScanLabels \cup CallLabels \cup ErrorLabels

PlacesOK ==
    /\ monitor_mutex \in Threads \cup {NoThread}
    /\ pc \in [Threads -> Labels]
    /\ pc[Monitor] \in ScanLabels \cup ErrorLabels
    /\ \A c \in Callers : pc[c] \in CallLabels \cup ErrorLabels
    /\ frame \in [Threads -> [name : Names \cup {""}, slot : Nat,
                              return_to : {"idle", "runtime", "stack", "peak"}]]
    /\ index \in Nat \ {0} /\ observed \in 0..(MaxMissedDeadlines + 1)
    /\ free \in {0} \cup FreeStack /\ calls \in 0..MaxCalls
    /\ monitor_mutex = Monitor <=> pc[Monitor] # "scan"

DataOK == TableOK /\ PlacesOK

CoreInv == DataOK /\ MutexSound /\ ErrorsSound /\ ScanSound
-----------------------------------------------------------------------------
(* The table and its names.                                                 *)

LEMMA LeastNumber ==
  ASSUME NEW T \in SUBSET Nat, T # {}
  PROVE  \E x \in T : \A y \in T : x <= y
<1> DEFINE R == {p \in Nat \X Nat : p[1] < p[2]}
<1>1. IsWellFoundedOn(R, Nat)
  BY NatLessThanWellFounded DEF OpToRel
<1>2. PICK x \in T : \A y \in T : <<y, x>> \notin R
  BY <1>1, WFMin
<1>3. ASSUME NEW y \in T PROVE x <= y
  <2>1. x \in Nat /\ y \in Nat
    OBVIOUS
  <2>2. y < x => <<y, x>> \in R
    BY <2>1
  <2> QED BY <1>2, <2>1, <2>2
<1> QED BY <1>3

LEMMA SeqFacts ==
  ASSUME NEW S, NEW s \in Seq(S)
  PROVE  /\ Len(s) \in Nat
         /\ DOMAIN s = 1 .. Len(s)
         /\ \A i \in DOMAIN s : s[i] \in S /\ i \in Nat \ {0}
  OBVIOUS

LEMMA LookupLeast ==
  ASSUME tasks \in Seq(Tasks), NEW name, Named(name) # {}
  PROVE  /\ Lookup(name) \in Named(name)
         /\ \A j \in Named(name) : Lookup(name) <= j
<1>1. Named(name) \in SUBSET Nat
  BY SeqFacts DEF Named
<1>2. \E i \in Named(name) : \A j \in Named(name) : i <= j
  BY <1>1, LeastNumber, Zenon
<1> QED BY <1>2, Zenon DEF Lookup

\* Lookup finds a task of that name, or none has it.
LEMMA LookupFinds ==
  ASSUME tasks \in Seq(Tasks), NEW name
  PROVE  /\ Lookup(name) # 0 <=> Named(name) # {}
         /\ Lookup(name) # 0 =>
               Lookup(name) \in DOMAIN tasks /\ tasks[Lookup(name)].config.name = name
<1>1. CASE Named(name) = {}
  BY <1>1 DEF Lookup
<1>2. CASE Named(name) # {}
  <2>1. Lookup(name) \in Named(name)
    BY <1>2, LookupLeast, Zenon
  <2>2. Lookup(name) \in DOMAIN tasks /\ tasks[Lookup(name)].config.name = name
    BY <2>1, Zenon DEF Named
  <2>3. Lookup(name) # 0
    BY <2>2, SeqFacts
  <2> QED BY <1>2, <2>2, <2>3, Zenon
<1> QED BY <1>1, <1>2, Zenon

\* The table only grows, and what is registered of a task never changes.
ConfigsKept ==
    /\ tasks' \in Seq(Tasks)
    /\ Len(tasks) <= Len(tasks')
    /\ \A i \in DOMAIN tasks : tasks'[i].config = tasks[i].config

LEMMA LeastIsUnique ==
  ASSUME NEW T \in SUBSET Nat, NEW x \in T, \A y \in T : x <= y
  PROVE  x = CHOOSE i \in T : \A j \in T : i <= j
<1> DEFINE z == CHOOSE i \in T : \A j \in T : i <= j
<1>1. z \in T /\ \A j \in T : z <= j
  OBVIOUS
<1> HIDE DEF z
<1>2. x <= z /\ z <= x /\ x \in Nat /\ z \in Nat
  BY <1>1
<1>3. x = z
  BY <1>2
<1> QED BY <1>3 DEF z

\* So a name that was found is found at the same place ever after.
LEMMA LookupKept ==
  ASSUME tasks \in Seq(Tasks), ConfigsKept
  PROVE  /\ DOMAIN tasks \subseteq DOMAIN tasks'
         /\ \A name : Lookup(name) # 0 => Lookup(name)' = Lookup(name)
         /\ \A i \in DOMAIN tasks : FirstOfItsName(i)' => FirstOfItsName(i)
<1>1. DOMAIN tasks \subseteq DOMAIN tasks'
  <2>1. DOMAIN tasks = 1 .. Len(tasks) /\ DOMAIN tasks' = 1 .. Len(tasks')
    BY SeqFacts DEF ConfigsKept
  <2>2. Len(tasks) \in Nat /\ Len(tasks') \in Nat /\ Len(tasks) <= Len(tasks')
    BY SeqFacts DEF ConfigsKept
  <2> QED BY <2>1, <2>2
<1>2. ASSUME NEW name, Lookup(name) # 0 PROVE Lookup(name)' = Lookup(name)
  <2> DEFINE n == Lookup(name)
  <2>1. n \in Named(name) /\ \A j \in Named(name) : n <= j
    BY <1>2, LookupFinds, LookupLeast, Zenon
  <2>2. n \in DOMAIN tasks /\ tasks[n].config.name = name
    BY <2>1, Zenon DEF Named
  <2> HIDE DEF n
  <2>3. n \in Named(name)'
    BY <1>1, <2>2 DEF Named, ConfigsKept
  <2>4. Named(name)' \in SUBSET Nat
    BY SeqFacts DEF Named, ConfigsKept
  <2>5. ASSUME NEW j \in Named(name)' PROVE n <= j
    <3>1. j \in DOMAIN tasks' /\ tasks'[j].config.name = name
      BY DEF Named
    <3>2. CASE j \in DOMAIN tasks
      <4>1. j \in Named(name)
        BY <3>1, <3>2 DEF Named, ConfigsKept
      <4> QED BY <2>1, <4>1
    <3>3. CASE j \notin DOMAIN tasks
      <4>1. /\ DOMAIN tasks = 1 .. Len(tasks) /\ Len(tasks) \in Nat
            /\ j \in Nat \ {0} /\ n \in Nat
        BY <2>2, <3>1, SeqFacts DEF ConfigsKept
      <4> QED BY <2>2, <3>3, <4>1
    <3> QED BY <3>2, <3>3
  <2>6. n = CHOOSE i \in Named(name)' : \A j \in Named(name)' : i <= j
    BY <2>3, <2>4, <2>5, LeastIsUnique, Zenon
  <2>7. Named(name)' # {}
    BY <2>3
  <2>8. Lookup(name)' = n
    BY <2>6, <2>7, Zenon DEF Lookup
  <2> QED BY <2>8 DEF n
<1>3. ASSUME NEW i \in DOMAIN tasks, FirstOfItsName(i)' PROVE FirstOfItsName(i)
  <2>0. PICK name : name = tasks[i].config.name
    OBVIOUS
  <2>1. Lookup(name)' = i
    BY <1>3, <2>0 DEF FirstOfItsName, ConfigsKept
  <2>2. i \in Named(name)
    BY <2>0 DEF Named
  <2>3. Lookup(name) # 0
    BY <2>2, LookupFinds
  <2>4. Lookup(name) = i
    BY <1>2, <2>1, <2>3
  <2> QED BY <2>0, <2>4, Zenon DEF FirstOfItsName
<1> QED BY <1>1, <1>2, <1>3, Zenon

LEMMA ThreadFacts ==
  /\ Monitor \in Threads /\ NoThread \notin Threads
  /\ \A c \in Callers : c \in Threads /\ c # Monitor
  /\ \A t \in Threads : t \in Callers \/ t = Monitor
  BY ThreadsAssumption DEF Threads

LEMMA NoFrameFields == NoFrame.return_to = "idle" /\ NoFrame.slot = 0 /\ NoFrame.name = ""
  BY DEF NoFrame

\* Only the slot of a frame is written.
LEMMA SlotPut ==
  ASSUME NEW A, NEW B, NEW f \in [name : A, slot : Nat, return_to : B], NEW j
  PROVE  /\ [f EXCEPT !.slot = j].slot = j
         /\ [f EXCEPT !.slot = j].name = f.name
         /\ [f EXCEPT !.slot = j].return_to = f.return_to
  OBVIOUS

\* One task is written, or one is added.
LEMMA TaskWritten ==
  ASSUME tasks \in Seq(Tasks), NEW i \in DOMAIN tasks, NEW task \in Tasks,
         task.config = tasks[i].config, tasks' = [tasks EXCEPT ![i] = task]
  PROVE  /\ ConfigsKept /\ DOMAIN tasks' = DOMAIN tasks
         /\ tasks'[i] = task
         /\ \A j \in DOMAIN tasks : j # i => tasks'[j] = tasks[j]
<1>1. tasks' \in Seq(Tasks) /\ Len(tasks') = Len(tasks)
  BY SeqFacts, ExceptSeq
<1>2. /\ DOMAIN tasks' = DOMAIN tasks
      /\ tasks'[i] = task
      /\ \A j \in DOMAIN tasks : j # i => tasks'[j] = tasks[j]
  OBVIOUS
<1>3. Len(tasks) <= Len(tasks')
  BY <1>1, SeqFacts
<1> QED BY <1>1, <1>2, <1>3 DEF ConfigsKept

LEMMA TaskAdded ==
  ASSUME tasks \in Seq(Tasks), NEW task \in Tasks, tasks' = Append(tasks, task)
  PROVE  /\ ConfigsKept
         /\ \A j \in DOMAIN tasks : tasks'[j] = tasks[j]
         /\ \A j \in DOMAIN tasks' \ DOMAIN tasks : tasks'[j] = task
<1>1. /\ tasks' \in Seq(Tasks) /\ Len(tasks') = Len(tasks) + 1 /\ Len(tasks) \in Nat
      /\ DOMAIN tasks = 1 .. Len(tasks) /\ DOMAIN tasks' = 1 .. Len(tasks')
  BY SeqFacts
<1>2. \A j \in DOMAIN tasks : tasks'[j] = tasks[j]
  BY <1>1
<1>3. \A j \in DOMAIN tasks' \ DOMAIN tasks : tasks'[j] = task
  BY <1>1
<1> QED BY <1>1, <1>2, <1>3 DEF ConfigsKept

LEMMA TableUnchanged ==
  ASSUME tasks \in Seq(Tasks), UNCHANGED tasks
  PROVE  ConfigsKept /\ DOMAIN tasks' = DOMAIN tasks
  BY SeqFacts DEF ConfigsKept

-----------------------------------------------------------------------------
(* A step of one thread leaves the calls of the others alone.               *)

StepOf(u) ==
    /\ ConfigsKept
    /\ \A t \in Threads \ {u} : pc'[t] = pc[t] /\ frame'[t] = frame[t]
    /\ u # Monitor => index' = index

LEMMA SlotFound ==
  ASSUME DataOK, ErrorsSound, NEW t \in Threads, pc[t] \in {"recover", "stopped"},
         frame[t].slot # 0
  PROVE  /\ frame[t].slot \in DOMAIN tasks
         /\ frame[t].slot = Lookup(frame[t].name)
         /\ tasks[frame[t].slot].config.name = frame[t].name
<1>1. frame[t].slot = Lookup(frame[t].name)
  BY DEF ErrorsSound, ErrorSound
<1>2. Lookup(frame[t].name) # 0
  BY <1>1
<1> QED BY <1>1, <1>2, LookupFinds DEF DataOK, TableOK

LEMMA ErrorSoundKept ==
  ASSUME CoreInv, NEW t \in Threads, ConfigsKept,
         pc'[t] = pc[t], frame'[t] = frame[t], t = Monitor => index' = index
  PROVE  ErrorSound(t)'
<1>1. pc'[t] = pc[t] /\ frame'[t] = frame[t]
  OBVIOUS
<1>2. ErrorSound(t) /\ DataOK /\ ErrorsSound
  BY DEF CoreInv, ErrorsSound
<1>3. PICK name, slot : name = frame[t].name /\ slot = frame[t].slot
  OBVIOUS
<1>4. CASE pc[t] \in {"recover", "stopped"} /\ slot # 0
  <2>1. slot \in DOMAIN tasks /\ slot = Lookup(name)
    BY <1>2, <1>3, <1>4, SlotFound
  <2>2. Lookup(name)' = Lookup(name) /\ tasks'[slot].config = tasks[slot].config
    BY <1>2, <1>4, <2>1, LookupKept DEF ConfigsKept, DataOK, TableOK
  <2> QED BY <1>1, <1>2, <1>3, <1>4, <2>1, <2>2 DEF ErrorSound
<1>5. CASE pc[t] = "stopped" /\ slot = 0
  <2>1. t = Monitor /\ index' = index /\ index \in DOMAIN tasks
    BY <1>2, <1>3, <1>5 DEF ErrorSound, CoreInv, ScanSound
  <2>2. tasks'[index].config = tasks[index].config
    BY <2>1 DEF ConfigsKept
  <2> QED BY <1>1, <1>2, <1>3, <1>5, <2>1, <2>2 DEF ErrorSound
<1>6. CASE pc[t] \notin {"recover", "stopped"} \/ (pc[t] = "recover" /\ slot = 0)
  BY <1>1, <1>2, <1>3, <1>6 DEF ErrorSound
<1> QED BY <1>4, <1>5, <1>6

LEMMA OtherErrorSound ==
  ASSUME CoreInv, NEW u \in Threads, StepOf(u), NEW t \in Threads, t # u
  PROVE  ErrorSound(t)'
  BY ErrorSoundKept DEF StepOf

LEMMA ScanSoundKept ==
  ASSUME CoreInv, ConfigsKept, pc'[Monitor] = pc[Monitor], frame'[Monitor] = frame[Monitor],
         index' = index
  PROVE  ScanSound'
<1>1. pc'[Monitor] = pc[Monitor] /\ frame'[Monitor] = frame[Monitor] /\ index' = index
  OBVIOUS
<1>2. ScanSound /\ DataOK
  BY DEF CoreInv
<1>3. DOMAIN tasks \subseteq DOMAIN tasks'
  BY <1>2, LookupKept DEF DataOK, TableOK
<1>4. HandlesScanned => index \in DOMAIN tasks
  BY <1>2 DEF HandlesScanned, ScanSound
<1>5. index \in DOMAIN tasks => tasks'[index].config = tasks[index].config
  BY DEF ConfigsKept
<1> QED BY <1>1, <1>2, <1>3, <1>4, <1>5 DEF ScanSound, HandlesScanned

LEMMA OtherScanSound ==
  ASSUME CoreInv, NEW u \in Callers, StepOf(u)
  PROVE  ScanSound'
  BY ScanSoundKept, ThreadFacts DEF StepOf

OwnersKept ==
    /\ \A i \in DOMAIN tasks :
          tasks'[i].owner = tasks[i].owner /\ tasks'[i].depth = tasks[i].depth
    /\ \A i \in DOMAIN tasks' \ DOMAIN tasks :
          tasks'[i].owner = NoThread /\ tasks'[i].depth = 0

LEMMA MutexesKept ==
  ASSUME CoreInv, ConfigsKept, OwnersKept,
         \A t \in Threads, i \in DOMAIN tasks' : Handles(t, i)' <=> Handles(t, i),
         \A i \in DOMAIN tasks' : ScansLocked(i)' <=> ScansLocked(i)
  PROVE  MutexSound'
<1>1. ASSUME NEW i \in DOMAIN tasks', i \notin DOMAIN tasks
      PROVE  ~ScansLocked(i) /\ \A t \in Threads : ~Handles(t, i)
  <2>1. ~ScansLocked(i)
    BY <1>1 DEF ScansLocked, CoreInv, ScanSound, ErrorLabels
  <2>2. ASSUME NEW t \in Threads PROVE ~Handles(t, i)
    <3>1. i # 0
      BY SeqFacts DEF ConfigsKept
    <3> QED BY <1>1, <3>1, SlotFound DEF Handles, CoreInv
  <2> QED BY <2>1, <2>2
<1>2. ASSUME NEW i \in DOMAIN tasks'
      PROVE  /\ tasks'[i].owner \in Threads \cup {NoThread}
             /\ \A t \in Threads : tasks'[i].owner = t <=>
                   Handles(t, i) \/ (t = Monitor /\ ScansLocked(i))
             /\ tasks'[i].depth =
                   IF tasks'[i].owner = NoThread THEN 0
                   ELSE IF Handles(Monitor, i) /\ ScansLocked(i) THEN 2 ELSE 1
  <2>1. CASE i \in DOMAIN tasks
    BY <2>1 DEF OwnersKept, CoreInv, MutexSound
  <2>2. CASE i \notin DOMAIN tasks
    BY <1>1, <2>2, ThreadFacts DEF OwnersKept
  <2> QED BY <2>1, <2>2
<1> QED BY <1>2, ThreadFacts DEF MutexSound

-----------------------------------------------------------------------------
(* What the code writes into a task.                                        *)

LEMMA LockedTask ==
  ASSUME NEW task \in Tasks, NEW t \in Threads, task.depth \in 0..1
  PROVE  /\ Locked(task, t) \in Tasks /\ Marked(task, t) \in Tasks
         /\ \A new \in {Locked(task, t), Marked(task, t)} :
               /\ new.owner = t /\ new.depth = task.depth + 1
               /\ new.config = task.config /\ new.missed = task.missed
               /\ new.stack_overflow = task.stack_overflow
               /\ new.stack_usage_peak = task.stack_usage_peak
         /\ Locked(task, t).state = task.state
<1>1. task.depth + 1 \in 0..2
  OBVIOUS
<1>2. Locked(task, t) \in Tasks /\ Marked(task, t) \in Tasks
  BY <1>1 DEF Locked, Marked, Tasks
<1> QED BY <1>2 DEF Locked, Marked, Tasks

LEMMA UnlockedTask ==
  ASSUME NEW task \in Tasks, task.depth \in 1..2
  PROVE  /\ Unlocked(task) \in Tasks
         /\ Unlocked(task).owner = IF task.depth = 1 THEN NoThread ELSE task.owner
         /\ Unlocked(task).depth = task.depth - 1
         /\ Unlocked(task).config = task.config /\ Unlocked(task).missed = task.missed
         /\ Unlocked(task).stack_overflow = task.stack_overflow
         /\ Unlocked(task).stack_usage_peak = task.stack_usage_peak
         /\ Unlocked(task).state = task.state
<1>1. task.depth - 1 \in 0..2
  OBVIOUS
<1>2. Unlocked(task) \in Tasks
  BY <1>1 DEF Unlocked, Tasks
<1> QED BY <1>2 DEF Unlocked, Tasks

LEMMA RecoveredTask ==
  ASSUME NEW task \in Tasks
  PROVE  /\ Recovered(task) \in Tasks
         /\ Recovered(task).owner = task.owner /\ Recovered(task).depth = task.depth
         /\ Recovered(task).config = task.config /\ Recovered(task).missed = 0
         /\ Recovered(task).stack_overflow = FALSE
         /\ Recovered(task).stack_usage_peak = task.stack_usage_peak
         /\ Recovered(task).state = "READY"
<1>1. 0 \in 0..(MaxMissedDeadlines + 1)
  BY TasksAssumption
<1> QED BY <1>1 DEF Recovered, Tasks

LEMMA NewTaskOK ==
  ASSUME NEW c \in Configs
  PROVE  /\ NewTask(c) \in Tasks
         /\ NewTask(c).owner = NoThread /\ NewTask(c).depth = 0
         /\ NewTask(c).config = c /\ NewTask(c).missed = 0
         /\ NewTask(c).stack_overflow = FALSE
         /\ NewTask(c).stack_usage_peak = 0 /\ NewTask(c).state = "INIT"
<1>1. 0 \in 0..(MaxMissedDeadlines + 1)
  BY TasksAssumption
<1> QED BY <1>1 DEF NewTask, Tasks

\* recover_task_error and the unlock behind it.
LEMMA HandledTask ==
  ASSUME NEW task \in Tasks, task.depth \in 1..2
  PROVE  /\ Handled(task) \in Tasks
         /\ Handled(task).owner = IF task.depth = 1 THEN NoThread ELSE task.owner
         /\ Handled(task).depth = task.depth - 1
         /\ Handled(task).config = task.config /\ Handled(task).missed = 0
         /\ Handled(task).stack_overflow = FALSE
         /\ Handled(task).stack_usage_peak = task.stack_usage_peak
         /\ Handled(task).state = "READY"
<1> DEFINE r == Recovered(task)
<1>1. /\ r \in Tasks /\ r.owner = task.owner /\ r.depth = task.depth
      /\ r.config = task.config /\ r.missed = 0 /\ r.stack_overflow = FALSE
      /\ r.stack_usage_peak = task.stack_usage_peak /\ r.state = "READY"
  BY RecoveredTask
<1>2. Handled(task) = Unlocked(r)
  BY DEF Handled
<1> HIDE DEF r
<1> QED BY <1>1, <1>2, UnlockedTask

MissCounted(task, n) == [Unlocked(task) EXCEPT !.missed = Counted(n)]

LEMMA CountedTask ==
  ASSUME NEW task \in Tasks, task.depth \in 1..2, NEW n \in 0..(MaxMissedDeadlines + 1)
  PROVE  /\ MissCounted(task, n) \in Tasks
         /\ MissCounted(task, n).owner = IF task.depth = 1 THEN NoThread ELSE task.owner
         /\ MissCounted(task, n).depth = task.depth - 1
         /\ MissCounted(task, n).config = task.config
         /\ MissCounted(task, n).missed = Counted(n)
         /\ MissCounted(task, n).stack_overflow = task.stack_overflow
         /\ MissCounted(task, n).stack_usage_peak = task.stack_usage_peak
         /\ MissCounted(task, n).state = task.state
<1> DEFINE u == Unlocked(task)
<1>1. /\ u \in Tasks
      /\ u.owner = IF task.depth = 1 THEN NoThread ELSE task.owner
      /\ u.depth = task.depth - 1 /\ u.config = task.config
      /\ u.stack_overflow = task.stack_overflow
      /\ u.stack_usage_peak = task.stack_usage_peak /\ u.state = task.state
  BY UnlockedTask
<1>2. Counted(n) \in 0..(MaxMissedDeadlines + 1)
  BY TasksAssumption DEF Counted
<1>3. MissCounted(task, n) = [u EXCEPT !.missed = Counted(n)]
  BY DEF MissCounted
<1> HIDE DEF u
<1>4. MissCounted(task, n) \in Tasks
  BY <1>1, <1>2, <1>3 DEF Tasks
<1> QED BY <1>1, <1>3, <1>4 DEF Tasks

\* The peak starts at 0 and every free stack is above it.
LEMMA PeakTask ==
  ASSUME NEW task \in Tasks, task.depth \in 1..2, free \in {0} \cup FreeStack,
         task.stack_usage_peak = 0
  PROVE  /\ PeakRecorded(task) \in Tasks
         /\ PeakRecorded(task).owner = IF task.depth = 1 THEN NoThread ELSE task.owner
         /\ PeakRecorded(task).depth = task.depth - 1
         /\ PeakRecorded(task).config = task.config
         /\ PeakRecorded(task).missed = task.missed
         /\ PeakRecorded(task).stack_overflow = task.stack_overflow
         /\ PeakRecorded(task).stack_usage_peak = 0
         /\ PeakRecorded(task).state = task.state
<1> DEFINE u == Unlocked(task)
<1>1. /\ u \in Tasks
      /\ u.owner = IF task.depth = 1 THEN NoThread ELSE task.owner
      /\ u.depth = task.depth - 1 /\ u.config = task.config
      /\ u.missed = task.missed /\ u.stack_overflow = task.stack_overflow
      /\ u.stack_usage_peak = 0 /\ u.state = task.state
  BY UnlockedTask
<1>2. ~(free < 0)
  BY TasksAssumption
<1>3. PeakRecorded(task) =
         [u EXCEPT !.stack_usage_peak = IF free < u.stack_usage_peak THEN free
                                        ELSE u.stack_usage_peak]
  BY DEF PeakRecorded
<1> HIDE DEF u
<1>4. PeakRecorded(task) = [u EXCEPT !.stack_usage_peak = 0]
  BY <1>1, <1>2, <1>3
<1>5. PeakRecorded(task) \in Tasks
  BY <1>1, <1>4 DEF Tasks
<1> QED BY <1>1, <1>4, <1>5 DEF Tasks

-----------------------------------------------------------------------------
(* The steps of application threads.                                        *)

LEMMA CallerKeeps ==
  ASSUME CoreInv, NEW c \in Callers, StepOf(c), OwnersKept, DataOK',
         pc[c] \notin {"recover", "stopped"}, pc'[c] \notin {"recover", "stopped"},
         frame'[c].return_to = "idle"
  PROVE  CoreInv'
<1>1. c \in Threads /\ c # Monitor /\ ConfigsKept
  BY ThreadFacts DEF StepOf
<1>2. \A t \in Threads, i \in DOMAIN tasks' : Handles(t, i)' <=> Handles(t, i)
  BY DEF Handles, StepOf
<1>3. \A i \in DOMAIN tasks' : ScansLocked(i)' <=> ScansLocked(i)
  BY <1>1, ThreadFacts DEF ScansLocked, StepOf
<1>4. MutexSound'
  BY <1>1, <1>2, <1>3, MutexesKept
<1>5. ErrorSound(c)'
  BY <1>1 DEF ErrorSound
<1>6. ErrorsSound'
  BY <1>1, <1>5, OtherErrorSound, ThreadFacts DEF ErrorsSound
<1> QED BY <1>4, <1>6, OtherScanSound DEF CoreInv

\* A call of an application thread goes on at another place, or returns.
Moves(c) ==
    /\ pc' = [pc EXCEPT ![c] = pc'[c]] /\ frame' = [frame EXCEPT ![c] = frame'[c]]
    /\ pc'[c] \in CallLabels \cup {"handle"}
    /\ frame'[c] \in [name : Names \cup {""}, slot : Nat, return_to : {"idle"}]
    /\ UNCHANGED <<monitor_mutex, index, observed, free>> /\ calls' \in 0..MaxCalls

LEMMA MovesPlacesOK ==
  ASSUME PlacesOK, NEW c \in Callers, Moves(c) PROVE PlacesOK'
<1>1. c \in Threads /\ c # Monitor /\ Monitor \in Threads
  BY ThreadFacts
<1>2. pc'[Monitor] = pc[Monitor] /\ \A d \in Callers : d # c => pc'[d] = pc[d]
  BY <1>1, ThreadFacts DEF PlacesOK, Moves
<1>3. pc'[c] \in Labels
  <2>1. pc'[c] \in CallLabels \cup {"handle"}
    BY Zenon DEF Moves
  <2> QED BY <2>1 DEF Labels, ErrorLabels
<1>4. pc' \in [Threads -> Labels]
  BY <1>1, <1>3 DEF PlacesOK, Moves
<1>5. frame' \in [Threads -> [name : Names \cup {""}, slot : Nat,
                              return_to : {"idle", "runtime", "stack", "peak"}]]
  <2>1. frame'[c] \in [name : Names \cup {""}, slot : Nat,
                        return_to : {"idle", "runtime", "stack", "peak"}]
    BY DEF Moves
  <2> QED BY <1>1, <2>1 DEF PlacesOK, Moves
<1>6. \A d \in Callers : pc'[d] \in CallLabels \cup ErrorLabels
  BY <1>2 DEF PlacesOK, Moves, ErrorLabels
<1> QED BY <1>2, <1>4, <1>5, <1>6 DEF PlacesOK, Moves

LEMMA MovesKeeps ==
  ASSUME CoreInv, NEW c \in Callers, pc[c] \notin {"recover", "stopped"}, Moves(c),
         TableOK', ConfigsKept, OwnersKept
  PROVE  CoreInv'
<1>1. DataOK'
  BY MovesPlacesOK DEF DataOK, CoreInv
<1>2. StepOf(c)
  BY DEF StepOf, Moves, CoreInv, DataOK, PlacesOK
<1>3. pc'[c] \notin {"recover", "stopped"} /\ frame'[c].return_to = "idle"
  BY DEF Moves, CallLabels
<1> QED BY <1>1, <1>2, <1>3, CallerKeeps

LEMMA TableKept ==
  ASSUME TableOK, UNCHANGED tasks PROVE TableOK' /\ ConfigsKept /\ OwnersKept
<1>1. ConfigsKept /\ DOMAIN tasks' = DOMAIN tasks
  BY TableUnchanged DEF TableOK
<1> QED BY <1>1 DEF TableOK, OwnersKept

LEMMA CallsCounted ==
  ASSUME calls \in 0..MaxCalls, NEW c, calls' = calls \/ Begins(c)
  PROVE  calls' \in 0..MaxCalls
  BY TasksAssumption DEF Begins

\* A call that only moves: the table is left alone.
LEMMA OnlyMoves ==
  ASSUME CoreInv, NEW c \in Callers, pc[c] \notin {"recover", "stopped"},
         NEW label \in CallLabels \cup {"handle"}, Goto(c, label),
         NEW f \in [name : Names \cup {""}, slot : Nat, return_to : {"idle"}],
         frame' = [frame EXCEPT ![c] = f],
         UNCHANGED <<tasks, monitor_mutex, index, observed, free>>,
         calls' = calls \/ Begins(c)
  PROVE  CoreInv'
<1>1. PlacesOK /\ TableOK /\ c \in Threads
  BY ThreadFacts DEF CoreInv, DataOK
<1>2. calls' \in 0..MaxCalls
  BY <1>1, CallsCounted DEF PlacesOK
<1>3. pc'[c] = label /\ frame'[c] = f
  BY <1>1 DEF PlacesOK, Goto
<1>4. Moves(c)
  BY <1>2, <1>3, Zenon DEF Moves, Goto
<1>5. TableOK' /\ ConfigsKept /\ OwnersKept
  BY <1>1, TableKept
<1> QED BY <1>4, <1>5, MovesKeeps

\* A call that writes under no stats_mutex keeps the mutexes' fields.
LEMMA OwnersKeptByWrite ==
  ASSUME TableOK, NEW i \in DOMAIN tasks, NEW task \in Tasks,
         task.config = tasks[i].config, task.stack_usage_peak = 0,
         task.owner = tasks[i].owner, task.depth = tasks[i].depth,
         tasks' = [tasks EXCEPT ![i] = task]
  PROVE  TableOK' /\ ConfigsKept /\ OwnersKept
<1>1. /\ ConfigsKept /\ DOMAIN tasks' = DOMAIN tasks /\ tasks'[i] = task
      /\ \A j \in DOMAIN tasks : j # i => tasks'[j] = tasks[j]
  BY TaskWritten DEF TableOK
<1> QED BY <1>1 DEF TableOK, OwnersKept, ConfigsKept

LEMMA TaskFacts ==
  ASSUME TableOK, NEW i \in DOMAIN tasks
  PROVE  tasks[i] \in Tasks /\ tasks[i].stack_usage_peak = 0
  BY SeqFacts DEF TableOK

\* The statistics of a task as they are cleared.
Cleared(task) ==
    [task EXCEPT !.missed = 0, !.running = TRUE, !.checkpoint = "recent",
                 !.state = "READY", !.stack_overflow = FALSE, !.stack_usage_peak = 0]

LEMMA ClearedTask ==
  ASSUME NEW task \in Tasks
  PROVE  /\ Cleared(task) \in Tasks
         /\ Cleared(task).owner = task.owner /\ Cleared(task).depth = task.depth
         /\ Cleared(task).config = task.config /\ Cleared(task).missed = 0
         /\ Cleared(task).stack_overflow = FALSE
         /\ Cleared(task).stack_usage_peak = 0 /\ Cleared(task).state = "READY"
<1>1. 0 \in 0..(MaxMissedDeadlines + 1)
  BY TasksAssumption
<1> QED BY <1>1 DEF Cleared, Tasks

LEMMA ResetWrites ==
  ASSUME TableOK, NEW c \in Callers, reset_task_monitoring(c), Lookup(frame[c].name) # 0
  PROVE  /\ Lookup(frame[c].name) \in DOMAIN tasks
         /\ tasks' = [tasks EXCEPT ![Lookup(frame[c].name)] =
                                      Cleared(tasks[Lookup(frame[c].name)])]
<1>0. PICK i : i = Lookup(frame[c].name)
  OBVIOUS
<1>1. i \in DOMAIN tasks
  BY <1>0, LookupFinds DEF TableOK
<1>2. tasks' = [tasks EXCEPT ![i].missed = 0, ![i].running = TRUE,
                          ![i].checkpoint = "recent", ![i].state = "READY",
                          ![i].stack_overflow = FALSE, ![i].stack_usage_peak = 0]
  BY <1>0 DEF reset_task_monitoring
<1>3. tasks[i] \in Tasks
  BY <1>1, TaskFacts
<1>4. tasks' = [tasks EXCEPT ![i] = Cleared(tasks[i])]
  BY <1>1, <1>2, <1>3 DEF Cleared, Tasks
<1> QED BY <1>0, <1>1, <1>4

LEMMA CallKeepsCore ==
  ASSUME CoreInv, NEW c \in Callers, Call(c) PROVE CoreInv'
<1>1. pc[c] = "idle" /\ frame[c].return_to = "idle"
  BY ThreadFacts DEF Call, BeginRegister, ReportError, verify_redundant_task_output,
     BeginInterference, BeginReset, recover_task_error, Begins, CoreInv, ErrorsSound, ErrorSound
<1>2. frame[c] \in [name : Names \cup {""}, slot : Nat, return_to : {"idle"}]
  BY <1>1, ThreadFacts DEF CoreInv, DataOK, PlacesOK
<1>3. ASSUME NEW name \in Names
      PROVE  [frame[c] EXCEPT !.name = name] \in
                [name : Names \cup {""}, slot : Nat, return_to : {"idle"}]
  BY <1>2
<1>4. ASSUME NEW name \in Names, NEW label \in CallLabels \cup {"handle"},
             Goto(c, label), frame' = [frame EXCEPT ![c].name = name],
             UNCHANGED <<tasks, monitor_mutex, index, observed, free>>,
             calls' = calls \/ Begins(c)
      PROVE  CoreInv'
  <2>1. frame' = [frame EXCEPT ![c] = [frame[c] EXCEPT !.name = name]]
    BY <1>4
  <2> QED BY <1>1, <1>3, <1>4, <2>1, OnlyMoves
<1>5. ASSUME NEW config \in Configs, BeginRegister(c, config) PROVE CoreInv'
  <2>1. config.name \in Names
    BY DEF Names
  <2> QED BY <1>4, <1>5, <2>1 DEF BeginRegister, CallLabels
<1>6. ASSUME NEW name \in Names, ReportError(c, name) \/ verify_redundant_task_output(c, name)
      PROVE  CoreInv'
  <2>1. /\ Begins(c) /\ CallHandleTaskError(c, name, "idle")
        /\ UNCHANGED <<tasks, monitor_mutex, index, observed, free>>
    BY <1>6 DEF ReportError, verify_redundant_task_output
  <2>2. [name |-> name, return_to |-> "idle", slot |-> 0]
           \in [name : Names \cup {""}, slot : Nat, return_to : {"idle"}]
    OBVIOUS
  <2> QED BY <1>1, <2>1, <2>2, OnlyMoves DEF CallHandleTaskError
<1>7. ASSUME NEW name \in Names, BeginInterference(c, name) \/ BeginReset(c, name)
      PROVE  CoreInv'
  BY <1>4, <1>7 DEF BeginInterference, BeginReset, CallLabels
<1>8. ASSUME NEW name \in Names, recover_task_error(c, name) PROVE CoreInv'
  <2>1. PICK i \in DOMAIN tasks : tasks' = [tasks EXCEPT ![i] = Recovered(tasks[i])]
    BY <1>8, LookupFinds DEF recover_task_error, CoreInv, DataOK, TableOK
  <2>2. TableOK' /\ ConfigsKept /\ OwnersKept
    <3>1. TableOK /\ tasks[i] \in Tasks /\ tasks[i].stack_usage_peak = 0
      BY TaskFacts DEF CoreInv, DataOK
    <3>2. PICK new \in Tasks :
             /\ tasks' = [tasks EXCEPT ![i] = new]
             /\ new.owner = tasks[i].owner /\ new.depth = tasks[i].depth
             /\ new.config = tasks[i].config /\ new.stack_usage_peak = 0
      BY <2>1, <3>1, RecoveredTask
    <3> QED BY <3>1, <3>2, OwnersKeptByWrite
  <2>3. PlacesOK' /\ UNCHANGED <<pc, frame, index>>
    BY <1>8 DEF recover_task_error, CoreInv, DataOK, PlacesOK
  <2>4. StepOf(c)
    BY <2>2, <2>3 DEF StepOf
  <2> QED BY <1>1, <2>2, <2>3, <2>4, CallerKeeps DEF DataOK
<1> QED BY <1>5, <1>6, <1>7, <1>8 DEF Call

LEMMA CallerStepKeepsCore ==
  ASSUME CoreInv, NEW c \in Callers, CallerStep(c) PROVE CoreInv'
<1>0. /\ TableOK /\ PlacesOK /\ c \in Threads
      /\ pc[c] \in {"register", "interference", "reset"}
  BY ThreadFacts DEF CallerStep, register_monitored_task, monitor_task_interference,
     reset_task_monitoring, CoreInv, DataOK
<1>1. NoFrame \in [name : Names \cup {""}, slot : Nat, return_to : {"idle"}]
  BY DEF NoFrame
<1>2. frame[c].return_to = "idle"
  BY <1>0 DEF CoreInv, ErrorsSound, ErrorSound
<1>3. Return(c) /\ UNCHANGED <<monitor_mutex, index, observed, free, calls>>
  BY DEF CallerStep, register_monitored_task, monitor_task_interference,
     reset_task_monitoring
<1>4. Moves(c)
  <2>1. Goto(c, "idle") /\ frame' = [frame EXCEPT ![c] = NoFrame]
    BY <1>2, <1>3 DEF Return
  <2>2. pc'[c] = "idle" /\ frame'[c] = NoFrame
    BY <1>0, <2>1 DEF PlacesOK, Goto
  <2>3. calls' \in 0..MaxCalls
    BY <1>0, <1>3 DEF PlacesOK
  <2>4. "idle" \in CallLabels
    BY DEF CallLabels
  <2> QED BY <1>1, <1>3, <2>1, <2>2, <2>3, <2>4, Zenon DEF Moves, Goto
<1>5. TableOK' /\ ConfigsKept /\ OwnersKept
  <2>1. CASE UNCHANGED tasks
    BY <1>0, <2>1, TableKept
  <2>2. CASE register_monitored_task(c)
    <3>1. PICK config \in Configs : tasks' = Append(tasks, NewTask(config))
      BY <2>2 DEF register_monitored_task
    <3>2. PICK new \in Tasks : /\ tasks' = Append(tasks, new)
                               /\ new.owner = NoThread /\ new.depth = 0
                               /\ new.stack_usage_peak = 0
      BY <3>1, NewTaskOK
    <3>3. /\ ConfigsKept
          /\ \A j \in DOMAIN tasks : tasks'[j] = tasks[j]
          /\ \A j \in DOMAIN tasks' \ DOMAIN tasks : tasks'[j] = new
      BY <1>0, <3>2, TaskAdded DEF TableOK
    <3>4. OwnersKept
      BY <3>2, <3>3, Zenon DEF OwnersKept
    <3>5. \A j \in DOMAIN tasks' : tasks'[j].stack_usage_peak = 0
      BY <1>0, <3>2, <3>3 DEF TableOK
    <3> QED BY <3>3, <3>4, <3>5 DEF TableOK, ConfigsKept
  <2>3. CASE reset_task_monitoring(c) /\ Lookup(frame[c].name) # 0
    <3>1. PICK i \in DOMAIN tasks : tasks' = [tasks EXCEPT ![i] = Cleared(tasks[i])]
      BY <1>0, <2>3, ResetWrites
    <3>2. tasks[i] \in Tasks
      BY <1>0, TaskFacts
    <3>3. PICK new \in Tasks :
             /\ tasks' = [tasks EXCEPT ![i] = new]
             /\ new.owner = tasks[i].owner /\ new.depth = tasks[i].depth
             /\ new.config = tasks[i].config /\ new.stack_usage_peak = 0
      BY <3>1, <3>2, ClearedTask
    <3> QED BY <1>0, <3>1, <3>3, OwnersKeptByWrite
  <2> QED BY <2>1, <2>2, <2>3 DEF CallerStep, reset_task_monitoring, monitor_task_interference
<1> QED BY <1>0, <1>4, <1>5, MovesKeeps

-----------------------------------------------------------------------------
(* handle_task_error, for any thread.                                       *)

LEMMA MarkKeepsCore ==
  ASSUME CoreInv, NEW t \in Threads, MarkTaskError(t) PROVE CoreInv'
<1>0. TableOK /\ PlacesOK /\ MutexSound /\ ErrorsSound /\ ScanSound
  BY DEF CoreInv, DataOK
<1>1. PICK j : j = Lookup(frame[t].name)
  OBVIOUS
<1>2. /\ pc[t] = "handle" /\ j # 0 /\ CanLock(j, t)
      /\ tasks' = [tasks EXCEPT ![j] = Marked(tasks[j], t)]
      /\ frame' = [frame EXCEPT ![t].slot = j]
      /\ Goto(t, IF Stops(tasks[j]) THEN "stopped" ELSE "recover")
      /\ UNCHANGED <<monitor_mutex, index, observed, free, calls>>
  BY <1>1 DEF MarkTaskError
<1>3. j \in DOMAIN tasks /\ tasks[j].config.name = frame[t].name
  BY <1>0, <1>1, <1>2, LookupFinds DEF TableOK
<1>4. /\ \A i \in DOMAIN tasks : ~Handles(t, i)
      /\ tasks[j].owner = NoThread \/ (tasks[j].owner = t /\ t = Monitor /\ ScansLocked(j))
  BY <1>0, <1>2, <1>3 DEF Handles, CanLock, MutexSound
<1>5. tasks[j].depth \in 0..1
  BY <1>0, <1>3, <1>4, ThreadFacts DEF MutexSound
<1>6. PICK new \in Tasks :
         /\ tasks' = [tasks EXCEPT ![j] = new]
         /\ new.owner = t /\ new.depth = tasks[j].depth + 1
         /\ new.config = tasks[j].config /\ new.stack_usage_peak = 0
  <2>1. tasks[j] \in Tasks /\ tasks[j].stack_usage_peak = 0
    BY <1>0, <1>3, TaskFacts
  <2>2. /\ Marked(tasks[j], t) \in Tasks /\ Marked(tasks[j], t).owner = t
        /\ Marked(tasks[j], t).depth = tasks[j].depth + 1
        /\ Marked(tasks[j], t).config = tasks[j].config
        /\ Marked(tasks[j], t).stack_usage_peak = 0
    BY <1>5, <2>1, LockedTask
  <2> QED BY <1>2, <2>2
<1>7. /\ ConfigsKept /\ DOMAIN tasks' = DOMAIN tasks /\ tasks'[j] = new
      /\ \A i \in DOMAIN tasks : i # j => tasks'[i] = tasks[i]
  BY <1>0, <1>3, <1>6, TaskWritten DEF TableOK
<1>8. TableOK'
  BY <1>0, <1>6, <1>7 DEF TableOK, ConfigsKept
<1>9. /\ pc'[t] = IF Stops(tasks[j]) THEN "stopped" ELSE "recover"
      /\ frame'[t] = [frame[t] EXCEPT !.slot = j] /\ j \in Nat
      /\ \A u \in Threads : u # t => pc'[u] = pc[u] /\ frame'[u] = frame[u]
  BY <1>0, <1>2, <1>3, SeqFacts DEF Goto, PlacesOK, TableOK
<1>10. frame'[t].slot = j /\ frame'[t].name = frame[t].name
       /\ frame'[t].return_to = frame[t].return_to
  <2>1. frame[t] \in [name : Names \cup {""}, slot : Nat,
                      return_to : {"idle", "runtime", "stack", "peak"}]
    BY <1>0 DEF PlacesOK
  <2> QED BY <1>9, <2>1, SlotPut
<1>11. StepOf(t)
  BY <1>2, <1>7, <1>9 DEF StepOf
<1>12. PlacesOK'
  <2>1. pc'[t] \in ErrorLabels \cap Labels
    BY <1>9 DEF ErrorLabels, Labels
  <2>2. pc' \in [Threads -> Labels]
    <3> DEFINE l == IF Stops(tasks[j]) THEN "stopped" ELSE "recover"
    <3>1. pc \in [Threads -> Labels] /\ pc' = [pc EXCEPT ![t] = l]
      BY <1>0, <1>2 DEF PlacesOK, Goto
    <3>2. l \in Labels
      BY DEF Labels, ErrorLabels
    <3> HIDE DEF l
    <3> QED BY <3>1, <3>2
  <2>3. frame' \in [Threads -> [name : Names \cup {""}, slot : Nat,
                                return_to : {"idle", "runtime", "stack", "peak"}]]
    <3> DEFINE F == [name : Names \cup {""}, slot : Nat,
                     return_to : {"idle", "runtime", "stack", "peak"}]
    <3>1. frame \in [Threads -> F]
      BY <1>0 DEF PlacesOK
    <3>2. frame' = [frame EXCEPT ![t] = [frame[t] EXCEPT !.slot = j]]
      BY <1>2
    <3>3. [frame[t] EXCEPT !.slot = j] \in F
      <4>1. frame[t] \in F
        BY <3>1
      <4> QED BY <1>9, <4>1
    <3> HIDE DEF F
    <3>4. frame' \in [Threads -> F]
      BY <3>1, <3>2, <3>3
    <3> QED BY <3>4 DEF F
  <2>4. /\ pc'[Monitor] \in ScanLabels \cup ErrorLabels
        /\ \A c \in Callers : pc'[c] \in CallLabels \cup ErrorLabels
    <3>1. /\ pc[Monitor] \in ScanLabels \cup ErrorLabels
          /\ \A c \in Callers : pc[c] \in CallLabels \cup ErrorLabels
      BY <1>0 DEF PlacesOK
    <3>2. pc'[t] \in ErrorLabels /\ \A u \in Threads : u # t => pc'[u] = pc[u]
      BY <1>9, <2>1
    <3> QED BY <3>1, <3>2, ThreadFacts, Zenon
  <2>5. monitor_mutex' = Monitor <=> pc'[Monitor] # "scan"
    BY <1>0, <1>2, <1>9, ThreadFacts DEF PlacesOK
  <2> QED BY <1>0, <1>2, <2>2, <2>3, <2>4, <2>5 DEF PlacesOK
<1>13. \A i \in DOMAIN tasks : ScansLocked(i)' <=> ScansLocked(i)
  <2>1. CASE t # Monitor
    BY <1>2, <1>9, <2>1, ThreadFacts DEF ScansLocked
  <2>2. CASE t = Monitor
    BY <1>2, <1>9, <1>10, <2>2 DEF ScansLocked, ErrorLabels
  <2> QED BY <2>1, <2>2
<1>14. \A u \in Threads : \A i \in DOMAIN tasks :
          Handles(u, i)' <=> Handles(u, i) \/ (u = t /\ i = j)
  BY <1>4, <1>9, <1>10 DEF Handles
<1>15. MutexSound'
  <2>1. ASSUME NEW i \in DOMAIN tasks, i # j
        PROVE  /\ tasks'[i].owner \in Threads \cup {NoThread}
               /\ \A u \in Threads : tasks'[i].owner = u <=>
                     Handles(u, i)' \/ (u = Monitor /\ ScansLocked(i)')
               /\ tasks'[i].depth =
                     IF tasks'[i].owner = NoThread THEN 0
                     ELSE IF Handles(Monitor, i)' /\ ScansLocked(i)' THEN 2 ELSE 1
    BY <1>0, <1>7, <1>13, <1>14, <2>1, ThreadFacts DEF MutexSound
  <2>2. /\ \A u \in Threads : t = u <=>
                     Handles(u, j)' \/ (u = Monitor /\ ScansLocked(j)')
        /\ new.depth = IF Handles(Monitor, j)' /\ ScansLocked(j)' THEN 2 ELSE 1
    BY <1>0, <1>3, <1>4, <1>6, <1>13, <1>14, ThreadFacts DEF MutexSound
  <2> QED BY <1>6, <1>7, <2>1, <2>2, ThreadFacts DEF MutexSound
<1>16. ErrorSound(t)'
  <2>1. Lookup(frame[t].name)' = j
    BY <1>0, <1>1, <1>2, <1>7, <1>10, LookupKept DEF TableOK
  <2>2. Stops(tasks[j]) => tasks'[j].config.critical
    BY <1>6, <1>7 DEF Stops
  <2>3. t \in Callers => frame'[t].return_to = "idle"
    BY <1>0, <1>10 DEF ErrorsSound, ErrorSound
  <2> QED BY <1>2, <1>9, <1>10, <2>1, <2>2, <2>3 DEF ErrorSound
<1>17. ErrorsSound'
  BY <1>11, <1>16, OtherErrorSound DEF ErrorsSound
<1>18. ScanSound'
  <2>1. CASE t # Monitor
    BY <1>11, <2>1, OtherScanSound, ThreadFacts
  <2>2. CASE t = Monitor
    <3>1. HandlesScanned /\ index \in DOMAIN tasks
      BY <1>0, <1>2, <2>2 DEF HandlesScanned, ScanSound
    <3>2. tasks'[index].config = tasks[index].config
      BY <1>7, <3>1 DEF ConfigsKept
    <3>3. pc'[Monitor] \notin ScanLabels
      BY <1>9, <2>2 DEF ScanLabels
    <3> QED BY <1>0, <1>2, <1>7, <1>10, <2>2, <3>1, <3>2, <3>3 DEF ScanSound
  <2> QED BY <2>1, <2>2
<1> QED BY <1>8, <1>12, <1>15, <1>17, <1>18 DEF CoreInv, DataOK

\* Where the handling of an error returns to.
ReturnLabels == {"idle", "runtime", "stack", "peak"}

LEMMA ReturnPlacesOK ==
  ASSUME PlacesOK, ErrorsSound, ScanSound, NEW t \in Threads, pc[t] \in {"handle", "recover"},
         Return(t), UNCHANGED <<monitor_mutex, index, observed, free, calls>>
  PROVE  /\ PlacesOK'
         /\ pc'[t] = frame[t].return_to /\ frame'[t] = NoFrame
         /\ \A u \in Threads : u # t => pc'[u] = pc[u] /\ frame'[u] = frame[u]
         /\ pc'[t] \in ReturnLabels
         /\ t = Monitor => pc'[t] # "idle"
         /\ t \in Callers => pc'[t] = "idle"
<1>1. /\ pc'[t] = frame[t].return_to /\ frame'[t] = NoFrame
      /\ \A u \in Threads : u # t => pc'[u] = pc[u] /\ frame'[u] = frame[u]
  BY DEF PlacesOK, Return, Goto
<1>2. frame[t].return_to \in ReturnLabels
  BY DEF PlacesOK, ReturnLabels
<1>3. t = Monitor => pc'[t] # "idle"
  BY <1>1 DEF ScanSound, HandlesScanned
<1>4. t \in Callers => pc'[t] = "idle"
  BY <1>1 DEF ErrorsSound, ErrorSound
<1>5. pc' \in [Threads -> Labels]
  BY <1>2 DEF PlacesOK, Return, Goto, Labels, ReturnLabels, ScanLabels, CallLabels
<1>6. frame' \in [Threads -> [name : Names \cup {""}, slot : Nat,
                              return_to : {"idle", "runtime", "stack", "peak"}]]
  BY DEF PlacesOK, Return, NoFrame
<1>7. /\ pc'[Monitor] \in ScanLabels \cup ErrorLabels
      /\ \A c \in Callers : pc'[c] \in CallLabels \cup ErrorLabels
  <2>1. CASE t = Monitor
    BY <1>1, <1>2, <1>3, <2>1, ThreadFacts DEF PlacesOK, ReturnLabels, ScanLabels
  <2>2. CASE t \in Callers
    BY <1>1, <1>4, <2>2, ThreadFacts DEF PlacesOK, CallLabels
  <2> QED BY <2>1, <2>2, ThreadFacts
<1>8. monitor_mutex' = Monitor <=> pc'[Monitor] # "scan"
  BY <1>1, <1>2, ThreadFacts DEF PlacesOK, ReturnLabels
<1>9. PlacesOK'
  BY <1>5, <1>6, <1>7, <1>8 DEF PlacesOK
<1> QED BY <1>1, <1>2, <1>3, <1>4, <1>9

LEMMA ReturnSound ==
  ASSUME CoreInv, NEW t \in Threads, pc[t] \in {"handle", "recover"}, ConfigsKept,
         Return(t), UNCHANGED <<monitor_mutex, index, observed, free, calls>>
  PROVE  ErrorsSound' /\ ScanSound'
<1>1. PlacesOK /\ ErrorsSound /\ ScanSound /\ TableOK
  BY DEF CoreInv, DataOK
<1>2. /\ pc'[t] = frame[t].return_to /\ frame'[t] = NoFrame
      /\ \A u \in Threads : u # t => pc'[u] = pc[u] /\ frame'[u] = frame[u]
      /\ pc'[t] \in ReturnLabels
      /\ t = Monitor => pc'[t] # "idle"
  BY <1>1, ReturnPlacesOK
<1>3. StepOf(t)
  BY <1>2 DEF StepOf
<1>4. ErrorSound(t)'
  <2>1. pc'[t] \notin {"recover", "stopped"}
    BY <1>2 DEF ReturnLabels
  <2>2. frame'[t].return_to = "idle"
    BY <1>2, NoFrameFields, Zenon
  <2> QED BY <2>1, <2>2, Zenon DEF ErrorSound
<1>5. ErrorsSound'
  BY <1>3, <1>4, OtherErrorSound DEF ErrorsSound
<1>6. ScanSound'
  <2>1. CASE t # Monitor
    BY <1>3, <2>1, OtherScanSound, ThreadFacts
  <2>2. CASE t = Monitor
    <3>1. index \in DOMAIN tasks /\ DOMAIN tasks \subseteq DOMAIN tasks'
      BY <1>1, <2>2, LookupKept DEF ScanSound, TableOK
    <3>2. ~HandlesScanned'
      BY <1>2, <2>2 DEF HandlesScanned, ReturnLabels
    <3> QED BY <1>2, <2>2, <3>1, <3>2 DEF ScanSound
  <2> QED BY <2>1, <2>2
<1> QED BY <1>5, <1>6

LEMMA UnknownKeepsCore ==
  ASSUME CoreInv, NEW t \in Threads, UnknownTask(t) PROVE CoreInv'
<1>0. TableOK /\ PlacesOK /\ MutexSound /\ ErrorsSound /\ ScanSound
  BY DEF CoreInv, DataOK
<1>1. /\ pc[t] = "handle" /\ Lookup(frame[t].name) = 0 /\ Return(t)
      /\ UNCHANGED <<tasks, monitor_mutex, index, observed, free, calls>>
  BY DEF UnknownTask
<1>2. t # Monitor
  <2>1. SUFFICES ASSUME t = Monitor PROVE FALSE
    OBVIOUS
  <2>2. index \in DOMAIN tasks /\ frame[t].name = tasks[index].config.name
    BY <1>0, <1>1, <2>1 DEF ScanSound, HandlesScanned
  <2>3. Named(frame[t].name) # {}
    BY <2>2 DEF Named
  <2> QED BY <1>0, <1>1, <2>3, LookupFinds DEF TableOK
<1>3. /\ PlacesOK' /\ pc'[t] = "idle"
      /\ \A u \in Threads : u # t => pc'[u] = pc[u] /\ frame'[u] = frame[u]
  BY <1>0, <1>1, <1>2, ReturnPlacesOK, ThreadFacts
<1>4. TableOK' /\ ConfigsKept /\ OwnersKept
  BY <1>0, <1>1, TableKept
<1>5. ErrorsSound' /\ ScanSound'
  BY <1>1, <1>4, ReturnSound
<1>6. \A u \in Threads, i \in DOMAIN tasks' : Handles(u, i)' <=> Handles(u, i)
  BY <1>1, <1>3 DEF Handles
<1>7. \A i \in DOMAIN tasks' : ScansLocked(i)' <=> ScansLocked(i)
  BY <1>1, <1>2, <1>3, ThreadFacts DEF ScansLocked
<1>8. MutexSound'
  BY <1>4, <1>6, <1>7, MutexesKept
<1> QED BY <1>3, <1>4, <1>5, <1>8 DEF CoreInv, DataOK

LEMMA RecoverKeepsCore ==
  ASSUME CoreInv, NEW t \in Threads, RecoverTask(t) PROVE CoreInv'
<1>0. TableOK /\ PlacesOK /\ MutexSound /\ ErrorsSound /\ ScanSound /\ DataOK
  BY DEF CoreInv, DataOK
<1>1. PICK j : j = frame[t].slot
  OBVIOUS
<1>2. /\ pc[t] = "recover" /\ Return(t)
      /\ tasks' = [tasks EXCEPT ![j] = Handled(tasks[j])]
      /\ UNCHANGED <<monitor_mutex, index, observed, free, calls>>
  BY <1>1 DEF RecoverTask
<1>3. j # 0 /\ j \in DOMAIN tasks
  BY <1>0, <1>1, <1>2, SlotFound DEF ErrorsSound, ErrorSound
<1>4. Handles(t, j) /\ \A i : Handles(t, i) => i = j
  BY <1>1, <1>2 DEF Handles
<1>5. /\ tasks[j].owner = t
      /\ tasks[j].depth = IF Handles(Monitor, j) /\ ScansLocked(j) THEN 2 ELSE 1
  BY <1>0, <1>3, <1>4, ThreadFacts DEF MutexSound
<1>6. PICK new \in Tasks :
         /\ tasks' = [tasks EXCEPT ![j] = new]
         /\ new.owner = IF tasks[j].depth = 1 THEN NoThread ELSE t
         /\ new.depth = tasks[j].depth - 1
         /\ new.config = tasks[j].config /\ new.stack_usage_peak = 0
  <2>1. tasks[j] \in Tasks /\ tasks[j].stack_usage_peak = 0
    BY <1>0, <1>3, TaskFacts
  <2>2. tasks[j].depth \in 1..2
    BY <1>5
  <2>3. /\ Handled(tasks[j]) \in Tasks
        /\ Handled(tasks[j]).owner = IF tasks[j].depth = 1 THEN NoThread ELSE t
        /\ Handled(tasks[j]).depth = tasks[j].depth - 1
        /\ Handled(tasks[j]).config = tasks[j].config
        /\ Handled(tasks[j]).stack_usage_peak = 0
    BY <1>5, <2>1, <2>2, HandledTask
  <2> QED BY <1>2, <2>3
<1>7. /\ ConfigsKept /\ DOMAIN tasks' = DOMAIN tasks /\ tasks'[j] = new
      /\ \A i \in DOMAIN tasks : i # j => tasks'[i] = tasks[i]
  BY <1>0, <1>3, <1>6, TaskWritten DEF TableOK
<1>8. TableOK'
  BY <1>0, <1>6, <1>7 DEF TableOK, ConfigsKept
<1>9. /\ PlacesOK' /\ pc'[t] = frame[t].return_to /\ frame'[t] = NoFrame
      /\ \A u \in Threads : u # t => pc'[u] = pc[u] /\ frame'[u] = frame[u]
      /\ pc'[t] \in ReturnLabels
  BY <1>0, <1>2, ReturnPlacesOK
<1>10. ErrorsSound' /\ ScanSound'
  BY <1>2, <1>7, ReturnSound
<1>11. \A i \in DOMAIN tasks : ScansLocked(i)' <=> ScansLocked(i)
  <2>1. CASE t # Monitor
    BY <1>2, <1>9, <2>1, ThreadFacts DEF ScansLocked
  <2>2. CASE t = Monitor
    BY <1>2, <1>9, <2>2 DEF ScansLocked, ErrorLabels, ReturnLabels
  <2> QED BY <2>1, <2>2
<1>12. \A u \in Threads : \A i \in DOMAIN tasks :
          Handles(u, i)' <=> Handles(u, i) /\ u # t
  BY <1>9 DEF Handles, ReturnLabels
<1>13. MutexSound'
  <2>1. ASSUME NEW i \in DOMAIN tasks, i # j
        PROVE  /\ tasks'[i].owner \in Threads \cup {NoThread}
               /\ \A u \in Threads : tasks'[i].owner = u <=>
                     Handles(u, i)' \/ (u = Monitor /\ ScansLocked(i)')
               /\ tasks'[i].depth =
                     IF tasks'[i].owner = NoThread THEN 0
                     ELSE IF Handles(Monitor, i)' /\ ScansLocked(i)' THEN 2 ELSE 1
    BY <1>0, <1>4, <1>7, <1>11, <1>12, <2>1, ThreadFacts DEF MutexSound
  <2>2. \A u \in Threads : Handles(u, j) \/ (u = Monitor /\ ScansLocked(j)) => u = t
    BY <1>0, <1>3, <1>5 DEF MutexSound
  <2>3. \A u \in Threads : ~Handles(u, j)'
    BY <1>3, <1>12, <2>2
  <2>4. CASE ScansLocked(j)
    <3>1. t = Monitor /\ tasks[j].depth = 2
      BY <1>4, <1>5, <2>2, <2>4, ThreadFacts
    <3>2. new.owner = Monitor /\ new.depth = 1 /\ ScansLocked(j)'
      BY <1>3, <1>6, <1>11, <2>4, <3>1
    <3> QED BY <1>7, <2>1, <2>3, <3>2, ThreadFacts DEF MutexSound
  <2>5. CASE ~ScansLocked(j)
    <3>1. new.owner = NoThread /\ new.depth = 0 /\ ~ScansLocked(j)'
      BY <1>3, <1>5, <1>6, <1>11, <2>5
    <3> QED BY <1>7, <2>1, <2>3, <3>1, ThreadFacts DEF MutexSound
  <2> QED BY <2>4, <2>5
<1> QED BY <1>8, <1>9, <1>10, <1>13 DEF CoreInv, DataOK

-----------------------------------------------------------------------------
(* The scan.                                                                *)

\* A step of the scan that leads to label, with tasks and frame as given.
LEMMA ScanPlacesOK ==
  ASSUME PlacesOK, NEW label \in (ScanLabels \ {"scan"}) \cup ErrorLabels,
         Goto(Monitor, label), monitor_mutex' = Monitor,
         \/ UNCHANGED frame
         \/ \E name \in Names, r \in ReturnLabels : CallHandleTaskError(Monitor, name, r),
         index' \in Nat \ {0}, observed' \in 0..(MaxMissedDeadlines + 1),
         free' \in {0} \cup FreeStack, UNCHANGED calls
  PROVE  /\ PlacesOK' /\ pc'[Monitor] = label
         /\ \A t \in Threads : t # Monitor => pc'[t] = pc[t] /\ frame'[t] = frame[t]
<1>1. label \in Labels /\ label # "scan"
  BY DEF Labels, ErrorLabels
<1>2. pc' \in [Threads -> Labels] /\ pc'[Monitor] = label
  BY <1>1, ThreadFacts DEF PlacesOK, Goto
<1>3. \A t \in Threads : t # Monitor => pc'[t] = pc[t] /\ frame'[t] = frame[t]
  BY ThreadFacts DEF PlacesOK, Goto, CallHandleTaskError
<1>4. frame' \in [Threads -> [name : Names \cup {""}, slot : Nat,
                              return_to : {"idle", "runtime", "stack", "peak"}]]
  <2>1. CASE UNCHANGED frame
    BY <2>1 DEF PlacesOK
  <2>2. ASSUME NEW name \in Names, NEW r \in ReturnLabels,
               CallHandleTaskError(Monitor, name, r)
        PROVE  frame' \in [Threads -> [name : Names \cup {""}, slot : Nat,
                                        return_to : {"idle", "runtime", "stack", "peak"}]]
    <3>1. [name |-> name, return_to |-> r, slot |-> 0] \in
             [name : Names \cup {""}, slot : Nat,
              return_to : {"idle", "runtime", "stack", "peak"}]
      BY DEF ReturnLabels
    <3> QED BY <2>2, <3>1, ThreadFacts DEF PlacesOK, CallHandleTaskError
  <2> QED BY <2>1, <2>2
<1>5. \A c \in Callers : pc'[c] \in CallLabels \cup ErrorLabels
  BY <1>3, ThreadFacts DEF PlacesOK
<1> QED BY <1>1, <1>2, <1>3, <1>4, <1>5, ThreadFacts DEF PlacesOK

\* A step of the scan that takes and gives no stats_mutex.
LEMMA ScanKeeps ==
  ASSUME CoreInv, StepOf(Monitor), OwnersKept, DataOK',
         pc[Monitor] \in ScanLabels, \A i \in DOMAIN tasks' : ~Handles(Monitor, i)',
         \A i \in DOMAIN tasks' : ScansLocked(i)' <=> ScansLocked(i),
         ErrorSound(Monitor)', ScanSound'
  PROVE  CoreInv'
<1>1. ConfigsKept
  BY DEF StepOf
<1>2. \A i \in DOMAIN tasks' : ~Handles(Monitor, i)
  BY DEF Handles, ScanLabels
<1>3. \A t \in Threads : t # Monitor => pc'[t] = pc[t] /\ frame'[t] = frame[t]
  BY DEF StepOf
<1>4. \A t \in Threads, i \in DOMAIN tasks' : Handles(t, i)' <=> Handles(t, i)
  <2>1. ASSUME NEW t \in Threads, NEW i \in DOMAIN tasks', t # Monitor
        PROVE  Handles(t, i)' <=> Handles(t, i)
    BY <1>3, <2>1 DEF Handles
  <2> QED BY <1>2, <2>1
<1>5. MutexSound'
  BY <1>1, <1>4, MutexesKept
<1>6. ErrorsSound'
  BY OtherErrorSound, ThreadFacts DEF ErrorsSound
<1> QED BY <1>5, <1>6 DEF CoreInv

\* Reading current_time changes what the scan sees of a task, nothing else.
LEMMA StartScanWrites ==
  ASSUME TableOK, StartScan
  PROVE  /\ ConfigsKept /\ DOMAIN tasks' = DOMAIN tasks
         /\ \A i \in DOMAIN tasks :
               /\ tasks'[i].owner = tasks[i].owner /\ tasks'[i].depth = tasks[i].depth
               /\ tasks'[i].missed = tasks[i].missed /\ tasks'[i].state = tasks[i].state
               /\ tasks'[i].stack_overflow = tasks[i].stack_overflow
               /\ tasks'[i].stack_usage_peak = 0
<1> DEFINE new(i) == IF tasks[i].checkpoint = "ahead"
                     THEN [tasks[i] EXCEPT !.checkpoint = "recent"] ELSE tasks[i]
<1>1. \A i \in DOMAIN tasks : tasks[i] \in Tasks /\ tasks[i].stack_usage_peak = 0
  BY TaskFacts
<1>2. \A i \in DOMAIN tasks :
          /\ new(i) \in Tasks
          /\ new(i).config = tasks[i].config /\ new(i).owner = tasks[i].owner
          /\ new(i).depth = tasks[i].depth /\ new(i).missed = tasks[i].missed
          /\ new(i).state = tasks[i].state
          /\ new(i).stack_overflow = tasks[i].stack_overflow
          /\ new(i).stack_usage_peak = 0
  BY <1>1 DEF Tasks
<1>3. tasks' = [i \in DOMAIN tasks |-> new(i)]
  BY DEF StartScan
<1> HIDE DEF new
<1>4. DOMAIN tasks = 1 .. Len(tasks) /\ Len(tasks) \in Nat
  BY SeqFacts DEF TableOK
<1>5. tasks' \in [1 .. Len(tasks) -> Tasks]
  BY <1>2, <1>3, <1>4
<1>6. tasks' \in Seq(Tasks) /\ Len(tasks') = Len(tasks) /\ Len(tasks) <= Len(tasks')
  BY <1>4, <1>5
<1> QED BY <1>2, <1>3, <1>6 DEF ConfigsKept

LEMMA StartScanKeepsCore == ASSUME CoreInv, StartScan PROVE CoreInv'
<1>0. TableOK /\ PlacesOK /\ ScanSound /\ ErrorsSound
  BY DEF CoreInv, DataOK
<1>2. TableOK' /\ ConfigsKept /\ OwnersKept
  BY <1>0, StartScanWrites DEF TableOK, ConfigsKept, OwnersKept
<1>3. /\ PlacesOK' /\ pc'[Monitor] = "deadline"
      /\ \A t \in Threads : t # Monitor => pc'[t] = pc[t] /\ frame'[t] = frame[t]
  <2>1. "deadline" \in (ScanLabels \ {"scan"}) \cup ErrorLabels
    BY DEF ScanLabels
  <2> QED BY <1>0, <2>1, ScanPlacesOK DEF StartScan, PlacesOK
<1>4. StepOf(Monitor)
  BY <1>2, <1>3 DEF StepOf
<1>5. frame'[Monitor] = NoFrame /\ pc[Monitor] \in ScanLabels
  BY <1>0 DEF StartScan, ScanSound, ScanLabels
<1>6. /\ \A i \in DOMAIN tasks' : ~Handles(Monitor, i)'
      /\ \A i \in DOMAIN tasks' : ScansLocked(i)' <=> ScansLocked(i)
  BY <1>3 DEF StartScan, Handles, ScansLocked, ErrorLabels
<1>7. ErrorSound(Monitor)'
  BY <1>3, <1>5, ThreadFacts DEF ErrorSound, NoFrame
<1>8. ScanSound'
  BY <1>3, <1>5 DEF ScanSound, HandlesScanned
<1> QED BY <1>2, <1>3, <1>4, <1>5, <1>6, <1>7, <1>8, ScanKeeps DEF DataOK

LEMMA EndScanKeepsCore == ASSUME CoreInv, EndScan PROVE CoreInv'
<1>0. TableOK /\ PlacesOK /\ ScanSound
  BY DEF CoreInv, DataOK
<1>1. TableOK' /\ ConfigsKept /\ OwnersKept
  BY <1>0, TableKept DEF EndScan
<1>2. /\ pc'[Monitor] = "scan" /\ pc' \in [Threads -> Labels]
      /\ \A t \in Threads : t # Monitor => pc'[t] = pc[t] /\ frame'[t] = frame[t]
  BY <1>0, ThreadFacts DEF EndScan, Goto, PlacesOK, Labels, ScanLabels
<1>3. PlacesOK'
  <2>1. \A c \in Callers : pc'[c] \in CallLabels \cup ErrorLabels
    BY <1>0, <1>2, ThreadFacts DEF PlacesOK
  <2>2. pc'[Monitor] \in ScanLabels \cup ErrorLabels
    BY <1>2 DEF ScanLabels
  <2>3. monitor_mutex' = NoThread /\ monitor_mutex' # Monitor /\ index' \in Nat \ {0}
    BY ThreadFacts DEF EndScan
  <2> QED BY <1>0, <1>2, <2>1, <2>2, <2>3 DEF EndScan, PlacesOK
<1>4. StepOf(Monitor)
  BY <1>1, <1>2 DEF StepOf
<1>5. frame'[Monitor] = NoFrame /\ pc[Monitor] \in ScanLabels
  BY <1>0 DEF EndScan, ScanSound, ScanLabels
<1>6. /\ \A i \in DOMAIN tasks' : ~Handles(Monitor, i)'
      /\ \A i \in DOMAIN tasks' : ScansLocked(i)' <=> ScansLocked(i)
  BY <1>2 DEF EndScan, Handles, ScansLocked, ErrorLabels
<1>7. ErrorSound(Monitor)'
  BY <1>2, <1>5, ThreadFacts DEF ErrorSound
<1>8. ScanSound'
  BY <1>2, <1>5 DEF ScanSound, HandlesScanned
<1> QED BY <1>1, <1>3, <1>4, <1>5, <1>6, <1>7, <1>8, ScanKeeps DEF DataOK

\* The scan goes on to label, or stops, between two uses of a stats_mutex.
LEMMA ScanGoesOn ==
  ASSUME CoreInv, NEW from \in {"deadline", "escalate", "runtime"}, pc[Monitor] = from,
         NEW label \in {"miss", "runtime", "stack", "stopped"}, Goto(Monitor, label),
         label = "stopped" => tasks[index].config.critical, index \in DOMAIN tasks,
         UNCHANGED <<tasks, monitor_mutex, frame, index, observed, free, calls>>
  PROVE  CoreInv'
<1>0. TableOK /\ PlacesOK /\ ScanSound
  BY DEF CoreInv, DataOK
<1>1. /\ TableOK' /\ ConfigsKept /\ OwnersKept
  BY <1>0, TableKept
<1>2. frame'[Monitor] = NoFrame /\ pc[Monitor] \in ScanLabels /\ frame'[Monitor].slot = 0
  BY <1>0, NoFrameFields DEF ScanSound, ScanLabels
<1>3. /\ PlacesOK' /\ pc'[Monitor] = label
      /\ \A t \in Threads : t # Monitor => pc'[t] = pc[t] /\ frame'[t] = frame[t]
  <2>1. label \in (ScanLabels \ {"scan"}) \cup ErrorLabels
    BY DEF ScanLabels, ErrorLabels
  <2>2. monitor_mutex' = Monitor
    BY <1>0 DEF PlacesOK
  <2> QED BY <1>0, <2>1, <2>2, ScanPlacesOK DEF PlacesOK
<1>4. StepOf(Monitor)
  BY <1>1, <1>3 DEF StepOf
<1>5. \A i \in DOMAIN tasks' : ~Handles(Monitor, i)'
  <2>1. \A i \in DOMAIN tasks' : i # 0
    BY <1>0, SeqFacts DEF TableOK
  <2> QED BY <1>2, <2>1 DEF Handles
<1>6. \A i \in DOMAIN tasks' : ScansLocked(i)' <=> ScansLocked(i)
  BY <1>2, <1>3, NoFrameFields DEF ScansLocked, ErrorLabels
<1>7. ErrorSound(Monitor)'
  BY <1>2, <1>3, ThreadFacts DEF ErrorSound
<1>8. ScanSound'
  BY <1>2, <1>3 DEF ScanSound, HandlesScanned
<1> QED BY <1>1, <1>2, <1>3, <1>4, <1>5, <1>6, <1>7, <1>8, ScanKeeps DEF DataOK

\* The scan handles an error of the task it is at.
LEMMA ScanHandles ==
  ASSUME CoreInv, NEW from \in {"escalate", "runtime"}, pc[Monitor] = from,
         NEW r \in {"runtime", "stack"},
         CallHandleTaskError(Monitor, tasks[index].config.name, r),
         UNCHANGED <<tasks, monitor_mutex, index, observed, free, calls>>
  PROVE  CoreInv'
<1>0. TableOK /\ PlacesOK /\ ScanSound /\ index \in DOMAIN tasks
  BY DEF CoreInv, DataOK, ScanSound
<1>1. /\ TableOK' /\ ConfigsKept /\ OwnersKept
  BY <1>0, TableKept
<1>2. pc[Monitor] \in ScanLabels
  BY DEF ScanLabels
<1>3. PICK name \in Names : name = tasks[index].config.name
  <2>1. tasks[index].config \in Configs
    BY <1>0, TaskFacts DEF Tasks
  <2> QED BY <2>1 DEF Names
<1>4. /\ PlacesOK' /\ pc'[Monitor] = "handle"
      /\ \A t \in Threads : t # Monitor => pc'[t] = pc[t] /\ frame'[t] = frame[t]
  <2>1. "handle" \in (ScanLabels \ {"scan"}) \cup ErrorLabels /\ r \in ReturnLabels
    BY DEF ErrorLabels, ReturnLabels
  <2>2. monitor_mutex' = Monitor
    BY <1>0 DEF PlacesOK
  <2>3. Goto(Monitor, "handle") /\ CallHandleTaskError(Monitor, name, r)
    BY <1>3 DEF CallHandleTaskError
  <2> QED BY <1>0, <2>1, <2>2, <2>3, ScanPlacesOK DEF PlacesOK
<1>5. StepOf(Monitor)
  BY <1>1, <1>4 DEF StepOf
<1>6. /\ frame'[Monitor].name = tasks[index].config.name
      /\ frame'[Monitor].return_to = r /\ frame'[Monitor].slot = 0
  BY <1>0, ThreadFacts DEF PlacesOK, CallHandleTaskError
<1>7. \A i \in DOMAIN tasks' : ~Handles(Monitor, i)'
  BY <1>4 DEF Handles
<1>8. \A i \in DOMAIN tasks' : ScansLocked(i)' <=> ScansLocked(i)
  BY <1>4, <1>6 DEF ScansLocked, ErrorLabels
<1>9. ErrorSound(Monitor)'
  BY <1>4, <1>6, ThreadFacts DEF ErrorSound
<1>10. ScanSound'
  BY <1>0, <1>4, <1>6 DEF ScanSound, HandlesScanned, ScanLabels
<1> QED BY <1>1, <1>2, <1>4, <1>5, <1>7, <1>8, <1>9, <1>10, ScanKeeps DEF DataOK

LEMMA ChecksKeepCore ==
  ASSUME CoreInv, CheckDeadline \/ Escalate \/ CheckRuntime PROVE CoreInv'
<1>0. TableOK /\ PlacesOK /\ ScanSound
  BY DEF CoreInv, DataOK
<1>1. CASE CheckDeadline
  <2>1. index \in DOMAIN tasks
    <3>1. DOMAIN tasks = 1 .. Len(tasks) /\ Len(tasks) \in Nat
      BY <1>0, SeqFacts DEF TableOK
    <3>2. index \in Nat \ {0} /\ index <= Len(tasks)
      BY <1>0, <1>1 DEF CheckDeadline, PlacesOK
    <3> QED BY <3>1, <3>2
  <2> QED BY <1>1, <2>1, ScanGoesOn DEF CheckDeadline
<1>2. CASE Escalate
  <2>1. index \in DOMAIN tasks
    BY <1>0, <1>2 DEF Escalate, ScanSound
  <2>2. CASE CallHandleTaskError(Monitor, tasks[index].config.name, "runtime")
    BY <1>2, <2>2, ScanHandles DEF Escalate
  <2>3. CASE UNCHANGED frame /\ \/ Goto(Monitor, "runtime")
                                \/ Goto(Monitor, "stopped") /\ Stops(tasks[index])
    BY <1>2, <2>1, <2>3, ScanGoesOn DEF Escalate, Stops
  <2> QED BY <1>2, <2>2, <2>3 DEF Escalate
<1>3. CASE CheckRuntime
  <2>1. index \in DOMAIN tasks
    BY <1>0, <1>3 DEF CheckRuntime, ScanSound
  <2>2. CASE CallHandleTaskError(Monitor, tasks[index].config.name, "stack")
    BY <1>3, <2>2, ScanHandles DEF CheckRuntime
  <2>3. CASE UNCHANGED frame /\ Goto(Monitor, "stack")
    BY <1>3, <2>1, <2>3, ScanGoesOn DEF CheckRuntime
  <2> QED BY <1>3, <2>2, <2>3 DEF CheckRuntime
<1> QED BY <1>1, <1>2, <1>3

\* The scan writes the task it is at: from outside its stats_mutex it takes it,
\* from inside it releases it.
LEMMA ScanWrites ==
  ASSUME CoreInv, index \in DOMAIN tasks, NEW new \in Tasks,
         tasks' = [tasks EXCEPT ![index] = new],
         new.config = tasks[index].config, new.stack_usage_peak = 0
  PROVE  /\ TableOK' /\ ConfigsKept /\ DOMAIN tasks' = DOMAIN tasks
         /\ tasks'[index] = new
         /\ \A i \in DOMAIN tasks : i # index => tasks'[i] = tasks[i]
<1>1. TableOK
  BY DEF CoreInv, DataOK
<1>2. /\ ConfigsKept /\ DOMAIN tasks' = DOMAIN tasks /\ tasks'[index] = new
      /\ \A i \in DOMAIN tasks : i # index => tasks'[i] = tasks[i]
  BY <1>1, TaskWritten DEF TableOK
<1> QED BY <1>1, <1>2 DEF TableOK, ConfigsKept

LEMMA ScanMutexes ==
  ASSUME CoreInv, NEW j \in DOMAIN tasks, DOMAIN tasks' = DOMAIN tasks,
         pc[Monitor] \in ScanLabels, \A i \in DOMAIN tasks : ~Handles(Monitor, i)',
         \A t \in Threads : t # Monitor => pc'[t] = pc[t] /\ frame'[t] = frame[t],
         \A i \in DOMAIN tasks : i # j =>
            tasks'[i] = tasks[i] /\ (ScansLocked(i)' <=> ScansLocked(i)),
         NEW own \in BOOLEAN, ScansLocked(j)' <=> own,
         \A t \in Threads : t # Monitor /\ own => ~Handles(t, j),
         tasks'[j].owner = IF own THEN Monitor ELSE
            IF ScansLocked(j) THEN NoThread ELSE tasks[j].owner,
         tasks'[j].depth = IF own THEN 1 ELSE
            IF ScansLocked(j) THEN 0 ELSE tasks[j].depth
  PROVE  MutexSound'
<1>0. MutexSound
  BY DEF CoreInv
<1>1. \A i \in DOMAIN tasks : ~Handles(Monitor, i)
  BY DEF Handles, ScanLabels
<1>2. \A t \in Threads : \A i \in DOMAIN tasks : Handles(t, i)' <=> Handles(t, i)
  <2>1. ASSUME NEW t \in Threads, NEW i \in DOMAIN tasks, t # Monitor
        PROVE  Handles(t, i)' <=> Handles(t, i)
    BY <2>1 DEF Handles
  <2> QED BY <1>1, <2>1
<1>3. ASSUME NEW i \in DOMAIN tasks, i # j
      PROVE  /\ tasks'[i].owner \in Threads \cup {NoThread}
             /\ \A u \in Threads : tasks'[i].owner = u <=>
                   Handles(u, i)' \/ (u = Monitor /\ ScansLocked(i)')
             /\ tasks'[i].depth =
                   IF tasks'[i].owner = NoThread THEN 0
                   ELSE IF Handles(Monitor, i)' /\ ScansLocked(i)' THEN 2 ELSE 1
  BY <1>0, <1>2, <1>3, ThreadFacts DEF MutexSound
<1>4. /\ tasks'[j].owner \in Threads \cup {NoThread}
      /\ \A u \in Threads : tasks'[j].owner = u <=>
            Handles(u, j) \/ (u = Monitor /\ ScansLocked(j)')
      /\ tasks'[j].depth =
            IF tasks'[j].owner = NoThread THEN 0
            ELSE IF Handles(Monitor, j) /\ ScansLocked(j)' THEN 2 ELSE 1
  <2>0. ~Handles(Monitor, j)
    BY <1>1
  <2>1. CASE own
    <3>1. tasks'[j].owner = Monitor /\ tasks'[j].depth = 1 /\ ScansLocked(j)'
      BY <2>1
    <3>2. \A u \in Threads : Monitor = u <=> Handles(u, j) \/ u = Monitor
      BY <2>1, Zenon
    <3> QED BY <2>0, <3>1, <3>2, ThreadFacts
  <2>2. CASE ~own /\ ScansLocked(j)
    <3>1. /\ tasks'[j].owner = NoThread /\ tasks'[j].depth = 0
          /\ ~ScansLocked(j)'
      BY <2>2
    <3>2. tasks[j].owner = Monitor
      BY <1>0, <2>2, ThreadFacts DEF MutexSound
    <3>3. \A u \in Threads : ~Handles(u, j)
      BY <1>0, <2>0, <3>2 DEF MutexSound
    <3> QED BY <3>1, <3>3, ThreadFacts
  <2>3. CASE ~own /\ ~ScansLocked(j)
    BY <1>0, <2>0, <2>3, ThreadFacts DEF MutexSound
  <2> QED BY <2>1, <2>2, <2>3
<1>5. ASSUME NEW i \in DOMAIN tasks'
      PROVE  /\ tasks'[i].owner \in Threads \cup {NoThread}
             /\ \A u \in Threads : tasks'[i].owner = u <=>
                   Handles(u, i)' \/ (u = Monitor /\ ScansLocked(i)')
             /\ tasks'[i].depth =
                   IF tasks'[i].owner = NoThread THEN 0
                   ELSE IF Handles(Monitor, i)' /\ ScansLocked(i)' THEN 2 ELSE 1
  <2>1. CASE i = j
    <3>1. \A u \in Threads : Handles(u, i)' <=> Handles(u, j)
      <4>1. \A u \in Threads : Handles(u, i)' <=> Handles(u, i)
        BY <1>2, Zenon
      <4> QED BY <2>1, <4>1, Zenon
    <3> QED BY <1>4, <2>1, <3>1, ThreadFacts
  <2>2. CASE i # j
    BY <1>3, <2>2
  <2> QED BY <2>1, <2>2
<1> QED BY <1>5 DEF MutexSound

\* Who can hold the mutex of the task that is scanned.
LEMMA ScanOwner ==
  ASSUME CoreInv, NEW j \in DOMAIN tasks, pc[Monitor] \in ScanLabels
  PROVE  /\ ScansLocked(j) => tasks[j].owner = Monitor /\ tasks[j].depth = 1
         /\ CanLock(j, Monitor) /\ ~ScansLocked(j) => tasks[j].depth = 0
         /\ CanLock(j, Monitor) => \A t \in Threads : t # Monitor => ~Handles(t, j)
         /\ ScansLocked(j) => \A t \in Threads : t # Monitor => ~Handles(t, j)
<1>0. MutexSound
  BY DEF CoreInv
<1>1. ~Handles(Monitor, j)
  BY DEF Handles, ScanLabels
<1>2. ScansLocked(j) => tasks[j].owner = Monitor /\ tasks[j].depth = 1
  BY <1>0, <1>1, ThreadFacts DEF MutexSound
<1>3. CanLock(j, Monitor) /\ ~ScansLocked(j) => tasks[j].depth = 0
  BY <1>0, <1>1, ThreadFacts DEF MutexSound, CanLock
<1>4. ASSUME tasks[j].owner \in {NoThread, Monitor}, NEW t \in Threads, t # Monitor
      PROVE  ~Handles(t, j)
  BY <1>0, <1>4, ThreadFacts DEF MutexSound
<1> QED BY <1>2, <1>3, <1>4 DEF CanLock

LEMMA ReadMissedKeepsCore == ASSUME CoreInv, ReadMissed PROVE CoreInv'
<1>0. /\ TableOK /\ PlacesOK /\ ScanSound /\ pc[Monitor] \in ScanLabels
      /\ frame[Monitor] = NoFrame
  BY DEF CoreInv, DataOK, ReadMissed, ScanSound, ScanLabels
<1>1. PICK j \in DOMAIN tasks : j = index
  BY <1>0 DEF ReadMissed, ScanSound
<1>2. /\ pc[Monitor] = "miss" /\ CanLock(j, Monitor) /\ Goto(Monitor, "count")
      /\ tasks' = [tasks EXCEPT ![j] = Locked(tasks[j], Monitor)]
      /\ observed' = tasks[j].missed
      /\ UNCHANGED <<monitor_mutex, frame, index, free, calls>>
  BY <1>1 DEF ReadMissed
<1>3. tasks[j] \in Tasks /\ tasks[j].stack_usage_peak = 0
  BY <1>0, TaskFacts
<1>4. ~ScansLocked(j) /\ tasks[j].depth = 0 /\ tasks[j].depth \in 0..1
  BY <1>0, <1>2, ScanOwner DEF ScansLocked, ErrorLabels
<1>5. PICK new \in Tasks :
         /\ tasks' = [tasks EXCEPT ![j] = new]
         /\ new.owner = Monitor /\ new.depth = 1
         /\ new.config = tasks[j].config /\ new.stack_usage_peak = 0
  <2>1. /\ Locked(tasks[j], Monitor) \in Tasks
        /\ Locked(tasks[j], Monitor).owner = Monitor /\ Locked(tasks[j], Monitor).depth = 1
        /\ Locked(tasks[j], Monitor).config = tasks[j].config
        /\ Locked(tasks[j], Monitor).stack_usage_peak = 0
    BY <1>3, <1>4, LockedTask, ThreadFacts
  <2> QED BY <1>2, <2>1
<1>6. /\ TableOK' /\ ConfigsKept /\ DOMAIN tasks' = DOMAIN tasks
      /\ tasks'[j] = new
      /\ \A i \in DOMAIN tasks : i # j => tasks'[i] = tasks[i]
  BY <1>1, <1>5, ScanWrites
<1>7. /\ PlacesOK' /\ pc'[Monitor] = "count"
      /\ \A t \in Threads : t # Monitor => pc'[t] = pc[t] /\ frame'[t] = frame[t]
  <2>1. "count" \in (ScanLabels \ {"scan"}) \cup ErrorLabels
    BY DEF ScanLabels
  <2>2. observed' \in 0..(MaxMissedDeadlines + 1)
    BY <1>2, <1>3 DEF Tasks
  <2> QED BY <1>0, <1>2, <2>1, <2>2, ScanPlacesOK DEF PlacesOK
<1>8. StepOf(Monitor)
  BY <1>6, <1>7 DEF StepOf
<1>9. /\ \A i \in DOMAIN tasks : ~Handles(Monitor, i)'
      /\ \A i \in DOMAIN tasks : ScansLocked(i)' <=> i = j
      /\ \A i \in DOMAIN tasks : ~ScansLocked(i)
  BY <1>1, <1>2, <1>7 DEF Handles, ScansLocked, ErrorLabels
<1>10. \A t \in Threads : t # Monitor => ~Handles(t, j)
  BY <1>0, <1>2, ScanOwner
<1>11. MutexSound'
  <2>1. ScansLocked(j)' <=> TRUE
    BY <1>9
  <2> QED BY <1>0, <1>5, <1>6, <1>7, <1>9, <1>10, <2>1, ScanMutexes
<1>12. ErrorSound(Monitor)'
  BY <1>7, ThreadFacts DEF ErrorSound
<1>13. ErrorsSound'
  BY <1>8, <1>12, OtherErrorSound, ThreadFacts DEF ErrorsSound
<1>14. ScanSound'
  BY <1>0, <1>1, <1>2, <1>6, <1>7 DEF ScanSound, HandlesScanned
<1> QED BY <1>6, <1>7, <1>11, <1>13, <1>14 DEF CoreInv, DataOK

OverflowFound(task, t) == [Locked(task, t) EXCEPT !.stack_overflow = TRUE]

LEMMA OverflowTask ==
  ASSUME NEW task \in Tasks, task.depth = 0, NEW t \in Threads
  PROVE  /\ OverflowFound(task, t) \in Tasks
         /\ OverflowFound(task, t).owner = t /\ OverflowFound(task, t).depth = 1
         /\ OverflowFound(task, t).config = task.config
         /\ OverflowFound(task, t).missed = task.missed
         /\ OverflowFound(task, t).stack_usage_peak = task.stack_usage_peak
         /\ OverflowFound(task, t).state = task.state
<1>1. PICK l \in Tasks :
         /\ l = Locked(task, t) /\ l.owner = t /\ l.depth = 1 /\ l.config = task.config
         /\ l.missed = task.missed /\ l.stack_usage_peak = task.stack_usage_peak
         /\ l.state = task.state
  <2>1. task.depth \in 0..1 /\ task.depth + 1 = 1
    OBVIOUS
  <2> QED BY <2>1, LockedTask
<1>2. OverflowFound(task, t) = [l EXCEPT !.stack_overflow = TRUE]
  BY <1>1 DEF OverflowFound
<1> QED BY <1>1, <1>2 DEF Tasks

\* The stack is found large enough, or the scan handles the overflow.
StackChecked(j) ==
    \/ /\ CallHandleTaskError(Monitor, tasks[j].config.name, "peak")
       /\ tasks' = [tasks EXCEPT ![j] = OverflowFound(tasks[j], Monitor)]
    \/ /\ Goto(Monitor, "peak") /\ UNCHANGED frame
       /\ tasks' = [tasks EXCEPT ![j] = Locked(tasks[j], Monitor)]

LEMMA CheckStackKeepsCore == ASSUME CoreInv, CheckStack PROVE CoreInv'
<1>0. /\ TableOK /\ PlacesOK /\ ScanSound /\ pc[Monitor] \in ScanLabels
      /\ frame[Monitor] = NoFrame
  BY DEF CoreInv, DataOK, CheckStack, ScanSound, ScanLabels
<1>1. PICK j \in DOMAIN tasks : j = index
  BY <1>0 DEF CheckStack, ScanSound
<1>2. /\ pc[Monitor] = "stack" /\ CanLock(j, Monitor) /\ StackChecked(j)
      /\ free' \in FreeStack /\ UNCHANGED <<monitor_mutex, index, observed, calls>>
  BY <1>1 DEF CheckStack, StackChecked, OverflowFound
<1>3. tasks[j] \in Tasks /\ tasks[j].stack_usage_peak = 0
  BY <1>0, TaskFacts
<1>4. ~ScansLocked(j) /\ tasks[j].depth = 0 /\ tasks[j].depth \in 0..1
  BY <1>0, <1>2, ScanOwner DEF ScansLocked, ErrorLabels
<1>5. PICK new \in Tasks :
         /\ tasks' = [tasks EXCEPT ![j] = new]
         /\ new.owner = Monitor /\ new.depth = 1
         /\ new.config = tasks[j].config /\ new.stack_usage_peak = 0
  <2>1. /\ Locked(tasks[j], Monitor) \in Tasks
        /\ Locked(tasks[j], Monitor).owner = Monitor /\ Locked(tasks[j], Monitor).depth = 1
        /\ Locked(tasks[j], Monitor).config = tasks[j].config
        /\ Locked(tasks[j], Monitor).stack_usage_peak = 0
    BY <1>3, <1>4, LockedTask, ThreadFacts
  <2>2. PICK over : over = OverflowFound(tasks[j], Monitor)
    OBVIOUS
  <2>3. /\ over \in Tasks /\ over.owner = Monitor /\ over.depth = 1
        /\ over.config = tasks[j].config /\ over.stack_usage_peak = 0
    <3>1. Monitor \in Threads /\ tasks[j] \in Tasks /\ tasks[j].depth = 0
      BY <1>3, <1>4, ThreadFacts
    <3>2. /\ over \in Tasks /\ over.owner = Monitor /\ over.depth = 1
          /\ over.config = tasks[j].config
          /\ over.stack_usage_peak = tasks[j].stack_usage_peak
      BY <2>2, <3>1, OverflowTask, Zenon
    <3> QED BY <1>3, <3>2
  <2>4. \/ tasks' = [tasks EXCEPT ![j] = over]
        \/ tasks' = [tasks EXCEPT ![j] = Locked(tasks[j], Monitor)]
    BY <1>2, <2>2, Zenon DEF StackChecked
  <2> QED BY <2>1, <2>3, <2>4
<1>6. /\ TableOK' /\ ConfigsKept /\ DOMAIN tasks' = DOMAIN tasks
      /\ tasks'[j] = new
      /\ \A i \in DOMAIN tasks : i # j => tasks'[i] = tasks[i]
  BY <1>1, <1>5, ScanWrites
<1>7. PICK label \in {"handle", "peak"} :
         /\ Goto(Monitor, label)
         /\ label = "peak" => UNCHANGED frame
         /\ label = "handle" => CallHandleTaskError(Monitor, tasks[j].config.name, "peak")
  BY <1>2 DEF StackChecked, CallHandleTaskError
<1>8. /\ PlacesOK' /\ pc'[Monitor] = label
      /\ \A t \in Threads : t # Monitor => pc'[t] = pc[t] /\ frame'[t] = frame[t]
  <2>1. label \in (ScanLabels \ {"scan"}) \cup ErrorLabels /\ "peak" \in ReturnLabels
    BY DEF ScanLabels, ErrorLabels, ReturnLabels
  <2>2. tasks[j].config.name \in Names
    BY <1>3 DEF Tasks, Names
  <2>3. /\ monitor_mutex' = Monitor /\ index' \in Nat \ {0} /\ free' \in {0} \cup FreeStack
        /\ observed' \in 0..(MaxMissedDeadlines + 1)
    BY <1>0, <1>2 DEF PlacesOK
  <2>4. \/ UNCHANGED frame
        \/ \E name \in Names, r \in ReturnLabels : CallHandleTaskError(Monitor, name, r)
    BY <1>7, <2>1, <2>2
  <2> QED BY <1>0, <1>2, <1>7, <2>1, <2>3, <2>4, ScanPlacesOK
<1>9. ASSUME label = "handle"
      PROVE  /\ frame'[Monitor].return_to = "peak"
             /\ frame'[Monitor].name = tasks[j].config.name
  <2>1. frame' = [frame EXCEPT ![Monitor] =
                     [name |-> tasks[j].config.name, return_to |-> "peak", slot |-> 0]]
    BY <1>7, <1>9 DEF CallHandleTaskError
  <2>2. frame'[Monitor] = [name |-> tasks[j].config.name, return_to |-> "peak", slot |-> 0]
    BY <1>0, <2>1, ThreadFacts, Zenon DEF PlacesOK
  <2> QED BY <2>2
<1>10. StepOf(Monitor)
  BY <1>6, <1>8 DEF StepOf
<1>11. /\ \A i \in DOMAIN tasks : ~Handles(Monitor, i)'
       /\ \A i \in DOMAIN tasks : ScansLocked(i)' <=> i = j
       /\ \A i \in DOMAIN tasks : ~ScansLocked(i)
  BY <1>1, <1>2, <1>8, <1>9 DEF Handles, ScansLocked, ErrorLabels
<1>12. \A t \in Threads : t # Monitor => ~Handles(t, j)
  BY <1>0, <1>2, ScanOwner
<1>13. MutexSound'
  <2>1. ScansLocked(j)' <=> TRUE
    BY <1>11
  <2> QED BY <1>0, <1>5, <1>6, <1>8, <1>11, <1>12, <2>1, ScanMutexes
<1>14. ErrorSound(Monitor)'
  BY <1>8, ThreadFacts DEF ErrorSound
<1>15. ErrorsSound'
  BY <1>10, <1>14, OtherErrorSound, ThreadFacts DEF ErrorsSound
<1>16. ScanSound'
  <2>1. index' \in DOMAIN tasks' /\ tasks'[index'].config = tasks[j].config
    BY <1>1, <1>2, <1>5, <1>6
  <2>2. label = "peak" => frame'[Monitor] = NoFrame
    BY <1>0, <1>7
  <2> QED BY <1>8, <1>9, <2>1, <2>2 DEF ScanSound, HandlesScanned, ScanLabels
<1> QED BY <1>6, <1>8, <1>13, <1>15, <1>16 DEF CoreInv, DataOK

LEMMA WriteMissedKeepsCore == ASSUME CoreInv, WriteMissed PROVE CoreInv'
<1>0. /\ TableOK /\ PlacesOK /\ ScanSound /\ pc[Monitor] \in ScanLabels
      /\ frame[Monitor] = NoFrame /\ observed \in 0..(MaxMissedDeadlines + 1)
  BY DEF CoreInv, DataOK, PlacesOK, WriteMissed, ScanSound, ScanLabels
<1>1. PICK j \in DOMAIN tasks : j = index
  BY <1>0 DEF WriteMissed, ScanSound
<1>2. /\ pc[Monitor] = "count" /\ Goto(Monitor, "escalate")
      /\ tasks' = [tasks EXCEPT ![j] = MissCounted(tasks[j], observed)]
      /\ observed' = 0 /\ UNCHANGED <<monitor_mutex, frame, index, free, calls>>
  BY <1>1 DEF WriteMissed, MissCounted
<1>3. tasks[j] \in Tasks /\ tasks[j].stack_usage_peak = 0
  BY <1>0, TaskFacts
<1>4. ScansLocked(j) /\ tasks[j].depth = 1 /\ tasks[j].depth \in 1..2
  BY <1>0, <1>1, <1>2, ScanOwner DEF ScansLocked
<1>5. PICK new \in Tasks :
         /\ tasks' = [tasks EXCEPT ![j] = new]
         /\ new.owner = NoThread /\ new.depth = 0
         /\ new.config = tasks[j].config /\ new.stack_usage_peak = 0
  <2>1. PICK new : new = MissCounted(tasks[j], observed)
    OBVIOUS
  <2>2. /\ new \in Tasks
        /\ new.owner = IF tasks[j].depth = 1 THEN NoThread ELSE tasks[j].owner
        /\ new.depth = tasks[j].depth - 1 /\ new.config = tasks[j].config
        /\ new.stack_usage_peak = tasks[j].stack_usage_peak
    BY <1>0, <1>3, <1>4, <2>1, CountedTask, Zenon
  <2>3. new.owner = NoThread /\ new.depth = 0 /\ new.stack_usage_peak = 0
    BY <1>3, <1>4, <2>2
  <2> QED BY <1>2, <2>1, <2>2, <2>3, Zenon
<1>6. /\ TableOK' /\ ConfigsKept /\ DOMAIN tasks' = DOMAIN tasks
      /\ tasks'[j] = new
      /\ \A i \in DOMAIN tasks : i # j => tasks'[i] = tasks[i]
  BY <1>1, <1>5, ScanWrites
<1>7. /\ PlacesOK' /\ pc'[Monitor] = "escalate"
      /\ \A t \in Threads : t # Monitor => pc'[t] = pc[t] /\ frame'[t] = frame[t]
  <2>1. "escalate" \in (ScanLabels \ {"scan"}) \cup ErrorLabels
    BY DEF ScanLabels
  <2>2. observed' \in 0..(MaxMissedDeadlines + 1)
    BY <1>2, TasksAssumption
  <2> QED BY <1>0, <1>2, <2>1, <2>2, ScanPlacesOK DEF PlacesOK
<1>8. StepOf(Monitor)
  BY <1>6, <1>7 DEF StepOf
<1>9. /\ \A i \in DOMAIN tasks : ~Handles(Monitor, i)'
      /\ \A i \in DOMAIN tasks : ~ScansLocked(i)'
      /\ \A i \in DOMAIN tasks : ScansLocked(i) <=> i = j
  BY <1>1, <1>2, <1>7 DEF Handles, ScansLocked, ErrorLabels
<1>10. MutexSound'
  <2>1. ScansLocked(j)' <=> FALSE
    BY <1>9
  <2> QED BY <1>0, <1>5, <1>6, <1>7, <1>9, <2>1, ScanMutexes
<1>11. ErrorSound(Monitor)'
  BY <1>7, ThreadFacts DEF ErrorSound
<1>12. ErrorsSound'
  BY <1>8, <1>11, OtherErrorSound, ThreadFacts DEF ErrorsSound
<1>13. ScanSound'
  BY <1>0, <1>1, <1>2, <1>6, <1>7 DEF ScanSound, HandlesScanned
<1> QED BY <1>6, <1>7, <1>10, <1>12, <1>13 DEF CoreInv, DataOK

LEMMA RecordPeakKeepsCore == ASSUME CoreInv, RecordPeak PROVE CoreInv'
<1>0. /\ TableOK /\ PlacesOK /\ ScanSound /\ pc[Monitor] \in ScanLabels
      /\ frame[Monitor] = NoFrame /\ free \in {0} \cup FreeStack
  BY DEF CoreInv, DataOK, PlacesOK, RecordPeak, ScanSound, ScanLabels
<1>1. PICK j \in DOMAIN tasks : j = index
  BY <1>0 DEF RecordPeak, ScanSound
<1>2. /\ pc[Monitor] = "peak" /\ Goto(Monitor, "deadline") /\ index' = index + 1
      /\ tasks' = [tasks EXCEPT ![j] = PeakRecorded(tasks[j])]
      /\ free' = 0 /\ UNCHANGED <<monitor_mutex, frame, observed, calls>>
  BY <1>1 DEF RecordPeak
<1>3. tasks[j] \in Tasks /\ tasks[j].stack_usage_peak = 0
  BY <1>0, TaskFacts
<1>4. ScansLocked(j) /\ tasks[j].depth = 1 /\ tasks[j].depth \in 1..2
  BY <1>0, <1>1, <1>2, ScanOwner DEF ScansLocked
<1>5. PICK new \in Tasks :
         /\ tasks' = [tasks EXCEPT ![j] = new]
         /\ new.owner = NoThread /\ new.depth = 0
         /\ new.config = tasks[j].config /\ new.stack_usage_peak = 0
  <2>1. /\ PeakRecorded(tasks[j]) \in Tasks /\ PeakRecorded(tasks[j]).owner = NoThread
        /\ PeakRecorded(tasks[j]).depth = 0
        /\ PeakRecorded(tasks[j]).config = tasks[j].config
        /\ PeakRecorded(tasks[j]).stack_usage_peak = 0
    BY <1>0, <1>3, <1>4, PeakTask
  <2> QED BY <1>2, <2>1, Zenon
<1>6. /\ TableOK' /\ ConfigsKept /\ DOMAIN tasks' = DOMAIN tasks
      /\ tasks'[j] = new
      /\ \A i \in DOMAIN tasks : i # j => tasks'[i] = tasks[i]
  BY <1>1, <1>5, ScanWrites
<1>7. /\ PlacesOK' /\ pc'[Monitor] = "deadline"
      /\ \A t \in Threads : t # Monitor => pc'[t] = pc[t] /\ frame'[t] = frame[t]
  <2>1. "deadline" \in (ScanLabels \ {"scan"}) \cup ErrorLabels
    BY DEF ScanLabels
  <2>2. index' \in Nat \ {0}
    <3>1. index \in Nat \ {0}
      BY <1>0 DEF PlacesOK
    <3> QED BY <1>2, <3>1
  <2> QED BY <1>0, <1>2, <2>1, <2>2, ScanPlacesOK DEF PlacesOK
<1>8. StepOf(Monitor)
  BY <1>6, <1>7 DEF StepOf
<1>9. /\ \A i \in DOMAIN tasks : ~Handles(Monitor, i)'
      /\ \A i \in DOMAIN tasks : ~ScansLocked(i)'
      /\ \A i \in DOMAIN tasks : ScansLocked(i) <=> i = j
  BY <1>1, <1>2, <1>7 DEF Handles, ScansLocked, ErrorLabels
<1>10. MutexSound'
  <2>1. ScansLocked(j)' <=> FALSE
    BY <1>9
  <2> QED BY <1>0, <1>5, <1>6, <1>7, <1>9, <2>1, ScanMutexes
<1>11. ErrorSound(Monitor)'
  BY <1>7, ThreadFacts DEF ErrorSound
<1>12. ErrorsSound'
  BY <1>8, <1>11, OtherErrorSound, ThreadFacts DEF ErrorsSound
<1>13. ScanSound'
  BY <1>0, <1>2, <1>7 DEF ScanSound, HandlesScanned
<1> QED BY <1>6, <1>7, <1>10, <1>12, <1>13 DEF CoreInv, DataOK

-----------------------------------------------------------------------------
(* The steps of the tasks, and every step.                                  *)

\* What a task writes of itself is none of what the monitor writes.
LEMMA TaskStepWrites ==
  ASSUME TableOK, TaskStep
  PROVE  \E i \in DOMAIN tasks, new \in Tasks :
            /\ SetTask(i, new)
            /\ new.config = tasks[i].config /\ new.owner = tasks[i].owner
            /\ new.depth = tasks[i].depth /\ new.missed = tasks[i].missed
            /\ new.stack_overflow = tasks[i].stack_overflow
            /\ new.stack_usage_peak = 0 /\ new.state = tasks[i].state
<1>1. PICK i \in DOMAIN tasks :
         DeadlinePasses(i) \/ task_monitor_checkpoint(i) \/ ChangeExecution(i)
  BY DEF TaskStep
<1>2. tasks[i] \in Tasks /\ tasks[i].stack_usage_peak = 0
  BY TaskFacts
<1>3. \/ \E c \in {"recent", "late", "ahead"} :
            SetTask(i, [tasks[i] EXCEPT !.checkpoint = c])
      \/ SetTask(i, [tasks[i] EXCEPT !.running = ~tasks[i].running])
  BY <1>1 DEF DeadlinePasses, task_monitor_checkpoint, ChangeExecution
<1>4. ASSUME NEW c \in {"recent", "late", "ahead"}, NEW new,
             new = [tasks[i] EXCEPT !.checkpoint = c]
      PROVE  /\ new \in Tasks
             /\ new.config = tasks[i].config /\ new.owner = tasks[i].owner
             /\ new.depth = tasks[i].depth /\ new.missed = tasks[i].missed
             /\ new.stack_overflow = tasks[i].stack_overflow
             /\ new.stack_usage_peak = 0 /\ new.state = tasks[i].state
  BY <1>2, <1>4 DEF Tasks
<1>5. ASSUME NEW new, new = [tasks[i] EXCEPT !.running = ~tasks[i].running]
      PROVE  /\ new \in Tasks
             /\ new.config = tasks[i].config /\ new.owner = tasks[i].owner
             /\ new.depth = tasks[i].depth /\ new.missed = tasks[i].missed
             /\ new.stack_overflow = tasks[i].stack_overflow
             /\ new.stack_usage_peak = 0 /\ new.state = tasks[i].state
  BY <1>2, <1>5 DEF Tasks
<1> QED BY <1>3, <1>4, <1>5

LEMMA TaskStepKeepsCore == ASSUME CoreInv, TaskStep PROVE CoreInv'
<1>0. TableOK /\ PlacesOK
  BY DEF CoreInv, DataOK
<1>1. PICK i \in DOMAIN tasks, new \in Tasks :
            /\ SetTask(i, new)
            /\ new.config = tasks[i].config /\ new.owner = tasks[i].owner
            /\ new.depth = tasks[i].depth /\ new.stack_usage_peak = 0
  BY <1>0, TaskStepWrites
<1>2. TableOK' /\ ConfigsKept /\ OwnersKept
  BY <1>0, <1>1, OwnersKeptByWrite DEF SetTask
<1>3. UNCHANGED <<monitor_mutex, pc, frame, index, observed, free, calls>>
  BY <1>1 DEF SetTask
<1>4. PlacesOK'
  BY <1>0, <1>3 DEF PlacesOK
<1>5. MutexSound'
  <2>1. /\ \A t \in Threads, k \in DOMAIN tasks' : Handles(t, k)' <=> Handles(t, k)
        /\ \A k \in DOMAIN tasks' : ScansLocked(k)' <=> ScansLocked(k)
    BY <1>3 DEF Handles, ScansLocked
  <2> QED BY <1>2, <2>1, MutexesKept
<1>6. ErrorsSound'
  <2>1. ASSUME NEW t \in Threads PROVE ErrorSound(t)'
    BY <1>2, <1>3, ErrorSoundKept
  <2> QED BY <2>1 DEF ErrorsSound
<1>7. ScanSound'
  BY <1>2, <1>3, ScanSoundKept
<1> QED BY <1>2, <1>4, <1>5, <1>6, <1>7 DEF CoreInv, DataOK

LEMMA StutterKeepsCore == ASSUME CoreInv, UNCHANGED vars PROVE CoreInv'
<1>0. TableOK /\ PlacesOK
  BY DEF CoreInv, DataOK
<1>1. UNCHANGED <<tasks, monitor_mutex, pc, frame, index, observed, free, calls>>
  BY DEF vars
<1>2. TableOK' /\ ConfigsKept /\ OwnersKept
  BY <1>0, <1>1, TableKept
<1>3. PlacesOK'
  BY <1>0, <1>1 DEF PlacesOK
<1>4. MutexSound'
  <2>1. /\ \A t \in Threads, k \in DOMAIN tasks' : Handles(t, k)' <=> Handles(t, k)
        /\ \A k \in DOMAIN tasks' : ScansLocked(k)' <=> ScansLocked(k)
    BY <1>1 DEF Handles, ScansLocked
  <2> QED BY <1>2, <2>1, MutexesKept
<1>5. ErrorsSound'
  <2>1. ASSUME NEW t \in Threads PROVE ErrorSound(t)'
    BY <1>1, <1>2, ErrorSoundKept
  <2> QED BY <2>1 DEF ErrorsSound
<1>6. ScanSound'
  BY <1>1, <1>2, ScanSoundKept
<1> QED BY <1>2, <1>3, <1>4, <1>5, <1>6 DEF CoreInv, DataOK

LEMMA InitCore == Init => CoreInv
<1> SUFFICES ASSUME Init PROVE CoreInv
  OBVIOUS
<1>1. /\ tasks = <<>> /\ monitor_mutex = NoThread /\ index = 1 /\ observed = 0
      /\ free = 0 /\ calls = 0
  BY DEF Init
<1>2. /\ pc[Monitor] = "scan" /\ \A c \in Callers : pc[c] = "idle"
      /\ \A t \in Threads : frame[t] = NoFrame
  BY ThreadFacts DEF Init
<1>3. TableOK /\ DOMAIN tasks = {}
  BY <1>1 DEF TableOK
<1>4. PlacesOK
  <2>1. pc \in [Threads -> Labels]
    BY ThreadFacts DEF Init, Labels, ScanLabels, CallLabels
  <2>2. NoFrame \in [name : Names \cup {""}, slot : Nat,
                     return_to : {"idle", "runtime", "stack", "peak"}]
    BY DEF NoFrame
  <2>3. frame \in [Threads -> [name : Names \cup {""}, slot : Nat,
                              return_to : {"idle", "runtime", "stack", "peak"}]]
    BY <2>2 DEF Init
  <2>4. /\ pc[Monitor] \in ScanLabels \cup ErrorLabels
        /\ \A c \in Callers : pc[c] \in CallLabels \cup ErrorLabels
    BY <1>2 DEF ScanLabels, CallLabels
  <2>5. 0 \in 0..(MaxMissedDeadlines + 1) /\ 0 \in 0..MaxCalls
    BY TasksAssumption
  <2>6. monitor_mutex = Monitor <=> pc[Monitor] # "scan"
    BY <1>1, <1>2, ThreadFacts
  <2>7. /\ monitor_mutex \in Threads \cup {NoThread} /\ index \in Nat \ {0}
        /\ observed \in 0..(MaxMissedDeadlines + 1) /\ free \in {0} \cup FreeStack
        /\ calls \in 0..MaxCalls
    BY <1>1, <2>5
  <2> QED BY <2>1, <2>3, <2>4, <2>6, <2>7, Zenon DEF PlacesOK
<1>5. MutexSound
  BY <1>3 DEF MutexSound
<1>6. ErrorsSound
  <2>1. ASSUME NEW t \in Threads PROVE ErrorSound(t)
    BY <1>2, NoFrameFields, ThreadFacts DEF ErrorSound
  <2> QED BY <2>1 DEF ErrorsSound
<1>7. ScanSound
  BY <1>2, ThreadFacts DEF ScanSound, HandlesScanned
<1> QED BY <1>3, <1>4, <1>5, <1>6, <1>7 DEF CoreInv, DataOK

\* The disjuncts of Next, one by one.
LEMMA NextCases ==
  ASSUME Next
  PROVE  \/ StartScan \/ EndScan \/ CheckDeadline \/ Escalate \/ CheckRuntime
         \/ ReadMissed \/ WriteMissed \/ CheckStack \/ RecordPeak
         \/ \E t \in Threads : MarkTaskError(t) \/ RecoverTask(t) \/ UnknownTask(t)
         \/ \E c \in Callers : Call(c) \/ CallerStep(c)
         \/ TaskStep
  BY ThreadFacts DEF Next, MonitorStep, monitor_thread, CallerRuns, handle_task_error

LEMMA NextKeepsCore == ASSUME CoreInv, [Next]_vars PROVE CoreInv'
<1>1. CASE UNCHANGED vars
  BY <1>1, StutterKeepsCore
<1>2. CASE Next
  <2>1. CASE StartScan \/ EndScan \/ CheckDeadline \/ Escalate \/ CheckRuntime
    BY <2>1, StartScanKeepsCore, EndScanKeepsCore, ChecksKeepCore
  <2>2. CASE ReadMissed \/ WriteMissed \/ CheckStack \/ RecordPeak
    BY <2>2, ReadMissedKeepsCore, WriteMissedKeepsCore, CheckStackKeepsCore,
       RecordPeakKeepsCore
  <2>3. ASSUME NEW t \in Threads, MarkTaskError(t) \/ RecoverTask(t) \/ UnknownTask(t)
        PROVE  CoreInv'
    BY <2>3, MarkKeepsCore, RecoverKeepsCore, UnknownKeepsCore
  <2>4. ASSUME NEW c \in Callers, Call(c) \/ CallerStep(c) PROVE CoreInv'
    BY <2>4, CallKeepsCore, CallerStepKeepsCore
  <2>5. CASE TaskStep
    BY <2>5, TaskStepKeepsCore
  <2> QED BY <1>2, <2>1, <2>2, <2>3, <2>4, <2>5, NextCases
<1> QED BY <1>1, <1>2

LEMMA CoreIsInvariant == Spec => []CoreInv
<1>1. Init => CoreInv
  BY InitCore
<1>2. CoreInv /\ [Next]_vars => CoreInv'
  BY NextKeepsCore
<1> QED BY <1>1, <1>2, PTL DEF Spec

LEMMA CoreTypeOK == CoreInv => TypeOK
<1> SUFFICES ASSUME CoreInv PROVE TypeOK
  OBVIOUS
<1>1. TableOK /\ PlacesOK /\ MutexSound
  BY DEF CoreInv, DataOK
<1>2. \A i \in DOMAIN tasks : tasks[i].owner = NoThread <=> tasks[i].depth = 0
  BY <1>1 DEF MutexSound
<1>3. MutexesHeld
  BY <1>1 DEF MutexSound, MutexesHeld, PlacesOK
<1> QED BY <1>1, <1>2, <1>3 DEF TypeOK, TableOK, PlacesOK

\* Type correctness, and with it that each stats_mutex is held by the threads
\* between its lock and its unlock, and monitor_mutex by a scan under way.
THEOREM TaskMonitorTypeOK == Spec => []TypeOK
  BY CoreIsInvariant, CoreTypeOK, PTL

-----------------------------------------------------------------------------
(* What a step does to the misses, the overflows and the states of tasks.   *)

\* What is written into task i at most clears its misses, its overflow and an
\* error; seen says which of the three the step may raise.
OnlyClears(i, seen) ==
    /\ "missed" \in seen \/ tasks'[i].missed \in {tasks[i].missed, 0}
    /\ "overflow" \in seen \/ (tasks'[i].stack_overflow => tasks[i].stack_overflow)
    /\ "state" \in seen \/ (tasks'[i].state = "ERROR" => tasks[i].state = "ERROR")

Writes(seen) ==
    /\ ConfigsKept
    /\ \A i \in DOMAIN tasks : OnlyClears(i, seen)
    /\ \A i \in DOMAIN tasks' \ DOMAIN tasks :
          /\ tasks'[i].missed = 0 /\ ~tasks'[i].stack_overflow
          /\ tasks'[i].state # "ERROR"

LEMMA WritesOne ==
  ASSUME TableOK, NEW i \in DOMAIN tasks, NEW new \in Tasks,
         tasks' = [tasks EXCEPT ![i] = new], new.config = tasks[i].config, NEW seen,
         "missed" \in seen \/ new.missed \in {tasks[i].missed, 0},
         "overflow" \in seen \/ (new.stack_overflow => tasks[i].stack_overflow),
         "state" \in seen \/ (new.state = "ERROR" => tasks[i].state = "ERROR")
  PROVE  Writes(seen)
<1>1. /\ ConfigsKept /\ DOMAIN tasks' = DOMAIN tasks /\ tasks'[i] = new
      /\ \A j \in DOMAIN tasks : j # i => tasks'[j] = tasks[j]
  BY TaskWritten DEF TableOK
<1>2. OnlyClears(i, seen)
  BY <1>1, Zenon DEF OnlyClears
<1>3. ASSUME NEW j \in DOMAIN tasks, j # i PROVE OnlyClears(j, seen)
  BY <1>1, <1>3 DEF OnlyClears
<1> QED BY <1>1, <1>2, <1>3 DEF Writes

LEMMA WritesNone == ASSUME TableOK, UNCHANGED tasks, NEW seen PROVE Writes(seen)
<1>1. ConfigsKept /\ DOMAIN tasks' = DOMAIN tasks
  BY TableUnchanged DEF TableOK
<1> QED BY <1>1 DEF Writes, OnlyClears

LEMMA CallerWrites ==
  ASSUME CoreInv, NEW c \in Callers, Call(c) \/ CallerStep(c) PROVE Writes({})
<1>0. TableOK
  BY DEF CoreInv, DataOK
<1>1. CASE UNCHANGED tasks
  BY <1>0, <1>1, WritesNone
<1>2. ASSUME NEW config \in Configs, tasks' = Append(tasks, NewTask(config))
      PROVE  Writes({})
  <2>1. PICK new \in Tasks : /\ tasks' = Append(tasks, new) /\ new.missed = 0
                             /\ ~new.stack_overflow /\ new.state # "ERROR"
    BY <1>2, NewTaskOK
  <2>2. /\ ConfigsKept
        /\ \A j \in DOMAIN tasks : tasks'[j] = tasks[j]
        /\ \A j \in DOMAIN tasks' \ DOMAIN tasks : tasks'[j] = new
    BY <1>0, <2>1, TaskAdded DEF TableOK
  <2> QED BY <2>1, <2>2 DEF Writes, OnlyClears
<1>3. ASSUME NEW i \in DOMAIN tasks, NEW new \in {Recovered(tasks[i]), Cleared(tasks[i])},
             tasks' = [tasks EXCEPT ![i] = new]
      PROVE  Writes({})
  <2>1. tasks[i] \in Tasks
    BY <1>0, TaskFacts
  <2>2. /\ new \in Tasks /\ new.config = tasks[i].config /\ new.missed = 0
        /\ new.stack_overflow = FALSE /\ new.state = "READY"
    <3>1. CASE new = Recovered(tasks[i])
      BY <2>1, <3>1, RecoveredTask
    <3>2. CASE new = Cleared(tasks[i])
      BY <2>1, <3>2, ClearedTask
    <3> QED BY <3>1, <3>2
  <2> QED BY <1>0, <1>3, <2>2, WritesOne
<1>4. CASE register_monitored_task(c)
  BY <1>2, <1>4 DEF register_monitored_task
<1>5. CASE reset_task_monitoring(c)
  BY <1>0, <1>1, <1>3, <1>5, ResetWrites DEF reset_task_monitoring
<1>6. ASSUME NEW name \in Names, recover_task_error(c, name) PROVE Writes({})
  <2>1. PICK i \in DOMAIN tasks : tasks' = [tasks EXCEPT ![i] = Recovered(tasks[i])]
    BY <1>0, <1>6, LookupFinds DEF recover_task_error, TableOK
  <2> QED BY <1>3, <2>1
<1> QED BY <1>1, <1>4, <1>5, <1>6 DEF Call, CallerStep, BeginRegister, ReportError,
        verify_redundant_task_output, BeginInterference, BeginReset,
        monitor_task_interference

\* Of the scan and of handle_task_error each step but one only clears.
LEMMA MonitorWrites ==
  ASSUME CoreInv, MonitorStep \/ \E t \in Threads : handle_task_error(t)
  PROVE  /\ WriteMissed => Writes({"missed"})
         /\ CheckStack => Writes({"overflow"})
         /\ \A t \in Threads : MarkTaskError(t) => Writes({"state"})
         /\ \/ WriteMissed \/ CheckStack \/ \E t \in Threads : MarkTaskError(t)
            \/ Writes({})
<1>0. TableOK /\ PlacesOK /\ ScanSound /\ ErrorsSound /\ MutexSound /\ DataOK
  BY DEF CoreInv, DataOK
<1>1. ASSUME WriteMissed PROVE Writes({"missed"})
  <2>1. PICK j \in DOMAIN tasks : j = index
    BY <1>0, <1>1 DEF WriteMissed, ScanSound
  <2>2. tasks' = [tasks EXCEPT ![j] = MissCounted(tasks[j], observed)]
    BY <1>1, <2>1 DEF WriteMissed, MissCounted
  <2>3. /\ tasks[j] \in Tasks /\ tasks[j].depth \in 1..2
        /\ observed \in 0..(MaxMissedDeadlines + 1)
    <3>1. ScansLocked(j) /\ pc[Monitor] \in ScanLabels
      BY <1>1, <2>1 DEF WriteMissed, ScansLocked, ScanLabels
    <3>2. tasks[j].depth = 1
      BY <3>1, ScanOwner
    <3>3. tasks[j] \in Tasks
      BY <1>0, TaskFacts
    <3>4. observed \in 0..(MaxMissedDeadlines + 1)
      BY <1>0 DEF PlacesOK
    <3> QED BY <3>2, <3>3, <3>4
  <2>4. /\ MissCounted(tasks[j], observed) \in Tasks
        /\ MissCounted(tasks[j], observed).config = tasks[j].config
        /\ MissCounted(tasks[j], observed).stack_overflow = tasks[j].stack_overflow
        /\ MissCounted(tasks[j], observed).state = tasks[j].state
    BY <2>3, CountedTask, Zenon
  <2> QED BY <1>0, <2>2, <2>4, WritesOne
<1>2. ASSUME CheckStack PROVE Writes({"overflow"})
  <2>1. PICK j \in DOMAIN tasks : j = index
    BY <1>0, <1>2 DEF CheckStack, ScanSound
  <2>2. \/ tasks' = [tasks EXCEPT ![j] = OverflowFound(tasks[j], Monitor)]
        \/ tasks' = [tasks EXCEPT ![j] = Locked(tasks[j], Monitor)]
    BY <1>2, <2>1 DEF CheckStack, OverflowFound
  <2>3. tasks[j] \in Tasks /\ tasks[j].depth = 0 /\ tasks[j].depth \in 0..1
    <3>1. CanLock(j, Monitor) /\ ~ScansLocked(j) /\ pc[Monitor] \in ScanLabels
      BY <1>2, <2>1 DEF CheckStack, ScansLocked, ScanLabels, ErrorLabels
    <3> QED BY <1>0, <3>1, TaskFacts, ScanOwner
  <2>4. ASSUME NEW new \in {OverflowFound(tasks[j], Monitor), Locked(tasks[j], Monitor)}
        PROVE  /\ new \in Tasks /\ new.config = tasks[j].config
               /\ new.missed = tasks[j].missed /\ new.state = tasks[j].state
    BY <2>3, OverflowTask, LockedTask, ThreadFacts
  <2> QED BY <1>0, <2>2, <2>4, WritesOne
<1>3. ASSUME NEW t \in Threads, MarkTaskError(t) PROVE Writes({"state"})
  <2>1. PICK j \in DOMAIN tasks :
           /\ CanLock(j, t) /\ pc[t] = "handle"
           /\ tasks' = [tasks EXCEPT ![j] = Marked(tasks[j], t)]
    BY <1>0, <1>3, LookupFinds DEF MarkTaskError, TableOK
  <2>2. tasks[j] \in Tasks /\ tasks[j].depth \in 0..1
    BY <1>0, <2>1, TaskFacts, ThreadFacts DEF MutexSound, CanLock, Handles
  <2>3. /\ Marked(tasks[j], t) \in Tasks
        /\ Marked(tasks[j], t).config = tasks[j].config
        /\ Marked(tasks[j], t).missed = tasks[j].missed
        /\ Marked(tasks[j], t).stack_overflow = tasks[j].stack_overflow
    BY <2>2, LockedTask
  <2> QED BY <1>0, <2>1, <2>3, WritesOne
<1>4. ASSUME NEW t \in Threads, RecoverTask(t) PROVE Writes({})
  <2>1. PICK j \in DOMAIN tasks :
           Handles(t, j) /\ tasks' = [tasks EXCEPT ![j] = Handled(tasks[j])]
    BY <1>0, <1>4, SlotFound DEF RecoverTask, ErrorsSound, ErrorSound, Handles
  <2>2. tasks[j] \in Tasks /\ tasks[j].depth \in 1..2
    BY <1>0, <2>1, TaskFacts, ThreadFacts DEF MutexSound
  <2>3. /\ Handled(tasks[j]) \in Tasks /\ Handled(tasks[j]).config = tasks[j].config
        /\ Handled(tasks[j]).missed = 0 /\ Handled(tasks[j]).stack_overflow = FALSE
        /\ Handled(tasks[j]).state = "READY"
    BY <2>2, HandledTask
  <2> QED BY <1>0, <2>1, <2>3, WritesOne
<1>5. ASSUME ReadMissed PROVE Writes({})
  <2>1. PICK j \in DOMAIN tasks : j = index
    BY <1>0, <1>5 DEF ReadMissed, ScanSound
  <2>2. tasks' = [tasks EXCEPT ![j] = Locked(tasks[j], Monitor)]
    BY <1>5, <2>1 DEF ReadMissed
  <2>3. tasks[j] \in Tasks /\ tasks[j].depth = 0 /\ tasks[j].depth \in 0..1
    <3>1. CanLock(j, Monitor) /\ ~ScansLocked(j) /\ pc[Monitor] \in ScanLabels
      BY <1>5, <2>1 DEF ReadMissed, ScansLocked, ScanLabels, ErrorLabels
    <3> QED BY <1>0, <3>1, TaskFacts, ScanOwner
  <2>4. /\ Locked(tasks[j], Monitor) \in Tasks
        /\ Locked(tasks[j], Monitor).config = tasks[j].config
        /\ Locked(tasks[j], Monitor).missed = tasks[j].missed
        /\ Locked(tasks[j], Monitor).stack_overflow = tasks[j].stack_overflow
        /\ Locked(tasks[j], Monitor).state = tasks[j].state
    BY <2>3, LockedTask, ThreadFacts
  <2> QED BY <1>0, <2>2, <2>4, WritesOne
<1>6. ASSUME RecordPeak PROVE Writes({})
  <2>1. PICK j \in DOMAIN tasks : j = index
    BY <1>0, <1>6 DEF RecordPeak, ScanSound
  <2>2. tasks' = [tasks EXCEPT ![j] = PeakRecorded(tasks[j])]
    BY <1>6, <2>1 DEF RecordPeak
  <2>3. /\ tasks[j] \in Tasks /\ tasks[j].stack_usage_peak = 0 /\ tasks[j].depth \in 1..2
        /\ free \in {0} \cup FreeStack
    <3>1. ScansLocked(j) /\ pc[Monitor] \in ScanLabels
      BY <1>6, <2>1 DEF RecordPeak, ScansLocked, ScanLabels
    <3>2. tasks[j].depth = 1
      BY <3>1, ScanOwner
    <3>3. tasks[j] \in Tasks /\ tasks[j].stack_usage_peak = 0
      BY <1>0, TaskFacts
    <3>4. free \in {0} \cup FreeStack
      BY <1>0 DEF PlacesOK
    <3> QED BY <3>2, <3>3, <3>4
  <2>4. /\ PeakRecorded(tasks[j]) \in Tasks
        /\ PeakRecorded(tasks[j]).config = tasks[j].config
        /\ PeakRecorded(tasks[j]).missed = tasks[j].missed
        /\ PeakRecorded(tasks[j]).stack_overflow = tasks[j].stack_overflow
        /\ PeakRecorded(tasks[j]).state = tasks[j].state
    BY <2>3, PeakTask
  <2> QED BY <1>0, <2>2, <2>4, WritesOne
<1>7. ASSUME StartScan PROVE Writes({})
  <2>1. ConfigsKept /\ DOMAIN tasks' = DOMAIN tasks
    BY <1>0, <1>7, StartScanWrites
  <2>2. ASSUME NEW i \in DOMAIN tasks PROVE OnlyClears(i, {})
    BY <1>0, <1>7, <2>2, StartScanWrites DEF OnlyClears
  <2> QED BY <2>1, <2>2 DEF Writes
<1>8. ASSUME UNCHANGED tasks PROVE Writes({})
  BY <1>0, <1>8, WritesNone
<1> QED BY <1>1, <1>2, <1>3, <1>4, <1>5, <1>6, <1>7, <1>8, ThreadFacts
        DEF MonitorStep, monitor_thread, handle_task_error, EndScan, CheckDeadline,
            Escalate, CheckRuntime, UnknownTask

-----------------------------------------------------------------------------
(* Misses, overflows and errors.                                            *)

\* Where the monitor is, if the step is not its own.
MonitorStays ==
    UNCHANGED <<pc[Monitor], frame[Monitor], index, observed>>

LEMMA OthersLeaveMonitor ==
  ASSUME CoreInv,
         \/ \E t \in Threads \ {Monitor} : handle_task_error(t)
         \/ \E c \in Callers : Call(c) \/ CallerStep(c)
         \/ TaskStep \/ UNCHANGED vars
  PROVE  MonitorStays
<1>0. PlacesOK
  BY DEF CoreInv, DataOK
<1>1. ASSUME NEW t \in Threads, t # Monitor, handle_task_error(t) PROVE MonitorStays
  BY <1>0, <1>1, ThreadFacts DEF handle_task_error, MarkTaskError, RecoverTask, UnknownTask,
     Return, Goto, MonitorStays, PlacesOK
<1>2. ASSUME NEW c \in Callers, Call(c) PROVE MonitorStays
  BY <1>0, <1>2, ThreadFacts DEF Call, BeginRegister, ReportError, BeginInterference,
     verify_redundant_task_output, BeginReset, recover_task_error, CallHandleTaskError,
     Goto, MonitorStays, PlacesOK
<1>3. ASSUME NEW c \in Callers, CallerStep(c) PROVE MonitorStays
  BY <1>0, <1>3, ThreadFacts DEF CallerStep, register_monitored_task, Return,
     monitor_task_interference, reset_task_monitoring, Goto, MonitorStays, PlacesOK
<1>4. CASE TaskStep \/ UNCHANGED vars
  BY <1>4 DEF TaskStep, DeadlinePasses, task_monitor_checkpoint, ChangeExecution, SetTask,
     vars, MonitorStays
<1> QED BY <1>1, <1>2, <1>3, <1>4

\* A step is one of the scan or of the monitor's own error handling, or one that
\* leaves the monitor where it is.
LEMMA StepCases ==
  ASSUME CoreInv, [Next]_vars
  PROVE  \/ StartScan \/ EndScan \/ CheckDeadline \/ Escalate \/ CheckRuntime
         \/ ReadMissed \/ WriteMissed \/ CheckStack \/ RecordPeak
         \/ handle_task_error(Monitor)
         \/ /\ MonitorStays
            /\ \/ \E t \in Threads \ {Monitor} : handle_task_error(t)
               \/ \E c \in Callers : Call(c) \/ CallerStep(c)
               \/ TaskStep \/ UNCHANGED vars
<1>1. CASE UNCHANGED vars
  BY <1>1, OthersLeaveMonitor
<1>2. CASE Next
  BY <1>2, NextCases, OthersLeaveMonitor, ThreadFacts DEF handle_task_error
<1> QED BY <1>1, <1>2

LEMMA TaskStepClears == ASSUME CoreInv, TaskStep PROVE Writes({})
<1>0. TableOK
  BY DEF CoreInv, DataOK
<1>1. PICK i \in DOMAIN tasks, new \in Tasks :
            /\ tasks' = [tasks EXCEPT ![i] = new]
            /\ new.config = tasks[i].config /\ new.missed = tasks[i].missed
            /\ new.stack_overflow = tasks[i].stack_overflow
            /\ new.state = tasks[i].state
  BY <1>0, TaskStepWrites DEF SetTask
<1> QED BY <1>0, <1>1, WritesOne

\* What any step may write.
LEMMA StepWrites ==
  ASSUME CoreInv, [Next]_vars
  PROVE  /\ WriteMissed \/ \A i \in DOMAIN tasks : tasks'[i].missed \in {tasks[i].missed, 0}
         /\ CheckStack \/ \A i \in DOMAIN tasks :
                             tasks'[i].stack_overflow => tasks[i].stack_overflow
         /\ \/ \E t \in Threads : MarkTaskError(t)
            \/ \A i \in DOMAIN tasks : tasks'[i].state = "ERROR" => tasks[i].state = "ERROR"
         /\ ConfigsKept
         /\ \A i \in DOMAIN tasks' \ DOMAIN tasks :
               /\ tasks'[i].missed = 0 /\ ~tasks'[i].stack_overflow
               /\ tasks'[i].state # "ERROR"
<1>0. TableOK
  BY DEF CoreInv, DataOK
<1>1. \/ WriteMissed /\ Writes({"missed"})
      \/ CheckStack /\ Writes({"overflow"})
      \/ (\E t \in Threads : MarkTaskError(t)) /\ Writes({"state"})
      \/ Writes({})
  <2>1. CASE UNCHANGED vars
    BY <1>0, <2>1, WritesNone DEF vars
  <2>2. CASE \E c \in Callers : Call(c) \/ CallerStep(c)
    BY <2>2, CallerWrites
  <2>3. CASE MonitorStep \/ \E t \in Threads : handle_task_error(t)
    BY <2>3, MonitorWrites
  <2>4. CASE TaskStep
    BY <2>4, TaskStepClears
  <2> QED BY <2>1, <2>2, <2>3, <2>4, ThreadFacts DEF Next, CallerRuns
<1> QED BY <1>1 DEF Writes, OnlyClears

\* The task the monitor handles an error of, if it is the first of its name.
LEMMA HandlesFirst ==
  ASSUME CoreInv, index \in DOMAIN tasks, FirstOfItsName(index), HandlesScanned
  PROVE  Lookup(frame[Monitor].name) = index
  BY DEF CoreInv, ScanSound, FirstOfItsName

\* Misses that are not counted up stay sound while the monitor stays on the way
\* from the limit to the recovery.
LEMMA MissSoundKept ==
  ASSUME NEW i \in DOMAIN tasks, MissSound(i), MaxMissedDeadlines \in Nat \ {0},
         tasks'[i].missed \in {tasks[i].missed, 0},
         Escalating(i) => Escalating(i)' \/ tasks'[i].missed < MaxMissedDeadlines
  PROVE  MissSound(i)'
  BY DEF MissSound

LEMMA MissesAll ==
  ASSUME CoreInv, [Next]_vars, CountSound',
         \A i \in DOMAIN tasks : FirstOfItsName(i) => MissSound(i)'
  PROVE  MissesSound'
<1>1. /\ ConfigsKept /\ TableOK
      /\ \A i \in DOMAIN tasks' \ DOMAIN tasks : tasks'[i].missed = 0
  BY StepWrites DEF CoreInv, DataOK
<1>2. \A i \in DOMAIN tasks : FirstOfItsName(i)' => FirstOfItsName(i)
  BY <1>1, LookupKept DEF TableOK
<1>3. ASSUME NEW i \in DOMAIN tasks', i \notin DOMAIN tasks PROVE MissSound(i)'
  <2>1. tasks'[i].missed = 0
    BY <1>1, <1>3
  <2> QED BY <2>1, TasksAssumption DEF MissSound
<1> QED BY <1>2, <1>3 DEF MissesSound

LEMMA WriteMissedMisses == ASSUME CoreInv, MissesSound, WriteMissed PROVE MissesSound'
<1>0. /\ TableOK /\ PlacesOK /\ ScanSound /\ Monitor \in Threads
      /\ MaxMissedDeadlines \in Nat \ {0}
  BY TasksAssumption, ThreadFacts DEF CoreInv, DataOK
<1>1. PICK j \in DOMAIN tasks : j = index
  BY <1>0 DEF WriteMissed, ScanSound
<1>2. /\ pc[Monitor] = "count" /\ Goto(Monitor, "escalate") /\ UNCHANGED index
      /\ tasks' = [tasks EXCEPT ![j] = MissCounted(tasks[j], observed)]
  BY <1>1 DEF WriteMissed, MissCounted
<1>3. /\ tasks[j] \in Tasks /\ tasks[j].depth \in 1..2
      /\ observed \in 0..(MaxMissedDeadlines + 1)
  <2>1. ScansLocked(j) /\ pc[Monitor] \in ScanLabels
    BY <1>1, <1>2 DEF ScansLocked, ScanLabels
  <2>2. tasks[j].depth = 1
    BY <2>1, ScanOwner
  <2>3. tasks[j] \in Tasks
    BY <1>0, TaskFacts
  <2>4. observed \in 0..(MaxMissedDeadlines + 1)
    BY <1>0 DEF PlacesOK
  <2> QED BY <2>2, <2>3, <2>4
<1>4. PICK new \in Tasks : /\ tasks' = [tasks EXCEPT ![j] = new]
                           /\ new.config = tasks[j].config
                           /\ new.missed = Counted(observed)
  BY <1>2, <1>3, CountedTask, Zenon
<1>5. /\ ConfigsKept /\ tasks'[j] = new
      /\ \A i \in DOMAIN tasks : i # j => tasks'[i] = tasks[i]
  BY <1>0, <1>4, TaskWritten DEF TableOK
<1>6. pc'[Monitor] = "escalate"
  BY <1>0, <1>2 DEF PlacesOK, Goto
<1>7. ASSUME FirstOfItsName(j) PROVE MissSound(j)'
  <2>1. observed < MaxMissedDeadlines
    BY <1>1, <1>2, <1>7 DEF MissesSound, CountSound
  <2>2. Counted(observed) = observed + 1 /\ observed \in Nat
    BY <1>0, <1>3, <2>1 DEF Counted
  <2>3. tasks'[j].missed = observed + 1
    BY <1>4, <1>5, <2>2
  <2>4. tasks'[j].missed < MaxMissedDeadlines \/ tasks'[j].missed = MaxMissedDeadlines
    BY <1>0, <2>1, <2>2, <2>3
  <2>5. Escalating(j)'
    BY <1>1, <1>2, <1>6 DEF Escalating
  <2> QED BY <2>4, <2>5 DEF MissSound
<1>8. ASSUME NEW i \in DOMAIN tasks, FirstOfItsName(i), i # j PROVE MissSound(i)'
  <2>1. ~Escalating(i)
    BY <1>1, <1>8 DEF Escalating
  <2>2. tasks[i].missed < MaxMissedDeadlines
    BY <1>8, <2>1 DEF MissesSound, MissSound
  <2> QED BY <1>5, <1>8, <2>2 DEF MissSound
<1>9. CountSound'
  BY <1>6 DEF CountSound
<1>10. [Next]_vars
  BY DEF Next, MonitorStep, monitor_thread
<1> QED BY <1>7, <1>8, <1>9, <1>10, MissesAll

LEMMA MissesStep ==
  ASSUME CoreInv, MissesSound, [Next]_vars PROVE MissesSound'
<1>0. /\ TableOK /\ PlacesOK /\ ScanSound /\ ErrorsSound /\ DataOK
      /\ MaxMissedDeadlines \in Nat \ {0} /\ Monitor \in Threads
  BY TasksAssumption, ThreadFacts DEF CoreInv, DataOK
<1>1. WriteMissed \/ \A i \in DOMAIN tasks : tasks'[i].missed \in {tasks[i].missed, 0}
  BY StepWrites
<1>2. \A i \in DOMAIN tasks : FirstOfItsName(i)' => FirstOfItsName(i)
  BY <1>0, StepWrites, LookupKept DEF TableOK
<1>3. ASSUME ~WriteMissed, CountSound',
             \A i \in DOMAIN tasks : FirstOfItsName(i) /\ Escalating(i) =>
                Escalating(i)' \/ tasks'[i].missed < MaxMissedDeadlines
      PROVE  MissesSound'
  <2>1. \A i \in DOMAIN tasks : FirstOfItsName(i) => MissSound(i)'
    BY <1>0, <1>1, <1>3, MissSoundKept DEF MissesSound
  <2> QED BY <1>3, <2>1, MissesAll
<1>4. CASE MonitorStays
  <2>1. ~WriteMissed
    BY <1>0, <1>4 DEF WriteMissed, MonitorStays, Goto, PlacesOK
  <2>2. \A i \in DOMAIN tasks : Escalating(i)' <=> Escalating(i)
    BY <1>4 DEF MonitorStays, Escalating
  <2>3. CountSound'
    <3>1. pc[Monitor] = "count" => index \in DOMAIN tasks
      BY <1>0 DEF ScanSound
    <3>2. pc[Monitor] = "count" /\ FirstOfItsName(index)' => FirstOfItsName(index)
      BY <1>2, <1>4, <3>1 DEF MonitorStays
    <3> QED BY <1>4, <3>2 DEF MonitorStays, CountSound, MissesSound
  <2> QED BY <1>3, <2>1, <2>2, <2>3
<1>5. CASE StartScan \/ EndScan \/ CheckDeadline \/ CheckRuntime \/ CheckStack \/ RecordPeak
  <2>1. pc[Monitor] \in {"scan", "deadline", "runtime", "stack", "peak"}
    BY <1>5 DEF StartScan, EndScan, CheckDeadline, CheckRuntime, CheckStack, RecordPeak
  <2>2. pc'[Monitor] # "count"
    BY <1>0, <1>5 DEF StartScan, EndScan, CheckDeadline, CheckRuntime, CheckStack, RecordPeak,
       CallHandleTaskError, Goto, PlacesOK
  <2>3. ~WriteMissed /\ CountSound'
    BY <2>1, <2>2 DEF WriteMissed, CountSound
  <2>4. \A i \in DOMAIN tasks : ~Escalating(i)
    BY <2>1 DEF Escalating
  <2> QED BY <1>3, <2>3, <2>4
<1>6. CASE ReadMissed
  <2>1. pc[Monitor] = "miss" /\ ~WriteMissed /\ index \in DOMAIN tasks
    BY <1>0, <1>6 DEF ReadMissed, WriteMissed, ScanSound
  <2>2. \A i \in DOMAIN tasks : ~Escalating(i)
    BY <2>1 DEF Escalating
  <2>3. FirstOfItsName(index)' => FirstOfItsName(index)
    BY <1>2, <1>6, <2>1 DEF ReadMissed
  <2>4. FirstOfItsName(index) => tasks[index].missed < MaxMissedDeadlines
    BY <2>1, <2>2 DEF MissesSound, MissSound
  <2>5. CountSound'
    BY <1>6, <2>3, <2>4 DEF CountSound, ReadMissed
  <2> QED BY <1>3, <2>1, <2>2, <2>5
<1>7. CASE Escalate
  <2>1. pc[Monitor] = "escalate" /\ ~WriteMissed /\ index' = index /\ tasks' = tasks
    BY <1>7 DEF Escalate, WriteMissed
  <2>2. pc'[Monitor] \in {"runtime", "stopped", "handle"}
    BY <1>0, <1>7 DEF Escalate, CallHandleTaskError, Goto, PlacesOK
  <2>3. LimitReached(tasks[index]) =>
           \/ pc'[Monitor] = "stopped"
           \/ pc'[Monitor] = "handle" /\ frame'[Monitor].return_to = "runtime"
    <3>1. /\ Monitor \in Threads /\ pc \in [Threads -> Labels]
          /\ Monitor \in DOMAIN frame
      BY <1>0 DEF PlacesOK
    <3> DEFINE call == [name |-> tasks[index].config.name,
                        return_to |-> "runtime", slot |-> 0]
    <3>2. LimitReached(tasks[index]) =>
             \/ pc' = [pc EXCEPT ![Monitor] = "stopped"]
             \/ /\ frame' = [frame EXCEPT ![Monitor] = call]
                /\ pc' = [pc EXCEPT ![Monitor] = "handle"]
      BY <1>7 DEF Escalate, CallHandleTaskError, Goto
    <3>3. call.return_to = "runtime"
      OBVIOUS
    <3> HIDE DEF call
    <3> QED BY <3>1, <3>2, <3>3
  <2>4. \A i \in DOMAIN tasks : Escalating(i) =>
           Escalating(i)' \/ tasks'[i].missed < MaxMissedDeadlines
    <3>1. ASSUME NEW i \in DOMAIN tasks, Escalating(i), ~(tasks[i].missed < MaxMissedDeadlines)
          PROVE  Escalating(i)'
      <4>1. i = index
        BY <3>1 DEF Escalating
      <4>2. tasks[i].missed \in Nat
        <5>1. tasks[i] \in Tasks
          BY <1>0, TaskFacts
        <5> QED BY <5>1, TasksAssumption DEF Tasks
      <4>3. tasks[i].missed >= MaxMissedDeadlines
        BY <1>0, <3>1, <4>2
      <4>4. LimitReached(tasks[index])
        BY <4>1, <4>3 DEF LimitReached
      <4> QED BY <2>1, <2>3, <4>1, <4>4 DEF Escalating
    <3> QED BY <2>1, <3>1
  <2>5. CountSound'
    BY <2>2 DEF CountSound
  <2> QED BY <1>3, <2>1, <2>4, <2>5
<1>8. CASE handle_task_error(Monitor)
  <2>1. pc[Monitor] \in {"handle", "recover"} /\ ~WriteMissed /\ index' = index
    BY <1>8 DEF handle_task_error, MarkTaskError, RecoverTask, UnknownTask, WriteMissed
  <2>2. index \in DOMAIN tasks
    BY <1>0, <2>1 DEF ScanSound
  <2>3. CASE MarkTaskError(Monitor)
    <3>1. /\ pc'[Monitor] \in {"recover", "stopped"}
          /\ frame'[Monitor].return_to = frame[Monitor].return_to
      BY <1>0, <2>3 DEF MarkTaskError, Goto, PlacesOK
    <3>2. CountSound' /\ \A i \in DOMAIN tasks : Escalating(i) => Escalating(i)'
      BY <2>1, <3>1 DEF CountSound, Escalating
    <3> QED BY <1>3, <2>1, <3>2
  <2>4. CASE RecoverTask(Monitor) \/ UnknownTask(Monitor)
    <3>1. pc'[Monitor] \in ReturnLabels
      BY <1>0, <2>4 DEF RecoverTask, UnknownTask, Return, Goto, PlacesOK, ReturnLabels
    <3>2. CountSound'
      BY <3>1 DEF CountSound, ReturnLabels
    <3>3. ASSUME FirstOfItsName(index) PROVE tasks'[index].missed < MaxMissedDeadlines
      <4>1. Lookup(frame[Monitor].name) = index /\ index # 0
        <5>1. HandlesScanned /\ index # 0
          BY <1>0, <2>1 DEF HandlesScanned, PlacesOK
        <5> QED BY <2>2, <3>3, <5>1, HandlesFirst
      <4>2. RecoverTask(Monitor)
        BY <2>4, <4>1 DEF UnknownTask
      <4>3. frame[Monitor].slot = index
        BY <1>0, <4>1, <4>2 DEF RecoverTask, ErrorsSound, ErrorSound
      <4>4. tasks' = [tasks EXCEPT ![index] = Handled(tasks[index])]
        BY <4>2, <4>3 DEF RecoverTask
      <4>5. tasks[index] \in Tasks /\ tasks[index].depth \in 1..2
        <5>1. Handles(Monitor, index)
          BY <4>2, <4>3 DEF RecoverTask, Handles
        <5>2. tasks[index].depth \in 1..2
          BY <1>0, <2>2, <5>1, ThreadFacts DEF CoreInv, MutexSound
        <5> QED BY <1>0, <2>2, <5>2, TaskFacts
      <4>6. Handled(tasks[index]).missed = 0
        BY <4>5, HandledTask
      <4>7. tasks'[index].missed = 0
        BY <2>2, <4>4, <4>6
      <4> QED BY <1>0, <4>7
    <3>4. \A i \in DOMAIN tasks : FirstOfItsName(i) /\ Escalating(i) =>
             tasks'[i].missed < MaxMissedDeadlines
      BY <3>3 DEF Escalating
    <3> QED BY <1>3, <2>1, <3>2, <3>4
  <2> QED BY <1>8, <2>3, <2>4 DEF handle_task_error
<1>9. CASE WriteMissed
  BY <1>9, WriteMissedMisses
<1> QED BY <1>4, <1>5, <1>6, <1>7, <1>8, <1>9, StepCases

LEMMA InitMisses == Init => MissesSound
<1> SUFFICES ASSUME Init PROVE MissesSound
  OBVIOUS
<1>1. DOMAIN tasks = {} /\ pc[Monitor] = "scan"
  BY ThreadFacts DEF Init
<1> QED BY <1>1 DEF MissesSound, CountSound

LEMMA EscalationSound == CoreInv /\ MissesSound => EscalatesAtLimit
<1> SUFFICES ASSUME CoreInv, MissesSound PROVE EscalatesAtLimit
  OBVIOUS
<1>0. TableOK /\ PlacesOK /\ ScanSound /\ ErrorsSound /\ DataOK
  BY DEF CoreInv, DataOK
<1>1. ASSUME NEW t \in Threads, Stopped(t), NEW i,
             i = IF frame[t].slot # 0 THEN frame[t].slot ELSE index
      PROVE  i \in DOMAIN tasks /\ tasks[i].config.critical
  <2>1. pc[t] = "stopped" /\ ErrorSound(t)
    BY <1>0, <1>1 DEF Stopped, ErrorsSound
  <2>2. CASE frame[t].slot # 0
    BY <1>0, <1>1, <2>1, <2>2, SlotFound DEF ErrorSound
  <2>3. CASE frame[t].slot = 0
    <3>1. t = Monitor /\ tasks[index].config.critical /\ i = index
      BY <1>1, <2>1, <2>3 DEF ErrorSound
    <3> QED BY <1>0, <2>1, <3>1 DEF ScanSound
  <2> QED BY <2>2, <2>3
<1>2. OnlyCriticalTasksStop
  BY <1>1 DEF OnlyCriticalTasksStop
<1>3. ASSUME NEW i \in DOMAIN tasks, FirstOfItsName(i)
      PROVE  tasks[i].missed <= MaxMissedDeadlines
  <2>1. tasks[i].missed < MaxMissedDeadlines \/ tasks[i].missed = MaxMissedDeadlines
    BY <1>3 DEF MissesSound, MissSound
  <2>2. tasks[i].missed \in Nat /\ MaxMissedDeadlines \in Nat
    <3>1. tasks[i] \in Tasks
      BY <1>0, TaskFacts
    <3> QED BY <3>1, TasksAssumption DEF Tasks
  <2> QED BY <2>1, <2>2
<1> QED BY <1>2, <1>3 DEF EscalatesAtLimit, MissesWithinLimit

\* Only a critical task ever stops a thread, and no task whose recovery finds it
\* is ever counted more than the limit of misses: however the scan, the calls of
\* application threads and the unprotected missed_deadlines++ interleave.
THEOREM MissesEscalateAtLimit == Spec => []EscalatesAtLimit
<1>1. Init => MissesSound
  BY InitMisses
<1>2. CoreInv /\ MissesSound /\ [Next]_vars => MissesSound'
  BY MissesStep
<1>3. CoreInv /\ MissesSound => EscalatesAtLimit
  BY EscalationSound
<1> QED BY <1>1, <1>2, <1>3, CoreIsInvariant, PTL DEF Spec

LEMMA StatesStep ==
  ASSUME CoreInv, StatesSound, [Next]_vars PROVE StatesSound'
<1>0. TableOK /\ PlacesOK /\ ErrorsSound /\ MutexSound /\ DataOK /\ CoreInv'
  BY NextKeepsCore DEF CoreInv, DataOK
<1>1. /\ ConfigsKept
      /\ \A i \in DOMAIN tasks' \ DOMAIN tasks : tasks'[i].state # "ERROR"
      /\ \/ \E t \in Threads : MarkTaskError(t)
         \/ \A i \in DOMAIN tasks : tasks'[i].state = "ERROR" => tasks[i].state = "ERROR"
  BY StepWrites
<1>2. ASSUME NEW t \in Threads, MarkTaskError(t), NEW i \in DOMAIN tasks,
             tasks'[i].state = "ERROR"
      PROVE  \E u \in Threads : Handles(u, i)'
  <2>1. PICK j \in DOMAIN tasks :
           /\ j = Lookup(frame[t].name) /\ j # 0 /\ pc[t] = "handle"
           /\ tasks' = [tasks EXCEPT ![j] = Marked(tasks[j], t)]
           /\ frame' = [frame EXCEPT ![t].slot = j]
           /\ Goto(t, IF Stops(tasks[j]) THEN "stopped" ELSE "recover")
    BY <1>0, <1>2, LookupFinds DEF MarkTaskError, TableOK
  <2>2. /\ pc'[t] \in {"recover", "stopped"} /\ frame'[t].slot = j
        /\ \A u \in Threads : u # t => pc'[u] = pc[u] /\ frame'[u] = frame[u]
    BY <1>0, <2>1 DEF PlacesOK, Goto
  <2>3. CASE i = j
    BY <2>2, <2>3 DEF Handles
  <2>4. CASE i # j
    <3>1. tasks'[i] = tasks[i]
      BY <2>1, <2>4
    <3>2. PICK u \in Threads : Handles(u, i)
      BY <1>2, <3>1 DEF StatesSound
    <3>3. u # t
      BY <2>1, <3>2 DEF Handles
    <3> QED BY <2>2, <3>2, <3>3 DEF Handles
  <2> QED BY <2>3, <2>4
<1>3. ASSUME NEW t \in Threads, RecoverTask(t), NEW i \in DOMAIN tasks,
             tasks'[i].state = "ERROR"
      PROVE  \E u \in Threads : Handles(u, i)'
  <2>1. PICK j \in DOMAIN tasks :
           /\ j = frame[t].slot /\ Handles(t, j)
           /\ tasks' = [tasks EXCEPT ![j] = Handled(tasks[j])]
    BY <1>0, <1>3, SlotFound DEF RecoverTask, ErrorsSound, ErrorSound, Handles
  <2>2. tasks[j] \in Tasks /\ tasks[j].depth \in 1..2
    BY <1>0, <2>1, TaskFacts, ThreadFacts DEF MutexSound
  <2>3. Handled(tasks[j]).state = "READY"
    BY <2>2, HandledTask
  <2>4. i # j /\ tasks'[i] = tasks[i]
    BY <1>3, <2>1, <2>3
  <2>5. PICK u \in Threads : Handles(u, i)
    BY <1>3, <2>4 DEF StatesSound
  <2>6. u # t
    BY <2>1, <2>4, <2>5 DEF Handles
  <2>7. pc'[u] = pc[u] /\ frame'[u] = frame[u]
    BY <1>0, <1>3, <2>6 DEF RecoverTask, Return, Goto, PlacesOK
  <2> QED BY <2>5, <2>7 DEF Handles
<1>4. ASSUME \A t \in Threads : ~MarkTaskError(t) /\ ~RecoverTask(t)
      PROVE  \A t \in Threads, i \in DOMAIN tasks : Handles(t, i) => Handles(t, i)'
  <2>1. ASSUME NEW t \in Threads, pc[t] \in {"recover", "stopped"}
        PROVE  pc'[t] = pc[t] /\ frame'[t] = frame[t]
    <3>1. CASE MonitorStep
      BY <1>0, <1>4, <2>1, <3>1, ThreadFacts DEF MonitorStep, monitor_thread, StartScan, EndScan,
         CheckDeadline, ReadMissed, WriteMissed, Escalate, CheckRuntime, CheckStack,
         RecordPeak, handle_task_error, UnknownTask, Return, CallHandleTaskError, Goto,
         PlacesOK
    <3>2. ASSUME NEW c \in Callers, Call(c) PROVE pc'[t] = pc[t] /\ frame'[t] = frame[t]
      BY <1>0, <2>1, <3>2 DEF Call, BeginRegister, ReportError, BeginInterference,
         verify_redundant_task_output, BeginReset, recover_task_error, CallHandleTaskError,
         Begins, Goto, PlacesOK
    <3>3. ASSUME NEW c \in Callers, CallerRuns(c) PROVE pc'[t] = pc[t] /\ frame'[t] = frame[t]
      BY <1>0, <1>4, <2>1, <3>3, ThreadFacts DEF CallerRuns, CallerStep,
         register_monitored_task, monitor_task_interference, reset_task_monitoring,
         handle_task_error, UnknownTask, Return, Goto, PlacesOK
    <3>4. CASE TaskStep \/ UNCHANGED vars
      BY <3>4 DEF TaskStep, DeadlinePasses, task_monitor_checkpoint, ChangeExecution,
         SetTask, vars
    <3> QED BY <3>1, <3>2, <3>3, <3>4 DEF Next
  <2> QED BY <2>1 DEF Handles
<1>5. ASSUME NEW i \in DOMAIN tasks', tasks'[i].state = "ERROR"
      PROVE  \E u \in Threads : Handles(u, i)'
  <2>1. i \in DOMAIN tasks
    BY <1>1, <1>5
  <2>2. CASE \A t \in Threads : ~MarkTaskError(t) /\ ~RecoverTask(t)
    <3>1. tasks[i].state = "ERROR"
      BY <1>1, <1>5, <2>1, <2>2
    <3>2. PICK u \in Threads : Handles(u, i)
      BY <2>1, <3>1 DEF StatesSound
    <3> QED BY <1>4, <2>1, <2>2, <3>2
  <2> QED BY <1>2, <1>3, <1>5, <2>1, <2>2
<1> QED BY <1>5 DEF StatesSound

LEMMA OverflowsStep ==
  ASSUME CoreInv, OverflowsSound, [Next]_vars PROVE OverflowsSound'
<1>0. /\ TableOK /\ PlacesOK /\ ScanSound /\ ErrorsSound /\ DataOK /\ Monitor \in Threads
  BY ThreadFacts DEF CoreInv, DataOK
<1>1. /\ ConfigsKept
      /\ CheckStack \/ \A i \in DOMAIN tasks :
                           tasks'[i].stack_overflow => tasks[i].stack_overflow
      /\ \A i \in DOMAIN tasks' \ DOMAIN tasks : ~tasks'[i].stack_overflow
  BY StepWrites
<1>2. \A i \in DOMAIN tasks : FirstOfItsName(i)' => FirstOfItsName(i)
  BY <1>0, <1>1, LookupKept DEF TableOK
<1>3. SUFFICES ASSUME NEW i \in DOMAIN tasks, FirstOfItsName(i), ~tasks[i].config.critical,
                      tasks'[i].stack_overflow
               PROVE  Overflowing(i)'
  <2>1. ASSUME NEW i \in DOMAIN tasks', i \notin DOMAIN tasks PROVE ~tasks'[i].stack_overflow
    BY <1>1, <2>1
  <2> QED BY <1>1, <1>2, <2>1 DEF OverflowsSound, ConfigsKept
<1>4. ~CheckStack => Overflowing(i)
  BY <1>1, <1>3 DEF OverflowsSound
<1>5. CASE MonitorStays
  <2>1. ~CheckStack
    BY <1>0, <1>5 DEF CheckStack, MonitorStays, CallHandleTaskError, Goto, PlacesOK
  <2> QED BY <1>4, <1>5, <2>1 DEF MonitorStays, Overflowing
<1>6. CASE StartScan \/ EndScan \/ CheckDeadline \/ Escalate \/ CheckRuntime \/ ReadMissed
           \/ WriteMissed \/ RecordPeak
  <2>1. pc[Monitor] \in {"scan", "deadline", "escalate", "runtime", "miss", "count", "peak"}
    BY <1>6 DEF StartScan, EndScan, CheckDeadline, Escalate, CheckRuntime, ReadMissed,
       WriteMissed, RecordPeak
  <2>2. ~CheckStack /\ ~Overflowing(i)
    BY <2>1 DEF CheckStack, Overflowing
  <2> QED BY <1>4, <2>2
<1>7. CASE CheckStack
  <2>1. PICK j \in DOMAIN tasks : j = index
    BY <1>0, <1>7 DEF CheckStack, ScanSound
  <2>2. pc[Monitor] = "stack" /\ index' = index
    BY <1>7 DEF CheckStack
  <2>3. ~tasks[i].stack_overflow
    BY <1>3, <2>2 DEF OverflowsSound, Overflowing
  <2>4. CASE CallHandleTaskError(Monitor, tasks[index].config.name, "peak")
             /\ tasks' = [tasks EXCEPT ![j] = OverflowFound(tasks[j], Monitor)]
    <3>1. i = j
      BY <1>3, <2>3, <2>4
    <3>2. pc'[Monitor] = "handle" /\ frame'[Monitor].return_to = "peak"
      BY <1>0, <2>4 DEF CallHandleTaskError, Goto, PlacesOK
    <3> QED BY <2>1, <2>2, <3>1, <3>2 DEF Overflowing
  <2>5. CASE tasks' = [tasks EXCEPT ![j] = Locked(tasks[j], Monitor)]
    <3>1. tasks[j] \in Tasks /\ tasks[j].depth \in 0..1
      <4>1. CanLock(j, Monitor) /\ ~ScansLocked(j) /\ pc[Monitor] \in ScanLabels
        BY <1>7, <2>1 DEF CheckStack, ScansLocked, ScanLabels, ErrorLabels
      <4> QED BY <1>0, <4>1, TaskFacts, ScanOwner
    <3>2. Locked(tasks[j], Monitor).stack_overflow = tasks[j].stack_overflow
      BY <1>0, <3>1, LockedTask
    <3>3. tasks'[i].stack_overflow = tasks[i].stack_overflow
      BY <2>5, <3>2
    <3> QED BY <1>3, <2>3, <3>3
  <2> QED BY <1>7, <2>1, <2>4, <2>5 DEF CheckStack, OverflowFound
<1>8. CASE handle_task_error(Monitor)
  <2>1. pc[Monitor] \in {"handle", "recover"} /\ ~CheckStack /\ index' = index
    BY <1>8 DEF handle_task_error, MarkTaskError, RecoverTask, UnknownTask, CheckStack
  <2>2. i = index /\ frame[Monitor].return_to = "peak"
    BY <1>4, <2>1 DEF Overflowing
  <2>3. Lookup(frame[Monitor].name) = i /\ i # 0
    <3>1. HandlesScanned /\ index # 0
      BY <1>0, <2>1 DEF HandlesScanned, PlacesOK
    <3> QED BY <1>3, <2>2, <3>1, HandlesFirst
  <2>4. CASE MarkTaskError(Monitor)
    <3>1. ~Stops(tasks[i])
      BY <1>3 DEF Stops
    <3>2. pc'[Monitor] = "recover" /\ frame'[Monitor].return_to = "peak"
      BY <1>0, <2>2, <2>3, <2>4, <3>1 DEF MarkTaskError, Goto, PlacesOK
    <3> QED BY <2>1, <2>2, <3>2 DEF Overflowing
  <2>5. CASE RecoverTask(Monitor)
    <3>1. frame[Monitor].slot = i
      BY <1>0, <2>3, <2>5 DEF RecoverTask, ErrorsSound, ErrorSound
    <3>2. tasks' = [tasks EXCEPT ![i] = Handled(tasks[i])]
      BY <2>5, <3>1 DEF RecoverTask
    <3>3. tasks[i] \in Tasks /\ tasks[i].depth \in 1..2
      <4>1. Handles(Monitor, i)
        BY <2>5, <3>1 DEF RecoverTask, Handles
      <4>2. tasks[i].depth \in 1..2
        BY <1>0, <1>3, <4>1, ThreadFacts DEF CoreInv, MutexSound
      <4> QED BY <1>0, <1>3, <4>2, TaskFacts
    <3>4. Handled(tasks[i]).stack_overflow = FALSE
      BY <3>3, HandledTask
    <3> QED BY <1>3, <3>2, <3>4
  <2>6. CASE UnknownTask(Monitor)
    BY <2>3, <2>6 DEF UnknownTask
  <2> QED BY <1>8, <2>4, <2>5, <2>6 DEF handle_task_error
<1> QED BY <1>5, <1>6, <1>7, <1>8, StepCases

LEMMA InitStatus == Init => OverflowsSound /\ StatesSound
<1> SUFFICES ASSUME Init PROVE OverflowsSound /\ StatesSound
  OBVIOUS
<1>1. DOMAIN tasks = {}
  BY DEF Init
<1> QED BY <1>1 DEF OverflowsSound, StatesSound

LEMMA StatusSound == CoreInv /\ OverflowsSound /\ StatesSound => ErrorsShownWhileHandled
<1> SUFFICES ASSUME CoreInv, OverflowsSound, StatesSound PROVE ErrorsShownWhileHandled
  OBVIOUS
<1>0. TableOK /\ MutexSound
  BY DEF CoreInv, DataOK
<1>1. ASSUME NEW i \in DOMAIN tasks, tasks[i].stack_overflow, FirstOfItsName(i),
             ~tasks[i].config.critical
      PROVE  tasks[i].owner = Monitor
  <2>1. Overflowing(i)
    BY <1>1 DEF OverflowsSound
  <2>2. ScansLocked(i)
    BY <2>1 DEF Overflowing, ScansLocked, ErrorLabels
  <2> QED BY <1>0, <2>2, ThreadFacts DEF MutexSound
<1> QED BY <1>1 DEF ErrorsShownWhileHandled, StatesSound

\* get_task_safety_status takes no mutex and reads what is there at that moment.
\* It finds TASK_STATE_ERROR only while a thread is in handle_task_error of that
\* task or was stopped there, and the overflow of a task that is not critical
\* only while the monitor is between the lock and the unlock of its stats_mutex:
\* an error that has been handled is in no status.
THEOREM ErrorsShowWhileHandled == Spec => []ErrorsShownWhileHandled
<1>1. Init => OverflowsSound /\ StatesSound
  BY InitStatus
<1>2. CoreInv /\ StatesSound /\ [Next]_vars => StatesSound'
  BY StatesStep
<1>3. CoreInv /\ OverflowsSound /\ [Next]_vars => OverflowsSound'
  BY OverflowsStep
<1>4. CoreInv /\ OverflowsSound /\ StatesSound => ErrorsShownWhileHandled
  BY StatusSound
<1> QED BY <1>1, <1>2, <1>3, <1>4, CoreIsInvariant, PTL DEF Spec
=============================================================================
