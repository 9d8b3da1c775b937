# Formal models of Zephyr_vehicle_diagnostics

The repository is the firmware of a small vehicle network on Zephyr: a VCU and
seven sensor nodes on one CAN bus, with common code for safety supervision,
transport protocols and diagnostics. These modules model the parts that decide
something: who stops when, what a message handler is given, what a recovery
leaves behind. Everything is translated from the C code under `src/`; a line
number in this file or in a comment is a line of that code.

    tlc -workers 2 -config MCSafetyCore.cfg MCSafetyCore.tla
    tlapm SafetyCore_proof.tla

and likewise for the other `*_proof` modules; the larger ones (`TaskMonitor_proof`,
`J1939_proof`) take tlapm some minutes.

## The system

| component | state it keeps | operations | hard behaviour | what makes it correct |
|---|---|---|---|---|
| ASIL monitor, `common/safety/asil.c` | `safety_ctx`: state, counters, recovery attempts, expected checkpoints; event queue | monitor loop, `attempt_recovery`, `register_safety_checkpoint`, `log_safety_event`, `enter_safe_state` | state and table of checkpoints written by every thread without a lock; the recovery sleeps between its writes; `enter_safe_state` never returns | states published match what is going on; outputs off before the VCU is told; a thread that stops stays stopped |
| error handler, `common/error/error_handler.c` | one retry count per error type under `error_mutex` | `handle_error`, `notify_error_recovery` | recovery runs outside the lock, between two charges to the budget | the budget is never exceeded, and only failures use it up |
| emergency handler, `vcu/src/emergency_handler.c` | mutex, published state, count | `handle_emergency_event` | two exits into a function that never returns, with a mutex to release | one emergency at a time; each is recovered or stops its thread |
| J1939 transport, `common/can_protocol/j1939.c` | one receive session and buffer per node | `j1939_send_tp_data`, RTS/DT/CTS/ACK/abort handlers | broadcast frames, senders that give up, time-outs looked at only on arrival; a receive filter that lets nothing through | a handler gets one whole message; packets where they belong |
| task monitor, `common/safety/task_monitor.c` | table of tasks, per-task statistics, three kinds of mutex | scan, register, reset, report, recover | nested mutexes kept by a stopped thread, checks made before a lock, fields read after an unlock | only critical tasks stop the system, an overdue one does; no deadlock while nobody stopped |
| safety goals, `common/safety/asil_monitor.c` | goals with time of last verification | register, monitor thread | nothing is locked and the table is counted up before it is filled; a goal verified late once is never verified again | a goal found late is dealt with until it is verified again (it never is) |
| memory protection, `common/safety/memory_protection.c` | regions, checksums, redundant partners | protect, set up a redundant pair, periodic check and repair | two-step set-up that can fail half way; a checksum taken once | a legal write is not a violation; a damaged copy is repaired |
| control flow, `common/safety/control_flow.c` | recorded checkpoints | record, verify | an index that outgrows the table it is compared with | (no caller) |
| runtime statistics, `common/safety/runtime_stats.c` | per task: run times, moving average, snapshots | start, end, verify | a counter incremented at both ends and looked at in between; names that are cut off when stored | what is measured is the run that was made; a history passes its own verification |
| redundancy, `common/safety/redundancy.c` | triple copies | write, vote | | the vote returns a majority (no caller) |
| sensor validation, `common/sensor_utils/sensor_validation.c` | ring of readings per sensor | register, validate, reset, vote | ring indexed with a mask that is not of the form 2^n - 1; stores under no lock against a reset field by field | what is recorded as valid is within the limits |
| diagnostic service, `common/diagnostic/diag_service.c` | session, security level, active routine | session and security requests, routines | transition validated before the lock; routine left active by a failure | only allowed session transitions; lockout |
| ISO-TP and CAN-FD, `common/can_protocol/isotp.c`, `can_fd.c` | receive buffer and index | send, receive | frame types compared unshifted; frames that fail to be sent without anybody noticing | what is received is one message, whole |
| signals, `common/signals/signal_manager.c` | message queue, table of callbacks | send, receive, register, signal thread | two kinds of consumer of one queue; callbacks registered under no lock | what is sent is consumed once, in order |
| events, `common/events/event_manager.c` | ring | publish | a ring whose head never moves | a full ring accepts events again |
| power manager, `common/power/power_manager.c` | policy locks | mode changes | locks taken and put back in different modes | locks balance (unreachable) |
| VCU path, `vcu/src/main.c`, `mqtt_handler.c` | MQTT client, its work item | boot, CAN callback, MQTT events, connecting, publishing | a reconnection behind a call that does not return, in two threads; a missing echo that looks like an obstacle | a lost link is set up again (it never is); no near obstacle without a warning |
| V2I, road, traffic, `vcu/src/v2i_handler.c`, `road_monitor.c`, `v2x_router.c`, `common/v2i` | V2I context, road segments, nodes | three messages, road reports, routing | a search, a check and a copy of several threads under no lock; a router that passes one type | a hazard is announced when it was reported before |
| WiFi configuration, `vcu/src/main.c`, `wifi_config.c` | two static buffers, credentials, secure storage | writes over BLE, store, connect | fragments in any order over an older value | the value last written is the one stored (a shorter one is not) |
| sensor nodes, security, DNS | little | read and send, wrap library calls | I/O | |

Interaction. The threads of a node share the safety core. Application threads
(the CAN callback, the MQTT thread, main) call `handle_error` and
`handle_emergency_event`; the task monitor calls its own `handle_task_error`.
Each of these, and the monitor itself, may end in `enter_safe_state`, which
marks the state, cuts the outputs, tells the VCU and then keeps *the calling
thread* in a loop for ever. Nothing stops the other threads, and that is where
most of the interesting interleavings come from. Nodes meet on the CAN bus only.
The services below the safety core (goals, run times, signals, events, ISO-TP,
the VCU's message path, road reports, WiFi) share no variable with each other;
`handle_error` is the one thing the VCU path takes from the core, and all it
needs of it is that an MQTT or BLE error has no recovery there, so that the
call does not return.

## Modules

| module | models |
|---|---|
| `Asil` | the monitor loop, `attempt_recovery`, checkpoints, the event queue; `enter_safe_state` statement by statement for every thread |
| `ErrorHandler` | `handle_error` and `notify_error_recovery`, with the recovery between two charges under `error_mutex` |
| `EmergencyHandler` | `handle_emergency_event` with its mutex and retry loop |
| `SafetyCore` | composes the three over one program counter per thread; all properties of the safety core |
| `SafeStop` | abstract: what a caller of `enter_safe_state` relies on |
| `SafetyCore_proof` | theorems about `SafetyCore` |
| `J1939` | nodes with transport sessions on one bus |
| `J1939_proof` | theorems about `J1939` |
| `TaskMonitor` | the scan and the calls of application threads, with every mutex |
| `TaskMonitor_proof` | theorems about `TaskMonitor` |
| `MemoryProtection` | set-up of regions, guards and redundant pairs, the periodic check and its repair |
| `MemoryProtection_proof` | theorems about `MemoryProtection` |
| `Diagnostics` | sessions, security access and routines of several testers |
| `Diagnostics_proof` | theorems about `Diagnostics` |
| `SensorValidation` | readings against a history, reset and time-out, votes on triples |
| `SensorValidation_proof` | theorems about `SensorValidation` |
| `SafetyGoals` | registration of goals, in its check, increment and copy, against the loop over them |
| `RuntimeStats` | starts and ends of executions, moving average, snapshots |
| `RuntimeStats_proof` | the theorem about `RuntimeStats`, as the service it is in `Services` |
| `Notifications` | signal queue with its thread, receivers and registrations, ring of events |
| `IsoTp` | one node sends messages to another, among frames of others |
| `V2x` | V2I messages, road segments reported by several threads |
| `Vcu` | extends `V2x`: boot, MQTT, the CAN callback, and the collision node at the other end of the bus |
| `WifiConfig` | credentials written in fragments |
| `Services` | composes the seven; a behaviour is one of one service |
| `Services_proof` | theorems about `Services` |
| `MC*` | small instances |

How state and actions correspond. A variable has the name of the C variable or
field it stands for. A history variable, which the code does not have, says so
at its declaration. An action is one stretch of code another thread cannot look
into: up to the next unlocked access to shared state, the next lock, sleep or
call that blocks. `pc[t]` says at which of these a thread is.

Where several threads fill a table under no lock (checkpoints, goals, callbacks,
road segments), the check of its size, each store and the increment are steps
of their own, and the count a thread goes on with is the one it has in a
register or a new one (`LoadCountAgain` and its likes), since the C code allows
a compiler both. So two threads may take one entry, or the count may pass the
end of the table. What a store behind a table hits is not modelled; what a loop
finds there is a free choice.

*SafetyCore.* `current_state` is written without a lock, so every write is a
step. `register_safety_checkpoint`, `LoadCountAgain`, `StoreExpected` and
`CountCheckpoint` are lines 65 to 71 of `asil.c`, with a count of eight bits. The
comparison in `verify_control_flow` is one step, which finds a mismatch if one
is there that no registration under way can take back (`Settled`), and may find
one if there is any (`Mismatch`). An error type above the array of counts is in
`OutOfRange`: its call reads behind the array. The monitor goes through `check_flow`, `check_memory`,
`check_redundancy`, `sleep` and, after a violation, `attempt`, `backoff`,
`recovered`. Whether memory or a redundant variable is found damaged, and
whether a hardware recovery succeeds, is a free choice of the environment (at
most `MaxFaults` damages). The event queue is its length, which is all that
`log_safety_event` looks at. `error_counts` and `MaxRetries` are those of
`error_handler.c`; `failures` is a history variable. Undefined functions
(`verify_memory_integrity`, the recoveries) are external and return either
result.

*J1939.* A frame carries what the handlers look at: kind, PGN, size, number of
packets, sequence number and, instead of eight bytes, which message and packet
they are from. Time is counted in the 50 ms the sender sleeps between packets:
a session has an age in such ticks, and expires as line 104 does. `can_send`
fails at most `MaxFailures` times. A node may leave up to `MaxQueue` frames
unprocessed, which is how messages are delayed. `Listening` are the nodes that
hand frames to `j1939_process_message`: the one filter of `j1939_init` (37-44)
has no callback and matches the node's own source address, so with it alone
nobody listens, and nothing under `src/` installs another. The runs assume that
programs do, and the theorems hold for every set of listeners, the empty one
included.

*TaskMonitor.* Mutexes are recursive and have an owner and a depth. Time is a
flag per task, `overdue`, that the environment raises: the scan uses the time
only to compare. `enter_safe_state` is the label `stopped`, because the mutexes
the thread keeps are what matters here; its statements are in `Asil`.
Execution time, free stack and output of a task are chosen when they are looked
at. `stack_usage_peak` follows the code. `get_task_safety_status` (295-310)
takes no mutex and changes nothing: whatever state a task is in at any moment is
what it may return, and the properties are about all of them. Direct calls of
`recover_task_error` are not counted in `MaxCalls`: an application may make them
for ever.

*MemoryProtection.* Memory is counted in pages, and the checksum of a region is
what its pages held when it was protected, so two contents never collide.
`regions` is the table up to `num_regions` as a sequence; the three regions the
initialisation protects (`Flash`, `Sram`, `Peripherals`) are constants, since
the board's memory map is. `region_mutex` is
held for a whole set-up, which is one step, and for a whole check; but the
memory that is checked is under no lock, so each look of the check at memory
is a step of its own (`pc`, `i`), with writes and damage in between.

*Diagnostics.* What is done under `context_lock` is one step; reading the
session before it (69), taking the time of a key before it (107) and running a
routine after it (151) are others. `now` is the 64-bit time, of which the code
sees `now % TimeRange`. Which key is right depends on the time of the last
attempt, so a key is free to be right or wrong.

*SensorValidation.* One sensor, whose thread uses its history under no lock,
and a supervisor that resets it. The stores of value, time and index (222-224)
are three steps, each of which may use the index of the one before or load it
again (`LoadedIndex`); so are the three fields of `reset_sensor_history` and the
statistics after them, under a `stats_mutex` that the thread takes for its
statistics only. `torn` is a history variable: a reset fell into the call. Times
of readings are 64 bits wide, those in the history `TimestampRange`. The masked index is computed bit by bit as in
line 194. Triples share no state with all this; they are voted on before the
first reading, to keep the two state spaces apart.

*SafetyGoals.* One pass of the loop is a step. A registration is its check,
`CountGoal` and `CopyGoal`: between the two the loop meets an entry of zeros,
and if that is not late it calls a NULL `verify_func` and is `crashed`. The
repository calls neither function, so who calls them is assumed: two threads
that register, at any time, and one that monitors. Time is 64 bits wide, and
what the code reads of it is `goal_clock % GoalTimeRange`. Verification may
succeed or fail; a recovery is looked for by id as line 35 does, and has no
result (`recovery_func` returns `void`). `late_since` is a history variable.

*RuntimeStats.* `runtime_mutex` is held from the first line of a call to its
last, so a call is a step. Names are long or short, because a long one is cut
off by `strncpy` and then compared whole: it gets a new entry with every call.

*Notifications.* A message queue of Zephyr is a sequence; `signal_receive` and
the thread both take its head. Each signal has a number, so that it can be said
where it went. A callback is one step, and the steps of a registration may fall
between two of them. An entry that two registrations counted and neither filled
has a NULL callback; calling it sets `signal_fault`, which ends the thread. No event has a handler, since nothing defines `subscribe_to_event`.

*IsoTp.* A byte is the message it belongs to and its position there; only
`data[0]` of a frame is a number, since the branches look at it. A send may
fail unseen. A frame of another node is refused, or accepted if its id has all
bits of `rx_id`, after it was taken from the queue in either case.

*Vcu.* Where `main`, the MQTT thread and the work queue are is `vcu_pc`; after
`handle_error` a thread is `stopped`. The first connection is scheduled by an
action of the environment (`ScheduleFirst`), because nothing under `src/` does
it. An obstacle is its distance in cm; what the collision node sends of it is
that in whole metres, or 0. The JSON of a publication is left out, its
acknowledgement is not.

*V2x.* Whether a light is near enough to brake is free, as its distance may be
missing from the message. `update_road_condition` is called by `Reporters`: its
search is one step, its check, increment and copy are others. `overrun` is a
history variable: a search has looked behind the table. The router keeps no
state and, with `CONFIG_V2X_EXPERIMENTAL` at 0, has no effect on what it is
handed, so it is not there.

*WifiConfig.* A write has an offset and bytes, NUL among them; what `strlen`
finds in a full buffer depends on the byte behind it and is one of two numbers.
Both writers are static buffers that nothing clears. `nul_written` is a history
variable: a write had a NUL in it.

*Services.* The seven share no variable, so interleaving them would multiply
their states and show nothing. The initial state picks one (`service`); road
reports, which share `V2x` with the VCU path but no variable that a property of
the other is about, are one of their own.

## Runs

| run | shows | bounds |
|---|---|---|
| `safety_core` | safety of the safety core, and that it implements `SafeStop` | monitor and 2 symmetric threads, 2 error types, one recoverable and one out of range of the array, 1 known and 1 unknown emergency, a table of 1 checkpoint and the values 0 and 1, 1 fault; limits as in the code, except the event queue (2 for 100) and emergency retries (2 for 3) |
| `safety_live` | liveness of the same | limits lowered to 1, no symmetry |
| `j1939` | what handlers get, on two nodes that both send and listen | buffer of 3 packets, time-out after 2 ticks, 2 + 1 transfers, 2 frames under way, 1 failed send |
| `j1939_mixed` | violated: a handler gets bytes of two messages | 2 transfers, 1 failed send |
| `j1939_largest` | violated: a message of 1785 bytes does not arrive | the constants of the code |
| `task_monitor` | safety of the task monitor | a critical task and one that is not, a table of 2, 2 misses, 2 calls of two threads and any number of recoveries |
| `task_monitor_live` | calls return, overdue critical tasks stop, a stop ends supervision | 1 miss, 1 call and any number of recoveries |
| `task_register_race` | violated: an entry behind the end of the table | two threads that register |
| `memory_protection` | the table of regions, and repair of damaged pairs | 4 pages with 2 contents: flash at the null address, two of RAM of which one is writable, one of peripherals; a table of 3; 2 calls of two threads; one page damaged |
| `diagnostics` | session changes, wrong keys, routines | 2 symmetric testers, 5 requests, a limit of 2 keys, a lockout of 2 ticks, 5 ticks |
| `sensor_validation` | ring, filter, statistics, time-outs, votes | 4 values, one out of range and two a rate apart, 4 readings, 8 ticks with 6 that fit a timestamp, 1 reset; triples of 5 values around a tolerance of one step |
| `services` | goals, run times, notifications, ISO-TP, warnings, the MQTT link and WiFi credentials | 2 goals, with and without a recovery under one id, 2 registrars for a table of 1, a clock of 6 values that runs for 7 ticks; 1 short and 1 long task name, a table of 2, 6 calls, a snapshot every 2 executions; 2 ids, 1 receiver, a queue of 2 and 3 signals, 2 registrars for a table of 1 callback, a ring of 4 and 5 events; messages of 3, 8 and 300 bytes, 2 of them, 2 frames under way, buffers of 2 and 8; 3 segments and 2 reporters for a table of 1; obstacles at 50 cm and 4 m; buffers of 3 characters |

Why the bounds are enough. Every race in `asil.c`, `error_handler.c` and
`emergency_handler.c` is between two threads, or between the monitor and one
thread: each shared variable is read and written at most twice on a path, so
two threads and the monitor meet in every order of those accesses. Three
retries are kept because the second charge of a failed recovery makes the
budget count in steps of two. In `J1939` three packets are the smallest message
with a packet that is neither first nor last, one failed send is enough to
leave a session behind, and a second transfer to run into it; two time units
are less than the train takes when it is delayed and more when it is not. In
`TaskMonitor` two tasks are needed for a name lookup to find the wrong one and
for one stats mutex to be held while another is wanted. In `MemoryProtection` a
table of three can be full before, between and after the two halves of a pair,
and a check meets a pair in both orders of its copies. In `Diagnostics` a race
is between a check and one other commit, so two testers show it, and five
requests are two lockouts of two keys and one more. In `SensorValidation` the
index has a period of two, so four readings are two periods, and the time wraps
within the run; each of the three stores of a reading meets each of the steps of
a reset. Where threads fill a table under no lock, one entry and two threads
are enough to take it twice, to leave one out and to go past the end; that a
count of eight bits comes round needs three threads and is left to the proofs.
In `services` a goal is found late, recovered and met again before the clock
comes round; every queue, table and ring of the code gets full; 8 bytes are the
shortest message of two frames, and 300 one whose length has high bits, so that
its first frame is accepted with the wrong length.

`diagnostics`, `memory_protection`, `sensor_validation` and `services` stop at the bounds of their calls and of the time, and a stopped
thread of the VCU is the end of what it does, so deadlock is not checked there;
none of them waits for anything but one mutex. The theorems below have no
bounds at all.

What the passing runs say:

- The safety state can be trusted in one direction only (`RecoveryAccounted`).
  RECOVERY is seen only while the monitor recovers and the monitor's own
  SAFE_STOP is final; a SAFE_STOP of another thread is lost, but to nothing
  else than the two writes of `attempt_recovery`
  (`SafeStopLostOnlyToRecovery`), although line 195 of `asil.c` says that it
  waits for a reset or for manual intervention.
- The retry machinery of `attempt_recovery` (limit, back-off, FAIL_SAFE) is
  dead: no second attempt is ever made (`NeverASecondAttempt` in the same). A
  control-flow violation never recovers, so one registered checkpoint other
  than 0 stops the monitor, provided that no registration is under way that can
  still overwrite it or count it out again (`NonzeroCheckpointStopsMonitor`).
  Two registrations at once can lose a checkpoint, or count one that was not
  stored.
- Retries stay within MAX_RETRIES, are made of calls in flight and failures
  only (`BudgetRespected`), and do not stop a thread unless a recovery failed.
  An error type out of range of `error_counts` has no budget: what is behind the
  array decides.
- The emergency mutex is never kept by a thread that stops, so every emergency
  ends (`EmergencyConsistent`, `EmergencyConcludes`); the published emergency
  state outlives one that stopped a thread.
- Without failed sends a J1939 handler gets whole messages, its packets in
  place; the size checks behind the session set-up never fail
  (`SessionsSound`); a prompt message arrives at every node that listens.
- In the task monitor no order of the mutexes deadlocks while nobody has
  stopped; only a critical task's misses, overrun or stack stop a thread
  (`EscalatesAtLimit`); a reader of the status, who takes no mutex, sees
  TASK_STATE_ERROR while a thread handles that task's error and at no other
  time (`ErrorsShownWhileHandled`); one stop takes the supervision of all tasks
  with it. An overdue critical task does stop a thread, unless somebody calls
  `recover_task_error` for it again and again: that takes its misses back, and
  the limit need never be reached.
- Protected regions never overlap and pairs know each other, in whatever order
  threads set them up (`RegionsWellFormed`): this is what the recursive
  `region_mutex` is good for. A pair with one damaged copy is repaired, also
  when the damage comes in the middle of a check (`DamageIsRepaired`), except
  at the null address, which the check takes for an unused entry. Once the
  initialisation has protected the whole SRAM, though, every later call for an
  address in it is refused as an overlap: only pairs set up before it exist.
- The diagnostic service leaves the graph of allowed session changes in one
  case only, when another request commits between the check and the commit of
  this one (`ForbiddenOnlyIfOvertaken`). The lockout holds except for a request
  that took its time before a later attempt (`WrongKeysLimited`). Two routines
  run at once only after somebody has stopped the first, which does not end it
  (`RunningIsActive`).
- What a sensor's filter records as valid is within the limits of the sensor,
  with one exception: a reset that falls between the stores of a reading can
  leave a live time beside a cleared value, and 0 is then recorded
  (`StatisticsOfReadings`). A sensor that timed out once is refused until it is
  reset (`TimeoutLastsUntilReset`). The vote on triples is sound, also when
  repeated on its own results (`VoteNearMedian`).
- A safety goal that is late once is late for ever, whatever its recovery does,
  since only a verification refreshes its time and lateness forbids one
  (`LateGoalsStayLate`). A registration can take the entry of another, and the
  goal monitor can be stopped, or crash, on a goal that is counted and not yet
  copied.
- The maximum of a task whose starts and ends alternate is its longest run, and
  whatever snapshots there are pass `runtime_stats_verify_history`
  (`PairedTasksAreMeasured`).
- Signals are consumed once each and in order, though which consumer a signal
  meets is luck, and one with the wrong id is lost; the event ring takes one
  event less than its size in all (`NotificationsAccounted`). Racing
  registrations may make the signal thread call NULL; they do not disturb this.
- A call of `isotp_receive` that returns a byte of a message of up to 7 bytes
  returns that message, and no call returns bytes of two
  (`ShortMessagesWhole`).
- A lost MQTT link stays down, in whichever thread the loss is noticed first
  (`LossIsFinal`): `handle_error` comes before the reconnection.
- No obstacle nearer than 1 m whose frame is handled goes without a warning, and
  a road segment is announced when it was reported before, not for its first
  report (`WarningsFollowReports`). Segment 0 is an exception: an entry that is
  counted and not yet copied passes for it; and once racing reporters have made
  the search leave the table, nothing is said.
- Credentials written over BLE never get shorter until a restart, as long as
  what is written has no NUL in it (`CredentialsOnlyGrow`).

What the violated runs say is listed under `findings` in `PROJECT.json`, each
with the line of the code and the comment or test it disagrees with.

## Further disagreements

These were met while modelling. The models do what the code does; no property
of a passing run states either side, and they have no run of their own, since
the line of the code that shows each needs no interleaving.

| code | promised |
|---|---|
| `stack_usage_peak` is never written with anything but 0 | `tests/task_monitor_test.c:114` expects it to rise, `docs/api/asil_compliance.md:8` lists stack tracking under Complete |
| 10 slots indexed with `& 9` (`sensor_validation.c:194`, 224): of ten slots two are used and every second reading is compared with nothing | `tests/sensor_validation_test.c:52-56` expects the third reading to fail the rate check |
| for the same reason the filter averages one reading at most, the one just stored | `sensor_validation.c:226` "moving average", `test_noise_filtering` |
| `handle_goal_violation` returns after any recovery; `recovery_func` returns `void` (`asil_monitor.h:10`), so none can fail | `asil_monitor.c:42` "no recovery function or recovery failed, enter safe state" |
| frame types in the low half of `data[0]` are looked for in the high half: of a message of more than 7 bytes some byte is never delivered | `README.md:8` and `designplan.md:28,98` (ISO-TP), `isotp.c:55,126` (multi-frame, sequence validation) |
| the router of this build passes safety messages only (`v2x_router.c:7-23`) | `tests/v2x_test.c:155-159` and 212-214 expect traffic messages to be routed |
| the executions are counted at both ends, so the count is odd at every end of a task whose calls alternate and it never gets a snapshot (`runtime_stats.c:118`) | `runtime_stats.c:117` "Store historical data periodically" |
| the collision node sends whole metres; the VCU compares with 100, so any reading warns | `collision_node/src/main.c:37` "in cm", `vcu/src/main.c:98` "Less than 1 meter" |

## Fairness

Threads are scheduled by a preemptive kernel and all sleeps and locks end, so a
thread that can step does step: weak fairness of the steps of each thread. A
mutex is another matter, since a thread waiting for it is enabled only from
time to time; `k_mutex_unlock` of Zephyr hands the mutex to the first waiter, so
a waiter is not passed over for ever, which is strong fairness of the steps that
take one (`EmergencyStep`; all steps of a thread in `TaskMonitor`). Calls by the
application, damage, failed recoveries and missed deadlines are never fair: no
property relies on the environment doing anything. `MemoryProtection` assumes
weak fairness of `periodic_memory_check` alone: its thread runs in an endless
loop (37-42), and set-ups hold the mutex for one step.

## Theorems

`SafetyCore_proof` proves for every set of threads and error types and all
limits allowed by the assumptions of the modules:

| theorem | says |
|---|---|
| `TypeCorrect` | `TypeOK` |
| `RecoveryStateCorrect`, `RetryLoopIsDead`, `ViolationsCorrect` | the three invariants of the monitor that the runs check |
| `MonitorStopCorrect` | one more: the monitor's own SAFE_STOP is final |
| `ControlFlowStops` | the action property `ControlFlowNeverRecovers`: a settled mismatch stays, and nothing recovers beside it, until the count has come round to 0 |
| `SafeStopLoss` | the action property `SafeStopLostOnlyToRecovery` |
| `OutputsCorrect` | `OutputsCutBeforeNotice` |
| `Refinement` | `SafetyCore` implements `SafeStop` |
| `RetriesCorrect` | `RetriesWithinBudget` |
| `EmergencyMutexCorrect`, `EmergencyStateCorrect` | the two invariants of the emergency handler |
| `RecoveryCorrect`, `BudgetCorrect`, `EmergencyConsistency` | the same as the runs check them, joined in `RecoveryAccounted`, `BudgetRespected` (with the count of calls in flight) and `EmergencyConsistent` |
| `RefusalNeedsFailure` | the action property `EscalationNeedsFailure`, for at most MAX_RETRIES threads |

Assumptions: the monitor is not an application thread, `NoThread` is no thread,
`Recoverable` and `OutOfRange` are sets of error types, checkpoint values and limits are natural
numbers, MAX_RECOVERY_ATTEMPTS is at least 2 (it is 3; with 1 the first attempt
would be the last one, and the FAIL_SAFE branch would not be dead), and
`Threads` is finite, since calls in flight are counted. `RefusalNeedsFailure`
assumes one thing more, that there are no more threads than retries: with more,
calls that are all in flight use up the budget and the last one is turned away
although nothing has failed, which is what the code does.

The argument. `TypeOK` is inductive; of the table of checkpoints it says no
more than the C types, because racing registrations may count past its end. It
says not only that values have their types but which code a thread can be in,
which is what separates the steps of the monitor from those of the application
threads. The four invariants of the
monitor are inductive only together, as `MonitorInv`: that the state is
RECOVERY only while recovering rests on the labels the monitor can leave,
whether a violation is accounted for on there being no second attempt, and
that on what the monitor's own stop leaves behind. Lemma `ThreadLeavesMonitor`
says once what an application thread can do to all of this: write SAFE_STOP
and nothing else; checkpoints are no part of it. `OutputsCutBeforeNotice` is inductive with `TypeOK` alone,
because it speaks of every thread past the cut; the refinement uses it to show
that a thread halts only with the outputs off. A settled mismatch stays (`SettledStays`)
because a registration that begins later finds the count above its entry, and
loading the count again never brings it back below. `EmergencyExclusive` and
`EmergencyStateAgrees` need each other: that the state is ACTIVE while the
mutex is held is what makes clearing it safe. A thread is turned away with the
budget full (`TurnedAway`); the accounted budget is made of calls in flight, of
which this thread is none, and of failures, so some are failures.

`Diagnostics_proof` proves for any number of testers, any levels, routines and
limits above 0:

| theorem | says |
|---|---|
| `TypeCorrect` | `TypeOK`, and with it the limit of the attempts |
| `SessionsCorrect` | the action property `ForbiddenOnlyIfOvertaken` |
| `RoutinesCorrect` | `RunningIsActive` |
| `WrongKeysCorrect` | `WrongKeysLimited` |

Here too the types come first. A request about to commit was let through from
the session it remembers (`Validated`); so a change outside the graph means
that this is no longer the current session. That one routine runs at most is
inductive (`RoutineInv`) because a start needs an inactive routine, and an
inactive one means that all that still run have been stopped. The wrong keys
are counted from both sides (`KeysInv`): those since the last lockout are in
`security_attempts`, and a lockout is as long ago as the 32-bit difference says
as long as the clock has not come round.

`Services_proof` proves for any goals, signals, receivers, registrars, reporters,
message lengths, obstacles, segments and characters, and for tables, queues and
buffers of any size:

| theorem | says |
|---|---|
| `TypeCorrect` | `TypeOK` |
| `GoalsCorrect` | `LateGoalsStayLate` |
| `NotificationsCorrect` | `NotificationsAccounted` |
| `LinkLossIsFinal` | the action property `LossIsFinal` |
| `WarningsHaveReports` | `WarningsFollowReports` |
| `CredentialsNeverShrink` | the action property `CredentialsOnlyGrow` |
| `ShortMessagesArriveWhole` | `ShortMessagesWhole` |

Assumptions: the sizes are natural numbers above 0 (buffers above 1), a clock
has a range, `NoSignal` is no signal, 0 is an id of a signal and of a segment
(that of an entry not yet written), `Nul` is no character, obstacles are
nearer than the 514 cm an echo takes 30 ms for.

- Goals (`GoalInv`): until the clock comes round its readings are the time, and
  what was late when it was found late is later now (`FoundLate`,
  `BeforeWrap`). A copy makes the entry another goal's, and ends what was found
  of the former one.
- Notifications (`SignalInv`, `RingInv`): numbers pass through queue, thread
  and callbacks in order of size, so the oldest signal in the queue is in none
  of the later places; the tail of the ring is the number of events it took. The
  table of callbacks does not occur in either, so no race of registrations
  matters.
- Link (`LossInv`): connecting is scheduled only while there is no link and
  none was lost.
- Warnings (`BusInv`, `RoadInv`): a distance on the bus is below 100, whatever
  is in front; an id that is in the table, or that a reporter is about to copy
  there, was reported (`Reported`) or is 0, so what is found there is reported
  for the second time.
- Credentials (`Covers`): each buffer holds at least the text that was stored
  from it, without an end before it, so a string that ends where a write ends
  is no shorter. This holds until a NUL is written (`Covered`).
- ISO-TP (`Sound`, `Underway`): a frame has bytes of one message at most, and of
  one that fits into a frame all of them and its length; what is sent in pieces
  does not fit.
- Types (`TypeInv`): most need nothing but themselves. The bytes of frames come
  from the ISO-TP invariant, the obstacles of warnings from what is on the bus
  (`VcuTypes`), the characters of credentials from what `strlen` finds, and the average of
  run times from `RuntimeStats_proof`.

`RuntimeStats_proof` proves of the same composition, for any names and sizes:

| theorem | says |
|---|---|
| `PairedTasksMeasured` | `PairedTasksAreMeasured` |

The moving average is a sum over the window, which is proved to be
at most the size of the window times the largest time (`WindowSumBounded`): the
library's induction is not available here, so the proof looks at the least place
where the sum would be too large (`LeastNumber`). From it follow the types of the
module (`StatsTypes`), which `Services_proof` uses. The entry of a task whose
starts and ends alternate has the start of the run under way, and the longest
run so far as its maximum (`Recorded`, `Measures`). Names that fit are found
again by name, so there is one entry for each. A minimum never exceeds the
maximum of the same entry (`Ordered`), in snapshots neither.

`TaskMonitor_proof` proves for any application threads, tasks, table size and
limit of misses above 0:

| theorem | says |
|---|---|
| `TaskMonitorTypeOK` | `TypeOK`, with the owner of each mutex |
| `MissesEscalateAtLimit` | `EscalatesAtLimit` |
| `ErrorsShowWhileHandled` | `ErrorsShownWhileHandled` |

The argument begins with the mutexes: `MutexSound` says at which places a
thread holds a `stats_mutex` and when the monitor holds one twice, because its
error handling locks what the scan has locked. `ErrorSound` ties an error under
way to the first task of its name, so that who is stopped is known from the
task; `ScanSound` says that an error of the monitor is about the task it scans.
On these (`CoreInv`) rest the places of the scan at which a task may be at its
limit (`Escalating`) or show an overflow (`Overflowing`); that a task in the error
state has a thread at it follows from where that state is set and taken back
(`StatesSound`). The first two are invariants of
the first task of each name only: of two tasks with one name the second is
never found by its recovery, and the properties say so.

`J1939_proof` proves for any nodes, messages, buffer, time-out and number of
failures:

| theorem | says |
|---|---|
| `TypeCorrect` | `TypeOK`: no packet counter leaves its `uint8_t` |
| `SessionsCorrect` | `SessionsSound` |
| `WholeBetweenTwo` | `WholeUnlessSendFailed`, for two nodes |
| `PromptDelivery` | `PromptMessagesArrive`, for any set of nodes that listen |
| `SlowNeverDelivered` | `SlowNeverArrive`: what an undisturbed sender's receivers are ever given fits the time-out |

The first two follow from what single frames and sessions look like
(`FramesOK`, `SessionOK`). The third is about the order of the train. Packets on
the way are in order, those of an announced message are behind its RTS
(`TrainSound`), and an open session has what its next number says in the
buffer and the rest still on the way or to be sent (`SessionOf`). With three
nodes a session of one sender takes the packets of another, since a session
does not know its sender, and with one failed send it takes the packets of the
next message (`j1939_mixed`): the two hypotheses are what the code needs.

The last two together say exactly which messages arrive when nothing goes wrong,
between any number of nodes: those of up to `TimeoutTicks + 1` packets, and no
others. `SlowNeverArrive`, which is defined beside its theorem, is
`j1939_largest` for every message and instance. The argument is about time: a
node that follows an undisturbed sender has at most one packet of the train
unread, its session expects that packet or the one sent next, and is as old as
the packets it has waited for (`KeepsStep`); answers of third nodes do no harm,
because all receivers refuse, expire and end together. Three hypotheses:

- the buffer is no longer than 255 packets of 7 bytes, the code's 1785: behind
  that `num_packets` wraps;
- `TimeoutTicks + 1` is below 255 (the code's is 16): `next_packet` is a
  `uint8_t`, and would be back at 0 before the time-out;
- no message has a size of which `num_packets` is 0 (1786 to 1792 bytes), unless
  there are two nodes only: such an RTS makes one receiver abort, and the abort
  closes a session that another has just opened. With three nodes and such a
  size among the messages, TLC finds the loss.

`SensorValidation_proof` proves for any readings, limits and tolerance:

| theorem | says |
|---|---|
| `SensorTypeOK` | `TypeOK`: the ring is read and written at its slots, whatever a reset does to the index |
| `ValidReadingsWithinLimits` | `StatisticsOfReadings` |
| `TimeoutIsFinal` | `TimeoutLastsUntilReset` |
| `VotesNearMedian` | `VoteNearMedian` |

What a mask of 9 does is a case analysis over its period of 16 (`Masks`): the ring
is used at two slots (`RingOK`), and the window behind the index sees slot 0 or
nothing (`WindowSlots`), so what the filter finds is what that slot holds
(`FilterFinds`). A reading that no reset has torn is there itself (`WholeOK`);
beside a torn one there is it or nothing (`TornOK`), because a reset holds
`stats_mutex` from its first field to its last, which keeps the thread from a
second call (`ClearedOK` uses the same for the time-outs). A vote stays between
the values it was made of when two agree (`Among`), and a triple that was voted
on has settled (`Settled`), so voting again changes nothing that matters.

`MemoryProtection_proof` proves for any finite memory, any three default regions
in it, any sizes above 0, threads and limits:

| theorem | says |
|---|---|
| `MemoryTypeOK` | `TypeOK` |
| `RegionsCorrect` | `RegionsWellFormed` |
| `CopiesSurvive` | `CopySurvives`, the safety half of `DamageIsRepaired` |

Disjointness and partnership are properties of a table, whichever step made it
(`TableOK`): one region more keeps it so unless it is refused
(`ProtectedKeepsTable`), and so do two that are then marked as each other's copy
(`PairedKeepsTable`). That a half-made pair is kept without marks when its
second half is refused is what makes the case of failure true as well.

`CopySurvives` is defined beside its theorem: after at most one fault, a pair set
up with equal contents and not written since has one good copy. By itself it is
not inductive, since a repair in progress could be about to copy from the bad
one. `PairsSound` adds what rules that out: both copies are in the table with the
checksum of what they held (`Recorded`); without a fault the check never gets
past the comparison of a pair; after one, it is at a copy only with a source that
held what the checksum says. A repair of another pair touches no page of this
one, because the table is disjoint and partnered (`EntryOutsidePair`). TLC
checked `PairsSound` on the instance of `memory_protection`, also with two
faults, before it was proved.

Only model-checked:

- All liveness and fairness, which the prover does not treat, as it does not
  treat ENABLED: that the repair of `DamageIsRepaired` does come, what
  `safety_live` and `task_monitor_live` check, and that nothing deadlocks.

## Not modelled, and why

- Timing of `asil.c`: the monitor sleeps 100 ms and flags more than 50 ms since
  its last cycle (93), so it counts a timing violation in every cycle and calls
  a function the repository does not define. The counter is read by nobody.
- The CPU load of the task monitor and counters nobody reads.
- The elapsed time of back-offs: threads may be arbitrarily slow anyway.
- Registration of J1939 handlers, a constant in the model, and `tp_sem`, which
  nobody takes.
- Sensor nodes but for the collision node's measurement and the frames they all
  send, security and DNS: one thread each around I/O, and wrappers.
- The power manager: `current_state` is ACTIVE at the start and only
  `set_power_state` changes it, which nothing calls but the wake-up from another
  state. Control flow checkpoints and redundant values: no caller.
- What a store behind an overrun table hits (checkpoints, goals, callbacks, road
  segments, counts of an error type out of range): any memory of the program.
  That it happens is modelled, and the loops that read there see anything.
- Two loads in one comparison are taken as one, in `verify_control_flow`, the
  search for a road segment and the checks of a reading.
- The router, which keeps no state.
- ISO-TP: lines 103 to 167 of `isotp.c`, which no frame type reaches.
- VCU: topics, payloads and the BLE connection; `broadcast_v2v_data`, which
  sends over BLE and drops the last byte; `mqtt_event_cb` of `main.c` and
  `wifi_init`, which are registered or called nowhere; the traffic-light table,
  which nothing ever fills (`traffic_manager.c:28`). `mqtt_client_init`, which
  calls a function of its own name, is taken to be the one of Zephyr's library.
- Memory protection: access rights, which the MPU enforces, the fault handler
  (242-267) and the access callbacks.
- Diagnostics: data identifiers, downloads and transfers, whose handlers the
  repository does not define; the DTC and communication settings, which nothing
  reads.
- The averages of the sensor statistics, and functions that log or format.

## Plan

Done, in this order: the safety core with its abstract specification and its
proofs, the transport protocol, the task monitor, memory protection, the
diagnostic service, sensor validation; the services and their proofs; the
counting invariants of the safety core; then which messages of the transport
protocol arrive, and what redundant pairs keep. Every safety property and action
property the passing runs check is proved. What could still be added:

1. Abstract specifications of a redundant pair and of a transport session, each
   with a refinement; `CopySurvives` and the two delivery theorems are what they
   would promise.
2. The CPU load of the task monitor, and the data and DTC services of
   diagnostics if their handlers are ever defined.
