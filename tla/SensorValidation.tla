--------------------------- MODULE SensorValidation ---------------------------
(***************************************************************************)
(* One sensor of src/common/sensor_utils/sensor_validation.c: its thread    *)
(* validates readings against the history of the sensor, a supervisor       *)
(* handles time-outs; or the thread votes on triples of readings.           *)
(*                                                                          *)
(* Statistics are written under stats_mutex, one locked section a step.     *)
(* The history is used by the sensor's thread under no lock; the supervisor *)
(* clears it field by field, with stats_mutex held from the first field to  *)
(* the statistics.  The two loads of one comparison are taken as one.  The  *)
(* averages derived from the statistics are left out.                       *)
(***************************************************************************)
EXTENDS Integers, FiniteSetsExt

CONSTANTS
    Values,           \* readings
    MinValue,         \* params->min_value
    MaxValue,         \* params->max_value
    MaxRate,          \* params->max_rate_of_change, per tick
    Timeout,          \* params->timeout_ms, in ticks
    TimestampRange,   \* 2^32: the history keeps 32 bits of a 64-bit time
    TripleValues,     \* readings of a triple, multiples of 4: averages stay integers
    Tolerance,        \* TOLERANCE, in the same unit
    SensorTimeout,    \* SENSOR_TIMEOUT_MS, in ticks
    MaxTime,          \* bound: ticks
    MaxReadings,      \* bound: readings validated
    MaxResets         \* bound: calls of the supervisor

ASSUME ReadingsAssumption ==
    /\ Values \subseteq Int /\ MinValue \in Int /\ MaxValue \in Int
    /\ MaxRate \in Nat /\ Timeout \in Nat /\ SensorTimeout \in Nat
    /\ TimestampRange \in Nat \ {0}
    /\ MaxTime \in Nat /\ MaxReadings \in Nat /\ MaxResets \in Nat
ASSUME TriplesAssumption ==
    /\ TripleValues \subseteq Int /\ \A v \in TripleValues : v % 4 = 0
    /\ Tolerance \in Nat

HISTORY_SIZE == 10
VALIDATION_WINDOW == 5
Slots == 0 .. HISTORY_SIZE - 1

VARIABLES
    values, timestamps, index,  \* histories[sensor_id]
    sensor_stats,               \* sensor_stats[sensor_id], see Statistics
    pc,                         \* where the sensor's thread is
    reading,                    \* locals of validate_sensor_reading, see Reading
    triple,                     \* the triple and what was made of it, see Triple
    supervisor,                 \* where handle_sensor_timeout or a reset is
    now,                        \* k_uptime_get
    readings, resets,           \* calls so far
    recorded,                   \* history: the valid values in the statistics
    timed_out                   \* history: a reading since the reset came too late

historyVars == <<values, timestamps, index>>
statsVars == <<sensor_stats, recorded>>
supervisorVars == <<supervisor, resets>>
vars == <<historyVars, statsVars, timed_out, pc, reading, triple, supervisorVars, now, readings>>

-----------------------------------------------------------------------------
(* The history and what is looked up in it.                                 *)

Abs(x) == IF x < 0 THEN -x ELSE x

\* x & (HISTORY_SIZE - 1): ten is no power of two, so of x only the bits of
\* 9 = 1001b remain.
Masked(x) == (x % 2) + 8 * ((x % 16) \div 8)

\* Mutant: the uint8_t difference is not masked.
PreviousUnmasked(i) == (i - 1) % 256

Previous(i) == Masked(i - 1)
Window(i) == [k \in 0 .. VALIDATION_WINDOW - 1 |-> Masked(i - 1 - k)]

\* The 32 bits that are stored are subtracted from a 64-bit time.
Elapsed(r) == r.time - timestamps[r.prev]

RateExceeded(r) ==
    /\ timestamps[r.prev] > 0 /\ Elapsed(r) > 0
    /\ Abs(r.value - values[r.prev]) > MaxRate * Elapsed(r)

TimedOut(r) == timestamps[r.prev] > 0 /\ Elapsed(r) > Timeout

\* The moving average over the places of the window that hold a reading.
Filtered(v) ==
    LET used == {k \in 0 .. VALIDATION_WINDOW - 1 : timestamps[Window(index)[k]] > 0}
    IN  IF used = {} THEN v
        ELSE MapThenSumSet(LAMBDA k : values[Window(index)[k]], used) \div Cardinality(used)

EmptyHistory == [s \in Slots |-> 0]
NoStatistics == [total |-> 0, valid |-> 0, range |-> 0, rate |-> 0, timeouts |-> 0,
                 min |-> 0, max |-> 0]

-----------------------------------------------------------------------------
(* Statistics, under stats_mutex.                                           *)

Counted(stats, error) == [stats EXCEPT !.total = @ + 1, ![error] = @ + 1]

\* Mutant: the first reading replaces the zeros only if it is larger.
WithExtremesOfZero(stats, v) ==
    [stats EXCEPT !.min = IF v < @ THEN v ELSE @, !.max = IF v > @ THEN v ELSE @]

\* The minimum is replaced by the first reading only if that one is valid.
WithExtremes(stats, v) ==
    [stats EXCEPT !.min = IF v < @ \/ stats.total = 1 THEN v ELSE @,
                  !.max = IF v > @ \/ stats.total = 1 THEN v ELSE @]

update_sensor_statistics(v, error) ==
    sensor_stats' = IF error = "valid" THEN WithExtremes(Counted(sensor_stats, error), v)
                    ELSE Counted(sensor_stats, error)

-----------------------------------------------------------------------------
(* The sensor's thread: one reading.                                        *)

\* torn is history: a reset fell between the store of the reading and its use.
NoReading == [value |-> 0, time |-> 0, prev |-> 0, slot |-> 0, error |-> "valid",
              filtered |-> 0, torn |-> FALSE]

Goto(label) == pc' = label

\* A step of the thread that leaves the shared state alone.
Private == UNCHANGED <<historyVars, statsVars, timed_out, supervisorVars, triple, now>>

Reject(error) == reading' = [reading EXCEPT !.error = error] /\ Goto("record")

OutOfRange(v) == v < MinValue \/ v > MaxValue

validate_sensor_reading(v) ==
    /\ pc = "idle" /\ readings < MaxReadings
    /\ readings' = readings + 1
    /\ reading' = [NoReading EXCEPT !.value = v, !.time = now, !.filtered = v,
                                    !.error = IF OutOfRange(v) THEN "range" ELSE "valid"]
    /\ Goto(IF OutOfRange(v) THEN "record" ELSE "find")
    /\ Private

FindPrevious ==
    /\ pc = "find"
    /\ reading' = [reading EXCEPT !.prev = Previous(index)]
    /\ Goto("rate")
    /\ UNCHANGED readings /\ Private

CheckRate ==
    /\ pc = "rate"
    /\ \/ RateExceeded(reading) /\ Reject("rate")
       \/ ~RateExceeded(reading) /\ Goto("timeout") /\ UNCHANGED reading
    /\ UNCHANGED readings /\ Private

\* Mutant: a late reading is refused, but the next is compared with it.
CheckTimeoutRefreshing ==
    /\ pc = "timeout"
    /\ \/ /\ TimedOut(reading) /\ Reject("timeouts")
          /\ timed_out' = TRUE
          /\ timestamps' = [timestamps EXCEPT ![reading.prev] = reading.time % TimestampRange]
       \/ ~TimedOut(reading) /\ Goto("store") /\ UNCHANGED <<timestamps, reading, timed_out>>
    /\ UNCHANGED <<values, index, readings, statsVars, supervisorVars, triple, now>>

CheckTimeout ==
    /\ pc = "timeout"
    /\ \/ TimedOut(reading) /\ Reject("timeouts") /\ timed_out' = TRUE
       \/ ~TimedOut(reading) /\ Goto("store") /\ UNCHANGED <<reading, timed_out>>
    /\ UNCHANGED <<historyVars, readings, statsVars, supervisorVars, triple, now>>

StoreValue ==
    /\ pc = "store"
    /\ values' = [values EXCEPT ![index] = reading.value]
    /\ reading' = [reading EXCEPT !.slot = index]
    /\ Goto("stamp")
    /\ UNCHANGED <<timestamps, index, readings, statsVars, timed_out, supervisorVars, triple,
                   now>>

\* The compiler may use the index it stored the value with or load it again,
\* here and below: they differ when the supervisor has reset it in between.
LoadedIndex == {reading.slot, index}

StoreTimestamp ==
    /\ pc = "stamp"
    /\ \E slot \in LoadedIndex :
          timestamps' = [timestamps EXCEPT ![slot] = reading.time % TimestampRange]
    /\ Goto("advance")
    /\ UNCHANGED <<values, index, reading, readings, statsVars, timed_out, supervisorVars,
                   triple, now>>

Advanced(i) == Masked(i + 1)
AdvanceIndex ==
    /\ pc = "advance"
    /\ index' \in {Advanced(i) : i \in LoadedIndex}
    /\ Goto("filter")
    /\ UNCHANGED <<values, timestamps, reading, readings, statsVars, timed_out,
                   supervisorVars, triple, now>>

FilterNoise ==
    /\ pc = "filter"
    /\ reading' = [reading EXCEPT !.filtered = Filtered(reading.value)]
    /\ Goto("record")
    /\ UNCHANGED readings /\ Private

\* The supervisor is between the lock and the unlock of stats_mutex.
Resetting == supervisor \in {"timestamps", "index", "statistics"}

RecordReading ==
    /\ pc = "record"
    /\ ~Resetting
    /\ update_sensor_statistics(reading.filtered, reading.error)
    /\ \/ /\ reading.error = "valid"
          /\ recorded' = recorded \cup {reading.filtered}
       \/ reading.error # "valid" /\ UNCHANGED recorded
    /\ reading' = NoReading
    /\ Goto("idle")
    /\ UNCHANGED <<historyVars, readings, timed_out, supervisorVars, triple, now>>

-----------------------------------------------------------------------------
(* The supervisor.                                                          *)

handle_sensor_timeout ==
    /\ supervisor = "idle" /\ resets < MaxResets
    /\ update_sensor_statistics(0, "timeouts")
    /\ supervisor' = "reset"
    /\ resets' = resets + 1
    /\ UNCHANGED <<historyVars, recorded, timed_out, pc, reading, readings,
                   triple, now>>

\* The readings that are stored and not yet filtered see a reset in part.
Stored == pc \in {"stamp", "advance", "filter"}
Tear == reading' = [reading EXCEPT !.torn = @ \/ Stored]

\* reset_sensor_history, called by handle_sensor_timeout or directly: memset
\* over the fields of the history, then over the statistics.
reset_sensor_history ==
    /\ \/ supervisor = "reset" /\ UNCHANGED resets
       \/ supervisor = "idle" /\ resets < MaxResets /\ resets' = resets + 1
    /\ values' = EmptyHistory
    /\ Tear
    /\ supervisor' = "timestamps"
    /\ UNCHANGED <<timestamps, index, statsVars, timed_out, pc, readings, triple, now>>

ResetTimestamps ==
    /\ supervisor = "timestamps"
    /\ timestamps' = EmptyHistory
    /\ timed_out' = FALSE
    /\ Tear
    /\ supervisor' = "index"
    /\ UNCHANGED <<values, index, statsVars, pc, readings, triple, now, resets>>

ResetIndex ==
    /\ supervisor = "index"
    /\ index' = 0
    /\ timed_out' = FALSE
    /\ Tear
    /\ supervisor' = "statistics"
    /\ UNCHANGED <<values, timestamps, statsVars, pc, readings, triple, now, resets>>

ResetStatistics ==
    /\ supervisor = "statistics"
    /\ sensor_stats' = NoStatistics /\ recorded' = {}
    /\ supervisor' = "idle"
    /\ UNCHANGED <<historyVars, timed_out, pc, reading, readings, triple, now, resets>>

-----------------------------------------------------------------------------
(* Triples.                                                                 *)

Agree(x, y) == Abs(x - y) <= Tolerance
Mean(x, y) == (x + y) \div 2

NoTriple == [primary |-> 0, secondary |-> 0, reference |-> 0, timestamp |-> 0,
             values_valid |-> FALSE, given |-> <<>>, value |-> 0]

\* Mutant: the corrected sensor is one of those that agree.
VotedAgainst(t) ==
    LET p == t.primary  s == t.secondary  r == t.reference IN
    IF Agree(p, s) THEN [t EXCEPT !.primary = Mean(p, r)] ELSE [t EXCEPT !.values_valid = FALSE]

\* What validate_sensor_readings leaves of a triple that is not too old.
Voted(t) ==
    LET p == t.primary  s == t.secondary  r == t.reference IN
    CASE Agree(p, s) /\ Agree(s, r) /\ Agree(p, r) -> t
      [] Agree(p, s) /\ ~(Agree(s, r) /\ Agree(p, r)) -> [t EXCEPT !.reference = Mean(p, s)]
      [] ~Agree(p, s) /\ Agree(s, r) -> [t EXCEPT !.primary = Mean(s, r)]
      [] ~Agree(p, s) /\ ~Agree(s, r) /\ Agree(p, r) -> [t EXCEPT !.secondary = Mean(p, r)]
      [] OTHER -> [t EXCEPT !.values_valid = FALSE]

TripleTooOld(t) == (now - t.timestamp) % TimestampRange > SensorTimeout

\* A step of a vote changes the triple alone.
Voting ==
    UNCHANGED <<historyVars, statsVars, timed_out, supervisorVars, reading, readings, now>>

\* The caller fills in a triple.  The two interfaces share no state: to keep
\* their states apart, triples are voted on before the first reading.
ReadTriple(p, s, r) ==
    /\ pc = "idle" /\ readings = 0 /\ resets = 0
    /\ triple' = [NoTriple EXCEPT !.primary = p, !.secondary = s, !.reference = r,
                     !.timestamp = now % TimestampRange, !.values_valid = TRUE,
                     !.given = <<p, s, r>>]
    /\ Goto("vote")
    /\ Voting

validate_sensor_readings ==
    /\ pc = "vote"
    /\ triple' = IF ~triple.values_valid THEN triple
                 ELSE IF TripleTooOld(triple) THEN [triple EXCEPT !.values_valid = FALSE]
                 ELSE Voted(triple)
    /\ Goto("use")
    /\ Voting

\* The value handed out, for a triple as it now is.
ValueOf(t) ==
    CASE Agree(t.primary, t.secondary) -> Mean(t.primary, t.secondary)
      [] ~Agree(t.primary, t.secondary) /\ Agree(t.secondary, t.reference)
            -> Mean(t.secondary, t.reference)
      [] OTHER -> Mean(t.primary, t.reference)

SomeAgree(t) ==
    \/ Agree(t.primary, t.secondary)
    \/ Agree(t.secondary, t.reference)
    \/ Agree(t.primary, t.reference)

get_validated_sensor_value ==
    /\ pc = "use"
    /\ triple' = IF triple.values_valid /\ SomeAgree(triple)
                 THEN [triple EXCEPT !.value = ValueOf(triple)]
                 ELSE [triple EXCEPT !.values_valid = FALSE, !.value = 0]
    /\ Goto("used")
    /\ Voting

\* The caller is done with the triple, or validates it once more.
LeaveTriple ==
    /\ pc = "used"
    /\ \/ triple' = NoTriple /\ Goto("idle")
       \/ triple' = [triple EXCEPT !.value = 0] /\ Goto("vote")
    /\ Voting

-----------------------------------------------------------------------------
Tick ==
    /\ now < MaxTime
    /\ now' = now + 1
    /\ UNCHANGED <<historyVars, statsVars, timed_out, supervisorVars, pc, reading, readings,
                   triple>>

\* k_uptime_get has left 0 before the first reading: 0 means "no reading".
Init ==
    /\ values = EmptyHistory /\ timestamps = EmptyHistory /\ index = 0
    /\ sensor_stats = NoStatistics /\ recorded = {} /\ timed_out = FALSE
    /\ pc = "idle" /\ reading = NoReading /\ triple = NoTriple
    /\ supervisor = "idle"
    /\ now = 1
    /\ readings = 0 /\ resets = 0

Next ==
    \/ \E v \in Values : validate_sensor_reading(v)
    \/ FindPrevious
    \/ CheckRate
    \/ CheckTimeout
    \/ StoreValue
    \/ StoreTimestamp
    \/ AdvanceIndex
    \/ FilterNoise
    \/ RecordReading
    \/ handle_sensor_timeout
    \/ reset_sensor_history
    \/ ResetTimestamps
    \/ ResetIndex
    \/ ResetStatistics
    \/ \E p, s, r \in TripleValues : ReadTriple(p, s, r)
    \/ validate_sensor_readings
    \/ get_validated_sensor_value
    \/ LeaveTriple
    \/ Tick

Spec == Init /\ [][Next]_vars

-----------------------------------------------------------------------------
Statistics == [total : Nat, valid : Nat, range : Nat, rate : Nat, timeouts : Nat,
               min : Int, max : Int]
Labels == {"idle", "find", "rate", "timeout", "store", "stamp", "advance", "filter",
           "record", "vote", "use", "used"}

\* The history, the statistics and the thread hold what their C types can, and
\* the thread reads and writes its ring at one of the ten slots.
TypeOK ==
    /\ values \in [Slots -> Int]
    /\ timestamps \in [Slots -> 0 .. TimestampRange - 1]
    /\ index \in Slots
    /\ sensor_stats \in Statistics
    /\ pc \in Labels
    /\ supervisor \in {"idle", "reset", "timestamps", "index", "statistics"}
    /\ reading.prev \in Slots /\ reading.slot \in Slots /\ reading.value \in Int

\* A filtered value is within the limits of the sensor, like the readings it is
\* made of.  A reset that falls into the store of the reading can leave a live
\* time beside a cleared value: the reading then passes as valid with the value
\* 0, and only then is a value outside the limits recorded.
FilteredWithinLimits ==
    pc = "record" /\ reading.error = "valid" =>
        \/ ~OutOfRange(reading.filtered)
        \/ reading.torn /\ reading.filtered = 0

\* The recorded extremes bracket the valid readings since the reset, and are
\* readings themselves as long as none was refused.
ExtremesBracketReadings ==
    /\ \A v \in recorded : sensor_stats.min <= v /\ v <= sensor_stats.max
    /\ recorded # {} /\ sensor_stats.total = sensor_stats.valid
          => {sensor_stats.min, sensor_stats.max} \subseteq recorded

\* What the statistics are made of, with a reset of the history at any moment.
StatisticsOfReadings == FilteredWithinLimits /\ ExtremesBracketReadings

\* A reading that came too late is not stored, so the next one is later still:
\* once a sensor has timed out no reading is accepted until a reset.
TimeoutLastsUntilReset == timed_out => pc \notin {"store", "stamp", "advance", "filter"}

\* The value that comes out of a vote is within the tolerance of the median of
\* the three readings that went in, also when it is validated again; no value
\* comes out when no two agree.
Median(given) ==
    CHOOSE m \in {given[1], given[2], given[3]} :
        /\ Cardinality({i \in 1..3 : given[i] < m}) <= 1
        /\ Cardinality({i \in 1..3 : given[i] > m}) <= 1
VoteNearMedian ==
    pc = "used" /\ triple.values_valid =>
        /\ Abs(triple.value - Median(triple.given)) <= Tolerance
        /\ \E i, j \in 1..3 : i # j /\ Agree(triple.given[i], triple.given[j])
=============================================================================
