------------------------- MODULE SensorValidation_proof -------------------------
(***************************************************************************)
(* What tlapm proves of SensorValidation: the type invariant, that what is *)
(* recorded as valid is within the limits or torn by a reset, that the     *)
(* statistics bracket it, that a time-out lasts until the reset, and that  *)
(* a vote stays near the median of what was read.                          *)
(*                                                                         *)
(* The first four rest on what HISTORY_SIZE - 1 = 9 does as a mask: of the *)
(* ring only slots 0 and 1 are written, and the window behind the index    *)
(* sees slot 0 or none (Masks, WindowSlots).                               *)
(***************************************************************************)
EXTENDS SensorValidation, FiniteSetTheorems, TLAPS

-----------------------------------------------------------------------------
(* The inductive invariant.                                                 *)

Errors == {"valid", "range", "rate", "timeouts"}
Reading == [value : Int, time : Nat, prev : Slots, slot : {0, 1}, error : Errors,
            filtered : Int, torn : BOOLEAN]
Givens == {<<>>} \cup (Int \X Int \X Int)
Triple == [primary : Int, secondary : Int, reference : Int, timestamp : Int,
           values_valid : BOOLEAN, given : Givens, value : Int]

\* Of the ring two slots are in use, whatever a reset does to the index.
RingOK ==
    /\ index \in {0, 1}
    /\ \A s \in Slots \ {0, 1} : timestamps[s] = 0

LocalsOK ==
    /\ reading \in Reading /\ reading.time <= now
    /\ now \in Nat
    /\ recorded \subseteq Int
    /\ timed_out \in BOOLEAN
    /\ RingOK

Accepted == {"find", "rate", "timeout", "store", "stamp", "advance", "filter"}
InVote == {"idle", "vote", "use", "used"}

\* A reading no reset has torn is where the thread has put it, and the index
\* where the thread has left it.
WholeOK ==
    Stored /\ ~reading.torn =>
        /\ pc \in {"stamp", "advance"} => index = reading.slot
        /\ pc = "filter" => index = Advanced(reading.slot)
        /\ reading.slot = 0 => values[0] = reading.value

\* What the filter can find in slot 0 of a torn reading: the reading or nothing.
\* While a reset has the values cleared and the index not, the slot holds
\* nothing but what the call under way has stored.
TornOK ==
    /\ Stored /\ reading.torn => values[0] \in {0, reading.value}
    /\ pc \in InVote \cup {"find", "rate", "timeout", "store"} => ~reading.torn
    /\ supervisor \in {"timestamps", "index"} =>
           \/ values[0] = 0
           \/ (Stored \/ pc = "record") /\ values[0] = reading.value

FilterOK ==
    /\ pc \in Accepted => reading.error = "valid" /\ ~OutOfRange(reading.value)
    /\ FilteredWithinLimits
    /\ WholeOK
    /\ TornOK

\* The statistics have counted what they bracket.
ExtremesOK ==
    /\ sensor_stats.valid <= sensor_stats.total
    /\ recorded = {} <=> sensor_stats.valid = 0
    /\ ExtremesBracketReadings

\* Between the reset of the times and that of the index the thread gets no
\* further than one call: stats_mutex keeps it from the next.
ClearedOK ==
    supervisor = "index" /\ pc \in InVote \cup {"find", "rate", "timeout"} =>
        \A s \in Slots : timestamps[s] = 0

\* The reading a late one is compared with stays where it is and is too old for
\* every reading to come.
TimeoutOK ==
    /\ timed_out =>
           /\ timestamps[Previous(index)] > 0
           /\ now - timestamps[Previous(index)] > Timeout
           /\ pc \in {"find", "rate", "timeout"} =>
                  reading.time - timestamps[Previous(index)] > Timeout
           /\ pc \in {"rate", "timeout"} => reading.prev = Previous(index)
    /\ pc \in {"rate", "timeout"} /\ timestamps[reading.prev] > 0 =>
           reading.prev = Previous(index)
    /\ ClearedOK
    /\ TimeoutLastsUntilReset

HistoryInv == TypeOK /\ LocalsOK /\ FilterOK /\ ExtremesOK /\ TimeoutOK

\* The three values lie within the tolerance of each other, and the median of
\* the readings that went in lies among them.
Among(t, lo, hi) ==
    /\ hi - lo <= Tolerance
    /\ {t.primary, t.secondary, t.reference, Median(t.given)} \subseteq lo .. hi

TwoAgree(given) == \E i, j \in 1..3 : i # j /\ Agree(given[i], given[j])

Unvoted(t) == t.given = <<t.primary, t.secondary, t.reference>>

Settled(t) == TwoAgree(t.given) /\ \E lo, hi \in Int : Among(t, lo, hi)

Answered(t) ==
    TwoAgree(t.given) /\ \E lo, hi \in Int : Among(t, lo, hi) /\ t.value \in lo .. hi

TripleOK ==
    triple.values_valid =>
        /\ pc = "vote" => Unvoted(triple) \/ Settled(triple)
        /\ pc = "use" => Settled(triple)
        /\ pc = "used" => Answered(triple)

VoteInv == triple \in Triple /\ TripleOK

-----------------------------------------------------------------------------
(* The mask and the window.                                                 *)

\* The mask sees the low four bits only.
LEMMA MaskIsPeriodic == \A x, y \in Int : y = x + 16 => Masked(x) = Masked(y)
<1> SUFFICES ASSUME NEW x \in Int PROVE Masked(x) = Masked(x + 16)
  OBVIOUS
<1>1. x % 2 = (x + 16) % 2 /\ x % 16 = (x + 16) % 16
  OBVIOUS
<1> QED BY <1>1 DEF Masked

\* Of the indices around 0 the mask leaves 0, 1, 8 and 9.
LEMMA Masks ==
    /\ Masked(0) = 0 /\ Masked(1) = 1 /\ Masked(2) = 0
    /\ Masked(-1) = 9 /\ Masked(-2) = 8 /\ Masked(-3) = 9 /\ Masked(-4) = 8 /\ Masked(-5) = 9
<1> DEFINE m(x) == Masked(x)
<1>1. \A x, y \in Int : y = x + 16 => m(x) = m(y)
  BY MaskIsPeriodic
<1>2. m(0) = 0 /\ m(1) = 1 /\ m(2) = 0
  BY DEF Masked
<1>3. m(15) = 9 /\ m(14) = 8 /\ m(13) = 9 /\ m(12) = 8 /\ m(11) = 9
  BY DEF Masked
<1> HIDE DEF m
<1>4. 15 = -1 + 16 /\ 14 = -2 + 16 /\ 13 = -3 + 16 /\ 12 = -4 + 16 /\ 11 = -5 + 16
  OBVIOUS
<1>5. m(-1) = m(15)
  BY <1>1, <1>4
<1>6. m(-2) = m(14)
  BY <1>1, <1>4
<1>7. m(-3) = m(13)
  BY <1>1, <1>4
<1>8. m(-4) = m(12)
  BY <1>1, <1>4
<1>9. m(-5) = m(11)
  BY <1>1, <1>4
<1> QED BY <1>2, <1>3, <1>5, <1>6, <1>7, <1>8, <1>9 DEF m

LEMMA PreviousSlots == Previous(0) = 9 /\ Previous(1) = 0
BY Masks DEF Previous

LEMMA AdvancedSlots == Advanced(0) = 1 /\ Advanced(1) = 0
BY Masks DEF Advanced

\* The window behind index 0 misses both slots in use, behind 1 it starts at 0.
LEMMA WindowSlots ==
    /\ \A k \in 0 .. VALIDATION_WINDOW - 1 : Window(0)[k] \in {8, 9}
    /\ Window(1)[0] = 0
    /\ \A k \in 1 .. VALIDATION_WINDOW - 1 : Window(1)[k] \in {8, 9}
<1>1. \A k \in 0 .. VALIDATION_WINDOW - 1 : k \in {0, 1, 2, 3, 4}
  BY DEF VALIDATION_WINDOW
<1>2. \A k \in 0 .. VALIDATION_WINDOW - 1 : Window(0)[k] = Masked(-1 - k)
  BY DEF Window, VALIDATION_WINDOW
<1>3. \A k \in 0 .. VALIDATION_WINDOW - 1 : Window(1)[k] = Masked(-k)
  BY DEF Window, VALIDATION_WINDOW
<1>4. \A k \in 0 .. VALIDATION_WINDOW - 1 : Window(0)[k] \in {8, 9}
  BY <1>1, <1>2, Masks
<1>5. \A k \in 1 .. VALIDATION_WINDOW - 1 : Window(1)[k] \in {8, 9}
  BY <1>1, <1>3, Masks DEF VALIDATION_WINDOW
<1>6. Window(1)[0] = 0
  BY <1>3, Masks DEF VALIDATION_WINDOW
<1> QED BY <1>4, <1>5, <1>6

\* A sum over one place is what is in that place.
LEMMA SumOfOne ==
  ASSUME NEW h, NEW w, h[w[0]] \in Int
  PROVE MapThenSumSet(LAMBDA k : h[w[k]], {0}) = h[w[0]]
<1> DEFINE g0 == [s \in SUBSET {0} |-> IF s = {} THEN 0 ELSE h[w[0]]]
<1> DEFINE it == CHOOSE g : g = [s \in SUBSET {0} |->
        IF s = {} THEN 0
        ELSE h[w[CHOOSE x \in s : TRUE]] + g[s \ {CHOOSE x \in s : TRUE}]]
<1>1. (CHOOSE x \in {0} : TRUE) = 0
  OBVIOUS
<1>2. g0 = [s \in SUBSET {0} |->
              IF s = {} THEN 0
              ELSE h[w[CHOOSE x \in s : TRUE]] + g0[s \ {CHOOSE x \in s : TRUE}]]
  <2>1. \A s \in SUBSET {0} : s = {} \/ s = {0}
    OBVIOUS
  <2>2. g0[{}] = 0
    OBVIOUS
  <2>3. g0[{0}] = h[w[0]]
    OBVIOUS
  <2>4. {0} \ {0} = {}
    OBVIOUS
  <2> HIDE DEF g0
  <2>5. \A s \in SUBSET {0} :
           g0[s] = IF s = {} THEN 0
                   ELSE h[w[CHOOSE x \in s : TRUE]] + g0[s \ {CHOOSE x \in s : TRUE}]
    <3> TAKE s \in SUBSET {0}
    <3>1. CASE s = {}
      BY <2>2, <3>1
    <3>2. CASE s = {0}
      <4>1. g0[{0}] = h[w[0]] + g0[{}]
        BY <2>2, <2>3
      <4> QED BY <1>1, <2>4, <3>2, <4>1
    <3> QED BY <2>1, <3>1, <3>2
  <2> QED BY <2>5 DEF g0
<1>3. it = [s \in SUBSET {0} |->
              IF s = {} THEN 0
              ELSE h[w[CHOOSE x \in s : TRUE]] + it[s \ {CHOOSE x \in s : TRUE}]]
  <2> HIDE DEF g0
  <2> QED BY <1>2, Zenon
<1>4. MapThenSumSet(LAMBDA k : h[w[k]], {0}) = it[{0}]
  BY Zenon DEF MapThenSumSet, MapThenFoldSet
<1> HIDE DEF it
<1>5. it[{}] = 0
  BY <1>3
<1>6. {0} \ {0} = {} /\ {0} # {}
  OBVIOUS
<1>7. it[{0}] = h[w[0]]
  BY <1>1, <1>3, <1>5, <1>6
<1> QED BY <1>4, <1>7

LEMMA SlotsInUse == {0, 1, 8, 9} \subseteq Slots
BY DEF Slots, HISTORY_SIZE

\* The moving average sees slot 0 or nothing.
LEMMA FilterFinds ==
  ASSUME TypeOK, RingOK, NEW v \in Int
  PROVE Filtered(v) = IF index = 1 /\ timestamps[0] > 0 THEN values[0] ELSE v
<1> DEFINE w == Window(index)
           used == {k \in 0 .. VALIDATION_WINDOW - 1 : timestamps[w[k]] > 0}
<1>1. Filtered(v) = IF used = {} THEN v
                    ELSE MapThenSumSet(LAMBDA k : values[w[k]], used) \div Cardinality(used)
  BY DEF Filtered
<1>2. timestamps[8] = 0 /\ timestamps[9] = 0
  BY DEF RingOK, Slots, HISTORY_SIZE
<1>3. index \in {0, 1} /\ values[0] \in Int
  BY SlotsInUse DEF RingOK, TypeOK
<1>4. CASE index = 0
  <2>1. \A k \in 0 .. VALIDATION_WINDOW - 1 : w[k] \in {8, 9}
    BY <1>4, WindowSlots
  <2> HIDE DEF w
  <2>2. used = {}
    BY <1>2, <2>1
  <2> QED BY <1>1, <1>4, <2>2
<1>5. CASE index = 1
  <2>1. w[0] = 0 /\ \A k \in 1 .. VALIDATION_WINDOW - 1 : w[k] \in {8, 9}
    BY <1>5, WindowSlots
  <2> HIDE DEF w
  <2>2. \A k \in 1 .. VALIDATION_WINDOW - 1 : ~ (timestamps[w[k]] > 0)
    BY <1>2, <2>1
  <2>3. CASE timestamps[0] > 0
    <3>1. \A k \in 0 .. VALIDATION_WINDOW - 1 : k = 0 \/ k \in 1 .. VALIDATION_WINDOW - 1
      BY DEF VALIDATION_WINDOW
    <3>2. 0 \in 0 .. VALIDATION_WINDOW - 1
      BY DEF VALIDATION_WINDOW
    <3>3. used = {0}
      BY <2>1, <2>2, <2>3, <3>1, <3>2
    <3>4. values[w[0]] = values[0]
      BY <2>1
    <3> HIDE DEF used
    <3>5. MapThenSumSet(LAMBDA k : values[w[k]], {0}) = values[0]
      BY <1>3, <3>4, SumOfOne
    <3>6. Cardinality({0}) = 1
      BY FS_Singleton
    <3>7. Filtered(v) = values[0] \div 1
      BY <1>1, <3>3, <3>5, <3>6
    <3> QED BY <1>3, <1>5, <2>3, <3>7
  <2>4. CASE ~ (timestamps[0] > 0)
    <3>1. \A k \in 0 .. VALIDATION_WINDOW - 1 : k = 0 \/ k \in 1 .. VALIDATION_WINDOW - 1
      BY DEF VALIDATION_WINDOW
    <3>2. used = {}
      BY <2>1, <2>2, <2>4, <3>1
    <3> QED BY <1>1, <2>4, <3>2
  <2> QED BY <2>3, <2>4
<1> QED BY <1>3, <1>4, <1>5
-----------------------------------------------------------------------------
(* Types.                                                                   *)

\* A time keeps 32 bits when it is stored.
LEMMA StoredTime == \A t \in Nat : t % TimestampRange \in 0 .. TimestampRange - 1
BY ReadingsAssumption

LEMMA EmptyHistoryOK ==
    /\ EmptyHistory \in [Slots -> Int]
    /\ EmptyHistory \in [Slots -> 0 .. TimestampRange - 1]
    /\ \A s \in Slots : EmptyHistory[s] = 0
BY ReadingsAssumption DEF EmptyHistory

LEMMA NoStatisticsOK == NoStatistics \in Statistics
BY DEF NoStatistics, Statistics

LEMMA NoReadingOK == NoReading \in Reading
BY SlotsInUse DEF NoReading, Reading, Errors

LEMMA CountersKeepType ==
  ASSUME NEW st \in Statistics, NEW n \in Nat, NEW m \in Nat
  PROVE  /\ [st EXCEPT !.total = n, !.valid = m] \in Statistics
         /\ [st EXCEPT !.total = n, !.range = m] \in Statistics
         /\ [st EXCEPT !.total = n, !.rate = m] \in Statistics
         /\ [st EXCEPT !.total = n, !.timeouts = m] \in Statistics
BY DEF Statistics

\* A reading is counted once, for its error or as valid.
LEMMA CountedOnce ==
  ASSUME NEW st \in Statistics, NEW e \in Errors
  PROVE  /\ Counted(st, e) \in Statistics
         /\ Counted(st, e).total = st.total + 1
         /\ Counted(st, e).valid = IF e = "valid" THEN st.valid + 1 ELSE st.valid
         /\ Counted(st, e).min = st.min /\ Counted(st, e).max = st.max
<1>1. CASE e = "valid"
  <2>1. Counted(st, "valid") = [st EXCEPT !.total = st.total + 1, !.valid = st.valid + 1]
    BY DEF Counted
  <2>2. st.total + 1 \in Nat /\ st.valid + 1 \in Nat
    BY DEF Statistics
  <2>3. [st EXCEPT !.total = st.total + 1, !.valid = st.valid + 1] \in Statistics
    BY <2>2, CountersKeepType
  <2> QED BY <1>1, <2>1, <2>3 DEF Statistics
<1>2. CASE e = "range"
  <2>1. Counted(st, "range") = [st EXCEPT !.total = st.total + 1, !.range = st.range + 1]
    BY DEF Counted
  <2>2. st.total + 1 \in Nat /\ st.range + 1 \in Nat
    BY DEF Statistics
  <2>3. [st EXCEPT !.total = st.total + 1, !.range = st.range + 1] \in Statistics
    BY <2>2, CountersKeepType
  <2> QED BY <1>2, <2>1, <2>3 DEF Statistics
<1>3. CASE e = "rate"
  <2>1. Counted(st, "rate") = [st EXCEPT !.total = st.total + 1, !.rate = st.rate + 1]
    BY DEF Counted
  <2>2. st.total + 1 \in Nat /\ st.rate + 1 \in Nat
    BY DEF Statistics
  <2>3. [st EXCEPT !.total = st.total + 1, !.rate = st.rate + 1] \in Statistics
    BY <2>2, CountersKeepType
  <2> QED BY <1>3, <2>1, <2>3 DEF Statistics
<1>4. CASE e = "timeouts"
  <2>1. Counted(st, "timeouts") = [st EXCEPT !.total = st.total + 1, !.timeouts = st.timeouts + 1]
    BY DEF Counted
  <2>2. st.total + 1 \in Nat /\ st.timeouts + 1 \in Nat
    BY DEF Statistics
  <2>3. [st EXCEPT !.total = st.total + 1, !.timeouts = st.timeouts + 1] \in Statistics
    BY <2>2, CountersKeepType
  <2> QED BY <1>4, <2>1, <2>3 DEF Statistics
<1> QED BY <1>1, <1>2, <1>3, <1>4 DEF Errors

LEMMA ExtremesMoved ==
  ASSUME NEW st \in Statistics, NEW v \in Int
  PROVE  /\ WithExtremes(st, v) \in Statistics
         /\ WithExtremes(st, v).total = st.total /\ WithExtremes(st, v).valid = st.valid
         /\ WithExtremes(st, v).min = IF v < st.min \/ st.total = 1 THEN v ELSE st.min
         /\ WithExtremes(st, v).max = IF v > st.max \/ st.total = 1 THEN v ELSE st.max
BY DEF WithExtremes, Statistics

LEMMA UpdateKeepsType ==
  ASSUME sensor_stats \in Statistics, NEW v \in Int, NEW e \in Errors,
         update_sensor_statistics(v, e)
  PROVE  sensor_stats' \in Statistics
BY CountedOnce, ExtremesMoved DEF update_sensor_statistics

\* What a reading becomes in each step of its thread is a reading.
LEMMA ReadingSteps ==
  ASSUME NEW r \in Reading
  PROVE  /\ \A e \in Errors : [r EXCEPT !.error = e] \in Reading
         /\ \A p \in Slots : [r EXCEPT !.prev = p] \in Reading
         /\ \A s \in {0, 1} : [r EXCEPT !.slot = s] \in Reading
         /\ \A v \in Int : [r EXCEPT !.filtered = v] \in Reading
         /\ \A b \in BOOLEAN : [r EXCEPT !.torn = b] \in Reading
BY DEF Reading

LEMMA Fields ==
  ASSUME NEW r \in Reading
  PROVE  /\ r.value \in Int /\ r.time \in Nat /\ r.prev \in Slots /\ r.slot \in {0, 1}
         /\ r.error \in Errors /\ r.filtered \in Int /\ r.torn \in BOOLEAN
BY DEF Reading

LEMMA TypeInit == Init => TypeOK /\ LocalsOK
<1> SUFFICES ASSUME Init PROVE TypeOK /\ LocalsOK
  OBVIOUS
<1>1. TypeOK
  BY EmptyHistoryOK, NoStatisticsOK, SlotsInUse DEF Init, TypeOK, Labels, NoReading
<1>2. reading \in Reading /\ reading.time = 0 /\ now = 1
  BY NoReadingOK DEF Init, NoReading
<1>3. timed_out \in BOOLEAN /\ recorded \subseteq Int
  BY DEF Init
<1>4. RingOK
  BY EmptyHistoryOK DEF Init, RingOK
<1>5. LocalsOK
  BY <1>2, <1>3, <1>4 DEF LocalsOK
<1> QED BY <1>1, <1>5

\* The new reading of a call.
NewReading(v) ==
    [NoReading EXCEPT !.value = v, !.time = now, !.filtered = v,
                      !.error = IF OutOfRange(v) THEN "range" ELSE "valid"]

LEMMA NewReadingOK ==
  ASSUME NEW v \in Int, now \in Nat
  PROVE  /\ NewReading(v) \in Reading
         /\ NewReading(v).value = v /\ NewReading(v).filtered = v /\ NewReading(v).time = now
         /\ NewReading(v).torn = FALSE
         /\ NewReading(v).error = IF OutOfRange(v) THEN "range" ELSE "valid"
BY SlotsInUse DEF NewReading, NoReading, Reading, Errors

LEMMA TypeStep == TypeOK /\ LocalsOK /\ [Next]_vars => TypeOK' /\ LocalsOK'
<1> SUFFICES ASSUME TypeOK, LocalsOK, [Next]_vars
             PROVE  TypeOK' /\ LocalsOK'
  OBVIOUS
<1> USE DEF TypeOK, LocalsOK, RingOK
<1> DEFINE Others == UNCHANGED <<historyVars, statsVars, timed_out, supervisorVars, now>>
<1>0. reading \in Reading /\ {0, 1} \subseteq Slots
  BY SlotsInUse
<1>1. ASSUME NEW v \in Values, validate_sensor_reading(v) PROVE TypeOK' /\ LocalsOK'
  <2>1. v \in Int
    BY ReadingsAssumption
  <2>2. reading' = NewReading(v) /\ pc' \in {"record", "find"}
    BY <1>1 DEF validate_sensor_reading, NewReading, Goto
  <2>3. reading' \in Reading /\ reading'.time = now
    BY <2>1, <2>2, NewReadingOK
  <2>4. reading'.prev \in Slots /\ reading'.slot \in Slots /\ reading'.value \in Int
    BY <1>0, <2>3, Fields
  <2> QED BY <1>1, <2>2, <2>3, <2>4
       DEF validate_sensor_reading, Private, historyVars, statsVars, supervisorVars, Labels
<1>2. CASE FindPrevious
  <2>1. Previous(index) \in Slots
    BY PreviousSlots, SlotsInUse
  <2>2. reading' \in Reading /\ reading'.time = reading.time
    BY <1>0, <1>2, <2>1, ReadingSteps DEF FindPrevious, Reading
  <2> QED BY <1>0, <1>2, <2>2, Fields
       DEF FindPrevious, Private, Goto, historyVars, statsVars, supervisorVars, Labels
<1>3. CASE CheckRate
  <2>1. reading' \in Reading /\ reading'.time = reading.time
    BY <1>0, <1>3, ReadingSteps DEF CheckRate, Reject, Reading, Errors
  <2> QED BY <1>0, <1>3, <2>1, Fields
       DEF CheckRate, Reject, Private, Goto, historyVars, statsVars, supervisorVars, Labels
<1>4. CASE CheckTimeout
  <2>1. reading' \in Reading /\ reading'.time = reading.time
    BY <1>0, <1>4, ReadingSteps DEF CheckTimeout, Reject, Reading, Errors
  <2> QED BY <1>0, <1>4, <2>1, Fields
       DEF CheckTimeout, Reject, Goto, historyVars, statsVars, supervisorVars, Labels
<1>5. CASE StoreValue
  <2>1. reading' \in Reading /\ reading'.time = reading.time
    BY <1>0, <1>5, ReadingSteps DEF StoreValue, Reading
  <2>2. values' \in [Slots -> Int]
    BY <1>0, <1>5, Fields DEF StoreValue
  <2> QED BY <1>0, <1>5, <2>1, <2>2, Fields
       DEF StoreValue, Goto, statsVars, supervisorVars, Labels
<1>6. CASE StoreTimestamp \/ AdvanceIndex
  <2>1. LoadedIndex \subseteq {0, 1}
    BY <1>0, Fields DEF LoadedIndex
  <2>2. CASE StoreTimestamp
    <3>1. PICK slot \in {0, 1} :
             timestamps' = [timestamps EXCEPT ![slot] = reading.time % TimestampRange]
      BY <2>1, <2>2 DEF StoreTimestamp
    <3>2. reading.time % TimestampRange \in 0 .. TimestampRange - 1
      BY <1>0, Fields, StoredTime
    <3>3. timestamps' \in [Slots -> 0 .. TimestampRange - 1]
      BY <3>1, <3>2
    <3>4. \A s \in Slots \ {0, 1} : timestamps'[s] = 0
      BY <3>1
    <3> QED BY <2>2, <3>3, <3>4 DEF StoreTimestamp, Goto, statsVars, supervisorVars, Labels
  <2>3. CASE AdvanceIndex
    <3>1. index' \in {0, 1}
      BY <2>1, <2>3, AdvancedSlots DEF AdvanceIndex
    <3> QED BY <1>0, <2>3, <3>1 DEF AdvanceIndex, Goto, statsVars, supervisorVars, Labels
  <2> QED BY <1>6, <2>2, <2>3
<1>7. CASE FilterNoise
  <2>1. Filtered(reading.value) \in Int
    BY <1>0, Fields, FilterFinds
  <2>2. reading' \in Reading /\ reading'.time = reading.time
    BY <1>0, <1>7, <2>1, ReadingSteps, Fields DEF FilterNoise, Reading
  <2> QED BY <1>7, <2>2, Fields
       DEF FilterNoise, Private, Goto, historyVars, statsVars, supervisorVars, Labels
<1>8. CASE RecordReading
  <2>1. sensor_stats' \in Statistics
    BY <1>0, <1>8, Fields, UpdateKeepsType DEF RecordReading
  <2>2. reading' \in Reading /\ reading'.time = 0
    BY <1>8, NoReadingOK DEF RecordReading, NoReading
  <2>3. recorded' \subseteq Int
    BY <1>0, <1>8, Fields DEF RecordReading
  <2> QED BY <1>0, <1>8, <2>1, <2>2, <2>3, Fields
       DEF RecordReading, Goto, historyVars, supervisorVars, Labels
<1>9. CASE handle_sensor_timeout
  <2>1. sensor_stats' \in Statistics
    BY <1>9, UpdateKeepsType DEF handle_sensor_timeout, Errors
  <2> QED BY <1>9, <2>1 DEF handle_sensor_timeout, historyVars
<1>10. CASE reset_sensor_history \/ ResetTimestamps \/ ResetIndex \/ ResetStatistics
  <2>1. reading' \in Reading /\ reading'.time = reading.time
    <3>1. CASE Tear
      <4>1. reading' = [reading EXCEPT !.torn = reading.torn \/ Stored]
        BY <3>1 DEF Tear
      <4>2. (reading.torn \/ Stored) \in BOOLEAN
        BY <1>0, Fields DEF Stored
      <4>3. reading' \in Reading
        BY <1>0, <4>1, <4>2, ReadingSteps
      <4> QED BY <1>0, <4>1, <4>3 DEF Reading
    <3> QED BY <1>10, <3>1 DEF reset_sensor_history, ResetTimestamps, ResetIndex, ResetStatistics
  <2>2. UNCHANGED <<pc, now>>
    BY <1>10 DEF reset_sensor_history, ResetTimestamps, ResetIndex, ResetStatistics
  <2>3. reading'.prev \in Slots /\ reading'.slot \in Slots /\ reading'.value \in Int
    BY <1>0, <2>1, Fields
  <2>4. CASE reset_sensor_history
    BY <2>1, <2>2, <2>3, <2>4, EmptyHistoryOK DEF reset_sensor_history, statsVars
  <2>5. CASE ResetTimestamps
    BY <2>1, <2>2, <2>3, <2>5, EmptyHistoryOK DEF ResetTimestamps, statsVars
  <2>6. CASE ResetIndex
    BY <1>0, <2>1, <2>2, <2>3, <2>6 DEF ResetIndex, statsVars
  <2>7. CASE ResetStatistics
    BY <2>1, <2>2, <2>3, <2>7, NoStatisticsOK DEF ResetStatistics, historyVars
  <2> QED BY <1>10, <2>4, <2>5, <2>6, <2>7
<1>11. CASE \/ \E p, s, r \in TripleValues : ReadTriple(p, s, r)
            \/ validate_sensor_readings \/ get_validated_sensor_value \/ LeaveTriple
  <2>1. Others /\ reading' = reading /\ pc' \in Labels
    BY <1>11 DEF ReadTriple, validate_sensor_readings, get_validated_sensor_value, LeaveTriple,
                 Voting, Goto, Labels
  <2> QED BY <2>1 DEF historyVars, statsVars, supervisorVars
<1>12. CASE Tick
  BY <1>12, <1>0, Fields DEF Tick, historyVars, statsVars, supervisorVars
<1>13. CASE UNCHANGED vars
  BY <1>13 DEF vars, historyVars, statsVars, supervisorVars
<1> QED BY <1>1, <1>2, <1>3, <1>4, <1>5, <1>6, <1>7, <1>8, <1>9, <1>10, <1>11, <1>12, <1>13
     DEF Next

-----------------------------------------------------------------------------
(* The filter.                                                              *)

\* A step of a reset that finds the thread between store and filter tears the
\* reading, and no other.
LEMMA Torn ==
  ASSUME LocalsOK, Tear
  PROVE  /\ reading'.value = reading.value /\ reading'.slot = reading.slot
         /\ reading'.error = reading.error /\ reading'.filtered = reading.filtered
         /\ reading'.prev = reading.prev /\ reading'.time = reading.time
         /\ reading'.torn = (reading.torn \/ Stored)
BY DEF Tear, LocalsOK, Reading

\* A reset does not move the thread, and leaves the values of a reading stored
\* before it or clears them.
LEMMA ResetsTear ==
  ASSUME TypeOK, LocalsOK, FilterOK,
         reset_sensor_history \/ ResetTimestamps \/ ResetIndex
  PROVE  /\ Tear /\ UNCHANGED pc
         /\ values'[0] = 0 \/ values' = values
         /\ Stored => values'[0] \in {0, reading.value}
         /\ supervisor' \in {"timestamps", "index"} =>
                \/ values'[0] = 0
                \/ (Stored \/ pc = "record") /\ values'[0] = reading.value
<1>1. CASE reset_sensor_history
  <2>1. values'[0] = 0
    BY <1>1, EmptyHistoryOK, SlotsInUse DEF reset_sensor_history
  <2> QED BY <1>1, <2>1 DEF reset_sensor_history
<1>2. CASE ResetTimestamps \/ ResetIndex
  <2>1. Tear /\ UNCHANGED <<pc, values>> /\ supervisor \in {"timestamps", "index"}
    BY <1>2 DEF ResetTimestamps, ResetIndex
  <2> QED BY <2>1 DEF FilterOK, TornOK
<1> QED BY <1>1, <1>2

LEMMA FilterStep == TypeOK /\ LocalsOK /\ FilterOK /\ [Next]_vars => FilterOK'
<1> SUFFICES ASSUME TypeOK, LocalsOK, FilterOK, [Next]_vars
             PROVE  FilterOK'
  OBVIOUS
<1>0. reading \in Reading /\ index \in {0, 1} /\ reading.torn \in BOOLEAN
  BY Fields DEF LocalsOK, RingOK
<1> USE DEF FilterOK, WholeOK, TornOK, FilteredWithinLimits, Accepted, InVote
<1>1. ASSUME NEW v \in Values, validate_sensor_reading(v) PROVE FilterOK'
  <2>1. v \in Int
    BY ReadingsAssumption
  <2>2. /\ pc = "idle" /\ pc' = IF OutOfRange(v) THEN "record" ELSE "find"
        /\ reading' = NewReading(v) /\ UNCHANGED <<values, supervisor>>
    BY <1>1 DEF validate_sensor_reading, NewReading, Goto, Private, historyVars, supervisorVars
  <2>3. /\ reading'.value = v /\ reading'.torn = FALSE
        /\ reading'.error = IF OutOfRange(v) THEN "range" ELSE "valid"
    BY <2>1, <2>2, NewReadingOK DEF LocalsOK
  <2>4. ~Stored /\ ~Stored'
    BY <2>2 DEF Stored
  <2> QED BY <2>2, <2>3, <2>4 DEF OutOfRange
<1>2. CASE FindPrevious \/ CheckRate \/ CheckTimeout
  <2>1. /\ pc \in {"find", "rate", "timeout"} /\ pc' \in {"rate", "timeout", "store", "record"}
        /\ pc' # "record" => reading'.error = reading.error
        /\ pc' = "record" => reading'.error # "valid"
        /\ reading'.value = reading.value /\ reading'.torn = reading.torn
    BY <1>0, <1>2 DEF FindPrevious, CheckRate, CheckTimeout, Reject, Goto, Reading
  <2>2. UNCHANGED <<values, supervisor>>
    BY <1>2 DEF FindPrevious, CheckRate, CheckTimeout, Private, historyVars, supervisorVars
  <2>3. ~Stored /\ ~Stored'
    BY <2>1 DEF Stored
  <2> QED BY <2>1, <2>2, <2>3 DEF OutOfRange
<1>3. CASE StoreValue
  <2>1. /\ reading'.error = reading.error /\ reading'.value = reading.value
        /\ reading'.slot = index /\ reading'.torn = reading.torn
    BY <1>0, <1>3 DEF StoreValue, Reading
  <2>2. index = 0 => values'[0] = reading.value
    BY <1>3, SlotsInUse DEF StoreValue, TypeOK
  <2>3. index = 1 => values'[0] = values[0]
    BY <1>3, SlotsInUse DEF StoreValue, TypeOK
  <2>4. pc = "store" /\ pc' = "stamp" /\ UNCHANGED <<index, supervisor>>
    BY <1>3 DEF StoreValue, Goto, supervisorVars
  <2>5. ~Stored /\ Stored' /\ ~reading.torn
    BY <2>4 DEF Stored
  <2> QED BY <1>0, <2>1, <2>2, <2>3, <2>4, <2>5 DEF OutOfRange
<1>4. CASE StoreTimestamp
  <2>1. pc = "stamp" /\ pc' = "advance" /\ UNCHANGED <<index, supervisor, values, reading>>
    BY <1>4 DEF StoreTimestamp, Goto, supervisorVars
  <2>2. Stored /\ Stored'
    BY <2>1 DEF Stored
  <2> QED BY <2>1, <2>2 DEF OutOfRange
<1>5. CASE AdvanceIndex
  <2>1. /\ pc = "advance" /\ pc' = "filter" /\ UNCHANGED <<supervisor, values, reading>>
        /\ index' \in {Advanced(reading.slot), Advanced(index)}
    BY <1>5 DEF AdvanceIndex, Goto, supervisorVars, LoadedIndex
  <2>2. Stored /\ Stored'
    BY <2>1 DEF Stored
  <2>3. ~reading.torn => index' = Advanced(reading.slot)
    BY <2>1, <2>2
  <2> QED BY <2>1, <2>2, <2>3 DEF OutOfRange
<1>6. CASE FilterNoise
  <2> DEFINE f == Filtered(reading.value)
  <2>1. /\ pc = "filter" /\ pc' = "record" /\ UNCHANGED <<supervisor, values>>
        /\ reading'.filtered = f /\ reading'.value = reading.value
        /\ reading'.torn = reading.torn /\ reading'.error = reading.error
    BY <1>0, <1>6 DEF FilterNoise, Goto, Private, historyVars, supervisorVars, Reading
  <2>2. f = IF index = 1 /\ timestamps[0] > 0 THEN values[0] ELSE reading.value
    BY <1>0, Fields, FilterFinds DEF LocalsOK
  <2>3. Stored /\ ~Stored'
    BY <2>1 DEF Stored
  <2>4. ~reading.torn => f = reading.value
    <3>1. reading.slot \in {0, 1}
      BY <1>0, Fields
    <3> QED BY <2>1, <2>2, <2>3, <3>1, AdvancedSlots
  <2>5. reading.torn => f \in {0, reading.value}
    BY <2>2, <2>3
  <2>6. reading.error = "valid" /\ ~OutOfRange(reading.value)
    BY <2>1
  <2> HIDE DEF f
  <2>7. FilteredWithinLimits'
    BY <1>0, <2>1, <2>4, <2>5, <2>6 DEF OutOfRange
  <2> QED BY <2>1, <2>3, <2>7
<1>7. CASE RecordReading
  <2>1. /\ pc = "record" /\ pc' = "idle" /\ UNCHANGED <<supervisor, values>> /\ ~Resetting
        /\ reading' = NoReading
    BY <1>7 DEF RecordReading, Goto, historyVars, supervisorVars
  <2>2. ~Stored' /\ ~reading'.torn /\ supervisor' \notin {"timestamps", "index"}
    BY <2>1 DEF Stored, NoReading, Resetting
  <2> QED BY <2>1, <2>2
<1>8. CASE (\E p, s, r \in TripleValues : ReadTriple(p, s, r))
           \/ validate_sensor_readings \/ get_validated_sensor_value \/ LeaveTriple
  <2>1. pc \in InVote /\ pc' \in InVote /\ UNCHANGED <<supervisor, values, reading>>
    BY <1>8 DEF ReadTriple, validate_sensor_readings, get_validated_sensor_value, LeaveTriple,
                Voting, Goto, historyVars, supervisorVars
  <2>2. ~Stored /\ ~Stored' /\ pc # "record" /\ pc' # "record"
    BY <2>1 DEF Stored
  <2>3. ~reading.torn
    BY <2>1
  <2> QED BY <2>1, <2>2, <2>3
<1>9. CASE reset_sensor_history \/ ResetTimestamps \/ ResetIndex
  <2>1. /\ Tear /\ UNCHANGED pc
        /\ Stored => values'[0] \in {0, reading.value}
        /\ supervisor' \in {"timestamps", "index"} =>
               \/ values'[0] = 0
               \/ (Stored \/ pc = "record") /\ values'[0] = reading.value
    BY <1>9, ResetsTear
  <2>2. /\ reading'.value = reading.value /\ reading'.error = reading.error
        /\ reading'.filtered = reading.filtered /\ reading'.torn = (reading.torn \/ Stored)
    BY <2>1, Torn
  <2>3. Stored' = Stored
    BY <2>1 DEF Stored
  <2>4. (pc \in Accepted => reading.error = "valid" /\ ~OutOfRange(reading.value))'
    BY <2>1, <2>2 DEF OutOfRange
  <2>5. FilteredWithinLimits'
    BY <2>1, <2>2 DEF OutOfRange
  <2>6. WholeOK'
    BY <2>2, <2>3
  <2>7. TornOK'
    <3>1. pc \in InVote \cup {"find", "rate", "timeout", "store"} => ~Stored
      BY DEF Stored
    <3> QED BY <2>1, <2>2, <2>3, <3>1
  <2> QED BY <2>4, <2>5, <2>6, <2>7
<1>10. CASE handle_sensor_timeout \/ ResetStatistics \/ Tick \/ UNCHANGED vars
  <2>1. UNCHANGED <<values, index, pc, reading>>
    BY <1>10 DEF handle_sensor_timeout, ResetStatistics, Tick, vars, historyVars
  <2>2. supervisor' = supervisor \/ supervisor' \in {"idle", "reset"}
    BY <1>10 DEF handle_sensor_timeout, ResetStatistics, Tick, vars, supervisorVars
  <2>3. Stored' = Stored
    BY <2>1 DEF Stored
  <2> QED BY <2>1, <2>2, <2>3 DEF OutOfRange
<1> QED BY <1>1, <1>2, <1>3, <1>4, <1>5, <1>6, <1>7, <1>8, <1>9, <1>10 DEF Next

-----------------------------------------------------------------------------
(* The extremes.                                                            *)

\* The statistics after a valid reading bracket it and those before, and the
\* first reading of all replaces the zeros.
LEMMA ExtremesStep == TypeOK /\ LocalsOK /\ ExtremesOK /\ [Next]_vars => ExtremesOK'
<1> SUFFICES ASSUME TypeOK, LocalsOK, ExtremesOK, [Next]_vars
             PROVE  ExtremesOK'
  OBVIOUS
<1> DEFINE st == sensor_stats
<1>0. reading \in Reading /\ recorded \subseteq Int /\ st \in Statistics
  BY DEF TypeOK, LocalsOK
<1>1. CASE RecordReading
  <2> DEFINE e == reading.error
             c == Counted(st, e)
             v == reading.filtered
  <2>1. e \in Errors /\ v \in Int
    BY <1>0, Fields
  <2>2. c \in Statistics /\ c.total = st.total + 1 /\ c.min = st.min /\ c.max = st.max
        /\ c.valid = IF e = "valid" THEN st.valid + 1 ELSE st.valid
    BY <1>0, <2>1, CountedOnce
  <2>3. st.total \in Nat /\ st.valid \in Nat /\ st.min \in Int /\ st.max \in Int
    BY <1>0 DEF Statistics
  <2>4. CASE e = "valid"
    <3> DEFINE u == WithExtremes(c, v)
    <3>1. sensor_stats' = u /\ recorded' = recorded \cup {v}
      BY <1>1, <2>4 DEF RecordReading, update_sensor_statistics
    <3>2. /\ u.total = st.total + 1 /\ u.valid = st.valid + 1
          /\ u.min = IF v < st.min \/ st.total + 1 = 1 THEN v ELSE st.min
          /\ u.max = IF v > st.max \/ st.total + 1 = 1 THEN v ELSE st.max
      BY <2>1, <2>2, <2>4, ExtremesMoved
    <3> HIDE DEF u, c, v, e
    <3>3. st.total = 0 => recorded = {}
      BY <2>3 DEF ExtremesOK
    <3>4. \A x \in recorded' : sensor_stats'.min <= x /\ x <= sensor_stats'.max
      BY <1>0, <2>1, <2>3, <3>1, <3>2, <3>3 DEF ExtremesOK, ExtremesBracketReadings
    <3>5. sensor_stats'.total = sensor_stats'.valid
             => {sensor_stats'.min, sensor_stats'.max} \subseteq recorded'
      <4> SUFFICES ASSUME u.total = u.valid
                   PROVE  {u.min, u.max} \subseteq recorded \cup {v}
        BY <3>1
      <4>1. st.total = st.valid
        <5>1. st.total + 1 = st.valid + 1
          BY <3>2
        <5> QED BY <2>3, <5>1
      <4>2. st.total # 0 => {st.min, st.max} \subseteq recorded
        BY <4>1 DEF ExtremesOK, ExtremesBracketReadings
      <4> QED BY <2>3, <3>2, <4>2
    <3>6. sensor_stats'.valid <= sensor_stats'.total /\ sensor_stats'.valid # 0
      BY <2>3, <3>1, <3>2 DEF ExtremesOK
    <3>7. recorded' # {}
      BY <3>1
    <3> QED BY <3>4, <3>5, <3>6, <3>7 DEF ExtremesOK, ExtremesBracketReadings
  <2>5. CASE e # "valid"
    <3>1. sensor_stats' = c /\ recorded' = recorded
      BY <1>1, <2>5 DEF RecordReading, update_sensor_statistics
    <3>2. c.valid = st.valid
      BY <2>2, <2>5
    <3> HIDE DEF c, e
    <3>3. c.total # c.valid
      BY <2>2, <2>3, <3>2 DEF ExtremesOK
    <3> QED BY <2>2, <2>3, <3>1, <3>2, <3>3 DEF ExtremesOK, ExtremesBracketReadings
  <2> QED BY <2>4, <2>5
<1>2. CASE handle_sensor_timeout
  <2> DEFINE c == Counted(st, "timeouts")
  <2>1. sensor_stats' = c /\ recorded' = recorded
    BY <1>2 DEF handle_sensor_timeout, update_sensor_statistics
  <2>2. c.total = st.total + 1 /\ c.min = st.min /\ c.max = st.max /\ c.valid = st.valid
    BY <1>0, CountedOnce DEF Errors
  <2>3. st.total \in Nat /\ st.valid \in Nat
    BY <1>0 DEF Statistics
  <2> HIDE DEF c
  <2>4. c.total # c.valid /\ c.valid <= c.total
    BY <2>2, <2>3 DEF ExtremesOK
  <2> QED BY <2>1, <2>2, <2>4 DEF ExtremesOK, ExtremesBracketReadings
<1>3. CASE ResetStatistics
  BY <1>3 DEF ResetStatistics, NoStatistics, ExtremesOK, ExtremesBracketReadings
<1>4. CASE \/ \E v \in Values : validate_sensor_reading(v)
           \/ FindPrevious \/ CheckRate \/ CheckTimeout
           \/ StoreValue \/ StoreTimestamp \/ AdvanceIndex \/ FilterNoise
           \/ reset_sensor_history \/ ResetTimestamps \/ ResetIndex
           \/ \E p, s, r \in TripleValues : ReadTriple(p, s, r)
           \/ validate_sensor_readings \/ get_validated_sensor_value \/ LeaveTriple
           \/ Tick \/ UNCHANGED vars
  <2>1. UNCHANGED <<sensor_stats, recorded>>
    BY <1>4 DEF validate_sensor_reading, FindPrevious, CheckRate, CheckTimeout, StoreValue,
                StoreTimestamp, AdvanceIndex, FilterNoise, reset_sensor_history,
                ResetTimestamps, ResetIndex, ReadTriple, validate_sensor_readings,
                get_validated_sensor_value, LeaveTriple, Tick, Private, Voting, vars, statsVars
  <2> QED BY <2>1 DEF ExtremesOK, ExtremesBracketReadings
<1> QED BY <1>1, <1>2, <1>3, <1>4 DEF Next

-----------------------------------------------------------------------------
(* The time-out.                                                            *)

\* Only the thread's own comparison makes a reading late, and the slot it was
\* compared with is the one every later reading is compared with.
LEMMA TimeoutStep == TypeOK /\ LocalsOK /\ TimeoutOK /\ [Next]_vars => TimeoutOK'
<1> SUFFICES ASSUME TypeOK, LocalsOK, TimeoutOK, [Next]_vars
             PROVE  TimeoutOK'
  OBVIOUS
<1> DEFINE prev == Previous(index)
<1>0. /\ reading \in Reading /\ reading.time \in Nat /\ reading.time <= now /\ now \in Nat
      /\ reading.prev \in Slots /\ timed_out \in BOOLEAN /\ Timeout \in Nat
      /\ index \in {0, 1} /\ prev \in Slots
      /\ \A s \in Slots : timestamps[s] \in Nat
  <2>1. reading \in Reading /\ index \in {0, 1} /\ \A s \in Slots : timestamps[s] \in Nat
    BY DEF TypeOK, LocalsOK, RingOK
  <2>2. prev \in Slots
    BY <2>1, PreviousSlots, SlotsInUse
  <2> QED BY <2>1, <2>2, Fields, ReadingsAssumption DEF LocalsOK
<1>1. ASSUME NEW v \in Values, validate_sensor_reading(v) PROVE TimeoutOK'
  <2>1. v \in Int
    BY ReadingsAssumption
  <2>2. reading' = NewReading(v) /\ pc' \in {"record", "find"}
        /\ UNCHANGED <<timestamps, index, timed_out, now, supervisor>> /\ pc = "idle"
    BY <1>1 DEF validate_sensor_reading, NewReading, Goto, Private, historyVars, supervisorVars
  <2>3. reading'.time = now
    BY <1>0, <2>1, <2>2, NewReadingOK
  <2> QED BY <2>2, <2>3 DEF TimeoutOK, TimeoutLastsUntilReset, ClearedOK, Previous, InVote
<1>2. CASE FindPrevious
  <2>1. /\ pc = "find" /\ pc' = "rate" /\ reading'.prev = prev /\ reading'.time = reading.time
        /\ UNCHANGED <<timestamps, index, timed_out, now, supervisor>>
    BY <1>0, <1>2 DEF FindPrevious, Goto, Private, historyVars, supervisorVars, Reading
  <2> QED BY <2>1 DEF TimeoutOK, TimeoutLastsUntilReset, ClearedOK, Previous, InVote
<1>3. CASE CheckRate
  <2>1. /\ pc = "rate" /\ pc' \in {"timeout", "record"}
        /\ reading'.prev = reading.prev /\ reading'.time = reading.time
        /\ UNCHANGED <<timestamps, index, timed_out, now, supervisor>>
    BY <1>0, <1>3 DEF CheckRate, Reject, Goto, Private, historyVars, supervisorVars, Reading
  <2> QED BY <2>1 DEF TimeoutOK, TimeoutLastsUntilReset, ClearedOK, Previous, InVote
<1>4. CASE CheckTimeout
  <2>1. pc = "timeout" /\ UNCHANGED <<timestamps, index, now, supervisor>>
    BY <1>4 DEF CheckTimeout, historyVars, supervisorVars
  <2>2. CASE TimedOut(reading)
    <3>1. pc' = "record"
      BY <1>4, <2>2 DEF CheckTimeout, Reject, Goto
    <3>2. timestamps[reading.prev] > 0 /\ reading.time - timestamps[reading.prev] > Timeout
      BY <2>2 DEF TimedOut, Elapsed
    <3>3. reading.prev = prev
      BY <2>1, <3>2 DEF TimeoutOK
    <3>4. now - timestamps[prev] > Timeout
      BY <1>0, <3>2, <3>3
    <3> QED BY <2>1, <3>1, <3>2, <3>3, <3>4
         DEF TimeoutOK, TimeoutLastsUntilReset, ClearedOK, Previous, InVote
  <2>3. CASE ~TimedOut(reading)
    <3>1. ~timed_out
      <4> SUFFICES ASSUME timed_out PROVE FALSE
        OBVIOUS
      <4>1. /\ reading.prev = prev /\ timestamps[prev] > 0
            /\ reading.time - timestamps[prev] > Timeout
        BY <2>1 DEF TimeoutOK
      <4> QED BY <2>3, <4>1 DEF TimedOut, Elapsed
    <3>2. pc' = "store" /\ timed_out' = timed_out
      BY <1>4, <2>3 DEF CheckTimeout, Goto
    <3> QED BY <3>1, <3>2 DEF TimeoutOK, TimeoutLastsUntilReset, ClearedOK, InVote
  <2> QED BY <2>2, <2>3
<1>5. CASE StoreValue \/ StoreTimestamp \/ AdvanceIndex \/ FilterNoise
  <2>1. /\ pc \in {"store", "stamp", "advance", "filter"}
        /\ pc' \in {"stamp", "advance", "filter", "record"}
        /\ timed_out' = timed_out
    BY <1>5 DEF StoreValue, StoreTimestamp, AdvanceIndex, FilterNoise, Private, Goto
  <2> QED BY <2>1 DEF TimeoutOK, TimeoutLastsUntilReset, ClearedOK, InVote
<1>6. CASE RecordReading \/ (\E p, s, r \in TripleValues : ReadTriple(p, s, r))
           \/ validate_sensor_readings \/ get_validated_sensor_value \/ LeaveTriple
  <2>1. /\ pc' \in InVote /\ UNCHANGED <<timestamps, index, timed_out, now, supervisor>>
        /\ pc \in InVote \/ supervisor # "index"
    BY <1>6 DEF RecordReading, Resetting, ReadTriple, validate_sensor_readings, InVote,
                get_validated_sensor_value, LeaveTriple, Voting, Goto, historyVars,
                supervisorVars
  <2> QED BY <2>1 DEF TimeoutOK, TimeoutLastsUntilReset, ClearedOK, Previous, InVote
<1>7. CASE reset_sensor_history \/ ResetTimestamps \/ ResetIndex
  <2>1. Tear /\ UNCHANGED <<pc, now>>
    BY <1>7 DEF reset_sensor_history, ResetTimestamps, ResetIndex
  <2>2. reading'.prev = reading.prev /\ reading'.time = reading.time
    BY <2>1, Torn
  <2>3. CASE reset_sensor_history
    <3>1. UNCHANGED <<timestamps, index, timed_out>> /\ supervisor' = "timestamps"
      BY <2>3 DEF reset_sensor_history
    <3> QED BY <2>1, <2>2, <3>1 DEF TimeoutOK, TimeoutLastsUntilReset, ClearedOK, Previous
  <2>4. CASE ResetTimestamps
    <3>1. timestamps' = EmptyHistory /\ timed_out' = FALSE
      BY <2>4 DEF ResetTimestamps
    <3>2. \A s \in Slots : timestamps'[s] = 0
      BY <3>1, EmptyHistoryOK
    <3> QED BY <1>0, <2>1, <2>2, <3>1, <3>2 DEF TimeoutOK, TimeoutLastsUntilReset, ClearedOK
  <2>5. CASE ResetIndex
    <3>1. /\ timestamps' = timestamps /\ timed_out' = FALSE
          /\ supervisor = "index" /\ supervisor' = "statistics"
      BY <2>5 DEF ResetIndex
    <3>2. pc \in {"rate", "timeout"} => timestamps[reading.prev] = 0
      BY <1>0, <3>1 DEF TimeoutOK, ClearedOK
    <3> QED BY <2>1, <2>2, <3>1, <3>2 DEF TimeoutOK, TimeoutLastsUntilReset, ClearedOK
  <2> QED BY <1>7, <2>3, <2>4, <2>5
<1>8. CASE handle_sensor_timeout \/ ResetStatistics \/ UNCHANGED vars
  <2>1. /\ UNCHANGED <<timestamps, index, pc, reading, timed_out, now>>
        /\ supervisor' = supervisor \/ supervisor' # "index"
    BY <1>8 DEF handle_sensor_timeout, ResetStatistics, vars, historyVars, supervisorVars
  <2> QED BY <2>1 DEF ClearedOK, TimeoutOK, TimeoutLastsUntilReset, Previous
<1>9. CASE Tick
  <2>1. UNCHANGED <<timestamps, index, pc, reading, timed_out, supervisor>> /\ now' = now + 1
    BY <1>9 DEF Tick, historyVars, supervisorVars
  <2>2. now - timestamps[prev] > Timeout => now' - timestamps[prev] > Timeout
    BY <1>0, <2>1
  <2> QED BY <2>1, <2>2 DEF TimeoutOK, TimeoutLastsUntilReset, ClearedOK, Previous
<1> QED BY <1>1, <1>2, <1>3, <1>4, <1>5, <1>6, <1>7, <1>8, <1>9 DEF Next

LEMMA HistoryInit == Init => HistoryInv
<1> SUFFICES ASSUME Init PROVE FilterOK /\ ExtremesOK /\ TimeoutOK
  BY TypeInit DEF HistoryInv
<1>1. FilterOK
  BY DEF Init, FilterOK, WholeOK, TornOK, FilteredWithinLimits, Accepted, InVote, Stored,
         NoReading
<1>2. ExtremesOK
  BY DEF Init, ExtremesOK, ExtremesBracketReadings, NoStatistics
<1>3. TimeoutOK
  BY DEF Init, TimeoutOK, TimeoutLastsUntilReset, ClearedOK
<1> QED BY <1>1, <1>2, <1>3

LEMMA HistoryStep == HistoryInv /\ [Next]_vars => HistoryInv'
BY TypeStep, FilterStep, ExtremesStep, TimeoutStep DEF HistoryInv

\* The history, the statistics and the thread keep their types, and every access
\* to the ring is to one of its ten slots, for any readings and limits and with
\* resets wherever they fall.
THEOREM SensorTypeOK == Spec => []TypeOK
<1>1. HistoryInv => TypeOK
  BY DEF HistoryInv
<1> QED BY HistoryInit, HistoryStep, <1>1, PTL DEF Spec

\* What is recorded as valid is within the limits of the sensor, or a 0 that a
\* reset made of a reading between its store and its use; and the extremes
\* bracket it.  For any readings and limits, and for a reset that is preempted
\* between any two fields of the history.
THEOREM ValidReadingsWithinLimits == Spec => []StatisticsOfReadings
<1>1. HistoryInv => StatisticsOfReadings
  BY DEF HistoryInv, FilterOK, ExtremesOK, StatisticsOfReadings
<1> QED BY HistoryInit, HistoryStep, <1>1, PTL DEF Spec

\* After a reading that came too late validate_sensor_reading refuses every
\* other until a reset, for any time-out and any times at which readings come.
THEOREM TimeoutIsFinal == Spec => []TimeoutLastsUntilReset
<1>1. HistoryInv => TimeoutLastsUntilReset
  BY DEF HistoryInv, TimeoutOK
<1> QED BY HistoryInit, HistoryStep, <1>1, PTL DEF Spec

-----------------------------------------------------------------------------
(* The median.                                                              *)

LEMMA Distances == \A x, y \in Int : Abs(x - y) = IF x < y THEN y - x ELSE x - y
BY DEF Abs

LEMMA OneAtMost ==
  ASSUME NEW S, NEW a, S \subseteq {a}
  PROVE  Cardinality(S) <= 1
<1>1. IsFiniteSet({a}) /\ Cardinality({a}) = 1
  BY FS_Singleton
<1>2. Cardinality(S) <= Cardinality({a})
  BY <1>1, FS_Subset
<1> QED BY <1>1, <1>2

LEMMA TwoAtLeast ==
  ASSUME NEW S \in SUBSET (1 .. 3), NEW a \in S, NEW b \in S, a # b
  PROVE  ~ (Cardinality(S) <= 1)
<1>1. IsFiniteSet(S)
  <2>1. IsFiniteSet(1 .. 3)
    <3>1. 1 \in Int /\ 3 \in Int
      OBVIOUS
    <3> QED BY <3>1, FS_Interval, Zenon
  <2> QED BY <2>1, FS_Subset
<1>2. IsFiniteSet({a}) /\ Cardinality({a}) = 1
  BY FS_Singleton
<1>3. IsFiniteSet({a} \cup {b}) /\ Cardinality({a} \cup {b}) = 2
  <2>1. b \notin {a}
    OBVIOUS
  <2> DEFINE T == {a}
  <2> HIDE DEF T
  <2>2. IsFiniteSet(T) /\ Cardinality(T) = 1 /\ b \notin T
    BY <1>2, <2>1 DEF T
  <2>3. IsFiniteSet(T \cup {b}) /\ Cardinality(T \cup {b}) = Cardinality(T) + 1
    BY <2>2, FS_AddElement
  <2> QED BY <2>2, <2>3 DEF T
<1>4. Cardinality({a} \cup {b}) <= Cardinality(S) /\ Cardinality(S) \in Nat
  BY <1>1, FS_Subset, FS_CardinalityType
<1> QED BY <1>3, <1>4

\* Of three positions, at most one value is below and at most one above m.
Middle(given, m) ==
    /\ Cardinality({i \in 1..3 : given[i] < m}) <= 1
    /\ Cardinality({i \in 1..3 : given[i] > m}) <= 1

\* A value with another one on either side is in the middle.
LEMMA BetweenIsMiddle ==
  ASSUME NEW given \in Int \X Int \X Int,
         NEW a \in 1 .. 3, NEW b \in 1 .. 3, NEW c \in 1 .. 3,
         {a, b, c} = 1 .. 3, given[a] <= given[b], given[b] <= given[c]
  PROVE  Middle(given, given[b])
<1>1. \A i \in 1 .. 3 : given[i] \in Int
  OBVIOUS
<1>2. \A i \in 1 .. 3 : i = a \/ i = b \/ i = c
  OBVIOUS
<1>3. {i \in 1..3 : given[i] < given[b]} \subseteq {a}
  BY <1>1, <1>2
<1>4. {i \in 1..3 : given[i] > given[b]} \subseteq {c}
  BY <1>1, <1>2
<1> QED BY <1>3, <1>4, OneAtMost DEF Middle

LEMMA MiddleExists ==
  ASSUME NEW given \in Int \X Int \X Int
  PROVE  \E m \in {given[1], given[2], given[3]} : Middle(given, m)
<1>1. given[1] \in Int /\ given[2] \in Int /\ given[3] \in Int
  OBVIOUS
<1>2. 1 \in 1 .. 3 /\ 2 \in 1 .. 3 /\ 3 \in 1 .. 3
  OBVIOUS
<1>3. {1, 2, 3} = 1 .. 3 /\ {1, 3, 2} = 1 .. 3 /\ {2, 1, 3} = 1 .. 3
      /\ {2, 3, 1} = 1 .. 3 /\ {3, 1, 2} = 1 .. 3 /\ {3, 2, 1} = 1 .. 3
  OBVIOUS
<1>4. CASE given[1] <= given[2] /\ given[2] <= given[3]
  BY <1>2, <1>3, <1>4, BetweenIsMiddle
<1>5. CASE given[3] <= given[2] /\ given[2] <= given[1]
  BY <1>2, <1>3, <1>5, BetweenIsMiddle
<1>6. CASE given[2] <= given[1] /\ given[1] <= given[3]
  BY <1>2, <1>3, <1>6, BetweenIsMiddle
<1>7. CASE given[3] <= given[1] /\ given[1] <= given[2]
  BY <1>2, <1>3, <1>7, BetweenIsMiddle
<1>8. CASE given[1] <= given[3] /\ given[3] <= given[2]
  BY <1>2, <1>3, <1>8, BetweenIsMiddle
<1>9. CASE given[2] <= given[3] /\ given[3] <= given[1]
  BY <1>2, <1>3, <1>9, BetweenIsMiddle
<1> QED BY <1>1, <1>4, <1>5, <1>6, <1>7, <1>8, <1>9

\* The median lies between any bounds that hold two of the three values.
LEMMA MedianWithin ==
  ASSUME NEW given \in Int \X Int \X Int, NEW lo \in Int, NEW hi \in Int,
         NEW a \in 1 .. 3, NEW b \in 1 .. 3, a # b,
         given[a] \in lo .. hi, given[b] \in lo .. hi
  PROVE  Median(given) \in lo .. hi
<1> DEFINE m == Median(given)
<1>1. Median(given) = CHOOSE x \in {given[1], given[2], given[3]} : Middle(given, x)
  BY DEF Median, Middle
<1>2. m \in {given[1], given[2], given[3]} /\ Middle(given, m)
  BY <1>1, MiddleExists
<1> HIDE DEF m
<1>3. m \in Int
  BY <1>2
<1>4. ASSUME m < lo PROVE FALSE
  <2> DEFINE S == {i \in 1..3 : given[i] > m}
  <2>1. given[a] > m /\ given[b] > m
    BY <1>3, <1>4
  <2>2. S \in SUBSET (1 .. 3) /\ a \in S /\ b \in S
    BY <2>1
  <2>3. Cardinality(S) <= 1
    BY <1>2 DEF Middle
  <2> HIDE DEF S
  <2> QED BY <2>2, <2>3, TwoAtLeast
<1>5. ASSUME m > hi PROVE FALSE
  <2> DEFINE S == {i \in 1..3 : given[i] < m}
  <2>1. given[a] < m /\ given[b] < m
    BY <1>3, <1>5
  <2>2. S \in SUBSET (1 .. 3) /\ a \in S /\ b \in S
    BY <2>1
  <2>3. Cardinality(S) <= 1
    BY <1>2 DEF Middle
  <2> HIDE DEF S
  <2> QED BY <2>2, <2>3, TwoAtLeast
<1> QED BY <1>3, <1>4, <1>5 DEF m

\* A mean stays within the bounds of what it is the mean of.
LEMMA MeanWithin ==
  ASSUME NEW lo \in Int, NEW hi \in Int, NEW x \in lo .. hi, NEW y \in lo .. hi
  PROVE  Mean(x, y) \in lo .. hi
<1>1. \A z \in Int : z = 2 * (z \div 2) + (z % 2) /\ z % 2 \in 0 .. 1 /\ z \div 2 \in Int
  OBVIOUS
<1>2. PICK q \in Int, r \in 0 .. 1 : x + y = 2 * q + r /\ q = (x + y) \div 2
  BY <1>1
<1>3. q \in lo .. hi
  BY <1>2
<1> QED BY <1>2, <1>3 DEF Mean

-----------------------------------------------------------------------------
(* The vote.                                                                *)

LEMMA TripleFields ==
  ASSUME NEW t \in Triple
  PROVE  /\ t.primary \in Int /\ t.secondary \in Int /\ t.reference \in Int
         /\ t.timestamp \in Int /\ t.values_valid \in BOOLEAN /\ t.value \in Int
         /\ t.given \in Givens
BY DEF Triple

LEMMA TripleUpdates ==
  ASSUME NEW t \in Triple, NEW x \in Int
  PROVE  /\ [t EXCEPT !.primary = x] \in Triple
         /\ [t EXCEPT !.secondary = x] \in Triple
         /\ [t EXCEPT !.reference = x] \in Triple
         /\ [t EXCEPT !.value = x] \in Triple
BY DEF Triple

LEMMA GivenUpIsTriple ==
  ASSUME NEW t \in Triple
  PROVE  /\ [t EXCEPT !.values_valid = FALSE] \in Triple
         /\ [t EXCEPT !.values_valid = FALSE, !.value = 0] \in Triple
         /\ [t EXCEPT !.values_valid = FALSE].values_valid = FALSE
         /\ [t EXCEPT !.values_valid = FALSE, !.value = 0].values_valid = FALSE
<1> DEFINE u == [t EXCEPT !.values_valid = FALSE]
<1>1. u \in Triple /\ u.values_valid = FALSE
  BY DEF Triple
<1>2. [t EXCEPT !.values_valid = FALSE, !.value = 0] = [u EXCEPT !.value = 0]
  BY DEF Triple
<1> HIDE DEF u
<1>3. [u EXCEPT !.value = 0] \in Triple
  <2>1. 0 \in Int
    OBVIOUS
  <2> QED BY <1>1, <2>1, TripleUpdates
<1>4. [u EXCEPT !.value = 0].values_valid = FALSE
  BY <1>1 DEF Triple
<1> QED BY <1>1, <1>2, <1>3, <1>4 DEF u

\* Two values that agree span an interval no longer than the tolerance.
LEMMA AgreeingSpan ==
  ASSUME NEW x \in Int, NEW y \in Int, Agree(x, y)
  PROVE  \E lo, hi \in Int : hi - lo <= Tolerance /\ x \in lo .. hi /\ y \in lo .. hi
<1>1. CASE x <= y
  <2>1. y - x <= Tolerance
    BY <1>1 DEF Agree, Abs
  <2> QED BY <1>1, <2>1
<1>2. CASE y < x
  <2>1. x - y <= Tolerance
    BY <1>2 DEF Agree, Abs
  <2> QED BY <1>2, <2>1
<1> QED BY <1>1, <1>2

\* Values within the tolerance of each other agree.
LEMMA SpanAgrees ==
  ASSUME NEW lo \in Int, NEW hi \in Int, hi - lo <= Tolerance,
         NEW x \in lo .. hi, NEW y \in lo .. hi
  PROVE  Agree(x, y)
<1>1. Tolerance \in Int
  BY TriplesAssumption
<1>2. x - y <= Tolerance /\ y - x <= Tolerance
  BY <1>1
<1> QED BY <1>1, <1>2 DEF Agree, Abs

\* Correcting the third value by the mean of two that agree settles a triple:
\* a and b are their positions among the readings given, x, y and z what the
\* fields hold afterwards.
LEMMA CorrectedIsSettled ==
  ASSUME NEW t, NEW given \in Int \X Int \X Int, t.given = given,
         NEW a \in 1 .. 3, NEW b \in 1 .. 3, a # b, Agree(given[a], given[b]),
         {t.primary, t.secondary, t.reference}
            \subseteq {given[a], given[b], Mean(given[a], given[b])}
  PROVE  Settled(t)
<1>1. given[a] \in Int /\ given[b] \in Int
  OBVIOUS
<1> DEFINE x == given[a]  y == given[b]
<1> HIDE DEF x, y
<1>2. PICK lo \in Int, hi \in Int :
         hi - lo <= Tolerance /\ given[a] \in lo .. hi /\ given[b] \in lo .. hi
  <2>1. x \in Int /\ y \in Int /\ Agree(x, y)
    BY <1>1 DEF x, y
  <2>2. \E lo, hi \in Int : hi - lo <= Tolerance /\ x \in lo .. hi /\ y \in lo .. hi
    BY <2>1, AgreeingSpan
  <2> QED BY <2>2, Zenon DEF x, y
<1>3. Mean(given[a], given[b]) \in lo .. hi
  BY <1>2, MeanWithin
<1>4. Median(given) \in lo .. hi
  BY <1>2, MedianWithin
<1>5. Among(t, lo, hi)
  BY <1>2, <1>3, <1>4 DEF Among
<1>6. TwoAgree(given)
  BY DEF TwoAgree
<1> QED BY <1>5, <1>6 DEF Settled

\* Three values that agree pairwise need no correction.
LEMMA AgreeingIsSettled ==
  ASSUME NEW t \in Triple, Unvoted(t),
         Agree(t.primary, t.secondary), Agree(t.secondary, t.reference),
         Agree(t.primary, t.reference)
  PROVE  Settled(t)
<1> DEFINE p == t.primary  s == t.secondary  r == t.reference  g == t.given
<1>1. p \in Int /\ s \in Int /\ r \in Int
  BY TripleFields
<1>2. g \in Int \X Int \X Int /\ g[1] = p /\ g[2] = s /\ g[3] = r
  BY <1>1 DEF Unvoted
<1> HIDE DEF p, s, r, g
<1>3. Agree(p, s) /\ Agree(s, r) /\ Agree(p, r)
  BY DEF p, s, r
<1>4. \E lo, hi \in Int : /\ hi - lo <= Tolerance
                          /\ p \in lo .. hi /\ s \in lo .. hi /\ r \in lo .. hi
  <2>1. PICK lo \in {p, s, r} : lo <= p /\ lo <= s /\ lo <= r
    BY <1>1
  <2>2. PICK hi \in {p, s, r} : hi >= p /\ hi >= s /\ hi >= r
    BY <1>1
  <2>3. lo \in Int /\ hi \in Int /\ Tolerance \in Nat
    BY <1>1, <2>1, <2>2, TriplesAssumption
  <2>4. /\ p - s <= Tolerance /\ s - p <= Tolerance
        /\ s - r <= Tolerance /\ r - s <= Tolerance
        /\ p - r <= Tolerance /\ r - p <= Tolerance
    BY <1>1, <1>3, <2>3 DEF Agree, Abs
  <2>5. hi - lo <= Tolerance
    BY <1>1, <2>1, <2>2, <2>3, <2>4
  <2> QED BY <1>1, <2>1, <2>2, <2>3, <2>5
<1>5. PICK lo \in Int, hi \in Int : /\ hi - lo <= Tolerance
                                    /\ p \in lo .. hi /\ s \in lo .. hi /\ r \in lo .. hi
  BY <1>4
<1>6. Median(g) \in lo .. hi
  <2>1. g[1] \in lo .. hi /\ g[2] \in lo .. hi
    BY <1>2, <1>5
  <2>2. 1 \in 1 .. 3 /\ 2 \in 1 .. 3 /\ 1 # 2
    OBVIOUS
  <2> QED BY <1>2, <2>1, <2>2, MedianWithin
<1>7. Among(t, lo, hi)
  BY <1>5, <1>6 DEF Among, p, s, r, g
<1>8. TwoAgree(g)
  <2>1. Agree(g[1], g[2])
    BY <1>2, <1>3
  <2> QED BY <2>1 DEF TwoAgree
<1> QED BY <1>7, <1>8 DEF Settled, g

\* A vote on fresh readings settles the triple or gives up on it.
LEMMA VotedIsSettled ==
  ASSUME NEW t \in Triple, Unvoted(t)
  PROVE  Voted(t) \in Triple /\ (Voted(t).values_valid => Settled(Voted(t)))
<1> DEFINE p == t.primary  s == t.secondary  r == t.reference  g == t.given
<1>1. p \in Int /\ s \in Int /\ r \in Int
  BY TripleFields
<1>2. g \in Int \X Int \X Int /\ g[1] = p /\ g[2] = s /\ g[3] = r
  BY <1>1 DEF Unvoted
<1>3. Mean(p, s) \in Int /\ Mean(s, r) \in Int /\ Mean(p, r) \in Int
  BY <1>1 DEF Mean
<1>4. 1 \in 1 .. 3 /\ 2 \in 1 .. 3 /\ 3 \in 1 .. 3 /\ 1 # 2 /\ 2 # 3 /\ 1 # 3
  OBVIOUS
<1>5. CASE Agree(p, s) /\ Agree(s, r) /\ Agree(p, r)
  <2>1. Voted(t) = t
    BY <1>5 DEF Voted
  <2> QED BY <1>5, <2>1, AgreeingIsSettled
<1>6. CASE Agree(p, s) /\ ~(Agree(s, r) /\ Agree(p, r))
  <2> DEFINE u == [t EXCEPT !.reference = Mean(p, s)]
  <2>1. Voted(t) = u
    BY <1>6 DEF Voted
  <2>2. u \in Triple
    BY <1>3, TripleUpdates
  <2>3. u.given = g /\ u.primary = p /\ u.secondary = s /\ u.reference = Mean(p, s)
    BY DEF Triple
  <2> HIDE DEF u, p, s, r, g
  <2>4. {u.primary, u.secondary, u.reference} \subseteq {g[1], g[2], Mean(g[1], g[2])}
    BY <1>2, <2>3
  <2>5. Settled(u)
    BY <1>2, <1>4, <1>6, <2>3, <2>4, CorrectedIsSettled
  <2> QED BY <2>1, <2>2, <2>5
<1>7. CASE ~Agree(p, s) /\ Agree(s, r)
  <2> DEFINE u == [t EXCEPT !.primary = Mean(s, r)]
  <2>1. Voted(t) = u
    BY <1>7 DEF Voted
  <2>2. u \in Triple
    BY <1>3, TripleUpdates
  <2>3. u.given = g /\ u.primary = Mean(s, r) /\ u.secondary = s /\ u.reference = r
    BY DEF Triple
  <2> HIDE DEF u, p, s, r, g
  <2>4. {u.primary, u.secondary, u.reference} \subseteq {g[2], g[3], Mean(g[2], g[3])}
    BY <1>2, <2>3
  <2>5. Settled(u)
    BY <1>2, <1>4, <1>7, <2>3, <2>4, CorrectedIsSettled
  <2> QED BY <2>1, <2>2, <2>5
<1>8. CASE ~Agree(p, s) /\ ~Agree(s, r) /\ Agree(p, r)
  <2> DEFINE u == [t EXCEPT !.secondary = Mean(p, r)]
  <2>1. Voted(t) = u
    BY <1>8 DEF Voted
  <2>2. u \in Triple
    BY <1>3, TripleUpdates
  <2>3. u.given = g /\ u.primary = p /\ u.secondary = Mean(p, r) /\ u.reference = r
    BY DEF Triple
  <2> HIDE DEF u, p, s, r, g
  <2>4. {u.primary, u.secondary, u.reference} \subseteq {g[1], g[3], Mean(g[1], g[3])}
    BY <1>2, <2>3
  <2>5. Settled(u)
    BY <1>2, <1>4, <1>8, <2>3, <2>4, CorrectedIsSettled
  <2> QED BY <2>1, <2>2, <2>5
<1>9. CASE ~Agree(p, s) /\ ~Agree(s, r) /\ ~Agree(p, r)
  <2> DEFINE u == [t EXCEPT !.values_valid = FALSE]
  <2>1. Voted(t) = u
    BY <1>9 DEF Voted
  <2>2. u \in Triple /\ u.values_valid = FALSE
    BY GivenUpIsTriple
  <2> QED BY <2>1, <2>2
<1> QED BY <1>5, <1>6, <1>7, <1>8, <1>9

\* A vote on a settled triple changes nothing.
LEMMA SettledStays ==
  ASSUME NEW t \in Triple, Settled(t)
  PROVE  Voted(t) = t
<1>1. PICK lo \in Int, hi \in Int : Among(t, lo, hi)
  BY DEF Settled
<1>2. /\ hi - lo <= Tolerance
      /\ t.primary \in lo .. hi /\ t.secondary \in lo .. hi /\ t.reference \in lo .. hi
  BY <1>1 DEF Among
<1>3. /\ Agree(t.primary, t.secondary) /\ Agree(t.secondary, t.reference)
      /\ Agree(t.primary, t.reference)
  BY <1>2, SpanAgrees
<1> QED BY <1>3 DEF Voted

\* The value handed out for a settled triple lies with its values.
LEMMA SettledIsAnswered ==
  ASSUME NEW t \in Triple, Settled(t)
  PROVE  /\ [t EXCEPT !.value = ValueOf(t)] \in Triple
         /\ Answered([t EXCEPT !.value = ValueOf(t)])
<1> DEFINE u == [t EXCEPT !.value = ValueOf(t)]
<1>1. PICK lo \in Int, hi \in Int : Among(t, lo, hi)
  BY DEF Settled
<1>2. t.primary \in lo .. hi /\ t.secondary \in lo .. hi /\ t.reference \in lo .. hi
  BY <1>1 DEF Among
<1>3. ValueOf(t) \in {Mean(t.primary, t.secondary), Mean(t.secondary, t.reference),
                      Mean(t.primary, t.reference)}
  BY DEF ValueOf
<1>4. ValueOf(t) \in lo .. hi
  BY <1>2, <1>3, MeanWithin
<1>5. ValueOf(t) \in Int
  BY <1>4
<1>6. u \in Triple
  BY <1>5, TripleUpdates
<1>7. /\ u.primary = t.primary /\ u.secondary = t.secondary /\ u.reference = t.reference
      /\ u.given = t.given /\ u.value = ValueOf(t)
  BY DEF Triple
<1> HIDE DEF u
<1>8. Among(u, lo, hi) /\ u.value \in lo .. hi
  BY <1>1, <1>4, <1>7 DEF Among
<1>9. TwoAgree(u.given)
  BY <1>7 DEF Settled
<1>10. Answered(u)
  BY <1>8, <1>9 DEF Answered
<1> QED BY <1>6, <1>10 DEF u

LEMMA NoTripleOK == NoTriple \in Triple /\ NoTriple.values_valid = FALSE
<1>1. <<>> \in Givens
  BY DEF Givens
<1> QED BY <1>1 DEF NoTriple, Triple

LEMMA VoteInit == Init => VoteInv
BY NoTripleOK DEF Init, VoteInv, TripleOK

LEMMA VoteStep == VoteInv /\ TypeOK /\ LocalsOK /\ [Next]_vars => VoteInv'
<1> SUFFICES ASSUME VoteInv, TypeOK, LocalsOK, [Next]_vars
             PROVE  VoteInv'
  OBVIOUS
<1>0. triple \in Triple
  BY DEF VoteInv
<1>1. ASSUME NEW p \in TripleValues, NEW s \in TripleValues, NEW r \in TripleValues,
             ReadTriple(p, s, r)
      PROVE VoteInv'
  <2>1. p \in Int /\ s \in Int /\ r \in Int
    BY TriplesAssumption
  <2>2. now % TimestampRange \in Int
    BY ReadingsAssumption DEF LocalsOK
  <2>3. triple' = [primary |-> p, secondary |-> s, reference |-> r,
                   timestamp |-> now % TimestampRange, values_valid |-> TRUE,
                   given |-> <<p, s, r>>, value |-> 0]
    BY <1>1 DEF ReadTriple, NoTriple
  <2>4. <<p, s, r>> \in Givens
    BY <2>1 DEF Givens
  <2>5. triple' \in Triple /\ Unvoted(triple')
    BY <2>1, <2>2, <2>3, <2>4 DEF Triple, Unvoted
  <2>6. pc' = "vote"
    BY <1>1 DEF ReadTriple, Goto
  <2> QED BY <2>5, <2>6 DEF VoteInv, TripleOK
<1>2. CASE validate_sensor_readings
  <2>1. pc = "vote" /\ pc' = "use"
    BY <1>2 DEF validate_sensor_readings, Goto
  <2>2. CASE ~triple.values_valid
    <3>1. triple' = triple
      BY <1>2, <2>2 DEF validate_sensor_readings
    <3> QED BY <1>0, <2>2, <3>1 DEF VoteInv, TripleOK
  <2>3. CASE triple.values_valid /\ TripleTooOld(triple)
    <3>1. triple' = [triple EXCEPT !.values_valid = FALSE]
      BY <1>2, <2>3 DEF validate_sensor_readings
    <3>2. triple' \in Triple /\ triple'.values_valid = FALSE
      BY <1>0, <3>1, GivenUpIsTriple
    <3> QED BY <3>2 DEF VoteInv, TripleOK
  <2>4. CASE triple.values_valid /\ ~TripleTooOld(triple)
    <3>1. triple' = Voted(triple)
      BY <1>2, <2>4 DEF validate_sensor_readings
    <3>2. Unvoted(triple) \/ Settled(triple)
      BY <2>1, <2>4 DEF VoteInv, TripleOK
    <3>3. Voted(triple) \in Triple /\ (Voted(triple).values_valid => Settled(Voted(triple)))
      BY <1>0, <3>2, VotedIsSettled, SettledStays
    <3>4. triple' \in Triple /\ (triple'.values_valid => Settled(triple'))
      BY <3>1, <3>3
    <3> QED BY <2>1, <3>4 DEF VoteInv, TripleOK
  <2> QED BY <2>2, <2>3, <2>4
<1>3. CASE get_validated_sensor_value
  <2>1. pc = "use" /\ pc' = "used"
    BY <1>3 DEF get_validated_sensor_value, Goto
  <2>2. CASE triple.values_valid /\ SomeAgree(triple)
    <3>1. triple' = [triple EXCEPT !.value = ValueOf(triple)]
      BY <1>3, <2>2 DEF get_validated_sensor_value
    <3>2. Settled(triple)
      BY <2>1, <2>2 DEF VoteInv, TripleOK
    <3>3. triple' \in Triple /\ Answered(triple')
      BY <1>0, <3>1, <3>2, SettledIsAnswered
    <3> QED BY <2>1, <3>3 DEF VoteInv, TripleOK
  <2>3. CASE ~(triple.values_valid /\ SomeAgree(triple))
    <3>1. triple' = [triple EXCEPT !.values_valid = FALSE, !.value = 0]
      BY <1>3, <2>3 DEF get_validated_sensor_value
    <3>2. triple' \in Triple /\ triple'.values_valid = FALSE
      BY <1>0, <3>1, GivenUpIsTriple
    <3> QED BY <3>2 DEF VoteInv, TripleOK
  <2> QED BY <2>2, <2>3
<1>4. CASE LeaveTriple
  <2>1. pc = "used"
    BY <1>4 DEF LeaveTriple
  <2>2. CASE triple' = NoTriple /\ Goto("idle")
    BY <2>2, NoTripleOK DEF VoteInv, TripleOK, Goto
  <2>3. CASE triple' = [triple EXCEPT !.value = 0] /\ Goto("vote")
    <3>1. triple' \in Triple
      <4>1. 0 \in Int
        OBVIOUS
      <4> QED BY <1>0, <2>3, <4>1, TripleUpdates
    <3>2. /\ triple'.primary = triple.primary /\ triple'.secondary = triple.secondary
          /\ triple'.reference = triple.reference /\ triple'.given = triple.given
          /\ triple'.values_valid = triple.values_valid
      BY <1>0, <2>3 DEF Triple
    <3>3. triple.values_valid => Answered(triple)
      BY <2>1 DEF VoteInv, TripleOK
    <3>4. triple.values_valid => Settled(triple')
      BY <3>2, <3>3 DEF Answered, Settled, Among
    <3>5. pc' = "vote"
      BY <2>3 DEF Goto
    <3> QED BY <3>1, <3>2, <3>4, <3>5 DEF VoteInv, TripleOK
  <2> QED BY <1>4, <2>2, <2>3 DEF LeaveTriple
<1>5. CASE \/ \E v \in Values : validate_sensor_reading(v)
           \/ FindPrevious \/ CheckRate \/ CheckTimeout \/ StoreValue \/ StoreTimestamp
           \/ AdvanceIndex \/ FilterNoise \/ RecordReading
  <2>1. triple' = triple /\ pc' \notin {"vote", "use", "used"}
    BY <1>5 DEF validate_sensor_reading, FindPrevious, CheckRate, CheckTimeout, StoreValue,
                StoreTimestamp, AdvanceIndex, FilterNoise, RecordReading, Private, Reject, Goto
  <2> QED BY <1>0, <2>1 DEF VoteInv, TripleOK
<1>6. CASE handle_sensor_timeout \/ reset_sensor_history \/ ResetTimestamps \/ ResetIndex
           \/ ResetStatistics \/ Tick \/ UNCHANGED vars
  <2>1. UNCHANGED <<triple, pc>>
    BY <1>6 DEF handle_sensor_timeout, reset_sensor_history, ResetTimestamps, ResetIndex,
                ResetStatistics, Tick, vars
  <2> QED BY <2>1 DEF VoteInv, TripleOK
<1> QED BY <1>1, <1>2, <1>3, <1>4, <1>5, <1>6 DEF Next

LEMMA AnsweredIsNear ==
  ASSUME NEW t \in Triple, Answered(t)
  PROVE  Abs(t.value - Median(t.given)) <= Tolerance
<1>1. PICK lo \in Int, hi \in Int : Among(t, lo, hi) /\ t.value \in lo .. hi
  BY DEF Answered
<1>2. hi - lo <= Tolerance /\ Median(t.given) \in lo .. hi
  BY <1>1 DEF Among
<1>3. Agree(t.value, Median(t.given))
  BY <1>1, <1>2, SpanAgrees
<1> QED BY <1>3 DEF Agree

\* What get_validated_sensor_value returns for a valid triple is within
\* TOLERANCE of the median of the readings that went in, however often it is
\* validated again, for any readings and tolerance.
THEOREM VotesNearMedian == Spec => []VoteNearMedian
<1>1. VoteInv => VoteNearMedian
  <2> SUFFICES ASSUME VoteInv, pc = "used", triple.values_valid
               PROVE  /\ Abs(triple.value - Median(triple.given)) <= Tolerance
                      /\ TwoAgree(triple.given)
    BY DEF VoteNearMedian, TwoAgree
  <2>1. triple \in Triple /\ Answered(triple)
    BY DEF VoteInv, TripleOK
  <2>2. TwoAgree(triple.given)
    BY <2>1 DEF Answered
  <2> QED BY <2>1, <2>2, AnsweredIsNear
<1>2. HistoryInv => TypeOK /\ LocalsOK
  BY DEF HistoryInv
<1> QED BY HistoryInit, HistoryStep, VoteInit, VoteStep, <1>1, <1>2, PTL DEF Spec

=============================================================================
