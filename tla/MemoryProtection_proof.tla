------------------------- MODULE MemoryProtection_proof -------------------------
(***************************************************************************)
(* What tlapm proves of MemoryProtection: the type invariant, that the     *)
(* table of regions is well formed, and that one fault never costs both    *)
(* copies of a redundant pair, for any memory, regions and threads.        *)
(*                                                                         *)
(* The table is argued about as a sequence: an append keeps it well formed *)
(* unless it is refused (ProtectedKeepsTable), and so do two appends that  *)
(* are marked as each other's copy (PairedKeepsTable).  Pairs are argued   *)
(* about one at a time: where the check is, what its next copy would be    *)
(* made from, and how many faults there have been (PairsSound).            *)
(***************************************************************************)
EXTENDS MemoryProtection, FiniteSetTheorems, TLAPS

-----------------------------------------------------------------------------
(* The inductive invariant.                                                 *)

\* No two entries of rs share a page.
Disjoint(rs) ==
    \A j, k \in DOMAIN rs : j # k => PagesOf(rs[j]) \cap PagesOf(rs[k]) = {}

\* Every copy in rs knows the other one.
Partner(rs, j, k) ==
    /\ rs[k].start = rs[j].redundant_addr
    /\ rs[k].redundant_addr = rs[j].start
    /\ rs[k].size = rs[j].size
Partnered(rs) ==
    \A j \in DOMAIN rs :
        rs[j].redundant_addr # NoPartner => \E k \in DOMAIN rs \ {j} : Partner(rs, j, k)

WholeRegions == {r \in Regions : InMemory(r.start, r.size)}

TableOK(rs) ==
    /\ rs \in Seq(WholeRegions)
    /\ Len(rs) <= MaxRegions
    /\ Disjoint(rs)
    /\ Partnered(rs)

CheckOK ==
    /\ i \in Nat
    /\ pc # "sleep" => i >= 1

IInv == TypeOK /\ TableOK(regions) /\ CheckOK
-----------------------------------------------------------------------------
(* Regions and the table.                                                   *)

LEMMA RegionFacts ==
  ASSUME NEW r \in Regions
  PROVE  /\ r.start \in Pages /\ r.start \in Nat
         /\ r.size \in Nat \ {0} /\ r.size \in 1 .. Cardinality(Pages)
         /\ r.crc \in [0 .. r.size - 1 -> Contents]
         /\ r.redundant_addr \in Pages \cup {NoPartner}
<1>1. PICK n \in 1 .. Cardinality(Pages) :
         r \in [start : Pages, size : {n}, crc : [0 .. n - 1 -> Contents],
                redundant_addr : Pages \cup {NoPartner}]
  BY DEF Regions
<1>2. Cardinality(Pages) \in Nat
  BY MemoryAssumption, FS_CardinalityType
<1>3. n \in Nat \ {0} /\ r.size = n
  BY <1>1, <1>2
<1>4. /\ r.start \in Pages /\ r.redundant_addr \in Pages \cup {NoPartner}
      /\ r.crc \in [0 .. n - 1 -> Contents]
  BY <1>1
<1> QED BY <1>3, <1>4, MemoryAssumption

\* What fits in memory is no longer than memory, and starts and ends in it.
LEMMA InMemoryFacts ==
  ASSUME NEW start \in Nat, NEW size \in Nat \ {0}, InMemory(start, size)
  PROVE  /\ start \in Pages /\ start + size - 1 \in Pages
         /\ size \in 1 .. Cardinality(Pages)
         /\ \A k \in 0 .. size - 1 : start + k \in Pages
<1>1. start \in Int /\ start + size - 1 \in Int
  OBVIOUS
<1>2. Cardinality(start .. start + size - 1) = size
  <2> DEFINE last == start + size - 1
  <2>1. start \in Int /\ last \in Int /\ start <= last /\ last - start + 1 = size
    OBVIOUS
  <2> HIDE DEF last
  <2>2. Cardinality(start .. last) = IF start > last THEN 0 ELSE last - start + 1
    BY <2>1, FS_Interval
  <2> QED BY <2>1, <2>2 DEF last
<1>3. Cardinality(start .. start + size - 1) <= Cardinality(Pages)
        /\ Cardinality(Pages) \in Nat
  BY MemoryAssumption, FS_Subset, FS_CardinalityType DEF InMemory
<1>4. size \in 1 .. Cardinality(Pages)
  BY <1>2, <1>3
<1>5. \A k \in 0 .. size - 1 : start + k \in start .. start + size - 1
  OBVIOUS
<1>6. \A k \in 0 .. size - 1 : start + k \in Pages
  BY <1>5 DEF InMemory
<1>7. start \in start .. start + size - 1 /\ start + size - 1 \in start .. start + size - 1
  OBVIOUS
<1> QED BY <1>4, <1>6, <1>7 DEF InMemory

\* A new entry has the fields of a region and no copy.
LEMMA RegionOK ==
  ASSUME memory \in [Pages -> Contents],
         NEW start \in Nat, NEW size \in Nat \ {0}, InMemory(start, size),
         NEW addr \in Pages \cup {NoPartner}
  PROVE  /\ [Region(start, size) EXCEPT !.redundant_addr = addr] \in WholeRegions
         /\ [Region(start, size) EXCEPT !.redundant_addr = addr].start = start
         /\ [Region(start, size) EXCEPT !.redundant_addr = addr].size = size
         /\ [Region(start, size) EXCEPT !.redundant_addr = addr].redundant_addr = addr
<1> DEFINE n == Cardinality(Pages)
           r == [Region(start, size) EXCEPT !.redundant_addr = addr]
<1>1. r = [start |-> start, size |-> size, crc |-> Held(start, size), redundant_addr |-> addr]
  BY DEF Region
<1>2. start \in Pages /\ size \in 1 .. n /\ \A k \in 0 .. size - 1 : start + k \in Pages
  BY InMemoryFacts
<1>3. Held(start, size) \in [0 .. size - 1 -> Contents]
  BY <1>2 DEF Held
<1> HIDE DEF n
<1>4. r \in [start : Pages, size : {size}, crc : [0 .. size - 1 -> Contents],
             redundant_addr : Pages \cup {NoPartner}]
  BY <1>1, <1>2, <1>3
<1>5. r \in Regions
  BY <1>2, <1>4 DEF Regions, n
<1>6. r.start = start /\ r.size = size /\ r.redundant_addr = addr
  BY <1>1
<1> HIDE DEF r
<1>7. r \in WholeRegions
  BY <1>5, <1>6 DEF WholeRegions
<1> QED BY <1>6, <1>7 DEF r

LEMMA RegionIsNew ==
  ASSUME memory \in [Pages -> Contents],
         NEW start \in Nat, NEW size \in Nat \ {0}, InMemory(start, size)
  PROVE  /\ Region(start, size) \in WholeRegions
         /\ Region(start, size).start = start /\ Region(start, size).size = size
         /\ Region(start, size).redundant_addr = NoPartner
<1>1. Region(start, size) = [Region(start, size) EXCEPT !.redundant_addr = NoPartner]
  BY DEF Region
<1>2. NoPartner \in Pages \cup {NoPartner}
  OBVIOUS
<1> DEFINE r == [Region(start, size) EXCEPT !.redundant_addr = NoPartner]
<1>3. /\ r \in WholeRegions /\ r.start = start /\ r.size = size
      /\ r.redundant_addr = NoPartner
  BY <1>2, RegionOK
<1> HIDE DEF r
<1> QED BY <1>1, <1>3 DEF r

\* The test of regions_overlap is exact for regions that are not empty.
LEMMA OverlapIsExact ==
  ASSUME NEW s1 \in Nat, NEW n1 \in Nat \ {0}, NEW s2 \in Nat, NEW n2 \in Nat \ {0},
         ~regions_overlap(s1, n1, s2, n2)
  PROVE  (s1 .. s1 + n1 - 1) \cap (s2 .. s2 + n2 - 1) = {}
<1>1. s1 >= s2 + n2 \/ s2 >= s1 + n1
  BY DEF regions_overlap
<1> SUFFICES ASSUME NEW p \in s1 .. s1 + n1 - 1, p \in s2 .. s2 + n2 - 1
             PROVE  FALSE
  OBVIOUS
<1> QED BY <1>1

\* An entry that overlaps none of the table may be appended to it.
LEMMA DisjointAppend ==
  ASSUME NEW rs \in Seq(WholeRegions), Disjoint(rs), NEW r \in WholeRegions,
         ~Overlaps(rs, r.start, r.size)
  PROVE  Disjoint(Append(rs, r))
<1> DEFINE a == Append(rs, r)  n == Len(rs) + 1
<1>1. /\ DOMAIN rs = 1 .. Len(rs) /\ DOMAIN a = 1 .. n /\ Len(rs) \in Nat
      /\ a[n] = r /\ \A k \in 1 .. Len(rs) : a[k] = rs[k] /\ rs[k] \in WholeRegions
  OBVIOUS
<1> HIDE DEF a
<1>2. \A k \in 1 .. Len(rs) : PagesOf(r) \cap PagesOf(rs[k]) = {}
  <2> TAKE k \in 1 .. Len(rs)
  <2>1. rs[k] \in WholeRegions
    BY <1>1
  <2>2. /\ r.start \in Nat /\ r.size \in Nat \ {0}
        /\ rs[k].start \in Nat /\ rs[k].size \in Nat \ {0}
    BY <2>1, RegionFacts DEF WholeRegions
  <2>3. ~regions_overlap(r.start, r.size, rs[k].start, rs[k].size)
    BY <1>1 DEF Overlaps
  <2> QED BY <2>2, <2>3, OverlapIsExact DEF PagesOf
<1>3. ASSUME NEW j \in 1 .. n, NEW k \in 1 .. n, j # k
      PROVE  PagesOf(a[j]) \cap PagesOf(a[k]) = {}
  <2>1. CASE j = n
    <3>1. k \in 1 .. Len(rs)
      BY <1>1, <1>3, <2>1
    <3> QED BY <1>1, <1>2, <2>1, <3>1
  <2>2. CASE k = n
    <3>1. j \in 1 .. Len(rs)
      BY <1>1, <1>3, <2>2
    <3>2. PagesOf(r) \cap PagesOf(rs[j]) = {}
      BY <1>2, <3>1
    <3> QED BY <1>1, <2>2, <3>1, <3>2
  <2>3. CASE j # n /\ k # n
    <3>1. j \in 1 .. Len(rs) /\ k \in 1 .. Len(rs)
      BY <1>1, <2>3
    <3> QED BY <1>1, <1>3, <3>1 DEF Disjoint
  <2> QED BY <2>1, <2>2, <2>3
<1> QED BY <1>1, <1>3 DEF Disjoint, a

\* An entry without a copy may be appended to the table.
LEMMA PartneredAppend ==
  ASSUME NEW rs \in Seq(WholeRegions), Partnered(rs), NEW r \in WholeRegions,
         r.redundant_addr = NoPartner
  PROVE  Partnered(Append(rs, r))
<1> DEFINE a == Append(rs, r)  n == Len(rs) + 1
<1>1. /\ DOMAIN rs = 1 .. Len(rs) /\ DOMAIN a = 1 .. n /\ Len(rs) \in Nat
      /\ a[n] = r /\ \A k \in 1 .. Len(rs) : a[k] = rs[k]
  OBVIOUS
<1> HIDE DEF a
<1>2. ASSUME NEW j \in 1 .. n, a[j].redundant_addr # NoPartner
      PROVE  \E k \in 1 .. n \ {j} : Partner(a, j, k)
  <2>1. j \in 1 .. Len(rs)
    BY <1>1, <1>2
  <2>2. PICK k \in 1 .. Len(rs) \ {j} : Partner(rs, j, k)
    BY <1>1, <1>2, <2>1 DEF Partnered
  <2>3. Partner(a, j, k)
    BY <1>1, <2>1, <2>2 DEF Partner
  <2>4. k \in 1 .. n \ {j}
    BY <1>1, <2>2
  <2> QED BY <2>3, <2>4
<1> QED BY <1>1, <1>2 DEF Partnered, a

\* A call of protect_memory_region keeps the table well formed, refused or not.
LEMMA ProtectedKeepsTable ==
  ASSUME memory \in [Pages -> Contents], NEW rs, TableOK(rs),
         NEW start \in Nat, NEW size \in Nat \ {0}, InMemory(start, size)
  PROVE  TableOK(Protected(rs, start, size))
<1> DEFINE r == Region(start, size)
<1>1. CASE Refused(rs, start, size)
  BY <1>1 DEF Protected
<1>2. CASE ~Refused(rs, start, size)
  <2>1. rs \in Seq(WholeRegions) /\ Len(rs) < MaxRegions
    <3>1. rs \in Seq(WholeRegions)
      BY DEF TableOK
    <3> QED BY <1>2, <3>1, MemoryAssumption DEF Refused
  <2>2. r \in WholeRegions /\ r.start = start /\ r.size = size /\ r.redundant_addr = NoPartner
    BY RegionIsNew
  <2>3. Protected(rs, start, size) = Append(rs, r)
    BY <1>2 DEF Protected
  <2> HIDE DEF r
  <2>4. Append(rs, r) \in Seq(WholeRegions) /\ Len(Append(rs, r)) <= MaxRegions
    BY <2>1, <2>2, MemoryAssumption
  <2>5. Disjoint(Append(rs, r))
    <3>1. ~Overlaps(rs, r.start, r.size)
      BY <1>2, <2>2 DEF Refused
    <3> QED BY <2>1, <2>2, <3>1, DisjointAppend DEF TableOK
  <2>6. Partnered(Append(rs, r))
    BY <2>1, <2>2, PartneredAppend DEF TableOK
  <2> QED BY <2>3, <2>4, <2>5, <2>6 DEF TableOK
<1> QED BY <1>1, <1>2

\* Two entries appended to the table may be marked as each other's copy.
LEMMA MarkedKeepsTable ==
  ASSUME NEW rs \in Seq(WholeRegions), NEW r1 \in WholeRegions, NEW r2 \in WholeRegions,
         Partnered(rs), TableOK(Append(Append(rs, r1), r2)),
         NEW u1 \in WholeRegions, NEW u2 \in WholeRegions,
         u1.start = r1.start, u1.size = r1.size, u1.redundant_addr = r2.start,
         u2.start = r2.start, u2.size = r2.size, u2.redundant_addr = r1.start,
         r1.size = r2.size
  PROVE  TableOK([Append(Append(rs, r1), r2) EXCEPT ![Len(rs) + 1] = u1, ![Len(rs) + 2] = u2])
<1> DEFINE m == Len(rs)
           two == Append(Append(rs, r1), r2)
           q == [two EXCEPT ![m + 1] = u1, ![m + 2] = u2]
<1>1. /\ m \in Nat /\ DOMAIN rs = 1 .. m
      /\ two \in Seq(WholeRegions) /\ Len(two) = m + 2 /\ DOMAIN two = 1 .. m + 2
      /\ two[m + 1] = r1 /\ two[m + 2] = r2
      /\ \A k \in 1 .. m : two[k] = rs[k]
  OBVIOUS
<1>2. TableOK(two)
  OBVIOUS
<1> HIDE DEF two
<1>3. /\ q \in Seq(WholeRegions) /\ Len(q) = m + 2 /\ DOMAIN q = 1 .. m + 2
      /\ q[m + 1] = u1 /\ q[m + 2] = u2
      /\ \A k \in 1 .. m : q[k] = rs[k]
  BY <1>1
<1> HIDE DEF q, m
<1>4. \A k \in 1 .. m + 2 : k \in 1 .. m \/ k = m + 1 \/ k = m + 2
  BY <1>1
<1>5. \A k \in 1 .. m + 2 : PagesOf(q[k]) = PagesOf(two[k])
  BY <1>1, <1>3, <1>4 DEF PagesOf
<1>6. Disjoint(q)
  BY <1>1, <1>2, <1>3, <1>5 DEF Disjoint, TableOK
<1>7. m + 1 \in 1 .. m + 2 \ {m + 2} /\ m + 2 \in 1 .. m + 2 \ {m + 1}
      /\ 1 .. m \subseteq 1 .. m + 2
  BY <1>1
<1>8. Partnered(q)
  <2> SUFFICES ASSUME NEW j \in 1 .. m + 2, q[j].redundant_addr # NoPartner
               PROVE  \E k \in 1 .. m + 2 \ {j} : Partner(q, j, k)
    BY <1>3 DEF Partnered
  <2>1. CASE j \in 1 .. m
    <3>1. PICK k \in 1 .. m \ {j} : Partner(rs, j, k)
      BY <1>1, <1>3, <2>1 DEF Partnered
    <3>2. Partner(q, j, k)
      BY <1>3, <2>1, <3>1 DEF Partner
    <3>3. k \in 1 .. m + 2 \ {j}
      BY <1>7, <3>1
    <3> QED BY <3>2, <3>3
  <2>2. CASE j = m + 1
    <3>1. Partner(q, m + 1, m + 2)
      BY <1>3 DEF Partner
    <3> QED BY <1>7, <2>2, <3>1
  <2>3. CASE j = m + 2
    <3>1. Partner(q, m + 2, m + 1)
      BY <1>3 DEF Partner
    <3> QED BY <1>7, <2>3, <3>1
  <2> QED BY <1>4, <2>1, <2>2, <2>3
<1>9. Len(q) <= MaxRegions
  BY <1>1, <1>2, <1>3 DEF TableOK
<1>10. TableOK(q)
  BY <1>3, <1>6, <1>8, <1>9 DEF TableOK
<1> QED BY <1>10 DEF q, two, m

\* A redundant set-up whose two regions are accepted keeps the table well formed.
LEMMA PairedKeepsTable ==
  ASSUME memory \in [Pages -> Contents], NEW rs, TableOK(rs),
         NEW p \in Nat, NEW s \in Nat, NEW size \in Nat \ {0},
         InMemory(p, size), InMemory(s, size),
         ~Refused(rs, p, size), ~Refused(Protected(rs, p, size), s, size)
  PROVE  TableOK(Paired(Protected(Protected(rs, p, size), s, size), p, s))
<1> DEFINE r1 == Region(p, size)
           r2 == Region(s, size)
           u1 == [r1 EXCEPT !.redundant_addr = s]
           u2 == [r2 EXCEPT !.redundant_addr = p]
           one == Protected(rs, p, size)
           two == Protected(one, s, size)
           m == Len(rs)
<1>1. one = Append(rs, r1) /\ two = Append(one, r2)
  BY DEF Protected
<1>2. TableOK(one)
  BY ProtectedKeepsTable
<1>3. TableOK(two)
  <2> HIDE DEF one
  <2> QED BY <1>2, ProtectedKeepsTable
<1>4. rs \in Seq(WholeRegions) /\ Partnered(rs)
  BY DEF TableOK
<1>5. /\ r1 \in WholeRegions /\ r1.start = p /\ r1.size = size
      /\ r2 \in WholeRegions /\ r2.start = s /\ r2.size = size
  BY RegionIsNew
<1>6. p \in Pages \cup {NoPartner} /\ s \in Pages \cup {NoPartner}
  BY InMemoryFacts
<1>7. /\ u1 \in WholeRegions /\ u1.start = p /\ u1.size = size /\ u1.redundant_addr = s
      /\ u2 \in WholeRegions /\ u2.start = s /\ u2.size = size /\ u2.redundant_addr = p
  BY <1>6, RegionOK
<1>8. Len(two) = m + 2 /\ m \in Nat
  <2> HIDE DEF one, two, r1, r2
  <2> QED BY <1>1, <1>4, <1>5
<1>9. two[m + 1] = r1 /\ two[m + 2] = r2
  <2> HIDE DEF one, two, r1, r2
  <2> QED BY <1>1, <1>4, <1>5
<1>10. Paired(two, p, s) = [two EXCEPT ![m + 1] = u1, ![m + 2] = u2]
  <2>1. Paired(two, p, s)
           = [two EXCEPT ![Len(two) - 1].redundant_addr = s, ![Len(two)].redundant_addr = p]
    BY DEF Paired
  <2> HIDE DEF two, r1, r2, m
  <2>2. Len(two) - 1 = m + 1 /\ m + 1 # m + 2
    BY <1>8
  <2> QED BY <1>8, <1>9, <2>1, <2>2
<1> HIDE DEF r1, r2, u1, u2, one, two
<1>11. TableOK([Append(Append(rs, r1), r2) EXCEPT ![m + 1] = u1, ![m + 2] = u2])
  BY <1>1, <1>3, <1>4, <1>5, <1>7, MarkedKeepsTable
<1>12. TableOK(Paired(two, p, s))
  BY <1>1, <1>10, <1>11
<1> QED BY <1>12 DEF two, one

-----------------------------------------------------------------------------
(* The steps.                                                               *)

\* What IInv asks of a step that sets up protection while no check is under way.
LEMMA SetupKeeps ==
  ASSUME IInv, pc = "sleep", pc' = pc, i' = i, memory' = memory,
         TableOK(regions'), \A t \in Threads : second_guard'[t] \subseteq Pages
  PROVE  IInv'
<1>1. \A k \in DOMAIN regions' : regions'[k] \in Regions
  BY DEF TableOK, WholeRegions
<1>2. Len(regions') <= MaxRegions
  BY DEF TableOK
<1>3. TypeOK'
  BY <1>1, <1>2 DEF IInv, TypeOK
<1>4. CheckOK'
  BY DEF IInv, CheckOK
<1> QED BY <1>3, <1>4 DEF IInv

\* One guard fits in memory if its page is there.
LEMMA GuardInMemory ==
  ASSUME NEW p \in Pages
  PROVE  p \in Nat /\ 1 \in Nat \ {0} /\ InMemory(p, 1)
BY MemoryAssumption DEF InMemory

LEMMA InitStep ==
  ASSUME IInv, memory_protection_init
  PROVE  IInv'
<1> DEFINE flash == Protected(regions, Flash.start, Flash.size)
           sram == Protected(flash, Sram.start, Sram.size)
<1>1. memory \in [Pages -> Contents] /\ TableOK(regions)
  BY DEF IInv, TypeOK
<1>2. ASSUME NEW r \in {Flash, Sram, Peripherals}
      PROVE  r.start \in Nat /\ r.size \in Nat \ {0} /\ InMemory(r.start, r.size)
  BY MemoryAssumption DEF InMemory
<1>3. TableOK(flash)
  BY <1>1, <1>2, ProtectedKeepsTable
<1>4. TableOK(sram)
  <2> HIDE DEF flash
  <2> QED BY <1>1, <1>2, <1>3, ProtectedKeepsTable
<1>5. TableOK(Protected(sram, Peripherals.start, Peripherals.size))
  <2> HIDE DEF sram
  <2> QED BY <1>1, <1>2, <1>4, ProtectedKeepsTable
<1>6. regions' = Protected(sram, Peripherals.start, Peripherals.size)
  BY DEF memory_protection_init
<1>7. pc = "sleep" /\ UNCHANGED <<pc, i, memory, second_guard>>
  BY DEF memory_protection_init, MutexFree, MemoryKept
<1>8. \A t \in Threads : second_guard'[t] \subseteq Pages
  BY <1>7 DEF IInv, TypeOK
<1> HIDE DEF sram
<1> QED BY <1>5, <1>6, <1>7, <1>8, SetupKeeps

LEMMA SetUpStep ==
  ASSUME IInv, NEW t \in Threads, SetUp(t)
  PROVE  IInv'
<1>1. memory \in [Pages -> Contents] /\ TableOK(regions)
      /\ \A u \in Threads : second_guard[u] \subseteq Pages
  BY DEF IInv, TypeOK
<1>2. PICK start \in Pages, size \in 1 .. Cardinality(Pages) :
         /\ InMemory(start, size)
         /\ \/ protect_memory_region(t, start, size)
            \/ \E aligned \in BOOLEAN : setup_stack_protection(t, start, size, aligned)
            \/ \E secondary \in Pages :
                  /\ size \in PairSizes /\ InMemory(secondary, size)
                  /\ setup_redundant_memory(t, start, secondary, size)
  BY DEF SetUp
<1>3. start \in Nat /\ size \in Nat \ {0}
  <2>1. Cardinality(Pages) \in Nat
    BY MemoryAssumption, FS_CardinalityType
  <2> QED BY <2>1, MemoryAssumption
<1>4. CASE protect_memory_region(t, start, size)
  <2>1. /\ regions' = Protected(regions, start, size) /\ pc = "sleep"
        /\ UNCHANGED <<pc, i, memory, second_guard>>
    BY <1>4 DEF protect_memory_region, Call, MutexFree, MemoryKept
  <2>2. TableOK(regions')
    BY <1>1, <1>2, <1>3, <2>1, ProtectedKeepsTable
  <2> QED BY <1>1, <2>1, <2>2, SetupKeeps
<1>5. ASSUME NEW aligned \in BOOLEAN, setup_stack_protection(t, start, size, aligned)
      PROVE  IInv'
  <2>1. /\ regions' = Protected(regions, start, 1) /\ pc = "sleep"
        /\ UNCHANGED <<pc, i, memory>>
    BY <1>5 DEF setup_stack_protection, Call, MutexFree, MemoryKept
  <2>2. TableOK(regions')
    BY <1>1, <2>1, GuardInMemory, ProtectedKeepsTable
  <2>3. start + size - 1 \in Pages
    BY <1>2, <1>3, InMemoryFacts
  <2>4. \A u \in Threads : second_guard'[u] \subseteq Pages
    <3> SUFFICES ASSUME NEW u \in Threads PROVE second_guard'[u] \subseteq Pages
      OBVIOUS
    <3> DEFINE g == IF ~Refused(regions, start, 1) /\ aligned THEN {start + size - 1} ELSE {}
    <3>1. g \subseteq Pages
      BY <2>3
    <3>2. second_guard' = [second_guard EXCEPT ![t] = g]
      BY <1>5 DEF setup_stack_protection
    <3> HIDE DEF g
    <3>3. second_guard'[u] = second_guard[u] \/ second_guard'[u] = g
      BY <3>2
    <3> QED BY <1>1, <3>1, <3>3
  <2> QED BY <2>1, <2>2, <2>4, SetupKeeps
<1>6. ASSUME NEW secondary \in Pages, size \in PairSizes, InMemory(secondary, size),
             setup_redundant_memory(t, start, secondary, size)
      PROVE  IInv'
  <2> DEFINE one == Protected(regions, start, size)
             two == Protected(one, secondary, size)
  <2>1. pc = "sleep" /\ UNCHANGED <<pc, i, memory, second_guard>>
    BY <1>6 DEF setup_redundant_memory, Call, MutexFree, MemoryKept
  <2>2. \/ regions' = regions
        \/ regions' = one
        \/ /\ ~Refused(regions, start, size) /\ ~Refused(one, secondary, size)
           /\ regions' = Paired(two, start, secondary)
    BY <1>6 DEF setup_redundant_memory
  <2>3. TableOK(one)
    BY <1>1, <1>2, <1>3, ProtectedKeepsTable
  <2>4. secondary \in Nat
    BY MemoryAssumption
  <2>5. ~Refused(regions, start, size) /\ ~Refused(one, secondary, size)
           => TableOK(Paired(two, start, secondary))
    BY <1>1, <1>2, <1>3, <1>6, <2>4, PairedKeepsTable
  <2> HIDE DEF one, two
  <2>6. TableOK(regions')
    BY <1>1, <2>2, <2>3, <2>5
  <2> QED BY <1>1, <2>1, <2>6, SetupKeeps
<1> QED BY <1>2, <1>4, <1>5, <1>6

LEMMA GuardStep ==
  ASSUME IInv, NEW t \in Threads, ProtectSecondGuard(t)
  PROVE  IInv'
<1>1. memory \in [Pages -> Contents] /\ TableOK(regions)
      /\ \A u \in Threads : second_guard[u] \subseteq Pages
  BY DEF IInv, TypeOK
<1>2. PICK start \in second_guard[t] :
         /\ pc = "sleep" /\ regions' = Protected(regions, start, 1)
         /\ second_guard' = [second_guard EXCEPT ![t] = {}]
         /\ UNCHANGED <<pc, i, memory>>
  BY DEF ProtectSecondGuard, MutexFree, MemoryKept
<1>3. start \in Pages
  BY <1>1
<1>4. TableOK(regions')
  BY <1>1, <1>2, <1>3, GuardInMemory, ProtectedKeepsTable
<1>5. \A u \in Threads : second_guard'[u] \subseteq Pages
  <2> SUFFICES ASSUME NEW u \in Threads PROVE second_guard'[u] \subseteq Pages
    OBVIOUS
  <2>1. second_guard'[u] = second_guard[u] \/ second_guard'[u] = {}
    BY <1>2
  <2> QED BY <1>1, <2>1
<1> QED BY <1>2, <1>4, <1>5, SetupKeeps

\* A copy of pages that are in memory leaves memory a memory.
LEMMA CopyKeepsMemory ==
  ASSUME memory \in [Pages -> Contents], NEW dest \in Nat, NEW src \in Nat,
         NEW size \in Nat \ {0}, InMemory(src, size), memcpy(dest, src, size)
  PROVE  memory' \in [Pages -> Contents]
<1> SUFFICES ASSUME NEW p \in Pages, p \in dest .. dest + size - 1
             PROVE  memory[src + p - dest] \in Contents
  BY DEF memcpy
<1>1. src + p - dest \in src .. src + size - 1
  OBVIOUS
<1> QED BY <1>1 DEF InMemory

\* The region under the check and its copy are in memory.
LEMMA CurrentFacts ==
  ASSUME IInv, pc \notin {"sleep", "crc"}
  PROVE  /\ Current.start \in Nat /\ Current.size \in Nat \ {0}
         /\ InMemory(Current.start, Current.size)
         /\ Current.redundant_addr \in Nat
         /\ InMemory(Current.redundant_addr, Current.size)
<1>1. i \in DOMAIN regions /\ Current.redundant_addr # NoPartner
  BY DEF IInv, TypeOK, Current
<1>2. \A k \in DOMAIN regions : regions[k] \in WholeRegions
  BY DEF IInv, TableOK
<1>3. \A k \in DOMAIN regions : /\ regions[k].start \in Nat /\ regions[k].size \in Nat \ {0}
                                /\ InMemory(regions[k].start, regions[k].size)
  BY <1>2, RegionFacts DEF WholeRegions
<1>4. PICK k \in DOMAIN regions : Partner(regions, i, k)
  BY <1>1 DEF IInv, TableOK, Partnered, Current
<1>5. Current.redundant_addr = regions[k].start /\ Current.size = regions[k].size
  BY <1>4 DEF Partner, Current
<1> QED BY <1>1, <1>3, <1>5 DEF Current

\* The check looks at memory and at the table, and repairs memory.
LEMMA CheckStep ==
  ASSUME IInv, periodic_memory_check
  PROVE  IInv'
<1>1. UNCHANGED <<regions, second_guard>>
  BY DEF periodic_memory_check, StartCheck, EndCheck, VerifyChecksum, CompareCopies,
         FindValidCopy, Repair, SetupKept
<1>2. i \in Nat /\ (pc # "sleep" => i >= 1)
  BY DEF IInv, CheckOK
<1>3. memory' \in [Pages -> Contents]
  <2>1. memory \in [Pages -> Contents]
    BY DEF IInv, TypeOK
  <2>2. CASE Repair
    <3>1. pc \in {"copy_out", "copy_in"}
      BY <2>2 DEF Repair
    <3>2. \/ memcpy(Current.redundant_addr, Current.start, Current.size)
          \/ memcpy(Current.start, Current.redundant_addr, Current.size)
      BY <2>2 DEF Repair
    <3> QED BY <2>1, <3>1, <3>2, CurrentFacts, CopyKeepsMemory
  <2>3. CASE ~Repair
    BY <2>1, <2>3 DEF periodic_memory_check, StartCheck, EndCheck, VerifyChecksum, CompareCopies,
       FindValidCopy, MemoryKept
  <2> QED BY <2>2, <2>3
<1>4. /\ i' \in Nat
      /\ pc' \in {"sleep", "crc", "compare", "verify_own", "verify_copy", "copy_out", "copy_in"}
      /\ pc' # "sleep" => i' >= 1
  BY <1>2 DEF periodic_memory_check, StartCheck, EndCheck, VerifyChecksum, CompareCopies,
     FindValidCopy, Repair, NextRegion, Look
<1>5. pc' \notin {"sleep", "crc"} =>
         i' \in DOMAIN regions /\ regions[i'].redundant_addr \notin {NoPartner, 0}
  <2>1. CASE VerifyChecksum
    <3>1. i \in DOMAIN regions
      <4>1. regions \in Seq(WholeRegions)
        BY DEF IInv, TableOK
      <4>2. i >= 1 /\ i <= Len(regions)
        BY <1>2, <2>1 DEF VerifyChecksum
      <4> QED BY <1>2, <4>1, <4>2
    <3> QED BY <2>1, <3>1 DEF VerifyChecksum, Look, NextRegion, Current
  <2>2. CASE CompareCopies \/ FindValidCopy
    <3>1. pc \in {"compare", "verify_own", "verify_copy"} /\ (pc' = "crc" \/ i' = i)
      BY <2>2 DEF CompareCopies, FindValidCopy, Look, NextRegion
    <3> QED BY <3>1 DEF IInv, TypeOK
  <2>3. CASE StartCheck \/ EndCheck \/ Repair
    BY <2>3 DEF StartCheck, EndCheck, Repair, NextRegion
  <2> QED BY <2>1, <2>2, <2>3 DEF periodic_memory_check
<1>6. TypeOK'
  BY <1>1, <1>3, <1>4, <1>5 DEF IInv, TypeOK
<1>7. TableOK(regions)' /\ CheckOK'
  BY <1>1, <1>4 DEF IInv, CheckOK
<1> QED BY <1>6, <1>7 DEF IInv

LEMMA MemoryStep ==
  ASSUME IInv, NEW p \in Pages, NEW c \in Contents, Write(p, c) \/ Damage(p, c)
  PROVE  IInv'
<1>1. memory' = [memory EXCEPT ![p] = c] /\ UNCHANGED <<regions, second_guard, pc, i>>
  BY DEF Write, Damage
<1>2. memory' \in [Pages -> Contents]
  BY <1>1 DEF IInv, TypeOK
<1>3. TypeOK'
  BY <1>1, <1>2 DEF IInv, TypeOK
<1> QED BY <1>1, <1>3 DEF IInv, CheckOK

LEMMA InitIInv == Init => IInv
<1> SUFFICES ASSUME Init PROVE IInv
  OBVIOUS
<1>1. regions = <<>> /\ MaxRegions \in Nat
  BY MemoryAssumption DEF Init
<1>2. TableOK(regions)
  BY <1>1 DEF TableOK, Disjoint, Partnered
<1>3. TypeOK
  BY <1>1 DEF Init, TypeOK
<1> QED BY <1>2, <1>3 DEF Init, IInv, CheckOK

LEMMA NextStep == IInv /\ [Next]_vars => IInv'
<1> SUFFICES ASSUME IInv, [Next]_vars PROVE IInv'
  OBVIOUS
<1>1. ASSUME NEW p \in Writable, NEW c \in Contents, Write(p, c) PROVE IInv'
  BY <1>1, MemoryStep, MemoryAssumption
<1>2. CASE UNCHANGED vars
  <2>1. UNCHANGED <<memory, regions, second_guard, pc, i>>
    BY <1>2 DEF vars
  <2> QED BY <2>1 DEF IInv, TypeOK, CheckOK
<1> QED BY <1>1, <1>2, InitStep, SetUpStep, GuardStep, CheckStep, MemoryStep DEF Next

LEMMA Inductive == Spec => []IInv
BY InitIInv, NextStep, PTL DEF Spec

\* The table of regions keeps its bound and its entries stay in memory, and
\* periodic_memory_check never looks behind the last entry, for any memory, any
\* default regions and any number of threads and regions.
THEOREM MemoryTypeOK == Spec => []TypeOK
<1>1. IInv => TypeOK
  BY DEF IInv
<1> QED BY <1>1, Inductive, PTL

\* No two protected regions share a page and every copy of a redundant pair
\* knows the other, in whatever order memory_protection_init and the calls of
\* any number of threads take the mutex and wherever they are refused.
THEOREM RegionsCorrect == Spec => []RegionsWellFormed
<1>1. IInv => RegionsWellFormed
  BY DEF IInv, TableOK, Disjoint, Partnered, Partner, RegionsWellFormed
<1> QED BY <1>1, Inductive, PTL

-----------------------------------------------------------------------------
(* What redundant pairs hold.                                               *)

\* After no more than one fault, wherever the check was when it happened, and
\* whatever else has been set up, written and repaired since, one copy at least
\* of every pair that was set up with equal contents and not written since still
\* holds them: a repair never destroys the good copy.
CopySurvives ==
    faults <= 1 => \A pr \in pairs : \/ Held(pr.primary, pr.size) = pr.held
                                     \/ Held(pr.secondary, pr.size) = pr.held

\* The entry of one copy of pr, at own, when the other copy is at other.
EntryOf(r, pr, own, other) ==
    r.start = own /\ r.redundant_addr = other /\ r.size = pr.size /\ r.crc = pr.held

\* Both copies of pr are in the table, with the checksum of what they held.
Recorded(rs, pr) ==
    \E j, k \in DOMAIN rs :
        /\ j # k
        /\ EntryOf(rs[j], pr, pr.primary, pr.secondary)
        /\ EntryOf(rs[k], pr, pr.secondary, pr.primary)

\* The check is past the comparison of the copies of pr.
Repairing(pr) ==
    /\ pc \in {"verify_own", "verify_copy", "copy_out", "copy_in"}
    /\ Current.start \in {pr.primary, pr.secondary}

\* The source of the copy that comes next holds what the checksum says.
SourceHolds(pr) ==
    /\ pc = "copy_out" => Held(Current.start, pr.size) = pr.held
    /\ pc = "copy_in" => Held(Current.redundant_addr, pr.size) = pr.held

PairSound(pr) ==
    /\ Recorded(regions, pr)
    /\ faults = 0 => /\ Held(pr.primary, pr.size) = pr.held
                     /\ Held(pr.secondary, pr.size) = pr.held
                     /\ ~Repairing(pr)
    /\ faults = 1 => /\ \/ Held(pr.primary, pr.size) = pr.held
                        \/ Held(pr.secondary, pr.size) = pr.held
                     /\ Repairing(pr) => SourceHolds(pr)

PairsSound == faults \in Nat /\ \A pr \in pairs : PairSound(pr)

\* What the copies of a recorded pair are: two ranges of memory without a page
\* in common.
PairPages(pr) ==
    pr.primary .. pr.primary + pr.size - 1 \cup pr.secondary .. pr.secondary + pr.size - 1

LEMMA RecordedFacts ==
  ASSUME NEW rs, TableOK(rs), NEW pr, Recorded(rs, pr)
  PROVE  /\ pr.primary \in Nat /\ pr.secondary \in Nat /\ pr.size \in Nat \ {0}
         /\ InMemory(pr.primary, pr.size) /\ InMemory(pr.secondary, pr.size)
         /\ (pr.primary .. pr.primary + pr.size - 1)
               \cap (pr.secondary .. pr.secondary + pr.size - 1) = {}
         /\ pr.primary # pr.secondary
<1>1. PICK j \in DOMAIN rs, k \in DOMAIN rs :
        /\ j # k
        /\ EntryOf(rs[j], pr, pr.primary, pr.secondary)
        /\ EntryOf(rs[k], pr, pr.secondary, pr.primary)
  BY DEF Recorded
<1>2. rs[j] \in WholeRegions /\ rs[k] \in WholeRegions
  BY DEF TableOK
<1>3. /\ pr.primary \in Nat /\ pr.size \in Nat \ {0} /\ pr.secondary \in Nat
      /\ InMemory(pr.primary, pr.size) /\ InMemory(pr.secondary, pr.size)
  BY <1>1, <1>2, RegionFacts DEF WholeRegions, EntryOf
<1>4. PagesOf(rs[j]) \cap PagesOf(rs[k]) = {}
  BY <1>1 DEF TableOK, Disjoint
<1>5. (pr.primary .. pr.primary + pr.size - 1)
         \cap (pr.secondary .. pr.secondary + pr.size - 1) = {}
  BY <1>1, <1>4 DEF PagesOf, EntryOf
<1>6. pr.primary \in pr.primary .. pr.primary + pr.size - 1
  BY <1>3
<1>7. pr.primary # pr.secondary
  BY <1>5, <1>6
<1> QED BY <1>3, <1>5, <1>7

\* An entry that starts at a copy of pr is the entry of that copy.
LEMMA EntryInPair ==
  ASSUME NEW rs, TableOK(rs), NEW pr, Recorded(rs, pr),
         NEW l \in DOMAIN rs, rs[l].start \in {pr.primary, pr.secondary}
  PROVE  \/ EntryOf(rs[l], pr, pr.primary, pr.secondary)
         \/ EntryOf(rs[l], pr, pr.secondary, pr.primary)
<1>1. PICK j \in DOMAIN rs, k \in DOMAIN rs :
        /\ j # k
        /\ EntryOf(rs[j], pr, pr.primary, pr.secondary)
        /\ EntryOf(rs[k], pr, pr.secondary, pr.primary)
  BY DEF Recorded
<1>2. \A m \in DOMAIN rs : rs[m].start \in PagesOf(rs[m])
  <2> TAKE m \in DOMAIN rs
  <2>1. rs[m] \in WholeRegions
    BY DEF TableOK
  <2>2. rs[m].start \in Nat /\ rs[m].size \in Nat \ {0}
    BY <2>1, RegionFacts DEF WholeRegions
  <2> QED BY <2>2 DEF PagesOf
<1>3. \A m \in DOMAIN rs : rs[m].start = rs[l].start => m = l
  BY <1>2 DEF TableOK, Disjoint
<1>4. l = j \/ l = k
  BY <1>1, <1>3 DEF EntryOf
<1> QED BY <1>1, <1>4

\* Any other entry has its pages, and its copy's, outside of the pair.
LEMMA EntryOutsidePair ==
  ASSUME NEW rs, TableOK(rs), NEW pr, Recorded(rs, pr),
         NEW l \in DOMAIN rs, rs[l].start \notin {pr.primary, pr.secondary}
  PROVE  /\ PagesOf(rs[l]) \cap PairPages(pr) = {}
         /\ rs[l].redundant_addr # NoPartner =>
               (rs[l].redundant_addr .. rs[l].redundant_addr + rs[l].size - 1)
                  \cap PairPages(pr) = {}
<1>1. PICK j \in DOMAIN rs, k \in DOMAIN rs :
        /\ j # k
        /\ EntryOf(rs[j], pr, pr.primary, pr.secondary)
        /\ EntryOf(rs[k], pr, pr.secondary, pr.primary)
  BY DEF Recorded
<1>2. PairPages(pr) = PagesOf(rs[j]) \cup PagesOf(rs[k])
  BY <1>1 DEF PairPages, PagesOf, EntryOf
<1>3. \A m \in DOMAIN rs \ {j, k} : PagesOf(rs[m]) \cap PairPages(pr) = {}
  <2> TAKE m \in DOMAIN rs \ {j, k}
  <2>1. PagesOf(rs[m]) \cap PagesOf(rs[j]) = {} /\ PagesOf(rs[m]) \cap PagesOf(rs[k]) = {}
    BY DEF TableOK, Disjoint
  <2> QED BY <1>2, <2>1
<1>4. l \notin {j, k}
  BY <1>1 DEF EntryOf
<1>5. ASSUME rs[l].redundant_addr # NoPartner
      PROVE  (rs[l].redundant_addr .. rs[l].redundant_addr + rs[l].size - 1)
                \cap PairPages(pr) = {}
  <2>1. PICK m \in DOMAIN rs : Partner(rs, l, m)
    BY <1>5 DEF TableOK, Partnered
  <2>2. m \notin {j, k}
    BY <1>1, <2>1 DEF Partner, EntryOf
  <2>3. PagesOf(rs[m]) \cap PairPages(pr) = {}
    BY <1>3, <2>2
  <2> QED BY <2>1, <2>3 DEF Partner, PagesOf
<1> QED BY <1>3, <1>4, <1>5

-----------------------------------------------------------------------------
(* The table keeps its entries.                                             *)

Kept(rs, rt) == DOMAIN rs \subseteq DOMAIN rt /\ \A k \in DOMAIN rs : rt[k] = rs[k]

LEMMA KeptRecorded ==
  ASSUME NEW rs, NEW rt, Kept(rs, rt), NEW pr, Recorded(rs, pr)
  PROVE  Recorded(rt, pr)
BY DEF Kept, Recorded

LEMMA ProtectedKeeps ==
  ASSUME NEW rs, rs \in Seq(WholeRegions), NEW start, NEW size
  PROVE  Kept(rs, Protected(rs, start, size))
<1> DEFINE r == Region(start, size)
<1>1. Protected(rs, start, size) = rs \/ Protected(rs, start, size) = Append(rs, r)
  BY DEF Protected
<1> HIDE DEF r
<1>2. Kept(rs, Append(rs, r))
  BY DEF Kept
<1> QED BY <1>1, <1>2 DEF Kept

\* The two entries a redundant set-up adds record the new pair, and the entries
\* that were there stay.
LEMMA PairedKeeps ==
  ASSUME memory \in [Pages -> Contents], NEW rs, rs \in Seq(WholeRegions),
         NEW p \in Nat, NEW s \in Nat, NEW size \in Nat \ {0},
         ~Refused(rs, p, size), ~Refused(Protected(rs, p, size), s, size)
  PROVE  LET q == Paired(Protected(Protected(rs, p, size), s, size), p, s) IN
         /\ Kept(rs, q)
         /\ Held(p, size) = Held(s, size) =>
               Recorded(q, [primary |-> p, secondary |-> s, size |-> size,
                            held |-> Held(p, size)])
<1> DEFINE r1 == Region(p, size)
           r2 == Region(s, size)
           u1 == [r1 EXCEPT !.redundant_addr = s]
           u2 == [r2 EXCEPT !.redundant_addr = p]
           two == Protected(Protected(rs, p, size), s, size)
           q == Paired(two, p, s)
           m == Len(rs)
           pr == [primary |-> p, secondary |-> s, size |-> size, held |-> Held(p, size)]
<1>1. two = Append(Append(rs, r1), r2)
  BY DEF Protected
<1>2. q = [two EXCEPT ![Len(two) - 1].redundant_addr = s, ![Len(two)].redundant_addr = p]
  BY DEF Paired
<1>3. /\ u1 = [start |-> p, size |-> size, crc |-> Held(p, size), redundant_addr |-> s]
      /\ u2 = [start |-> s, size |-> size, crc |-> Held(s, size), redundant_addr |-> p]
  BY DEF Region
<1>4. Held(p, size) = Held(s, size) => EntryOf(u1, pr, p, s) /\ EntryOf(u2, pr, s, p)
  BY <1>3 DEF EntryOf
<1>5. pr.primary = p /\ pr.secondary = s
  OBVIOUS
<1> HIDE DEF pr
<1>6. /\ m \in Nat /\ DOMAIN rs = 1 .. m
      /\ DOMAIN Append(Append(rs, r1), r2) = 1 .. m + 2
      /\ Len(Append(Append(rs, r1), r2)) = m + 2
      /\ Append(Append(rs, r1), r2)[m + 1] = r1
      /\ Append(Append(rs, r1), r2)[m + 2] = r2
      /\ \A k \in 1 .. m : Append(Append(rs, r1), r2)[k] = rs[k]
  <2> HIDE DEF r1, r2
  <2> QED OBVIOUS
<1> HIDE DEF two, q, m
<1>7. Len(two) - 1 = m + 1 /\ Len(two) = m + 2 /\ DOMAIN two = 1 .. m + 2
      /\ two[m + 1] = r1 /\ two[m + 2] = r2 /\ \A k \in 1 .. m : two[k] = rs[k]
  <2> HIDE DEF r1, r2
  <2> QED BY <1>1, <1>6
<1> HIDE DEF r1, r2
<1>8. /\ DOMAIN q = 1 .. m + 2 /\ q[m + 1] = u1 /\ q[m + 2] = u2
      /\ \A k \in 1 .. m : q[k] = rs[k]
  BY <1>2, <1>6, <1>7
<1> HIDE DEF u1, u2
<1>9. Kept(rs, q)
  <2>1. 1 .. m \subseteq 1 .. m + 2
    BY <1>6
  <2> QED BY <1>6, <1>8, <2>1 DEF Kept
<1>10. ASSUME Held(p, size) = Held(s, size) PROVE Recorded(q, pr)
  <2>1. m + 1 \in DOMAIN q /\ m + 2 \in DOMAIN q /\ m + 1 # m + 2
    BY <1>6, <1>8
  <2>2. EntryOf(q[m + 1], pr, pr.primary, pr.secondary)
        /\ EntryOf(q[m + 2], pr, pr.secondary, pr.primary)
    BY <1>4, <1>5, <1>8, <1>10
  <2> QED BY <2>1, <2>2 DEF Recorded
<1> QED BY <1>9, <1>10 DEF q, two, pr

-----------------------------------------------------------------------------
(* The steps.                                                               *)

\* A step that sets up protection keeps the entries, and a pair it adds holds
\* what its entries say.
LEMMA SetupKeepsPairs ==
  ASSUME PairsSound, pc' = "sleep", memory' = memory, faults' = faults,
         Kept(regions, regions'),
         \A pr \in pairs' \ pairs : /\ Recorded(regions', pr)
                                    /\ Held(pr.primary, pr.size) = pr.held
                                    /\ Held(pr.secondary, pr.size) = pr.held
  PROVE  PairsSound'
<1> SUFFICES ASSUME NEW pr \in pairs' PROVE PairSound(pr)'
  BY DEF PairsSound
<1>1. ~Repairing(pr)'
  BY DEF Repairing
<1>2. /\ Held(pr.primary, pr.size)' = Held(pr.primary, pr.size)
      /\ Held(pr.secondary, pr.size)' = Held(pr.secondary, pr.size)
  BY DEF Held
<1>3. CASE pr \in pairs
  <2>1. PairSound(pr)
    BY <1>3 DEF PairsSound
  <2>2. Recorded(regions', pr)
    BY <2>1, KeptRecorded DEF PairSound
  <2> QED BY <1>1, <1>2, <2>1, <2>2 DEF PairSound
<1>4. CASE pr \notin pairs
  BY <1>1, <1>2, <1>4 DEF PairSound
<1> QED BY <1>3, <1>4

LEMMA InitPairsStep ==
  ASSUME IInv, PairsSound, memory_protection_init
  PROVE  PairsSound'
<1> DEFINE flash == Protected(regions, Flash.start, Flash.size)
           sram == Protected(flash, Sram.start, Sram.size)
           all == Protected(sram, Peripherals.start, Peripherals.size)
<1>1. memory \in [Pages -> Contents] /\ TableOK(regions)
  BY DEF IInv, TypeOK
<1>2. ASSUME NEW r \in {Flash, Sram, Peripherals}
      PROVE  r.start \in Nat /\ r.size \in Nat \ {0} /\ InMemory(r.start, r.size)
  BY MemoryAssumption DEF InMemory
<1>3. TableOK(flash) /\ Kept(regions, flash)
  BY <1>1, <1>2, ProtectedKeepsTable, ProtectedKeeps DEF TableOK
<1>4. TableOK(sram) /\ Kept(flash, sram)
  <2> HIDE DEF flash
  <2>1. TableOK(sram)
    BY <1>1, <1>2, <1>3, ProtectedKeepsTable
  <2> QED BY <1>3, <2>1, ProtectedKeeps DEF TableOK
<1>5. Kept(sram, all)
  <2> HIDE DEF sram
  <2> QED BY <1>4, ProtectedKeeps DEF TableOK
<1>6. regions' = all
  BY DEF memory_protection_init
<1>7. pc' = "sleep" /\ UNCHANGED <<memory, faults, pairs>>
  BY DEF memory_protection_init, MutexFree, MemoryKept
<1> HIDE DEF flash, sram, all
<1>8. Kept(regions, regions')
  BY <1>3, <1>4, <1>5, <1>6 DEF Kept
<1> QED BY <1>7, <1>8, SetupKeepsPairs

LEMMA SetUpPairsStep ==
  ASSUME IInv, PairsSound, NEW t \in Threads, SetUp(t) \/ ProtectSecondGuard(t)
  PROVE  PairsSound'
<1>1. memory \in [Pages -> Contents] /\ regions \in Seq(WholeRegions)
  BY DEF IInv, TypeOK, TableOK
<1>2. pc' = "sleep" /\ UNCHANGED <<memory, faults>>
  BY DEF SetUp, protect_memory_region, setup_stack_protection, setup_redundant_memory,
     ProtectSecondGuard, Call, MutexFree, MemoryKept
<1>3. ASSUME NEW start, NEW size, regions' = Protected(regions, start, size), pairs' = pairs
      PROVE  PairsSound'
  BY <1>1, <1>2, <1>3, ProtectedKeeps, SetupKeepsPairs
<1>4. ASSUME NEW start \in Pages, NEW size \in 1 .. Cardinality(Pages), NEW secondary \in Pages,
             setup_redundant_memory(t, start, secondary, size)
      PROVE  PairsSound'
  <2> DEFINE one == Protected(regions, start, size)
             two == Protected(one, secondary, size)
             pr == [primary |-> start, secondary |-> secondary, size |-> size,
                    held |-> Held(start, size)]
  <2>1. start \in Nat /\ secondary \in Nat /\ size \in Nat \ {0}
    <3>1. Cardinality(Pages) \in Nat
      BY MemoryAssumption, FS_CardinalityType
    <3> QED BY <3>1, MemoryAssumption
  <2>2. \/ regions' = regions /\ pairs' = pairs
        \/ regions' = one /\ pairs' = pairs
        \/ /\ ~Refused(regions, start, size) /\ ~Refused(one, secondary, size)
           /\ regions' = Paired(two, start, secondary)
           /\ pairs' = IF Held(start, size) # Held(secondary, size) THEN pairs
                       ELSE pairs \cup {pr}
    BY <1>4 DEF setup_redundant_memory
  <2>3. CASE regions' = regions /\ pairs' = pairs
    <3>1. Kept(regions, regions')
      BY <2>3 DEF Kept
    <3> QED BY <1>2, <2>3, <3>1, SetupKeepsPairs
  <2>4. CASE regions' = one /\ pairs' = pairs
    BY <1>3, <2>4
  <2>5. CASE /\ ~Refused(regions, start, size) /\ ~Refused(one, secondary, size)
             /\ regions' = Paired(two, start, secondary)
             /\ pairs' = IF Held(start, size) # Held(secondary, size) THEN pairs
                         ELSE pairs \cup {pr}
    <3>1. /\ Kept(regions, regions')
          /\ Held(start, size) = Held(secondary, size) => Recorded(regions', pr)
      BY <1>1, <2>1, <2>5, PairedKeeps
    <3>2. /\ pr.primary = start /\ pr.secondary = secondary /\ pr.size = size
          /\ pr.held = Held(start, size)
      OBVIOUS
    <3> HIDE DEF pr
    <3>3. \A x \in pairs' \ pairs : x = pr /\ Held(start, size) = Held(secondary, size)
      BY <2>5
    <3> QED BY <1>2, <3>1, <3>2, <3>3, SetupKeepsPairs
  <2> QED BY <2>2, <2>3, <2>4, <2>5
<1>5. CASE SetUp(t)
  <2>1. PICK start \in Pages, size \in 1 .. Cardinality(Pages) :
         \/ protect_memory_region(t, start, size)
         \/ \E aligned \in BOOLEAN : setup_stack_protection(t, start, size, aligned)
         \/ \E secondary \in Pages : setup_redundant_memory(t, start, secondary, size)
    BY <1>5 DEF SetUp
  <2>2. CASE protect_memory_region(t, start, size)
    BY <1>3, <2>2 DEF protect_memory_region
  <2>3. CASE \E aligned \in BOOLEAN : setup_stack_protection(t, start, size, aligned)
    BY <1>3, <2>3 DEF setup_stack_protection
  <2> QED BY <1>4, <2>1, <2>2, <2>3
<1>6. CASE ProtectSecondGuard(t)
  BY <1>3, <1>6 DEF ProtectSecondGuard
<1> QED BY <1>5, <1>6

LEMMA HeldUntouched ==
  ASSUME NEW start \in Nat, NEW size \in Nat,
         \A p \in start .. start + size - 1 : memory'[p] = memory[p]
  PROVE  Held(start, size)' = Held(start, size)
<1>1. \A k \in 0 .. size - 1 : start + k \in start .. start + size - 1
  OBVIOUS
<1>2. \A k \in 0 .. size - 1 : memory'[start + k] = memory[start + k]
  BY <1>1
<1> QED BY <1>2 DEF Held

\* A step that changes no page of pr leaves what its copies hold.
LEMMA PairUntouched ==
  ASSUME TableOK(regions), NEW pr, Recorded(regions, pr),
         \A p \in Pages : p \in PairPages(pr) => memory'[p] = memory[p]
  PROVE  /\ Held(pr.primary, pr.size)' = Held(pr.primary, pr.size)
         /\ Held(pr.secondary, pr.size)' = Held(pr.secondary, pr.size)
<1>1. /\ pr.primary \in Nat /\ pr.secondary \in Nat /\ pr.size \in Nat \ {0}
      /\ InMemory(pr.primary, pr.size) /\ InMemory(pr.secondary, pr.size)
  BY RecordedFacts
<1>2. /\ \A p \in pr.primary .. pr.primary + pr.size - 1 : memory'[p] = memory[p]
      /\ \A p \in pr.secondary .. pr.secondary + pr.size - 1 : memory'[p] = memory[p]
  BY <1>1 DEF InMemory, PairPages
<1> QED BY <1>1, <1>2, HeldUntouched

LEMMA HeldCopied ==
  ASSUME NEW dest \in Nat, NEW src \in Nat, NEW size \in Nat \ {0},
         InMemory(dest, size), memcpy(dest, src, size)
  PROVE  Held(dest, size)' = Held(src, size)
<1>1. ASSUME NEW k \in 0 .. size - 1 PROVE memory'[dest + k] = memory[src + k]
  <2>1. dest + k \in dest .. dest + size - 1
    OBVIOUS
  <2>2. dest + k \in Pages
    BY <2>1 DEF InMemory
  <2>3. memory'[dest + k] = memory[src + (dest + k) - dest]
    BY <2>1, <2>2 DEF memcpy
  <2>4. src + (dest + k) - dest = src + k
    OBVIOUS
  <2> QED BY <2>3, <2>4
<1> QED BY <1>1 DEF Held

\* At a region of pr, the check looks at the two copies of pr.
LEMMA CurrentInPair ==
  ASSUME IInv, pc \notin {"sleep", "crc"}, NEW pr, Recorded(regions, pr),
         Current.start \in {pr.primary, pr.secondary}
  PROVE  \/ EntryOf(Current, pr, pr.primary, pr.secondary)
         \/ EntryOf(Current, pr, pr.secondary, pr.primary)
<1>1. i \in DOMAIN regions /\ TableOK(regions)
  BY DEF IInv, TypeOK
<1> QED BY <1>1, EntryInPair DEF Current

\* The looks of the check: it gets to the repair of a pair only after a fault,
\* and to a copy only from a source that matched the checksum.
LEMMA LookStep ==
  ASSUME IInv, PairsSound, periodic_memory_check, ~Repair
  PROVE  PairsSound'
<1>1. UNCHANGED <<regions, pairs, memory, faults>>
  BY DEF periodic_memory_check, StartCheck, EndCheck, VerifyChecksum, CompareCopies,
     FindValidCopy, SetupKept, MemoryKept
<1> SUFFICES ASSUME NEW pr \in pairs PROVE PairSound(pr)'
  BY <1>1 DEF PairsSound
<1>2. PairSound(pr) /\ Recorded(regions, pr)
  BY DEF PairsSound, PairSound
<1>3. /\ Held(pr.primary, pr.size)' = Held(pr.primary, pr.size)
      /\ Held(pr.secondary, pr.size)' = Held(pr.secondary, pr.size)
  BY <1>1 DEF Held
<1>4. ASSUME Repairing(pr)'
      PROVE  faults # 0 /\ (faults = 1 => SourceHolds(pr)')
  <2>1. CASE CompareCopies
    <3>1. pc = "compare" /\ pc' = "verify_own" /\ i' = i
          /\ Held(Current.start, Current.size) # Held(Current.redundant_addr, Current.size)
      BY <1>4, <2>1 DEF CompareCopies, Repairing, NextRegion, Look
    <3>2. Current.start \in {pr.primary, pr.secondary}
      BY <1>1, <1>4, <3>1 DEF Repairing, Current
    <3>3. \/ EntryOf(Current, pr, pr.primary, pr.secondary)
          \/ EntryOf(Current, pr, pr.secondary, pr.primary)
      BY <1>2, <3>1, <3>2, CurrentInPair
    <3>4. faults # 0
      BY <1>2, <3>1, <3>3 DEF PairSound, EntryOf
    <3> QED BY <3>1, <3>4 DEF SourceHolds
  <2>2. CASE FindValidCopy
    <3>1. /\ pc \in {"verify_own", "verify_copy"} /\ i' = i
          /\ pc' = "copy_out" => Intact(Current.start)
          /\ pc' = "copy_in" => Intact(Current.redundant_addr)
      BY <1>4, <2>2 DEF FindValidCopy, Repairing, NextRegion, Look
    <3>2. Current' = Current
      BY <1>1, <3>1 DEF Current
    <3>3. Current.start \in {pr.primary, pr.secondary}
      BY <1>4, <3>2 DEF Repairing
    <3>4. \/ EntryOf(Current, pr, pr.primary, pr.secondary)
          \/ EntryOf(Current, pr, pr.secondary, pr.primary)
      BY <1>2, <3>1, <3>3, CurrentInPair
    <3>5. Repairing(pr)
      BY <3>1, <3>3 DEF Repairing
    <3>6. faults # 0
      BY <1>2, <3>5 DEF PairSound
    <3>7. /\ pc' = "copy_out" => Held(Current.start, pr.size) = pr.held
          /\ pc' = "copy_in" => Held(Current.redundant_addr, pr.size) = pr.held
      BY <3>1, <3>4 DEF Intact, EntryOf
    <3>8. SourceHolds(pr)'
      BY <1>1, <3>2, <3>7 DEF SourceHolds, Held
    <3> QED BY <3>6, <3>8
  <2>3. CASE StartCheck \/ EndCheck \/ VerifyChecksum
    BY <1>4, <2>3 DEF StartCheck, EndCheck, VerifyChecksum, Repairing, NextRegion, Look
  <2> QED BY <2>1, <2>2, <2>3 DEF periodic_memory_check
<1> QED BY <1>1, <1>2, <1>3, <1>4 DEF PairSound

\* A repair makes one copy of its pair what the other is, and touches no other.
LEMMA RepairStep ==
  ASSUME IInv, PairsSound, Repair
  PROVE  PairsSound'
<1>1. UNCHANGED <<regions, pairs, faults>> /\ pc' = "crc" /\ pc \in {"copy_out", "copy_in"}
  BY DEF Repair, SetupKept, NextRegion
<1>2. /\ memory \in [Pages -> Contents] /\ TableOK(regions) /\ i \in DOMAIN regions
      /\ Current.redundant_addr # NoPartner
  BY <1>1 DEF IInv, TypeOK, Current
<1>3. /\ Current.start \in Nat /\ Current.size \in Nat \ {0} /\ Current.redundant_addr \in Nat
      /\ InMemory(Current.start, Current.size) /\ InMemory(Current.redundant_addr, Current.size)
  BY <1>1, CurrentFacts
<1>4. \/ pc = "copy_out" /\ memcpy(Current.redundant_addr, Current.start, Current.size)
      \/ pc = "copy_in" /\ memcpy(Current.start, Current.redundant_addr, Current.size)
  BY DEF Repair
<1> SUFFICES ASSUME NEW pr \in pairs PROVE PairSound(pr)'
  BY <1>1 DEF PairsSound
<1>5. PairSound(pr) /\ Recorded(regions, pr)
  BY DEF PairsSound, PairSound
<1>6. ~Repairing(pr)'
  BY <1>1 DEF Repairing
<1>7. CASE Current.start \in {pr.primary, pr.secondary}
  <2>1. \/ EntryOf(Current, pr, pr.primary, pr.secondary)
        \/ EntryOf(Current, pr, pr.secondary, pr.primary)
    BY <1>1, <1>5, <1>7, CurrentInPair
  <2>2. Repairing(pr)
    BY <1>1, <1>7 DEF Repairing
  <2>3. faults # 0 /\ (faults = 1 => SourceHolds(pr))
    BY <1>5, <2>2 DEF PairSound
  <2>4. ASSUME faults = 1
        PROVE  \/ Held(pr.primary, pr.size)' = pr.held
               \/ Held(pr.secondary, pr.size)' = pr.held
    <3>1. PICK dest \in {pr.primary, pr.secondary}, src \in {pr.primary, pr.secondary} :
             memcpy(dest, src, pr.size) /\ Held(src, pr.size) = pr.held
      <4>1. CASE pc = "copy_out" /\ memcpy(Current.redundant_addr, Current.start, Current.size)
        BY <2>1, <2>3, <2>4, <4>1 DEF SourceHolds, EntryOf
      <4>2. CASE pc = "copy_in" /\ memcpy(Current.start, Current.redundant_addr, Current.size)
        BY <2>1, <2>3, <2>4, <4>2 DEF SourceHolds, EntryOf
      <4> QED BY <1>4, <4>1, <4>2
    <3>2. /\ dest \in Nat /\ src \in Nat /\ pr.size \in Nat \ {0} /\ InMemory(dest, pr.size)
      BY <1>2, <1>5, RecordedFacts
    <3>3. Held(dest, pr.size)' = Held(src, pr.size)
      BY <3>1, <3>2, HeldCopied
    <3> QED BY <3>1, <3>3
  <2> QED BY <1>1, <1>5, <1>6, <2>3, <2>4 DEF PairSound
<1>8. CASE Current.start \notin {pr.primary, pr.secondary}
  <2>1. /\ (Current.start .. Current.start + Current.size - 1) \cap PairPages(pr) = {}
        /\ (Current.redundant_addr .. Current.redundant_addr + Current.size - 1)
              \cap PairPages(pr) = {}
    BY <1>2, <1>5, <1>8, EntryOutsidePair DEF Current, PagesOf
  <2>2. \A p \in Pages : p \in PairPages(pr) => memory'[p] = memory[p]
    BY <1>4, <2>1 DEF memcpy
  <2>3. /\ Held(pr.primary, pr.size)' = Held(pr.primary, pr.size)
        /\ Held(pr.secondary, pr.size)' = Held(pr.secondary, pr.size)
    BY <2>2, PairUntouched, <1>2, <1>5
  <2> QED BY <1>1, <1>5, <1>6, <2>3 DEF PairSound
<1> QED BY <1>7, <1>8

\* Memory changes: a fault hits one copy of a pair at most, and a write that hits
\* a pair takes it out of pairs.
LEMMA DamageStep ==
  ASSUME IInv, PairsSound, NEW p \in Pages, NEW c \in Contents, Damage(p, c)
  PROVE  PairsSound'
<1>1. /\ UNCHANGED <<regions, pairs, pc, i>> /\ faults' = faults + 1
      /\ memory' = [memory EXCEPT ![p] = c]
  BY DEF Damage
<1>2. faults \in Nat /\ memory \in [Pages -> Contents] /\ TableOK(regions)
  BY DEF PairsSound, IInv, TypeOK
<1> SUFFICES ASSUME NEW pr \in pairs PROVE PairSound(pr)'
  BY <1>1, <1>2 DEF PairsSound
<1>3. PairSound(pr) /\ Recorded(regions, pr)
  BY DEF PairsSound, PairSound
<1>4. Recorded(regions, pr)'
  BY <1>1, <1>3, KeptRecorded DEF Kept
<1>5. CASE faults = 0
  <2>1. ~Repairing(pr)'
    BY <1>1, <1>3, <1>5 DEF PairSound, Repairing, Current
  <2>2. /\ pr.primary \in Nat /\ pr.secondary \in Nat /\ pr.size \in Nat \ {0}
        /\ InMemory(pr.primary, pr.size) /\ InMemory(pr.secondary, pr.size)
        /\ (pr.primary .. pr.primary + pr.size - 1)
               \cap (pr.secondary .. pr.secondary + pr.size - 1) = {}
    BY <1>2, <1>3, RecordedFacts
  <2>3. ASSUME NEW start \in {pr.primary, pr.secondary}, p \notin start .. start + pr.size - 1
        PROVE  Held(start, pr.size)' = pr.held
    <3>1. start \in Nat /\ start .. start + pr.size - 1 \subseteq Pages
      BY <2>2 DEF InMemory
    <3>2. \A q \in start .. start + pr.size - 1 : memory'[q] = memory[q]
      BY <1>1, <1>2, <2>3, <3>1
    <3>3. Held(start, pr.size)' = Held(start, pr.size)
      BY <2>2, <3>1, <3>2, HeldUntouched
    <3> QED BY <1>3, <1>5, <3>3 DEF PairSound
  <2>4. \/ Held(pr.primary, pr.size)' = pr.held
        \/ Held(pr.secondary, pr.size)' = pr.held
    BY <2>2, <2>3
  <2> QED BY <1>1, <1>4, <1>5, <2>1, <2>4 DEF PairSound
<1>6. CASE faults # 0
  <2>1. faults' # 0 /\ faults' # 1
    BY <1>1, <1>2, <1>6
  <2> QED BY <1>4, <2>1 DEF PairSound
<1> QED BY <1>5, <1>6

LEMMA WriteStep ==
  ASSUME IInv, PairsSound, NEW p \in Pages, NEW c \in Contents, Write(p, c)
  PROVE  PairsSound'
<1>1. /\ UNCHANGED <<regions, pc, i, faults>> /\ memory' = [memory EXCEPT ![p] = c]
      /\ \A pr \in pairs' : pr \in pairs /\ p \notin PairPages(pr)
  BY DEF Write, PairPages
<1>2. memory \in [Pages -> Contents] /\ TableOK(regions)
  BY DEF IInv, TypeOK
<1> SUFFICES ASSUME NEW pr \in pairs' PROVE PairSound(pr)'
  BY <1>1 DEF PairsSound
<1>3. PairSound(pr) /\ Recorded(regions, pr)
  BY <1>1 DEF PairsSound, PairSound
<1>4. Recorded(regions, pr)'
  BY <1>1, <1>3, KeptRecorded DEF Kept
<1>5. /\ Held(pr.primary, pr.size)' = Held(pr.primary, pr.size)
      /\ Held(pr.secondary, pr.size)' = Held(pr.secondary, pr.size)
  <2>1. \A q \in Pages : q \in PairPages(pr) => memory'[q] = memory[q]
    BY <1>1, <1>2
  <2> QED BY <1>2, <1>3, <2>1, PairUntouched
<1>6. Current' = Current /\ Repairing(pr)' = Repairing(pr)
  BY <1>1 DEF Current, Repairing
<1>7. ASSUME faults = 1, Repairing(pr) PROVE SourceHolds(pr)'
  <2>1. \/ EntryOf(Current, pr, pr.primary, pr.secondary)
        \/ EntryOf(Current, pr, pr.secondary, pr.primary)
    BY <1>3, <1>7, CurrentInPair DEF Repairing
  <2>2. SourceHolds(pr)
    BY <1>3, <1>7 DEF PairSound
  <2>3. CASE EntryOf(Current, pr, pr.primary, pr.secondary)
    <3>1. /\ Held(Current.start, pr.size)' = Held(pr.primary, pr.size)'
          /\ Held(Current.redundant_addr, pr.size)' = Held(pr.secondary, pr.size)'
          /\ Held(Current.start, pr.size) = Held(pr.primary, pr.size)
          /\ Held(Current.redundant_addr, pr.size) = Held(pr.secondary, pr.size)
      BY <1>6, <2>3 DEF EntryOf
    <3> QED BY <1>1, <1>5, <2>2, <3>1 DEF SourceHolds
  <2>4. CASE EntryOf(Current, pr, pr.secondary, pr.primary)
    <3>1. /\ Held(Current.start, pr.size)' = Held(pr.secondary, pr.size)'
          /\ Held(Current.redundant_addr, pr.size)' = Held(pr.primary, pr.size)'
          /\ Held(Current.start, pr.size) = Held(pr.secondary, pr.size)
          /\ Held(Current.redundant_addr, pr.size) = Held(pr.primary, pr.size)
      BY <1>6, <2>4 DEF EntryOf
    <3> QED BY <1>1, <1>5, <2>2, <3>1 DEF SourceHolds
  <2> QED BY <2>1, <2>3, <2>4
<1> QED BY <1>1, <1>3, <1>4, <1>5, <1>6, <1>7 DEF PairSound

LEMMA PairsStep == IInv /\ PairsSound /\ [Next]_vars => PairsSound'
<1> SUFFICES ASSUME IInv, PairsSound, [Next]_vars PROVE PairsSound'
  OBVIOUS
<1>1. ASSUME NEW p \in Writable, NEW c \in Contents, Write(p, c) PROVE PairsSound'
  BY <1>1, WriteStep, MemoryAssumption
<1>2. CASE UNCHANGED vars
  <2>1. UNCHANGED <<memory, regions, pc, i, faults, pairs>>
    BY <1>2 DEF vars
  <2>2. ASSUME NEW pr \in pairs PROVE PairSound(pr)'
    <3>1. /\ Repairing(pr)' = Repairing(pr) /\ SourceHolds(pr)' = SourceHolds(pr)
          /\ Recorded(regions, pr)' = Recorded(regions, pr)
      BY <2>1 DEF Repairing, SourceHolds, Recorded, Current, Held
    <3>2. /\ Held(pr.primary, pr.size)' = Held(pr.primary, pr.size)
          /\ Held(pr.secondary, pr.size)' = Held(pr.secondary, pr.size)
      BY <2>1 DEF Held
    <3>3. PairSound(pr)
      BY DEF PairsSound
    <3> QED BY <2>1, <3>1, <3>2, <3>3 DEF PairSound
  <2> QED BY <2>1, <2>2 DEF PairsSound
<1>3. CASE periodic_memory_check
  BY <1>3, LookStep, RepairStep
<1> QED BY <1>1, <1>2, <1>3, InitPairsStep, SetUpPairsStep, DamageStep DEF Next

LEMMA PairsInductive == Spec => []PairsSound
<1>1. Init => PairsSound
  BY DEF Init, PairsSound
<1> QED BY <1>1, PairsStep, Inductive, PTL DEF Spec

\* A pair that was set up with equal contents and not written since keeps one
\* good copy through any one fault at any time, also in the middle of a check
\* of this pair or another, and through every repair: what periodic_memory_check
\* copies out of is the copy that matches the checksum (memory_protection.c:214).
\* It is the safety half of DamageIsRepaired, for any memory, pairs and threads.
THEOREM CopiesSurvive == Spec => []CopySurvives
<1>1. PairsSound => CopySurvives
  BY DEF PairsSound, PairSound, CopySurvives
<1> QED BY <1>1, PairsInductive, PTL
=============================================================================
