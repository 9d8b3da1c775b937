---------------------------- MODULE MemoryProtection ----------------------------
(***************************************************************************)
(* src/common/safety/memory_protection.c: application threads protect       *)
(* regions and set up redundant pairs, the check thread verifies checksums  *)
(* and repairs pairs, and memory changes under it, by writes and by damage. *)
(*                                                                          *)
(* region_mutex is recursive and held for the whole of a set-up and of a    *)
(* check.  Memory itself it does not protect: a set-up is one step, every   *)
(* look of the check at memory is one.  Memory is counted in pages, and a   *)
(* checksum is what the pages held (no collisions).  Access rights are left *)
(* out: the MPU enforces them, and no decision here looks at them.          *)
(***************************************************************************)
EXTENDS Integers, Sequences, FiniteSets

CONSTANTS
    Pages,         \* page numbers; page 0 is at the null address
    Contents,      \* what a page may hold
    Threads,       \* threads that set up protection
    MaxRegions,    \* MAX_PROTECTED_REGIONS
    Flash, Sram, Peripherals, \* [start, size] of the default regions
    PairSizes,     \* sizes of redundant memory, in pages
    Writable,      \* pages the application writes while they are protected
    MaxFaults,     \* bound: pages damaged
    MaxCalls       \* bound: calls that set up protection

ASSUME MemoryAssumption ==
    /\ Pages \subseteq Nat /\ IsFiniteSet(Pages) /\ Writable \subseteq Pages
    /\ PairSizes \subseteq Nat \ {0}
    /\ MaxRegions \in Nat \ {0} /\ MaxFaults \in Nat /\ MaxCalls \in Nat
    /\ \A r \in {Flash, Sram, Peripherals} :
          /\ r \in [start : Nat, size : Nat \ {0}]
          /\ r.start .. r.start + r.size - 1 \subseteq Pages

NoPartner == -1

VARIABLES
    memory,       \* memory[p]: what page p holds
    regions,      \* regions[0 .. num_regions - 1] as a sequence, see Region
    second_guard, \* second_guard[t]: the guard t has still to protect
    initialised,  \* memory_protection_init has been called
    pc, i,        \* where periodic_memory_check is, and at which region
    faults, calls,
    pairs         \* history: pairs set up with equal contents, not written since

vars == <<memory, regions, second_guard, initialised, pc, i, faults, calls, pairs>>

-----------------------------------------------------------------------------
(* Regions.                                                                 *)

PagesOf(r) == r.start .. r.start + r.size - 1
Held(start, size) == [k \in 0 .. size - 1 |-> memory[start + k]]

\* Mutant: only the start of the new region is looked up.
StartsInside(start1, size1, start2, size2) ==
    start2 <= start1 /\ start1 < start2 + size2

regions_overlap(start1, size1, start2, size2) ==
    start1 < start2 + size2 /\ start2 < start1 + size1

Overlaps(rs, start, size) ==
    \E k \in DOMAIN rs : regions_overlap(start, size, rs[k].start, rs[k].size)

\* Mutant: the size of the table is not checked.
RefusedForOverlap(rs, start, size) == Overlaps(rs, start, size)

\* The outcome of protect_memory_region for an aligned address.
Refused(rs, start, size) == Len(rs) >= MaxRegions \/ Overlaps(rs, start, size)

Region(start, size) ==
    [start |-> start, size |-> size, crc |-> Held(start, size), redundant_addr |-> NoPartner]

Protected(rs, start, size) ==
    IF Refused(rs, start, size) THEN rs ELSE Append(rs, Region(start, size))

InMemory(start, size) == start .. start + size - 1 \subseteq Pages

\* A call by an application thread, for which region_mutex must be free.
MutexFree == pc = "sleep"
Call(t) ==
    /\ MutexFree /\ second_guard[t] = {}
    /\ calls < MaxCalls /\ calls' = calls + 1
MemoryKept == UNCHANGED <<memory, faults>>

-----------------------------------------------------------------------------
(* Setting up protection, under region_mutex.                               *)

protect_memory_region(t, start, size) ==
    /\ Call(t)
    /\ regions' = Protected(regions, start, size)
    /\ UNCHANGED <<second_guard, initialised, pc, i, pairs>> /\ MemoryKept

\* The results for the default regions are ignored.  The check thread starts.
memory_protection_init ==
    /\ ~initialised /\ MutexFree
    /\ initialised' = TRUE
    /\ LET flash == Protected(regions, Flash.start, Flash.size)
           sram == Protected(flash, Sram.start, Sram.size)
       IN  regions' = Protected(sram, Peripherals.start, Peripherals.size)
    /\ UNCHANGED <<second_guard, pc, i, calls, pairs>> /\ MemoryKept

\* The first guard is protected; the second is another call with the mutex
\* released in between, and is refused at once if its address is not aligned.
setup_stack_protection(t, start, size, aligned) ==
    /\ Call(t)
    /\ regions' = Protected(regions, start, 1)
    /\ second_guard' = [second_guard EXCEPT ![t] =
           IF ~Refused(regions, start, 1) /\ aligned THEN {start + size - 1} ELSE {}]
    /\ UNCHANGED <<initialised, pc, i, pairs>> /\ MemoryKept

ProtectSecondGuard(t) ==
    \E start \in second_guard[t] :
        /\ MutexFree
        /\ regions' = Protected(regions, start, 1)
        /\ second_guard' = [second_guard EXCEPT ![t] = {}]
        /\ UNCHANGED <<initialised, pc, i, calls, pairs>> /\ MemoryKept

\* Mutant: the secondary is marked as a copy of itself.
PairedWithSecondary(rs, primary, secondary) ==
    LET n == Len(rs) IN
    [rs EXCEPT ![n - 1].redundant_addr = secondary, ![n].redundant_addr = secondary]

\* The two regions just appended, marked as each other's copy.
Paired(rs, primary, secondary) ==
    LET n == Len(rs) IN
    [rs EXCEPT ![n - 1].redundant_addr = secondary, ![n].redundant_addr = primary]

\* When the secondary is refused the primary stays protected.
setup_redundant_memory(t, primary, secondary, size) ==
    /\ Call(t)
    /\ LET one == Protected(regions, primary, size)
           two == Protected(one, secondary, size)
       IN  \/ /\ Len(regions) >= MaxRegions - 1 \/ Refused(regions, primary, size)
              /\ UNCHANGED <<regions, pairs>>
           \/ /\ Len(regions) < MaxRegions - 1 /\ ~Refused(regions, primary, size)
              /\ Refused(one, secondary, size)
              /\ regions' = one
              /\ UNCHANGED pairs
           \/ /\ Len(regions) < MaxRegions - 1 /\ ~Refused(regions, primary, size)
              /\ ~Refused(one, secondary, size)
              /\ regions' = Paired(two, primary, secondary)
              /\ pairs' = IF Held(primary, size) # Held(secondary, size) THEN pairs
                          ELSE pairs \cup {[primary |-> primary, secondary |-> secondary,
                                            size |-> size, held |-> Held(primary, size)]}
    /\ UNCHANGED <<second_guard, initialised, pc, i>> /\ MemoryKept

-----------------------------------------------------------------------------
(* periodic_memory_check.  pc is "sleep" or the next look at memory.        *)

Current == regions[i]
Intact(start) == Held(start, Current.size) = Current.crc

SetupKept == UNCHANGED <<regions, second_guard, initialised, calls, pairs>>
NextRegion == pc' = "crc" /\ i' = i + 1
Look(label) == pc' = label /\ i' = i

StartCheck ==
    /\ pc = "sleep" /\ initialised
    /\ pc' = "crc" /\ i' = 1
    /\ SetupKept /\ MemoryKept

EndCheck ==
    /\ pc = "crc" /\ i > Len(regions)
    /\ pc' = "sleep" /\ i' = 0
    /\ SetupKept /\ MemoryKept

\* A region at the null address is taken for an unused entry.  A region that
\* does not match its checksum is reported and left, whatever its copy holds.
VerifyChecksum ==
    /\ pc = "crc" /\ i <= Len(regions)
    /\ IF Current.start # 0 /\ Intact(Current.start) /\ Current.redundant_addr \notin {NoPartner, 0}
       THEN Look("compare") ELSE NextRegion
    /\ SetupKept /\ MemoryKept

CompareCopies ==
    /\ pc = "compare"
    /\ IF Held(Current.start, Current.size) = Held(Current.redundant_addr, Current.size)
       THEN NextRegion ELSE Look("verify_own")
    /\ SetupKept /\ MemoryKept

\* Both copies are held against the checksum of this entry.
FindValidCopy ==
    /\ \/ /\ pc = "verify_own"
          /\ IF Intact(Current.start) THEN Look("copy_out") ELSE Look("verify_copy")
       \/ /\ pc = "verify_copy"
          /\ IF Intact(Current.redundant_addr) THEN Look("copy_in") ELSE NextRegion
    /\ SetupKept /\ MemoryKept

memcpy(dest, src, size) ==
    memory' = [p \in Pages |-> IF p \in dest .. dest + size - 1 THEN memory[src + p - dest]
                               ELSE memory[p]]

\* Mutant: the copy that does not match overwrites the one that does.
RepairBackwards ==
    /\ \/ pc = "copy_out" /\ memcpy(Current.start, Current.redundant_addr, Current.size)
       \/ pc = "copy_in" /\ memcpy(Current.redundant_addr, Current.start, Current.size)
    /\ NextRegion
    /\ UNCHANGED faults /\ SetupKept

Repair ==
    /\ \/ pc = "copy_out" /\ memcpy(Current.redundant_addr, Current.start, Current.size)
       \/ pc = "copy_in" /\ memcpy(Current.start, Current.redundant_addr, Current.size)
    /\ NextRegion
    /\ UNCHANGED faults /\ SetupKept

periodic_memory_check ==
    StartCheck \/ EndCheck \/ VerifyChecksum \/ CompareCopies \/ FindValidCopy \/ Repair

-----------------------------------------------------------------------------
(* Memory changes at any time, also in the middle of a check.               *)

Write(p, c) ==
    /\ memory' = [memory EXCEPT ![p] = c]
    /\ pairs' = {pr \in pairs : p \notin pr.primary .. pr.primary + pr.size - 1
                                    \cup pr.secondary .. pr.secondary + pr.size - 1}
    /\ UNCHANGED <<regions, second_guard, initialised, pc, i, faults, calls>>

Damage(p, c) ==
    /\ faults < MaxFaults
    /\ memory' = [memory EXCEPT ![p] = c]
    /\ faults' = faults + 1
    /\ UNCHANGED <<regions, second_guard, initialised, pc, i, calls, pairs>>

-----------------------------------------------------------------------------
Init ==
    /\ memory \in [Pages -> Contents]
    /\ regions = <<>>
    /\ second_guard = [t \in Threads |-> {}]
    /\ initialised = FALSE
    /\ pc = "sleep" /\ i = 0
    /\ faults = 0 /\ calls = 0
    /\ pairs = {}

SetUp(t) ==
    \E start \in Pages, size \in 1 .. Cardinality(Pages) :
        /\ InMemory(start, size)
        /\ \/ protect_memory_region(t, start, size)
           \/ \E aligned \in BOOLEAN : setup_stack_protection(t, start, size, aligned)
           \/ \E secondary \in Pages :
                 /\ size \in PairSizes /\ InMemory(secondary, size)
                 /\ setup_redundant_memory(t, start, secondary, size)

Next ==
    \/ memory_protection_init
    \/ \E t \in Threads : SetUp(t) \/ ProtectSecondGuard(t)
    \/ periodic_memory_check
    \/ \E p \in Writable, c \in Contents : Write(p, c)
    \/ \E p \in Pages, c \in Contents : Damage(p, c)

Spec == Init /\ [][Next]_vars

\* The check thread has a priority of its own and sleeps between two checks.
FairSpec == Spec /\ WF_vars(periodic_memory_check)

-----------------------------------------------------------------------------
Regions ==
    UNION {[start : Pages, size : {n}, crc : [0 .. n - 1 -> Contents],
            redundant_addr : Pages \cup {NoPartner}] : n \in 1 .. Cardinality(Pages)}

\* The table stays within its bounds, its regions in memory, and the check
\* within the table: an entry is never looked up behind the last one.
TypeOK ==
    /\ memory \in [Pages -> Contents]
    /\ Len(regions) <= MaxRegions
    /\ \A k \in DOMAIN regions : regions[k] \in Regions
    /\ \A t \in Threads : second_guard[t] \subseteq Pages
    /\ pc \in {"sleep", "crc", "compare", "verify_own", "verify_copy", "copy_out", "copy_in"}
    /\ pc \notin {"sleep", "crc"} =>
          /\ i \in DOMAIN regions
          /\ regions[i].redundant_addr \notin {NoPartner, 0}

\* No two protected regions share a page, in whatever order the calls of
\* several threads come, and every copy of a pair knows the other one: the two
\* entries marked are the two of this call.
RegionsWellFormed ==
    /\ \A j, k \in DOMAIN regions :
          j # k => PagesOf(regions[j]) \cap PagesOf(regions[k]) = {}
    /\ \A j \in DOMAIN regions :
          regions[j].redundant_addr # NoPartner =>
              \E k \in DOMAIN regions \ {j} :
                  /\ regions[k].start = regions[j].redundant_addr
                  /\ regions[k].redundant_addr = regions[j].start
                  /\ regions[k].size = regions[j].size

\* A pair set up with equal contents and not written since, away from the null
\* address, recovers from the damage of one copy at any time, also in the
\* middle of a check.
DamagedPairs ==
    {pr \in pairs : /\ 0 \notin {pr.primary, pr.secondary}
                    /\ \/ Held(pr.primary, pr.size) # pr.held
                       \/ Held(pr.secondary, pr.size) # pr.held}
DamageIsRepaired == initialised /\ DamagedPairs # {} ~> DamagedPairs = {}
=============================================================================
