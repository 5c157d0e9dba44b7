------------------------------ MODULE Memblock ------------------------------
(***************************************************************************)
(* The boot-time physical memory allocator of x64/mm/memblock.c.           *)
(*                                                                         *)
(* Two arrays of regions are kept: "memory" (usable RAM) and "reserved".   *)
(* The code is sequential; it is modelled one loop iteration per step, so  *)
(* that the intermediate states of the arrays, where the BUG_ONs are       *)
(* evaluated, can be examined and reasoned about.  pc names the loop the   *)
(* processor is in, fr holds the locals of that loop.                      *)
(*                                                                         *)
(* Indices are one larger than in C: regions[i] of the source is element   *)
(* i + 1 of the sequence.  cnt is the length of the sequence.  flags and   *)
(* nid are left out: every caller passes MEMBLOCK_NONE and MAX_NUMNODES.   *)
(* bottom_up is FALSE, its static initial value that no code changes.      *)
(*                                                                         *)
(* The operators named Bug_... are wrong variants of the definition that   *)
(* follows them.  No behaviour uses them: they are put in its place to see *)
(* that the properties notice (README, Mutants).                           *)
(***************************************************************************)
EXTENDS Integers, Sequences, SequencesExt

CONSTANTS
  PHYS_ADDR_MAX,          \* 2^w - 1 for addresses of w bits
  PAGE_SIZE,              \* a power of two; page 0 is never handed out
  INIT_MEMBLOCK_REGIONS,  \* capacity of each array
  AddCalls,               \* the <<base, size>> that callers pass to memblock_add
  ReserveCalls,           \* ... to memblock_reserve
  FreeCalls,              \* ... to memblock_free
  AllocCalls              \* the requests passed to memblock_phys_alloc_range

Addr == 0 .. PHYS_ADDR_MAX
Ranges == Addr \X Addr
Requests == [size : Addr, align : Addr \ {0}, start : Addr, end : Addr]

ASSUME SizesAssumption ==
  /\ PHYS_ADDR_MAX \in Nat \ {0}
  /\ PAGE_SIZE \in 1 .. PHYS_ADDR_MAX
  /\ INIT_MEMBLOCK_REGIONS \in Nat \ {0}

ASSUME CallsAssumption ==
  /\ AddCalls \subseteq Ranges
  /\ ReserveCalls \subseteq Ranges
  /\ FreeCalls \subseteq Ranges
  /\ AllocCalls \subseteq Requests

VARIABLES
  mb,      \* the two memblock_type structures: their regions and total_size
  pc,      \* which loop is running, "idle" between calls
  fr,      \* the locals of that loop
  found,   \* what the last memblock_alloc_range_nid found, 0 for nothing
  hung     \* TRUE once a BUG_ON has executed HLT with interrupts disabled

vars == <<mb, pc, fr, found, hung>>

Types == {"memory", "reserved"}
Region == [base : Addr, size : Addr]
NoFrame == [idx |-> 0]

rend(r) == r.base + r.size

\* The macros of types.h.  round_down is given by what the mask arithmetic
\* computes when align is a power of two.
min(x, y) == IF x < y THEN x ELSE y
max(x, y) == IF x > y THEN x ELSE y
clamp(val, lo, hi) == min(max(val, lo), hi)
round_down(x, align) == x - (x % align)

-----------------------------------------------------------------------------
(***************************************************************************)
(* The regions arrays.                                                     *)
(***************************************************************************)

Empty == <<[base |-> 0, size |-> 0]>>
IsEmpty(rs) == rs[1].size = 0

Full(rs) == Len(rs) >= INIT_MEMBLOCK_REGIONS

Bug_no_cap(base, size) == size
memblock_cap_size(base, size) == min(size, PHYS_ADDR_MAX - base)

memblock_insert_region(m, i, base, size) ==
  [regions |-> InsertAt(m.regions, i, [base |-> base, size |-> size]),
   total   |-> m.total + size]

Bug_total_kept(m, i) ==
  [m EXCEPT !.regions = IF Len(@) = 1 THEN Empty ELSE RemoveAt(@, i)]
memblock_remove_region(m, i) ==
  [regions |-> IF Len(m.regions) = 1 THEN Empty ELSE RemoveAt(m.regions, i),
   total   |-> m.total - m.regions[i].size]

Bug_neighbour_lost(m, i) == [m EXCEPT !.regions = RemoveAt(@, i + 1)]

\* regions[i] takes over its right neighbour; total_size does not change.
MergeAt(m, i) ==
  LET grown == [m.regions EXCEPT ![i].size = @ + m.regions[i + 1].size]
  IN  [m EXCEPT !.regions = RemoveAt(grown, i + 1)]

Bug_inclusive_end(this, next) == rend(this) - 1 = next.base
Touches(this, next) == rend(this) = next.base

\* The complement of the reserved regions: gap b lies between region b and
\* region b + 1, from address 0 and up to PHYS_ADDR_MAX at the two ends.
Bug_gap_at_base(rs, b) == IF b > 0 THEN rs[b].base ELSE 0
GapStart(rs, b) == IF b > 0 THEN rend(rs[b]) ELSE 0
GapEnd(rs, b) == IF b < Len(rs) THEN rs[b + 1].base ELSE PHYS_ADDR_MAX

-----------------------------------------------------------------------------
Init ==
  /\ mb = [t \in Types |-> [regions |-> Empty, total |-> 0]]
  /\ pc = "idle"
  /\ fr = NoFrame
  /\ found = 0
  /\ hung = FALSE

Return == pc' = "idle" /\ fr' = NoFrame

Running(where) == pc = where /\ ~hung

\* BUG_ON: HLT with interrupts off, the processor stops where it is.
Bug == hung' = TRUE /\ UNCHANGED <<pc, fr, found>>

(***************************************************************************)
(* memblock_add_range.  Its first part caps the size and fills an empty    *)
(* array.  cnt0 and planned are history: the count before the call and the *)
(* nr_new of the first pass, neither is read by the code that is compiled. *)
(***************************************************************************)
ScanFrame(t, base, end, cnt, planned) ==
  [type |-> t, obase |-> base, base |-> base, end |-> end, nr_new |-> 0,
   idx |-> 1, cnt0 |-> cnt, planned |-> planned]

memblock_add_range(t, base, size) ==
  LET m == mb[t]
      capped == memblock_cap_size(base, size)
  IN  \/ /\ capped = 0
         /\ Return
         /\ UNCHANGED mb
      \/ /\ capped > 0
         /\ IsEmpty(m.regions)
         /\ mb' = [mb EXCEPT ![t] =
              [regions |-> <<[base |-> base, size |-> capped]>>, total |-> capped]]
         /\ Return
      \/ /\ capped > 0
         /\ ~IsEmpty(m.regions)
         /\ pc' = "count"
         /\ fr' = ScanFrame(t, base, base + capped, Len(m.regions), 0)
         /\ UNCHANGED mb

memblock_add(base, size) ==
  /\ Running("idle")
  /\ memblock_add_range("memory", base, size)
  /\ UNCHANGED <<found, hung>>

memblock_reserve(base, size) ==
  /\ Running("idle")
  /\ memblock_add_range("reserved", base, size)
  /\ UNCHANGED <<found, hung>>

\* The loop that looks for the regions overlapping [base, end): it runs twice,
\* in the "count" pass without inserting anything.
Scanning == pc \in {"count", "insert"} /\ ~hung
ScanRegions == mb[fr.type].regions
ScanRegion == ScanRegions[fr.idx]
InLoop == fr.idx <= Len(ScanRegions) /\ ScanRegion.base < fr.end
\* [base, rbase) is not covered yet.
HasFront == ScanRegion.base > fr.base

ScanSkip ==
  /\ Scanning
  /\ InLoop
  /\ rend(ScanRegion) <= fr.base
  /\ fr' = [fr EXCEPT !.idx = @ + 1]
  /\ UNCHANGED <<mb, pc, found, hung>>

ScanOverlap ==
  /\ Scanning
  /\ InLoop
  /\ rend(ScanRegion) > fr.base
  /\ ~HasFront
  /\ fr' = [fr EXCEPT !.idx = @ + 1, !.base = min(rend(ScanRegion), fr.end)]
  /\ UNCHANGED <<mb, pc, found, hung>>

CountFront ==
  /\ Running("count")
  /\ InLoop
  /\ HasFront
  /\ fr' = [fr EXCEPT !.idx = @ + 1, !.nr_new = @ + 1,
                      !.base = min(rend(ScanRegion), fr.end)]
  /\ UNCHANGED <<mb, pc, found, hung>>

InsertFront ==
  /\ Running("insert")
  /\ InLoop
  /\ HasFront
  /\ ~Full(ScanRegions)
  /\ mb' = [mb EXCEPT ![fr.type] =
       memblock_insert_region(@, fr.idx, fr.base, ScanRegion.base - fr.base)]
  /\ fr' = [fr EXCEPT !.idx = @ + 2, !.nr_new = @ + 1,
                      !.base = min(rend(ScanRegion), fr.end)]
  /\ UNCHANGED <<pc, found, hung>>

\* What is left of [base, end) behind the last overlapping region.
HasTail == fr.base < fr.end
NrNew == fr.nr_new + IF HasTail THEN 1 ELSE 0

CountDone ==
  /\ Running("count")
  /\ ~InLoop
  /\ IF NrNew = 0
     THEN Return
     ELSE /\ pc' = "insert"
          /\ fr' = ScanFrame(fr.type, fr.obase, fr.end, fr.cnt0, NrNew)
  /\ UNCHANGED <<mb, found, hung>>

InsertDone ==
  /\ Running("insert")
  /\ ~InLoop
  /\ HasTail => ~Full(ScanRegions)
  /\ mb' = IF HasTail
           THEN [mb EXCEPT ![fr.type] =
                  memblock_insert_region(@, fr.idx, fr.base, fr.end - fr.base)]
           ELSE mb
  /\ pc' = "merge"
  /\ fr' = [type |-> fr.type, idx |-> 1]
  /\ UNCHANGED <<found, hung>>

InsertBug ==
  /\ Running("insert")
  /\ IF InLoop THEN HasFront ELSE HasTail
  /\ Full(ScanRegions)
  /\ Bug
  /\ UNCHANGED mb

(***************************************************************************)
(* memblock_merge_regions.                                                 *)
(***************************************************************************)
Merging == Running("merge") /\ fr.idx < Len(ScanRegions)

Merge ==
  /\ Merging
  /\ Touches(ScanRegion, ScanRegions[fr.idx + 1])
  /\ mb' = [mb EXCEPT ![fr.type] = MergeAt(@, fr.idx)]
  /\ UNCHANGED <<pc, fr, found, hung>>

MergeNext ==
  /\ Merging
  /\ ~Touches(ScanRegion, ScanRegions[fr.idx + 1])
  /\ fr' = [fr EXCEPT !.idx = @ + 1]
  /\ UNCHANGED <<mb, pc, found, hung>>

MergeDone ==
  /\ Running("merge")
  /\ fr.idx >= Len(ScanRegions)
  /\ Return
  /\ UNCHANGED <<mb, found, hung>>

(***************************************************************************)
(* memblock_free: memblock_isolate_range splits the regions at base and at *)
(* end, then memblock_remove_range removes start_rgn .. end_rgn, last      *)
(* first.  cnt0 is history.                                                *)
(***************************************************************************)
memblock_free(base, size) ==
  LET capped == memblock_cap_size(base, size)
  IN  /\ Running("idle")
      /\ IF capped = 0
         THEN Return
         ELSE /\ pc' = "isolate"
              /\ fr' = [type |-> "reserved", base |-> base, end |-> base + capped,
                        idx |-> 1, start_rgn |-> 1, end_rgn |-> 0,
                        cnt0 |-> Len(mb["reserved"].regions)]
      /\ UNCHANGED <<mb, found, hung>>

Isolating == pc = "isolate" /\ ~hung

IsolateSkip ==
  /\ Isolating
  /\ InLoop
  /\ rend(ScanRegion) <= fr.base
  /\ fr' = [fr EXCEPT !.idx = @ + 1]
  /\ UNCHANGED <<mb, pc, found, hung>>

Overlapping == Isolating /\ InLoop /\ rend(ScanRegion) > fr.base
CutsFront(r) == r.base < fr.base
Bug_cuts_at_end(r) == rend(r) >= fr.end
CutsBack(r) == rend(r) > fr.end

\* The region keeps what lies above cut; its total_size is adjusted and the
\* part below is inserted again as a region of its own.
Bug_base_kept(m, i, cut) ==
  LET off == cut - m.regions[i].base
  IN  [regions |-> [m.regions EXCEPT ![i].size = @ - off], total |-> m.total - off]
ShrinkTo(m, i, cut) ==
  LET off == cut - m.regions[i].base
  IN  [regions |-> [m.regions EXCEPT ![i] = [base |-> cut, size |-> @.size - off]],
       total   |-> m.total - off]

SplitAt(cut) ==
  LET m == mb[fr.type]
      shrunk == ShrinkTo(m, fr.idx, cut)
      rbase == ScanRegion.base
  IN  IF Full(m.regions)
      THEN /\ mb' = [mb EXCEPT ![fr.type] = shrunk]
           /\ Bug
      ELSE /\ mb' = [mb EXCEPT ![fr.type] =
                memblock_insert_region(shrunk, fr.idx, rbase, cut - rbase)]
           /\ fr' = [fr EXCEPT !.idx = IF cut = fr.base THEN @ + 1 ELSE @]
           /\ UNCHANGED <<pc, found, hung>>

IsolateFront ==
  /\ Overlapping
  /\ CutsFront(ScanRegion)
  /\ SplitAt(fr.base)

IsolateBack ==
  /\ Overlapping
  /\ ~CutsFront(ScanRegion)
  /\ CutsBack(ScanRegion)
  /\ SplitAt(fr.end)

IsolateWhole ==
  /\ Overlapping
  /\ ~CutsFront(ScanRegion)
  /\ ~CutsBack(ScanRegion)
  /\ fr' = [fr EXCEPT !.idx = @ + 1, !.end_rgn = fr.idx,
                      !.start_rgn = IF fr.end_rgn = 0 THEN fr.idx ELSE @]
  /\ UNCHANGED <<mb, pc, found, hung>>

IsolateDone ==
  /\ Isolating
  /\ ~InLoop
  /\ pc' = "remove"
  /\ fr' = [type |-> fr.type, base |-> fr.base, end |-> fr.end,
            idx |-> fr.end_rgn, start_rgn |-> fr.start_rgn]
  /\ UNCHANGED <<mb, found, hung>>

RemoveLast ==
  /\ Running("remove")
  /\ fr.idx >= fr.start_rgn
  /\ mb' = [mb EXCEPT ![fr.type] = memblock_remove_region(@, fr.idx)]
  /\ fr' = [fr EXCEPT !.idx = @ - 1]
  /\ UNCHANGED <<pc, found, hung>>

RemoveDone ==
  /\ Running("remove")
  /\ fr.idx < fr.start_rgn
  /\ Return
  /\ UNCHANGED <<mb, found, hung>>

(***************************************************************************)
(* memblock_phys_alloc_range, top down.  The two loops of                  *)
(* __next_mem_range_rev and the loop around it are one loop over the pairs *)
(* (a, b) of a memory region and a gap between the reserved regions.       *)
(***************************************************************************)
SearchFrame(r) ==
  LET start == max(r.start, PAGE_SIZE)
      limit == IF r.end = 0 THEN PHYS_ADDR_MAX ELSE r.end
  IN  [size |-> r.size, align |-> r.align, start |-> start,
       end |-> max(start, limit),
       a |-> Len(mb["memory"].regions), b |-> Len(mb["reserved"].regions)]

memblock_phys_alloc_range(r) ==
  /\ Running("idle")
  /\ pc' = "find"
  /\ fr' = SearchFrame(r)
  /\ UNCHANGED <<mb, found, hung>>

Finding == Running("find") /\ fr.a > 0
m_start == mb["memory"].regions[fr.a].base
m_end == rend(mb["memory"].regions[fr.a])
r_start == GapStart(mb["reserved"].regions, fr.b)
r_end == GapEnd(mb["reserved"].regions, fr.b)

\* The previous memory region, the gap is kept: every gap is below m_start
\* from here on, or all the gaps have been visited.
FindPrevRegion ==
  /\ Finding
  /\ fr.b >= 0 => r_end <= m_start
  /\ fr' = [fr EXCEPT !.a = @ - 1]
  /\ UNCHANGED <<mb, pc, found, hung>>

FindPrevGap ==
  /\ Finding
  /\ fr.b >= 0 /\ r_end > m_start
  /\ m_end <= r_start
  /\ fr' = [fr EXCEPT !.b = @ - 1]
  /\ UNCHANGED <<mb, pc, found, hung>>

this_start == clamp(max(m_start, r_start), fr.start, fr.end)
this_end == clamp(min(m_end, r_end), fr.start, fr.end)
cand == round_down(this_end - fr.size, fr.align)
Bug_no_perfect_fit == this_end >= fr.size /\ cand > this_start
Bug_no_lower_bound == this_end >= fr.size
Fits == this_end >= fr.size /\ cand >= this_start
FreeRange == Finding /\ fr.b >= 0 /\ r_end > m_start /\ m_end > r_start

Bug_cursor_kept == FreeRange /\ ~Fits /\ UNCHANGED vars
FindTry ==
  /\ FreeRange
  /\ ~Fits
  /\ fr' = IF m_start >= r_start THEN [fr EXCEPT !.a = @ - 1]
                                 ELSE [fr EXCEPT !.b = @ - 1]
  /\ UNCHANGED <<mb, pc, found, hung>>

FindHit ==
  /\ FreeRange
  /\ Fits
  /\ found' = cand
  /\ pc' = "reserve"
  /\ UNCHANGED <<mb, fr, hung>>

FindFail ==
  /\ Running("find")
  /\ fr.a = 0
  /\ found' = 0
  /\ Return
  /\ UNCHANGED <<mb, hung>>

AllocReserve ==
  /\ Running("reserve")
  /\ memblock_add_range("reserved", found, fr.size)
  /\ UNCHANGED <<found, hung>>

-----------------------------------------------------------------------------
Call ==
  \/ \E c \in AddCalls : memblock_add(c[1], c[2])
  \/ \E c \in ReserveCalls : memblock_reserve(c[1], c[2])
  \/ \E c \in FreeCalls : memblock_free(c[1], c[2])
  \/ \E r \in AllocCalls : memblock_phys_alloc_range(r)

AddStep ==
  \/ ScanSkip \/ ScanOverlap \/ CountFront \/ CountDone
  \/ InsertFront \/ InsertDone \/ InsertBug
  \/ Merge \/ MergeNext \/ MergeDone

FreeStep ==
  \/ IsolateSkip \/ IsolateFront \/ IsolateBack \/ IsolateWhole \/ IsolateDone
  \/ RemoveLast \/ RemoveDone

AllocStep ==
  \/ FindPrevRegion \/ FindPrevGap \/ FindTry \/ FindHit \/ FindFail
  \/ AllocReserve

Step == AddStep \/ FreeStep \/ AllocStep

\* The processor stays in HLT.
Halted == hung /\ UNCHANGED vars

Next == Call \/ Step \/ Halted

Spec == Init /\ [][Next]_vars

\* A call that has begun runs on: there is one processor and nothing else runs
\* on it.  Nobody has to make calls.
FairSpec == Spec /\ WF_vars(Step)
=============================================================================
