--------------------------- MODULE MemblockProps ----------------------------
(***************************************************************************)
(* The properties of the boot memory allocator.                            *)
(***************************************************************************)
EXTENDS Memblock, FiniteSets

\* Addresses that the regions of rs cover.
Covered(rs) == {x \in Addr : \E k \in DOMAIN rs : rs[k].base <= x /\ x < rend(rs[k])}

\* In address order, without overlaps, without touching neighbours.
Sorted(rs) == \A k, l \in DOMAIN rs : k < l => rend(rs[k]) <= rs[l].base
Separated(rs) == \A k, l \in DOMAIN rs : k < l => rend(rs[k]) < rs[l].base
NoneEmpty(rs) == \A k \in DOMAIN rs : rs[k].size > 0

-----------------------------------------------------------------------------
ArrayOK(rs) ==
  /\ rs \in Seq(Region)
  /\ Len(rs) \in 1 .. INIT_MEMBLOCK_REGIONS
  /\ \A k \in DOMAIN rs : rend(rs[k]) \in Addr

\* The locals of each loop.
AddFrames ==
  [type : Types, obase : Addr, base : Addr, end : Addr, nr_new : Nat,
   idx : Nat, cnt0 : Nat, planned : Nat]
MergeFrames == [type : Types, idx : Nat]
IsolateFrames ==
  [type : {"reserved"}, base : Addr, end : Addr, idx : Nat,
   start_rgn : Nat, end_rgn : Nat, cnt0 : Nat]
RemoveFrames ==
  [type : {"reserved"}, base : Addr, end : Addr, idx : Nat, start_rgn : Nat]
SearchFrames ==
  [size : Addr, align : Addr \ {0}, start : Addr, end : Addr, a : Nat, b : Int]

FrameOK ==
  /\ pc \in {"count", "insert"} =>
       /\ fr \in AddFrames
       /\ fr.obase < fr.end
       /\ fr.obase <= fr.base /\ fr.base <= fr.end
       /\ fr.idx \in 1 .. Len(ScanRegions) + 1
  /\ pc = "merge" =>
       /\ fr \in MergeFrames
       /\ fr.idx \in 1 .. Len(ScanRegions)
  /\ pc = "isolate" =>
       /\ fr \in IsolateFrames
       /\ fr.base < fr.end
       /\ fr.idx \in 1 .. Len(ScanRegions) + 1
       /\ fr.start_rgn > 0 /\ fr.end_rgn < fr.idx
  /\ pc = "remove" =>
       /\ fr \in RemoveFrames
       /\ fr.base < fr.end
       /\ fr.idx <= Len(ScanRegions)
       /\ fr.start_rgn > 0
  /\ pc \in {"find", "reserve"} =>
       /\ fr \in SearchFrames
       /\ PAGE_SIZE <= fr.start /\ fr.start <= fr.end
       /\ fr.a <= Len(mb["memory"].regions)
       /\ fr.b \in -1 .. Len(mb["reserved"].regions)

\* Type invariant: no address computed while the arrays are scanned, split or
\* searched leaves the address space, no index leaves its array, and cnt never
\* exceeds max.
TypeOK ==
  /\ mb \in [Types -> [regions : Seq(Region), total : Int]]
  /\ \A t \in Types : ArrayOK(mb[t].regions)
  /\ found \in Addr
  /\ hung \in BOOLEAN
  /\ pc \in {"idle", "count", "insert", "merge", "isolate", "remove", "find", "reserve"}
  /\ FrameOK

\* Regions are in address order and do not overlap, at every step of every
\* call: the BUG_ON of memblock_merge_regions (memblock.c:338) never fires,
\* and the loops that stop at the first region behind the range stop rightly.
Ordered == ~hung => \A t \in Types : Sorted(mb[t].regions)

\* Between calls the arrays are canonical: no two regions touch, so they are as
\* few as possible, and a region has no bytes only as the dummy entry of an
\* empty array.  After any sequence of additions and partial frees.
CanonicalArray(rs) == rs = Empty \/ (NoneEmpty(rs) /\ Separated(rs))
Canonical == pc = "idle" => \A t \in Types : CanonicalArray(mb[t].regions)

\* total_size is the number of bytes that the regions cover, at every step and
\* also half way through a split, and an entry without bytes is alone: the
\* WARN_ONs of memblock.c:317 and memblock.c:386 never fire.
Accounting ==
  ~hung => \A t \in Types :
    LET rs == mb[t].regions
    IN  /\ mb[t].total = Cardinality(Covered(rs))
        /\ (\E i \in DOMAIN rs : rs[i].size = 0) => Len(rs) = 1 /\ mb[t].total = 0

\* The range that an allocation is about to reserve is RAM, nobody holds any
\* byte of it, page 0 is not in it, and it lies where the caller asked.  (That
\* it is aligned and the highest such range is part of ImplementsSets.)
AllocFree ==
  pc = "reserve" /\ fr.size > 0 =>
    LET range == found .. (found + fr.size - 1)
    IN  /\ range \subseteq Covered(mb["memory"].regions)
        /\ range \cap Covered(mb["reserved"].regions) = {}
        /\ range \subseteq fr.start .. (fr.end - 1)
        /\ found >= PAGE_SIZE

\* The processor hangs in a BUG only where the resizing code that is compiled
\* out (memblock.c:450 and memblock.c:503) would have resized: the count of the
\* first pass is what the second pass inserts, and a free adds at most two
\* regions.
HangsOnlyWhenFull ==
  hung => \/ pc = "insert" /\ fr.cnt0 + fr.planned > INIT_MEMBLOCK_REGIONS
          \/ pc = "isolate" /\ fr.cnt0 + 2 > INIT_MEMBLOCK_REGIONS

-----------------------------------------------------------------------------
\* Addresses that the current call adds to the array t: it counts as done from
\* the moment it begins.
Adding(t) ==
  CASE pc \in {"count", "insert"} /\ fr.type = t -> fr.obase .. (fr.end - 1)
    [] pc = "reserve" /\ t = "reserved" -> found .. (found + fr.size - 1)
    [] OTHER -> {}
Removing == IF pc \in {"isolate", "remove"} THEN fr.base .. (fr.end - 1) ELSE {}

Memory == Covered(mb["memory"].regions) \cup Adding("memory")
Reserved == (Covered(mb["reserved"].regions) \cup Adding("reserved")) \ Removing

\* The request that the search is about.
Wanted ==
  IF pc = "find"
  THEN [size |-> fr.size, align |-> fr.align, start |-> fr.start, end |-> fr.end]
  ELSE [size |-> 0]

Abstract ==
  INSTANCE MemblockSpec WITH
    mem <- Memory, resv <- Reserved, want <- Wanted, ret <- found,
    busy <- pc # "idle", stopped <- hung

\* The arrays implement the sets of addresses: add, reserve and free have
\* exactly the effect on the sets that their arguments say, no byte changes
\* hands while a call works on, an allocation gets the highest aligned place
\* that fits, and fails only if there is none.
ImplementsSets == Abstract!Spec

\* Every call returns, or hangs in a BUG: the goto of the two passes, the
\* index that memblock_isolate_range sets back and the search over two cursors
\* all come to an end.
CallsReturn == pc # "idle" ~> (pc = "idle" \/ hung)
=============================================================================
