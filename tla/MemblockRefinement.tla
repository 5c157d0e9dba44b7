------------------------- MODULE MemblockRefinement -------------------------
(***************************************************************************)
(* The arrays of regions implement two sets of addresses: every step of    *)
(* memblock is a step of MemblockSpec or changes nothing of it, for every  *)
(* size of the address space and of the arrays and for all calls.  And     *)
(* what counting shows: a call hangs only for lack of regions, and the     *)
(* totals are right.                                                       *)
(***************************************************************************)
EXTENDS MemblockProofs, FiniteSetTheorems, WellFoundedInduction

-----------------------------------------------------------------------------
(***************************************************************************)
(* What the arrays cover.                                                  *)
(***************************************************************************)
LEMMA CoveredByte ==
  ASSUME NEW rs, ArrayOK(rs), NEW x
  PROVE  x \in Covered(rs) <=>
           x \in Addr /\ \E k \in 1 .. Len(rs) : rs[k].base <= x /\ x < rend(rs[k])
<1>1. DOMAIN rs = 1 .. Len(rs)
  BY ArrayFacts DEF Flat
<1> QED  BY <1>1 DEF Covered

\* The dummy region covers nothing.
LEMMA EmptyCovers == Covered(Empty) = {}
<1>1. Len(Empty) = 1 /\ DOMAIN Empty = {1} /\ Empty[1].base = 0 /\ rend(Empty[1]) = 0
  BY DEF Empty, rend
<1> QED  BY <1>1, SizesAssumption DEF Covered, Addr

LEMMA SingleCovers ==
  ASSUME NEW base \in Addr, NEW size \in Addr, base + size \in Addr
  PROVE  Covered(<<[base |-> base, size |-> size]>>) = base .. (base + size - 1)
<1> DEFINE rs == <<[base |-> base, size |-> size]>>
<1>1. DOMAIN rs = {1} /\ rs[1].base = base /\ rend(rs[1]) = base + size
  BY DEF rend
<1> HIDE DEF rs
<1>2. Covered(rs) = {x \in Addr : base <= x /\ x < base + size}
  BY <1>1 DEF Covered
<1>3. @ = base .. (base + size - 1)
  BY SizesAssumption DEF Addr
<1> QED  BY <1>2, <1>3 DEF rs

\* A region put in between at place i adds its bytes.
GrownAt(rs, new, i) ==
  /\ ArrayOK(rs) /\ ArrayOK(new) /\ Len(new) = Len(rs) + 1
  /\ i \in 1 .. Len(rs) + 1
  /\ \A k \in 1 .. i - 1 : new[k] = rs[k]
  /\ \A k \in i + 1 .. Len(rs) + 1 : new[k] = rs[k - 1]

LEMMA InsertCovers ==
  ASSUME NEW rs, NEW new, NEW i, GrownAt(rs, new, i)
  PROVE  Covered(new) = Covered(rs) \cup new[i].base .. (rend(new[i]) - 1)
<1> USE DEF GrownAt
<1> DEFINE n == Len(rs)
           lo == new[i].base
           hi == rend(new[i])
<1>1. n \in Nat /\ lo \in Int /\ hi \in Int
  <2>1. Len(rs) \in Nat
    BY ArrayFacts DEF Flat
  <2>2. i \in 1 .. Len(new)
    BY <2>1
  <2>3. Flat(new)
    BY ArrayFacts
  <2> QED  BY <2>1, <2>2, <2>3 DEF Flat
<1>2. new[i].base = lo /\ rend(new[i]) = hi
  OBVIOUS
<1> HIDE DEF lo, hi
<1>3. ASSUME NEW x \in Covered(new) PROVE x \in Covered(rs) \cup lo .. (hi - 1)
  <2>1. x \in Addr /\ x \in Int
    BY CoveredByte, SizesAssumption DEF Addr
  <2>2. PICK k \in 1 .. n + 1 : new[k].base <= x /\ x < rend(new[k])
    BY CoveredByte
  <2>3. CASE k < i
    BY <1>1, <2>1, <2>2, <2>3, CoveredByte
  <2>4. CASE k = i
    BY <1>1, <1>2, <2>1, <2>2, <2>4
  <2>5. CASE k > i
    <3>1. k - 1 \in 1 .. n /\ new[k] = rs[k - 1]
      BY <1>1, <2>5
    <3> QED  BY <2>1, <2>2, <3>1, CoveredByte
  <2> QED  BY <1>1, <2>3, <2>4, <2>5
<1>4. ASSUME NEW x \in Covered(rs) PROVE x \in Covered(new)
  <2>1. x \in Addr
    BY CoveredByte
  <2>2. PICK k \in 1 .. n : rs[k].base <= x /\ x < rend(rs[k])
    BY CoveredByte
  <2>3. CASE k < i
    <3>1. k \in 1 .. n + 1 /\ new[k] = rs[k]
      BY <1>1, <2>3
    <3> QED  BY <2>1, <2>2, <3>1, CoveredByte
  <2>4. CASE k >= i
    <3>1. k + 1 \in i + 1 .. n + 1 /\ k + 1 \in 1 .. n + 1 /\ (k + 1) - 1 = k
      BY <1>1, <2>4
    <3>2. new[k + 1] = rs[k]
      BY <3>1
    <3> QED  BY <2>1, <2>2, <3>1, <3>2, CoveredByte
  <2> QED  BY <1>1, <2>3, <2>4
<1>5. ASSUME NEW x \in lo .. (hi - 1) PROVE x \in Covered(new)
  <2>1. new[i].base <= x /\ x < rend(new[i])
    BY <1>1, <1>2
  <2>2. x \in Addr
    <3>1. i \in 1 .. Len(new)
      BY <1>1
    <3>2. new[i].base \in Nat /\ rend(new[i]) \in Addr
      BY <3>1, ArrayFacts DEF Flat
    <3> QED  BY <2>1, <3>2, SizesAssumption DEF Addr
  <2> QED  BY <1>1, <2>1, <2>2, CoveredByte
<1> QED  BY <1>3, <1>4, <1>5 DEF lo, hi

\* Neighbours taken together cover what they covered.
LEMMA MergeCovers ==
  ASSUME NEW rs, NEW new, ArrayOK(rs), ArrayOK(new), Len(new) = Len(rs) - 1,
         NEW i \in 1 .. Len(rs) - 1,
         new[i].base = rs[i].base, rend(new[i]) = rend(rs[i + 1]),
         rend(rs[i]) = rs[i + 1].base,
         \A k \in 1 .. i - 1 : new[k] = rs[k],
         \A k \in i + 1 .. Len(rs) - 1 : new[k] = rs[k + 1]
  PROVE  Covered(new) = Covered(rs)
<1> DEFINE n == Len(rs)
<1>1. n \in Nat /\ \A k \in 1 .. n : /\ rs[k].base \in Nat /\ rend(rs[k]) \in Nat
                                     /\ rs[k].base <= rend(rs[k])
  <2>1. Flat(rs)
    BY ArrayFacts
  <2>2. \A k \in 1 .. n : /\ rs[k].base \in Nat /\ rs[k].size \in Nat
                          /\ rend(rs[k]) = rs[k].base + rs[k].size
    BY <2>1 DEF Flat
  <2>3. n \in Nat
    BY <2>1 DEF Flat
  <2> QED  BY <2>2, <2>3
<1>2. i \in 1 .. n /\ i + 1 \in 1 .. n /\ i \in 1 .. Len(new)
  BY <1>1
<1>3. ASSUME NEW x \in Covered(new) PROVE x \in Covered(rs)
  <2>1. x \in Addr /\ x \in Int
    BY CoveredByte, SizesAssumption DEF Addr
  <2>2. PICK k \in 1 .. n - 1 : new[k].base <= x /\ x < rend(new[k])
    BY CoveredByte
  <2>3. CASE k < i
    <3>1. k \in 1 .. n /\ new[k] = rs[k]
      BY <1>1, <2>3
    <3> QED  BY <2>1, <2>2, <3>1, CoveredByte
  <2>4. CASE k = i
    <3>1. rs[i].base <= x /\ x < rend(rs[i + 1])
      BY <2>2, <2>4
    <3>2. CASE x < rend(rs[i])
      BY <1>2, <2>1, <3>1, <3>2, CoveredByte
    <3>3. CASE ~(x < rend(rs[i]))
      <4>1. rend(rs[i]) \in Nat
        BY <1>1, <1>2
      <4>2. rs[i + 1].base <= x
        BY <2>1, <3>3, <4>1
      <4> QED  BY <1>2, <2>1, <3>1, <4>2, CoveredByte
    <3> QED  BY <3>2, <3>3
  <2>5. CASE k > i
    <3>1. k \in i + 1 .. n - 1 /\ k + 1 \in 1 .. n
      BY <1>1, <1>2, <2>5
    <3>2. new[k] = rs[k + 1]
      BY <3>1
    <3> QED  BY <2>1, <2>2, <3>1, <3>2, CoveredByte
  <2> QED  BY <1>1, <2>3, <2>4, <2>5
<1>4. ASSUME NEW x \in Covered(rs) PROVE x \in Covered(new)
  <2>1. x \in Addr /\ x \in Int
    BY CoveredByte, SizesAssumption DEF Addr
  <2>2. PICK k \in 1 .. n : rs[k].base <= x /\ x < rend(rs[k])
    BY CoveredByte
  <2>3. CASE k < i
    <3>1. k \in 1 .. n - 1 /\ new[k] = rs[k]
      BY <1>1, <1>2, <2>3
    <3> QED  BY <2>1, <2>2, <3>1, CoveredByte
  <2>4. CASE k = i \/ k = i + 1
    <3>1. /\ rs[i].base \in Nat /\ rend(rs[i]) \in Nat /\ rs[i].base <= rend(rs[i])
          /\ rs[i + 1].base \in Nat /\ rend(rs[i + 1]) \in Nat
          /\ rs[i + 1].base <= rend(rs[i + 1])
      BY <1>1, <1>2
    <3>2. rs[i].base <= x /\ x < rend(rs[i + 1])
      BY <2>1, <2>2, <2>4, <3>1
    <3> QED  BY <1>2, <2>1, <3>2, CoveredByte
  <2>5. CASE k > i + 1
    <3>1. k - 1 \in i + 1 .. n - 1 /\ k - 1 \in 1 .. n - 1 /\ (k - 1) + 1 = k
      BY <1>1, <1>2, <2>5
    <3>2. new[k - 1] = rs[k]
      BY <3>1
    <3> QED  BY <2>1, <2>2, <3>1, <3>2, CoveredByte
  <2> QED  BY <1>1, <1>2, <2>3, <2>4, <2>5
<1> QED  BY <1>3, <1>4

\* A region cut in two covers what it covered.
LEMMA SplitCovers ==
  ASSUME NEW rs, NEW new, ArrayOK(rs), ArrayOK(new), Len(new) = Len(rs) + 1,
         NEW i \in 1 .. Len(rs),
         new[i].base = rs[i].base, rend(new[i]) = new[i + 1].base,
         rend(new[i + 1]) = rend(rs[i]),
         \A k \in 1 .. i - 1 : new[k] = rs[k],
         \A k \in i + 2 .. Len(rs) + 1 : new[k] = rs[k - 1]
  PROVE  Covered(new) = Covered(rs)
<1> DEFINE n == Len(new)
<1>0. /\ n \in Nat /\ Len(rs) = n - 1 /\ Len(rs) \in Nat
      /\ i \in 1 .. n - 1 /\ i + 1 \in 1 .. n
      /\ rs[i].base \in Nat /\ rend(rs[i]) \in Nat
  <2>1. Flat(rs) /\ Flat(new)
    BY ArrayFacts
  <2> QED  BY <2>1 DEF Flat
<1>1. ASSUME NEW k \in i + 1 .. Len(new) - 1 PROVE rs[k] = new[k + 1]
  <2>1. k + 1 \in i + 2 .. Len(rs) + 1 /\ (k + 1) - 1 = k
    BY <1>0
  <2> QED  BY <2>1
<1>2. \A k \in 1 .. i - 1 : rs[k] = new[k]
  OBVIOUS
<1>3. Covered(rs) = Covered(new)
  BY <1>0, <1>1, <1>2, MergeCovers
<1> QED  BY <1>3

\* Taking a region away takes its bytes away.
LEMMA RemoveCovers ==
  ASSUME NEW rs, NEW new, ArrayOK(rs), ArrayOK(new), Len(new) = Len(rs) - 1,
         NEW i \in 1 .. Len(rs),
         \A k \in 1 .. i - 1 : new[k] = rs[k],
         \A k \in i .. Len(rs) - 1 : new[k] = rs[k + 1]
  PROVE  Covered(rs) = Covered(new) \cup rs[i].base .. (rend(rs[i]) - 1)
<1>0. Len(rs) \in Nat /\ rs[i].base \in Int /\ rend(rs[i]) \in Int
  BY ArrayFacts DEF Flat
<1>1. Len(rs) = Len(new) + 1 /\ i \in 1 .. Len(new) + 1 /\ Len(new) \in Nat
  BY <1>0
<1>2. ASSUME NEW k \in i + 1 .. Len(new) + 1 PROVE rs[k] = new[k - 1]
  <2>1. k - 1 \in i .. Len(rs) - 1 /\ (k - 1) + 1 = k
    BY <1>0, <1>1
  <2> QED  BY <2>1
<1>3. \A k \in 1 .. i - 1 : rs[k] = new[k]
  OBVIOUS
<1>4. GrownAt(new, rs, i)
  BY <1>1, <1>2, <1>3 DEF GrownAt
<1> QED  BY <1>4, InsertCovers

-----------------------------------------------------------------------------
(***************************************************************************)
(* Steps between two calls, or within one, seen as sets.                   *)
(***************************************************************************)

\* A step that leaves the sets, the request and the result alone.
LEMMA QuietStep ==
  ASSUME Memory' = Memory, Reserved' = Reserved, Wanted' = Wanted,
         UNCHANGED <<found, hung>>, pc # "idle", pc' # "idle"
  PROVE  UNCHANGED Abstract!vars
  BY DEF Abstract!vars

\* The last step of a call.
LEMMA ReturnStep ==
  ASSUME Memory' = Memory, Reserved' = Reserved, Wanted' = Wanted,
         UNCHANGED <<found, hung>>, pc # "idle", pc # "find", pc' = "idle"
  PROVE  Abstract!Next
<1>1. Wanted = Abstract!NoRequest
  BY DEF Wanted, Abstract!NoRequest
<1> QED  BY <1>1 DEF Abstract!Next, Abstract!Return

\* Only a search has a request.
LEMMA NothingWanted ==
  ASSUME pc # "find", pc' # "find"
  PROVE  Wanted' = Wanted
  BY DEF Wanted

\* What the two passes of memblock_add_range add.
LEMMA ScanSets ==
  ASSUME pc \in {"count", "insert"}, pc' \in {"count", "insert"},
         fr.type \in Types, fr'.type = fr.type,
         fr'.obase = fr.obase, fr'.end = fr.end,
         \A t \in Types : t # fr.type => mb'[t] = mb[t],
         Covered(mb'[fr.type].regions) \cup fr.obase .. (fr.end - 1) =
           Covered(mb[fr.type].regions) \cup fr.obase .. (fr.end - 1)
  PROVE  Memory' = Memory /\ Reserved' = Reserved
<1>1. CASE fr.type = "memory"
  <2>1. mb'["reserved"] = mb["reserved"]
    BY <1>1 DEF Types
  <2>2. /\ Adding("memory") = fr.obase .. (fr.end - 1)
        /\ Adding("memory")' = fr.obase .. (fr.end - 1)
        /\ Adding("reserved") = {} /\ Adding("reserved")' = {}
        /\ Removing = {} /\ Removing' = {}
    BY <1>1 DEF Adding, Removing
  <2> QED  BY <1>1, <2>1, <2>2 DEF Memory, Reserved
<1>2. CASE fr.type = "reserved"
  <2>1. mb'["memory"] = mb["memory"]
    BY <1>2 DEF Types
  <2>2. /\ Adding("reserved") = fr.obase .. (fr.end - 1)
        /\ Adding("reserved")' = fr.obase .. (fr.end - 1)
        /\ Adding("memory") = {} /\ Adding("memory")' = {}
        /\ Removing = {} /\ Removing' = {}
    BY <1>2 DEF Adding, Removing
  <2> QED  BY <1>2, <2>1, <2>2 DEF Memory, Reserved
<1> QED  BY <1>1, <1>2 DEF Types

\* One region passed: the sets stay.
LEMMA PassedSets ==
  ASSUME IInv, SetsInv, Scanning, InLoop, UNCHANGED <<mb, pc, found, hung>>,
         fr'.type = fr.type, fr'.obase = fr.obase, fr'.end = fr.end,
         \/ fr'.base = fr.base /\ fr'.nr_new = fr.nr_new
         \/ /\ ~HasFront /\ fr'.nr_new = fr.nr_new
            /\ fr'.base = min(rend(ScanRegion), fr.end)
         \/ pc = "count" /\ fr'.nr_new > 0
  PROVE  SetsInv' /\ UNCHANGED Abstract!vars
<1> DEFINE rs == ScanRegions
<1>1. /\ ~hung /\ pc \in {"count", "insert"} /\ fr \in AddFrames /\ fr.type \in Types
      /\ ArrayOK(rs) /\ Len(rs) \in Nat
      /\ fr.base \in Nat /\ fr.end \in Nat /\ fr.obase \in Nat /\ fr.end \in Addr
      /\ fr.obase <= fr.base /\ fr.base <= fr.end
      /\ fr.idx \in 1 .. Len(rs) /\ ScanRegion = rs[fr.idx]
      /\ \A k \in 1 .. Len(rs) : rs[k].base \in Nat /\ rend(rs[k]) \in Nat
  BY ScanFacts DEF Scanning, InLoop, ScanRegion, AddFrames
<1>2. ScanRegions' = rs /\ Done = fr.obase .. (fr.base - 1)
  BY <1>1 DEF ScanRegions, Done
<1> HIDE DEF rs
<1>3. ScannedInv'
  <2> SUFFICES ASSUME pc = "insert" \/ (pc = "count" /\ fr'.nr_new = 0),
                      NEW x \in fr.obase .. (fr'.base - 1)
               PROVE  x \in Covered(rs)
    BY <1>2 DEF ScannedInv, Done
  <2>1. ~(pc = "count" /\ fr'.nr_new > 0)
    OBVIOUS
  <2>2. fr'.nr_new = fr.nr_new
    BY <2>1
  <2>3. Done \subseteq Covered(rs)
    BY <1>1, <2>2 DEF SetsInv, ScannedInv, rs
  <2>4. CASE fr'.base = fr.base
    BY <1>2, <2>3, <2>4
  <2>5. CASE ~HasFront /\ fr'.base = min(rend(ScanRegion), fr.end)
    <3>1. /\ rs[fr.idx].base \in Nat /\ rend(rs[fr.idx]) \in Nat
          /\ rs[fr.idx].base <= fr.base
      BY <1>1, <2>5 DEF HasFront
    <3>2. x \in Int /\ x < rend(rs[fr.idx]) /\ x < fr.end /\ fr.obase <= x
      BY <1>1, <2>5, <3>1 DEF min
    <3>3. x \in Addr
      BY <1>1, <3>2, SizesAssumption DEF Addr
    <3>4. CASE x < fr.base
      BY <1>1, <1>2, <2>3, <3>2, <3>4
    <3>5. CASE ~(x < fr.base)
      <4>1. rs[fr.idx].base <= x
        BY <1>1, <3>1, <3>2, <3>5
      <4> QED  BY <1>1, <3>2, <3>3, <4>1, CoveredByte
    <3> QED  BY <3>4, <3>5
  <2> QED  BY <2>2, <2>4, <2>5
<1>4. SetsInv'
  BY <1>1, <1>3 DEF SetsInv, RemovableInv, SearchInv
<1>5. Memory' = Memory /\ Reserved' = Reserved
  BY <1>1, ScanSets
<1>6. Wanted' = Wanted
  BY <1>1, NothingWanted
<1> QED  BY <1>1, <1>4, <1>5, <1>6, QuietStep

LEMMA ScanSkipSets == ASSUME IInv, SetsInv, ScanSkip PROVE SetsInv' /\ UNCHANGED Abstract!vars
<1>1. Scanning /\ InLoop /\ fr \in AddFrames
  BY ScanFacts DEF ScanSkip
<1>2. /\ fr'.type = fr.type /\ fr'.obase = fr.obase
      /\ fr'.end = fr.end /\ fr'.base = fr.base /\ fr'.nr_new = fr.nr_new
  BY <1>1 DEF ScanSkip, AddFrames
<1> QED  BY <1>1, <1>2, PassedSets DEF ScanSkip

LEMMA ScanOverlapSets ==
  ASSUME IInv, SetsInv, ScanOverlap
  PROVE  SetsInv' /\ UNCHANGED Abstract!vars
  BY OverlapLocals, PassedSets DEF ScanOverlap

LEMMA CountFrontSets ==
  ASSUME IInv, SetsInv, CountFront
  PROVE  SetsInv' /\ UNCHANGED Abstract!vars
<1>1. pc = "count" /\ UNCHANGED <<mb, pc, found, hung>> /\ fr.nr_new \in Nat
  BY ScanFacts DEF CountFront, Running, Scanning, AddFrames
<1>2. /\ Scanning /\ InLoop /\ fr'.type = fr.type /\ fr'.obase = fr.obase
      /\ fr'.end = fr.end /\ fr'.nr_new = fr.nr_new + 1
  BY CountLocals
<1>3. fr'.nr_new > 0
  BY <1>1, <1>2
<1> QED  BY <1>1, <1>2, <1>3, PassedSets

\* The gap is filled: it was on the way of being added.
LEMMA InsertFrontSets ==
  ASSUME IInv, SetsInv, InsertFront
  PROVE  SetsInv' /\ UNCHANGED Abstract!vars
<1> DEFINE rs == ScanRegions
           new == mb'[fr.type].regions
<1>1. /\ Scanning /\ pc = "insert" /\ UNCHANGED <<pc, found, hung>>
  BY DEF InsertFront, Running, Scanning
<1>2. /\ ~hung /\ fr.type \in Types /\ ArrayOK(rs) /\ Len(rs) \in Nat
      /\ fr.base \in Nat /\ fr.end \in Nat /\ fr.obase \in Nat /\ fr.obase <= fr.base
      /\ \A k \in 1 .. Len(rs) : rs[k].base \in Nat /\ rend(rs[k]) \in Nat
  BY <1>1, ScanFacts
<1>3. /\ fr.idx \in 1 .. Len(rs) /\ ScanRegion = rs[fr.idx]
      /\ fr.base < ScanRegion.base /\ ScanRegion.base < fr.end
  BY FrontInserted DEF ScanRegion
<1>4. /\ ArrayOK(new) /\ Len(new) = Len(rs) + 1
      /\ \A t \in Types : t # fr.type => mb'[t] = mb[t]
      /\ \A k \in 1 .. fr.idx - 1 : new[k] = rs[k]
      /\ new[fr.idx].base = fr.base /\ rend(new[fr.idx]) = ScanRegion.base
      /\ \A k \in fr.idx + 1 .. Len(rs) + 1 : new[k] = rs[k - 1]
  BY <1>2, FrontInserted
<1>5. /\ fr'.type = fr.type /\ fr'.obase = fr.obase /\ fr'.end = fr.end
      /\ fr'.base = min(rend(ScanRegion), fr.end)
  BY FrontInserted
<1>6. ScanRegions' = new /\ mb[fr.type].regions = rs
  BY <1>5 DEF ScanRegions
<1> HIDE DEF rs, new
<1>7. ScanRegion.base \in Nat /\ rend(ScanRegion) \in Nat
  BY <1>2, <1>3
<1>8. Covered(new) = Covered(rs) \cup fr.base .. (ScanRegion.base - 1)
  <2> DEFINE i == fr.idx
  <2>1. i \in 1 .. Len(rs) + 1
    BY <1>2, <1>3
  <2>2. /\ ArrayOK(rs) /\ ArrayOK(new) /\ Len(new) = Len(rs) + 1
        /\ \A k \in 1 .. i - 1 : new[k] = rs[k]
        /\ \A k \in i + 1 .. Len(rs) + 1 : new[k] = rs[k - 1]
    BY <1>2, <1>4
  <2> HIDE DEF i
  <2>3. Covered(new) = Covered(rs) \cup new[i].base .. (rend(new[i]) - 1)
    <3>1. GrownAt(rs, new, i)
      BY <2>1, <2>2 DEF GrownAt
    <3> QED  BY <3>1, InsertCovers
  <2> QED  BY <1>4, <2>3 DEF i
<1>9. Done \subseteq Covered(rs) /\ Done = fr.obase .. (fr.base - 1)
  BY <1>1, <1>2 DEF SetsInv, ScannedInv, rs, Done
<1>10. fr.obase .. (fr'.base - 1) \subseteq Covered(new)
  <2> SUFFICES ASSUME NEW x \in fr.obase .. (fr'.base - 1) PROVE x \in Covered(new)
    OBVIOUS
  <2>1. x \in Int /\ fr.obase <= x /\ x < rend(rs[fr.idx])
    BY <1>2, <1>3, <1>5, <1>7 DEF min
  <2>2. CASE x < ScanRegion.base
    BY <1>2, <1>7, <1>8, <1>9, <2>1, <2>2
  <2>3. CASE ~(x < ScanRegion.base)
    <3>1. rs[fr.idx].base <= x
      BY <1>3, <1>7, <2>1, <2>3
    <3>2. x \in Addr
      <4>1. rend(rs[fr.idx]) \in Addr
        BY <1>2, <1>3, ArrayFacts DEF Flat
      <4> QED  BY <1>2, <2>1, <4>1, SizesAssumption DEF Addr
    <3> QED  BY <1>2, <1>3, <1>8, <2>1, <3>1, <3>2, CoveredByte
  <2> QED  BY <2>2, <2>3
<1>11. SetsInv'
  BY <1>1, <1>5, <1>6, <1>10
  DEF SetsInv, ScannedInv, Done, RemovableInv, SearchInv
<1>12. Covered(new) \cup fr.obase .. (fr.end - 1) = Covered(rs) \cup fr.obase .. (fr.end - 1)
  BY <1>2, <1>3, <1>7, <1>8
<1>13. Memory' = Memory /\ Reserved' = Reserved
  BY <1>1, <1>2, <1>4, <1>5, <1>6, <1>12, ScanSets DEF new
<1>14. Wanted' = Wanted
  BY <1>1, NothingWanted
<1> QED  BY <1>1, <1>11, <1>13, <1>14, QuietStep

\* The range is covered when the passes end.
LEMMA ScanEnds ==
  ASSUME pc \in {"count", "insert"}, pc' \in {"idle", "merge"},
         fr.type \in Types,
         \A t \in Types : t # fr.type => mb'[t] = mb[t],
         Covered(mb'[fr.type].regions) =
           Covered(mb[fr.type].regions) \cup fr.obase .. (fr.end - 1)
  PROVE  Memory' = Memory /\ Reserved' = Reserved
<1>1. CASE fr.type = "memory"
  <2>1. mb'["reserved"] = mb["reserved"]
    BY <1>1 DEF Types
  <2>2. /\ Adding("memory") = fr.obase .. (fr.end - 1) /\ Adding("memory")' = {}
        /\ Adding("reserved") = {} /\ Adding("reserved")' = {}
        /\ Removing = {} /\ Removing' = {}
    BY <1>1 DEF Adding, Removing
  <2> QED  BY <1>1, <2>1, <2>2 DEF Memory, Reserved
<1>2. CASE fr.type = "reserved"
  <2>1. mb'["memory"] = mb["memory"]
    BY <1>2 DEF Types
  <2>2. /\ Adding("reserved") = fr.obase .. (fr.end - 1) /\ Adding("reserved")' = {}
        /\ Adding("memory") = {} /\ Adding("memory")' = {}
        /\ Removing = {} /\ Removing' = {}
    BY <1>2 DEF Adding, Removing
  <2> QED  BY <1>2, <2>1, <2>2 DEF Memory, Reserved
<1> QED  BY <1>1, <1>2 DEF Types

\* Nothing to insert: everything was covered.
LEMMA CountDoneSets ==
  ASSUME IInv, SetsInv, CountDone
  PROVE  SetsInv' /\ (Abstract!Next \/ UNCHANGED Abstract!vars)
<1>1. /\ pc = "count" /\ ~hung /\ Scanning /\ fr.type \in Types
      /\ fr.base \in Nat /\ fr.end \in Nat /\ fr.obase \in Nat
      /\ fr.obase <= fr.base /\ fr.base <= fr.end /\ fr.nr_new \in Nat
      /\ ArrayOK(ScanRegions) /\ UNCHANGED <<mb, found, hung>>
  BY ScanFacts DEF CountDone, Running, Scanning, AddFrames
<1>2. CASE NrNew = 0
  <2>1. pc' = "idle"
    BY <1>2 DEF CountDone, Return
  <2>2. fr.nr_new = 0 /\ fr.base = fr.end
    BY <1>1, <1>2 DEF NrNew, HasTail
  <2>3. fr.obase .. (fr.end - 1) \subseteq Covered(ScanRegions)
    BY <1>1, <2>2 DEF SetsInv, ScannedInv, Done
  <2>4. Covered(mb'[fr.type].regions) =
          Covered(mb[fr.type].regions) \cup fr.obase .. (fr.end - 1)
    BY <1>1, <2>3 DEF ScanRegions
  <2>5. Memory' = Memory /\ Reserved' = Reserved /\ Wanted' = Wanted
    BY <1>1, <2>1, <2>4, ScanEnds, NothingWanted
  <2>6. Abstract!Next
    BY <1>1, <2>1, <2>5, ReturnStep
  <2>7. SetsInv'
    BY <2>1 DEF SetsInv, ScannedInv, RemovableInv, SearchInv
  <2> QED  BY <2>6, <2>7
<1>3. CASE NrNew # 0
  <2>1. /\ pc' = "insert"
        /\ fr' = ScanFrame(fr.type, fr.obase, fr.end, fr.cnt0, NrNew)
    BY <1>3 DEF CountDone
  <2>2. /\ fr'.type = fr.type /\ fr'.obase = fr.obase
        /\ fr'.base = fr.obase /\ fr'.end = fr.end
    BY <2>1 DEF ScanFrame
  <2>3. Memory' = Memory /\ Reserved' = Reserved /\ Wanted' = Wanted
    BY <1>1, <2>1, <2>2, ScanSets, NothingWanted
  <2>4. UNCHANGED Abstract!vars
    BY <1>1, <2>1, <2>3, QuietStep
  <2>5. Done' = {}
    BY <1>1, <2>2 DEF Done
  <2>6. SetsInv'
    BY <2>1, <2>5 DEF SetsInv, ScannedInv, RemovableInv, SearchInv
  <2> QED  BY <2>4, <2>6
<1> QED  BY <1>2, <1>3

\* The tail was the last part of the range.
LEMMA InsertDoneSets ==
  ASSUME IInv, SetsInv, InsertDone
  PROVE  SetsInv' /\ UNCHANGED Abstract!vars
<1> DEFINE rs == ScanRegions
           new == mb'[fr.type].regions
<1>1. /\ Scanning /\ pc = "insert" /\ pc' = "merge" /\ UNCHANGED <<found, hung>>
  BY DEF InsertDone, Running, Scanning
<1>2. /\ ~hung /\ fr.type \in Types /\ ArrayOK(rs) /\ Len(rs) \in Nat
      /\ fr.base \in Nat /\ fr.end \in Nat /\ fr.obase \in Nat
      /\ fr.obase <= fr.base /\ fr.base <= fr.end
      /\ fr.idx \in 1 .. Len(rs) + 1
  BY <1>1, ScanFacts
<1>3. Done \subseteq Covered(rs) /\ Done = fr.obase .. (fr.base - 1)
  BY <1>1, <1>2 DEF SetsInv, ScannedInv, Done
<1>4. /\ \A t \in Types : t # fr.type => mb'[t] = mb[t]
      /\ Covered(new) = Covered(rs) \cup fr.obase .. (fr.end - 1)
  <2>1. CASE HasTail
    <3>1. /\ \A t \in Types : t # fr.type => mb'[t] = mb[t]
          /\ ArrayOK(new) /\ Len(new) = Len(rs) + 1
          /\ \A k \in 1 .. fr.idx - 1 : new[k] = rs[k]
          /\ new[fr.idx].base = fr.base /\ rend(new[fr.idx]) = fr.end
          /\ \A k \in fr.idx + 1 .. Len(rs) + 1 : new[k] = rs[k - 1]
      BY <1>2, <2>1, TailInserted
    <3> HIDE DEF rs, new
    <3>2. Covered(new) = Covered(rs) \cup fr.base .. (fr.end - 1)
      <4> DEFINE i == fr.idx
      <4>1. i \in 1 .. Len(rs) + 1
        BY <1>2
      <4>2. /\ ArrayOK(rs) /\ ArrayOK(new) /\ Len(new) = Len(rs) + 1
            /\ \A k \in 1 .. i - 1 : new[k] = rs[k]
            /\ \A k \in i + 1 .. Len(rs) + 1 : new[k] = rs[k - 1]
        BY <1>2, <3>1
      <4> HIDE DEF i
      <4>3. Covered(new) = Covered(rs) \cup new[i].base .. (rend(new[i]) - 1)
        <5>1. GrownAt(rs, new, i)
          BY <4>1, <4>2 DEF GrownAt
        <5> QED  BY <5>1, InsertCovers
      <4> QED  BY <3>1, <4>3 DEF i
    <3> QED  BY <1>2, <1>3, <3>1, <3>2
  <2>2. CASE ~HasTail
    <3>1. mb' = mb /\ fr.base = fr.end
      BY <1>2, <2>2 DEF InsertDone, HasTail
    <3>2. new = rs
      BY <3>1 DEF ScanRegions
    <3> HIDE DEF rs, new
    <3> QED  BY <1>2, <1>3, <3>1, <3>2
  <2> QED  BY <2>1, <2>2
<1>5. Memory' = Memory /\ Reserved' = Reserved
  BY <1>1, <1>2, <1>4, ScanEnds DEF ScanRegions
<1>6. Wanted' = Wanted
  BY <1>1, NothingWanted
<1>7. SetsInv'
  BY <1>1 DEF SetsInv, ScannedInv, RemovableInv, SearchInv
<1> QED  BY <1>1, <1>5, <1>6, <1>7, QuietStep

\* A BUG while regions are inserted: no reservation is forgotten.
LEMMA InsertBugSets ==
  ASSUME IInv, SetsInv, InsertBug
  PROVE  SetsInv' /\ Abstract!Next
<1>1. hung' = TRUE /\ ~hung /\ UNCHANGED <<mb, pc, fr, found>> /\ pc = "insert"
  BY DEF InsertBug, Bug, Running
<1>2. Memory' = Memory /\ Reserved' = Reserved /\ Wanted' = Wanted
  BY <1>1 DEF Memory, Reserved, Wanted, Adding, Removing
<1>3. hung = FALSE
  BY <1>1 DEF IInv, TypeOK
<1> QED  BY <1>1, <1>2, <1>3 DEF SetsInv, Abstract!Next, Abstract!Stop

-----------------------------------------------------------------------------
(***************************************************************************)
(* The merge.                                                              *)
(***************************************************************************)

\* Nothing is added or removed any more.
LEMMA MergeSets ==
  ASSUME pc = "merge", pc' \in {"idle", "merge"}, fr.type \in Types,
         \A t \in Types : t # fr.type => mb'[t] = mb[t],
         Covered(mb'[fr.type].regions) = Covered(mb[fr.type].regions)
  PROVE  Memory' = Memory /\ Reserved' = Reserved /\ Wanted' = Wanted
<1>1. \A t \in Types : Covered(mb'[t].regions) = Covered(mb[t].regions)
  OBVIOUS
<1>2. /\ \A t \in Types : Adding(t) = {} /\ Adding(t)' = {}
      /\ Removing = {} /\ Removing' = {}
  BY DEF Adding, Removing
<1> QED  BY <1>1, <1>2, NothingWanted DEF Memory, Reserved, Types

LEMMA MergeStepSets ==
  ASSUME IInv, SetsInv, Merge
  PROVE  SetsInv' /\ UNCHANGED Abstract!vars
<1> DEFINE rs == ScanRegions
           i == fr.idx
           new == mb'[fr.type].regions
<1>1. pc = "merge" /\ UNCHANGED <<pc, fr, found, hung>> /\ fr.type \in Types
  BY MergeFacts DEF Merge, Merging, Running
<1>2. /\ ArrayOK(rs) /\ i \in 1 .. Len(rs) - 1 /\ rend(rs[i]) = rs[i + 1].base
      /\ \A t \in Types : t # fr.type => mb'[t] = mb[t]
      /\ ArrayOK(new) /\ Len(new) = Len(rs) - 1
      /\ \A k \in 1 .. i - 1 : new[k] = rs[k]
      /\ new[i].base = rs[i].base /\ rend(new[i]) = rend(rs[i + 1])
      /\ \A k \in i + 1 .. Len(rs) - 1 : new[k] = rs[k + 1]
  BY <1>1, Merged
<1> HIDE DEF rs, i, new
<1>3. Covered(new) = Covered(rs)
  BY <1>2, MergeCovers
<1>4. Memory' = Memory /\ Reserved' = Reserved /\ Wanted' = Wanted
  BY <1>1, <1>2, <1>3, MergeSets DEF rs, new, ScanRegions
<1>5. SetsInv'
  BY <1>1 DEF SetsInv, ScannedInv, RemovableInv, SearchInv
<1> QED  BY <1>1, <1>4, <1>5, QuietStep

LEMMA MergeNextSets ==
  ASSUME IInv, SetsInv, MergeNext
  PROVE  SetsInv' /\ UNCHANGED Abstract!vars
<1>1. pc = "merge" /\ UNCHANGED <<mb, pc, found, hung>> /\ fr.type \in Types
  BY MergeFacts DEF MergeNext, Merging, Running
<1>2. Memory' = Memory /\ Reserved' = Reserved /\ Wanted' = Wanted
  BY <1>1, MergeSets
<1>3. SetsInv'
  BY <1>1 DEF SetsInv, ScannedInv, RemovableInv, SearchInv
<1> QED  BY <1>1, <1>2, <1>3, QuietStep

LEMMA MergeDoneSets ==
  ASSUME IInv, SetsInv, MergeDone
  PROVE  SetsInv' /\ Abstract!Next
<1>1. /\ pc = "merge" /\ pc' = "idle" /\ UNCHANGED <<mb, found, hung>>
      /\ fr.type \in Types
  BY MergeFacts DEF MergeDone, Return, Running
<1>2. Memory' = Memory /\ Reserved' = Reserved /\ Wanted' = Wanted
  BY <1>1, MergeSets
<1>3. SetsInv'
  BY <1>1 DEF SetsInv, ScannedInv, RemovableInv, SearchInv
<1> QED  BY <1>1, <1>2, <1>3, ReturnStep

-----------------------------------------------------------------------------
(***************************************************************************)
(* A call of memblock_add_range begins.                                    *)
(***************************************************************************)

\* The bytes of a range are those that the cap leaves.
LEMMA CappedBytes ==
  ASSUME NEW base \in Addr, NEW size \in Addr
  PROVE  Abstract!Bytes(base, size) = base .. (base + memblock_cap_size(base, size) - 1)
  BY SizesAssumption DEF Abstract!Bytes, memblock_cap_size, min, Addr

\* No search is on.
LEMMA NoSearch ==
  ASSUME pc \in {"idle", "reserve"}
  PROVE  Wanted = [size |-> 0] /\ Removing = {}
  BY DEF Wanted, Removing

\* From its first step on the call counts as done.
LEMMA AddRangeSets ==
  ASSUME IInv, ~hung, pc \in {"idle", "reserve"},
         NEW t \in Types, NEW base \in Addr, NEW size \in Addr,
         memblock_add_range(t, base, size), UNCHANGED <<found, hung>>
  PROVE  /\ SetsInv'
         /\ pc' \in {"idle", "count"} /\ Wanted' = [size |-> 0] /\ Removing' = {}
         /\ \A u \in Types :
              Covered(mb'[u].regions) \cup Adding(u)' =
                IF u = t THEN Covered(mb[u].regions) \cup Abstract!Bytes(base, size)
                         ELSE Covered(mb[u].regions)
<1> DEFINE rs == mb[t].regions
           capped == memblock_cap_size(base, size)
           added == base .. (base + capped - 1)
<1>1. TypeOK /\ CanonicalArray(rs) /\ ArrayOK(rs)
  BY DEF IInv, TypeOK, OthersCanonical, Changing
<1>2. capped \in Addr /\ capped \in Nat /\ base + capped \in Addr
  BY CapFacts
<1>3. base \in Nat
  BY SizesAssumption DEF Addr
<1>4. Abstract!Bytes(base, size) = added
  BY CappedBytes
<1>5. /\ pc' \in {"idle", "count"}
      /\ \/ pc' = "idle" /\ capped = 0 /\ mb' = mb
         \/ /\ pc' = "idle" /\ IsEmpty(rs)
            /\ mb' = [mb EXCEPT ![t] =
                 [regions |-> <<[base |-> base, size |-> capped]>>, total |-> capped]]
         \/ /\ pc' = "count" /\ mb' = mb
            /\ fr' = ScanFrame(t, base, base + capped, Len(rs), 0)
  BY DEF memblock_add_range, Return
<1>6. Wanted' = [size |-> 0] /\ Removing' = {}
  BY <1>5 DEF Wanted, Removing
<1> HIDE DEF capped
<1>7. CASE pc' = "idle" /\ capped = 0 /\ mb' = mb
  <2>1. \A u \in Types : Adding(u)' = {}
    BY <1>7 DEF Adding
  <2>2. added = {}
    BY <1>3, <1>7
  <2>3. SetsInv'
    BY <1>7 DEF SetsInv, ScannedInv, RemovableInv, SearchInv
  <2> QED  BY <1>4, <1>5, <1>6, <1>7, <2>1, <2>2, <2>3
<1>8. CASE /\ pc' = "idle" /\ IsEmpty(rs)
           /\ mb' = [mb EXCEPT ![t] =
                [regions |-> <<[base |-> base, size |-> capped]>>, total |-> capped]]
  <2> DEFINE one == <<[base |-> base, size |-> capped]>>
  <2>1. \A u \in Types : Adding(u)' = {}
    BY <1>8 DEF Adding
  <2>2. DOMAIN mb = Types
    BY <1>1 DEF TypeOK
  <2>3. Covered(one) = added
    BY <1>2, SingleCovers
  <2> HIDE DEF one
  <2>4. mb'[t].regions = one /\ \A u \in Types : u # t => mb'[u] = mb[u]
    BY <1>8, <2>2 DEF one
  <2>5. rs = Empty
    <3>1. 1 \in DOMAIN rs
      BY <1>1, ArrayFacts DEF Flat
    <3> QED  BY <1>1, <1>8, <3>1 DEF CanonicalArray, NoneEmpty, IsEmpty
  <2>6. Covered(rs) = {}
    BY <2>5, EmptyCovers
  <2>7. SetsInv'
    BY <1>8 DEF SetsInv, ScannedInv, RemovableInv, SearchInv
  <2> QED  BY <1>4, <1>5, <1>6, <2>1, <2>3, <2>4, <2>6, <2>7
<1>9. CASE /\ pc' = "count" /\ mb' = mb
           /\ fr' = ScanFrame(t, base, base + capped, Len(rs), 0)
  <2>1. /\ fr'.type = t /\ fr'.obase = base /\ fr'.base = base
        /\ fr'.end = base + capped
    BY <1>9 DEF ScanFrame
  <2>2. ASSUME NEW u \in Types PROVE Adding(u)' = IF u = t THEN added ELSE {}
    <3>1. CASE u = t
      <4>1. pc' = "count" /\ fr'.type = u
        BY <1>9, <2>1, <3>1
      <4>2. Adding(u)' = fr'.obase .. (fr'.end - 1)
        BY <4>1 DEF Adding
      <4> QED  BY <1>2, <1>3, <2>1, <3>1, <4>2
    <3>2. CASE u # t
      BY <1>9, <2>1, <3>2 DEF Adding
    <3> QED  BY <3>1, <3>2
  <2>3. Done' = {}
    BY <1>3, <2>1 DEF Done
  <2>4. SetsInv'
    BY <1>9, <2>3 DEF SetsInv, ScannedInv, RemovableInv, SearchInv
  <2> QED  BY <1>4, <1>5, <1>6, <1>9, <2>2, <2>4
<1> QED  BY <1>5, <1>7, <1>8, <1>9

\* memblock_add.
LEMMA AddSets ==
  ASSUME IInv, NEW c \in AddCalls, memblock_add(c[1], c[2])
  PROVE  SetsInv' /\ Abstract!Next
<1>1. c[1] \in Addr /\ c[2] \in Addr /\ "memory" \in Types /\ "reserved" \in Types
  BY CallsAssumption DEF Ranges, Types
<1>2. /\ ~hung /\ pc = "idle" /\ UNCHANGED <<found, hung>>
      /\ memblock_add_range("memory", c[1], c[2])
  BY DEF memblock_add, Running
<1>3. /\ SetsInv' /\ Wanted' = [size |-> 0] /\ Removing' = {}
      /\ Covered(mb'["memory"].regions) \cup Adding("memory")' =
           Covered(mb["memory"].regions) \cup Abstract!Bytes(c[1], c[2])
      /\ Covered(mb'["reserved"].regions) \cup Adding("reserved")' =
           Covered(mb["reserved"].regions)
  <2>1. /\ IInv /\ ~hung /\ pc \in {"idle", "reserve"} /\ UNCHANGED <<found, hung>>
        /\ memblock_add_range("memory", c[1], c[2])
    BY <1>2
  <2>2. /\ SetsInv' /\ Wanted' = [size |-> 0] /\ Removing' = {}
        /\ \A u \in Types :
             Covered(mb'[u].regions) \cup Adding(u)' =
               IF u = "memory" THEN Covered(mb[u].regions) \cup Abstract!Bytes(c[1], c[2])
                               ELSE Covered(mb[u].regions)
    BY <1>1, <2>1, AddRangeSets
  <2> QED  BY <1>1, <2>2
<1>4. Adding("memory") = {} /\ Adding("reserved") = {}
  BY <1>2 DEF Adding
<1>5. Wanted = [size |-> 0] /\ Removing = {}
  BY <1>2, NoSearch
<1>6. /\ Memory' = Memory \cup Abstract!Bytes(c[1], c[2])
      /\ Reserved' = Reserved /\ Wanted' = Wanted
  BY <1>3, <1>4, <1>5 DEF Memory, Reserved
<1>7. Abstract!Add(c[1], c[2])
  BY <1>2, <1>6 DEF Abstract!Add, Abstract!Begin
<1> QED  BY <1>3, <1>7 DEF Abstract!Next

\* memblock_reserve.
LEMMA ReserveSets ==
  ASSUME IInv, NEW c \in ReserveCalls, memblock_reserve(c[1], c[2])
  PROVE  SetsInv' /\ Abstract!Next
<1>1. c[1] \in Addr /\ c[2] \in Addr /\ "memory" \in Types /\ "reserved" \in Types
  BY CallsAssumption DEF Ranges, Types
<1>2. /\ ~hung /\ pc = "idle" /\ UNCHANGED <<found, hung>>
      /\ memblock_add_range("reserved", c[1], c[2])
  BY DEF memblock_reserve, Running
<1>3. /\ SetsInv' /\ Wanted' = [size |-> 0] /\ Removing' = {}
      /\ Covered(mb'["memory"].regions) \cup Adding("memory")' =
           Covered(mb["memory"].regions)
      /\ Covered(mb'["reserved"].regions) \cup Adding("reserved")' =
           Covered(mb["reserved"].regions) \cup Abstract!Bytes(c[1], c[2])
  <2>1. /\ IInv /\ ~hung /\ pc \in {"idle", "reserve"} /\ UNCHANGED <<found, hung>>
        /\ memblock_add_range("reserved", c[1], c[2])
    BY <1>2
  <2>2. /\ SetsInv' /\ Wanted' = [size |-> 0] /\ Removing' = {}
        /\ \A u \in Types :
             Covered(mb'[u].regions) \cup Adding(u)' =
               IF u = "reserved" THEN Covered(mb[u].regions) \cup Abstract!Bytes(c[1], c[2])
                               ELSE Covered(mb[u].regions)
    BY <1>1, <2>1, AddRangeSets
  <2> QED  BY <1>1, <2>2
<1>4. Adding("memory") = {} /\ Adding("reserved") = {}
  BY <1>2 DEF Adding
<1>5. Wanted = [size |-> 0] /\ Removing = {}
  BY <1>2, NoSearch
<1>6. /\ Reserved' = Reserved \cup Abstract!Bytes(c[1], c[2])
      /\ Memory' = Memory /\ Wanted' = Wanted
  BY <1>3, <1>4, <1>5 DEF Memory, Reserved
<1>7. Abstract!Reserve(c[1], c[2])
  BY <1>2, <1>6 DEF Abstract!Reserve, Abstract!Begin
<1> QED  BY <1>3, <1>7 DEF Abstract!Next

\* The reservation of what the search has found: it was counted when it was found.
LEMMA AllocReserveSets ==
  ASSUME IInv, AllocReserve
  PROVE  SetsInv' /\ (Abstract!Next \/ UNCHANGED Abstract!vars)
<1>1. /\ ~hung /\ pc = "reserve" /\ UNCHANGED <<found, hung>>
      /\ memblock_add_range("reserved", found, fr.size)
  BY DEF AllocReserve, Running
<1>2. /\ found \in Addr /\ fr.size \in Addr /\ "reserved" \in Types /\ "memory" \in Types
      /\ fr.end \in Addr
  BY <1>1 DEF IInv, TypeOK, FrameOK, SearchFrames, Types
<1>3. /\ SetsInv' /\ Wanted' = [size |-> 0] /\ Removing' = {} /\ pc' \in {"idle", "count"}
      /\ Covered(mb'["memory"].regions) \cup Adding("memory")' =
           Covered(mb["memory"].regions)
      /\ Covered(mb'["reserved"].regions) \cup Adding("reserved")' =
           Covered(mb["reserved"].regions) \cup Abstract!Bytes(found, fr.size)
  BY <1>1, <1>2, AddRangeSets
<1>4. Abstract!Bytes(found, fr.size) = found .. (found + fr.size - 1)
  <2>1. found \in Nat /\ fr.size \in Nat /\ fr.end \in Nat /\ fr.end <= PHYS_ADDR_MAX
    BY <1>2, SizesAssumption DEF Addr
  <2>2. fr.size = 0 \/ found + fr.size <= PHYS_ADDR_MAX
    <3> SUFFICES ASSUME fr.size > 0 PROVE found + fr.size <= PHYS_ADDR_MAX
      BY <2>1
    <3>1. found .. (found + fr.size - 1) \subseteq fr.start .. (fr.end - 1)
      BY <1>1 DEF IInv, AllocFree
    <3>2. found + fr.size - 1 \in found .. (found + fr.size - 1)
      BY <2>1
    <3>3. found + fr.size - 1 <= fr.end - 1
      BY <3>1, <3>2
    <3> QED  BY <2>1, <3>3, SizesAssumption
  <2> QED  BY <2>1, <2>2, SizesAssumption DEF Abstract!Bytes
<1>5. Adding("memory") = {} /\ Adding("reserved") = found .. (found + fr.size - 1)
  BY <1>1 DEF Adding
<1>6. Wanted = [size |-> 0] /\ Removing = {}
  BY <1>1, NoSearch
<1>7. Memory' = Memory /\ Reserved' = Reserved /\ Wanted' = Wanted
  BY <1>3, <1>4, <1>5, <1>6 DEF Memory, Reserved
<1> QED  BY <1>1, <1>3, <1>7, ReturnStep, QuietStep

-----------------------------------------------------------------------------
(***************************************************************************)
(* memblock_free.                                                          *)
(***************************************************************************)

\* While the range is isolated and removed its bytes do not count.
LEMMA FreeingSets ==
  ASSUME pc \in {"isolate", "remove"}, pc' \in {"isolate", "remove"},
         fr'.base = fr.base, fr'.end = fr.end,
         mb'["memory"] = mb["memory"],
         Covered(mb'["reserved"].regions) \ fr.base .. (fr.end - 1) =
           Covered(mb["reserved"].regions) \ fr.base .. (fr.end - 1)
  PROVE  Memory' = Memory /\ Reserved' = Reserved /\ Wanted' = Wanted
<1>1. /\ Adding("memory") = {} /\ Adding("memory")' = {}
      /\ Adding("reserved") = {} /\ Adding("reserved")' = {}
  BY DEF Adding
<1>2. Removing = fr.base .. (fr.end - 1) /\ Removing' = fr.base .. (fr.end - 1)
  BY DEF Removing
<1> QED  BY <1>1, <1>2, NothingWanted DEF Memory, Reserved

LEMMA FreeSets ==
  ASSUME IInv, NEW c \in FreeCalls, memblock_free(c[1], c[2])
  PROVE  SetsInv' /\ Abstract!Next
<1> DEFINE base == c[1]
           capped == memblock_cap_size(c[1], c[2])
<1>1. c[1] \in Addr /\ c[2] \in Addr
  BY CallsAssumption DEF Ranges
<1>2. capped \in Nat /\ base \in Nat
  <2>1. capped \in Nat
    BY <1>1, CapFacts
  <2>2. base \in Nat
    BY <1>1, SizesAssumption DEF Addr
  <2> QED  BY <2>1, <2>2
<1>3. /\ ~hung /\ pc = "idle" /\ UNCHANGED <<mb, found, hung>>
  BY DEF memblock_free, Running
<1>4. Abstract!Bytes(c[1], c[2]) = base .. (base + capped - 1)
  BY <1>1, CappedBytes
<1>5. Adding("memory") = {} /\ Adding("reserved") = {}
  BY <1>3 DEF Adding
<1>6. Wanted = [size |-> 0] /\ Removing = {}
  BY <1>3, NoSearch
<1> HIDE DEF capped, base
<1>7. /\ Memory' = Memory /\ Wanted' = Wanted /\ SetsInv'
      /\ Reserved' = Reserved \ base .. (base + capped - 1)
  <2>1. CASE capped = 0
    <3>1. pc' = "idle"
      BY <2>1 DEF memblock_free, Return, capped
    <3>2. Adding("memory")' = {} /\ Adding("reserved")' = {} /\ Removing' = {}
      BY <3>1 DEF Adding, Removing
    <3>3. base .. (base + capped - 1) = {}
      BY <1>2, <2>1
    <3>4. SetsInv' /\ Wanted' = [size |-> 0]
      BY <3>1 DEF SetsInv, ScannedInv, RemovableInv, SearchInv, Wanted
    <3> QED  BY <1>3, <1>5, <1>6, <3>2, <3>3, <3>4 DEF Memory, Reserved
  <2>2. CASE capped # 0
    <3>1. /\ pc' = "isolate"
          /\ fr'.base = base /\ fr'.end = base + capped /\ fr'.end_rgn = 0
      BY <2>2 DEF memblock_free, capped, base
    <3>2. Adding("memory")' = {} /\ Adding("reserved")' = {}
      BY <3>1 DEF Adding
    <3>3. Removing' = base .. (base + capped - 1)
      BY <1>2, <3>1 DEF Removing
    <3>4. SetsInv' /\ Wanted' = [size |-> 0]
      BY <3>1 DEF SetsInv, ScannedInv, RemovableInv, SearchInv, Wanted
    <3> QED  BY <1>3, <1>5, <1>6, <3>2, <3>3, <3>4 DEF Memory, Reserved
  <2> QED  BY <2>1, <2>2
<1>8. Abstract!Free(c[1], c[2])
  BY <1>3, <1>4, <1>7 DEF Abstract!Free, Abstract!Begin
<1> QED  BY <1>7, <1>8 DEF Abstract!Next

LEMMA IsolateSkipSets ==
  ASSUME IInv, SetsInv, IsolateSkip
  PROVE  SetsInv' /\ UNCHANGED Abstract!vars
<1>1. /\ pc = "isolate" /\ ~hung /\ UNCHANGED <<mb, pc, found, hung>>
      /\ fr \in IsolateFrames /\ fr' = [fr EXCEPT !.idx = @ + 1]
  BY IsolateFacts DEF IsolateSkip
<1>2. /\ fr'.base = fr.base /\ fr'.end = fr.end /\ fr'.type = fr.type
      /\ fr'.start_rgn = fr.start_rgn /\ fr'.end_rgn = fr.end_rgn
  BY <1>1 DEF IsolateFrames
<1>3. Memory' = Memory /\ Reserved' = Reserved /\ Wanted' = Wanted
  BY <1>1, <1>2, FreeingSets
<1>4. ScanRegions' = ScanRegions
  BY <1>1, <1>2 DEF ScanRegions
<1>5. RemovableInv'
  BY <1>1, <1>2, <1>4 DEF SetsInv, RemovableInv, Inside
<1>6. SetsInv'
  BY <1>1, <1>5 DEF SetsInv, ScannedInv, SearchInv
<1> QED  BY <1>1, <1>3, <1>6, QuietStep

\* A region joins those to be removed: it lies within the range.
LEMMA IsolateWholeSets ==
  ASSUME IInv, SetsInv, IsolateWhole
  PROVE  SetsInv' /\ UNCHANGED Abstract!vars
<1> DEFINE rs == ScanRegions
           i == fr.idx
           s == IF fr.end_rgn = 0 THEN i ELSE fr.start_rgn
<1>1. /\ Isolating /\ InLoop /\ ~CutsFront(rs[i]) /\ ~CutsBack(rs[i])
      /\ UNCHANGED <<mb, pc, found, hung>>
      /\ fr' = [fr EXCEPT !.idx = i + 1, !.end_rgn = i, !.start_rgn = s]
  BY DEF IsolateWhole, Overlapping, ScanRegion
<1>2. /\ pc = "isolate" /\ ~hung /\ fr \in IsolateFrames
      /\ i \in 1 .. Len(rs) /\ fr.base \in Nat /\ fr.end \in Nat
      /\ fr.start_rgn \in Nat /\ fr.end_rgn \in Nat /\ fr.end_rgn < i
      /\ fr.end_rgn # 0 => fr.end_rgn = i - 1
  BY <1>1, IsolateFacts DEF InLoop
<1>3. rs[i].base \in Nat /\ rend(rs[i]) \in Nat
  BY <1>1, <1>2, IsolateElements
<1> HIDE DEF rs, i
<1>4. /\ fr'.base = fr.base /\ fr'.end = fr.end /\ fr'.type = fr.type
      /\ fr'.end_rgn = i /\ fr'.start_rgn = s
  <2> HIDE DEF s
  <2> QED  BY <1>1, <1>2 DEF IsolateFrames
<1>5. ScanRegions' = rs
  BY <1>1, <1>4 DEF ScanRegions, rs
<1>6. Inside(rs[i])
  BY <1>1, <1>2, <1>3 DEF Inside, CutsFront, CutsBack
<1>7. ASSUME NEW k \in s .. i PROVE Inside(rs[k])
  <2>1. CASE k = i
    BY <1>6, <2>1
  <2>2. CASE k # i
    <3>1. fr.end_rgn # 0 /\ k \in fr.start_rgn .. fr.end_rgn
      BY <1>2, <2>2
    <3> QED  BY <1>2, <3>1 DEF SetsInv, RemovableInv, rs
  <2> QED  BY <2>1, <2>2
<1>8. RemovableInv'
  BY <1>1, <1>2, <1>4, <1>5, <1>7 DEF RemovableInv, Inside
<1>9. SetsInv'
  BY <1>1, <1>2, <1>8 DEF SetsInv, ScannedInv, SearchInv
<1>10. Memory' = Memory /\ Reserved' = Reserved /\ Wanted' = Wanted
  BY <1>1, <1>2, <1>4, FreeingSets
<1> QED  BY <1>1, <1>2, <1>9, <1>10, QuietStep

LEMMA IsolateDoneSets ==
  ASSUME IInv, SetsInv, IsolateDone
  PROVE  SetsInv' /\ UNCHANGED Abstract!vars
<1>1. /\ Isolating /\ pc' = "remove" /\ UNCHANGED <<mb, found, hung>>
      /\ fr'.type = fr.type /\ fr'.base = fr.base /\ fr'.end = fr.end
      /\ fr'.idx = fr.end_rgn /\ fr'.start_rgn = fr.start_rgn
  BY DEF IsolateDone
<1>2. /\ pc = "isolate" /\ ~hung /\ fr.start_rgn \in Nat /\ fr.start_rgn > 0
      /\ fr.end_rgn \in Nat
  BY <1>1, IsolateFacts
<1>3. ScanRegions' = ScanRegions
  BY <1>1 DEF ScanRegions
<1>4. \A k \in fr.start_rgn .. fr.end_rgn : Inside(ScanRegions[k])
  <2>1. CASE fr.end_rgn = 0
    BY <1>2, <2>1
  <2>2. CASE fr.end_rgn # 0
    BY <1>2, <2>2 DEF SetsInv, RemovableInv
  <2> QED  BY <2>1, <2>2
<1>5. RemovableInv'
  BY <1>1, <1>3, <1>4 DEF RemovableInv, Inside
<1>6. SetsInv'
  BY <1>1, <1>5 DEF SetsInv, ScannedInv, SearchInv
<1>7. Memory' = Memory /\ Reserved' = Reserved /\ Wanted' = Wanted
  BY <1>1, <1>2, FreeingSets
<1> QED  BY <1>1, <1>2, <1>6, <1>7, QuietStep

\* A cut leaves the bytes as they are, a BUG in the middle of it forgets some.
LEMMA CutSets ==
  ASSUME IInv, SetsInv, Isolating, InLoop, NEW cut \in {fr.base, fr.end},
         rend(ScanRegion) > fr.base, ScanRegion.base < cut, cut < rend(ScanRegion),
         SplitAt(cut)
  PROVE  SetsInv' /\ (Abstract!Next \/ UNCHANGED Abstract!vars)
<1> DEFINE rs == ScanRegions
           i == fr.idx
           new == mb'[fr.type].regions
<1>1. /\ pc = "isolate" /\ ~hung /\ fr \in IsolateFrames /\ fr.type = "reserved"
      /\ fr.type \in Types
      /\ ArrayOK(rs) /\ i \in 1 .. Len(rs) /\ ScanRegion = rs[i] /\ Len(rs) \in Nat
      /\ fr.end_rgn \in Nat /\ fr.end_rgn < i /\ fr.start_rgn \in Nat /\ fr.start_rgn > 0
      /\ cut \in Addr /\ cut \in Nat
  BY IsolateFacts DEF InLoop, ScanRegion, IsolateFrames
<1>2. rs[i].base < cut /\ cut < rend(rs[i])
  BY <1>1
<1>3. rs[i] \in Region /\ rend(rs[i]) \in Addr /\ rend(rs[i]) \in Nat /\ rs[i].base \in Nat
  BY <1>1, ArrayFacts DEF Flat
<1>4. CASE Full(rs)
  <2> DEFINE low == [base |-> cut, size |-> rs[i].size - (cut - rs[i].base)]
  <2>1. /\ mb' = [mb EXCEPT ![fr.type] = ShrinkTo(mb[fr.type], i, cut)]
        /\ hung' = TRUE /\ UNCHANGED <<pc, fr, found>>
    BY <1>4 DEF SplitAt, Bug, ScanRegions
  <2>2. ShrinkTo(mb[fr.type], i, cut).regions = [rs EXCEPT ![i] = low]
    BY DEF ShrinkTo, ScanRegions
  <2>3. DOMAIN mb = Types
    BY DEF IInv, TypeOK
  <2>4. new = [rs EXCEPT ![i] = low] /\ \A t \in Types : t # fr.type => mb'[t] = mb[t]
    BY <1>1, <2>1, <2>2, <2>3
  <2>5. low.base = cut /\ rend(low) = rend(rs[i])
    BY <1>1, <1>3, SizesAssumption DEF rend, Region, Addr
  <2>6. Covered(new) \subseteq Covered(rs)
    <3> HIDE DEF low, rs, i
    <3>1. DOMAIN rs = 1 .. Len(rs)
      BY <1>1, ArrayFacts DEF Flat
    <3>2. DOMAIN new = DOMAIN rs
      BY <2>4
    <3>3. /\ new[i] = low
          /\ \A k \in DOMAIN rs : k # i => new[k] = rs[k]
      BY <1>1, <2>4, <3>1
    <3> HIDE DEF new
    <3> SUFFICES ASSUME NEW x \in Covered(new) PROVE x \in Covered(rs)
      OBVIOUS
    <3>4. x \in Addr /\ x \in Nat
      BY SizesAssumption DEF Covered, Addr
    <3>5. PICK k \in DOMAIN rs : new[k].base <= x /\ x < rend(new[k])
      BY <3>2 DEF Covered
    <3>6. rs[k].base <= x /\ x < rend(rs[k])
      BY <1>1, <1>2, <1>3, <2>5, <3>3, <3>4, <3>5
    <3> QED  BY <3>4, <3>6 DEF Covered
  <2>7. Adding("memory")' = Adding("memory") /\ Adding("reserved")' = Adding("reserved")
    BY <2>1 DEF Adding
  <2>8. Removing' = Removing /\ Wanted' = Wanted
    BY <2>1 DEF Removing, Wanted
  <2>9. Memory' = Memory
    BY <1>1, <2>4, <2>7 DEF Memory, Types
  <2>10. Reserved' \subseteq Reserved
    BY <1>1, <2>6, <2>7, <2>8 DEF Reserved, rs, ScanRegions
  <2>11. hung = FALSE
    BY <1>1 DEF IInv, TypeOK
  <2>12. Abstract!Stop
    BY <1>1, <2>1, <2>8, <2>9, <2>10, <2>11 DEF Abstract!Stop
  <2> QED  BY <2>1, <2>12 DEF SetsInv, Abstract!Next
<1>5. CASE ~Full(rs)
  <2>1. /\ ArrayOK(new)
        /\ \A t \in Types : t # fr.type => mb'[t] = mb[t]
        /\ Len(new) = Len(rs) + 1
        /\ \A k \in 1 .. i - 1 : new[k] = rs[k]
        /\ new[i].base = rs[i].base /\ rend(new[i]) = cut
        /\ new[i + 1].base = cut /\ rend(new[i + 1]) = rend(rs[i])
        /\ \A k \in i + 2 .. Len(rs) + 1 : new[k] = rs[k - 1]
        /\ fr' = [fr EXCEPT !.idx = IF cut = fr.base THEN @ + 1 ELSE @]
        /\ UNCHANGED <<pc, found, hung>>
    BY <1>1, <1>5, SplitRoom
  <2>2. /\ fr'.base = fr.base /\ fr'.end = fr.end /\ fr'.type = fr.type
        /\ fr'.start_rgn = fr.start_rgn /\ fr'.end_rgn = fr.end_rgn
    BY <1>1, <2>1 DEF IsolateFrames
  <2>3. ScanRegions' = new
    BY <2>2 DEF ScanRegions
  <2>4. mb[fr.type].regions = rs
    BY DEF ScanRegions
  <2> HIDE DEF rs, i, new
  <2>5. Covered(new) = Covered(rs)
    <3>1. /\ ArrayOK(rs) /\ ArrayOK(new) /\ Len(new) = Len(rs) + 1
          /\ i \in 1 .. Len(rs)
          /\ new[i].base = rs[i].base /\ rend(new[i]) = new[i + 1].base
          /\ rend(new[i + 1]) = rend(rs[i])
          /\ \A k \in 1 .. i - 1 : new[k] = rs[k]
          /\ \A k \in i + 2 .. Len(rs) + 1 : new[k] = rs[k - 1]
      BY <1>1, <2>1
    <3> QED  BY <3>1, SplitCovers
  <2>6. RemovableInv'
    <3> SUFFICES ASSUME fr.end_rgn # 0, NEW k \in fr.start_rgn .. fr.end_rgn
                 PROVE  Inside(new[k])
      BY <1>1, <2>1, <2>2, <2>3 DEF RemovableInv, Inside
    <3>1. Inside(rs[k])
      BY <1>1 DEF SetsInv, RemovableInv, rs
    <3>2. k \in 1 .. i - 1
      BY <1>1
    <3> QED  BY <2>1, <3>1, <3>2
  <2>7. SetsInv'
    BY <1>1, <2>1, <2>6 DEF SetsInv, ScannedInv, SearchInv
  <2>8. mb'["memory"] = mb["memory"]
    BY <1>1, <2>1 DEF Types
  <2>9. Covered(mb'["reserved"].regions) = Covered(mb["reserved"].regions)
    BY <1>1, <2>4, <2>5 DEF new
  <2>10. Memory' = Memory /\ Reserved' = Reserved /\ Wanted' = Wanted
    BY <1>1, <2>1, <2>2, <2>8, <2>9, FreeingSets
  <2> QED  BY <1>1, <2>1, <2>7, <2>10, QuietStep
<1> QED  BY <1>4, <1>5

LEMMA IsolateFrontSets ==
  ASSUME IInv, SetsInv, IsolateFront
  PROVE  SetsInv' /\ (Abstract!Next \/ UNCHANGED Abstract!vars)
<1>1. /\ Isolating /\ InLoop /\ rend(ScanRegion) > fr.base /\ ScanRegion.base < fr.base
      /\ SplitAt(fr.base)
  BY DEF IsolateFront, Overlapping, CutsFront
<1>2. rend(ScanRegion) \in Nat /\ fr.base \in Nat
  BY <1>1, IsolateElements, IsolateFacts DEF InLoop, ScanRegion
<1>3. fr.base < rend(ScanRegion)
  BY <1>1, <1>2
<1> QED  BY <1>1, <1>3, CutSets

LEMMA IsolateBackSets ==
  ASSUME IInv, SetsInv, IsolateBack
  PROVE  SetsInv' /\ (Abstract!Next \/ UNCHANGED Abstract!vars)
<1>1. /\ Isolating /\ InLoop /\ rend(ScanRegion) > fr.base /\ ScanRegion.base < fr.end
      /\ rend(ScanRegion) > fr.end /\ SplitAt(fr.end)
  BY DEF IsolateBack, Overlapping, CutsBack, InLoop
<1>2. rend(ScanRegion) \in Nat /\ fr.end \in Nat
  BY <1>1, IsolateElements, IsolateFacts DEF InLoop, ScanRegion
<1>3. fr.end < rend(ScanRegion)
  BY <1>1, <1>2
<1> QED  BY <1>1, <1>3, CutSets

\* A region within the range goes: its bytes did not count any more.
LEMMA RemoveLastSets ==
  ASSUME IInv, SetsInv, RemoveLast
  PROVE  SetsInv' /\ UNCHANGED Abstract!vars
<1> DEFINE rs == ScanRegions
           i == fr.idx
           new == IF Len(rs) = 1 THEN Empty ELSE RemoveAt(rs, i)
<1>1. /\ pc = "remove" /\ ~hung /\ UNCHANGED <<pc, found, hung>>
      /\ fr.type = "reserved" /\ fr.type \in Types /\ fr.base \in Nat /\ fr.end \in Nat
      /\ fr.start_rgn \in Nat /\ fr.start_rgn > 0
      /\ ArrayOK(rs) /\ Len(rs) \in Nat
  BY RemoveFacts DEF RemoveLast, Running
<1>2. /\ i \in 1 .. Len(rs) /\ i >= fr.start_rgn
      /\ mb'[fr.type].regions = new
      /\ \A t \in Types : t # fr.type => mb'[t] = mb[t]
      /\ fr'.type = fr.type /\ fr'.base = fr.base /\ fr'.end = fr.end
      /\ fr'.idx = i - 1 /\ fr'.start_rgn = fr.start_rgn
  BY LastRemoved
<1>3. mb[fr.type].regions = rs /\ ScanRegions' = new
  BY <1>2 DEF ScanRegions
<1> HIDE DEF rs, i
<1>4. \A k \in fr.start_rgn .. i : Inside(rs[k])
  BY <1>1 DEF SetsInv, RemovableInv, rs, i
<1>5. Inside(rs[i])
  BY <1>1, <1>2, <1>4
<1>6. /\ Covered(rs) = Covered(new) \cup rs[i].base .. (rend(rs[i]) - 1)
      /\ \A k \in fr.start_rgn .. i - 1 : Inside(new[k])
  <2>1. CASE Len(rs) = 1
    <3>1. i = 1 /\ new = Empty
      BY <1>1, <1>2, <2>1
    <3> HIDE DEF new
    <3>2. Covered(new) = {}
      BY <3>1, EmptyCovers
    <3>3. Covered(rs) = rs[i].base .. (rend(rs[i]) - 1)
      <4>1. rs[1].base \in Nat /\ rend(rs[1]) \in Addr /\ rend(rs[1]) \in Nat
        BY <1>1, <2>1, ArrayFacts DEF Flat
      <4>2. \A x : x \in Covered(rs) <=> x \in Addr /\ rs[1].base <= x /\ x < rend(rs[1])
        <5>1. \A k : k \in 1 .. Len(rs) <=> k = 1
          BY <2>1
        <5> QED  BY <1>1, <5>1, CoveredByte
      <4>3. \A x : x \in rs[1].base .. (rend(rs[1]) - 1) <=>
                     x \in Addr /\ rs[1].base <= x /\ x < rend(rs[1])
        BY <4>1, SizesAssumption DEF Addr
      <4> QED  BY <3>1, <4>2, <4>3
    <3>4. fr.start_rgn .. i - 1 = {}
      BY <1>1, <3>1
    <3> QED  BY <3>2, <3>3, <3>4
  <2>2. CASE Len(rs) # 1
    <3>1. new = RemoveAt(rs, i)
      BY <2>2
    <3>2. /\ ArrayOK(new) /\ Len(new) = Len(rs) - 1
          /\ \A k \in 1 .. i - 1 : new[k] = rs[k]
          /\ \A k \in i .. Len(rs) - 1 : new[k] = rs[k + 1]
      BY <1>1, <1>2, <2>2, <3>1, RemoveRegion
    <3> HIDE DEF new
    <3>3. Covered(rs) = Covered(new) \cup rs[i].base .. (rend(rs[i]) - 1)
      <4>1. ArrayOK(rs) /\ i \in 1 .. Len(rs)
        BY <1>1, <1>2
      <4> QED  BY <3>2, <4>1, RemoveCovers
    <3>4. ASSUME NEW k \in fr.start_rgn .. i - 1 PROVE Inside(new[k])
      <4>1. k \in 1 .. i - 1 /\ k \in fr.start_rgn .. i
        BY <1>1, <1>2
      <4> QED  BY <1>4, <3>2, <4>1
    <3> QED  BY <3>3, <3>4
  <2> QED  BY <2>1, <2>2
<1> HIDE DEF new
<1>7. rs[i].base .. (rend(rs[i]) - 1) \subseteq fr.base .. (fr.end - 1)
  <2>1. rs[i].base \in Nat /\ rend(rs[i]) \in Nat
    BY <1>1, <1>2, ArrayFacts DEF Flat
  <2> QED  BY <1>1, <1>5, <2>1 DEF Inside
<1>8. mb'["memory"] = mb["memory"]
  BY <1>1, <1>2 DEF Types
<1>9. Covered(mb'["reserved"].regions) \ fr.base .. (fr.end - 1) =
      Covered(mb["reserved"].regions) \ fr.base .. (fr.end - 1)
  BY <1>1, <1>2, <1>3, <1>6, <1>7
<1>10. Memory' = Memory /\ Reserved' = Reserved /\ Wanted' = Wanted
  BY <1>1, <1>2, <1>8, <1>9, FreeingSets
<1>11. SetsInv'
  BY <1>1, <1>2, <1>3, <1>6 DEF SetsInv, ScannedInv, RemovableInv, SearchInv, Inside
<1> QED  BY <1>1, <1>10, <1>11, QuietStep

\* No byte of the range is left.
LEMMA RemoveDoneSets ==
  ASSUME IInv, SetsInv, RemoveDone
  PROVE  SetsInv' /\ Abstract!Next
<1> DEFINE rs == ScanRegions
<1>1. /\ Running("remove") /\ fr.idx < fr.start_rgn
      /\ pc = "remove" /\ pc' = "idle" /\ UNCHANGED <<mb, found, hung>>
  BY DEF RemoveDone, Return, Running
<1>2. /\ fr.type = "reserved" /\ ArrayOK(rs) /\ Len(rs) \in Nat
      /\ fr.base \in Nat /\ fr.end \in Nat
      /\ fr.idx \in Nat /\ fr.start_rgn \in Nat
      /\ \A k \in 1 .. Len(rs) :
           k < fr.start_rgn \/ fr.idx < k => Below(rs[k]) \/ Above(rs[k])
  BY <1>1, RemoveFacts
<1>3. rs = mb["reserved"].regions
  BY <1>2 DEF ScanRegions
<1> HIDE DEF rs
<1>4. ASSUME NEW x \in Covered(rs) PROVE ~(x \in fr.base .. (fr.end - 1))
  <2>1. PICK k \in 1 .. Len(rs) : rs[k].base <= x /\ x < rend(rs[k])
    BY <1>2, CoveredByte
  <2>2. rs[k].base \in Nat /\ rend(rs[k]) \in Nat
    BY <1>2, ArrayFacts DEF Flat
  <2>3. Below(rs[k]) \/ Above(rs[k])
    BY <1>1, <1>2
  <2> QED  BY <1>2, <2>1, <2>2, <2>3 DEF Below, Above
<1>5. /\ Adding("memory") = {} /\ Adding("memory")' = {}
      /\ Adding("reserved") = {} /\ Adding("reserved")' = {}
      /\ Removing = fr.base .. (fr.end - 1) /\ Removing' = {}
  BY <1>1 DEF Adding, Removing
<1>6. Memory' = Memory /\ Wanted' = Wanted
  BY <1>1, <1>5, NothingWanted DEF Memory
<1>7. Reserved' = Reserved
  BY <1>1, <1>3, <1>4, <1>5 DEF Reserved
<1>8. SetsInv'
  BY <1>1 DEF SetsInv, ScannedInv, RemovableInv, SearchInv
<1> QED  BY <1>1, <1>6, <1>7, <1>8, ReturnStep

-----------------------------------------------------------------------------
(***************************************************************************)
(* The search.  A place that would do lies in one region of RAM and in one *)
(* gap, because neighbours do not touch.                                   *)
(***************************************************************************)
LEMMA InOneRegion ==
  ASSUME NEW rs, ArrayOK(rs), CanonicalArray(rs),
         NEW x \in Nat, NEW size \in Nat, size > 0,
         x .. (x + size - 1) \subseteq Covered(rs)
  PROVE  \E k \in 1 .. Len(rs) : rs[k].base <= x /\ x + size <= rend(rs[k])
<1>1. Len(rs) \in Nat /\ DOMAIN rs = 1 .. Len(rs)
      /\ \A k \in 1 .. Len(rs) : /\ rs[k].base \in Nat /\ rend(rs[k]) \in Nat
                                 /\ rs[k].base <= rend(rs[k])
  <2>1. Flat(rs)
    BY ArrayFacts
  <2>2. \A k \in 1 .. Len(rs) : /\ rs[k].base \in Nat /\ rs[k].size \in Nat
                                /\ rend(rs[k]) = rs[k].base + rs[k].size
    BY <2>1 DEF Flat
  <2> QED  BY <2>1, <2>2 DEF Flat
<1>2. x \in Covered(rs)
  OBVIOUS
<1>3. Separated(rs)
  BY <1>2, EmptyCovers DEF CanonicalArray
<1>4. PICK k \in 1 .. Len(rs) : rs[k].base <= x /\ x < rend(rs[k])
  BY <1>2, CoveredByte
<1>5. rs[k].base \in Nat /\ rend(rs[k]) \in Nat
  BY <1>1
<1>6. x + size <= rend(rs[k])
  <2> SUFFICES ASSUME ~(x + size <= rend(rs[k])) PROVE FALSE
    OBVIOUS
  <2>1. rend(rs[k]) \in x .. (x + size - 1)
    BY <1>4, <1>5
  <2>2. PICK l \in 1 .. Len(rs) : rs[l].base <= rend(rs[k]) /\ rend(rs[k]) < rend(rs[l])
    BY <2>1, CoveredByte
  <2>3. rs[l].base \in Nat /\ rend(rs[l]) \in Nat
    BY <1>1
  <2>4. CASE l < k
    <3>1. rend(rs[l]) < rs[k].base
      BY <1>1, <1>3, <2>4 DEF Separated
    <3> QED  BY <1>4, <1>5, <2>2, <2>3, <3>1
  <2>5. CASE k < l
    <3>1. rend(rs[k]) < rs[l].base
      BY <1>1, <1>3, <2>5 DEF Separated
    <3> QED  BY <1>5, <2>2, <2>3, <3>1
  <2>6. k # l
    BY <1>5, <2>2
  <2> QED  BY <1>1, <2>4, <2>5, <2>6
<1> QED  BY <1>4, <1>6

LEMMA InOneGap ==
  ASSUME NEW rs, ArrayOK(rs), CanonicalArray(rs),
         NEW x \in Nat, NEW size \in Nat, size > 0, x + size <= PHYS_ADDR_MAX,
         \A y \in x .. (x + size - 1) : y \notin Covered(rs)
  PROVE  \E b \in 0 .. Len(rs) : GapStart(rs, b) <= x /\ x + size <= GapEnd(rs, b)
<1> DEFINE n == Len(rs)
           T == {k \in 0 .. n : k = n \/ x < rs[k + 1].base}
<1>1. n \in Nat /\ DOMAIN rs = 1 .. n
      /\ \A k \in 1 .. n : rs[k].base \in Nat /\ rend(rs[k]) \in Addr /\ rend(rs[k]) \in Nat
  BY ArrayFacts DEF Flat
<1>2. T \subseteq Nat /\ n \in T
  BY <1>1
<1> HIDE DEF T
<1>3. PICK b \in T : \A k \in T : b <= k
  <2> DEFINE R == OpToRel(<, Nat)
  <2>1. IsWellFoundedOn(R, Nat)
    BY NatLessThanWellFounded
  <2>2. \A k, l \in Nat : k < l => <<k, l>> \in R
    BY DEF OpToRel
  <2> HIDE DEF R
  <2>3. PICK b \in T : \A k \in T : ~(<<k, b>> \in R)
    BY <1>2, <2>1, WFMin
  <2>4. \A k \in T : b <= k
    <3> TAKE k \in T
    <3>1. b \in Nat /\ k \in Nat
      BY <1>2
    <3>2. ~(k < b)
      BY <2>2, <2>3, <3>1
    <3> QED  BY <3>1, <3>2
  <2> QED  BY <2>4
<1>4. /\ b \in 0 .. n
      /\ b = n \/ x < rs[b + 1].base
      /\ \A k \in 0 .. n : k < b => k # n /\ ~(x < rs[k + 1].base)
  <2>1. b \in 0 .. n /\ (b = n \/ x < rs[b + 1].base)
    BY DEF T
  <2>2. ASSUME NEW k \in 0 .. n, k < b PROVE k # n /\ ~(x < rs[k + 1].base)
    <3>3. n \in Nat
      BY <1>1
    <3>1. k \in Int /\ b \in Int /\ ~(b <= k)
      <4> HIDE DEF n
      <4> QED  BY <2>1, <2>2, <3>3
    <3>2. k \notin T
      BY <1>3, <3>1
    <3> QED  BY <3>2 DEF T
  <2> QED  BY <2>1, <2>2
<1> HIDE DEF n
<1>5. \A y \in x .. (x + size - 1) : \A k \in 1 .. n : ~(rs[k].base <= y /\ y < rend(rs[k]))
  <2> SUFFICES ASSUME NEW y \in x .. (x + size - 1), NEW k \in 1 .. n,
                      rs[k].base <= y, y < rend(rs[k])
               PROVE  FALSE
    OBVIOUS
  <2>1. y \in Nat /\ y <= PHYS_ADDR_MAX
    BY SizesAssumption
  <2>2. y \in Addr
    BY <2>1, SizesAssumption DEF Addr
  <2> QED  BY <2>2, CoveredByte DEF n
<1>6. GapStart(rs, b) <= x
  <2>1. CASE b = 0
    BY <2>1 DEF GapStart
  <2>2. CASE b > 0
    <3>1. b - 1 \in 0 .. n /\ b - 1 < b /\ (b - 1) + 1 = b /\ b \in 1 .. n
      BY <1>1, <1>4, <2>2
    <3>3. ~(x < rs[b].base)
      BY <1>4, <3>1
    <3>4. rs[b].base \in Nat /\ rend(rs[b]) \in Nat
      BY <1>1, <3>1
    <3>5. ~(rs[b].base <= x /\ x < rend(rs[b]))
      BY <1>5, <3>1
    <3>6. rend(rs[b]) <= x
      BY <3>3, <3>4, <3>5
    <3> QED  BY <2>2, <3>6 DEF GapStart
  <2> QED  BY <1>4, <2>1, <2>2
<1>7. x + size <= GapEnd(rs, b)
  <2>1. CASE b = n
    BY <1>1, <2>1 DEF GapEnd, n
  <2>2. CASE b # n
    <3>1. b + 1 \in 1 .. n /\ b < n /\ x < rs[b + 1].base
      BY <1>1, <1>4, <2>2
    <3>2. rs[b + 1].base \in Nat /\ rend(rs[b + 1]) \in Nat
      BY <1>1, <3>1
    <3>3. rs # Empty
      <4>1. rs = Empty => b + 1 = 1 /\ rs[1].base = 0
        BY <3>1 DEF Empty, n
      <4> QED  BY <3>1, <4>1
    <3>4. rs[b + 1].size > 0
      BY <1>1, <3>1, <3>3 DEF CanonicalArray, NoneEmpty
    <3>5. rs[b + 1].base < rend(rs[b + 1])
      <4>1. /\ rs[b + 1].size \in Nat
            /\ rend(rs[b + 1]) = rs[b + 1].base + rs[b + 1].size
        BY <3>1, ArrayFacts DEF Flat, n
      <4> QED  BY <3>2, <3>4, <4>1
    <3>6. ~(rs[b + 1].base \in x .. (x + size - 1))
      BY <1>5, <3>1, <3>2, <3>5
    <3>7. x + size <= rs[b + 1].base
      BY <3>1, <3>2, <3>6
    <3> QED  BY <3>1, <3>7 DEF GapEnd, n
  <2> QED  BY <2>1, <2>2
<1> QED  BY <1>4, <1>6, <1>7 DEF n

\* The gaps are in address order.
LEMMA GapOrder ==
  ASSUME NEW rs, ArrayOK(rs), Sorted(rs),
         NEW b \in 0 .. Len(rs), NEW c \in 0 .. Len(rs), b < c
  PROVE  /\ GapEnd(rs, b) \in Nat /\ GapEnd(rs, c) \in Nat /\ GapStart(rs, c) \in Nat
         /\ GapEnd(rs, b) <= GapStart(rs, c) /\ GapEnd(rs, b) <= GapEnd(rs, c)
<1> DEFINE n == Len(rs)
<1>1. /\ n \in Nat /\ DOMAIN rs = 1 .. n
      /\ \A k \in 1 .. n : /\ rs[k].base \in Nat /\ rend(rs[k]) \in Nat
                           /\ rend(rs[k]) <= PHYS_ADDR_MAX /\ rs[k].base <= rend(rs[k])
  <2>1. Flat(rs)
    BY ArrayFacts
  <2>2. \A k \in 1 .. n : /\ rs[k].base \in Nat /\ rs[k].size \in Nat
                          /\ rend(rs[k]) = rs[k].base + rs[k].size /\ rend(rs[k]) \in Addr
    BY <2>1 DEF Flat
  <2>3. \A a \in Addr : a \in Nat /\ a <= PHYS_ADDR_MAX
    BY SizesAssumption DEF Addr
  <2>4. n \in Nat /\ DOMAIN rs = 1 .. n
    BY <2>1 DEF Flat
  <2>5. \A k \in 1 .. n : /\ rend(rs[k]) \in Nat /\ rend(rs[k]) <= PHYS_ADDR_MAX
                          /\ rs[k].base <= rend(rs[k])
    BY <2>2, <2>3
  <2> QED  BY <2>2, <2>4, <2>5
<1> HIDE DEF n
<1>2. /\ b + 1 \in 1 .. n /\ c \in 1 .. n /\ b + 1 <= c
      /\ b \in Int /\ c \in Int /\ b < n /\ c > 0
  BY <1>1 DEF n
<1>3. GapEnd(rs, b) = rs[b + 1].base /\ GapStart(rs, c) = rend(rs[c])
  BY <1>2 DEF GapEnd, GapStart, n
<1>4. /\ rs[b + 1].base \in Nat /\ rend(rs[b + 1]) \in Nat
      /\ rs[b + 1].base <= rend(rs[b + 1])
      /\ rs[c].base \in Nat /\ rend(rs[c]) \in Nat /\ rs[c].base <= rend(rs[c])
      /\ rend(rs[c]) <= PHYS_ADDR_MAX
  BY <1>1, <1>2
<1>5. b + 1 = c \/ rend(rs[b + 1]) <= rs[c].base
  <2>1. b + 1 \in DOMAIN rs /\ c \in DOMAIN rs /\ (b + 1 = c \/ b + 1 < c)
    BY <1>1, <1>2
  <2> QED  BY <2>1 DEF Sorted
<1>6. rs[b + 1].base <= rend(rs[c])
  BY <1>4, <1>5
<1>7. /\ GapEnd(rs, c) \in Nat /\ rs[b + 1].base <= GapEnd(rs, c)
  <2>1. CASE c = n
    BY <1>4, <1>6, <2>1, SizesAssumption DEF GapEnd, n
  <2>2. CASE c # n
    <3>1. c + 1 \in 1 .. n /\ c < n /\ c < c + 1
      BY <1>1, <1>2, <2>2
    <3>2. rs[c + 1].base \in Nat /\ rend(rs[c]) <= rs[c + 1].base
      BY <1>1, <1>2, <3>1 DEF Sorted
    <3>3. GapEnd(rs, c) = rs[c + 1].base
      BY <3>1 DEF GapEnd, n
    <3> QED  BY <1>4, <1>6, <3>2, <3>3
  <2> QED  BY <2>1, <2>2
<1> QED  BY <1>3, <1>4, <1>6, <1>7

\* Rounding down passes no aligned address.
LEMMA RoundDownIsHighest ==
  ASSUME NEW y \in Nat, NEW align \in Nat, align > 0
  PROVE  /\ round_down(y, align) % align = 0
         /\ \A x \in Nat : x % align = 0 /\ x <= y => x <= round_down(y, align)
<1>1. PICK q \in Nat, r \in Nat : y = align * q + r /\ r < align /\ r = y % align
  OBVIOUS
<1>2. round_down(y, align) = align * q
  BY <1>1 DEF round_down
<1>3. (align * q) % align = 0
  OBVIOUS
<1>4. ASSUME NEW x \in Nat, x % align = 0, x <= y PROVE x <= align * q
  <2>1. PICK p \in Nat : x = align * p
    BY <1>4
  <2> QED  BY <1>1, <1>4, <2>1
<1> QED  BY <1>2, <1>3, <1>4

-----------------------------------------------------------------------------
\* A search begins: what the request asks for is what is wanted.
LEMMA AllocSets ==
  ASSUME IInv, NEW r \in AllocCalls, memblock_phys_alloc_range(r)
  PROVE  SetsInv' /\ Abstract!Next
<1> DEFINE ms == mb["memory"].regions
           rs == mb["reserved"].regions
           lo == Abstract!Low(r)
           hi == Abstract!High(r)
<1>1. /\ ~hung /\ pc = "idle" /\ pc' = "find" /\ fr' = SearchFrame(r)
      /\ UNCHANGED <<mb, found, hung>>
  BY DEF memblock_phys_alloc_range, Running
<1>2. /\ r.size \in Addr /\ r.align \in Addr \ {0}
      /\ r.start \in Addr /\ r.end \in Addr
  BY CallsAssumption DEF Requests
<1>3. /\ lo = max(r.start, PAGE_SIZE)
      /\ hi = max(lo, IF r.end = 0 THEN PHYS_ADDR_MAX ELSE r.end)
  BY DEF Abstract!Low, Abstract!High, max
<1>4. fr' = [size |-> r.size, align |-> r.align, start |-> lo, end |-> hi,
             a |-> Len(ms), b |-> Len(rs)]
  <2> HIDE DEF lo, hi
  <2> QED  BY <1>1, <1>3 DEF SearchFrame
<1>5. lo \in Addr /\ hi \in Addr
  <2>1. lo \in Addr
    BY <1>2, <1>3, SizesAssumption DEF max, Addr
  <2> HIDE DEF lo, hi
  <2> QED  BY <1>2, <1>3, <2>1, SizesAssumption DEF max, Addr
<1> HIDE DEF lo, hi
<1>6. Wanted' = [size |-> r.size, align |-> r.align, start |-> lo, end |-> hi]
  BY <1>1, <1>4 DEF Wanted
<1>7. Wanted = [size |-> 0] /\ Memory' = Memory /\ Reserved' = Reserved
  BY <1>1 DEF Wanted, Memory, Reserved, Adding, Removing
<1>8. Abstract!Request(r)
  BY <1>1, <1>6, <1>7 DEF Abstract!Request, Abstract!Begin, lo, hi
<1>9. ArrayOK(ms) /\ ArrayOK(rs) /\ CanonicalArray(ms) /\ CanonicalArray(rs)
  <2>1. "memory" \in Types /\ "reserved" \in Types
    BY DEF Types
  <2> QED  BY <1>1, <2>1 DEF IInv, TypeOK, OthersCanonical, Changing
<1>10. /\ fr'.size = r.size /\ fr'.end = hi /\ fr'.a = Len(ms) /\ fr'.b = Len(rs)
       /\ mb'["memory"].regions = ms /\ mb'["reserved"].regions = rs
  BY <1>1, <1>4
<1> HIDE DEF ms, rs
<1>11. SearchInv'
  <2> SUFFICES ASSUME r.size > 0, NEW x \in Addr, Place(x)'
               PROVE  \E a \in 1 .. Len(ms), b \in 0 .. Len(rs) :
                        InRegion(x, a)' /\ InGap(x, b)'
    BY <1>10 DEF SearchInv
  <2>1. /\ x + r.size <= hi
        /\ x .. (x + r.size - 1) \subseteq Covered(ms) \ Covered(rs)
    BY <1>10 DEF Place
  <2>2. /\ x \in Nat /\ r.size \in Nat /\ x + r.size <= PHYS_ADDR_MAX
    BY <1>2, <1>5, <2>1, SizesAssumption DEF Addr
  <2>3. /\ x .. (x + r.size - 1) \subseteq Covered(ms)
        /\ \A y \in x .. (x + r.size - 1) : y \notin Covered(rs)
    BY <2>1
  <2>4. PICK a \in 1 .. Len(ms) : ms[a].base <= x /\ x + r.size <= rend(ms[a])
    BY <1>9, <2>2, <2>3, InOneRegion
  <2>5. PICK b \in 0 .. Len(rs) : GapStart(rs, b) <= x /\ x + r.size <= GapEnd(rs, b)
    BY <1>9, <2>2, <2>3, InOneGap
  <2>6. InRegion(x, a)' /\ InGap(x, b)'
    BY <1>10, <2>4, <2>5 DEF InRegion, InGap
  <2> QED  BY <2>6
<1>12. SetsInv'
  BY <1>1, <1>11 DEF SetsInv, ScannedInv, RemovableInv
<1> QED  BY <1>8, <1>12 DEF Abstract!Next

\* While a search is on the two sets are what the arrays cover.
LEMMA SearchSets ==
  ASSUME pc = "find"
  PROVE  /\ Memory = Covered(mb["memory"].regions)
         /\ Reserved = Covered(mb["reserved"].regions)
         /\ Wanted = [size |-> fr.size, align |-> fr.align, start |-> fr.start, end |-> fr.end]
  BY DEF Memory, Reserved, Wanted, Adding, Removing

LEMMA FittingPlaces ==
  ASSUME IInv, pc = "find", ~hung
  PROVE  Abstract!Fitting(Wanted) = {x \in fr.start .. fr.end : Place(x)}
<1> DEFINE free == Covered(mb["memory"].regions) \ Covered(mb["reserved"].regions)
<1>1. /\ Memory \ Reserved = free
      /\ Wanted.size = fr.size /\ Wanted.align = fr.align
      /\ Wanted.start = fr.start /\ Wanted.end = fr.end
  BY SearchSets
<1>2. fr.size \in Nat /\ fr.start \in Nat /\ fr.end \in Nat /\ fr.end <= PHYS_ADDR_MAX
  BY FindFacts, SizesAssumption DEF Addr
<1> HIDE DEF free
<1>3. ASSUME NEW x \in fr.start .. fr.end, x + fr.size <= fr.end
      PROVE  Abstract!Bytes(x, fr.size) = x .. (x + fr.size - 1)
  BY <1>2, <1>3, SizesAssumption DEF Abstract!Bytes
<1>4. Abstract!Fitting(Wanted) =
        {x \in fr.start .. fr.end :
           /\ x % fr.align = 0
           /\ x + fr.size <= fr.end
           /\ Abstract!Bytes(x, fr.size) \subseteq free}
  BY <1>1 DEF Abstract!Fitting
<1>5. \A x \in fr.start .. fr.end :
        Place(x) <=> /\ x % fr.align = 0
                     /\ x + fr.size <= fr.end
                     /\ Abstract!Bytes(x, fr.size) \subseteq free
  <2> SUFFICES ASSUME NEW x \in fr.start .. fr.end, x + fr.size <= fr.end
               PROVE  Place(x) <=> x % fr.align = 0 /\ Abstract!Bytes(x, fr.size) \subseteq free
    BY DEF Place
  <2>1. fr.start <= x
    BY <1>2
  <2> QED  BY <1>3, <2>1 DEF Place, free
<1> QED  BY <1>4, <1>5

\* What a place that lies in region a and in gap b means for the pair of
\* cursors: it is in both, or below one of them.
LEMMA PlaceAtCursors ==
  ASSUME IInv, pc = "find", ~hung, fr.a > 0, fr.b >= 0,
         NEW x \in Addr, Place(x),
         NEW a \in 1 .. fr.a, NEW b \in 0 .. fr.b, InRegion(x, a), InGap(x, b)
  PROVE  /\ x \in Nat /\ x + fr.size \in Nat
         /\ m_start \in Nat /\ m_end \in Nat /\ r_start \in Nat /\ r_end \in Nat
         /\ IF a = fr.a THEN m_start <= x /\ x + fr.size <= m_end
                        ELSE a < fr.a /\ x + fr.size <= m_start
         /\ IF b = fr.b THEN r_start <= x /\ x + fr.size <= r_end
                        ELSE b < fr.b /\ x + fr.size <= r_start
         /\ x + fr.size <= m_end /\ x + fr.size <= r_end
<1> DEFINE ms == mb["memory"].regions
           rs == mb["reserved"].regions
           A == fr.a
           B == fr.b
           size == fr.size
<1>1. /\ size \in Nat /\ x \in Nat /\ x + size \in Nat
      /\ A \in Nat /\ A <= Len(ms) /\ A > 0
      /\ B \in -1 .. Len(rs) /\ B >= 0
      /\ Flat(ms) /\ Flat(rs) /\ Sorted(rs)
  <2>1. /\ fr.size \in Nat /\ fr.a \in Nat /\ fr.a <= Len(mb["memory"].regions)
        /\ fr.b \in -1 .. Len(mb["reserved"].regions)
        /\ Flat(mb["memory"].regions) /\ Flat(mb["reserved"].regions)
        /\ Sorted(mb["reserved"].regions)
    BY FindFacts
  <2>2. x \in Nat
    BY SizesAssumption DEF Addr
  <2> QED  BY <2>1, <2>2
<1>2. ArrayOK(ms) /\ ArrayOK(rs) /\ Sorted(ms)
  <2>1. "memory" \in Types /\ "reserved" \in Types
    BY DEF Types
  <2>2. ArrayOK(ms) /\ ArrayOK(rs) /\ CanonicalArray(ms)
    BY <2>1 DEF IInv, TypeOK, OthersCanonical, Changing
  <2> QED  BY <2>2, CanonicalOrder
<1>3. /\ m_start = ms[A].base /\ m_end = rend(ms[A])
      /\ r_start = GapStart(rs, B) /\ r_end = GapEnd(rs, B)
  BY DEF m_start, m_end, r_start, r_end
<1>4. /\ ms[a].base <= x /\ x + size <= rend(ms[a])
      /\ GapStart(rs, b) <= x /\ x + size <= GapEnd(rs, b)
  BY DEF InRegion, InGap
<1>5. a \in 1 .. A /\ b \in 0 .. B
  OBVIOUS
<1> HIDE DEF ms, rs, A, B, size
<1>6. /\ Len(ms) \in Nat /\ Len(rs) \in Nat /\ DOMAIN ms = 1 .. Len(ms)
      /\ A \in 1 .. Len(ms) /\ a \in 1 .. Len(ms) /\ a \in Nat /\ a <= A
      /\ B \in 0 .. Len(rs) /\ b \in 0 .. Len(rs) /\ b \in Nat /\ b <= B
  BY <1>1, <1>5 DEF Flat
<1>7. /\ ms[A].base \in Nat /\ rend(ms[A]) \in Nat /\ ms[A].base <= rend(ms[A])
      /\ ms[a].base \in Nat /\ rend(ms[a]) \in Nat
  <2>1. /\ ms[A].base \in Nat /\ ms[A].size \in Nat /\ rend(ms[A]) = ms[A].base + ms[A].size
    BY <1>1, <1>6 DEF Flat
  <2>2. /\ ms[a].base \in Nat /\ ms[a].size \in Nat /\ rend(ms[a]) = ms[a].base + ms[a].size
    BY <1>1, <1>6 DEF Flat
  <2> QED  BY <2>1, <2>2
<1>8. GapStart(rs, B) \in Nat /\ GapEnd(rs, B) \in Nat
  <2>1. \A k \in 1 .. Len(rs) : rs[k].base \in Nat /\ rend(rs[k]) \in Nat
    BY <1>1 DEF Flat
  <2>2. GapStart(rs, B) \in Nat
    <3>1. B > 0 => B \in 1 .. Len(rs)
      BY <1>6
    <3> QED  BY <2>1, <3>1 DEF GapStart
  <2>3. GapEnd(rs, B) \in Nat
    <3>1. B < Len(rs) => B + 1 \in 1 .. Len(rs)
      BY <1>6
    <3> QED  BY <2>1, <3>1, SizesAssumption DEF GapEnd
  <2> QED  BY <2>2, <2>3
<1>9. IF a = A THEN ms[A].base <= x /\ x + size <= rend(ms[A])
               ELSE a < A /\ x + size <= ms[A].base
  <2>1. CASE a = A
    BY <1>4, <2>1
  <2>2. CASE a # A
    <3>1. a \in DOMAIN ms /\ A \in DOMAIN ms /\ a < A
      BY <1>6, <2>2
    <3>2. rend(ms[a]) <= ms[A].base
      BY <1>2, <3>1 DEF Sorted
    <3> QED  BY <1>1, <1>4, <1>7, <2>2, <3>1, <3>2
  <2> QED  BY <2>1, <2>2
<1>10. IF b = B THEN GapStart(rs, B) <= x /\ x + size <= GapEnd(rs, B)
                ELSE b < B /\ x + size <= GapStart(rs, B) /\ x + size <= GapEnd(rs, B)
  <2>1. CASE b = B
    BY <1>4, <2>1
  <2>2. CASE b # B
    <3>1. b < B
      BY <1>6, <2>2
    <3>2. /\ GapEnd(rs, b) \in Nat /\ GapEnd(rs, b) <= GapStart(rs, B)
          /\ GapEnd(rs, b) <= GapEnd(rs, B)
      <4>1. /\ ArrayOK(rs) /\ Sorted(rs)
            /\ b \in 0 .. Len(rs) /\ B \in 0 .. Len(rs) /\ b < B
        BY <1>1, <1>2, <1>6, <3>1
      <4> QED  BY <4>1, GapOrder
    <3> QED  BY <1>1, <1>4, <1>8, <2>2, <3>1, <3>2
  <2> QED  BY <2>1, <2>2
<1>11. x + size <= rend(ms[A]) /\ x + size <= GapEnd(rs, B)
  BY <1>1, <1>7, <1>9, <1>10
<1>12. IF a = A THEN m_start <= x /\ x + size <= m_end ELSE a < A /\ x + size <= m_start
  BY <1>3, <1>9
<1>13. IF b = B THEN r_start <= x /\ x + size <= r_end ELSE b < B /\ x + size <= r_start
  BY <1>3, <1>10
<1>14. /\ m_start \in Nat /\ m_end \in Nat /\ r_start \in Nat /\ r_end \in Nat
       /\ x + size <= m_end /\ x + size <= r_end /\ x \in Nat /\ x + size \in Nat
  BY <1>1, <1>3, <1>7, <1>8, <1>11
<1> QED  BY <1>12, <1>13, <1>14 DEF A, B, size

\* The clamped range around a place that would do.
LEMMA ClampAround ==
  ASSUME NEW lo \in Nat, NEW hi \in Nat, NEW start \in Nat, NEW end \in Nat,
         NEW x \in Nat, NEW top \in Nat, start <= end,
         lo <= x, start <= x, x <= top, top <= hi, top <= end
  PROVE  /\ clamp(lo, start, end) <= x /\ top <= clamp(hi, start, end)
         /\ clamp(lo, start, end) \in Nat /\ clamp(hi, start, end) \in Nat
  BY DEF clamp, min, max

\* A place that would do in the region and in the gap at the cursors is found,
\* or a higher one.
LEMMA PlaceFits ==
  ASSUME IInv, pc = "find", ~hung, fr.a > 0, fr.b >= 0,
         NEW x \in Addr, Place(x), InRegion(x, fr.a), InGap(x, fr.b)
  PROVE  Fits /\ x <= cand
<1> DEFINE lo == max(m_start, r_start)
           hi == min(m_end, r_end)
           top == x + fr.size
<1>1. /\ fr.start \in Nat /\ fr.end \in Nat /\ fr.start <= fr.end /\ fr.size \in Nat
      /\ fr.a \in 1 .. fr.a /\ fr.b \in 0 .. fr.b /\ fr.align \in Nat /\ fr.align > 0
  BY FindFacts
<1>2. /\ x \in Nat /\ top \in Nat
      /\ m_start \in Nat /\ m_end \in Nat /\ r_start \in Nat /\ r_end \in Nat
      /\ m_start <= x /\ top <= m_end /\ r_start <= x /\ top <= r_end
  BY <1>1, PlaceAtCursors
<1>3. fr.start <= x /\ top <= fr.end /\ x % fr.align = 0
  BY DEF Place
<1>4. this_start = clamp(lo, fr.start, fr.end) /\ this_end = clamp(hi, fr.start, fr.end)
  BY DEF this_start, this_end
<1>5. lo \in Nat /\ hi \in Nat /\ lo <= x /\ top <= hi /\ x <= top
  <2> HIDE DEF m_start, m_end, r_start, r_end
  <2> QED  BY <1>1, <1>2 DEF max, min
<1> HIDE DEF lo, hi, top
<1>6. /\ this_start <= x /\ top <= this_end /\ this_start \in Nat /\ this_end \in Nat
  <2> DEFINE s == fr.start
             e == fr.end
  <2>1. /\ lo \in Nat /\ hi \in Nat /\ s \in Nat /\ e \in Nat /\ x \in Nat /\ top \in Nat
        /\ s <= e /\ lo <= x /\ s <= x /\ x <= top /\ top <= hi /\ top <= e
    BY <1>1, <1>2, <1>3, <1>5
  <2>2. this_start = clamp(lo, s, e) /\ this_end = clamp(hi, s, e)
    BY <1>4
  <2> HIDE DEF s, e
  <2>3. /\ clamp(lo, s, e) <= x /\ top <= clamp(hi, s, e)
        /\ clamp(lo, s, e) \in Nat /\ clamp(hi, s, e) \in Nat
    BY <2>1, ClampAround
  <2> QED  BY <2>2, <2>3
<1> HIDE DEF this_start, this_end
<1>7. this_end - fr.size \in Nat /\ x <= this_end - fr.size /\ this_end >= fr.size
  BY <1>1, <1>2, <1>6 DEF top
<1> DEFINE y == this_end - fr.size
<1>8. cand = round_down(y, fr.align)
  BY DEF cand
<1> HIDE DEF y
<1>9. y \in Nat /\ x <= y
  BY <1>7 DEF y
<1>10. x <= round_down(y, fr.align) /\ round_down(y, fr.align) \in Int
  <2> DEFINE align == fr.align
  <2>1. y \in Nat /\ y \in Int /\ align \in Nat /\ align > 0 /\ x \in Nat /\ x % align = 0 /\ x <= y
    BY <1>1, <1>2, <1>3, <1>9
  <2> HIDE DEF align
  <2>2. x <= round_down(y, align)
    BY <2>1, RoundDownIsHighest
  <2>3. round_down(y, align) \in Int
    BY <2>1, RoundDown
  <2> QED  BY <2>2, <2>3 DEF align
<1>11. x <= cand /\ cand \in Int
  BY <1>8, <1>10
<1> HIDE DEF cand
<1> QED  BY <1>2, <1>6, <1>7, <1>11 DEF Fits

\* A step of the search that moves one cursor back passes no place that would do.
LEMMA CursorSets ==
  ASSUME IInv, SetsInv, pc = "find", ~hung, UNCHANGED <<mb, pc, found, hung>>,
         fr'.size = fr.size, fr'.align = fr.align, fr'.start = fr.start, fr'.end = fr.end,
         NEW A \in Nat, NEW B \in Int, fr'.a = A, fr'.b = B,
         \A x \in Addr : \A a \in 1 .. fr.a, b \in 0 .. fr.b :
           Place(x) /\ InRegion(x, a) /\ InGap(x, b) /\ fr.size > 0 => a <= A /\ b <= B
  PROVE  SetsInv' /\ UNCHANGED Abstract!vars
<1>1. fr \in SearchFrames /\ fr.a \in Nat /\ fr.b \in Int
  BY FindFacts
<1>2. /\ fr'.size = fr.size /\ fr'.align = fr.align /\ fr'.start = fr.start
      /\ fr'.end = fr.end /\ fr'.a = A /\ fr'.b = B
  OBVIOUS
<1>3. Memory' = Memory /\ Reserved' = Reserved /\ Wanted' = Wanted
  BY <1>2 DEF Memory, Reserved, Wanted, Adding, Removing
<1>4. /\ \A x : Place(x)' <=> Place(x)
      /\ \A x, a : InRegion(x, a)' <=> InRegion(x, a)
      /\ \A x, b : InGap(x, b)' <=> InGap(x, b)
  BY <1>2 DEF Place, InRegion, InGap
<1>5. SearchInv'
  <2> SUFFICES ASSUME fr.size > 0, NEW x \in Addr, Place(x)
               PROVE  \E a \in 1 .. A, b \in 0 .. B : InRegion(x, a) /\ InGap(x, b)
    BY <1>2, <1>4 DEF SearchInv
  <2>1. PICK a \in 1 .. fr.a, b \in 0 .. fr.b : InRegion(x, a) /\ InGap(x, b)
    BY DEF SetsInv, SearchInv
  <2>2. a <= A /\ b <= B
    BY <2>1
  <2>3. a \in 1 .. A /\ b \in 0 .. B
    BY <1>1, <2>2
  <2> QED  BY <2>1, <2>3
<1>6. SetsInv'
  BY <1>5 DEF SetsInv, ScannedInv, RemovableInv
<1> QED  BY <1>3, <1>6, QuietStep

LEMMA FindPrevRegionSets ==
  ASSUME IInv, SetsInv, FindPrevRegion
  PROVE  SetsInv' /\ UNCHANGED Abstract!vars
<1>1. /\ pc = "find" /\ ~hung /\ fr.a > 0 /\ UNCHANGED <<mb, pc, found, hung>>
      /\ fr.b >= 0 => r_end <= m_start
      /\ fr' = [fr EXCEPT !.a = @ - 1]
  BY DEF FindPrevRegion, Finding, Running
<1>2. fr \in SearchFrames /\ fr.a \in Nat /\ fr.b \in Int
  BY <1>1, FindFacts
<1> DEFINE A == fr.a - 1
           B == fr.b
<1>3. /\ A \in Nat /\ B \in Int /\ fr'.a = A /\ fr'.b = B
      /\ fr'.size = fr.size /\ fr'.align = fr.align
      /\ fr'.start = fr.start /\ fr'.end = fr.end
  BY <1>1, <1>2 DEF SearchFrames
<1>4. ASSUME NEW x \in Addr, NEW a \in 1 .. fr.a, NEW b \in 0 .. fr.b,
             Place(x), InRegion(x, a), InGap(x, b), fr.size > 0
      PROVE  a <= A /\ b <= B
  <2>1. fr.b >= 0 /\ b <= B
    BY <1>2
  <2>2. /\ x \in Nat /\ x + fr.size \in Nat
        /\ m_start \in Nat /\ r_end \in Nat /\ x + fr.size <= r_end
        /\ IF a = fr.a THEN m_start <= x ELSE a < fr.a
    BY <1>1, <1>4, <2>1, PlaceAtCursors
  <2>3. fr.size \in Nat
    BY <1>1, FindFacts
  <2> HIDE DEF m_start, r_end
  <2>4. a # fr.a
    BY <1>1, <1>4, <2>1, <2>2, <2>3
  <2> QED  BY <1>2, <2>1, <2>4
<1> HIDE DEF A, B
<1> QED  BY <1>1, <1>3, <1>4, CursorSets

LEMMA FindPrevGapSets ==
  ASSUME IInv, SetsInv, FindPrevGap
  PROVE  SetsInv' /\ UNCHANGED Abstract!vars
<1>1. /\ pc = "find" /\ ~hung /\ fr.a > 0 /\ UNCHANGED <<mb, pc, found, hung>>
      /\ fr.b >= 0 /\ m_end <= r_start
      /\ fr' = [fr EXCEPT !.b = @ - 1]
  BY DEF FindPrevGap, Finding, Running
<1>2. fr \in SearchFrames /\ fr.a \in Nat /\ fr.b \in Int
  BY <1>1, FindFacts
<1> DEFINE A == fr.a
           B == fr.b - 1
<1>3. /\ A \in Nat /\ B \in Int /\ fr'.a = A /\ fr'.b = B
      /\ fr'.size = fr.size /\ fr'.align = fr.align
      /\ fr'.start = fr.start /\ fr'.end = fr.end
  BY <1>1, <1>2 DEF SearchFrames
<1>4. ASSUME NEW x \in Addr, NEW a \in 1 .. fr.a, NEW b \in 0 .. fr.b,
             Place(x), InRegion(x, a), InGap(x, b), fr.size > 0
      PROVE  a <= A /\ b <= B
  <2>2. /\ x \in Nat /\ x + fr.size \in Nat
        /\ m_end \in Nat /\ r_start \in Nat /\ x + fr.size <= m_end
        /\ IF b = fr.b THEN r_start <= x ELSE b < fr.b
    BY <1>1, <1>4, PlaceAtCursors
  <2>3. fr.size \in Nat
    BY <1>1, FindFacts
  <2> HIDE DEF m_end, r_start
  <2>4. b # fr.b
    BY <1>1, <1>4, <2>2, <2>3
  <2> QED  BY <1>2, <2>4
<1> HIDE DEF A, B
<1> QED  BY <1>1, <1>3, <1>4, CursorSets

\* What the two cursors have in common is too small: the one that starts higher
\* is moved.
LEMMA FindTrySets ==
  ASSUME IInv, SetsInv, FindTry
  PROVE  SetsInv' /\ UNCHANGED Abstract!vars
<1>1. /\ pc = "find" /\ ~hung /\ fr.a > 0 /\ UNCHANGED <<mb, pc, found, hung>>
      /\ fr.b >= 0 /\ ~Fits
      /\ fr' = IF m_start >= r_start THEN [fr EXCEPT !.a = @ - 1]
                                     ELSE [fr EXCEPT !.b = @ - 1]
  BY DEF FindTry, FreeRange, Finding, Running
<1>2. fr \in SearchFrames /\ fr.a \in Nat /\ fr.b \in Int /\ fr.size \in Nat
  BY <1>1, FindFacts
<1> DEFINE A == IF m_start >= r_start THEN fr.a - 1 ELSE fr.a
           B == IF m_start >= r_start THEN fr.b ELSE fr.b - 1
<1>3. /\ A \in Nat /\ B \in Int /\ fr'.a = A /\ fr'.b = B
      /\ fr'.size = fr.size /\ fr'.align = fr.align
      /\ fr'.start = fr.start /\ fr'.end = fr.end
  <2> HIDE DEF m_start, r_start
  <2> QED  BY <1>1, <1>2 DEF SearchFrames
<1>4. ASSUME NEW x \in Addr, NEW a \in 1 .. fr.a, NEW b \in 0 .. fr.b,
             Place(x), InRegion(x, a), InGap(x, b), fr.size > 0
      PROVE  a <= A /\ b <= B
  <2>1. /\ x \in Nat /\ x + fr.size \in Nat /\ m_start \in Nat /\ r_start \in Nat
        /\ IF a = fr.a THEN m_start <= x ELSE a < fr.a /\ x + fr.size <= m_start
        /\ IF b = fr.b THEN r_start <= x ELSE b < fr.b /\ x + fr.size <= r_start
    BY <1>1, <1>4, PlaceAtCursors
  <2>2. ~(a = fr.a /\ b = fr.b)
    BY <1>1, <1>4, PlaceFits
  <2> HIDE DEF m_start, r_start
  <2> QED  BY <1>2, <1>4, <2>1, <2>2
<1> HIDE DEF A, B
<1> QED  BY <1>1, <1>3, <1>4, CursorSets

-----------------------------------------------------------------------------
\* What the search finds fits, and nothing higher does.
LEMMA HitFits ==
  ASSUME IInv, SetsInv, FindHit, fr.size > 0
  PROVE  /\ cand \in fr.start .. fr.end /\ Place(cand)
         /\ \A x \in fr.start .. fr.end : Place(x) => x <= cand
<1> DEFINE c == cand
           lo == max(m_start, r_start)
           s == fr.start
           e == fr.end
           hi == min(m_end, r_end)
<1>1. /\ pc = "find" /\ ~hung /\ fr.a > 0 /\ fr.b >= 0
  BY DEF FindHit, FreeRange, Finding, Running
<1>2. /\ fr.size \in Nat /\ s \in Nat /\ e \in Nat /\ s <= e /\ e \in Addr
      /\ fr.align \in Nat /\ fr.align > 0
  BY <1>1, FindFacts
<1>3. /\ m_start \in Nat /\ m_end \in Nat /\ r_start \in Nat /\ r_end \in Nat
      /\ this_start \in Nat /\ this_end \in Nat
      /\ this_end <= e
      /\ c \in Int /\ this_start <= c /\ c + fr.size <= this_end
  BY HitFacts
<1>4. this_start = clamp(lo, s, e) /\ this_end = clamp(hi, s, e)
  BY DEF this_start, this_end
<1>5. lo \in Int /\ hi \in Int /\ m_start <= lo /\ r_start <= lo
  <2> HIDE DEF m_start, r_start, m_end, r_end
  <2> QED  BY <1>3 DEF max, min
<1>6. c % fr.align = 0
  <2> DEFINE y == this_end - fr.size
             align == fr.align
  <2>1. y \in Nat /\ align \in Nat /\ align > 0
    <3> HIDE DEF c, this_start, this_end
    <3> QED  BY <1>2, <1>3
  <2>2. c = round_down(y, align)
    BY DEF cand
  <2> HIDE DEF y, align
  <2>3. round_down(y, align) % align = 0
    BY <2>1, RoundDownIsHighest
  <2> HIDE DEF c
  <2> QED  BY <2>2, <2>3 DEF align
<1>7. \A x \in Int : c <= x /\ x < c + fr.size =>
        /\ s <= x /\ x < e
        /\ x \in Covered(mb["memory"].regions)
        /\ x \notin Covered(mb["reserved"].regions)
  BY HitByte
<1> HIDE DEF c, lo, hi, s, e, this_start, this_end, m_start, m_end, r_start, r_end
<1>8. lo <= c /\ s <= c /\ c \in Nat
  <2>1. clamp(lo, s, e) <= c /\ c < clamp(hi, s, e)
    BY <1>2, <1>3, <1>4
  <2>2. lo <= c /\ s <= c
    BY <1>2, <1>3, <1>5, <2>1, ClampFacts
  <2> QED  BY <1>2, <1>3, <2>2
<1>9. c + fr.size <= e
  BY <1>2, <1>3
<1>10. /\ c \in fr.start .. fr.end /\ Place(c)
  <2>1. c .. (c + fr.size - 1) \subseteq
          Covered(mb["memory"].regions) \ Covered(mb["reserved"].regions)
    BY <1>2, <1>7, <1>8
  <2>2. c \in s .. e
    BY <1>2, <1>8, <1>9
  <2> QED  BY <1>6, <1>8, <1>9, <2>1, <2>2 DEF Place, s, e
<1>11. ASSUME NEW x \in s .. e, Place(x) PROVE x <= c
  <2>1. x \in Addr /\ x \in Nat
    BY <1>2, SizesAssumption DEF Addr
  <2>2. PICK a \in 1 .. fr.a, b \in 0 .. fr.b : InRegion(x, a) /\ InGap(x, b)
    BY <1>1, <1>11, <2>1 DEF SetsInv, SearchInv
  <2>3. /\ a = fr.a \/ x + fr.size <= m_start
        /\ b = fr.b \/ x + fr.size <= r_start
    BY <1>1, <1>11, <2>1, <2>2, PlaceAtCursors
  <2>4. CASE a = fr.a /\ b = fr.b
    BY <1>1, <1>11, <2>1, <2>2, <2>4, PlaceFits DEF c
  <2>5. CASE x + fr.size <= m_start \/ x + fr.size <= r_start
    BY <1>2, <1>3, <1>5, <1>8, <2>1, <2>5
  <2> QED  BY <2>3, <2>4, <2>5
<1> QED  BY <1>10, <1>11 DEF c, s, e

\* The place that is found is granted.
LEMMA FindHitSets ==
  ASSUME IInv, SetsInv, FindHit
  PROVE  SetsInv' /\ Abstract!Next
<1> DEFINE c == cand
           R == Covered(mb["reserved"].regions)
<1>1. /\ pc = "find" /\ ~hung /\ pc' = "reserve" /\ found' = c
      /\ UNCHANGED <<mb, fr, hung>>
  BY DEF FindHit, FreeRange, Finding, Running
<1>2. /\ fr.size \in Nat /\ fr.end \in Nat /\ fr.start \in Nat /\ fr.end <= PHYS_ADDR_MAX
      /\ fr.start <= fr.end
  BY <1>1, FindFacts, SizesAssumption DEF Addr
<1>3. /\ Wanted = [size |-> fr.size, align |-> fr.align, start |-> fr.start, end |-> fr.end]
      /\ Wanted # [size |-> 0] /\ Wanted' = [size |-> 0]
  <2>1. Wanted = [size |-> fr.size, align |-> fr.align, start |-> fr.start, end |-> fr.end]
    BY <1>1, SearchSets
  <2>2. "end" \in DOMAIN Wanted /\ "end" \notin DOMAIN [size |-> 0]
    BY <2>1
  <2> QED  BY <1>1, <2>1, <2>2 DEF Wanted
<1>4. /\ Memory' = Memory /\ Reserved = R
      /\ Reserved' = R \cup c .. (c + fr.size - 1)
  BY <1>1 DEF Memory, Reserved, Adding, Removing
<1>5. SetsInv'
  BY <1>1 DEF SetsInv, ScannedInv, RemovableInv, SearchInv
<1>6. /\ this_start \in Nat /\ this_end \in Nat /\ this_end <= fr.end
      /\ PAGE_SIZE <= this_start
      /\ c \in Int /\ this_start <= c /\ c + fr.size <= this_end
  BY HitFacts
<1>7. CASE fr.size > 0
  <2> HIDE DEF R
  <2>1. /\ c \in fr.start .. fr.end /\ Place(c)
        /\ \A x \in fr.start .. fr.end : Place(x) => x <= c
    BY <1>7, HitFits
  <2>2. Abstract!Fitting(Wanted) = {x \in fr.start .. fr.end : Place(x)}
    BY <1>1, FittingPlaces
  <2> HIDE DEF c, this_start, this_end
  <2>3. /\ found' \in Abstract!Fitting(Wanted) /\ Abstract!Fitting(Wanted) # {}
        /\ \A x \in Abstract!Fitting(Wanted) : x <= found'
    BY <1>1, <2>1, <2>2
  <2>4. found' # 0
    BY <1>1, <1>6, SizesAssumption
  <2>5. Abstract!Bytes(found', Wanted.size) = c .. (c + fr.size - 1)
    <3>1. c \in Nat /\ c + fr.size <= PHYS_ADDR_MAX
      BY <1>2, <1>6, SizesAssumption
    <3>2. Wanted.size = fr.size
      BY <1>3
    <3>3. Abstract!Bytes(c, fr.size) = c .. (c + fr.size - 1)
      BY <1>2, <3>1, SizesAssumption DEF Abstract!Bytes
    <3> QED  BY <1>1, <3>2, <3>3
  <2>6. Reserved' = IF found' = 0 THEN Reserved ELSE Reserved \cup Abstract!Bytes(found', Wanted.size)
    BY <1>4, <2>4, <2>5
  <2>7. Wanted.size > 0
    BY <1>3, <1>7
  <2>8. Abstract!Grant
    BY <1>1, <1>3, <1>4, <2>3, <2>6, <2>7 DEF Abstract!Grant, Abstract!NoRequest
  <2> QED  BY <1>5, <2>8 DEF Abstract!Next
<1>8. CASE fr.size = 0
  <2>1. c \in fr.start .. fr.end
    <3> DEFINE lo == max(m_start, r_start)
               s == fr.start
               e == fr.end
    <3>1. lo \in Int
      <4>1. m_start \in Nat /\ r_start \in Nat
        BY HitFacts
      <4> HIDE DEF m_start, r_start
      <4> QED  BY <4>1 DEF max
    <3>2. this_start = clamp(lo, s, e)
      BY DEF this_start
    <3> HIDE DEF lo, s, e
    <3>3. s <= clamp(lo, s, e)
      <4>1. s \in Nat /\ e \in Nat /\ s <= e
        BY <1>2 DEF s, e
      <4> QED  BY <3>1, <4>1 DEF clamp, min, max
    <3> HIDE DEF c, this_start, this_end
    <3>4. s \in Nat /\ s <= this_start
      BY <1>2, <3>2, <3>3 DEF s
    <3> QED  BY <1>2, <1>6, <1>8, <3>4 DEF s
  <2> HIDE DEF c, this_start, this_end
  <2>2. Reserved' = Reserved
    BY <1>4, <1>6, <1>8
  <2>3. Abstract!GrantNothing
    BY <1>1, <1>3, <1>4, <1>8, <2>1, <2>2 DEF Abstract!GrantNothing, Abstract!NoRequest
  <2> QED  BY <1>5, <2>3 DEF Abstract!Next
<1> QED  BY <1>2, <1>7, <1>8

\* The search ends without a result only when no place would do.
LEMMA FindFailSets ==
  ASSUME IInv, SetsInv, FindFail
  PROVE  SetsInv' /\ Abstract!Next
<1>1. /\ pc = "find" /\ ~hung /\ fr.a = 0 /\ pc' = "idle" /\ found' = 0
      /\ UNCHANGED <<mb, hung>>
  BY DEF FindFail, Running, Return
<1>2. fr.size \in Nat /\ fr.end \in Addr /\ fr.start \in Nat /\ fr.end \in Nat
  BY <1>1, FindFacts
<1>3. /\ Wanted = [size |-> fr.size, align |-> fr.align, start |-> fr.start, end |-> fr.end]
      /\ Wanted # [size |-> 0] /\ Wanted' = [size |-> 0]
  <2>1. Wanted = [size |-> fr.size, align |-> fr.align, start |-> fr.start, end |-> fr.end]
    BY <1>1, SearchSets
  <2>2. "end" \in DOMAIN Wanted /\ "end" \notin DOMAIN [size |-> 0]
    BY <2>1
  <2> QED  BY <1>1, <2>1, <2>2 DEF Wanted
<1>4. Memory' = Memory /\ Reserved' = Reserved
  BY <1>1 DEF Memory, Reserved, Adding, Removing
<1>5. SetsInv'
  BY <1>1 DEF SetsInv, ScannedInv, RemovableInv, SearchInv
<1>6. CASE fr.size > 0
  <2>1. Abstract!Fitting(Wanted) = {}
    <3> SUFFICES ASSUME NEW x \in fr.start .. fr.end, Place(x) PROVE FALSE
      BY <1>1, FittingPlaces
    <3>1. x \in Addr
      BY <1>2, SizesAssumption DEF Addr
    <3>2. PICK a \in 1 .. fr.a : TRUE
      BY <1>1, <1>6, <3>1 DEF SetsInv, SearchInv
    <3> QED  BY <1>1, <3>2
  <2>2. Wanted.size > 0
    BY <1>3, <1>6
  <2>3. Abstract!Grant
    BY <1>1, <1>3, <1>4, <2>1, <2>2 DEF Abstract!Grant, Abstract!NoRequest
  <2> QED  BY <1>5, <2>3 DEF Abstract!Next
<1>7. CASE fr.size = 0
  <2>1. Abstract!GrantNothing
    BY <1>1, <1>3, <1>4, <1>7 DEF Abstract!GrantNothing, Abstract!NoRequest
  <2> QED  BY <1>5, <2>1 DEF Abstract!Next
<1> QED  BY <1>2, <1>6, <1>7

-----------------------------------------------------------------------------
LEMMA SetsOfStuttering ==
  ASSUME SetsInv, UNCHANGED vars
  PROVE  SetsInv' /\ UNCHANGED Abstract!vars
<1>1. UNCHANGED <<mb, pc, fr, found, hung>>
  BY DEF vars
<1>2. SetsInv'
  BY <1>1 DEF SetsInv, ScannedInv, RemovableInv, SearchInv, Done, ScanRegions, Inside,
              Place, InRegion, InGap
<1>3. Memory' = Memory /\ Reserved' = Reserved /\ Wanted' = Wanted
  BY <1>1 DEF Memory, Reserved, Wanted, Adding, Removing
<1> QED  BY <1>1, <1>2, <1>3 DEF Abstract!vars

LEMMA StepSets ==
  ASSUME IInv, SetsInv, Next
  PROVE  SetsInv' /\ (Abstract!Next \/ UNCHANGED Abstract!vars)
<1>1. CASE Call
  BY <1>1, AddSets, ReserveSets, FreeSets, AllocSets DEF Call
<1>2. CASE AddStep
  BY <1>2, ScanSkipSets, ScanOverlapSets, CountFrontSets, CountDoneSets, InsertFrontSets,
     InsertDoneSets, InsertBugSets, MergeStepSets, MergeNextSets, MergeDoneSets DEF AddStep
<1>3. CASE FreeStep
  BY <1>3, IsolateSkipSets, IsolateFrontSets, IsolateBackSets, IsolateWholeSets,
     IsolateDoneSets, RemoveLastSets, RemoveDoneSets DEF FreeStep
<1>4. CASE AllocStep
  BY <1>4, FindPrevRegionSets, FindPrevGapSets, FindTrySets, FindHitSets, FindFailSets,
     AllocReserveSets DEF AllocStep
<1>5. CASE Halted
  BY <1>5, SetsOfStuttering DEF Halted
<1> QED  BY <1>1, <1>2, <1>3, <1>4, <1>5 DEF Next, Step

LEMMA InitSets ==
  ASSUME Init
  PROVE  SetsInv /\ Abstract!Init
<1>1. /\ pc = "idle" /\ found = 0 /\ hung = FALSE
      /\ mb["memory"].regions = Empty /\ mb["reserved"].regions = Empty
  BY DEF Init, Types
<1>2. SetsInv
  BY <1>1 DEF SetsInv, ScannedInv, RemovableInv, SearchInv
<1>3. Memory = {} /\ Reserved = {} /\ Wanted = [size |-> 0]
  BY <1>1, EmptyCovers DEF Memory, Reserved, Wanted, Adding, Removing
<1> QED  BY <1>1, <1>2, <1>3 DEF Abstract!Init, Abstract!NoRequest

\* What the loops have done to the bytes of their range, whatever is called.
THEOREM BytesDoneSoFar == Spec => []SetsInv
<1>1. IInv /\ SetsInv /\ [Next]_vars => SetsInv'
  BY StepSets, SetsOfStuttering
<1> QED  BY Invariance, InitSets, <1>1, PTL DEF Spec

\* The arrays implement the two sets of addresses: an addition, a reservation
\* and a release change exactly the bytes that their arguments say, at once and
\* with no further effect while the loops run; an allocation gets the highest
\* aligned place within its bounds that is RAM and not reserved, and fails only
\* when there is none.
THEOREM ArraysImplementSets == Spec => ImplementsSets
<1>1. IInv /\ SetsInv /\ [Next]_vars => [Abstract!Next]_(Abstract!vars)
  BY StepSets, SetsOfStuttering
<1>2. Init => Abstract!Init
  BY InitSets
<1> QED
  BY Invariance, BytesDoneSoFar, <1>1, <1>2, PTL DEF Spec, ImplementsSets, Abstract!Spec

-----------------------------------------------------------------------------
(***************************************************************************)
(* How many regions a call needs.  The first pass of memblock_add_range    *)
(* counts the gaps in the range, the second one fills them.                *)
(***************************************************************************)
LEMMA GapsFinite ==
  ASSUME fr.obase \in Int, fr.end \in Int
  PROVE  /\ IsFiniteSet(Gaps) /\ Cardinality(Gaps) \in Nat
         /\ \A y : IsFiniteSet(GapsBelow(y)) /\ Cardinality(GapsBelow(y)) \in Nat
<1>1. IsFiniteSet(fr.obase .. (fr.end - 1))
  BY FS_Interval
<1>2. Gaps \subseteq fr.obase .. (fr.end - 1)
  BY DEF Gaps
<1>3. IsFiniteSet(Gaps)
  BY <1>1, <1>2, FS_Subset
<1>4. \A y : GapsBelow(y) \subseteq Gaps
  BY DEF GapsBelow
<1> HIDE DEF Gaps
<1>5. \A y : IsFiniteSet(GapsBelow(y))
  BY <1>3, <1>4, FS_Subset
<1> QED  BY <1>3, <1>5, FS_CardinalityType

\* The bytes of a region, and the bytes between two.
LEMMA RegionCovers ==
  ASSUME NEW rs, ArrayOK(rs), NEW k \in 1 .. Len(rs), NEW x \in Int,
         rs[k].base <= x, x < rend(rs[k])
  PROVE  x \in Covered(rs)
<1>1. rs[k].base \in Nat /\ rend(rs[k]) \in Addr
  BY ArrayFacts DEF Flat
<1>2. x \in Addr
  BY <1>1, SizesAssumption DEF Addr
<1> QED  BY <1>2, CoveredByte

LEMMA NothingBetween ==
  ASSUME NEW rs, ArrayOK(rs), Sorted(rs), NoneEmpty(rs),
         NEW i \in 1 .. Len(rs) + 1, NEW lo \in Int, NEW hi \in Int,
         \A k \in 1 .. i - 1 : rend(rs[k]) <= lo,
         i <= Len(rs) => hi <= rs[i].base,
         NEW x \in Int, lo <= x, x < hi
  PROVE  x \notin Covered(rs)
<1> SUFFICES ASSUME NEW k \in 1 .. Len(rs), rs[k].base <= x, x < rend(rs[k])
             PROVE  FALSE
  BY CoveredByte
<1>1. /\ Len(rs) \in Nat /\ DOMAIN rs = 1 .. Len(rs)
      /\ \A l \in 1 .. Len(rs) : /\ rs[l].base \in Nat /\ rend(rs[l]) \in Nat
                                 /\ rs[l].base < rend(rs[l])
  <2>1. /\ Len(rs) \in Nat /\ DOMAIN rs = 1 .. Len(rs)
        /\ \A l \in 1 .. Len(rs) : /\ rs[l].base \in Nat /\ rs[l].size \in Nat
                                   /\ rend(rs[l]) = rs[l].base + rs[l].size
    BY ArrayFacts DEF Flat
  <2>2. \A l \in 1 .. Len(rs) : rs[l].size > 0
    BY <2>1 DEF NoneEmpty
  <2>3. \A l \in 1 .. Len(rs) : rend(rs[l]) \in Nat /\ rs[l].base < rend(rs[l])
    BY <2>1, <2>2
  <2> QED  BY <2>1, <2>3
<1>2. CASE k < i
  BY <1>1, <1>2
<1>3. CASE k >= i
  <2>1. i \in 1 .. Len(rs) /\ hi <= rs[i].base
    BY <1>1, <1>3
  <2>2. i < k => rend(rs[i]) <= rs[k].base
    BY <1>1, <2>1 DEF Sorted
  <2>3. rs[i].base <= rs[k].base
    BY <1>1, <1>3, <2>1, <2>2
  <2> QED  BY <1>1, <2>1, <2>3
<1> QED  BY <1>1, <1>2, <1>3

\* A turn of the first pass, or one of the second that inserts nothing.
LEMMA PassedRoom ==
  ASSUME IInv, CountInv, Scanning, InLoop, UNCHANGED <<mb, pc>>,
         fr'.type = fr.type, fr'.obase = fr.obase, fr'.end = fr.end,
         fr'.cnt0 = fr.cnt0, fr'.planned = fr.planned,
         \/ fr'.base = fr.base /\ fr'.nr_new = fr.nr_new
         \/ /\ ~HasFront /\ rend(ScanRegion) > fr.base /\ fr'.nr_new = fr.nr_new
            /\ fr'.base = min(rend(ScanRegion), fr.end)
         \/ /\ pc = "count" /\ HasFront /\ fr'.nr_new = fr.nr_new + 1
            /\ fr'.base = min(rend(ScanRegion), fr.end)
  PROVE  CountInv'
<1> DEFINE rs == ScanRegions
           i == fr.idx
<1>1. /\ ~hung /\ pc \in {"count", "insert"} /\ fr \in AddFrames
      /\ ArrayOK(rs) /\ NoneEmpty(rs) /\ Sorted(rs) /\ Len(rs) \in Nat
      /\ fr.base \in Nat /\ fr.end \in Nat /\ fr.obase \in Nat
      /\ fr.obase <= fr.base /\ fr.base <= fr.end
      /\ i \in 1 .. Len(rs) /\ ScanRegion = rs[i]
      /\ rs[i].base < fr.end
      /\ rs[i].base \in Nat /\ rend(rs[i]) \in Nat /\ rs[i].base < rend(rs[i])
      /\ \A k \in 1 .. i - 1 : rend(rs[k]) <= fr.base \/ fr.base = fr.end
  BY ScanFacts DEF Scanning, InLoop, ScanRegion
<1>2. ScanRegions' = rs /\ Gaps' = Gaps /\ \A y : GapsBelow(y)' = GapsBelow(y)
  BY DEF ScanRegions, Gaps, GapsBelow
<1>3. \A x \in Int : rs[i].base <= x /\ x < rend(rs[i]) => x \in Covered(rs)
  BY <1>1, RegionCovers
<1>4. CASE fr'.base = fr.base /\ fr'.nr_new = fr.nr_new
  BY <1>2, <1>4 DEF CountInv
<1>5. ASSUME fr'.base = min(rend(ScanRegion), fr.end)
      PROVE  /\ fr'.base \in Nat /\ fr'.base <= rend(rs[i]) /\ fr'.base <= fr.end
             /\ rs[i].base < fr'.base /\ fr'.base - 1 \in Covered(rs)
  <2>1. /\ fr'.base \in Nat /\ fr'.base <= rend(rs[i]) /\ fr'.base <= fr.end
        /\ rs[i].base < fr'.base
    BY <1>1, <1>5 DEF min
  <2>2. /\ fr'.base - 1 \in Int /\ rs[i].base <= fr'.base - 1
        /\ fr'.base - 1 < rend(rs[i])
    BY <1>1, <2>1
  <2> QED  BY <1>3, <2>1, <2>2
<1> HIDE DEF rs, i
<1>6. CASE /\ ~HasFront /\ rend(ScanRegion) > fr.base /\ fr'.nr_new = fr.nr_new
           /\ fr'.base = min(rend(ScanRegion), fr.end)
  <2>1. rs[i].base <= fr.base /\ fr.base <= fr'.base
    BY <1>1, <1>5, <1>6 DEF HasFront, min
  <2>2. GapsBelow(fr'.base) = GapsBelow(fr.base)
    <3>1. ASSUME NEW x \in Gaps, x < fr'.base PROVE x < fr.base
      <4>1. x \in Int /\ x \notin Covered(rs)
        BY <1>1 DEF Gaps, rs
      <4> QED  BY <1>1, <1>3, <1>5, <1>6, <2>1, <3>1, <4>1
    <3>2. ASSUME NEW x \in Gaps, x < fr.base PROVE x < fr'.base
      <4>1. x \in Int
        BY <1>1 DEF Gaps
      <4> QED  BY <1>1, <1>5, <1>6, <2>1, <3>2, <4>1
    <3> QED  BY <3>1, <3>2 DEF GapsBelow
  <2>3. GapsBelow(fr.base)' = GapsBelow(fr'.base)
    BY <1>2 DEF GapsBelow
  <2> QED  BY <1>2, <1>5, <1>6, <2>2, <2>3 DEF CountInv, rs
<1>7. CASE /\ pc = "count" /\ HasFront /\ fr'.nr_new = fr.nr_new + 1
           /\ fr'.base = min(rend(ScanRegion), fr.end)
  <2>1. fr.base < rs[i].base /\ fr.base < fr.end /\ fr.base < fr'.base
    BY <1>1, <1>5, <1>7 DEF HasFront
  <2>2. \A k \in 1 .. i - 1 : rend(rs[k]) <= fr.base
    BY <1>1, <2>1
  <2>3. ASSUME NEW x \in Int, fr.base <= x, x < rs[i].base PROVE x \notin Covered(rs)
    <3> DEFINE lo == fr.base
               hi == rs[i].base
    <3>1. /\ ArrayOK(rs) /\ Sorted(rs) /\ NoneEmpty(rs) /\ i \in 1 .. Len(rs) + 1
          /\ lo \in Int /\ hi \in Int /\ lo <= x /\ x < hi /\ hi <= rs[i].base
          /\ \A k \in 1 .. i - 1 : rend(rs[k]) <= lo
      BY <1>1, <2>2, <2>3
    <3> HIDE DEF lo, hi
    <3> QED  BY <3>1, NothingBetween
  <2>4. fr.base \in Gaps /\ fr.base \notin GapsBelow(fr.base)
    <3>1. fr.base = fr.obase \/ fr.base - 1 \in Covered(rs)
      BY <1>1 DEF CountInv, rs
    <3>2. fr.base \in fr.obase .. (fr.end - 1) /\ ~(fr.base < fr.base)
      BY <1>1, <2>1
    <3>3. fr.base \notin Covered(rs)
      BY <1>1, <2>1, <2>3
    <3> QED  BY <3>1, <3>2, <3>3 DEF Gaps, GapsBelow, rs
  <2>5. GapsBelow(fr'.base) = GapsBelow(fr.base) \cup {fr.base}
    <3>1. ASSUME NEW x \in Gaps, x < fr'.base, x # fr.base PROVE x < fr.base
      <4>1. /\ x \in Int /\ x - 1 \in Int /\ x \notin Covered(rs)
            /\ x = fr.obase \/ x - 1 \in Covered(rs)
        BY <1>1 DEF Gaps, rs
      <4>2. SUFFICES ASSUME fr.base < x PROVE FALSE
        BY <1>1, <3>1, <4>1
      <4>3. x # fr.obase
        BY <1>1, <4>1, <4>2
      <4>4. ~(x - 1 < rs[i].base)
        BY <1>1, <2>3, <4>1, <4>2, <4>3
      <4>5. rs[i].base <= x /\ x < rend(rs[i])
        BY <1>1, <1>5, <1>7, <3>1, <4>1, <4>4
      <4> QED  BY <1>3, <4>1, <4>5
    <3>2. \A x \in Gaps : x < fr.base => x < fr'.base
      <4>1. \A x \in Gaps : x \in Int
        BY <1>1 DEF Gaps
      <4> QED  BY <1>1, <1>5, <1>7, <2>1, <4>1
    <3> QED  BY <2>1, <2>4, <3>1, <3>2 DEF GapsBelow
  <2>6. Cardinality(GapsBelow(fr'.base)) = Cardinality(GapsBelow(fr.base)) + 1
    <3>1. IsFiniteSet(GapsBelow(fr.base))
      BY <1>1, GapsFinite
    <3> QED  BY <2>4, <2>5, <3>1, FS_AddElement
  <2>7. GapsBelow(fr.base)' = GapsBelow(fr'.base)
    BY <1>2 DEF GapsBelow
  <2>8. fr.nr_new = Cardinality(GapsBelow(fr.base)) /\ Len(rs) = fr.cnt0
    BY <1>7 DEF CountInv, rs
  <2> QED  BY <1>2, <1>5, <1>7, <2>6, <2>7, <2>8 DEF CountInv, rs
<1> QED  BY <1>4, <1>6, <1>7

\* What these steps leave out of account.
LEMMA ScanRoom ==
  ASSUME CountInv', pc' \in {"count", "insert"}, ~hung, UNCHANGED hung
  PROVE  RoomInv'
  BY DEF RoomInv, CutInv, HangsOnlyWhenFull

LEMMA ElsewhereRoom ==
  ASSUME pc' \notin {"count", "insert", "isolate"}, ~hung, UNCHANGED hung
  PROVE  RoomInv'
  BY DEF RoomInv, CountInv, CutInv, HangsOnlyWhenFull

LEMMA ScanSkipRoom == ASSUME IInv, RoomInv, ScanSkip PROVE RoomInv'
<1>1. /\ Scanning /\ InLoop /\ fr \in AddFrames /\ ~hung /\ pc \in {"count", "insert"}
      /\ UNCHANGED <<mb, pc, found, hung>>
  BY ScanFacts DEF ScanSkip, Scanning
<1>2. /\ fr'.type = fr.type /\ fr'.obase = fr.obase /\ fr'.end = fr.end
      /\ fr'.base = fr.base /\ fr'.nr_new = fr.nr_new
      /\ fr'.cnt0 = fr.cnt0 /\ fr'.planned = fr.planned
  BY <1>1 DEF ScanSkip, AddFrames
<1>3. CountInv
  BY <1>1 DEF RoomInv
<1>4. CountInv'
  BY <1>1, <1>2, <1>3, PassedRoom
<1> QED  BY <1>1, <1>4, ScanRoom

LEMMA ScanOverlapRoom == ASSUME IInv, RoomInv, ScanOverlap PROVE RoomInv'
<1>1. /\ Scanning /\ InLoop /\ fr \in AddFrames /\ ~hung /\ pc \in {"count", "insert"}
      /\ UNCHANGED <<mb, pc, found, hung>> /\ rend(ScanRegion) > fr.base /\ ~HasFront
  BY ScanFacts DEF ScanOverlap, Scanning
<1>2. /\ fr'.type = fr.type /\ fr'.obase = fr.obase /\ fr'.end = fr.end
      /\ fr'.base = min(rend(ScanRegion), fr.end) /\ fr'.nr_new = fr.nr_new
  BY OverlapLocals
<1>3. fr'.cnt0 = fr.cnt0 /\ fr'.planned = fr.planned
  BY <1>1 DEF ScanOverlap, AddFrames
<1>4. CountInv
  BY <1>1 DEF RoomInv
<1>5. CountInv'
  BY <1>1, <1>2, <1>3, <1>4, PassedRoom
<1> QED  BY <1>1, <1>5, ScanRoom

LEMMA CountFrontRoom == ASSUME IInv, RoomInv, CountFront PROVE RoomInv'
<1>1. /\ Scanning /\ InLoop /\ fr \in AddFrames /\ ~hung /\ pc = "count"
      /\ UNCHANGED <<mb, pc, found, hung>> /\ HasFront
  BY ScanFacts DEF CountFront, Running, Scanning
<1>2. /\ fr'.type = fr.type /\ fr'.obase = fr.obase /\ fr'.end = fr.end
      /\ fr'.base = min(rend(ScanRegion), fr.end) /\ fr'.nr_new = fr.nr_new + 1
  BY CountLocals
<1>3. fr'.cnt0 = fr.cnt0 /\ fr'.planned = fr.planned
  BY <1>1 DEF CountFront, AddFrames
<1>4. CountInv
  BY <1>1 DEF RoomInv
<1>5. CountInv'
  BY <1>1, <1>2, <1>3, <1>4, PassedRoom
<1> QED  BY <1>1, <1>5, ScanRoom

\* A gap that the loop has reached is one of those that were counted.
LEMMA GapReached ==
  ASSUME IInv, CountInv, Scanning, HasTail,
         \A k \in 1 .. fr.idx - 1 : rend(ScanRegions[k]) <= fr.base,
         NEW hi \in Int, fr.base < hi, hi <= fr.end,
         fr.idx <= Len(ScanRegions) => hi <= ScanRegion.base
  PROVE  /\ fr.base \in Gaps
         /\ \A x \in Int : fr.base <= x /\ x < hi => x \notin Covered(ScanRegions)
<1> DEFINE rs == ScanRegions
           i == fr.idx
           lo == fr.base
<1>1. /\ ArrayOK(rs) /\ NoneEmpty(rs) /\ Sorted(rs) /\ Len(rs) \in Nat
      /\ lo \in Int /\ i \in 1 .. Len(rs) + 1 /\ ScanRegion = rs[i]
      /\ fr.obase \in Nat /\ fr.end \in Nat /\ fr.obase <= lo /\ lo < fr.end
      /\ pc \in {"count", "insert"}
  BY ScanFacts DEF ScanRegion, HasTail, Scanning
<1>2. /\ \A k \in 1 .. i - 1 : rend(rs[k]) <= lo
      /\ i <= Len(rs) => hi <= rs[i].base
  BY <1>1
<1>3. lo = fr.obase \/ lo - 1 \in Covered(rs)
  BY <1>1 DEF CountInv
<1> HIDE DEF rs, i, lo
<1>4. \A x \in Int : lo <= x /\ x < hi => x \notin Covered(rs)
  BY <1>1, <1>2, NothingBetween
<1>5. lo \notin Covered(rs)
  BY <1>1, <1>4 DEF lo
<1>6. lo \in Gaps
  BY <1>1, <1>3, <1>5 DEF Gaps, rs
<1> QED  BY <1>4, <1>6 DEF rs, lo

LEMMA InsertFrontRoom == ASSUME IInv, SetsInv, RoomInv, InsertFront PROVE RoomInv'
<1> DEFINE rs == ScanRegions
           new == mb'[fr.type].regions
           lo == fr.base
           hi == ScanRegion.base
           i == fr.idx
<1>1. /\ Scanning /\ pc = "insert" /\ ~hung /\ UNCHANGED <<pc, found, hung>>
  BY DEF InsertFront, Running, Scanning
<1>2. /\ ArrayOK(rs) /\ Len(rs) \in Nat /\ lo \in Nat /\ fr.end \in Nat /\ fr.obase \in Nat
      /\ fr.obase <= lo
      /\ \A k \in 1 .. Len(rs) : /\ rs[k].base \in Nat /\ rend(rs[k]) \in Nat
                                 /\ rs[k].base < rend(rs[k])
  BY <1>1, ScanFacts
<1>3. /\ i \in 1 .. Len(rs) /\ ScanRegion = rs[i] /\ lo < hi /\ hi < fr.end
      /\ \A k \in 1 .. i - 1 : rend(rs[k]) <= lo
  BY FrontInserted DEF ScanRegion
<1>4. /\ ArrayOK(new) /\ Len(new) = Len(rs) + 1
      /\ \A k \in 1 .. i - 1 : new[k] = rs[k]
      /\ new[i].base = lo /\ rend(new[i]) = hi
      /\ \A k \in i + 1 .. Len(rs) + 1 : new[k] = rs[k - 1]
  BY <1>1, ScanFacts, FrontInserted
<1>5. /\ fr'.type = fr.type /\ fr'.obase = fr.obase /\ fr'.end = fr.end
      /\ fr'.base = min(rend(ScanRegion), fr.end) /\ fr'.nr_new = fr.nr_new + 1
      /\ fr'.cnt0 = fr.cnt0 /\ fr'.planned = fr.planned
  BY FrontInserted
<1>6. ScanRegions' = new
  BY <1>5 DEF ScanRegions
<1>7. /\ hi \in Nat /\ hi = rs[i].base /\ rend(rs[i]) \in Nat /\ hi < rend(rs[i])
  BY <1>2, <1>3
<1>8. CountInv /\ Len(rs) = fr.cnt0 + fr.nr_new
      /\ fr.planned = fr.nr_new + Cardinality(Gaps)
  BY <1>1 DEF RoomInv, CountInv
<1>9. /\ lo \in Gaps
      /\ \A x \in Int : lo <= x /\ x < hi => x \notin Covered(rs)
  <2>1. HasTail /\ hi \in Int /\ hi <= fr.end
    BY <1>2, <1>3, <1>7 DEF HasTail
  <2> QED  BY <1>1, <1>3, <1>8, <2>1, GapReached
<1> HIDE DEF rs, new, lo, hi, i
<1>10. Covered(new) = Covered(rs) \cup lo .. (hi - 1)
  <2>1. i \in 1 .. Len(rs) + 1
    BY <1>2, <1>3
  <2>2. Covered(new) = Covered(rs) \cup new[i].base .. (rend(new[i]) - 1)
    <3>1. GrownAt(rs, new, i)
      BY <1>2, <1>4, <2>1 DEF GrownAt
    <3> QED  BY <3>1, InsertCovers
  <2> QED  BY <1>4, <2>2
<1>11. \A x \in Int : hi <= x /\ x < rend(rs[i]) => x \in Covered(rs)
  BY <1>2, <1>3, <1>7, RegionCovers
<1>12. Gaps' = Gaps \ {lo}
  <2>1. Gaps' = {x \in fr.obase .. (fr.end - 1) :
                   /\ x \notin Covered(new)
                   /\ x = fr.obase \/ x - 1 \in Covered(new)}
    BY <1>5, <1>6 DEF Gaps
  <2>2. ASSUME NEW x \in Gaps' PROVE x \in Gaps /\ x # lo
    <3>1. x \in Int /\ x \in fr.obase .. (fr.end - 1) /\ x \notin Covered(rs)
          /\ x \notin lo .. (hi - 1)
      BY <1>2, <1>10, <2>1
    <3>2. x # lo /\ x # hi
      BY <1>2, <1>3, <1>7, <1>11, <3>1
    <3>3. x - 1 \notin lo .. (hi - 1)
      BY <1>2, <1>7, <3>1, <3>2
    <3>4. x = fr.obase \/ x - 1 \in Covered(rs)
      BY <1>10, <2>1, <3>3
    <3> QED  BY <3>1, <3>2, <3>4 DEF Gaps, rs
  <2>3. ASSUME NEW x \in Gaps, x # lo PROVE x \in Gaps'
    <3>1. x \in Int /\ x - 1 \in Int /\ x \in fr.obase .. (fr.end - 1) /\ x \notin Covered(rs)
          /\ (x = fr.obase \/ x - 1 \in Covered(rs))
      BY <1>2 DEF Gaps, rs
    <3>2. x \notin lo .. (hi - 1)
      <4> SUFFICES ASSUME lo < x, x < hi PROVE FALSE
        BY <1>2, <1>7, <2>3, <3>1
      <4>1. x # fr.obase /\ lo <= x - 1 /\ x - 1 < hi
        BY <1>2, <1>7, <3>1
      <4> QED  BY <1>9, <3>1, <4>1
    <3> QED  BY <1>10, <2>1, <3>1, <3>2
  <2> QED  BY <2>2, <2>3
<1>13. IsFiniteSet(Gaps)
  BY <1>2, GapsFinite
<1>14. Cardinality(Gaps') = Cardinality(Gaps) - 1 /\ Cardinality(Gaps) \in Nat
  BY <1>9, <1>12, <1>13, FS_RemoveElement, FS_CardinalityType
<1>15. fr'.base - 1 \in Covered(new)
  <2>1. fr'.base - 1 \in Int /\ hi <= fr'.base - 1 /\ fr'.base - 1 < rend(rs[i])
    BY <1>2, <1>3, <1>5, <1>7 DEF min
  <2> QED  BY <1>10, <1>11, <2>1
<1>16. fr.nr_new \in Nat /\ fr.cnt0 \in Nat /\ fr.planned \in Nat
  BY <1>1, ScanFacts DEF AddFrames
<1>17. CountInv'
  BY <1>1, <1>4, <1>5, <1>6, <1>8, <1>14, <1>15, <1>16 DEF CountInv
<1> QED  BY <1>1, <1>17, ScanRoom

\* The first pass has counted every gap.
LEMMA CountDoneRoom == ASSUME IInv, RoomInv, CountDone PROVE RoomInv'
<1> DEFINE rs == ScanRegions
<1>1. /\ Scanning /\ pc = "count" /\ ~hung /\ ~InLoop /\ UNCHANGED <<mb, found, hung>>
  BY DEF CountDone, Running, Scanning
<1>2. /\ ArrayOK(rs) /\ Len(rs) \in Nat /\ fr \in AddFrames
      /\ fr.base \in Nat /\ fr.end \in Nat /\ fr.obase \in Nat
      /\ fr.obase <= fr.base /\ fr.base <= fr.end /\ fr.idx \in 1 .. Len(rs) + 1
      /\ \A k \in 1 .. Len(rs) : rs[k].base \in Nat
      /\ \A k \in 1 .. fr.idx - 1 : rend(rs[k]) <= fr.base \/ fr.base = fr.end
      /\ fr.nr_new \in Nat /\ fr.cnt0 \in Nat
  BY <1>1, ScanFacts DEF AddFrames
<1>3. /\ CountInv /\ Len(rs) = fr.cnt0 /\ fr.nr_new = Cardinality(GapsBelow(fr.base))
  BY <1>1 DEF RoomInv, CountInv
<1>4. fr.idx <= Len(rs) => fr.end <= ScanRegion.base
  BY <1>1, <1>2 DEF InLoop, ScanRegion
<1>5. CASE NrNew = 0
  <2>1. pc' = "idle"
    BY <1>5 DEF CountDone, Return
  <2> QED  BY <1>1, <2>1, ElsewhereRoom
<1>6. CASE NrNew # 0
  <2>1. pc' = "insert" /\ fr' = ScanFrame(fr.type, fr.obase, fr.end, fr.cnt0, NrNew)
    BY <1>6 DEF CountDone
  <2>2. /\ fr'.type = fr.type /\ fr'.obase = fr.obase /\ fr'.base = fr.obase
        /\ fr'.end = fr.end /\ fr'.nr_new = 0 /\ fr'.cnt0 = fr.cnt0 /\ fr'.planned = NrNew
    BY <2>1 DEF ScanFrame
  <2>3. ScanRegions' = rs /\ Gaps' = Gaps
    BY <1>1, <2>2 DEF ScanRegions, Gaps
  <2>4. NrNew = Cardinality(Gaps)
    <3>1. \A x \in Gaps : x \in Int /\ x - 1 \in Int /\ x < fr.end
      BY <1>2 DEF Gaps
    <3>2. CASE ~HasTail
      <4>1. fr.base = fr.end
        BY <1>2, <3>2 DEF HasTail
      <4>2. GapsBelow(fr.base) = Gaps
        BY <3>1, <4>1 DEF GapsBelow
      <4> QED  BY <1>2, <1>3, <3>2, <4>2 DEF NrNew
    <3>3. CASE HasTail
      <4>1. fr.base < fr.end
        BY <3>3 DEF HasTail
      <4>2. /\ fr.base \in Gaps
            /\ \A x \in Int : fr.base <= x /\ x < fr.end => x \notin Covered(rs)
        <5> DEFINE hi == fr.end
        <5>1. /\ hi \in Int /\ fr.base < hi /\ hi <= fr.end
              /\ fr.idx <= Len(ScanRegions) => hi <= ScanRegion.base
              /\ \A k \in 1 .. fr.idx - 1 : rend(ScanRegions[k]) <= fr.base
          BY <1>2, <1>4, <4>1
        <5> HIDE DEF hi
        <5>2. /\ fr.base \in Gaps
              /\ \A x \in Int : fr.base <= x /\ x < hi => x \notin Covered(ScanRegions)
          BY <1>1, <1>3, <3>3, <5>1, GapReached
        <5> QED  BY <5>2 DEF hi
      <4>3. Gaps = GapsBelow(fr.base) \cup {fr.base}
        <5>1. ASSUME NEW x \in Gaps, x # fr.base PROVE x < fr.base
          <6> SUFFICES ASSUME fr.base < x PROVE FALSE
            BY <1>2, <3>1, <5>1
          <6>1. x # fr.obase /\ fr.base <= x - 1 /\ x - 1 < fr.end /\ x - 1 \in Int
            BY <1>2, <3>1
          <6>2. x - 1 \in Covered(rs)
            BY <6>1 DEF Gaps
          <6> QED  BY <4>2, <6>1, <6>2
        <5> QED  BY <4>2, <5>1 DEF GapsBelow
      <4>4. fr.base \notin GapsBelow(fr.base)
        BY <1>2 DEF GapsBelow
      <4>5. IsFiniteSet(GapsBelow(fr.base))
        BY <1>2, GapsFinite
      <4>6. Cardinality(Gaps) = Cardinality(GapsBelow(fr.base)) + 1
        BY <4>3, <4>4, <4>5, FS_AddElement
      <4> QED  BY <1>3, <3>3, <4>6 DEF NrNew
    <3> QED  BY <3>2, <3>3
  <2>5. Cardinality(Gaps) \in Nat
    BY <1>2, GapsFinite
  <2>6. CountInv'
    BY <1>2, <1>3, <2>1, <2>2, <2>3, <2>4, <2>5 DEF CountInv
  <2> QED  BY <1>1, <2>1, <2>6, ScanRoom
<1> QED  BY <1>5, <1>6

LEMMA InsertDoneRoom == ASSUME IInv, RoomInv, InsertDone PROVE RoomInv'
<1>1. pc' = "merge" /\ ~hung /\ UNCHANGED hung
  BY DEF InsertDone, Running
<1> QED  BY <1>1, ElsewhereRoom

\* What cannot be inserted was counted.
LEMMA InsertBugRoom == ASSUME IInv, RoomInv, InsertBug PROVE RoomInv'
<1> DEFINE rs == ScanRegions
           i == fr.idx
<1>1. /\ Scanning /\ pc = "insert" /\ ~hung /\ hung' = TRUE /\ UNCHANGED <<pc, fr>>
      /\ IF InLoop THEN HasFront ELSE HasTail
      /\ Len(rs) >= INIT_MEMBLOCK_REGIONS
  BY DEF InsertBug, Bug, Running, Scanning, Full
<1>2. /\ fr \in AddFrames /\ Len(rs) \in Nat
      /\ fr.base \in Nat /\ fr.end \in Nat /\ fr.obase \in Nat
      /\ fr.base <= fr.end /\ i \in 1 .. Len(rs) + 1
      /\ \A k \in 1 .. Len(rs) : rs[k].base \in Nat
      /\ \A k \in 1 .. i - 1 : rend(rs[k]) <= fr.base \/ fr.base = fr.end
      /\ fr.nr_new \in Nat /\ fr.cnt0 \in Nat /\ fr.planned \in Nat
  BY <1>1, ScanFacts DEF AddFrames
<1>3. /\ CountInv /\ Len(rs) = fr.cnt0 + fr.nr_new
      /\ fr.planned = fr.nr_new + Cardinality(Gaps)
  BY <1>1 DEF RoomInv, CountInv
<1>4. fr.base \in Gaps
  <2> DEFINE hi == IF InLoop THEN ScanRegion.base ELSE fr.end
  <2>1. CASE InLoop
    <3>1. i \in 1 .. Len(rs) /\ ScanRegion = rs[i] /\ rs[i].base < fr.end
          /\ rs[i].base > fr.base
      BY <1>1, <1>2, <2>1 DEF InLoop, ScanRegion, HasFront
    <3>2. rs[i].base \in Nat
      BY <1>2, <3>1
    <3>3. /\ hi \in Int /\ fr.base < hi /\ hi <= fr.end /\ HasTail
          /\ i <= Len(rs) => hi <= ScanRegion.base
          /\ \A k \in 1 .. i - 1 : rend(rs[k]) <= fr.base
      BY <1>2, <2>1, <3>1, <3>2 DEF HasTail
    <3> HIDE DEF hi
    <3> QED  BY <1>1, <1>3, <3>3, GapReached
  <2>2. CASE ~InLoop
    <3>1. HasTail /\ fr.base < fr.end
      BY <1>1, <2>2 DEF HasTail
    <3>2. i <= Len(rs) => fr.end <= ScanRegion.base
      BY <1>2, <2>2 DEF InLoop, ScanRegion
    <3>3. /\ hi \in Int /\ fr.base < hi /\ hi <= fr.end
          /\ i <= Len(rs) => hi <= ScanRegion.base
          /\ \A k \in 1 .. i - 1 : rend(rs[k]) <= fr.base
      BY <1>2, <2>2, <3>1, <3>2
    <3> HIDE DEF hi
    <3> QED  BY <1>1, <1>3, <3>1, <3>3, GapReached
  <2> QED  BY <2>1, <2>2
<1>5. Cardinality(Gaps) \in Nat /\ Cardinality(Gaps) # 0
  <2>1. IsFiniteSet(Gaps) /\ Cardinality(Gaps) \in Nat
    BY <1>2, GapsFinite
  <2> QED  BY <1>4, <2>1, FS_EmptySet
<1>6. fr.cnt0 + fr.planned > INIT_MEMBLOCK_REGIONS
  <2> DEFINE m == Len(rs)
             g == Cardinality(Gaps)
  <2>1. /\ m >= INIT_MEMBLOCK_REGIONS /\ m = fr.cnt0 + fr.nr_new
        /\ fr.planned = fr.nr_new + g /\ g \in Nat /\ g # 0
        /\ fr.cnt0 \in Nat /\ fr.nr_new \in Nat /\ INIT_MEMBLOCK_REGIONS \in Nat
    BY <1>1, <1>2, <1>3, <1>5, SizesAssumption
  <2> HIDE DEF m, g
  <2> QED  BY <2>1
<1> QED  BY <1>1, <1>6 DEF RoomInv, HangsOnlyWhenFull

\* The count begins.
LEMMA AddRangeRoom ==
  ASSUME ~hung, UNCHANGED hung, NEW t \in Types, NEW base \in Addr, NEW size \in Addr,
         memblock_add_range(t, base, size)
  PROVE  RoomInv'
<1> DEFINE capped == memblock_cap_size(base, size)
<1>1. capped \in Nat /\ base \in Nat
  <2>1. capped \in Nat
    BY CapFacts
  <2>2. base \in Nat
    BY SizesAssumption DEF Addr
  <2> QED  BY <2>1, <2>2
<1>2. \/ pc' = "idle"
      \/ /\ pc' = "count" /\ mb' = mb
         /\ fr' = ScanFrame(t, base, base + capped, Len(mb[t].regions), 0)
  BY DEF memblock_add_range, Return
<1> HIDE DEF capped
<1>3. CASE pc' = "idle"
  BY <1>3, ElsewhereRoom
<1>4. CASE /\ pc' = "count" /\ mb' = mb
           /\ fr' = ScanFrame(t, base, base + capped, Len(mb[t].regions), 0)
  <2>1. /\ fr'.type = t /\ fr'.obase = base /\ fr'.base = base
        /\ fr'.end = base + capped /\ fr'.nr_new = 0 /\ fr'.cnt0 = Len(mb[t].regions)
    BY <1>4 DEF ScanFrame
  <2>2. Len(ScanRegions)' = fr'.cnt0
    BY <1>4, <2>1 DEF ScanRegions
  <2>3. GapsBelow(fr.base)' = {}
    <3>1. Gaps' \subseteq fr'.obase .. (fr'.end - 1)
      BY DEF Gaps
    <3>2. \A x \in fr'.obase .. (fr'.end - 1) : ~(x < fr'.base)
      BY <1>1, <2>1
    <3> QED  BY <3>1, <3>2 DEF GapsBelow
  <2>4. Cardinality(GapsBelow(fr.base)') = 0
    BY <2>3, FS_EmptySet
  <2>5. CountInv'
    BY <1>4, <2>1, <2>2, <2>4 DEF CountInv
  <2> QED  BY <1>4, <2>5, ScanRoom
<1> QED  BY <1>2, <1>3, <1>4

LEMMA MergeRoom == ASSUME RoomInv, Merge \/ MergeNext \/ MergeDone PROVE RoomInv'
<1>1. /\ pc' \notin {"count", "insert", "isolate"} /\ ~hung /\ UNCHANGED hung
  BY DEF Merge, MergeNext, MergeDone, Merging, Running, Return
<1> QED  BY <1>1, ElsewhereRoom

-----------------------------------------------------------------------------
(***************************************************************************)
(* A free cuts at most two regions.                                        *)
(***************************************************************************)
LEMMA CutsType == \A x : Cuts(x) \in {0, 1}
  BY DEF Cuts

\* While the cuts are made nothing else is counted.
LEMMA CutRoom ==
  ASSUME CutInv', pc' = "isolate", ~hung, UNCHANGED hung
  PROVE  RoomInv'
  BY DEF RoomInv, CountInv, HangsOnlyWhenFull

LEMMA FreeRoom ==
  ASSUME IInv, NEW c \in FreeCalls, memblock_free(c[1], c[2])
  PROVE  RoomInv'
<1> DEFINE capped == memblock_cap_size(c[1], c[2])
<1>1. ~hung /\ UNCHANGED <<mb, found, hung>>
  BY DEF memblock_free, Running
<1> HIDE DEF capped
<1>2. CASE capped = 0
  <2>1. pc' = "idle"
    BY <1>2 DEF memblock_free, Return, capped
  <2> QED  BY <1>1, <2>1, ElsewhereRoom
<1>3. CASE capped # 0
  <2>1. /\ pc' = "isolate" /\ fr'.type = "reserved"
        /\ fr'.cnt0 = Len(mb["reserved"].regions)
    BY <1>3 DEF memblock_free, capped
  <2>2. Len(ScanRegions)' = fr'.cnt0 /\ fr'.cnt0 \in Nat
    <3>1. ArrayOK(mb["reserved"].regions)
      BY DEF IInv, TypeOK, Types
    <3>2. Len(mb["reserved"].regions) \in Nat
      BY <3>1, ArrayFacts DEF Flat
    <3> QED  BY <1>1, <2>1, <3>2 DEF ScanRegions
  <2>3. Cuts(fr.base)' \in {0, 1} /\ Cuts(fr.end)' \in {0, 1}
    BY DEF Cuts
  <2>4. CutInv'
    BY <2>2, <2>3 DEF CutInv
  <2> QED  BY <1>1, <2>1, <2>4, CutRoom
<1> QED  BY <1>2, <1>3

\* A turn that cuts nothing.
LEMMA UncutRoom ==
  ASSUME RoomInv, Isolating, UNCHANGED <<mb, pc, hung>>,
         fr'.type = fr.type, fr'.base = fr.base, fr'.end = fr.end, fr'.cnt0 = fr.cnt0
  PROVE  RoomInv'
<1>1. pc = "isolate" /\ ~hung /\ CutInv
  BY DEF Isolating, RoomInv
<1>2. ScanRegions' = ScanRegions
  BY DEF ScanRegions
<1>3. Cuts(fr.base)' = Cuts(fr.base) /\ Cuts(fr.end)' = Cuts(fr.end)
  BY <1>2 DEF Cuts, Divided
<1>4. CutInv'
  BY <1>1, <1>2, <1>3 DEF CutInv
<1> QED  BY <1>1, <1>4, CutRoom

LEMMA IsolateSkipRoom == ASSUME IInv, RoomInv, IsolateSkip PROVE RoomInv'
<1>1. /\ Isolating /\ UNCHANGED <<mb, pc, hung>> /\ fr \in IsolateFrames
      /\ fr' = [fr EXCEPT !.idx = @ + 1]
  BY IsolateFacts DEF IsolateSkip
<1>2. /\ fr'.type = fr.type /\ fr'.base = fr.base /\ fr'.end = fr.end
      /\ fr'.cnt0 = fr.cnt0
  BY <1>1 DEF IsolateFrames
<1> QED  BY <1>1, <1>2, UncutRoom

LEMMA IsolateWholeRoom == ASSUME IInv, RoomInv, IsolateWhole PROVE RoomInv'
<1> DEFINE s == IF fr.end_rgn = 0 THEN fr.idx ELSE fr.start_rgn
           i == fr.idx
           j == fr.idx + 1
<1>1. /\ Isolating /\ UNCHANGED <<mb, pc, hung>> /\ fr \in IsolateFrames
      /\ fr' = [fr EXCEPT !.idx = j, !.end_rgn = i, !.start_rgn = s]
  BY IsolateFacts DEF IsolateWhole, Overlapping
<1> HIDE DEF s, i, j
<1>2. /\ fr'.type = fr.type /\ fr'.base = fr.base /\ fr'.end = fr.end
      /\ fr'.cnt0 = fr.cnt0
  BY <1>1 DEF IsolateFrames
<1> QED  BY <1>1, <1>2, UncutRoom

\* After the cut no region has the cut inside, and no other byte has come
\* inside a region.
LEMMA CutOnce ==
  ASSUME NEW rs, NEW new, ArrayOK(rs), ArrayOK(new), Sorted(new),
         Len(new) = Len(rs) + 1, NEW i \in 1 .. Len(rs), NEW cut \in Int,
         rs[i].base < cut, cut < rend(rs[i]),
         \A k \in 1 .. i - 1 : new[k] = rs[k],
         new[i].base = rs[i].base, rend(new[i]) = cut,
         new[i + 1].base = cut, rend(new[i + 1]) = rend(rs[i]),
         \A k \in i + 2 .. Len(rs) + 1 : new[k] = rs[k - 1]
  PROVE  \A y \in Int : Divided(new, y) => y # cut /\ Divided(rs, y)
<1> SUFFICES ASSUME NEW y \in Int, NEW k \in DOMAIN new, new[k].base < y, y < rend(new[k])
             PROVE  y # cut /\ \E l \in DOMAIN rs : rs[l].base < y /\ y < rend(rs[l])
  BY DEF Divided
<1> DEFINE n == Len(rs)
<1>1. /\ n \in Nat /\ DOMAIN rs = 1 .. n /\ DOMAIN new = 1 .. n + 1 /\ i \in 1 .. n
      /\ \A l \in 1 .. n + 1 : new[l].base \in Nat /\ rend(new[l]) \in Nat
      /\ \A l \in 1 .. n : rs[l].base \in Nat /\ rend(rs[l]) \in Nat
  BY ArrayFacts DEF Flat
<1> HIDE DEF n
<1>2. k \in 1 .. n + 1 /\ new[k].base \in Nat /\ rend(new[k]) \in Nat
  BY <1>1
<1>3. CASE k < i
  <2>0. n \in Nat /\ i \in 1 .. n /\ k \in 1 .. n + 1
    BY <1>1, <1>2
  <2>1. k \in 1 .. i - 1 /\ k \in 1 .. n /\ i \in 1 .. n + 1
    BY <1>3, <2>0
  <2>11. k \in DOMAIN rs /\ k \in DOMAIN new /\ i \in DOMAIN new
    BY <1>1, <2>1
  <2>2. new[k] = rs[k] /\ rend(new[k]) <= new[i].base
    BY <1>3, <2>1, <2>11 DEF Sorted
  <2>3. new[i].base < cut /\ new[i].base \in Nat
    BY <1>1, <2>1
  <2> QED  BY <1>2, <2>1, <2>11, <2>2, <2>3
<1>4. CASE k = i
  <2>1. i \in DOMAIN rs /\ rs[i].base < y /\ y < cut /\ rend(rs[i]) \in Nat
    BY <1>1, <1>4
  <2> QED  BY <2>1
<1>5. CASE k = i + 1
  <2>1. i \in DOMAIN rs /\ cut < y /\ y < rend(rs[i]) /\ rs[i].base \in Nat
    BY <1>1, <1>5
  <2> QED  BY <2>1
<1>6. CASE k > i + 1
  <2>0. k \in i + 2 .. n + 1 /\ k - 1 \in 1 .. n /\ i + 1 \in 1 .. n + 1 /\ i + 1 < k
    <3>1. n \in Nat /\ i \in 1 .. n /\ k \in 1 .. n + 1
      BY <1>1, <1>2
    <3> QED  BY <1>6, <3>1
  <2>1. k \in i + 2 .. n + 1 /\ k - 1 \in DOMAIN rs /\ i + 1 \in DOMAIN new
        /\ k \in DOMAIN new /\ i + 1 < k
    BY <1>1, <2>0
  <2>2. new[k] = rs[k - 1] /\ rend(new[i + 1]) <= new[k].base
    BY <2>1 DEF Sorted, n
  <2>3. cut < rend(new[i + 1]) /\ rend(new[i + 1]) \in Nat
    BY <1>1, <2>1
  <2> QED  BY <1>2, <2>1, <2>2, <2>3
<1>7. k < i \/ k = i \/ k = i + 1 \/ k > i + 1
  <2>1. i \in Int /\ k \in Int
    BY <1>1, <1>2
  <2> QED  BY <2>1
<1> QED  BY <1>3, <1>4, <1>5, <1>6, <1>7

LEMMA SplitAtRoom ==
  ASSUME IInv, RoomInv, Isolating, InLoop, NEW cut \in {fr.base, fr.end},
         rend(ScanRegion) > fr.base, ScanRegion.base < cut, cut < rend(ScanRegion),
         SplitAt(cut)
  PROVE  RoomInv'
<1> DEFINE rs == ScanRegions
           i == fr.idx
           n == Len(rs)
           new == mb'[fr.type].regions
<1>1. /\ pc = "isolate" /\ ~hung /\ fr \in IsolateFrames
      /\ fr.type \in Types
      /\ ArrayOK(rs) /\ i \in 1 .. n /\ ScanRegion = rs[i] /\ n \in Nat
      /\ cut \in Nat /\ fr.base \in Nat /\ fr.end \in Nat /\ fr.base < fr.end
      /\ fr.cnt0 \in Nat /\ DOMAIN rs = 1 .. n
      /\ rs[i].base < cut /\ cut < rend(rs[i])
  <2>1. /\ ArrayOK(rs) /\ fr \in IsolateFrames /\ i \in 1 .. n /\ ScanRegion = rs[i]
    BY IsolateFacts DEF InLoop, ScanRegion
  <2>2. DOMAIN rs = 1 .. n
    BY <2>1, ArrayFacts DEF Flat
  <2>3. fr.cnt0 \in Nat
    BY <2>1 DEF IsolateFrames
  <2>4. /\ pc = "isolate" /\ ~hung /\ fr.type \in Types /\ n \in Nat
        /\ fr.base \in Nat /\ fr.end \in Nat /\ fr.base < fr.end
    BY IsolateFacts
  <2> QED  BY <2>1, <2>2, <2>3, <2>4
<1>2. n + Cuts(fr.base) + Cuts(fr.end) <= fr.cnt0 + 2
  BY <1>1 DEF RoomInv, CutInv
<1>3. Cuts(cut) = 1
  BY <1>1 DEF Cuts, Divided
<1>4. Cuts(fr.base) \in {0, 1} /\ Cuts(fr.end) \in {0, 1}
  BY CutsType
<1>5. CASE Full(rs)
  <2>1. hung' = TRUE /\ UNCHANGED <<pc, fr>> /\ n >= INIT_MEMBLOCK_REGIONS
    BY <1>5 DEF SplitAt, Bug, ScanRegions, Full
  <2> HIDE DEF n
  <2>2. fr.cnt0 + 2 > INIT_MEMBLOCK_REGIONS
    BY <1>1, <1>2, <1>3, <1>4, <2>1, SizesAssumption
  <2> QED  BY <1>1, <2>1, <2>2 DEF RoomInv, HangsOnlyWhenFull
<1>6. CASE ~Full(rs)
  <2>1. /\ ArrayOK(new) /\ Len(new) = n + 1
        /\ \A k \in 1 .. i - 1 : new[k] = rs[k]
        /\ new[i].base = rs[i].base /\ rend(new[i]) = cut
        /\ new[i + 1].base = cut /\ rend(new[i + 1]) = rend(rs[i])
        /\ \A k \in i + 2 .. n + 1 : new[k] = rs[k - 1]
        /\ fr' = [fr EXCEPT !.idx = IF cut = fr.base THEN @ + 1 ELSE @]
        /\ UNCHANGED <<pc, found, hung>>
        /\ TouchAtCuts(new)
    BY <1>1, <1>6, SplitRoom
  <2>2. /\ fr'.base = fr.base /\ fr'.end = fr.end /\ fr'.type = fr.type
        /\ fr'.cnt0 = fr.cnt0
    BY <1>1, <2>1 DEF IsolateFrames
  <2>3. ScanRegions' = new
    BY <2>2 DEF ScanRegions
  <2>4. Sorted(new)
    BY <2>1, IsolatedOrder
  <2>5. \A y : Cuts(y) = IF Divided(rs, y) THEN 1 ELSE 0
    BY DEF Cuts
  <2>6. /\ Cuts(fr.base)' = IF Divided(new, fr.base) THEN 1 ELSE 0
        /\ Cuts(fr.end)' = IF Divided(new, fr.end) THEN 1 ELSE 0
    BY <2>2, <2>3 DEF Cuts, Divided
  <2> HIDE DEF rs, new
  <2>7. \A y \in Int : Divided(new, y) => y # cut /\ Divided(rs, y)
    <3> HIDE DEF i
    <3>1. /\ ArrayOK(rs) /\ ArrayOK(new) /\ Sorted(new) /\ Len(new) = Len(rs) + 1
          /\ i \in 1 .. Len(rs) /\ cut \in Int /\ rs[i].base < cut /\ cut < rend(rs[i])
          /\ \A l \in 1 .. i - 1 : new[l] = rs[l]
          /\ new[i].base = rs[i].base /\ rend(new[i]) = cut
          /\ new[i + 1].base = cut /\ rend(new[i + 1]) = rend(rs[i])
          /\ \A l \in i + 2 .. Len(rs) + 1 : new[l] = rs[l - 1]
      BY <1>1, <2>1, <2>4
    <3> QED  BY <3>1, CutOnce
  <2>8. Cuts(fr.base)' + Cuts(fr.end)' + 1 <= Cuts(fr.base) + Cuts(fr.end)
    BY <1>1, <1>3, <2>5, <2>6, <2>7
  <2>9. Len(ScanRegions)' = n + 1
    BY <2>1, <2>3
  <2>10. Cuts(fr.base)' \in {0, 1} /\ Cuts(fr.end)' \in {0, 1}
    BY <2>6
  <2>11. CutInv'
    <3> HIDE DEF n
    <3>1. (n + 1) + Cuts(fr.base)' + Cuts(fr.end)' <= fr'.cnt0 + 2
      BY <1>1, <1>2, <1>4, <2>2, <2>8, <2>10
    <3> QED  BY <2>9, <3>1 DEF CutInv
  <2> QED  BY <1>1, <2>1, <2>11, CutRoom
<1> QED  BY <1>5, <1>6

LEMMA IsolateFrontRoom == ASSUME IInv, RoomInv, IsolateFront PROVE RoomInv'
<1>1. /\ Isolating /\ InLoop /\ rend(ScanRegion) > fr.base /\ ScanRegion.base < fr.base
      /\ SplitAt(fr.base)
  BY DEF IsolateFront, Overlapping, CutsFront
<1>2. rend(ScanRegion) \in Nat /\ fr.base \in Nat
  BY <1>1, IsolateElements, IsolateFacts DEF InLoop, ScanRegion
<1>3. fr.base < rend(ScanRegion)
  BY <1>1, <1>2
<1> QED  BY <1>1, <1>3, SplitAtRoom

LEMMA IsolateBackRoom == ASSUME IInv, RoomInv, IsolateBack PROVE RoomInv'
<1>1. /\ Isolating /\ InLoop /\ rend(ScanRegion) > fr.base /\ ScanRegion.base < fr.end
      /\ rend(ScanRegion) > fr.end /\ SplitAt(fr.end)
  BY DEF IsolateBack, Overlapping, CutsBack, InLoop
<1>2. rend(ScanRegion) \in Nat /\ fr.end \in Nat
  BY <1>1, IsolateElements, IsolateFacts DEF InLoop, ScanRegion
<1>3. fr.end < rend(ScanRegion)
  BY <1>1, <1>2
<1> QED  BY <1>1, <1>3, SplitAtRoom

LEMMA OtherFreeRoom ==
  ASSUME RoomInv, IsolateDone \/ RemoveLast \/ RemoveDone
  PROVE  RoomInv'
<1>1. /\ pc' \notin {"count", "insert", "isolate"} /\ ~hung /\ UNCHANGED hung
  BY DEF IsolateDone, RemoveLast, RemoveDone, Isolating, Running, Return
<1> QED  BY <1>1, ElsewhereRoom

-----------------------------------------------------------------------------
LEMMA CallRoom == ASSUME IInv, RoomInv, Call PROVE RoomInv'
<1>1. "memory" \in Types /\ "reserved" \in Types
  BY DEF Types
<1>2. ASSUME NEW c \in AddCalls, memblock_add(c[1], c[2]) PROVE RoomInv'
  <2>1. c[1] \in Addr /\ c[2] \in Addr
    BY CallsAssumption DEF Ranges
  <2> QED  BY <1>1, <1>2, <2>1, AddRangeRoom DEF memblock_add, Running
<1>3. ASSUME NEW c \in ReserveCalls, memblock_reserve(c[1], c[2]) PROVE RoomInv'
  <2>1. c[1] \in Addr /\ c[2] \in Addr
    BY CallsAssumption DEF Ranges
  <2> QED  BY <1>1, <1>3, <2>1, AddRangeRoom DEF memblock_reserve, Running
<1>4. ASSUME NEW r \in AllocCalls, memblock_phys_alloc_range(r) PROVE RoomInv'
  <2>1. pc' = "find" /\ ~hung /\ UNCHANGED hung
    BY <1>4 DEF memblock_phys_alloc_range, Running
  <2> QED  BY <2>1, ElsewhereRoom
<1> QED  BY <1>2, <1>3, <1>4, FreeRoom DEF Call

LEMMA AllocStepRoom == ASSUME IInv, RoomInv, AllocStep PROVE RoomInv'
<1>1. CASE AllocReserve
  <2>1. found \in Addr /\ fr.size \in Addr /\ "reserved" \in Types
    BY <1>1 DEF AllocReserve, Running, IInv, TypeOK, FrameOK, SearchFrames, Types
  <2> QED  BY <1>1, <2>1, AddRangeRoom DEF AllocReserve, Running
<1>2. CASE ~AllocReserve
  <2>1. /\ pc' \notin {"count", "insert", "isolate"} /\ ~hung /\ UNCHANGED hung
    BY <1>2 DEF AllocStep, FindPrevRegion, FindPrevGap, FindTry, FindHit, FindFail,
       FreeRange, Finding, Running, Return
  <2> QED  BY <2>1, ElsewhereRoom
<1> QED  BY <1>1, <1>2

LEMMA HaltedRoom == ASSUME RoomInv, UNCHANGED vars PROVE RoomInv'
<1>1. UNCHANGED <<mb, pc, fr, found, hung>>
  BY DEF vars
<1>2. RoomInv' = RoomInv
  BY <1>1 DEF RoomInv, CountInv, CutInv, HangsOnlyWhenFull, Gaps, GapsBelow, Cuts, Divided,
              ScanRegions
<1> QED  BY <1>2

LEMMA StepRoom == ASSUME IInv, SetsInv, RoomInv, Next PROVE RoomInv'
<1>1. CASE AddStep
  BY <1>1, ScanSkipRoom, ScanOverlapRoom, CountFrontRoom, CountDoneRoom, InsertFrontRoom,
     InsertDoneRoom, InsertBugRoom, MergeRoom DEF AddStep
<1>2. CASE FreeStep
  BY <1>2, IsolateSkipRoom, IsolateFrontRoom, IsolateBackRoom, IsolateWholeRoom,
     OtherFreeRoom DEF FreeStep
<1>3. CASE Halted
  BY <1>3, HaltedRoom DEF Halted
<1> QED  BY <1>1, <1>2, <1>3, CallRoom, AllocStepRoom DEF Next, Step

LEMMA InitRoom == Init => RoomInv
  BY DEF Init, RoomInv, CountInv, CutInv, HangsOnlyWhenFull

LEMMA RoomAlways == Spec => []RoomInv
<1>1. IInv /\ SetsInv /\ RoomInv /\ [Next]_vars => RoomInv'
  BY StepRoom, HaltedRoom
<1> QED  BY Invariance, BytesDoneSoFar, InitRoom, <1>1, PTL DEF Spec

\* The processor hangs in a BUG only where the resizing code that is compiled
\* out would have resized, whatever the capacity: the first pass counts exactly
\* what the second inserts, and a free cuts at most two regions.
THEOREM NoHangWithRoom == Spec => []HangsOnlyWhenFull
<1>1. RoomInv => HangsOnlyWhenFull
  BY DEF RoomInv
<1> QED  BY RoomAlways, <1>1, PTL

-----------------------------------------------------------------------------
(***************************************************************************)
(* total_size counts bytes.                                                *)
(***************************************************************************)
LEMMA CoveredFinite ==
  ASSUME NEW rs
  PROVE  IsFiniteSet(Covered(rs)) /\ Cardinality(Covered(rs)) \in Nat
<1>1. IsFiniteSet(Addr)
  <2>1. 0 \in Int /\ PHYS_ADDR_MAX \in Int
    BY SizesAssumption
  <2> QED  BY <2>1, FS_Interval DEF Addr
<1>2. Covered(rs) \subseteq Addr
  BY DEF Covered
<1> QED  BY <1>1, <1>2, FS_Subset, FS_CardinalityType

\* An interval next to a set that it does not meet.
LEMMA CountOfAdded ==
  ASSUME NEW S, IsFiniteSet(S), NEW lo \in Int, NEW hi \in Int, lo <= hi,
         S \cap lo .. (hi - 1) = {}
  PROVE  Cardinality(S \cup lo .. (hi - 1)) = Cardinality(S) + (hi - lo)
<1> DEFINE T == lo .. (hi - 1)
<1>1. IsFiniteSet(T) /\ Cardinality(T) = hi - lo
  <2>1. hi - 1 \in Int
    OBVIOUS
  <2>2. IsFiniteSet(T) /\ Cardinality(T) = IF lo > hi - 1 THEN 0 ELSE (hi - 1) - lo + 1
    BY <2>1, FS_Interval
  <2> QED  BY <2>2
<1> HIDE DEF T
<1>2. Cardinality(S \cup T) = Cardinality(S) + Cardinality(T) - Cardinality(S \cap T)
  BY <1>1, FS_Union
<1>3. Cardinality(S \cap T) = 0
  BY FS_EmptySet DEF T
<1>4. Cardinality(S) \in Nat
  BY FS_CardinalityType
<1> QED  BY <1>1, <1>2, <1>3, <1>4 DEF T

\* The bytes of a region are in no other one.
LEMMA BytesApart ==
  ASSUME NEW rs, ArrayOK(rs), Sorted(rs), NEW i \in 1 .. Len(rs), NEW k \in 1 .. Len(rs),
         k # i, NEW x \in Int, rs[k].base <= x, x < rend(rs[k])
  PROVE  x \notin rs[i].base .. (rend(rs[i]) - 1)
<1>1. /\ Len(rs) \in Nat /\ DOMAIN rs = 1 .. Len(rs)
      /\ \A l \in 1 .. Len(rs) : rs[l].base \in Nat /\ rend(rs[l]) \in Nat
  BY ArrayFacts DEF Flat
<1>2. /\ rs[i].base \in Nat /\ rend(rs[i]) \in Nat
      /\ rs[k].base \in Nat /\ rend(rs[k]) \in Nat
  BY <1>1
<1>3. CASE k < i
  <2>1. rend(rs[k]) <= rs[i].base
    BY <1>1, <1>3 DEF Sorted
  <2> QED  BY <1>2, <2>1
<1>4. CASE k > i
  <2>1. rend(rs[i]) <= rs[k].base
    BY <1>1, <1>4 DEF Sorted
  <2> QED  BY <1>2, <2>1
<1> QED  BY <1>1, <1>3, <1>4

-----------------------------------------------------------------------------
LEMMA SameTotals ==
  ASSUME TotalInv, ~hung, UNCHANGED mb
  PROVE  TotalInv'
  BY DEF TotalInv

LEMMA OneTotal ==
  ASSUME TotalInv, ~hung, NEW t \in Types,
         \A u \in Types : u # t => mb'[u] = mb[u],
         mb'[t].total = Cardinality(Covered(mb'[t].regions))
  PROVE  TotalInv'
<1>1. \A u \in Types : mb'[u].total = Cardinality(Covered(mb'[u].regions))
  <2> TAKE u \in Types
  <2>1. CASE u = t
    BY <2>1
  <2>2. CASE u # t
    BY <2>2 DEF TotalInv
  <2> QED  BY <2>1, <2>2
<1> QED  BY <1>1 DEF TotalInv

\* A region put where nothing was covered.
LEMMA InsertTotal ==
  ASSUME TotalInv, ~hung, NEW t \in Types, DOMAIN mb = Types,
         NEW i \in 1 .. Len(mb[t].regions) + 1, NEW lo \in Int, NEW hi \in Int, lo <= hi,
         ArrayOK(mb[t].regions), ArrayOK(mb'[t].regions),
         mb' = [mb EXCEPT ![t] = memblock_insert_region(@, i, lo, hi - lo)],
         Len(mb'[t].regions) = Len(mb[t].regions) + 1,
         \A k \in 1 .. i - 1 : mb'[t].regions[k] = mb[t].regions[k],
         mb'[t].regions[i].base = lo, rend(mb'[t].regions[i]) = hi,
         \A k \in i + 1 .. Len(mb[t].regions) + 1 : mb'[t].regions[k] = mb[t].regions[k - 1],
         \A x \in Int : lo <= x /\ x < hi => x \notin Covered(mb[t].regions)
  PROVE  TotalInv'
<1> DEFINE rs == mb[t].regions
           new == mb'[t].regions
           size == hi - lo
<1>1. /\ \A u \in Types : u # t => mb'[u] = mb[u]
      /\ mb'[t].total = mb[t].total + size
  <2>1. mb'[t] = memblock_insert_region(mb[t], i, lo, size)
    OBVIOUS
  <2>2. \A u \in Types : u # t => mb'[u] = mb[u]
    OBVIOUS
  <2> QED  BY <2>1, <2>2 DEF memblock_insert_region
<1>2. /\ ArrayOK(rs) /\ ArrayOK(new) /\ Len(new) = Len(rs) + 1 /\ i \in 1 .. Len(rs) + 1
      /\ \A k \in 1 .. i - 1 : new[k] = rs[k]
      /\ \A k \in i + 1 .. Len(rs) + 1 : new[k] = rs[k - 1]
      /\ new[i].base = lo /\ rend(new[i]) = hi
      /\ \A x \in Int : lo <= x /\ x < hi => x \notin Covered(rs)
  OBVIOUS
<1>3. mb[t].total = Cardinality(Covered(rs))
  BY DEF TotalInv
<1> HIDE DEF rs, new
<1>4. Covered(new) = Covered(rs) \cup lo .. (hi - 1)
  <2>1. Covered(new) = Covered(rs) \cup new[i].base .. (rend(new[i]) - 1)
    <3>1. GrownAt(rs, new, i)
      BY <1>2 DEF GrownAt
    <3> QED  BY <3>1, InsertCovers
  <2> QED  BY <1>2, <2>1
<1>5. Covered(rs) \cap lo .. (hi - 1) = {}
  BY <1>2
<1>6. Cardinality(Covered(new)) = Cardinality(Covered(rs)) + (hi - lo)
  BY <1>4, <1>5, CoveredFinite, CountOfAdded
<1>7. mb'[t].total = Cardinality(Covered(mb'[t].regions))
  BY <1>1, <1>3, <1>6 DEF new
<1> QED  BY <1>1, <1>7, OneTotal

LEMMA InsertFrontTotal == ASSUME IInv, RoomInv, TotalInv, InsertFront PROVE TotalInv'
<1> DEFINE rs == ScanRegions
           t == fr.type
           i == fr.idx
           lo == fr.base
           hi == ScanRegion.base
<1>1. /\ Scanning /\ pc = "insert" /\ ~hung
      /\ mb' = [mb EXCEPT ![t] = memblock_insert_region(@, i, lo, hi - lo)]
  BY DEF InsertFront, Running, Scanning
<1>2. /\ t \in Types /\ ArrayOK(rs) /\ Len(rs) \in Nat /\ lo \in Nat /\ fr.end \in Nat
      /\ \A k \in 1 .. Len(rs) : rs[k].base \in Nat
  BY <1>1, ScanFacts
<1>3. /\ i \in 1 .. Len(rs) /\ ScanRegion = rs[i] /\ lo < hi /\ hi < fr.end
      /\ \A k \in 1 .. i - 1 : rend(rs[k]) <= lo
  BY FrontInserted DEF ScanRegion
<1>4. /\ ArrayOK(mb'[t].regions) /\ Len(mb'[t].regions) = Len(rs) + 1
      /\ \A k \in 1 .. i - 1 : mb'[t].regions[k] = rs[k]
      /\ mb'[t].regions[i].base = lo /\ rend(mb'[t].regions[i]) = hi
      /\ \A k \in i + 1 .. Len(rs) + 1 : mb'[t].regions[k] = rs[k - 1]
  BY <1>1, ScanFacts, FrontInserted
<1>5. hi \in Nat /\ DOMAIN mb = Types
  BY <1>2, <1>3 DEF IInv, TypeOK
<1>6. \A x \in Int : lo <= x /\ x < hi => x \notin Covered(rs)
  <2>1. CountInv
    BY <1>1 DEF RoomInv
  <2>2. HasTail /\ hi \in Int /\ hi <= fr.end
    BY <1>2, <1>3, <1>5 DEF HasTail
  <2> QED  BY <1>1, <1>3, <2>1, <2>2, GapReached
<1>7. rs = mb[t].regions
  BY DEF ScanRegions
<1> HIDE DEF rs, t, i, lo, hi
<1>8. i \in 1 .. Len(rs) + 1 /\ lo <= hi /\ lo \in Int /\ hi \in Int
  BY <1>2, <1>3, <1>5
<1> QED  BY <1>1, <1>2, <1>4, <1>5, <1>6, <1>7, <1>8, InsertTotal

LEMMA InsertDoneTotal == ASSUME IInv, RoomInv, TotalInv, InsertDone PROVE TotalInv'
<1> DEFINE rs == ScanRegions
           t == fr.type
           i == fr.idx
           lo == fr.base
           hi == fr.end
<1>1. /\ Scanning /\ pc = "insert" /\ ~hung /\ ~InLoop
      /\ mb' = IF HasTail
               THEN [mb EXCEPT ![t] = memblock_insert_region(@, i, lo, hi - lo)] ELSE mb
  BY DEF InsertDone, Running, Scanning
<1>2. /\ t \in Types /\ ArrayOK(rs) /\ Len(rs) \in Nat /\ lo \in Nat /\ hi \in Nat
      /\ i \in 1 .. Len(rs) + 1 /\ DOMAIN mb = Types
      /\ \A k \in 1 .. Len(rs) : rs[k].base \in Nat
  BY <1>1, ScanFacts DEF IInv, TypeOK
<1>3. CASE HasTail
  <2>1. /\ ArrayOK(mb'[t].regions) /\ Len(mb'[t].regions) = Len(rs) + 1
        /\ \A k \in 1 .. i - 1 : mb'[t].regions[k] = rs[k]
        /\ mb'[t].regions[i].base = lo /\ rend(mb'[t].regions[i]) = hi
        /\ \A k \in i + 1 .. Len(rs) + 1 : mb'[t].regions[k] = rs[k - 1]
        /\ \A k \in 1 .. i - 1 : rend(rs[k]) <= lo
    BY <1>2, <1>3, TailInserted
  <2>2. lo < hi
    BY <1>3 DEF HasTail
  <2>3. \A x \in Int : lo <= x /\ x < hi => x \notin Covered(rs)
    <3>1. CountInv
      BY <1>1 DEF RoomInv
    <3>2. i <= Len(rs) => hi <= ScanRegion.base
      BY <1>1, <1>2 DEF InLoop, ScanRegion
    <3>3. hi \in Int /\ hi <= fr.end
      BY <1>2
    <3> QED  BY <1>1, <1>3, <2>1, <2>2, <3>1, <3>2, <3>3, GapReached
  <2>4. rs = mb[t].regions
    BY DEF ScanRegions
  <2> HIDE DEF rs, t, i, lo, hi
  <2>5. lo <= hi /\ lo \in Int /\ hi \in Int
    BY <1>2, <2>2
  <2> QED  BY <1>1, <1>2, <1>3, <2>1, <2>3, <2>4, <2>5, InsertTotal
<1>4. CASE ~HasTail
  BY <1>1, <1>4, SameTotals
<1> QED  BY <1>3, <1>4

LEMMA MergeTotal == ASSUME IInv, TotalInv, Merge PROVE TotalInv'
<1> DEFINE rs == ScanRegions
           i == fr.idx
           t == fr.type
           new == mb'[t].regions
<1>1. ~hung /\ t \in Types /\ DOMAIN mb = Types
  BY MergeFacts DEF Merge, Merging, Running, IInv, TypeOK
<1>2. /\ ArrayOK(rs) /\ i \in 1 .. Len(rs) - 1 /\ rend(rs[i]) = rs[i + 1].base
      /\ \A u \in Types : u # t => mb'[u] = mb[u]
      /\ ArrayOK(new) /\ Len(new) = Len(rs) - 1
      /\ \A k \in 1 .. i - 1 : new[k] = rs[k]
      /\ new[i].base = rs[i].base /\ rend(new[i]) = rend(rs[i + 1])
      /\ \A k \in i + 1 .. Len(rs) - 1 : new[k] = rs[k + 1]
  BY <1>1, Merged
<1>3. mb'[t].total = mb[t].total
  <2>1. mb'[t] = MergeAt(mb[t], i)
    BY <1>1 DEF Merge
  <2> QED  BY <1>1, <2>1 DEF MergeAt, IInv, TypeOK
<1>4. mb[t].total = Cardinality(Covered(rs))
  BY <1>1 DEF TotalInv, ScanRegions
<1> HIDE DEF rs, i, t
<1>5. Covered(new) = Covered(rs)
  <2> HIDE DEF new
  <2> QED  BY <1>2, MergeCovers
<1> QED  BY <1>1, <1>2, <1>3, <1>4, <1>5, OneTotal

\* The total of the part put back makes up for what the rest has lost.
LEMMA SplitTotal ==
  ASSUME IInv, TotalInv, Isolating, InLoop, NEW cut \in {fr.base, fr.end},
         rend(ScanRegion) > fr.base, ScanRegion.base < cut, cut < rend(ScanRegion),
         SplitAt(cut)
  PROVE  TotalInv'
<1> DEFINE rs == ScanRegions
           i == fr.idx
           t == fr.type
           new == mb'[t].regions
           low == ScanRegion.base
<1>1. /\ ~hung /\ t \in Types /\ DOMAIN mb = Types /\ mb[t].total \in Int
      /\ ArrayOK(rs) /\ i \in 1 .. Len(rs) /\ low = rs[i].base
      /\ cut \in Nat
  BY IsolateFacts DEF InLoop, ScanRegion, IInv, TypeOK
<1>2. low \in Nat
  BY <1>1, ArrayFacts DEF Flat
<1>3. CASE Full(rs)
  <2>1. hung' = TRUE
    BY <1>3 DEF SplitAt, Bug, ScanRegions
  <2> QED  BY <2>1 DEF TotalInv
<1>4. CASE ~Full(rs)
  <2>1. /\ ArrayOK(new) /\ Len(new) = Len(rs) + 1
        /\ \A u \in Types : u # t => mb'[u] = mb[u]
        /\ \A k \in 1 .. i - 1 : new[k] = rs[k]
        /\ new[i].base = rs[i].base /\ rend(new[i]) = cut
        /\ new[i + 1].base = cut /\ rend(new[i + 1]) = rend(rs[i])
        /\ \A k \in i + 2 .. Len(rs) + 1 : new[k] = rs[k - 1]
    BY <1>1, <1>4, SplitRoom
  <2>2. mb'[t].total = (mb[t].total - (cut - low)) + (cut - low)
    <3> DEFINE m == ShrinkTo(mb[t], i, cut)
    <3>1. mb' = [mb EXCEPT ![t] = memblock_insert_region(m, i, low, cut - low)]
      BY <1>4 DEF SplitAt, ScanRegions
    <3>2. m.total = mb[t].total - (cut - low)
      BY DEF ShrinkTo, ScanRegions, ScanRegion
    <3> HIDE DEF m, low
    <3>3. mb'[t] = memblock_insert_region(m, i, low, cut - low)
      BY <1>1, <3>1
    <3> QED  BY <3>2, <3>3 DEF memblock_insert_region
  <2>3. mb'[t].total = mb[t].total
    <3> HIDE DEF low
    <3> QED  BY <1>1, <1>2, <2>2
  <2>4. mb[t].total = Cardinality(Covered(rs))
    BY <1>1 DEF TotalInv, ScanRegions
  <2> HIDE DEF rs, i, t
  <2>5. Covered(new) = Covered(rs)
    <3> HIDE DEF new
    <3>1. /\ ArrayOK(rs) /\ ArrayOK(new) /\ Len(new) = Len(rs) + 1
          /\ i \in 1 .. Len(rs)
          /\ new[i].base = rs[i].base /\ rend(new[i]) = new[i + 1].base
          /\ rend(new[i + 1]) = rend(rs[i])
          /\ \A k \in 1 .. i - 1 : new[k] = rs[k]
          /\ \A k \in i + 2 .. Len(rs) + 1 : new[k] = rs[k - 1]
      BY <1>1, <2>1
    <3> QED  BY <3>1, SplitCovers
  <2> QED  BY <1>1, <2>1, <2>3, <2>4, <2>5, OneTotal
<1> QED  BY <1>3, <1>4

LEMMA IsolateFrontTotal == ASSUME IInv, TotalInv, IsolateFront PROVE TotalInv'
<1>1. /\ Isolating /\ InLoop /\ rend(ScanRegion) > fr.base /\ ScanRegion.base < fr.base
      /\ SplitAt(fr.base)
  BY DEF IsolateFront, Overlapping, CutsFront
<1>2. rend(ScanRegion) \in Nat /\ fr.base \in Nat
  BY <1>1, IsolateElements, IsolateFacts DEF InLoop, ScanRegion
<1>3. fr.base < rend(ScanRegion)
  BY <1>1, <1>2
<1> QED  BY <1>1, <1>3, SplitTotal

LEMMA IsolateBackTotal == ASSUME IInv, TotalInv, IsolateBack PROVE TotalInv'
<1>1. /\ Isolating /\ InLoop /\ rend(ScanRegion) > fr.base /\ ScanRegion.base < fr.end
      /\ rend(ScanRegion) > fr.end /\ SplitAt(fr.end)
  BY DEF IsolateBack, Overlapping, CutsBack, InLoop
<1>2. rend(ScanRegion) \in Nat /\ fr.end \in Nat
  BY <1>1, IsolateElements, IsolateFacts DEF InLoop, ScanRegion
<1>3. fr.end < rend(ScanRegion)
  BY <1>1, <1>2
<1> QED  BY <1>1, <1>3, SplitTotal

\* A region alone, or one that others are left behind of.
LEMMA RemoveLastTotal == ASSUME IInv, TotalInv, RemoveLast PROVE TotalInv'
<1> DEFINE rs == ScanRegions
           i == fr.idx
           t == fr.type
           new == IF Len(rs) = 1 THEN Empty ELSE RemoveAt(rs, i)
           lo == rs[i].base
           hi == rend(rs[i])
<1>1. /\ pc = "remove" /\ ~hung /\ t \in Types /\ DOMAIN mb = Types
      /\ ArrayOK(rs) /\ TouchAtCuts(rs) /\ Len(rs) \in Nat /\ mb[t].total \in Int
  BY RemoveFacts DEF RemoveLast, Running, IInv, TypeOK
<1>2. /\ i \in 1 .. Len(rs) /\ mb'[t].regions = new
      /\ \A u \in Types : u # t => mb'[u] = mb[u]
  BY LastRemoved
<1>3. Sorted(rs)
  BY <1>1, IsolatedOrder
<1>4. mb'[t].total = mb[t].total - rs[i].size
  <2>1. mb'[t] = memblock_remove_region(mb[t], i)
    BY <1>1 DEF RemoveLast
  <2> QED  BY <2>1 DEF memblock_remove_region, ScanRegions
<1>5. mb[t].total = Cardinality(Covered(rs))
  BY <1>1 DEF TotalInv, ScanRegions
<1> HIDE DEF rs, i, t
<1>6. lo \in Nat /\ hi \in Nat /\ rs[i].size \in Nat /\ hi = lo + rs[i].size
  BY <1>1, <1>2, ArrayFacts DEF Flat
<1>7. /\ Covered(rs) = Covered(new) \cup lo .. (hi - 1)
      /\ Covered(new) \cap lo .. (hi - 1) = {}
  <2>1. CASE Len(rs) = 1
    <3>1. i = 1 /\ Covered(new) = {}
      BY <1>2, <2>1, EmptyCovers
    <3>2. \A x : x \in Covered(rs) <=> x \in Addr /\ lo <= x /\ x < hi
      <4>1. \A k : k \in 1 .. Len(rs) <=> k = i
        BY <2>1, <3>1
      <4> QED  BY <1>1, <4>1, CoveredByte
    <3>3. hi \in Addr
      BY <1>1, <1>2, ArrayFacts DEF Flat
    <3>4. \A x : x \in lo .. (hi - 1) <=> x \in Addr /\ lo <= x /\ x < hi
      <4> HIDE DEF lo, hi
      <4> QED  BY <1>6, <3>3, SizesAssumption DEF Addr
    <3> HIDE DEF lo, hi, new
    <3> QED  BY <3>1, <3>2, <3>4
  <2>2. CASE Len(rs) # 1
    <3>1. new = RemoveAt(rs, i)
      BY <2>2
    <3>2. /\ ArrayOK(new) /\ Len(new) = Len(rs) - 1
          /\ \A k \in 1 .. i - 1 : new[k] = rs[k]
          /\ \A k \in i .. Len(rs) - 1 : new[k] = rs[k + 1]
      BY <1>1, <1>2, <2>2, <3>1, RemoveRegion
    <3> HIDE DEF new
    <3>3. Covered(rs) = Covered(new) \cup lo .. (hi - 1)
      <4>1. ArrayOK(rs) /\ i \in 1 .. Len(rs)
        BY <1>1, <1>2
      <4> QED  BY <3>2, <4>1, RemoveCovers
    <3>4. ASSUME NEW x \in Covered(new) PROVE x \notin lo .. (hi - 1)
      <4>1. x \in Addr /\ x \in Int
        BY <3>2, CoveredByte, SizesAssumption DEF Addr
      <4>2. PICK l \in 1 .. Len(rs) - 1 : new[l].base <= x /\ x < rend(new[l])
        BY <3>2, CoveredByte
      <4>3. PICK k \in 1 .. Len(rs) : k # i /\ new[l] = rs[k]
        <5>1. CASE l < i
          <6>1. l \in 1 .. i - 1 /\ l \in 1 .. Len(rs) /\ l # i
            BY <1>1, <1>2, <5>1
          <6> QED  BY <3>2, <6>1
        <5>2. CASE ~(l < i)
          <6>1. l \in i .. Len(rs) - 1 /\ l + 1 \in 1 .. Len(rs) /\ l + 1 # i
            BY <1>1, <1>2, <5>2
          <6> QED  BY <3>2, <6>1
        <5> QED  BY <5>1, <5>2
      <4>4. rs[k].base <= x /\ x < rend(rs[k])
        BY <4>2, <4>3
      <4> QED  BY <1>1, <1>2, <1>3, <4>1, <4>3, <4>4, BytesApart
    <3> QED  BY <3>3, <3>4
  <2> QED  BY <2>1, <2>2
<1> HIDE DEF new, lo, hi
<1>8. Cardinality(Covered(rs)) = Cardinality(Covered(new)) + (hi - lo)
  <2>1. lo \in Int /\ hi \in Int /\ lo <= hi
    BY <1>6
  <2> QED  BY <1>7, <2>1, CoveredFinite, CountOfAdded
<1>9. Cardinality(Covered(new)) \in Nat
  BY CoveredFinite
<1>10. mb'[t].total = Cardinality(Covered(mb'[t].regions))
  BY <1>1, <1>2, <1>4, <1>5, <1>6, <1>8, <1>9
<1> QED  BY <1>1, <1>2, <1>10, OneTotal

LEMMA AddRangeTotal ==
  ASSUME IInv, TotalInv, ~hung, NEW t \in Types, NEW base \in Addr, NEW size \in Addr,
         memblock_add_range(t, base, size)
  PROVE  TotalInv'
<1> DEFINE capped == memblock_cap_size(base, size)
<1>1. capped \in Addr /\ capped \in Nat /\ base + capped \in Addr
  BY CapFacts
<1>2. base \in Nat /\ DOMAIN mb = Types
  BY SizesAssumption DEF Addr, IInv, TypeOK
<1>3. \/ mb' = mb
      \/ mb' = [mb EXCEPT ![t] =
           [regions |-> <<[base |-> base, size |-> capped]>>, total |-> capped]]
  BY DEF memblock_add_range
<1> HIDE DEF capped
<1>4. CASE mb' = [mb EXCEPT ![t] =
             [regions |-> <<[base |-> base, size |-> capped]>>, total |-> capped]]
  <2> DEFINE one == <<[base |-> base, size |-> capped]>>
  <2>1. Covered(one) = base .. (base + capped - 1)
    BY <1>1, SingleCovers
  <2> HIDE DEF one
  <2>2. /\ mb'[t].regions = one /\ mb'[t].total = capped
        /\ \A u \in Types : u # t => mb'[u] = mb[u]
    BY <1>2, <1>4 DEF one
  <2>3. Cardinality(base .. (base + capped - 1)) = capped
    <3>1. base \in Int /\ base + capped - 1 \in Int
      BY <1>1, <1>2
    <3>2. Cardinality(base .. (base + capped - 1)) =
            IF base > base + capped - 1 THEN 0 ELSE (base + capped - 1) - base + 1
      BY <3>1, FS_Interval
    <3> QED  BY <1>1, <1>2, <3>2
  <2> QED  BY <2>1, <2>2, <2>3, OneTotal
<1> QED  BY <1>3, <1>4, SameTotals

-----------------------------------------------------------------------------
LEMMA CallTotal == ASSUME IInv, TotalInv, Call PROVE TotalInv'
<1>1. "memory" \in Types /\ "reserved" \in Types
  BY DEF Types
<1>2. ASSUME NEW c \in AddCalls, memblock_add(c[1], c[2]) PROVE TotalInv'
  <2>1. c[1] \in Addr /\ c[2] \in Addr
    BY CallsAssumption DEF Ranges
  <2> QED  BY <1>1, <1>2, <2>1, AddRangeTotal DEF memblock_add, Running
<1>3. ASSUME NEW c \in ReserveCalls, memblock_reserve(c[1], c[2]) PROVE TotalInv'
  <2>1. c[1] \in Addr /\ c[2] \in Addr
    BY CallsAssumption DEF Ranges
  <2> QED  BY <1>1, <1>3, <2>1, AddRangeTotal DEF memblock_reserve, Running
<1>4. ASSUME NEW c \in FreeCalls, memblock_free(c[1], c[2]) PROVE TotalInv'
  <2>1. mb' = mb /\ ~hung
    BY <1>4 DEF memblock_free, Running
  <2> QED  BY <2>1, SameTotals
<1>5. ASSUME NEW r \in AllocCalls, memblock_phys_alloc_range(r) PROVE TotalInv'
  <2>1. mb' = mb /\ ~hung
    BY <1>5 DEF memblock_phys_alloc_range, Running
  <2> QED  BY <2>1, SameTotals
<1> QED  BY <1>2, <1>3, <1>4, <1>5 DEF Call

LEMMA AddStepTotal == ASSUME IInv, RoomInv, TotalInv, AddStep PROVE TotalInv'
<1>1. CASE InsertFront \/ InsertDone \/ Merge
  BY <1>1, InsertFrontTotal, InsertDoneTotal, MergeTotal
<1>2. CASE ~(InsertFront \/ InsertDone \/ Merge)
  <2>1. mb' = mb /\ ~hung
    BY <1>2 DEF AddStep, ScanSkip, ScanOverlap, CountFront, CountDone, InsertBug,
       MergeNext, MergeDone, Merging, Scanning, Running
  <2> QED  BY <2>1, SameTotals
<1> QED  BY <1>1, <1>2

LEMMA FreeStepTotal == ASSUME IInv, TotalInv, FreeStep PROVE TotalInv'
<1>1. CASE IsolateFront \/ IsolateBack \/ RemoveLast
  BY <1>1, IsolateFrontTotal, IsolateBackTotal, RemoveLastTotal
<1>2. CASE ~(IsolateFront \/ IsolateBack \/ RemoveLast)
  <2>1. mb' = mb /\ ~hung
    BY <1>2 DEF FreeStep, IsolateSkip, IsolateWhole, IsolateDone, RemoveDone,
       Overlapping, Isolating, Running
  <2> QED  BY <2>1, SameTotals
<1> QED  BY <1>1, <1>2

LEMMA AllocStepTotal == ASSUME IInv, TotalInv, AllocStep PROVE TotalInv'
<1>1. CASE AllocReserve
  <2>1. found \in Addr /\ fr.size \in Addr /\ "reserved" \in Types
    BY <1>1 DEF AllocReserve, Running, IInv, TypeOK, FrameOK, SearchFrames, Types
  <2> QED  BY <1>1, <2>1, AddRangeTotal DEF AllocReserve, Running
<1>2. CASE ~AllocReserve
  <2>1. mb' = mb /\ ~hung
    BY <1>2 DEF AllocStep, FindPrevRegion, FindPrevGap, FindTry, FindHit, FindFail,
       FreeRange, Finding, Running
  <2> QED  BY <2>1, SameTotals
<1> QED  BY <1>1, <1>2

LEMMA StepTotal == ASSUME IInv, RoomInv, TotalInv, [Next]_vars PROVE TotalInv'
<1>1. CASE UNCHANGED vars
  BY <1>1 DEF vars, TotalInv
<1>2. CASE Halted
  BY <1>2 DEF Halted, vars, TotalInv
<1> QED  BY <1>1, <1>2, CallTotal, AddStepTotal, FreeStepTotal, AllocStepTotal DEF Next, Step

LEMMA InitTotal == Init => TotalInv
<1> SUFFICES ASSUME Init PROVE TotalInv
  OBVIOUS
<1>1. \A t \in Types : mb[t].regions = Empty /\ mb[t].total = 0
  BY DEF Init
<1> QED  BY <1>1, EmptyCovers, FS_EmptySet DEF TotalInv

\* A region without bytes is the dummy one.
LEMMA DummyAlone ==
  ASSUME IInv, ~hung, NEW t \in Types
  PROVE  mb[t].regions = Empty \/ NoneEmpty(mb[t].regions)
<1>1. CASE ~Changing(t)
  BY <1>1 DEF IInv, OthersCanonical, CanonicalArray
<1>2. CASE Changing(t)
  <2>1. pc \in {"insert", "merge", "isolate", "remove"} /\ ScanRegions = mb[t].regions
    BY <1>2 DEF Changing, ScanRegions
  <2>2. NoneEmpty(ScanRegions) \/ TouchAtCuts(ScanRegions)
    BY <2>1 DEF IInv, ScanInv, MergeInv, IsolateInv, RemoveInv
  <2> QED  BY <2>1, <2>2 DEF TouchAtCuts
<1> QED  BY <1>1, <1>2

\* total_size is the number of bytes that the regions cover, at every step of
\* every call, and an entry without bytes is alone.
THEOREM TotalsAreRight == Spec => []Accounting
<1>1. IInv /\ TotalInv => Accounting
  <2> SUFFICES ASSUME IInv, TotalInv, ~hung, NEW t \in Types
               PROVE  /\ mb[t].total = Cardinality(Covered(mb[t].regions))
                      /\ (\E i \in DOMAIN mb[t].regions : mb[t].regions[i].size = 0) =>
                           Len(mb[t].regions) = 1 /\ mb[t].total = 0
    BY DEF Accounting
  <2>1. mb[t].total = Cardinality(Covered(mb[t].regions))
    BY DEF TotalInv
  <2>2. CASE mb[t].regions = Empty
    <3>1. Len(Empty) = 1
      BY DEF Empty
    <3> QED  BY <2>1, <2>2, <3>1, EmptyCovers, FS_EmptySet
  <2>3. CASE NoneEmpty(mb[t].regions)
    <3>1. \A i \in DOMAIN mb[t].regions : mb[t].regions[i].size > 0
      BY <2>3 DEF NoneEmpty
    <3>2. \A i \in DOMAIN mb[t].regions : mb[t].regions[i].size # 0
      BY <3>1
    <3> QED  BY <2>1, <3>2
  <2> QED  BY <2>2, <2>3, DummyAlone
<1> QED  BY Invariance, RoomAlways, InitTotal, StepTotal, <1>1, PTL DEF Spec
=============================================================================
