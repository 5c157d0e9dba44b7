---------------------------- MODULE MemblockInv -----------------------------
(***************************************************************************)
(* The inductive invariant of the boot memory allocator: what each loop    *)
(* has established about the regions before its index.                     *)
(***************************************************************************)
EXTENDS MemblockProps

\* The array that the running loop rearranges; every other one is canonical.
Changing(t) == pc \in {"insert", "merge", "isolate", "remove"} /\ fr.type = t
OthersCanonical ==
  \A t \in Types : ~Changing(t) => CanonicalArray(mb[t].regions)

\* The regions before idx lie below what is left of the range.
ScanInv ==
  pc \in {"count", "insert"} =>
    /\ NoneEmpty(ScanRegions)
    /\ Sorted(ScanRegions)
    /\ \A k \in 1 .. fr.idx - 1 : rend(ScanRegions[k]) <= fr.base \/ fr.base = fr.end

\* Up to idx nothing touches any more.
MergeInv ==
  pc = "merge" =>
    /\ NoneEmpty(ScanRegions)
    /\ Sorted(ScanRegions)
    /\ \A k, l \in 1 .. fr.idx : k < l => rend(ScanRegions[k]) < ScanRegions[l].base

\* While a range is isolated and removed only the cuts at its two ends make
\* neighbours touch.
TouchAtCuts(rs) ==
  \/ rs = Empty
  \/ /\ NoneEmpty(rs)
     /\ \A k, l \in DOMAIN rs : k < l =>
          \/ rend(rs[k]) < rs[l].base
          \/ rend(rs[k]) = rs[l].base /\ rs[l].base \in {fr.base, fr.end}

Below(r) == rend(r) <= fr.base
Above(r) == fr.end <= r.base

IsolateInv ==
  pc = "isolate" =>
    /\ TouchAtCuts(ScanRegions)
    /\ IF fr.end_rgn = 0
       THEN /\ fr.start_rgn = 1
            /\ \A k \in 1 .. fr.idx - 1 : Below(ScanRegions[k])
       ELSE /\ fr.end_rgn = fr.idx - 1
            /\ fr.start_rgn <= fr.end_rgn
            /\ \A k \in 1 .. fr.start_rgn - 1 : Below(ScanRegions[k])
            /\ fr.base <= ScanRegions[fr.end_rgn].base

\* Every region that is not on the list to be removed is outside the range.
RemoveInv ==
  pc = "remove" =>
    /\ TouchAtCuts(ScanRegions)
    /\ \A k \in DOMAIN ScanRegions :
         k < fr.start_rgn \/ fr.idx < k =>
           Below(ScanRegions[k]) \/ Above(ScanRegions[k])

\* Only the two loops with a BUG in them can hang.
HangsInLoops == hung => pc \in {"insert", "isolate"}

\* The invariant; after a BUG only the types are left.
IInv ==
  /\ TypeOK
  /\ ~hung => /\ OthersCanonical
              /\ ScanInv
              /\ MergeInv
              /\ IsolateInv
              /\ RemoveInv
              /\ AllocFree

-----------------------------------------------------------------------------
(***************************************************************************)
(* What else is needed to see that the arrays implement sets of addresses: *)
(* what the calls have done so far to the bytes of their range.            *)
(***************************************************************************)
\* What lies before base is covered, in the first pass as long as no region to
\* be inserted was found.
Done == fr.obase .. (fr.base - 1)
ScannedInv ==
  pc = "insert" \/ (pc = "count" /\ fr.nr_new = 0) => Done \subseteq Covered(ScanRegions)

\* The regions on the list to be removed have no bytes outside the range.
Inside(r) == fr.base <= r.base /\ rend(r) <= fr.end
RemovableInv ==
  /\ pc = "isolate" /\ fr.end_rgn # 0 =>
       \A k \in fr.start_rgn .. fr.end_rgn : Inside(ScanRegions[k])
  /\ pc = "remove" => \A k \in fr.start_rgn .. fr.idx : Inside(ScanRegions[k])

\* A place that would do, and the pair of a memory region and a gap around it.
Place(x) ==
  /\ fr.start <= x /\ x + fr.size <= fr.end /\ x % fr.align = 0
  /\ x .. (x + fr.size - 1) \subseteq
       Covered(mb["memory"].regions) \ Covered(mb["reserved"].regions)
InRegion(x, a) ==
  /\ mb["memory"].regions[a].base <= x
  /\ x + fr.size <= rend(mb["memory"].regions[a])
InGap(x, b) ==
  /\ GapStart(mb["reserved"].regions, b) <= x
  /\ x + fr.size <= GapEnd(mb["reserved"].regions, b)

\* The search has passed no place that would do.
SearchInv ==
  pc = "find" /\ fr.size > 0 =>
    \A x \in Addr : Place(x) =>
      \E a \in 1 .. fr.a, b \in 0 .. fr.b : InRegion(x, a) /\ InGap(x, b)

SetsInv == ~hung => ScannedInv /\ RemovableInv /\ SearchInv

-----------------------------------------------------------------------------
(***************************************************************************)
(* And to see how many regions a call needs: the first pass counts the     *)
(* gaps in the range, the second fills them, and a range has two ends.     *)
(***************************************************************************)
\* The parts of the range that no region covers, by their first bytes.
Gaps ==
  {x \in fr.obase .. (fr.end - 1) :
     /\ x \notin Covered(ScanRegions)
     /\ x = fr.obase \/ x - 1 \in Covered(ScanRegions)}
GapsBelow(y) == {x \in Gaps : x < y}

CountInv ==
  /\ pc \in {"count", "insert"} =>
       fr.base = fr.obase \/ fr.base - 1 \in Covered(ScanRegions)
  /\ pc = "count" => /\ Len(ScanRegions) = fr.cnt0
                     /\ fr.nr_new = Cardinality(GapsBelow(fr.base))
  /\ pc = "insert" => /\ Len(ScanRegions) = fr.cnt0 + fr.nr_new
                      /\ fr.planned = fr.nr_new + Cardinality(Gaps)

\* A region that has x inside will be cut there.
Divided(rs, x) == \E k \in DOMAIN rs : rs[k].base < x /\ x < rend(rs[k])
Cuts(x) == IF Divided(ScanRegions, x) THEN 1 ELSE 0
CutInv ==
  pc = "isolate" => Len(ScanRegions) + Cuts(fr.base) + Cuts(fr.end) <= fr.cnt0 + 2

RoomInv == /\ ~hung => CountInv /\ CutInv
           /\ HangsOnlyWhenFull

\* total_size counts the bytes.
TotalInv ==
  ~hung => \A t \in Types : mb[t].total = Cardinality(Covered(mb[t].regions))
=============================================================================
