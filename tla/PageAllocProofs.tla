-------------------------- MODULE PageAllocProofs ---------------------------
(***************************************************************************)
(* For a bitmap of any length: the scan finds the first place that fits,   *)
(* every page has one owner, a page that is in use is not handed out       *)
(* again, and all pages are RAM.                                           *)
(***************************************************************************)
EXTENDS PageAlloc, WellFoundedInduction, TLAPS

-----------------------------------------------------------------------------
(***************************************************************************)
(* Induction over the natural numbers in terms of sets, from the theorem   *)
(* that < is well-founded on them.  It is used where a proof goes along a  *)
(* bitmap or a list bit by bit.                                            *)
(***************************************************************************)

\* A set of natural numbers that is not empty has a least element.
LEMMA LeastNat ==
  ASSUME NEW T, T \subseteq Nat, T # {}
  PROVE  \E x \in T : \A y \in T : x <= y
<1> DEFINE R == OpToRel(<, Nat)
<1>1. IsWellFoundedOn(R, Nat)
  BY NatLessThanWellFounded
<1>2. \A x, y \in Nat : x < y => <<x, y>> \in R
  BY DEF OpToRel
<1> HIDE DEF R
<1>3. PICK x \in T : \A y \in T : ~(<<y, x>> \in R)
  BY <1>1, WFMin
<1>4. \A y \in T : x <= y
  <2> TAKE y \in T
  <2>1. x \in Nat /\ y \in Nat
    OBVIOUS
  <2>2. ~(y < x)
    BY <2>1, <1>2, <1>3
  <2> QED BY <2>1, <2>2
<1> QED BY <1>4

\* A set with 0 that holds n + 1 when it holds n has all natural numbers.
LEMMA Induct ==
  ASSUME NEW S, 0 \in S, \A n \in Nat : n \in S => n + 1 \in S
  PROVE  Nat \subseteq S
<1> SUFFICES ASSUME NEW m \in Nat, m \notin S PROVE FALSE
  OBVIOUS
<1> DEFINE T == Nat \ S
<1>1. PICK x \in T : \A y \in T : x <= y
  BY LeastNat
<1>2. x \in Nat /\ x # 0 /\ x \notin S
  OBVIOUS
<1>3. x - 1 \in Nat /\ (x - 1) + 1 = x
  BY <1>2
<1>4. x - 1 \in S
  BY <1>1, <1>3
<1> QED BY <1>2, <1>3, <1>4
-----------------------------------------------------------------------------
(***************************************************************************)
(* The counter of bitmap_scan.  After n bits it is the distance to the     *)
(* last bit that was set.                                                  *)
(***************************************************************************)
N == length * BYTE_BITS

\* d free bits before n, and no more.
IsRun(map, n, d) ==
  /\ d \in 0 .. n
  /\ \A i \in n - d .. n - 1 : i \notin map
  /\ d = n \/ n - d - 1 \in map

\* There is such a number ...
LEMMA RunExists ==
  ASSUME NEW map, NEW n \in Nat
  PROVE  \E d : IsRun(map, n, d)
<1> DEFINE T == {d \in 0 .. n : d = n \/ n - d - 1 \in map}
<1>1. T \subseteq Nat /\ n \in T
  OBVIOUS
<1>2. PICK d \in T : \A e \in T : d <= e
  BY <1>1, LeastNat
<1>3. \A i \in n - d .. n - 1 : i \notin map
  <2> TAKE i \in n - d .. n - 1
  <2> SUFFICES ASSUME i \in map PROVE FALSE
    OBVIOUS
  <2>1. n - 1 - i \in 0 .. n /\ n - (n - 1 - i) - 1 = i /\ n - 1 - i < d
    OBVIOUS
  <2>2. n - 1 - i \in T
    BY <2>1
  <2> QED BY <1>2, <2>1, <2>2
<1> QED BY <1>3 DEF IsRun

\* ... and no other.
LEMMA RunUnique ==
  ASSUME NEW map, NEW n \in Nat, NEW d, NEW e, IsRun(map, n, d), IsRun(map, n, e)
  PROVE  d = e
<1>1. ASSUME NEW a, NEW b, IsRun(map, n, a), IsRun(map, n, b), a < b
      PROVE  FALSE
  <2>1. a \in 0 .. n /\ b \in 0 .. n /\ a # n
    BY <1>1 DEF IsRun
  <2>2. n - a - 1 \in map
    BY <1>1, <2>1 DEF IsRun
  <2>3. n - a - 1 \in n - b .. n - 1
    BY <1>1, <2>1
  <2> QED BY <1>1, <2>2, <2>3 DEF IsRun
<1>2. d \in Int /\ e \in Int
  BY DEF IsRun
<1> QED BY <1>1, <1>2

\* One more bit.
LEMMA RunStep ==
  ASSUME NEW map, NEW n \in Nat, NEW d, IsRun(map, n, d)
  PROVE  IF n \in map THEN IsRun(map, n + 1, 0) ELSE IsRun(map, n + 1, d + 1)
<1>1. d \in 0 .. n
  BY DEF IsRun
<1>2. ASSUME n \in map PROVE IsRun(map, n + 1, 0)
  BY <1>2 DEF IsRun
<1>3. ASSUME n \notin map PROVE IsRun(map, n + 1, d + 1)
  <2>1. d + 1 \in 0 .. n + 1
    BY <1>1
  <2>2. \A i \in n + 1 - (d + 1) .. n + 1 - 1 : i \notin map
    <3> TAKE i \in n + 1 - (d + 1) .. n + 1 - 1
    <3>1. i = n \/ i \in n - d .. n - 1
      BY <1>1
    <3> QED BY <1>3, <3>1 DEF IsRun
  <2>3. d + 1 = n + 1 \/ n + 1 - (d + 1) - 1 \in map
    <3>1. n + 1 - (d + 1) - 1 = n - d - 1
      BY <1>1
    <3> QED BY <1>1, <3>1 DEF IsRun
  <2> QED BY <2>1, <2>2, <2>3 DEF IsRun
<1> QED BY <1>2, <1>3

\* The counter as the loop of bitmap_scan computes it.
Counts(map, run) ==
  run = [n \in 0 .. N |-> IF n = 0 \/ n - 1 \in map THEN 0 ELSE run[n - 1] + 1]

\* The definition of the counter has a solution.
LEMMA CounterExists ==
  ASSUME NEW map, N \in Nat
  PROVE  \E run : Counts(map, run)
<1> DEFINE r == [n \in 0 .. N |-> CHOOSE d : IsRun(map, n, d)]
<1>1. \A n \in 0 .. N : IsRun(map, n, r[n])
  BY RunExists
<1> HIDE DEF r
<1>2. \A n \in 0 .. N : r[n] = IF n = 0 \/ n - 1 \in map THEN 0 ELSE r[n - 1] + 1
  <2> TAKE n \in 0 .. N
  <2>1. CASE n = 0
    BY <1>1, <2>1 DEF IsRun
  <2>2. CASE n # 0
    <3>1. n - 1 \in 0 .. N /\ n - 1 \in Nat /\ (n - 1) + 1 = n
      BY <2>2
    <3>2. IsRun(map, n - 1, r[n - 1])
      BY <1>1, <3>1
    <3>3. IF n - 1 \in map THEN IsRun(map, n, 0) ELSE IsRun(map, n, r[n - 1] + 1)
      BY <3>1, <3>2, RunStep
    <3>4. IsRun(map, n, r[n])
      BY <1>1
    <3> QED BY <2>2, <3>3, <3>4, RunUnique
  <2> QED BY <2>1, <2>2
<1>3. r = [n \in 0 .. N |-> IF n = 0 \/ n - 1 \in map THEN 0 ELSE r[n - 1] + 1]
  <2>1. r = [n \in 0 .. N |-> r[n]]
    BY DEF r
  <2> QED BY <1>2, <2>1
<1> QED BY <1>3 DEF Counts

\* After each bit the counter is the number of free bits before.
LEMMA CounterIsRun ==
  ASSUME NEW map, N \in Nat, NEW n \in 0 .. N
  PROVE  /\ IsRun(map, n, FreeRun(map)[n])
         /\ DOMAIN FreeRun(map) = 0 .. N
<1> DEFINE r == FreeRun(map)
<1>1. Counts(map, r)
  <2>1. r = CHOOSE run : Counts(map, run)
    BY DEF FreeRun, Counts, N
  <2> QED BY <2>1, CounterExists
<1> HIDE DEF r
<1>2. DOMAIN r = 0 .. N /\
      \A k \in 0 .. N : r[k] = IF k = 0 \/ k - 1 \in map THEN 0 ELSE r[k - 1] + 1
  BY <1>1 DEF Counts
<1> DEFINE S == {k \in Nat : k <= N => IsRun(map, k, r[k])}
<1>3. 0 \in S
  <2>1. r[0] = 0
    BY <1>2
  <2> QED BY <2>1 DEF IsRun
<1>4. \A k \in Nat : k \in S => k + 1 \in S
  <2> SUFFICES ASSUME NEW k \in Nat, k \in S, k + 1 <= N
               PROVE  IsRun(map, k + 1, r[k + 1])
    OBVIOUS
  <2>1. IsRun(map, k, r[k])
    OBVIOUS
  <2>2. r[k + 1] = IF k \in map THEN 0 ELSE r[k] + 1
    BY <1>2
  <2>3. IF k \in map THEN IsRun(map, k + 1, 0) ELSE IsRun(map, k + 1, r[k] + 1)
    BY <2>1, RunStep
  <2>4. CASE k \in map
    BY <2>2, <2>3, <2>4
  <2>5. CASE k \notin map
    BY <2>2, <2>3, <2>5
  <2> QED BY <2>4, <2>5
<1>5. n \in S
  <2> HIDE DEF S
  <2>1. Nat \subseteq S
    BY <1>3, <1>4, Induct
  <2> QED BY <2>1
<1> QED BY <1>2, <1>5 DEF r

-----------------------------------------------------------------------------
(***************************************************************************)
(* The scan finds the first place that fits.                               *)
(***************************************************************************)

\* A lower bound that is an element is the minimum.
LEMMA MinIs ==
  ASSUME NEW S, S \subseteq Int, NEW x \in S, \A y \in S : x <= y
  PROVE  Min(S) = x
<1>1. Min(S) \in S /\ \A y \in S : Min(S) <= y
  BY DEF Min
<1>2. Min(S) <= x /\ x <= Min(S) /\ x \in Int /\ Min(S) \in Int
  BY <1>1
<1> QED BY <1>2

\* The places for count pages in a row, and the bits at which the loop of
\* bitmap_scan stops.
Fits(map, count) ==
  {s \in Pages : s + count - 1 \in Pages /\ s .. (s + count - 1) \cap map = {}}
Ends(map, count) ==
  {n \in DOMAIN FreeRun(map) : n > 0 /\ FreeRun(map)[n] = count}

\* Where the loop stops there is a place behind it.
LEMMA EndsFit ==
  ASSUME NEW map, N \in Nat, NEW count \in Nat \ {0}, NEW n \in Ends(map, count)
  PROVE  n \in 0 .. N /\ n - count \in Fits(map, count)
<1>1. n \in 0 .. N
  <2>1. 0 \in 0 .. N
    OBVIOUS
  <2>2. DOMAIN FreeRun(map) = 0 .. N
    BY <2>1, CounterIsRun
  <2> QED BY <2>2 DEF Ends
<1>2. IsRun(map, n, count)
  <2>1. IsRun(map, n, FreeRun(map)[n])
    BY <1>1, CounterIsRun
  <2>2. FreeRun(map)[n] = count
    BY DEF Ends
  <2> QED BY <2>1, <2>2
<1>3. count \in 0 .. n /\ \A i \in n - count .. n - 1 : i \notin map
  BY <1>2 DEF IsRun
<1>4. n - count \in 0 .. N - 1 /\ (n - count) + count - 1 = n - 1 /\ n - 1 \in 0 .. N - 1
  BY <1>1, <1>3
<1>5. (n - count) .. ((n - count) + count - 1) \cap map = {}
  BY <1>3, <1>4
<1> QED BY <1>1, <1>4, <1>5 DEF Fits, Pages, N

\* At the end of the first place the loop stops.
LEMMA FirstFitEnds ==
  ASSUME NEW map, N \in Nat, NEW count \in Nat \ {0},
         NEW s \in Fits(map, count), \A t \in Fits(map, count) : s <= t
  PROVE  s \in Nat /\ s + count \in Ends(map, count)
<1>1. s \in 0 .. N - 1 /\ s + count - 1 \in 0 .. N - 1
  BY DEF Fits, Pages, N
<1>2. s + count \in 0 .. N /\ s + count > 0 /\ s + count \in Nat
  BY <1>1
<1>3. \A i \in s .. s + count - 1 : i \notin map
  BY DEF Fits
<1> DEFINE n == s + count
<1> DEFINE d == FreeRun(map)[n]
<1>4. IsRun(map, n, d) /\ DOMAIN FreeRun(map) = 0 .. N
  BY <1>2, CounterIsRun
<1> HIDE DEF d
<1>5. /\ d \in 0 .. n
      /\ \A i \in n - d .. n - 1 : i \notin map
      /\ d = n \/ n - d - 1 \in map
  BY <1>4 DEF IsRun
<1>6. d >= count
  <2> SUFFICES ASSUME d < count PROVE FALSE
    BY <1>5
  <2>1. d # n /\ n - d - 1 \in s .. s + count - 1
    BY <1>1, <1>5
  <2> QED BY <1>3, <1>5, <2>1
<1>7. d <= count
  <2> SUFFICES ASSUME d > count PROVE FALSE
    BY <1>5
  <2>1. /\ s - 1 \in 0 .. N - 1 /\ (s - 1) + count - 1 \in 0 .. N - 1
        /\ \A i \in s - 1 .. (s - 1) + count - 1 : i \in n - d .. n - 1
    BY <1>1, <1>5
  <2>2. (s - 1) .. ((s - 1) + count - 1) \cap map = {}
    BY <1>5, <2>1
  <2>3. s - 1 \in Fits(map, count)
    BY <2>1, <2>2 DEF Fits, Pages, N
  <2> QED BY <1>1, <2>3
<1>8. d = count
  BY <1>5, <1>6, <1>7
<1> QED BY <1>1, <1>2, <1>4, <1>8 DEF Ends, d

\* bitmap_scan is the search for the first place, for every bitmap and count.
LEMMA ScanIsFirst ==
  ASSUME NEW map, N \in Nat, NEW count \in Nat \ {0}
  PROVE  bitmap_scan(map, count) = FirstFit(map, count)
<1> DEFINE fits == Fits(map, count)
<1> DEFINE ends == Ends(map, count)
<1>1. bitmap_scan(map, count) = IF ends = {} THEN -1 ELSE Min(ends) - count
  BY DEF bitmap_scan, Ends
<1>2. FirstFit(map, count) = IF fits = {} THEN -1 ELSE Min(fits)
  BY DEF FirstFit, Fits
<1>3. fits \subseteq Nat
  BY DEF Fits, Pages, N
<1>4. ends \subseteq Nat /\ \A n \in ends : n - count \in fits
  BY EndsFit
<1>5. CASE fits = {}
  <2>1. ends = {}
    BY <1>4, <1>5
  <2> QED BY <1>1, <1>2, <1>5, <2>1
<1>6. CASE fits # {}
  <2> HIDE DEF fits, ends
  <2>1. PICK s \in fits : \A t \in fits : s <= t
    BY <1>3, <1>6, LeastNat
  <2>2. s \in Nat /\ s + count \in ends
    BY <2>1, FirstFitEnds DEF fits, ends
  <2>3. \A n \in ends : s + count <= n
    <3> TAKE n \in ends
    <3>1. s <= n - count /\ n \in Nat
      BY <1>4, <2>1
    <3> QED BY <2>2, <3>1
  <2>4. fits \subseteq Int /\ ends \subseteq Int
    BY <1>3, <1>4
  <2>5. Min(fits) = s
    BY <2>1, <2>4, MinIs
  <2>6. Min(ends) = s + count
    BY <2>2, <2>3, <2>4, MinIs
  <2> QED BY <1>1, <1>2, <1>6, <2>2, <2>5, <2>6
<1> QED BY <1>5, <1>6

\* What get_free_page takes is a page, and free.
LEMMA NextPageIsFree ==
  ASSUME NEW map, N \in Nat, NextPage(map) # -1
  PROVE  NextPage(map) \in Pages \ map
<1>1. NextPage(map) = FirstFit(map, 1)
  BY ScanIsFirst DEF NextPage
<1> DEFINE fits == Fits(map, 1)
<1>2. FirstFit(map, 1) = IF fits = {} THEN -1 ELSE Min(fits)
  BY DEF FirstFit, Fits
<1>3. fits \subseteq Nat
  BY DEF Fits, Pages, N
<1>4. fits # {} /\ NextPage(map) = Min(fits)
  BY <1>1, <1>2
<1>5. PICK s \in fits : \A t \in fits : s <= t
  <2> HIDE DEF fits
  <2> QED BY <1>3, <1>4, LeastNat
<1>6. NextPage(map) = s
  <2> HIDE DEF fits
  <2>1. fits \subseteq Int
    BY <1>3
  <2> QED BY <1>4, <1>5, <2>1, MinIs
<1>7. s \in Pages /\ s \in s .. (s + 1 - 1) /\ s .. (s + 1 - 1) \cap map = {}
  BY <1>3 DEF Fits
<1> QED BY <1>6, <1>7

-----------------------------------------------------------------------------
(***************************************************************************)
(* The invariant.  Before phy_memory_init there is nothing.                *)
(***************************************************************************)
IInv ==
  /\ PageTypes
  /\ PagesAccounted
  /\ pc = "boot" => bits = {} /\ lost = {} /\ held = {} /\ arg = 0

\* The number of bits is a natural number.
LEMMA BitsAreNat ==
  ASSUME NEW a \in Nat, NEW b \in Nat
  PROVE  a * b \in Nat
  OBVIOUS

\* What % returns is a natural number.
LEMMA ModIsNat ==
  ASSUME NEW a \in Nat, NEW b \in Nat \ {0}
  PROVE  a % b \in Nat
  OBVIOUS

\* What \div returns is a natural number.
LEMMA DivIsNat ==
  ASSUME NEW a \in Nat, NEW b \in Nat \ {0}
  PROVE  a \div b \in Nat
<1> DEFINE q == a \div b
<1> DEFINE r == a % b
<1>1. q \in Int /\ r \in 0 .. b - 1 /\ a = b * q + r
  OBVIOUS
<1> HIDE DEF q, r
<1>2. ASSUME q < 0 PROVE FALSE
  <2>1. b * (-1 - q) >= 0
    BY <1>1, <1>2
  <2>2. b * (-1 - q) = (-1) * b - b * q
    BY <1>1
  <2> QED BY <1>1, <2>1, <2>2
<1> QED BY <1>1, <1>2 DEF q

\* a \div b times b is not above a.
LEMMA DivBelow ==
  ASSUME NEW a \in Nat, NEW b \in Nat \ {0}
  PROVE  b * (a \div b) <= a
<1> DEFINE q == a \div b
<1> DEFINE r == a % b
<1>1. q \in Int /\ r \in 0 .. b - 1 /\ a = b * q + r
  OBVIOUS
<1> HIDE DEF q, r
<1>2. b * q \in Int
  BY <1>1
<1>3. b * q <= a
  <2> DEFINE p == b * q
  <2>1. a = p + r /\ p \in Int
    BY <1>1, <1>2
  <2> HIDE DEF p
  <2>2. p <= a
    BY <1>1, <2>1
  <2> QED BY <2>2 DEF p
<1> QED BY <1>3 DEF q

\* An entry of a memory map.
LEMMA EntryFacts ==
  ASSUME NEW table \in ArdsTables, NEW k \in DOMAIN table
  PROVE  /\ k \in Nat
         /\ table[k].base \in Nat /\ table[k].length \in Nat
         /\ zone_start(table[k]) \in Nat /\ zone_end(table[k]) \in Nat
<1> DEFINE e == table[k]
<1>1. k \in Nat /\ e.base \in Nat /\ e.length \in Nat
  <2> DEFINE S == [base : Nat, length : Nat, type : Nat]
  <2>1. table \in Seq(S)
    BY PageAssumption
  <2>2. e \in S /\ k \in Nat
    <3> HIDE DEF S
    <3> QED BY <2>1
  <2> QED BY <2>2
<1> HIDE DEF e
<1>2. WORD \in Nat \ {0}
  BY PageAssumption
<1>3. zone_start(e) \in Nat /\ e.length % WORD \in Nat
  BY <1>1, <1>2, ModIsNat DEF zone_start
<1>4. zone_end(e) \in Nat
  BY <1>2, <1>3, ModIsNat DEF zone_end
<1> QED BY <1>1, <1>3, <1>4 DEF e

\* The loop of phy_memory_init stops at the first zone.
LEMMA FirstZone ==
  ASSUME NEW table \in ArdsTables, Zones(table) # {}
  PROVE  /\ Min(Zones(table)) \in Zones(table)
         /\ \A k \in Zones(table) : Min(Zones(table)) <= k
<1> DEFINE zones == Zones(table)
<1>1. zones \subseteq Nat
  BY EntryFacts DEF Zones
<1> HIDE DEF zones
<1>2. PICK z \in zones : \A y \in zones : z <= y
  BY <1>1, LeastNat DEF zones
<1>3. zones \subseteq Int
  BY <1>1
<1>4. Min(zones) = z
  BY <1>2, <1>3, MinIs
<1> QED BY <1>2, <1>4 DEF zones

\* The number of pages, and how far they reach.
LEMMA PagesReach ==
  ASSUME NEW table \in ArdsTables, Zones(table) # {}
  PROVE  /\ pages_total(table) \in Nat
         /\ PHY_MEM_USE_START + PAGE_SIZE * pages_total(table)
              <= zone_end(table[Min(Zones(table))])
<1> DEFINE z == Min(Zones(table))
<1> DEFINE room == zone_end(table[z]) - PHY_MEM_USE_START
<1>0. PHY_MEM_USE_START \in Nat /\ PAGE_SIZE \in Nat \ {0}
  BY PageAssumption
<1>1. z \in DOMAIN table /\ zone_end(table[z]) > PHY_MEM_USE_START
  BY FirstZone DEF Zones, HoldsStart
<1>2. zone_end(table[z]) \in Nat
  BY <1>1, EntryFacts
<1>3. pages_total(table) = room \div PAGE_SIZE
  BY DEF pages_total
<1>4. room \in Nat
  BY <1>0, <1>1, <1>2
<1> HIDE DEF room, z
<1>5. room \div PAGE_SIZE \in Nat /\ PAGE_SIZE * (room \div PAGE_SIZE) <= room
  BY <1>0, <1>4, DivIsNat, DivBelow
<1>6. PHY_MEM_USE_START + PAGE_SIZE * (room \div PAGE_SIZE) <= PHY_MEM_USE_START + room
  <2> DEFINE p == PAGE_SIZE * (room \div PAGE_SIZE)
  <2>1. p \in Int
    BY <1>0, <1>5
  <2> HIDE DEF p
  <2>2. p <= room
    BY <1>5 DEF p
  <2>3. PHY_MEM_USE_START + p <= PHY_MEM_USE_START + room
    BY <1>0, <1>4, <2>1, <2>2
  <2> QED BY <2>3 DEF p
<1>7. PHY_MEM_USE_START + room = zone_end(table[z])
  BY <1>0, <1>2 DEF room
<1> QED BY <1>3, <1>5, <1>6, <1>7 DEF z

\* phy_memory_init computes a natural number from any memory map.
LEMMA LengthIsNat ==
  ASSUME NEW table \in ArdsTables
  PROVE  /\ pages_total(table) \in Nat
         /\ bitmap_length(table) \in Nat
<1>1. pages_total(table) \in Nat
  BY PagesReach DEF pages_total
<1> QED BY <1>1, DivIsNat, PageAssumption DEF bitmap_length

\* Before phy_memory_init the allocator is empty.
LEMMA InitInv == PageInit => IInv
BY PageAssumption DEF PageInit, IInv, PageTypes, PagesAccounted, Pages

\* Every step keeps the invariant.
LEMMA NextInv == IInv /\ [PageStep]_pageVars => IInv'
<1> SUFFICES ASSUME IInv, [PageStep]_pageVars PROVE IInv'
  OBVIOUS
<1> USE PageAssumption
<1>1. N \in Nat
  <2>1. length \in Nat /\ BYTE_BITS \in Nat
    BY DEF IInv, PageTypes
  <2> QED BY <2>1, BitsAreNat DEF N
<1>2. CASE phy_memory_init
  <2>1. /\ length' = bitmap_length(ards) /\ length' \in Nat
        /\ bits' \subseteq BYTE_BITS .. length' * BYTE_BITS - 1
        /\ lost' = bits' /\ held' = {} /\ arg' = 0 /\ pc' = "idle"
        /\ ards' = ards /\ intr' = intr
    <3>1. bitmap_length(ards) \in Nat
      BY LengthIsNat DEF IInv, PageTypes
    <3> QED BY <1>2, <3>1 DEF phy_memory_init, bitmap_init, IInv
  <2>2. bits' \subseteq Pages'
    <3>1. \A i \in BYTE_BITS .. length' * BYTE_BITS - 1 : i \in 0 .. length' * BYTE_BITS - 1
      <4>1. length' * BYTE_BITS \in Nat
        BY <2>1, BitsAreNat
      <4> QED BY <4>1
    <3> QED BY <2>1, <3>1 DEF Pages
  <2>3. PageTypes'
    BY <2>1, <2>2 DEF IInv, PageTypes
  <2>4. PagesAccounted'
    BY <2>1 DEF PagesAccounted
  <2> QED BY <2>1, <2>3, <2>4 DEF IInv
<1>3. CASE get_free_page
  <2> DEFINE p == NextPage(bits)
  <2>1. p \in Pages \ bits
    BY <1>1, <1>3, NextPageIsFree DEF get_free_page
  <2> HIDE DEF p
  <2>2. /\ bits' = bits \cup {p} /\ held' = held \cup {p} /\ pc = "idle"
        /\ UNCHANGED <<ards, length, lost, arg, intr, pc>>
    BY <1>3 DEF get_free_page, p
  <2>3. PageTypes'
    BY <2>1, <2>2 DEF IInv, PageTypes, Pages
  <2>4. PagesAccounted'
    BY <2>1, <2>2 DEF IInv, PageTypes, PagesAccounted
  <2> QED BY <2>2, <2>3, <2>4 DEF IInv
<1>4. CASE OutOfPages
  BY <1>4 DEF OutOfPages, IInv, PageTypes, PagesAccounted, Pages
<1>5. ASSUME NEW index \in held, free_page(index)
      PROVE  IInv'
  <2>1. /\ held' = held \ {index} /\ pc = "idle"
        /\ UNCHANGED <<ards, length, lost, intr>>
    BY <1>5 DEF free_page
  <2>2. CASE Refused(index)
    <3>1. pc' = "refused" /\ arg' = index /\ bits' = bits
      BY <1>5, <2>2 DEF free_page
    <3>2. PageTypes'
      BY <1>5, <2>1, <3>1 DEF IInv, PageTypes, Pages
    <3>3. PagesAccounted'
      BY <1>5, <2>1, <3>1 DEF IInv, PagesAccounted
    <3> QED BY <3>1, <3>2, <3>3 DEF IInv
  <2>3. CASE ~Refused(index)
    <3>1. pc' = pc /\ arg' = arg /\ bits' = bits \ {index}
      BY <1>5, <2>3 DEF free_page
    <3>2. PageTypes'
      BY <1>5, <2>1, <3>1 DEF IInv, PageTypes, PagesAccounted, Pages
    <3>3. PagesAccounted'
      BY <1>5, <2>1, <3>1 DEF IInv, PagesAccounted
    <3> QED BY <2>1, <3>1, <3>2, <3>3 DEF IInv
  <2> QED BY <2>2, <2>3
<1>6. CASE ResumeFree
  <2>1. PageTypes'
    BY <1>6 DEF ResumeFree, IInv, PageTypes, PagesAccounted, Pages
  <2>2. PagesAccounted'
    BY <1>6 DEF ResumeFree, IInv, PagesAccounted
  <2> QED BY <1>6, <2>1, <2>2 DEF IInv, ResumeFree
<1>7. CASE ResumeWithoutPage
  BY <1>7 DEF ResumeWithoutPage, IInv, PageTypes, PagesAccounted, Pages
<1>8. CASE UNCHANGED pageVars
  BY <1>8 DEF pageVars, IInv, PageTypes, PagesAccounted, Pages
<1> QED BY <1>2, <1>3, <1>4, <1>5, <1>6, <1>7, <1>8 DEF PageStep

\* The variables have their types: the bits lie in the bitmap, and so do the
\* pages that callers hold.
THEOREM PagesTyped == PageSpec => []PageTypes
<1>1. IInv => PageTypes
  BY DEF IInv
<1> QED BY <1>1, InitInv, NextInv, PTL DEF PageSpec

\* Whatever is allocated, given back, refused and given back late: a page has
\* one owner, no page in use is handed out again, and no page is lost.
THEOREM PagesHaveOneOwner == PageSpec => []PagesAccounted
<1>1. IInv => PagesAccounted
  BY DEF IInv
<1> QED BY <1>1, InitInv, NextInv, PTL DEF PageSpec

\* bitmap_scan finds the first place that fits, in every bitmap the allocator
\* can come to and for every count.
THEOREM ScanFindsFirstFit == PageSpec => []ScanIsFirstFit
<1>1. IInv => ScanIsFirstFit
  <2> SUFFICES ASSUME IInv PROVE ScanIsFirstFit
    OBVIOUS
  <2>1. length \in Nat /\ BYTE_BITS \in Nat
    BY PageAssumption DEF IInv, PageTypes
  <2>2. N \in Nat
    BY <2>1, BitsAreNat DEF N
  <2>3. \A count \in 1 .. N : count \in Nat \ {0}
    BY <2>2
  <2> QED BY <2>2, <2>3, ScanIsFirst DEF ScanIsFirstFit, N
<1> QED BY <1>1, InitInv, NextInv, PTL DEF PageSpec

-----------------------------------------------------------------------------
(***************************************************************************)
(* The pages are RAM.                                                      *)
(***************************************************************************)

\* What % returns is not above its argument, and is that below the divisor.
LEMMA ModBelow ==
  ASSUME NEW a \in Nat, NEW b \in Nat \ {0}
  PROVE  /\ a % b <= a /\ a % b < b
         /\ a < b => a % b = a
<1> DEFINE q == a \div b
<1> DEFINE r == a % b
<1>1. q \in Nat /\ r \in 0 .. b - 1 /\ a = b * q + r
  BY DivIsNat
<1> HIDE DEF q, r
<1>2. b * q \in Nat
  BY <1>1, BitsAreNat
<1>3. r <= a /\ r < b
  <2> DEFINE p == b * q
  <2>1. a = p + r /\ p \in Nat
    BY <1>1, <1>2
  <2> HIDE DEF p
  <2> QED BY <1>1, <2>1
<1>4. ASSUME a < b PROVE r = a
  <2>1. CASE q = 0
    BY <1>1, <2>1
  <2>2. CASE q # 0
    <3>1. b * q >= b
      BY <1>1, <2>2
    <3> DEFINE p == b * q
    <3>2. p >= b /\ a = p + r /\ p \in Nat
      BY <1>1, <1>2, <3>1
    <3> HIDE DEF p
    <3> QED BY <1>1, <1>4, <3>2
  <2> QED BY <2>1, <2>2
<1> QED BY <1>3, <1>4 DEF r

\* A factor that is larger, and one that is one larger.
LEMMA FactorGrows ==
  ASSUME NEW a \in Nat, NEW b \in Nat, NEW c \in Nat, b < c
  PROVE  b * a + a <= c * a
<1>1. c * a = b * a + (c - b) * a
  OBVIOUS
<1>2. (c - b) * a >= a
  OBVIOUS
<1> DEFINE p == b * a
<1> DEFINE q == (c - b) * a
<1>3. p \in Int /\ q \in Int /\ c * a = p + q /\ q >= a
  BY <1>1, <1>2
<1> HIDE DEF p, q
<1>4. p + a <= c * a
  BY <1>3
<1> QED BY <1>4 DEF p

\* The zone that is taken lies where the memory map says, and below 4G.
LEMMA ZoneIsRAM ==
  ASSUME NEW table \in ArdsTables, Zones(table) # {}, NEW a \in Nat,
         PHY_MEM_USE_START <= a, a < zone_end(table[Min(Zones(table))])
  PROVE  a \in RAM(table) \cap 0 .. (WORD - 1)
<1> DEFINE z == Min(Zones(table))
<1> DEFINE e == table[z]
<1>0. WORD \in Nat \ {0} /\ PHY_MEM_USE_START \in Nat
  BY PageAssumption
<1>1. /\ z \in Zones(table) /\ z \in DOMAIN table
      /\ \A k \in Zones(table) : k \in Nat /\ z <= k
  BY FirstZone, EntryFacts DEF Zones
<1>2. zone_start(e) < PHY_MEM_USE_START /\ e.type = ZONE_MEMORY
  BY <1>1 DEF Zones, HoldsStart
<1>3. e.base \in Nat /\ e.length \in Nat /\ z \in Nat
  BY <1>1, EntryFacts
<1>4. e.base < WORD
  <2>1. e.base < WORD \/ \E j \in Zones(table) : j < z /\ table[j].base < WORD
    BY <1>1, LowZoneAssumption
  <2> HIDE DEF z
  <2> QED BY <1>1, <1>3, <2>1
<1> HIDE DEF e
<1>5. zone_start(e) = e.base
  BY <1>0, <1>3, <1>4, ModBelow DEF zone_start
<1> DEFINE short == e.length % WORD
<1>6. short \in Nat /\ short <= e.length
  BY <1>0, <1>3, ModBelow, ModIsNat
<1>7. zone_end(e) = (e.base + short) % WORD
  BY <1>5 DEF zone_end
<1> HIDE DEF short
<1>8. e.base + short \in Nat
  BY <1>3, <1>6
<1>9. zone_end(e) \in Nat /\ zone_end(e) <= e.base + short /\ zone_end(e) < WORD
  BY <1>0, <1>7, <1>8, ModBelow, ModIsNat
<1>10. a < zone_end(e)
  BY DEF e
<1>11. a \in e.base .. (e.base + e.length - 1) /\ a \in 0 .. (WORD - 1)
  BY <1>0, <1>2, <1>3, <1>5, <1>6, <1>9, <1>10
<1>12. e \in {table[k] : k \in {i \in DOMAIN table : table[i].type = ZONE_MEMORY}}
  BY <1>1, <1>2 DEF e
<1> QED BY <1>11, <1>12 DEF RAM

\* The bitmap has no more bits than the zone has pages.
LengthInv == IF pc = "boot" THEN length = 0 ELSE length = bitmap_length(ards)

LEMMA LengthKept == LengthInv /\ [PageStep]_pageVars => LengthInv'
<1> SUFFICES ASSUME LengthInv, [PageStep]_pageVars PROVE LengthInv'
  OBVIOUS
<1>1. CASE phy_memory_init
  BY <1>1 DEF phy_memory_init, bitmap_init, LengthInv
<1>2. CASE UNCHANGED <<ards, length>> /\ pc # "boot" /\ pc' # "boot"
  BY <1>2 DEF LengthInv
<1>3. CASE UNCHANGED pageVars
  BY <1>3 DEF LengthInv, pageVars
<1>4. CASE get_free_page
  BY <1>2, <1>4 DEF get_free_page
<1>5. CASE OutOfPages
  BY <1>2, <1>5 DEF OutOfPages
<1>6. ASSUME NEW index \in held, free_page(index) PROVE LengthInv'
  BY <1>2, <1>6 DEF free_page
<1>7. CASE ResumeFree
  BY <1>2, <1>7 DEF ResumeFree
<1>8. CASE ResumeWithoutPage
  BY <1>2, <1>8 DEF ResumeWithoutPage
<1> QED BY <1>1, <1>3, <1>4, <1>5, <1>6, <1>7, <1>8 DEF PageStep

\* In spite of the arithmetic in 32 bits all pages that are ever handed out are
\* RAM below 4G, for every memory map that lists what is above 4G behind the
\* RAM around PHY_MEM_USE_START (mm.c:35).
THEOREM PagesComeFromRAM == PageSpec => []PagesAreRAM
<1>1. IInv /\ LengthInv => PagesAreRAM
  <2> SUFFICES ASSUME IInv, LengthInv, NEW index \in Pages,
                      NEW a \in PageBytes(index)
               PROVE  a \in RAM(ards) \cap 0 .. (WORD - 1)
    BY DEF PagesAreRAM
  <2>0. /\ PHY_MEM_USE_START \in Nat /\ PAGE_SIZE \in Nat \ {0}
        /\ BYTE_BITS \in Nat \ {0} /\ ards \in ArdsTables /\ length \in Nat
    BY PageAssumption DEF IInv, PageTypes
  <2> DEFINE total == pages_total(ards)
  <2> DEFINE bytes == total \div BYTE_BITS
  <2>1. length * BYTE_BITS \in Nat
    BY <2>0, BitsAreNat
  <2>2. index \in Nat /\ index < length * BYTE_BITS
    <3> DEFINE n == length * BYTE_BITS
    <3>1. index \in 0 .. n - 1 /\ n \in Nat
      BY <2>1 DEF Pages
    <3> HIDE DEF n
    <3>2. index \in Nat /\ index < n
      BY <3>1
    <3> QED BY <3>2 DEF n
  <2>3. length # 0
    BY <2>0, <2>2
  <2>4. length = bytes
    BY <2>3 DEF LengthInv, bitmap_length
  <2>5. total \in Nat /\ Zones(ards) # {}
    <3>1. total \in Nat
      BY <2>0, LengthIsNat
    <3>2. total # 0
      <4>1. ASSUME total = 0 PROVE FALSE
        <5>1. BYTE_BITS * bytes <= 0 /\ bytes \in Nat
          <6> HIDE DEF bytes
          <6>1. BYTE_BITS * (total \div BYTE_BITS) <= total
            BY <2>0, <3>1, DivBelow
          <6> QED BY <2>0, <2>4, <4>1, <6>1 DEF bytes
        <5> HIDE DEF bytes
        <5> QED BY <2>0, <2>3, <2>4, <5>1
      <4> QED BY <4>1
    <3> QED BY <3>1, <3>2 DEF pages_total
  <2> HIDE DEF total
  <2>6. BYTE_BITS * length <= total
    <3>1. BYTE_BITS * (total \div BYTE_BITS) <= total
      BY <2>0, <2>5, DivBelow
    <3> QED BY <2>4, <3>1
  <2> HIDE DEF bytes
  <2>7. index < total
    <3> DEFINE n == length * BYTE_BITS
    <3>1. n = BYTE_BITS * length
      BY <2>0
    <3>2. n <= total /\ n \in Nat
      BY <2>1, <2>6, <3>1
    <3>3. index < n
      BY <2>2
    <3> HIDE DEF n
    <3> QED BY <2>2, <2>5, <3>2, <3>3
  <2>8. index * PAGE_SIZE + PAGE_SIZE <= total * PAGE_SIZE
    BY <2>0, <2>2, <2>5, <2>7, FactorGrows
  <2>9. PHY_MEM_USE_START + PAGE_SIZE * total <= zone_end(ards[Min(Zones(ards))])
    BY <2>0, <2>5, PagesReach DEF total
  <2> DEFINE e == ards[Min(Zones(ards))]
  <2>10. zone_end(e) \in Nat
    <3>1. Min(Zones(ards)) \in DOMAIN ards
      BY <2>0, <2>5, FirstZone DEF Zones
    <3> QED BY <2>0, <3>1, EntryFacts
  <2> DEFINE p == index * PAGE_SIZE
  <2> DEFINE q == total * PAGE_SIZE
  <2>11. /\ p \in Nat /\ q \in Nat /\ p + PAGE_SIZE <= q
         /\ PHY_MEM_USE_START + q <= zone_end(e)
    <3>1. PAGE_SIZE * total = total * PAGE_SIZE
      BY <2>0, <2>5
    <3>2. p \in Nat /\ q \in Nat
      BY <2>0, <2>2, <2>5, BitsAreNat
    <3> QED BY <2>8, <2>9, <3>1, <3>2
  <2>12. a \in (PHY_MEM_USE_START + p) .. (PHY_MEM_USE_START + p + PAGE_SIZE - 1)
    BY DEF PageBytes
  <2> HIDE DEF p, q, e
  <2>13. a \in Nat /\ PHY_MEM_USE_START <= a /\ a < zone_end(e)
    BY <2>0, <2>10, <2>11, <2>12
  <2> QED BY <2>0, <2>5, <2>13, ZoneIsRAM DEF e
<1>2. PageInit => LengthInv
  BY DEF PageInit, LengthInv
<1> QED BY <1>1, <1>2, LengthKept, InitInv, NextInv, PTL DEF PageSpec
=============================================================================
