--------------------------- MODULE MemblockProofs ---------------------------
(***************************************************************************)
(* Proofs about the boot memory allocator, for arrays of any capacity and  *)
(* an address space of any size.                                           *)
(***************************************************************************)
EXTENDS MemblockInv, SequenceTheorems, TLAPS

-----------------------------------------------------------------------------
(***************************************************************************)
(* Inserting into and removing from an array of regions.                   *)
(***************************************************************************)

\* What stands where in new, which is s with e inserted at i.
Inserted(new, s, i, e) ==
  /\ Len(new) = Len(s) + 1
  /\ \A k \in 1 .. Len(s) + 1 :
       new[k] = IF k < i THEN s[k] ELSE IF k = i THEN e ELSE s[k - 1]

\* InsertAt makes room at i for e and moves what followed.
LEMMA InsertAtElements ==
  ASSUME NEW S, NEW s \in Seq(S), NEW i \in 1 .. Len(s) + 1, NEW e \in S
  PROVE  /\ InsertAt(s, i, e) \in Seq(S)
         /\ Inserted(InsertAt(s, i, e), s, i, e)
<1> DEFINE front == SubSeq(s, 1, i - 1)
           back == SubSeq(s, i, Len(s))
<1>1. /\ Len(s) \in Nat
      /\ \A k \in 1 .. Len(s) : s[k] \in S
  BY ElementOfSeq, LenProperties
<1>2. /\ front \in Seq(S)
      /\ Len(front) = i - 1
      /\ \A k \in 1 .. i - 1 : front[k] = s[k]
  <2>1. \A k \in 1 .. i - 1 : s[k] \in S
    BY <1>1
  <2> QED
    BY <1>1, <2>1, SubSeqProperties
<1>3. /\ back \in Seq(S)
      /\ Len(back) = Len(s) - i + 1
      /\ \A k \in 1 .. Len(s) - i + 1 : back[k] = s[i + k - 1]
  <2>1. \A k \in i .. Len(s) : s[k] \in S
    BY <1>1
  <2> QED
    BY <1>1, <2>1, SubSeqProperties
<1> HIDE DEF front, back
<1>4. /\ <<e>> \in Seq(S)
      /\ Len(<<e>>) = 1
      /\ <<e>>[1] = e
  OBVIOUS
<1>5. /\ front \o <<e>> \in Seq(S)
      /\ Len(front \o <<e>>) = i
      /\ \A k \in 1 .. i : (front \o <<e>>)[k] = IF k < i THEN s[k] ELSE e
  BY <1>1, <1>2, <1>4, ConcatProperties
<1>6. /\ (front \o <<e>>) \o back \in Seq(S)
      /\ Len((front \o <<e>>) \o back) = Len(s) + 1
      /\ \A k \in 1 .. Len(s) + 1 :
           ((front \o <<e>>) \o back)[k] = IF k < i THEN s[k]
                                           ELSE IF k = i THEN e ELSE s[k - 1]
  BY <1>1, <1>3, <1>5, ConcatProperties
<1> QED
  BY <1>6 DEF InsertAt, Inserted, front, back

\* What stands where after a removal.
LEMMA RemoveAtElements ==
  ASSUME NEW S, NEW s \in Seq(S), NEW i \in 1 .. Len(s)
  PROVE  /\ RemoveAt(s, i) \in Seq(S)
         /\ Len(RemoveAt(s, i)) = Len(s) - 1
         /\ \A k \in 1 .. Len(s) - 1 :
              RemoveAt(s, i)[k] = IF k < i THEN s[k] ELSE s[k + 1]
<1> DEFINE front == SubSeq(s, 1, i - 1)
           back == SubSeq(s, i + 1, Len(s))
<1>1. /\ Len(s) \in Nat
      /\ \A k \in 1 .. Len(s) : s[k] \in S
  BY ElementOfSeq, LenProperties
<1>2. /\ front \in Seq(S)
      /\ Len(front) = i - 1
      /\ \A k \in 1 .. i - 1 : front[k] = s[k]
  <2>1. \A k \in 1 .. i - 1 : s[k] \in S
    BY <1>1
  <2> QED
    BY <1>1, <2>1, SubSeqProperties
<1>3. /\ back \in Seq(S)
      /\ Len(back) = Len(s) - i
      /\ \A k \in 1 .. Len(s) - i : back[k] = s[i + k]
  <2>1. \A k \in i + 1 .. Len(s) : s[k] \in S
    BY <1>1
  <2> QED
    BY <1>1, <2>1, SubSeqProperties
<1> HIDE DEF front, back
<1>4. /\ front \o back \in Seq(S)
      /\ Len(front \o back) = Len(front) + Len(back)
      /\ \A k \in 1 .. Len(front) + Len(back) :
           (front \o back)[k] = IF k <= Len(front) THEN front[k]
                                                  ELSE back[k - Len(front)]
  BY <1>2, <1>3, ConcatProperties, Zenon
<1>5. (i - 1) + (Len(s) - i) = Len(s) - 1
  BY <1>1
<1>6. ASSUME NEW k \in 1 .. Len(s) - 1
      PROVE  (front \o back)[k] = IF k < i THEN s[k] ELSE s[k + 1]
  <2>1. CASE k < i
    BY <1>1, <1>2, <1>4, <1>5, <2>1
  <2>2. CASE ~(k < i)
    <3> DEFINE j == k - (i - 1)
    <3>1. j \in 1 .. Len(s) - i /\ i + j = k + 1
      BY <1>1, <2>2
    <3>2. k \in 1 .. Len(front) + Len(back) /\ ~(k <= Len(front))
      BY <1>1, <1>2, <1>3, <1>5, <2>2
    <3>3. (front \o back)[k] = back[k - Len(front)]
      BY <1>4, <3>2
    <3>4. k - Len(front) = j
      BY <1>2
    <3>5. back[j] = s[i + j]
      BY <1>3, <3>1
    <3> QED
      BY <2>2, <3>1, <3>3, <3>4, <3>5
  <2> QED
    BY <2>1, <2>2
<1>7. Len(front \o back) = Len(s) - 1
  BY <1>2, <1>3, <1>4, <1>5
<1> QED
  BY <1>4, <1>6, <1>7, Zenon DEF RemoveAt, front, back

\* What ArrayOK says of an array, spelled out for the solver.
Flat(rs) ==
  /\ Len(rs) \in Nat /\ Len(rs) >= 1
  /\ DOMAIN rs = 1 .. Len(rs)
  /\ \A k \in 1 .. Len(rs) :
       /\ rs[k] \in Region
       /\ rs[k].base \in Nat /\ rs[k].size \in Nat
       /\ rs[k].base \in Addr /\ rs[k].size \in Addr
       /\ rend(rs[k]) = rs[k].base + rs[k].size
       /\ rend(rs[k]) \in Addr /\ rend(rs[k]) \in Nat

\* Every regions array is flat.
LEMMA ArrayFacts ==
  ASSUME NEW rs, ArrayOK(rs)
  PROVE  Flat(rs)
<1>1. /\ Len(rs) \in Nat /\ Len(rs) >= 1
      /\ DOMAIN rs = 1 .. Len(rs)
  BY LenProperties DEF ArrayOK
<1>2. \A k \in 1 .. Len(rs) : rs[k] \in Region
  BY ElementOfSeq DEF ArrayOK
<1> QED
  BY <1>1, <1>2, SizesAssumption DEF Flat, ArrayOK, Region, Addr, rend

\* The order of an array, with its length and bounds spelled out.
LEMMA SortedElements ==
  ASSUME NEW rs, Flat(rs)
  PROVE  /\ Sorted(rs) <=>
              \A k, l \in 1 .. Len(rs) : k < l => rend(rs[k]) <= rs[l].base
         /\ NoneEmpty(rs) <=> \A k \in 1 .. Len(rs) : rs[k].size > 0
         /\ NoneEmpty(rs) => \A k \in 1 .. Len(rs) : rs[k].base < rend(rs[k])
<1>1. /\ DOMAIN rs = 1 .. Len(rs)
      /\ \A k \in 1 .. Len(rs) :
           /\ rs[k].base \in Nat /\ rs[k].size \in Nat
           /\ rend(rs[k]) = rs[k].base + rs[k].size
  BY DEF Flat
<1> QED
  BY <1>1 DEF Sorted, NoneEmpty

\* The order after an insertion where the new region belongs.
LEMMA InsertOrder ==
  ASSUME NEW n \in Nat, NEW rs, NEW new, NEW r, NEW i \in 1 .. n + 1,
         \A k \in 1 .. n : rs[k].base \in Nat /\ rend(rs[k]) \in Nat,
         r.base \in Nat, rend(r) \in Nat,
         \A k, l \in 1 .. n : k < l => rend(rs[k]) <= rs[l].base,
         \A k \in 1 .. i - 1 : rend(rs[k]) <= r.base,
         \A k \in i .. n : rend(r) <= rs[k].base,
         \A k \in 1 .. i - 1 : new[k] = rs[k],
         new[i] = r,
         \A k \in i + 1 .. n + 1 : new[k] = rs[k - 1]
  PROVE  \A k, l \in 1 .. n + 1 : k < l => rend(new[k]) <= new[l].base
OBVIOUS

\* The order after neighbours i and i + 1 have been merged.
LEMMA MergeOrder ==
  ASSUME NEW n \in Nat, NEW rs, NEW new, NEW i \in 1 .. n, i + 1 \in 1 .. n,
         \A k \in 1 .. n : rs[k].base \in Nat /\ rend(rs[k]) \in Nat,
         \A k, l \in 1 .. n : k < l => rend(rs[k]) <= rs[l].base,
         \A k \in 1 .. i - 1 : new[k] = rs[k],
         new[i].base = rs[i].base, rend(new[i]) = rend(rs[i + 1]),
         \A k \in i + 1 .. n - 1 : new[k] = rs[k + 1]
  PROVE  \A k, l \in 1 .. n - 1 : k < l => rend(new[k]) <= new[l].base
OBVIOUS

\* A sequence of regions within the capacity is an array.
LEMMA IsArray ==
  ASSUME NEW n \in 1 .. INIT_MEMBLOCK_REGIONS,
         NEW rs \in Seq(Region), Len(rs) = n,
         \A k \in 1 .. n : rend(rs[k]) \in Addr
  PROVE  ArrayOK(rs)
<1>1. DOMAIN rs = 1 .. n
  BY LenProperties
<1> QED
  BY <1>1 DEF ArrayOK

\* A region put where it belongs keeps the array in order.
LEMMA InsertRegion ==
  ASSUME NEW rs, ArrayOK(rs), NoneEmpty(rs), Sorted(rs), ~Full(rs),
         NEW i \in 1 .. Len(rs) + 1,
         NEW base \in Addr, NEW size \in Addr, base + size \in Addr, size > 0,
         \A k \in 1 .. i - 1 : rend(rs[k]) <= base,
         \A k \in i .. Len(rs) : base + size <= rs[k].base
  PROVE  LET new == InsertAt(rs, i, [base |-> base, size |-> size])
         IN  /\ ArrayOK(new) /\ NoneEmpty(new) /\ Sorted(new)
             /\ Len(new) = Len(rs) + 1
             /\ \A k \in 1 .. i - 1 : new[k] = rs[k]
             /\ new[i].base = base /\ rend(new[i]) = base + size
             /\ \A k \in i + 1 .. Len(rs) + 1 : new[k] = rs[k - 1]
<1> DEFINE r == [base |-> base, size |-> size]
           new == InsertAt(rs, i, r)
           n == Len(rs)
<1>1. /\ r \in Region /\ r.base = base /\ r.size = size /\ rend(r) = base + size
      /\ r.base \in Nat /\ rend(r) \in Nat /\ rend(r) \in Addr
  BY SizesAssumption DEF Region, rend, Addr
<1> HIDE DEF r
<1>2. Flat(rs)
  BY ArrayFacts
<1>3. /\ n \in Nat
      /\ \A k \in 1 .. n : rs[k].base \in Nat /\ rend(rs[k]) \in Nat
      /\ \A k \in 1 .. n : rend(rs[k]) \in Addr
  BY <1>2 DEF Flat
<1>4. /\ \A k, l \in 1 .. n : k < l => rend(rs[k]) <= rs[l].base
      /\ \A k \in 1 .. n : rs[k].size > 0
  BY <1>2, SortedElements
<1>5. /\ new \in Seq(Region)
      /\ Len(new) = n + 1
      /\ \A k \in 1 .. n + 1 :
           new[k] = IF k < i THEN rs[k] ELSE IF k = i THEN r ELSE rs[k - 1]
  <2>1. rs \in Seq(Region) /\ i \in 1 .. Len(rs) + 1
    BY DEF ArrayOK
  <2>2. new \in Seq(Region) /\ Inserted(new, rs, i, r)
    <3> HIDE DEF n
    <3>1. /\ InsertAt(rs, i, r) \in Seq(Region)
          /\ Inserted(InsertAt(rs, i, r), rs, i, r)
      BY <1>1, <2>1, InsertAtElements, Zenon
    <3> QED
      BY <3>1, Zenon DEF new
  <2> HIDE DEF new
  <2> QED
    BY <2>2, Zenon DEF Inserted, n
<1> HIDE DEF new, n
<1>6. /\ \A k \in 1 .. i - 1 : new[k] = rs[k]
      /\ new[i] = r
      /\ \A k \in i + 1 .. n + 1 : new[k] = rs[k - 1]
  <2>1. i \in 1 .. n + 1
    BY DEF n
  <2> QED
    BY <1>3, <1>5, <2>1, SMTT(30)
<1>7. \A k, l \in 1 .. n + 1 : k < l => rend(new[k]) <= new[l].base
  <2>1. /\ i \in 1 .. n + 1
        /\ \A k \in 1 .. i - 1 : rend(rs[k]) <= r.base
        /\ \A k \in i .. n : rend(r) <= rs[k].base
    BY <1>1 DEF n
  <2>2. /\ n \in Nat /\ r.base \in Nat /\ rend(r) \in Nat
        /\ \A k \in 1 .. n : rs[k].base \in Nat /\ rend(rs[k]) \in Nat
        /\ \A k, l \in 1 .. n : k < l => rend(rs[k]) <= rs[l].base
    BY <1>1, <1>3, <1>4
  <2> QED
    BY <1>6, <2>1, <2>2, InsertOrder, ZenonT(60)
<1>8. \A k \in 1 .. n + 1 : rend(new[k]) \in Addr /\ new[k].size > 0
  <2> TAKE k \in 1 .. n + 1
  <2>1. CASE k < i
    BY <1>3, <1>4, <1>6, <2>1 DEF n
  <2>2. CASE k = i
    BY <1>1, <1>6, <2>2
  <2>3. CASE k > i
    <3>1. k - 1 \in 1 .. n /\ k \in i + 1 .. n + 1
      BY <1>3, <2>3 DEF n
    <3>2. new[k] = rs[k - 1]
      BY <1>6, <3>1
    <3> QED
      BY <1>3, <1>4, <3>1, <3>2
  <2> QED
    BY <1>3, <2>1, <2>2, <2>3 DEF n
<1>9. ArrayOK(new)
  <2>1. n + 1 \in 1 .. INIT_MEMBLOCK_REGIONS
    BY <1>3, SizesAssumption DEF Full, n
  <2> QED
    BY <1>5, <1>8, <2>1, IsArray
<1>10. NoneEmpty(new) /\ Sorted(new)
  <2>1. Flat(new)
    BY <1>9, ArrayFacts
  <2> QED
    BY <1>5, <1>7, <1>8, <2>1, SortedElements
<1> QED
  BY <1>1, <1>5, <1>6, <1>9, <1>10 DEF new, n, r

\* Removing a region that is not the only one.
LEMMA RemoveRegion ==
  ASSUME NEW rs, ArrayOK(rs), NEW i \in 1 .. Len(rs), Len(rs) # 1
  PROVE  LET new == RemoveAt(rs, i)
         IN  /\ ArrayOK(new)
             /\ Len(new) = Len(rs) - 1
             /\ \A k \in 1 .. i - 1 : new[k] = rs[k]
             /\ \A k \in i .. Len(rs) - 1 : new[k] = rs[k + 1]
<1> DEFINE new == RemoveAt(rs, i)
           n == Len(rs)
<1>1. Flat(rs)
  BY ArrayFacts
<1>2. /\ n \in Nat /\ n > 1 /\ n <= INIT_MEMBLOCK_REGIONS
      /\ \A k \in 1 .. n : rend(rs[k]) \in Addr
  BY <1>1, SizesAssumption DEF Flat, ArrayOK
<1>3. /\ new \in Seq(Region)
      /\ Len(new) = n - 1
      /\ \A k \in 1 .. n - 1 : new[k] = IF k < i THEN rs[k] ELSE rs[k + 1]
  BY RemoveAtElements DEF ArrayOK
<1> HIDE DEF new, n
<1>4. i \in 1 .. n
  BY DEF n
<1>5. /\ \A k \in 1 .. i - 1 : new[k] = rs[k]
      /\ \A k \in i .. n - 1 : new[k] = rs[k + 1]
  BY <1>2, <1>3, <1>4
<1>6. \A k \in 1 .. n - 1 : rend(new[k]) \in Addr
  <2> TAKE k \in 1 .. n - 1
  <2>1. CASE k < i
    BY <1>2, <1>4, <1>5, <2>1
  <2>2. CASE ~(k < i)
    BY <1>2, <1>4, <1>5, <2>2
  <2> QED
    BY <2>1, <2>2
<1>7. ArrayOK(new)
  <2>1. n - 1 \in 1 .. INIT_MEMBLOCK_REGIONS
    BY <1>2, SizesAssumption
  <2> QED
    BY <1>3, <1>6, <2>1, IsArray
<1> QED
  BY <1>3, <1>5, <1>7 DEF new, n

\* Neighbours that touch, taken together.
LEMMA JoinedBytes ==
  ASSUME NEW x \in Region, NEW y \in Region,
         x.size > 0, rend(x) = y.base, rend(y) \in Addr
  PROVE  LET r == [base |-> x.base, size |-> x.size + y.size]
         IN  /\ r \in Region /\ r.base = x.base
             /\ rend(r) = rend(y) /\ r.size > 0 /\ rend(r) \in Addr
BY SizesAssumption DEF Region, rend, Addr

\* Two neighbours that touch become one region over the bytes of both.
LEMMA MergeRegions ==
  ASSUME NEW rs, ArrayOK(rs), NoneEmpty(rs), Sorted(rs),
         NEW i \in 1 .. Len(rs) - 1, rend(rs[i]) = rs[i + 1].base
  PROVE  LET grown == [rs EXCEPT ![i].size = @ + rs[i + 1].size]
             new == RemoveAt(grown, i + 1)
         IN  /\ ArrayOK(new) /\ NoneEmpty(new) /\ Sorted(new)
             /\ Len(new) = Len(rs) - 1
             /\ \A k \in 1 .. i - 1 : new[k] = rs[k]
             /\ new[i].base = rs[i].base /\ rend(new[i]) = rend(rs[i + 1])
             /\ \A k \in i + 1 .. Len(rs) - 1 : new[k] = rs[k + 1]
<1> DEFINE r == [base |-> rs[i].base, size |-> rs[i].size + rs[i + 1].size]
           grown == [rs EXCEPT ![i].size = @ + rs[i + 1].size]
           new == RemoveAt(grown, i + 1)
           n == Len(rs)
<1>1. Flat(rs)
  BY ArrayFacts
<1>2. /\ n \in Nat /\ n > 1
      /\ i \in 1 .. n /\ i + 1 \in 1 .. n
  BY <1>1 DEF Flat
<1>3. /\ \A k, l \in 1 .. n : k < l => rend(rs[k]) <= rs[l].base
      /\ \A k \in 1 .. n : rs[k].size > 0
      /\ \A k \in 1 .. n : rs[k].base \in Nat /\ rend(rs[k]) \in Nat
      /\ \A k \in 1 .. n : rend(rs[k]) \in Addr
  <2>1. \A k \in 1 .. n : /\ rs[k].base \in Nat /\ rend(rs[k]) \in Nat
                          /\ rend(rs[k]) \in Addr
    BY <1>1 DEF Flat
  <2> QED
    BY <1>1, <2>1, SortedElements
<1>4. /\ rs[i] = [base |-> rs[i].base, size |-> rs[i].size]
      /\ rs[i].base \in Addr /\ rs[i].size \in Addr
      /\ rs[i].size > 0 /\ rs[i + 1].size > 0
      /\ rend(rs[i]) = rs[i].base + rs[i].size
      /\ rend(rs[i + 1]) = rs[i + 1].base + rs[i + 1].size
      /\ rs[i + 1].base \in Nat /\ rs[i + 1].size \in Nat
      /\ rend(rs[i + 1]) \in Addr
  <2>1. /\ rs[i] \in Region /\ rs[i].base \in Addr /\ rs[i].size \in Addr
        /\ rend(rs[i]) = rs[i].base + rs[i].size
        /\ rend(rs[i + 1]) = rs[i + 1].base + rs[i + 1].size
        /\ rs[i + 1].base \in Nat /\ rs[i + 1].size \in Nat
        /\ rend(rs[i + 1]) \in Addr
    BY <1>1, <1>2 DEF Flat
  <2>2. rs[i] = [base |-> rs[i].base, size |-> rs[i].size]
    BY <2>1 DEF Region
  <2> QED
    BY <1>2, <1>3, <2>1, <2>2
<1>5. /\ r \in Region /\ r.base = rs[i].base
      /\ rend(r) = rend(rs[i + 1]) /\ r.size > 0 /\ rend(r) \in Addr
  <2>1. /\ rs[i] \in Region /\ rs[i + 1] \in Region
        /\ rs[i].size > 0 /\ rend(rs[i + 1]) \in Addr
    BY <1>1, <1>2, <1>4 DEF Flat
  <2> QED
    BY <2>1, JoinedBytes
<1>6. grown = [rs EXCEPT ![i] = r]
  <2>1. [rs[i] EXCEPT !.size = @ + rs[i + 1].size] = r
    BY <1>4
  <2> QED
    BY <1>2, <2>1
<1> HIDE DEF r
<1>7. /\ grown \in Seq(Region) /\ Len(grown) = n
      /\ \A k \in 1 .. n : grown[k] = IF k = i THEN r ELSE rs[k]
  <2> HIDE DEF grown
  <2>1. rs \in Seq(Region) /\ i \in 1 .. Len(rs)
    BY <1>2 DEF ArrayOK
  <2> QED
    BY <1>5, <1>6, <2>1, ExceptSeq
<1> HIDE DEF grown
<1>8. /\ new \in Seq(Region) /\ Len(new) = n - 1
      /\ \A k \in 1 .. n - 1 :
           new[k] = IF k < i + 1 THEN grown[k] ELSE grown[k + 1]
  <2>1. grown \in Seq(Region) /\ i + 1 \in 1 .. Len(grown) /\ Len(grown) = n
    BY <1>2, <1>7
  <2> HIDE DEF n
  <2> QED
    BY <2>1, RemoveAtElements
<1> HIDE DEF new, n
<1>9. /\ \A k \in 1 .. i - 1 : new[k] = rs[k]
      /\ new[i] = r
      /\ \A k \in i + 1 .. n - 1 : new[k] = rs[k + 1]
  BY <1>2, <1>7, <1>8
<1>10. \A k, l \in 1 .. n - 1 : k < l => rend(new[k]) <= new[l].base
  <2>1. new[i].base = rs[i].base /\ rend(new[i]) = rend(rs[i + 1])
    BY <1>5, <1>9
  <2> QED
    BY <1>2, <1>3, <1>9, <2>1, MergeOrder
<1>11. \A k \in 1 .. n - 1 : rend(new[k]) \in Addr /\ new[k].size > 0
  <2> TAKE k \in 1 .. n - 1
  <2>1. CASE k < i
    BY <1>2, <1>3, <1>9, <2>1
  <2>2. CASE k = i
    BY <1>5, <1>9, <2>2
  <2>3. CASE k > i
    <3>1. k + 1 \in 1 .. n /\ k \in i + 1 .. n - 1
      BY <1>2, <2>3
    <3>2. new[k] = rs[k + 1]
      BY <1>9, <3>1
    <3> QED
      BY <1>3, <3>1, <3>2
  <2> QED
    BY <1>2, <2>1, <2>2, <2>3
<1>12. ArrayOK(new)
  <2>1. n - 1 \in 1 .. INIT_MEMBLOCK_REGIONS
    BY <1>2, SizesAssumption DEF ArrayOK, n
  <2> QED
    BY <1>8, <1>11, <2>1, IsArray
<1>13. NoneEmpty(new) /\ Sorted(new)
  <2>1. Flat(new)
    BY <1>12, ArrayFacts
  <2> QED
    BY <1>8, <1>10, <1>11, <2>1, SortedElements
<1> QED
  BY <1>5, <1>8, <1>9, <1>12, <1>13 DEF new, grown, n

\* A region cut in two at an address inside it.
LEMMA CutBytes ==
  ASSUME NEW x \in Region, rend(x) \in Addr, NEW cut \in Addr, x.base < cut, cut < rend(x)
  PROVE  LET low == [base |-> x.base, size |-> cut - x.base]
             high == [base |-> cut, size |-> x.size - (cut - x.base)]
         IN  /\ low \in Region /\ low.size > 0 /\ low.base = x.base /\ rend(low) = cut
             /\ high \in Region /\ high.size > 0 /\ high.base = cut
             /\ rend(high) = rend(x)
BY SizesAssumption DEF Region, rend, Addr

\* Splitting region i at cut.
LEMMA SplitRegion ==
  ASSUME NEW rs, ArrayOK(rs), NEW i \in 1 .. Len(rs),
         NEW cut \in Addr, rs[i].base < cut, cut < rend(rs[i])
  PROVE  LET shrunk == [rs EXCEPT ![i] =
                          [base |-> cut, size |-> @.size - (cut - rs[i].base)]]
             new == InsertAt(shrunk, i,
                             [base |-> rs[i].base, size |-> cut - rs[i].base])
         IN  /\ ArrayOK(shrunk)
             /\ ~Full(rs) => ArrayOK(new)
             /\ Len(new) = Len(rs) + 1
             /\ \A k \in 1 .. i - 1 : new[k] = rs[k]
             /\ new[i].base = rs[i].base /\ rend(new[i]) = cut
             /\ new[i + 1].base = cut /\ rend(new[i + 1]) = rend(rs[i])
             /\ new[i].size > 0 /\ new[i + 1].size > 0
             /\ \A k \in i + 2 .. Len(rs) + 1 : new[k] = rs[k - 1]
<1> DEFINE low == [base |-> rs[i].base, size |-> cut - rs[i].base]
           high == [base |-> cut, size |-> rs[i].size - (cut - rs[i].base)]
           shrunk == [rs EXCEPT ![i] = high]
           new == InsertAt(shrunk, i, low)
           n == Len(rs)
<1>1. Flat(rs)
  BY ArrayFacts
<1>2. /\ n \in Nat /\ n >= 1 /\ n <= INIT_MEMBLOCK_REGIONS
      /\ i \in 1 .. n
      /\ \A k \in 1 .. n : rend(rs[k]) \in Addr
      /\ rs[i] \in Region
  BY <1>1, SizesAssumption DEF Flat, ArrayOK
<1>3. /\ low \in Region /\ low.size > 0 /\ low.base = rs[i].base /\ rend(low) = cut
      /\ high \in Region /\ high.size > 0 /\ high.base = cut
      /\ rend(high) = rend(rs[i])
  <2>1. rs[i] \in Region /\ rend(rs[i]) \in Addr
    BY <1>2
  <2> QED
    BY <2>1, CutBytes
<1> HIDE DEF low, high
<1>4. /\ shrunk \in Seq(Region) /\ Len(shrunk) = n
      /\ \A k \in 1 .. n : shrunk[k] = IF k = i THEN high ELSE rs[k]
  <2>1. rs \in Seq(Region)
    BY DEF ArrayOK
  <2> QED
    BY <1>3, <2>1, ExceptSeq
<1> HIDE DEF shrunk
<1>5. /\ new \in Seq(Region) /\ Len(new) = n + 1
      /\ \A k \in 1 .. n + 1 :
           new[k] = IF k < i THEN shrunk[k] ELSE IF k = i THEN low ELSE shrunk[k - 1]
  <2>1. i \in 1 .. Len(shrunk) + 1
    BY <1>2, <1>4
  <2> HIDE DEF n
  <2>2. shrunk \in Seq(Region) /\ low \in Region
    BY <1>3, <1>4
  <2>3. /\ InsertAt(shrunk, i, low) \in Seq(Region)
        /\ Inserted(InsertAt(shrunk, i, low), shrunk, i, low)
    BY <2>1, <2>2, InsertAtElements, Zenon
  <2>4. new \in Seq(Region) /\ Inserted(new, shrunk, i, low) /\ Len(shrunk) = n
    BY <1>4, <2>3, Zenon DEF new
  <2> HIDE DEF new
  <2> QED
    BY <2>4, Zenon DEF Inserted
<1> HIDE DEF new, n
<1>6. /\ \A k \in 1 .. i - 1 : new[k] = rs[k]
      /\ new[i] = low
      /\ new[i + 1] = high
      /\ \A k \in i + 2 .. n + 1 : new[k] = rs[k - 1]
  <2>1. /\ \A k \in 1 .. n : shrunk[k] = IF k = i THEN high ELSE rs[k]
        /\ \A k \in 1 .. n + 1 :
             new[k] = IF k < i THEN shrunk[k] ELSE IF k = i THEN low ELSE shrunk[k - 1]
    BY <1>4, <1>5
  <2>2. ASSUME NEW k \in i + 2 .. n + 1 PROVE new[k] = rs[k - 1]
    <3>1. /\ k \in 1 .. n + 1 /\ k - 1 \in 1 .. n /\ k - 1 # i
          /\ ~(k < i) /\ k # i
      BY <1>2
    <3> QED
      BY <2>1, <3>1
  <2>3. new[i] = low
    BY <1>2, <2>1
  <2>4. new[i + 1] = high
    BY <1>2, <2>1
  <2>5. \A k \in 1 .. i - 1 : new[k] = rs[k]
    BY <1>2, <2>1
  <2> QED
    BY <2>2, <2>3, <2>4, <2>5
<1>7. \A k \in 1 .. n : rend(shrunk[k]) \in Addr
  BY <1>2, <1>3, <1>4
<1>8. ArrayOK(shrunk)
  <2>1. n \in 1 .. INIT_MEMBLOCK_REGIONS
    BY <1>2, SizesAssumption
  <2> QED
    BY <1>4, <1>7, <2>1, IsArray
<1>9. ASSUME ~Full(rs) PROVE ArrayOK(new)
  <2>1. n + 1 \in 1 .. INIT_MEMBLOCK_REGIONS
    BY <1>2, <1>9, SizesAssumption DEF Full, n
  <2>2. \A k \in 1 .. n + 1 : rend(new[k]) \in Addr
    <3> TAKE k \in 1 .. n + 1
    <3>1. CASE k < i
      BY <1>2, <1>6, <3>1
    <3>2. CASE k = i \/ k = i + 1
      BY <1>2, <1>3, <1>6, <3>2
    <3>3. CASE k > i + 1
      <4>1. k - 1 \in 1 .. n /\ k \in i + 2 .. n + 1
        BY <1>2, <3>3
      <4>2. new[k] = rs[k - 1]
        BY <1>6, <4>1
      <4> QED
        BY <1>2, <4>1, <4>2
    <3> QED
      BY <1>2, <3>1, <3>2, <3>3
  <2> QED
    BY <1>5, <2>1, <2>2, IsArray
<1> QED
  BY <1>3, <1>5, <1>6, <1>8, <1>9 DEF new, shrunk, low, high, n

-----------------------------------------------------------------------------
\* The arrays begin with their dummy entries.
LEMMA InitInv == Init => IInv
<1> SUFFICES ASSUME Init PROVE IInv
  OBVIOUS
<1>1. ArrayOK(Empty)
  BY SizesAssumption DEF ArrayOK, Empty, Region, Addr, rend
<1>2. TypeOK
  <2>1. [regions |-> Empty, total |-> 0] \in [regions : Seq(Region), total : Int]
    BY <1>1 DEF ArrayOK
  <2>2. mb \in [Types -> [regions : Seq(Region), total : Int]]
    BY <2>1 DEF Init
  <2>3. \A t \in Types : ArrayOK(mb[t].regions)
    BY <1>1 DEF Init
  <2>4. found \in Addr
    BY SizesAssumption DEF Init, Addr
  <2>5. pc = "idle" /\ hung \in BOOLEAN
    BY DEF Init
  <2> QED
    BY <2>2, <2>3, <2>4, <2>5 DEF TypeOK, FrameOK
<1>3. OthersCanonical
  BY DEF Init, OthersCanonical, CanonicalArray
<1> QED
  BY <1>2, <1>3 DEF Init, IInv, ScanInv, MergeInv, IsolateInv, RemoveInv, AllocFree

PCs == {"idle", "count", "insert", "merge", "isolate", "remove", "find", "reserve"}

\* Steps that leave the arrays alone.
LEMMA QuietTypes ==
  ASSUME TypeOK, UNCHANGED <<mb, hung>>, found' \in Addr, pc' \in PCs, FrameOK'
  PROVE  TypeOK'
BY DEF TypeOK, PCs, ArrayOK

\* Steps that give one of them new regions.
LEMMA ArrayChanged ==
  ASSUME TypeOK, NEW t \in Types, NEW rs, ArrayOK(rs), NEW total \in Int,
         mb' = [mb EXCEPT ![t] = [regions |-> rs, total |-> total]]
  PROVE  /\ mb' \in [Types -> [regions : Seq(Region), total : Int]]
         /\ mb'[t].regions = rs
         /\ \A u \in Types : u # t => mb'[u] = mb[u]
         /\ \A u \in Types : ArrayOK(mb'[u].regions)
<1>1. mb \in [Types -> [regions : Seq(Region), total : Int]]
  BY DEF TypeOK
<1>2. [regions |-> rs, total |-> total] \in [regions : Seq(Region), total : Int]
  BY DEF ArrayOK
<1>3. \A u \in Types : mb'[u] = IF u = t THEN [regions |-> rs, total |-> total] ELSE mb[u]
  BY <1>1
<1>4. mb' \in [Types -> [regions : Seq(Region), total : Int]]
  BY <1>1, <1>2
<1>5. mb'[t].regions = rs
  BY <1>3
<1>6. \A u \in Types : ArrayOK(mb'[u].regions)
  <2> TAKE u \in Types
  <2>1. CASE u = t
    BY <1>5, <2>1
  <2>2. CASE u # t
    BY <1>3, <2>2 DEF TypeOK
  <2> QED
    BY <2>1, <2>2
<1> QED
  BY <1>3, <1>4, <1>5, <1>6

(***************************************************************************)
(* The two passes of memblock_add_range.                                   *)
(***************************************************************************)

\* The regions around the one that the loop looks at.
LEMMA ScanFacts ==
  ASSUME IInv, Scanning
  PROVE  /\ ~hung /\ fr \in AddFrames /\ fr.type \in Types
         /\ ArrayOK(ScanRegions) /\ NoneEmpty(ScanRegions) /\ Sorted(ScanRegions)
         /\ Len(ScanRegions) \in Nat
         /\ fr.base \in Nat /\ fr.end \in Nat /\ fr.obase \in Nat
         /\ fr.obase < fr.end /\ fr.obase <= fr.base /\ fr.base <= fr.end
         /\ fr.idx \in 1 .. Len(ScanRegions) + 1
         /\ \A k \in 1 .. Len(ScanRegions) :
              /\ ScanRegions[k].base \in Nat /\ rend(ScanRegions[k]) \in Nat
              /\ rend(ScanRegions[k]) \in Addr
              /\ ScanRegions[k].base < rend(ScanRegions[k])
         /\ \A k, l \in 1 .. Len(ScanRegions) :
              k < l => rend(ScanRegions[k]) <= ScanRegions[l].base
         /\ \A k \in 1 .. fr.idx - 1 :
              rend(ScanRegions[k]) <= fr.base \/ fr.base = fr.end
<1>1. /\ ~hung /\ pc \in {"count", "insert"}
      /\ fr \in AddFrames
      /\ fr.obase < fr.end /\ fr.obase <= fr.base /\ fr.base <= fr.end
      /\ fr.idx \in 1 .. Len(ScanRegions) + 1
  BY DEF IInv, TypeOK, FrameOK, Scanning
<1>2. /\ fr.type \in Types
      /\ fr.base \in Nat /\ fr.end \in Nat /\ fr.obase \in Nat
  BY <1>1, SizesAssumption DEF AddFrames, Addr
<1>3. ArrayOK(ScanRegions)
  BY <1>2 DEF IInv, TypeOK, ScanRegions
<1>4. /\ NoneEmpty(ScanRegions) /\ Sorted(ScanRegions)
      /\ \A k \in 1 .. fr.idx - 1 :
           rend(ScanRegions[k]) <= fr.base \/ fr.base = fr.end
  BY <1>1 DEF IInv, ScanInv
<1>5. Flat(ScanRegions)
  BY <1>3, ArrayFacts
<1> HIDE DEF ScanRegions
<1>6. /\ Len(ScanRegions) \in Nat
      /\ \A k \in 1 .. Len(ScanRegions) :
           /\ ScanRegions[k].base \in Nat /\ rend(ScanRegions[k]) \in Nat
           /\ rend(ScanRegions[k]) \in Addr
  BY <1>5 DEF Flat
<1>7. /\ \A k \in 1 .. Len(ScanRegions) : ScanRegions[k].base < rend(ScanRegions[k])
      /\ \A k, l \in 1 .. Len(ScanRegions) :
           k < l => rend(ScanRegions[k]) <= ScanRegions[l].base
  BY <1>4, <1>5, SortedElements
<1> QED
  BY <1>1, <1>2, <1>3, <1>4, <1>6, <1>7

\* Going on to the next region.
LEMMA Advance ==
  ASSUME IInv, Scanning, InLoop, UNCHANGED <<mb, pc, found, hung>>,
         fr' \in AddFrames, fr'.type = fr.type, fr'.obase = fr.obase,
         fr'.end = fr.end, fr'.idx = fr.idx + 1,
         \/ rend(ScanRegion) <= fr.base /\ fr'.base = fr.base
         \/ rend(ScanRegion) > fr.base /\ fr'.base = min(rend(ScanRegion), fr.end)
  PROVE  IInv'
<1> DEFINE rs == ScanRegions
           n == Len(rs)
<1>1. /\ ~hung /\ fr \in AddFrames /\ fr.type \in Types
      /\ n \in Nat /\ fr.idx \in 1 .. n /\ ScanRegion = rs[fr.idx]
      /\ fr.base \in Nat /\ fr.end \in Nat /\ fr.obase \in Nat
      /\ fr.obase < fr.end /\ fr.obase <= fr.base /\ fr.base <= fr.end
  BY ScanFacts DEF InLoop, ScanRegion
<1>2. /\ \A k \in 1 .. n : rs[k].base \in Nat /\ rend(rs[k]) \in Nat
                            /\ rs[k].base < rend(rs[k])
      /\ \A k, l \in 1 .. n : k < l => rend(rs[k]) <= rs[l].base
      /\ \A k \in 1 .. fr.idx - 1 : rend(rs[k]) <= fr.base \/ fr.base = fr.end
  BY ScanFacts
<1>3. ScanRegions' = rs /\ NoneEmpty(rs) /\ Sorted(rs)
  BY ScanFacts DEF ScanRegions
<1>4. /\ fr'.base \in Nat /\ fr'.end \in Nat
      /\ fr'.obase < fr'.end /\ fr'.obase <= fr'.base /\ fr'.base <= fr'.end
  BY <1>1, <1>2 DEF min
<1>5. \A k \in 1 .. fr'.idx - 1 : rend(rs[k]) <= fr'.base \/ fr'.base = fr'.end
  <2> SUFFICES ASSUME NEW k \in 1 .. fr.idx
               PROVE  rend(rs[k]) <= fr'.base \/ fr'.base = fr'.end
    BY <1>1
  <2> HIDE DEF rs, n
  <2>1. k \in 1 .. n /\ rend(rs[k]) <= rend(ScanRegion)
    BY <1>1, <1>2
  <2>2. rend(rs[k]) \in Nat /\ rend(ScanRegion) \in Nat
    BY <1>1, <1>2, <2>1
  <2>3. CASE rend(ScanRegion) <= fr.base
    BY <1>1, <2>1, <2>2, <2>3
  <2>4. CASE rend(ScanRegion) > fr.base
    BY <1>1, <2>1, <2>2, <2>4 DEF min
  <2> QED
    BY <1>1, <2>2, <2>3, <2>4
<1>6. pc' \in {"count", "insert"} /\ pc' = pc
  BY DEF Scanning
<1> HIDE DEF rs, n
<1>7. FrameOK'
  <2>1. fr'.idx \in 1 .. Len(ScanRegions') + 1
    BY <1>1, <1>3 DEF n
  <2> QED
    BY <1>4, <1>6, <2>1 DEF FrameOK
<1>8. TypeOK'
  BY <1>6, <1>7, QuietTypes DEF IInv, TypeOK, PCs
<1>9. OthersCanonical'
  BY <1>1 DEF IInv, OthersCanonical, Changing
<1>10. ScanInv'
  BY <1>3, <1>5 DEF ScanInv
<1> QED
  BY <1>6, <1>8, <1>9, <1>10
  DEF IInv, MergeInv, IsolateInv, RemoveInv, AllocFree

\* A region below what is left of the range.
LEMMA ScanSkipInv == ASSUME IInv, ScanSkip PROVE IInv'
<1>1. Scanning /\ InLoop /\ fr \in AddFrames
  BY ScanFacts DEF ScanSkip
<1>2. /\ fr' \in AddFrames /\ fr'.type = fr.type /\ fr'.obase = fr.obase
      /\ fr'.end = fr.end /\ fr'.idx = fr.idx + 1 /\ fr'.base = fr.base
  BY <1>1 DEF ScanSkip, AddFrames
<1> QED
  BY <1>1, <1>2, Advance DEF ScanSkip

\* What is left of the range begins at an address.
LEMMA NextBase ==
  ASSUME IInv, Scanning, InLoop
  PROVE  /\ min(rend(ScanRegion), fr.end) \in Addr
         /\ HasFront => rend(ScanRegion) > fr.base
<1>1. /\ fr.idx \in 1 .. Len(ScanRegions) /\ fr.base \in Nat
      /\ fr \in AddFrames /\ Len(ScanRegions) \in Nat
      /\ \A k \in 1 .. Len(ScanRegions) :
           /\ ScanRegions[k].base \in Nat /\ rend(ScanRegions[k]) \in Nat
           /\ rend(ScanRegions[k]) \in Addr
           /\ ScanRegions[k].base < rend(ScanRegions[k])
  BY ScanFacts DEF InLoop
<1>2. /\ ScanRegion.base \in Nat /\ rend(ScanRegion) \in Addr
      /\ rend(ScanRegion) \in Nat /\ ScanRegion.base < rend(ScanRegion)
  BY <1>1 DEF ScanRegion
<1>3. fr.end \in Addr
  BY <1>1 DEF AddFrames
<1> QED
  BY <1>1, <1>2, <1>3 DEF min, HasFront

\* A region that covers the front of the range: the locals after it.
LEMMA OverlapLocals ==
  ASSUME IInv, ScanOverlap
  PROVE  /\ Scanning /\ InLoop
         /\ fr' \in AddFrames /\ fr'.type = fr.type /\ fr'.obase = fr.obase
         /\ fr'.end = fr.end /\ fr'.idx = fr.idx + 1 /\ fr'.nr_new = fr.nr_new
         /\ fr'.base = min(rend(ScanRegion), fr.end)
<1>1. Scanning /\ InLoop /\ fr \in AddFrames
  BY ScanFacts DEF ScanOverlap
<1>2. min(rend(ScanRegion), fr.end) \in Addr
  BY <1>1, NextBase
<1> DEFINE b == min(rend(ScanRegion), fr.end)
           j == fr.idx + 1
<1>3. /\ b \in Addr /\ j \in Nat
      /\ fr' = [fr EXCEPT !.idx = j, !.base = b]
  BY <1>1, <1>2 DEF ScanOverlap, AddFrames
<1> HIDE DEF b, j
<1>4. /\ fr' \in AddFrames /\ fr'.type = fr.type /\ fr'.obase = fr.obase
      /\ fr'.end = fr.end /\ fr'.idx = j /\ fr'.base = b /\ fr'.nr_new = fr.nr_new
  BY <1>1, <1>3 DEF AddFrames
<1> QED
  BY <1>1, <1>4 DEF b, j

LEMMA ScanOverlapInv == ASSUME IInv, ScanOverlap PROVE IInv'
  BY OverlapLocals, Advance DEF ScanOverlap

\* A gap before the region, in the first pass: the locals after it.
LEMMA CountLocals ==
  ASSUME IInv, CountFront
  PROVE  /\ Scanning /\ InLoop /\ rend(ScanRegion) > fr.base
         /\ fr' \in AddFrames /\ fr'.type = fr.type /\ fr'.obase = fr.obase
         /\ fr'.end = fr.end /\ fr'.idx = fr.idx + 1 /\ fr'.nr_new = fr.nr_new + 1
         /\ fr'.base = min(rend(ScanRegion), fr.end)
<1>1. Scanning /\ InLoop /\ fr \in AddFrames
  BY ScanFacts DEF CountFront, Running, Scanning
<1>2. /\ min(rend(ScanRegion), fr.end) \in Addr
      /\ rend(ScanRegion) > fr.base
  BY <1>1, NextBase DEF CountFront
<1> DEFINE b == min(rend(ScanRegion), fr.end)
           j == fr.idx + 1
           nr == fr.nr_new + 1
<1>3. /\ b \in Addr /\ j \in Nat /\ nr \in Nat
      /\ fr' = [fr EXCEPT !.idx = j, !.nr_new = nr, !.base = b]
  BY <1>1, <1>2 DEF CountFront, AddFrames
<1> HIDE DEF b, j, nr
<1>4. /\ fr' \in AddFrames /\ fr'.type = fr.type /\ fr'.obase = fr.obase
      /\ fr'.end = fr.end /\ fr'.idx = j /\ fr'.base = b /\ fr'.nr_new = nr
  BY <1>1, <1>3 DEF AddFrames
<1> QED
  BY <1>1, <1>2, <1>4 DEF b, j, nr

LEMMA CountFrontInv == ASSUME IInv, CountFront PROVE IInv'
  BY CountLocals, Advance DEF CountFront

\* Inserting a region in front of region i while the second pass runs.
LEMMA InsertStep ==
  ASSUME IInv, Running("insert"), ~Full(ScanRegions),
         NEW i \in 1 .. Len(ScanRegions) + 1,
         NEW base \in Addr, NEW size \in Addr, base + size \in Addr, size > 0,
         \A k \in 1 .. i - 1 : rend(ScanRegions[k]) <= base,
         \A k \in i .. Len(ScanRegions) : base + size <= ScanRegions[k].base,
         mb' = [mb EXCEPT ![fr.type] = memblock_insert_region(@, i, base, size)]
  PROVE  LET new == mb'[fr.type].regions
         IN  /\ mb' \in [Types -> [regions : Seq(Region), total : Int]]
             /\ \A t \in Types : ArrayOK(mb'[t].regions)
             /\ \A t \in Types : t # fr.type => mb'[t] = mb[t]
             /\ NoneEmpty(new) /\ Sorted(new)
             /\ Len(new) = Len(ScanRegions) + 1
             /\ \A k \in 1 .. i - 1 : new[k] = ScanRegions[k]
             /\ new[i].base = base /\ rend(new[i]) = base + size
             /\ \A k \in i + 1 .. Len(ScanRegions) + 1 : new[k] = ScanRegions[k - 1]
<1> DEFINE rs == ScanRegions
           new == InsertAt(rs, i, [base |-> base, size |-> size])
           total == mb[fr.type].total + size
<1>1. fr.type \in Types /\ ArrayOK(rs) /\ NoneEmpty(rs) /\ Sorted(rs)
  BY ScanFacts DEF Scanning, Running
<1>2. /\ ArrayOK(new) /\ NoneEmpty(new) /\ Sorted(new)
      /\ Len(new) = Len(rs) + 1
      /\ \A k \in 1 .. i - 1 : new[k] = rs[k]
      /\ new[i].base = base /\ rend(new[i]) = base + size
      /\ \A k \in i + 1 .. Len(rs) + 1 : new[k] = rs[k - 1]
  BY <1>1, InsertRegion
<1>3. mb[fr.type].total \in Int /\ mb \in [Types -> [regions : Seq(Region), total : Int]]
  BY <1>1 DEF IInv, TypeOK
<1>4. total \in Int
  BY <1>3, SizesAssumption DEF Addr
<1>5. mb' = [mb EXCEPT ![fr.type] = [regions |-> new, total |-> total]]
  BY DEF memblock_insert_region, ScanRegions
<1> HIDE DEF new, total, rs
<1>6. TypeOK
  BY DEF IInv
<1>7. /\ mb' \in [Types -> [regions : Seq(Region), total : Int]]
      /\ mb'[fr.type].regions = new
      /\ \A t \in Types : t # fr.type => mb'[t] = mb[t]
      /\ \A t \in Types : ArrayOK(mb'[t].regions)
  <2>1. fr.type \in Types /\ ArrayOK(new)
    BY <1>1, <1>2
  <2> QED
    BY <1>4, <1>5, <1>6, <2>1, ArrayChanged
<1> QED
  BY <1>2, <1>7 DEF rs

\* The gap is inserted, in the second pass: the array and the locals after it.
LEMMA FrontInserted ==
  ASSUME IInv, InsertFront
  PROVE  LET rs == ScanRegions
             n == Len(rs)
             new == mb'[fr.type].regions
         IN  /\ Scanning /\ InLoop /\ fr.idx \in 1 .. n
             /\ fr.base < ScanRegion.base /\ ScanRegion.base < fr.end
             /\ \A k \in 1 .. fr.idx - 1 : rend(rs[k]) <= fr.base
             /\ mb' \in [Types -> [regions : Seq(Region), total : Int]]
             /\ \A t \in Types : ArrayOK(mb'[t].regions)
             /\ \A t \in Types : t # fr.type => mb'[t] = mb[t]
             /\ NoneEmpty(new) /\ Sorted(new)
             /\ Len(new) = n + 1
             /\ \A k \in 1 .. fr.idx - 1 : new[k] = rs[k]
             /\ new[fr.idx].base = fr.base /\ rend(new[fr.idx]) = ScanRegion.base
             /\ \A k \in fr.idx + 1 .. n + 1 : new[k] = rs[k - 1]
             /\ fr' \in AddFrames /\ fr'.type = fr.type /\ fr'.obase = fr.obase
             /\ fr'.end = fr.end /\ fr'.idx = fr.idx + 2
             /\ fr'.nr_new = fr.nr_new + 1 /\ fr'.cnt0 = fr.cnt0
             /\ fr'.planned = fr.planned
             /\ fr'.base = min(rend(ScanRegion), fr.end)
<1> DEFINE rs == ScanRegions
           n == Len(rs)
           size == ScanRegion.base - fr.base
           new == mb'[fr.type].regions
<1>1. /\ Running("insert") /\ Scanning /\ InLoop /\ ~Full(rs)
      /\ ScanRegion.base > fr.base /\ ScanRegion.base < fr.end
      /\ mb' = [mb EXCEPT ![fr.type] = memblock_insert_region(@, fr.idx, fr.base, size)]
  BY DEF InsertFront, Running, Scanning, HasFront, InLoop
<1>2. /\ ~hung /\ fr \in AddFrames /\ fr.type \in Types
      /\ n \in Nat /\ fr.idx \in 1 .. n /\ ScanRegion = rs[fr.idx]
      /\ fr.base \in Nat /\ fr.end \in Nat /\ fr.obase \in Nat
      /\ fr.base \in Addr /\ fr.end \in Addr
      /\ fr.obase < fr.end /\ fr.obase <= fr.base
  BY <1>1, ScanFacts DEF InLoop, ScanRegion, AddFrames
<1>3. /\ \A k \in 1 .. n : rs[k].base \in Nat /\ rend(rs[k]) \in Nat
                            /\ rs[k].base < rend(rs[k])
      /\ \A k, l \in 1 .. n : k < l => rend(rs[k]) <= rs[l].base
      /\ \A k \in 1 .. fr.idx - 1 : rend(rs[k]) <= fr.base \/ fr.base = fr.end
  BY <1>1, ScanFacts
<1> HIDE DEF rs, n
<1>4. /\ ScanRegion.base \in Nat /\ rend(ScanRegion) \in Nat
      /\ ScanRegion.base < rend(ScanRegion)
  BY <1>2, <1>3
<1>5. /\ size \in Addr /\ size > 0 /\ fr.base + size = ScanRegion.base
      /\ fr.base + size \in Addr
  BY <1>1, <1>2, <1>4, SizesAssumption DEF Addr
<1>6. \A k \in 1 .. fr.idx - 1 : rend(rs[k]) <= fr.base
  BY <1>1, <1>2, <1>3, <1>4
<1>7. \A k \in fr.idx .. n : ScanRegion.base <= rs[k].base
  <2> TAKE k \in fr.idx .. n
  <2>1. CASE k = fr.idx
    BY <1>2, <1>4, <2>1
  <2>2. CASE k # fr.idx
    <3>1. k \in 1 .. n /\ fr.idx < k
      BY <1>2, <2>2
    <3>2. rend(ScanRegion) <= rs[k].base /\ rs[k].base \in Nat
      BY <1>2, <1>3, <3>1
    <3> QED
      BY <1>4, <3>2
  <2> QED
    BY <2>1, <2>2
<1> HIDE DEF size
<1>8. /\ mb' \in [Types -> [regions : Seq(Region), total : Int]]
      /\ \A t \in Types : ArrayOK(mb'[t].regions)
      /\ \A t \in Types : t # fr.type => mb'[t] = mb[t]
      /\ NoneEmpty(new) /\ Sorted(new)
      /\ Len(new) = n + 1
      /\ \A k \in 1 .. fr.idx - 1 : new[k] = rs[k]
      /\ new[fr.idx].base = fr.base /\ rend(new[fr.idx]) = ScanRegion.base
      /\ \A k \in fr.idx + 1 .. n + 1 : new[k] = rs[k - 1]
  <2>1. /\ fr.idx \in 1 .. Len(ScanRegions) + 1
        /\ \A k \in 1 .. fr.idx - 1 : rend(ScanRegions[k]) <= fr.base
        /\ \A k \in fr.idx .. Len(ScanRegions) :
             fr.base + size <= ScanRegions[k].base
        /\ ~Full(ScanRegions)
    BY <1>1, <1>2, <1>5, <1>6, <1>7 DEF rs, n
  <2>2. /\ mb' \in [Types -> [regions : Seq(Region), total : Int]]
        /\ \A t \in Types : ArrayOK(mb'[t].regions)
        /\ \A t \in Types : t # fr.type => mb'[t] = mb[t]
        /\ NoneEmpty(new) /\ Sorted(new)
        /\ Len(new) = Len(ScanRegions) + 1
        /\ \A k \in 1 .. fr.idx - 1 : new[k] = ScanRegions[k]
        /\ new[fr.idx].base = fr.base /\ rend(new[fr.idx]) = fr.base + size
        /\ \A k \in fr.idx + 1 .. Len(ScanRegions) + 1 : new[k] = ScanRegions[k - 1]
    <3>1. /\ Running("insert")
          /\ mb' = [mb EXCEPT ![fr.type] =
                     memblock_insert_region(@, fr.idx, fr.base, size)]
          /\ fr.base \in Addr
          /\ size \in Addr /\ size > 0 /\ fr.base + size \in Addr
      BY <1>1, <1>2, <1>5
    <3>2. LET nw == mb'[fr.type].regions
          IN  /\ mb' \in [Types -> [regions : Seq(Region), total : Int]]
              /\ \A t \in Types : ArrayOK(mb'[t].regions)
              /\ \A t \in Types : t # fr.type => mb'[t] = mb[t]
              /\ NoneEmpty(nw) /\ Sorted(nw)
              /\ Len(nw) = Len(ScanRegions) + 1
              /\ \A k \in 1 .. fr.idx - 1 : nw[k] = ScanRegions[k]
              /\ nw[fr.idx].base = fr.base /\ rend(nw[fr.idx]) = fr.base + size
              /\ \A k \in fr.idx + 1 .. Len(ScanRegions) + 1 :
                   nw[k] = ScanRegions[k - 1]
      <4> HIDE DEF new
      <4> QED
        BY <2>1, <3>1, InsertStep, Zenon
    <3> QED
      BY <3>2 DEF new
  <2> QED
    BY <1>5, <2>2 DEF rs, n
<1> HIDE DEF new
<1>9. /\ fr' \in AddFrames /\ fr'.type = fr.type /\ fr'.obase = fr.obase
      /\ fr'.end = fr.end /\ fr'.idx = fr.idx + 2 /\ fr'.nr_new = fr.nr_new + 1
      /\ fr'.cnt0 = fr.cnt0 /\ fr'.planned = fr.planned
      /\ fr'.base = min(rend(ScanRegion), fr.end)
  <2> DEFINE b == min(rend(ScanRegion), fr.end)
             j == fr.idx + 2
             nr == fr.nr_new + 1
  <2>1. b \in Addr
    BY <1>1, NextBase
  <2>2. /\ j \in Nat /\ nr \in Nat
        /\ fr' = [fr EXCEPT !.idx = j, !.nr_new = nr, !.base = b]
    BY <1>2 DEF InsertFront, AddFrames
  <2> HIDE DEF b, j, nr
  <2>3. /\ fr' \in AddFrames /\ fr'.type = fr.type /\ fr'.obase = fr.obase
        /\ fr'.end = fr.end /\ fr'.idx = j /\ fr'.base = b /\ fr'.nr_new = nr
        /\ fr'.cnt0 = fr.cnt0 /\ fr'.planned = fr.planned
    BY <1>2, <2>1, <2>2 DEF AddFrames
  <2> QED
    BY <2>3 DEF b, j, nr
<1> QED
  BY <1>1, <1>2, <1>6, <1>8, <1>9, Zenon DEF rs, n, new

LEMMA InsertFrontInv == ASSUME IInv, InsertFront PROVE IInv'
<1> DEFINE rs == ScanRegions
           n == Len(rs)
           new == mb'[fr.type].regions
<1>1. Running("insert") /\ InLoop
  BY DEF InsertFront
<1>2. /\ Scanning /\ fr.idx \in 1 .. n
      /\ fr.base < ScanRegion.base /\ ScanRegion.base < fr.end
      /\ \A k \in 1 .. fr.idx - 1 : rend(rs[k]) <= fr.base
  BY FrontInserted
<1>3. /\ mb' \in [Types -> [regions : Seq(Region), total : Int]]
      /\ \A t \in Types : ArrayOK(mb'[t].regions)
      /\ \A t \in Types : t # fr.type => mb'[t] = mb[t]
      /\ NoneEmpty(new) /\ Sorted(new)
      /\ Len(new) = n + 1
      /\ \A k \in 1 .. fr.idx - 1 : new[k] = rs[k]
      /\ rend(new[fr.idx]) = ScanRegion.base
      /\ \A k \in fr.idx + 1 .. n + 1 : new[k] = rs[k - 1]
  BY FrontInserted
<1>4. /\ fr' \in AddFrames /\ fr'.type = fr.type /\ fr'.obase = fr.obase
      /\ fr'.end = fr.end /\ fr'.idx = fr.idx + 2
      /\ fr'.base = min(rend(ScanRegion), fr.end)
  BY FrontInserted
<1>5. /\ fr \in AddFrames /\ fr.type \in Types /\ ~hung
      /\ n \in Nat /\ ScanRegion = rs[fr.idx]
      /\ fr.base \in Nat /\ fr.end \in Nat /\ fr.obase \in Nat
      /\ fr.obase < fr.end /\ fr.obase <= fr.base
      /\ \A k \in 1 .. n : rs[k].base \in Nat /\ rend(rs[k]) \in Nat
                            /\ rs[k].base < rend(rs[k])
  BY <1>2, ScanFacts DEF ScanRegion
<1> HIDE DEF rs, n, new
<1>6. /\ ScanRegion.base \in Nat /\ rend(ScanRegion) \in Nat
      /\ ScanRegion.base < rend(ScanRegion)
  BY <1>2, <1>5
<1>7. pc = "insert" /\ pc' = pc /\ ScanRegions' = new /\ found' = found /\ hung' = hung
  BY <1>1, <1>4 DEF InsertFront, Running, ScanRegions, new
<1>8. /\ fr'.base \in Nat /\ fr'.end \in Nat
       /\ fr'.obase < fr'.end /\ fr'.obase <= fr'.base /\ fr'.base <= fr'.end
  BY <1>2, <1>4, <1>5, <1>6 DEF min
<1>9. \A k \in 1 .. fr'.idx - 1 : rend(new[k]) <= fr'.base \/ fr'.base = fr'.end
  <2> SUFFICES ASSUME NEW k \in 1 .. fr.idx + 1
               PROVE  rend(new[k]) <= fr'.base \/ fr'.base = fr'.end
    BY <1>2, <1>4, <1>5
  <2>1. rend(new[k]) \in Nat /\ rend(new[k]) <= rend(ScanRegion)
    <3>1. CASE k < fr.idx
      <4>1. /\ new[k] = rs[k] /\ k \in 1 .. n
            /\ rend(rs[k]) <= fr.base
        <5>1. k \in 1 .. fr.idx - 1 /\ k \in 1 .. n
          BY <1>2, <1>5, <3>1
        <5> QED
          BY <1>2, <1>3, <5>1
      <4>2. rend(rs[k]) \in Nat
        BY <1>5, <4>1
      <4> QED
        BY <1>2, <1>5, <1>6, <4>1, <4>2
    <3>2. CASE k = fr.idx
      BY <1>3, <1>6, <3>2
    <3>3. CASE k = fr.idx + 1
      <4>1. k \in fr.idx + 1 .. n + 1 /\ k - 1 = fr.idx
        BY <1>2, <1>5, <3>3
      <4>2. new[k] = ScanRegion
        BY <1>3, <1>5, <4>1
      <4> QED
        BY <1>6, <4>2
    <3> QED
      BY <1>2, <1>5, <3>1, <3>2, <3>3
  <2> QED
    BY <1>4, <1>5, <1>6, <2>1 DEF min
<1>10. FrameOK'
  <2>1. fr'.idx \in 1 .. Len(ScanRegions') + 1
    <3>1. Len(ScanRegions') = n + 1
      BY <1>3, <1>7
    <3>2. fr.idx \in 1 .. n /\ n \in Nat /\ fr'.idx = fr.idx + 2
      BY <1>2, <1>4, <1>5
    <3>3. fr'.idx \in 1 .. n + 2
      BY <3>2
    <3> QED
      BY <3>1, <3>2, <3>3
  <2> QED
    BY <1>4, <1>7, <1>8, <2>1 DEF FrameOK
<1>11. TypeOK'
  BY <1>3, <1>7, <1>10 DEF IInv, TypeOK
<1>12. OthersCanonical'
  BY <1>1, <1>3, <1>4, <1>7 DEF IInv, OthersCanonical, Changing, Running
<1>13. ScanInv'
  BY <1>3, <1>7, <1>9 DEF ScanInv
<1> QED
  BY <1>7, <1>11, <1>12, <1>13
  DEF IInv, MergeInv, IsolateInv, RemoveInv, AllocFree

\* Nothing runs: every array is canonical and there are no locals.
LEMMA IdleInv ==
  ASSUME TypeOK, OthersCanonical, \A t \in Types : ~Changing(t), ~hung,
         UNCHANGED <<mb, hung>>, found' \in Addr, pc' = "idle"
  PROVE  IInv'
<1>1. TypeOK'
  BY QuietTypes DEF PCs, FrameOK
<1>2. OthersCanonical'
  BY DEF OthersCanonical
<1> QED
  BY <1>1, <1>2 DEF IInv, ScanInv, MergeInv, IsolateInv, RemoveInv, AllocFree

\* The second pass begins where the first has begun, or the call returns.
LEMMA CountDoneInv == ASSUME IInv, CountDone PROVE IInv'
<1>1. /\ pc = "count" /\ ~hung /\ Scanning /\ fr \in AddFrames /\ fr.type \in Types
      /\ NoneEmpty(ScanRegions) /\ Sorted(ScanRegions)
      /\ Len(ScanRegions) \in Nat /\ fr.obase < fr.end
      /\ fr.obase \in Nat /\ fr.end \in Nat
  BY ScanFacts DEF CountDone, Running, Scanning
<1>2. CASE NrNew = 0
  <2>1. pc' = "idle" /\ UNCHANGED <<mb, hung, found>>
    BY <1>2 DEF CountDone, Return
  <2> QED
    BY <1>1, <2>1, IdleInv DEF IInv, TypeOK, Changing
<1>3. CASE NrNew # 0
  <2>1. /\ pc' = "insert" /\ UNCHANGED <<mb, hung, found>>
        /\ fr' = ScanFrame(fr.type, fr.obase, fr.end, fr.cnt0, NrNew)
    BY <1>3 DEF CountDone
  <2>2. NrNew \in Nat
    BY <1>1 DEF NrNew, AddFrames
  <2>3. /\ fr' \in AddFrames /\ fr'.type = fr.type /\ fr'.obase = fr.obase
        /\ fr'.base = fr.obase /\ fr'.end = fr.end /\ fr'.idx = 1
    BY <1>1, <2>1, <2>2 DEF ScanFrame, AddFrames
  <2>4. ScanRegions' = ScanRegions
    BY <2>1, <2>3 DEF ScanRegions
  <2>5. FrameOK'
    BY <1>1, <2>1, <2>3, <2>4 DEF FrameOK
  <2>6. TypeOK'
    BY <2>1, <2>5, QuietTypes DEF IInv, TypeOK, PCs
  <2>7. OthersCanonical'
    BY <1>1, <2>1 DEF IInv, OthersCanonical, Changing
  <2>8. ScanInv'
    BY <1>1, <2>1, <2>3, <2>4 DEF ScanInv
  <2> QED
    BY <2>1, <2>6, <2>7, <2>8
    DEF IInv, MergeInv, IsolateInv, RemoveInv, AllocFree
<1> QED
  BY <1>2, <1>3

\* The merge begins.
LEMMA MergeBegins ==
  ASSUME IInv, Running("insert"), pc' = "merge", fr' = [type |-> fr.type, idx |-> 1],
         UNCHANGED <<found, hung>>, fr.type \in Types,
         mb' \in [Types -> [regions : Seq(Region), total : Int]],
         \A t \in Types : ArrayOK(mb'[t].regions),
         \A t \in Types : t # fr.type => mb'[t] = mb[t],
         NoneEmpty(mb'[fr.type].regions), Sorted(mb'[fr.type].regions)
  PROVE  IInv'
<1>1. /\ fr' \in MergeFrames /\ fr'.type = fr.type /\ fr'.idx = 1
      /\ ScanRegions' = mb'[fr.type].regions
  BY DEF MergeFrames, ScanRegions
<1>2. fr'.idx \in 1 .. Len(ScanRegions')
  BY <1>1, ArrayFacts DEF Flat
<1>3. FrameOK'
  BY <1>1, <1>2 DEF FrameOK
<1>4. TypeOK'
  BY <1>3 DEF IInv, TypeOK
<1>5. OthersCanonical'
  BY <1>1 DEF IInv, OthersCanonical, Changing, Running
<1>6. MergeInv'
  <2>1. \A k, l \in 1 .. fr'.idx : ~(k < l)
    BY <1>1
  <2> QED
    BY <1>1, <2>1 DEF MergeInv
<1> QED
  BY <1>4, <1>5, <1>6 DEF IInv, ScanInv, IsolateInv, RemoveInv, AllocFree

\* The tail is inserted behind the last region of the range.
LEMMA TailInserted ==
  ASSUME IInv, InsertDone, HasTail
  PROVE  LET rs == ScanRegions
             n == Len(rs)
             new == mb'[fr.type].regions
         IN  /\ \A k \in 1 .. fr.idx - 1 : rend(rs[k]) <= fr.base
             /\ mb' \in [Types -> [regions : Seq(Region), total : Int]]
             /\ \A t \in Types : ArrayOK(mb'[t].regions)
             /\ \A t \in Types : t # fr.type => mb'[t] = mb[t]
             /\ NoneEmpty(new) /\ Sorted(new)
             /\ Len(new) = n + 1
             /\ \A k \in 1 .. fr.idx - 1 : new[k] = rs[k]
             /\ new[fr.idx].base = fr.base /\ rend(new[fr.idx]) = fr.end
             /\ \A k \in fr.idx + 1 .. n + 1 : new[k] = rs[k - 1]
<1> DEFINE rs == ScanRegions
           n == Len(rs)
           size == fr.end - fr.base
<1>1. Running("insert") /\ Scanning /\ ~InLoop /\ fr.base < fr.end
  BY DEF InsertDone, Running, Scanning, HasTail
<1>2. /\ fr \in AddFrames /\ fr.type \in Types
      /\ n \in Nat /\ fr.idx \in 1 .. n + 1
      /\ fr.base \in Nat /\ fr.end \in Nat
      /\ fr.base \in Addr /\ fr.end \in Addr
  BY <1>1, ScanFacts DEF AddFrames
<1>3. /\ \A k \in 1 .. n : rs[k].base \in Nat /\ rend(rs[k]) \in Nat
                            /\ rs[k].base < rend(rs[k])
      /\ \A k, l \in 1 .. n : k < l => rend(rs[k]) <= rs[l].base
      /\ \A k \in 1 .. fr.idx - 1 : rend(rs[k]) <= fr.base \/ fr.base = fr.end
  BY <1>1, ScanFacts
<1>4. fr.idx \in 1 .. n => ~(rs[fr.idx].base < fr.end)
  BY <1>1 DEF InLoop, ScanRegion
<1> HIDE DEF rs, n
<1>5. /\ ~Full(rs)
      /\ mb' = [mb EXCEPT ![fr.type] =
                  memblock_insert_region(@, fr.idx, fr.base, size)]
  BY DEF InsertDone, rs
<1>6. /\ size \in Addr /\ size > 0 /\ fr.base + size = fr.end
      /\ fr.base + size \in Addr
  BY <1>1, <1>2, SizesAssumption DEF Addr
<1>7. \A k \in 1 .. fr.idx - 1 : rend(rs[k]) <= fr.base
  BY <1>1, <1>2, <1>3
<1>8. \A k \in fr.idx .. n : fr.end <= rs[k].base
  <2> TAKE k \in fr.idx .. n
  <2>1. fr.idx \in 1 .. n /\ k \in 1 .. n
    BY <1>2
  <2>2. /\ rs[fr.idx].base \in Nat /\ rend(rs[fr.idx]) \in Nat
        /\ rs[fr.idx].base < rend(rs[fr.idx])
        /\ rs[k].base \in Nat
    BY <1>3, <2>1
  <2>3. fr.end <= rs[fr.idx].base
    BY <1>2, <1>4, <2>1, <2>2
  <2>4. CASE k = fr.idx
    BY <2>3, <2>4
  <2>5. CASE k # fr.idx
    <3>1. rend(rs[fr.idx]) <= rs[k].base
      BY <1>3, <2>1, <2>5
    <3> QED
      BY <1>2, <2>2, <2>3, <3>1
  <2> QED
    BY <2>4, <2>5
<1> HIDE DEF size
<1>9. LET new == mb'[fr.type].regions
      IN  /\ mb' \in [Types -> [regions : Seq(Region), total : Int]]
          /\ \A t \in Types : ArrayOK(mb'[t].regions)
          /\ \A t \in Types : t # fr.type => mb'[t] = mb[t]
          /\ NoneEmpty(new) /\ Sorted(new)
          /\ Len(new) = Len(ScanRegions) + 1
          /\ \A k \in 1 .. fr.idx - 1 : new[k] = ScanRegions[k]
          /\ new[fr.idx].base = fr.base /\ rend(new[fr.idx]) = fr.base + size
          /\ \A k \in fr.idx + 1 .. Len(ScanRegions) + 1 : new[k] = ScanRegions[k - 1]
  <2>1. /\ fr.idx \in 1 .. Len(ScanRegions) + 1
        /\ \A k \in 1 .. fr.idx - 1 : rend(ScanRegions[k]) <= fr.base
        /\ \A k \in fr.idx .. Len(ScanRegions) : fr.base + size <= ScanRegions[k].base
        /\ ~Full(ScanRegions)
    BY <1>2, <1>5, <1>6, <1>7, <1>8 DEF rs, n
  <2> QED
    BY <1>1, <1>2, <1>5, <1>6, <2>1, InsertStep, Zenon
<1> QED
  BY <1>6, <1>7, <1>9 DEF rs, n

\* Everything is ordered for the merge.
LEMMA InsertDoneInv == ASSUME IInv, InsertDone PROVE IInv'
<1>1. /\ Running("insert") /\ Scanning
      /\ pc' = "merge" /\ fr' = [type |-> fr.type, idx |-> 1]
      /\ UNCHANGED <<found, hung>>
  BY DEF InsertDone, Running, Scanning
<1>2. fr.type \in Types /\ NoneEmpty(ScanRegions) /\ Sorted(ScanRegions)
  BY <1>1, ScanFacts
<1>3. /\ mb' \in [Types -> [regions : Seq(Region), total : Int]]
      /\ \A t \in Types : ArrayOK(mb'[t].regions)
      /\ \A t \in Types : t # fr.type => mb'[t] = mb[t]
      /\ NoneEmpty(mb'[fr.type].regions) /\ Sorted(mb'[fr.type].regions)
  <2>1. CASE HasTail
    BY <2>1, TailInserted
  <2>2. CASE ~HasTail
    <3>1. mb' = mb
      BY <2>2 DEF InsertDone
    <3> QED
      BY <1>2, <3>1 DEF IInv, TypeOK, ScanRegions
  <2> QED
    BY <2>1, <2>2
<1> QED
  BY <1>1, <1>2, <1>3, MergeBegins

\* After a BUG only the types are left.
LEMMA InsertBugInv == ASSUME IInv, InsertBug PROVE IInv'
<1>1. hung' = TRUE /\ UNCHANGED <<mb, pc, fr, found>> /\ pc = "insert"
  BY DEF InsertBug, Bug, Running
<1>2. FrameOK'
  BY <1>1 DEF IInv, TypeOK, FrameOK, ScanRegions
<1>3. TypeOK'
  BY <1>1, <1>2 DEF IInv, TypeOK, ArrayOK
<1> QED
  BY <1>1, <1>3 DEF IInv

(***************************************************************************)
(* A call of memblock_add_range, by a caller or by an allocation.          *)
(***************************************************************************)

\* Canonical arrays are in order, and only Empty has an empty region.
LEMMA CanonicalOrder ==
  ASSUME NEW rs, ArrayOK(rs), CanonicalArray(rs)
  PROVE  /\ Sorted(rs)
         /\ ~IsEmpty(rs) => NoneEmpty(rs)
<1>1. Flat(rs)
  BY ArrayFacts
<1>2. CASE rs = Empty
  <2>1. DOMAIN rs = 1 .. 1 /\ rs[1].size = 0
    BY <1>2 DEF Empty
  <2> QED
    BY <2>1 DEF Sorted, IsEmpty
<1>3. CASE NoneEmpty(rs) /\ Separated(rs)
  <2>1. \A k \in DOMAIN rs : rs[k].base \in Nat /\ rend(rs[k]) \in Nat
    BY <1>1 DEF Flat
  <2> QED
    BY <1>3, <2>1 DEF Separated, Sorted
<1> QED
  BY <1>2, <1>3 DEF CanonicalArray

\* The capped end of a range is an address.
LEMMA CapFacts ==
  ASSUME NEW base \in Addr, NEW size \in Addr
  PROVE  /\ memblock_cap_size(base, size) \in Addr
         /\ memblock_cap_size(base, size) \in Nat
         /\ base + memblock_cap_size(base, size) \in Addr
BY SizesAssumption DEF memblock_cap_size, min, Addr

\* A first region.
LEMMA SingleRegion ==
  ASSUME NEW base \in Addr, NEW size \in Addr, base + size \in Addr, size > 0
  PROVE  LET rs == <<[base |-> base, size |-> size]>>
         IN  ArrayOK(rs) /\ CanonicalArray(rs)
<1> DEFINE r == [base |-> base, size |-> size]
           rs == <<r>>
<1>1. r \in Region /\ r.size > 0 /\ rend(r) \in Addr
  BY DEF Region, rend
<1> HIDE DEF r
<1>2. /\ rs \in Seq(Region) /\ Len(rs) = 1
      /\ DOMAIN rs = 1 .. 1 /\ rs[1] = r
  BY <1>1
<1> HIDE DEF rs
<1>3. ArrayOK(rs)
  <2>1. 1 \in 1 .. INIT_MEMBLOCK_REGIONS
    BY SizesAssumption
  <2>2. \A k \in 1 .. 1 : rend(rs[k]) \in Addr
    BY <1>1, <1>2
  <2> QED
    BY <1>2, <2>1, <2>2, IsArray
<1>4. NoneEmpty(rs) /\ Separated(rs)
  BY <1>1, <1>2 DEF NoneEmpty, Separated
<1> QED
  BY <1>3, <1>4 DEF CanonicalArray, rs, r

\* The first part of memblock_add_range, for both arrays and all callers.
LEMMA AddRangeInv ==
  ASSUME IInv, ~hung, pc \in {"idle", "reserve"},
         NEW t \in Types, NEW base \in Addr, NEW size \in Addr,
         memblock_add_range(t, base, size), UNCHANGED <<found, hung>>
  PROVE  IInv'
<1> DEFINE capped == memblock_cap_size(base, size)
           m == mb[t]
           rs == m.regions
<1>1. /\ TypeOK /\ OthersCanonical /\ found' \in Addr
      /\ \A u \in Types : ~Changing(u)
      /\ \A u \in Types : CanonicalArray(mb[u].regions)
  BY DEF IInv, TypeOK, Changing, OthersCanonical
<1>2. capped \in Addr /\ capped \in Nat /\ base + capped \in Addr
  BY CapFacts
<1>3. ArrayOK(rs) /\ Sorted(rs) /\ (~IsEmpty(rs) => NoneEmpty(rs))
  BY <1>1, CanonicalOrder DEF TypeOK
<1> HIDE DEF capped
<1>4. CASE capped = 0
  <2>1. pc' = "idle" /\ UNCHANGED mb
    BY <1>2, <1>4 DEF memblock_add_range, Return, capped
  <2> QED
    BY <1>1, <2>1, IdleInv
<1>5. CASE capped > 0 /\ IsEmpty(rs)
  <2> DEFINE one == <<[base |-> base, size |-> capped]>>
  <2>1. ArrayOK(one) /\ CanonicalArray(one)
    BY <1>2, <1>5, SingleRegion
  <2> HIDE DEF one
  <2>2. /\ mb' = [mb EXCEPT ![t] = [regions |-> one, total |-> capped]]
        /\ pc' = "idle"
    BY <1>2, <1>5 DEF memblock_add_range, Return, capped, one
  <2>3. capped \in Int
    BY <1>2
  <2>4. /\ mb' \in [Types -> [regions : Seq(Region), total : Int]]
        /\ mb'[t].regions = one
        /\ \A u \in Types : u # t => mb'[u] = mb[u]
        /\ \A u \in Types : ArrayOK(mb'[u].regions)
    BY <1>1, <2>1, <2>2, <2>3, ArrayChanged
  <2>5. FrameOK'
    BY <2>2 DEF FrameOK
  <2>6. TypeOK'
    BY <1>1, <2>2, <2>4, <2>5 DEF TypeOK
  <2>7. OthersCanonical'
    <3>1. \A u \in Types : CanonicalArray(mb'[u].regions)
      BY <1>1, <2>1, <2>4
    <3> QED
      BY <3>1 DEF OthersCanonical
  <2> QED
    BY <2>2, <2>6, <2>7
    DEF IInv, ScanInv, MergeInv, IsolateInv, RemoveInv, AllocFree
<1>6. CASE capped > 0 /\ ~IsEmpty(rs)
  <2>1. /\ pc' = "count" /\ UNCHANGED mb
        /\ fr' = ScanFrame(t, base, base + capped, Len(rs), 0)
    BY <1>2, <1>6 DEF memblock_add_range, capped
  <2>2. Len(rs) \in Nat
    BY <1>3, ArrayFacts DEF Flat
  <2> HIDE DEF rs
  <2>3. /\ fr' \in AddFrames /\ fr'.type = t /\ fr'.obase = base
        /\ fr'.base = base /\ fr'.end = base + capped /\ fr'.idx = 1
    BY <1>2, <2>1, <2>2 DEF ScanFrame, AddFrames
  <2>4. ScanRegions' = rs
    BY <2>1, <2>3 DEF ScanRegions, rs
  <2>5. FrameOK'
    <3>1. base \in Nat /\ base < base + capped
      BY <1>2, <1>6, SizesAssumption DEF Addr
    <3>2. /\ fr'.obase < fr'.end /\ fr'.obase <= fr'.base /\ fr'.base <= fr'.end
          /\ fr'.idx \in 1 .. Len(ScanRegions') + 1
      BY <1>2, <2>2, <2>3, <2>4, <3>1
    <3> QED
      BY <2>1, <2>3, <3>2 DEF FrameOK
  <2>6. TypeOK'
    BY <1>1, <2>1, <2>5, QuietTypes DEF PCs
  <2>7. OthersCanonical'
    BY <1>1, <2>1 DEF OthersCanonical
  <2>8. ScanInv'
    <3>1. \A k \in 1 .. fr'.idx - 1 : FALSE
      BY <2>3
    <3> QED
      BY <1>3, <1>6, <2>4, <3>1 DEF ScanInv
  <2> QED
    BY <2>1, <2>6, <2>7, <2>8
    DEF IInv, MergeInv, IsolateInv, RemoveInv, AllocFree
<1> QED
  BY <1>2, <1>4, <1>5, <1>6

\* memblock_add.
LEMMA AddInv ==
  ASSUME IInv, NEW c \in AddCalls, memblock_add(c[1], c[2])
  PROVE  IInv'
<1>1. c[1] \in Addr /\ c[2] \in Addr /\ "memory" \in Types
  BY CallsAssumption DEF Ranges, Types
<1>2. /\ ~hung /\ pc = "idle" /\ UNCHANGED <<found, hung>>
      /\ memblock_add_range("memory", c[1], c[2])
  BY DEF memblock_add, Running
<1> QED
  BY <1>1, <1>2, AddRangeInv

\* memblock_reserve.
LEMMA ReserveInv ==
  ASSUME IInv, NEW c \in ReserveCalls, memblock_reserve(c[1], c[2])
  PROVE  IInv'
<1>1. c[1] \in Addr /\ c[2] \in Addr /\ "reserved" \in Types
  BY CallsAssumption DEF Ranges, Types
<1>2. /\ ~hung /\ pc = "idle" /\ UNCHANGED <<found, hung>>
      /\ memblock_add_range("reserved", c[1], c[2])
  BY DEF memblock_reserve, Running
<1> QED
  BY <1>1, <1>2, AddRangeInv

\* The reservation of what the search has found.
LEMMA AllocReserveInv == ASSUME IInv, AllocReserve PROVE IInv'
<1>1. /\ ~hung /\ pc = "reserve" /\ UNCHANGED <<found, hung>>
      /\ memblock_add_range("reserved", found, fr.size)
  BY DEF AllocReserve, Running
<1>2. found \in Addr /\ fr.size \in Addr /\ "reserved" \in Types
  BY <1>1 DEF IInv, TypeOK, FrameOK, SearchFrames, Types
<1> QED
  BY <1>1, <1>2, AddRangeInv

(***************************************************************************)
(* memblock_merge_regions.                                                 *)
(***************************************************************************)
LEMMA MergeFacts ==
  ASSUME IInv, Running("merge")
  PROVE  /\ ~hung /\ pc = "merge" /\ fr \in MergeFrames /\ fr.type \in Types
         /\ ArrayOK(ScanRegions) /\ NoneEmpty(ScanRegions) /\ Sorted(ScanRegions)
         /\ Len(ScanRegions) \in Nat
         /\ fr.idx \in 1 .. Len(ScanRegions)
         /\ \A k \in 1 .. Len(ScanRegions) :
              /\ ScanRegions[k].base \in Nat /\ rend(ScanRegions[k]) \in Nat
              /\ ScanRegions[k].base < rend(ScanRegions[k])
         /\ \A k, l \in 1 .. Len(ScanRegions) :
              k < l => rend(ScanRegions[k]) <= ScanRegions[l].base
         /\ \A k, l \in 1 .. fr.idx :
              k < l => rend(ScanRegions[k]) < ScanRegions[l].base
<1>1. /\ ~hung /\ pc = "merge" /\ fr \in MergeFrames
      /\ fr.idx \in 1 .. Len(ScanRegions)
  BY DEF IInv, TypeOK, FrameOK, Running
<1>2. fr.type \in Types
  BY <1>1 DEF MergeFrames
<1>3. ArrayOK(ScanRegions)
  BY <1>2 DEF IInv, TypeOK, ScanRegions
<1>4. /\ NoneEmpty(ScanRegions) /\ Sorted(ScanRegions)
      /\ \A k, l \in 1 .. fr.idx :
           k < l => rend(ScanRegions[k]) < ScanRegions[l].base
  BY <1>1 DEF IInv, MergeInv
<1>5. Flat(ScanRegions)
  BY <1>3, ArrayFacts
<1> HIDE DEF ScanRegions
<1>6. /\ Len(ScanRegions) \in Nat
      /\ \A k \in 1 .. Len(ScanRegions) :
           ScanRegions[k].base \in Nat /\ rend(ScanRegions[k]) \in Nat
  BY <1>5 DEF Flat
<1>7. /\ \A k \in 1 .. Len(ScanRegions) : ScanRegions[k].base < rend(ScanRegions[k])
      /\ \A k, l \in 1 .. Len(ScanRegions) :
           k < l => rend(ScanRegions[k]) <= ScanRegions[l].base
  BY <1>4, <1>5, SortedElements
<1> QED
  BY <1>1, <1>2, <1>3, <1>4, <1>6, <1>7

\* Two regions become one.
LEMMA Merged ==
  ASSUME IInv, Merge
  PROVE  LET rs == ScanRegions
             i == fr.idx
             new == mb'[fr.type].regions
         IN  /\ ArrayOK(rs) /\ i \in 1 .. Len(rs) - 1 /\ rend(rs[i]) = rs[i + 1].base
             /\ mb' \in [Types -> [regions : Seq(Region), total : Int]]
             /\ \A t \in Types : t # fr.type => mb'[t] = mb[t]
             /\ \A t \in Types : ArrayOK(mb'[t].regions)
             /\ NoneEmpty(new) /\ Sorted(new)
             /\ Len(new) = Len(rs) - 1
             /\ \A k \in 1 .. i - 1 : new[k] = rs[k]
             /\ new[i].base = rs[i].base /\ rend(new[i]) = rend(rs[i + 1])
             /\ \A k \in i + 1 .. Len(rs) - 1 : new[k] = rs[k + 1]
<1> DEFINE rs == ScanRegions
           i == fr.idx
           grown == [rs EXCEPT ![i].size = @ + rs[i + 1].size]
           new == RemoveAt(grown, i + 1)
           total == mb[fr.type].total
<1>1. /\ ~hung /\ pc = "merge" /\ fr \in MergeFrames /\ fr.type \in Types
      /\ ArrayOK(rs) /\ NoneEmpty(rs) /\ Sorted(rs)
      /\ Len(rs) \in Nat
      /\ \A k, l \in 1 .. i : k < l => rend(rs[k]) < rs[l].base
  BY MergeFacts DEF Merge, Merging
<1>2. /\ i \in 1 .. Len(rs) - 1 /\ rend(rs[i]) = rs[i + 1].base
      /\ UNCHANGED <<pc, fr, found, hung>>
  <2>1. i \in 1 .. Len(rs) /\ i < Len(rs) /\ Len(rs) \in Nat
    BY MergeFacts DEF Merge, Merging
  <2>2. i \in 1 .. Len(rs) - 1
    BY <2>1
  <2> QED
    BY <2>2 DEF Merge, Touches, ScanRegion
<1>3. /\ ArrayOK(new) /\ NoneEmpty(new) /\ Sorted(new)
      /\ Len(new) = Len(rs) - 1
      /\ \A k \in 1 .. i - 1 : new[k] = rs[k]
      /\ new[i].base = rs[i].base /\ rend(new[i]) = rend(rs[i + 1])
      /\ \A k \in i + 1 .. Len(rs) - 1 : new[k] = rs[k + 1]
  <2> HIDE DEF rs, i
  <2> QED
    BY <1>1, <1>2, MergeRegions
<1>4. mb \in [Types -> [regions : Seq(Region), total : Int]] /\ TypeOK
  BY DEF IInv, TypeOK
<1>5. mb[fr.type] \in [regions : Seq(Region), total : Int]
  BY <1>1, <1>4
<1>6. mb' = [mb EXCEPT ![fr.type] = [regions |-> new, total |-> total]]
  <2>1. mb' = [mb EXCEPT ![fr.type] = MergeAt(@, i)]
    BY DEF Merge
  <2>2. MergeAt(mb[fr.type], i) = [mb[fr.type] EXCEPT !.regions = new]
    BY DEF MergeAt, ScanRegions
  <2> HIDE DEF new
  <2>3. MergeAt(mb[fr.type], i) = [regions |-> new, total |-> total]
    BY <1>5, <2>2
  <2> QED
    BY <1>1, <1>4, <2>1, <2>3
<1>7. total \in Int
  BY <1>5
<1> HIDE DEF new, total, rs
<1>8. /\ mb' \in [Types -> [regions : Seq(Region), total : Int]]
      /\ mb'[fr.type].regions = new
      /\ \A t \in Types : t # fr.type => mb'[t] = mb[t]
      /\ \A t \in Types : ArrayOK(mb'[t].regions)
  BY <1>1, <1>3, <1>4, <1>6, <1>7, ArrayChanged
<1> QED
  BY <1>1, <1>2, <1>3, <1>8, Zenon DEF rs

\* What is before idx still touches nothing.
LEMMA MergeStepInv == ASSUME IInv, Merge PROVE IInv'
<1> DEFINE rs == ScanRegions
           i == fr.idx
           new == mb'[fr.type].regions
<1>1. /\ ~hung /\ pc = "merge" /\ fr \in MergeFrames /\ fr.type \in Types
      /\ \A k, l \in 1 .. i : k < l => rend(rs[k]) < rs[l].base
      /\ Len(rs) \in Nat
  BY MergeFacts DEF Merge, Merging
<1>2. UNCHANGED <<pc, fr, found, hung>>
  BY DEF Merge
<1>3. /\ i \in 1 .. Len(rs) - 1
      /\ mb' \in [Types -> [regions : Seq(Region), total : Int]]
      /\ \A t \in Types : t # fr.type => mb'[t] = mb[t]
      /\ \A t \in Types : ArrayOK(mb'[t].regions)
      /\ NoneEmpty(new) /\ Sorted(new)
      /\ Len(new) = Len(rs) - 1
      /\ \A k \in 1 .. i - 1 : new[k] = rs[k]
      /\ new[i].base = rs[i].base
  BY Merged
<1> HIDE DEF rs
<1>4. ScanRegions' = new /\ fr' = fr /\ pc' = pc
  BY <1>2 DEF ScanRegions
<1> HIDE DEF new
<1>5. FrameOK'
  <2>1. i \in 1 .. Len(new)
    BY <1>1, <1>3
  <2> QED
    BY <1>1, <1>4, <2>1 DEF FrameOK
<1>6. TypeOK'
  BY <1>2, <1>3, <1>5 DEF IInv, TypeOK
<1>7. OthersCanonical'
  BY <1>1, <1>3, <1>4 DEF IInv, OthersCanonical, Changing
<1>8. MergeInv'
  <2>1. ASSUME NEW k \in 1 .. i, NEW l \in 1 .. i, k < l
        PROVE  rend(new[k]) < new[l].base
    <3>1. new[k] = rs[k] /\ new[l].base = rs[l].base
      BY <1>1, <1>2, <1>3, <2>1
    <3> QED
      BY <1>1, <2>1, <3>1
  <2> QED
    BY <1>3, <1>4, <2>1 DEF MergeInv
<1> QED
  BY <1>1, <1>2, <1>4, <1>6, <1>7, <1>8
  DEF IInv, ScanInv, IsolateInv, RemoveInv, AllocFree

\* The next region does not touch this one.
LEMMA MergeNextInv == ASSUME IInv, MergeNext PROVE IInv'
<1> DEFINE rs == ScanRegions
           n == Len(rs)
           i == fr.idx
<1>1. /\ ~hung /\ pc = "merge" /\ fr \in MergeFrames /\ fr.type \in Types
      /\ NoneEmpty(rs) /\ Sorted(rs)
      /\ n \in Nat /\ i \in 1 .. n /\ i < n /\ rend(rs[i]) # rs[i + 1].base
  BY MergeFacts DEF MergeNext, Merging, Touches, ScanRegion
<1>2. /\ \A k \in 1 .. n : rs[k].base \in Nat /\ rend(rs[k]) \in Nat
                            /\ rs[k].base < rend(rs[k])
      /\ \A k, l \in 1 .. n : k < l => rend(rs[k]) <= rs[l].base
      /\ \A k, l \in 1 .. i : k < l => rend(rs[k]) < rs[l].base
  BY MergeFacts DEF MergeNext, Merging
<1>3. /\ fr' \in MergeFrames /\ fr'.type = fr.type /\ fr'.idx = i + 1
      /\ pc' = pc /\ UNCHANGED <<mb, found, hung>>
  BY <1>1 DEF MergeNext, MergeFrames
<1>4. ScanRegions' = rs
  BY <1>3 DEF ScanRegions
<1> HIDE DEF rs, n, i
<1>5. \A k, l \in 1 .. i + 1 : k < l => rend(rs[k]) < rs[l].base
  <2> SUFFICES ASSUME NEW k \in 1 .. i + 1, NEW l \in 1 .. i + 1, k < l
               PROVE  rend(rs[k]) < rs[l].base
    OBVIOUS
  <2>1. CASE l <= i
    <3>1. k \in 1 .. i /\ l \in 1 .. i
      BY <1>1, <2>1
    <3> QED
      BY <1>2, <3>1
  <2>2. CASE l = i + 1
    <3>1. k \in 1 .. i /\ k \in 1 .. n /\ i + 1 \in 1 .. n
      BY <1>1, <2>2
    <3>2. /\ rend(rs[i]) < rs[i + 1].base /\ rs[i].base < rend(rs[i])
          /\ rs[i].base \in Nat /\ rend(rs[i]) \in Nat /\ rs[i + 1].base \in Nat
          /\ rend(rs[k]) \in Nat
      BY <1>1, <1>2, <3>1
    <3>3. k = i \/ rend(rs[k]) < rs[i].base
      BY <1>1, <1>2, <3>1
    <3> QED
      BY <2>2, <3>2, <3>3
  <2> QED
    BY <1>1, <2>1, <2>2
<1>6. FrameOK'
  <2>1. i + 1 \in 1 .. n
    BY <1>1
  <2> QED
    BY <1>1, <1>3, <1>4, <2>1 DEF FrameOK, n
<1>7. TypeOK'
  BY <1>1, <1>3, <1>6, QuietTypes DEF IInv, TypeOK, PCs
<1>8. OthersCanonical'
  BY <1>1, <1>3 DEF IInv, OthersCanonical, Changing
<1>9. MergeInv'
  BY <1>1, <1>3, <1>4, <1>5 DEF MergeInv
<1> QED
  BY <1>1, <1>3, <1>7, <1>8, <1>9
  DEF IInv, ScanInv, IsolateInv, RemoveInv, AllocFree

\* A call returns with the array it has worked on canonical again.
LEMMA Returned ==
  ASSUME IInv, ~hung, pc \in {"merge", "remove"}, fr.type \in Types,
         CanonicalArray(ScanRegions),
         pc' = "idle", UNCHANGED <<mb, found, hung>>
  PROVE  IInv'
<1>1. \A t \in Types : CanonicalArray(mb[t].regions)
  BY DEF IInv, OthersCanonical, Changing, ScanRegions
<1>2. OthersCanonical'
  BY <1>1 DEF OthersCanonical
<1>3. FrameOK'
  BY DEF FrameOK
<1>4. TypeOK'
  BY <1>3, QuietTypes DEF IInv, TypeOK, PCs
<1> QED
  BY <1>2, <1>4 DEF IInv, ScanInv, MergeInv, IsolateInv, RemoveInv, AllocFree

\* At the end of the merge the array is canonical.
LEMMA MergeDoneInv == ASSUME IInv, MergeDone PROVE IInv'
<1>1. /\ ~hung /\ pc = "merge" /\ fr.type \in Types
      /\ NoneEmpty(ScanRegions)
      /\ Len(ScanRegions) \in Nat /\ fr.idx \in 1 .. Len(ScanRegions)
      /\ \A k, l \in 1 .. fr.idx :
           k < l => rend(ScanRegions[k]) < ScanRegions[l].base
      /\ fr.idx >= Len(ScanRegions)
      /\ ArrayOK(ScanRegions)
  BY MergeFacts DEF MergeDone
<1>2. fr.idx = Len(ScanRegions) /\ DOMAIN ScanRegions = 1 .. Len(ScanRegions)
  BY <1>1, ArrayFacts DEF Flat
<1>3. CanonicalArray(ScanRegions)
  BY <1>1, <1>2 DEF CanonicalArray, Separated
<1> QED
  BY <1>1, <1>3, Returned DEF MergeDone, Return

(***************************************************************************)
(* memblock_isolate_range.                                                 *)
(***************************************************************************)
LEMMA TouchOrder ==
  ASSUME NEW rs, ArrayOK(rs), TouchAtCuts(rs)
  PROVE  /\ \A k, l \in 1 .. Len(rs) : k < l =>
              \/ rend(rs[k]) < rs[l].base
              \/ rend(rs[k]) = rs[l].base
                 /\ (rs[l].base = fr.base \/ rs[l].base = fr.end)
         /\ \/ rs = Empty /\ Len(rs) = 1 /\ rs[1].base = 0 /\ rend(rs[1]) = 0
            \/ NoneEmpty(rs) /\ \A k \in 1 .. Len(rs) : rs[k].base < rend(rs[k])
<1>1. Flat(rs)
  BY ArrayFacts
<1>2. CASE rs = Empty
  <2>1. Len(rs) = 1 /\ rs[1].base = 0 /\ rend(rs[1]) = 0
    BY <1>2 DEF Empty, rend
  <2>2. \A k, l \in 1 .. Len(rs) : ~(k < l)
    BY <2>1
  <2> QED
    BY <1>2, <2>1, <2>2
<1>3. CASE rs # Empty
  <2>1. /\ NoneEmpty(rs)
        /\ \A k, l \in DOMAIN rs : k < l =>
             \/ rend(rs[k]) < rs[l].base
             \/ rend(rs[k]) = rs[l].base /\ rs[l].base \in {fr.base, fr.end}
    BY <1>3 DEF TouchAtCuts
  <2>2. \A k \in 1 .. Len(rs) : rs[k].base < rend(rs[k])
    BY <1>1, <2>1, SortedElements
  <2>3. DOMAIN rs = 1 .. Len(rs)
    BY <1>1 DEF Flat
  <2> QED
    BY <2>1, <2>2, <2>3
<1> QED
  BY <1>2, <1>3

\* What the invariant says inside of the loop of memblock_isolate_range.
LEMMA IsolateFacts ==
  ASSUME IInv, Isolating
  PROVE  /\ ~hung /\ pc = "isolate" /\ fr \in IsolateFrames
         /\ fr.type = "reserved" /\ fr.type \in Types
         /\ ArrayOK(ScanRegions) /\ TouchAtCuts(ScanRegions)
         /\ Len(ScanRegions) \in Nat
         /\ fr.base \in Nat /\ fr.end \in Nat /\ fr.base < fr.end
         /\ fr.idx \in 1 .. Len(ScanRegions) + 1
         /\ fr.start_rgn \in Nat /\ fr.start_rgn > 0
         /\ fr.end_rgn \in Nat /\ fr.end_rgn < fr.idx
         /\ fr.end_rgn = 0 => /\ fr.start_rgn = 1
                              /\ \A k \in 1 .. fr.idx - 1 : Below(ScanRegions[k])
         /\ fr.end_rgn # 0 => /\ fr.end_rgn = fr.idx - 1
                              /\ fr.start_rgn <= fr.end_rgn
                              /\ \A k \in 1 .. fr.start_rgn - 1 : Below(ScanRegions[k])
                              /\ fr.base <= ScanRegions[fr.end_rgn].base
<1>1. /\ ~hung /\ pc = "isolate" /\ fr \in IsolateFrames
      /\ fr.base < fr.end
      /\ fr.idx \in 1 .. Len(ScanRegions) + 1
      /\ fr.start_rgn > 0 /\ fr.end_rgn < fr.idx
  BY DEF IInv, TypeOK, FrameOK, Isolating
<1>2. /\ fr.type = "reserved" /\ fr.type \in Types
      /\ fr.base \in Nat /\ fr.end \in Nat
      /\ fr.start_rgn \in Nat /\ fr.end_rgn \in Nat
  BY <1>1, SizesAssumption DEF IsolateFrames, Addr, Types
<1>3. ArrayOK(ScanRegions)
  BY <1>2 DEF IInv, TypeOK, ScanRegions
<1>4. IsolateInv
  BY <1>1 DEF IInv
<1>5. TouchAtCuts(ScanRegions) /\ Len(ScanRegions) \in Nat
  BY <1>1, <1>3, <1>4, ArrayFacts DEF IsolateInv, Flat
<1> HIDE DEF ScanRegions
<1> QED
  BY <1>1, <1>2, <1>3, <1>4, <1>5 DEF IsolateInv

\* The regions of the array that is being freed.
LEMMA IsolateElements ==
  ASSUME IInv, Isolating
  PROVE  /\ \A k \in 1 .. Len(ScanRegions) :
              /\ ScanRegions[k].base \in Nat /\ rend(ScanRegions[k]) \in Nat
              /\ ScanRegions[k].base <= rend(ScanRegions[k])
         /\ \A k, l \in 1 .. Len(ScanRegions) :
              k < l => rend(ScanRegions[k]) <= ScanRegions[l].base
         /\ \A k \in 1 .. Len(ScanRegions) : rend(ScanRegions[k]) > fr.base =>
              /\ NoneEmpty(ScanRegions)
              /\ \A l \in 1 .. Len(ScanRegions) :
                   ScanRegions[l].base < rend(ScanRegions[l])
         /\ Len(ScanRegions) > 1 =>
              \A l \in 1 .. Len(ScanRegions) :
                ScanRegions[l].base < rend(ScanRegions[l])
<1>1. /\ ArrayOK(ScanRegions) /\ TouchAtCuts(ScanRegions) /\ fr.base \in Nat
      /\ Len(ScanRegions) \in Nat
  BY IsolateFacts
<1>2. Flat(ScanRegions)
  BY <1>1, ArrayFacts
<1> HIDE DEF ScanRegions
<1>3. \A k \in 1 .. Len(ScanRegions) :
        /\ ScanRegions[k].base \in Nat /\ rend(ScanRegions[k]) \in Nat
        /\ ScanRegions[k].base <= rend(ScanRegions[k])
  <2> TAKE k \in 1 .. Len(ScanRegions)
  <2>1. /\ ScanRegions[k].base \in Nat /\ ScanRegions[k].size \in Nat
        /\ rend(ScanRegions[k]) = ScanRegions[k].base + ScanRegions[k].size
    BY <1>2 DEF Flat
  <2> QED
    BY <2>1
<1>4. /\ \A k, l \in 1 .. Len(ScanRegions) : k < l =>
           \/ rend(ScanRegions[k]) < ScanRegions[l].base
           \/ rend(ScanRegions[k]) = ScanRegions[l].base
      /\ \/ /\ Len(ScanRegions) = 1
            /\ ScanRegions[1].base = 0 /\ rend(ScanRegions[1]) = 0
         \/ /\ NoneEmpty(ScanRegions)
            /\ \A k \in 1 .. Len(ScanRegions) :
                 ScanRegions[k].base < rend(ScanRegions[k])
  BY <1>1, TouchOrder
<1>5. \A k, l \in 1 .. Len(ScanRegions) :
        k < l => rend(ScanRegions[k]) <= ScanRegions[l].base
  BY <1>3, <1>4
<1>6. ASSUME NEW k \in 1 .. Len(ScanRegions), rend(ScanRegions[k]) > fr.base
      PROVE  /\ NoneEmpty(ScanRegions)
             /\ \A l \in 1 .. Len(ScanRegions) :
                  ScanRegions[l].base < rend(ScanRegions[l])
  <2>1. CASE Len(ScanRegions) = 1 /\ rend(ScanRegions[1]) = 0
    <3>1. k = 1
      BY <2>1
    <3> QED
      BY <1>1, <1>6, <2>1, <3>1
  <2> QED
    BY <1>4, <2>1
<1> QED
  BY <1>1, <1>3, <1>4, <1>5, <1>6

\* memblock_free.
LEMMA FreeInv ==
  ASSUME IInv, NEW c \in FreeCalls, memblock_free(c[1], c[2])
  PROVE  IInv'
<1> DEFINE base == c[1]
           capped == memblock_cap_size(c[1], c[2])
           rs == mb["reserved"].regions
<1>1. /\ base \in Addr /\ base \in Nat
      /\ capped \in Addr /\ capped \in Nat /\ base + capped \in Addr
  <2>1. c[1] \in Addr /\ c[2] \in Addr
    BY CallsAssumption DEF Ranges
  <2>2. capped \in Addr /\ capped \in Nat /\ base + capped \in Addr
    BY <2>1, CapFacts
  <2> HIDE DEF capped
  <2>3. base \in Nat
    BY <2>1, SizesAssumption DEF Addr
  <2> QED
    BY <2>1, <2>2, <2>3
<1>2. /\ ~hung /\ pc = "idle" /\ UNCHANGED <<mb, found, hung>>
      /\ "reserved" \in Types
  BY DEF memblock_free, Running, Types
<1>3. /\ TypeOK /\ OthersCanonical /\ found' \in Addr
      /\ \A t \in Types : ~Changing(t)
      /\ ArrayOK(rs) /\ CanonicalArray(rs)
  BY <1>2 DEF IInv, TypeOK, Changing, OthersCanonical
<1>4. CASE capped = 0
  <2>1. pc' = "idle"
    BY <1>4 DEF memblock_free, Return
  <2> QED
    BY <1>2, <1>3, <2>1, IdleInv
<1>5. CASE capped # 0
  <2>1. /\ pc' = "isolate"
        /\ fr' = [type |-> "reserved", base |-> base, end |-> base + capped,
                  idx |-> 1, start_rgn |-> 1, end_rgn |-> 0,
                  cnt0 |-> Len(rs)]
    BY <1>5 DEF memblock_free
  <2>2. Len(rs) \in Nat
    BY <1>3, ArrayFacts DEF Flat
  <2> HIDE DEF rs, capped, base
  <2>3. /\ fr' \in IsolateFrames /\ fr'.type = "reserved"
        /\ fr'.base = base /\ fr'.end = base + capped
        /\ fr'.idx = 1 /\ fr'.start_rgn = 1 /\ fr'.end_rgn = 0
    BY <1>1, <2>1, <2>2 DEF IsolateFrames
  <2>4. ScanRegions' = rs
    BY <1>2, <2>3 DEF ScanRegions, rs
  <2>5. FrameOK'
    <3>1. fr'.base < fr'.end /\ fr'.idx \in 1 .. Len(ScanRegions') + 1
      BY <1>1, <1>5, <2>2, <2>3, <2>4
    <3> QED
      BY <2>1, <2>3, <3>1 DEF FrameOK
  <2>6. TypeOK'
    BY <1>2, <1>3, <2>1, <2>5, QuietTypes DEF PCs
  <2>7. OthersCanonical'
    BY <1>2, <1>3 DEF OthersCanonical
  <2>8. IsolateInv'
    <3>1. TouchAtCuts(ScanRegions)'
      BY <1>3, <2>4 DEF TouchAtCuts, CanonicalArray, Separated
    <3>2. \A k \in 1 .. fr'.idx - 1 : FALSE
      BY <2>3
    <3> QED
      BY <2>3, <3>1, <3>2 DEF IsolateInv
  <2> QED
    BY <2>1, <2>6, <2>7, <2>8
    DEF IInv, ScanInv, MergeInv, RemoveInv, AllocFree
<1> QED
  BY <1>4, <1>5

\* Locals that change while the arrays stay.
LEMMA IsolateQuiet ==
  ASSUME IInv, Isolating, UNCHANGED <<mb, pc, found, hung>>,
         fr' \in IsolateFrames,
         fr'.base = fr.base, fr'.end = fr.end,
         fr'.idx \in 1 .. Len(ScanRegions) + 1,
         fr'.start_rgn > 0, fr'.end_rgn < fr'.idx,
         fr'.end_rgn = 0 => /\ fr'.start_rgn = 1
                            /\ \A k \in 1 .. fr'.idx - 1 : Below(ScanRegions[k]),
         fr'.end_rgn # 0 => /\ fr'.end_rgn = fr'.idx - 1
                            /\ fr'.start_rgn <= fr'.end_rgn
                            /\ \A k \in 1 .. fr'.start_rgn - 1 : Below(ScanRegions[k])
                            /\ fr.base <= ScanRegions[fr'.end_rgn].base
  PROVE  IInv'
<1>1. /\ ~hung /\ pc = "isolate" /\ fr.type = "reserved"
      /\ TouchAtCuts(ScanRegions) /\ fr.base < fr.end
  BY IsolateFacts
<1>2. fr'.type = "reserved" /\ ScanRegions' = ScanRegions
  BY <1>1 DEF IsolateFrames, ScanRegions
<1>3. FrameOK'
  BY <1>1, <1>2 DEF FrameOK
<1>4. TypeOK'
  BY <1>1, <1>3, QuietTypes DEF IInv, TypeOK, PCs
<1>5. OthersCanonical'
  BY <1>1, <1>2 DEF IInv, OthersCanonical, Changing
<1> HIDE DEF ScanRegions
<1>6. TouchAtCuts(ScanRegions)'
  BY <1>1, <1>2 DEF TouchAtCuts
<1>7. IsolateInv'
  BY <1>2, <1>6 DEF IsolateInv, Below
<1> QED
  BY <1>1, <1>4, <1>5, <1>7 DEF IInv, ScanInv, MergeInv, RemoveInv, AllocFree

\* A region below the range.
LEMMA IsolateSkipInv == ASSUME IInv, IsolateSkip PROVE IInv'
<1> DEFINE rs == ScanRegions
           n == Len(rs)
           i == fr.idx
<1>1. /\ Isolating /\ InLoop /\ rend(rs[i]) <= fr.base
      /\ UNCHANGED <<mb, pc, found, hung>>
      /\ fr' = [fr EXCEPT !.idx = i + 1]
  BY DEF IsolateSkip, ScanRegion
<1>2. /\ fr \in IsolateFrames
      /\ n \in Nat /\ i \in 1 .. n /\ fr.base \in Nat
      /\ fr.start_rgn \in Nat /\ fr.start_rgn > 0
      /\ fr.end_rgn \in Nat /\ fr.end_rgn < i
      /\ fr.end_rgn = 0 => /\ fr.start_rgn = 1
                           /\ \A k \in 1 .. i - 1 : Below(rs[k])
      /\ fr.end_rgn # 0 => /\ fr.end_rgn = i - 1
                           /\ fr.base <= rs[fr.end_rgn].base
  BY <1>1, IsolateFacts DEF InLoop
<1> HIDE DEF rs, n, i
<1>3. fr.end_rgn = 0
  <2> SUFFICES ASSUME fr.end_rgn # 0 PROVE FALSE
    OBVIOUS
  <2>1. /\ i - 1 \in 1 .. n /\ n > 1 /\ fr.base <= rs[i - 1].base
    BY <1>2
  <2>2. /\ rs[i - 1].base < rend(rs[i - 1]) /\ rend(rs[i - 1]) <= rs[i].base
        /\ rs[i].base <= rend(rs[i])
        /\ rs[i - 1].base \in Nat /\ rend(rs[i - 1]) \in Nat
        /\ rs[i].base \in Nat /\ rend(rs[i]) \in Nat
    BY <1>1, <1>2, <2>1, IsolateElements DEF rs, n
  <2> QED
    BY <1>1, <1>2, <2>1, <2>2
<1>4. /\ fr' \in IsolateFrames /\ fr'.base = fr.base /\ fr'.end = fr.end
      /\ fr'.idx = i + 1 /\ fr'.start_rgn = 1 /\ fr'.end_rgn = 0
  <2> DEFINE j == i + 1
  <2>1. j \in Nat /\ fr' = [fr EXCEPT !.idx = j]
    BY <1>1, <1>2
  <2> HIDE DEF j
  <2>2. /\ fr' \in IsolateFrames /\ fr'.base = fr.base /\ fr'.end = fr.end
        /\ fr'.idx = j /\ fr'.start_rgn = fr.start_rgn /\ fr'.end_rgn = fr.end_rgn
    BY <1>2, <2>1 DEF IsolateFrames
  <2> QED
    BY <1>2, <1>3, <2>2 DEF j
<1>5. \A k \in 1 .. i : Below(rs[k])
  BY <1>1, <1>2, <1>3 DEF Below
<1>6. /\ fr'.idx \in 1 .. n + 1
      /\ \A k \in 1 .. fr'.idx - 1 : Below(rs[k])
  BY <1>2, <1>4, <1>5
<1> QED
  BY <1>1, <1>2, <1>4, <1>6, IsolateQuiet DEF rs, n

\* A region within the range joins those to be removed.
LEMMA IsolateWholeInv == ASSUME IInv, IsolateWhole PROVE IInv'
<1> DEFINE rs == ScanRegions
           n == Len(rs)
           i == fr.idx
           s == IF fr.end_rgn = 0 THEN i ELSE fr.start_rgn
<1>1. /\ Isolating /\ InLoop /\ ~CutsFront(rs[i])
      /\ UNCHANGED <<mb, pc, found, hung>>
      /\ fr' = [fr EXCEPT !.idx = i + 1, !.end_rgn = i, !.start_rgn = s]
  BY DEF IsolateWhole, Overlapping, ScanRegion
<1>2. /\ fr \in IsolateFrames
      /\ n \in Nat /\ i \in 1 .. n /\ fr.base \in Nat
      /\ fr.start_rgn \in Nat /\ fr.start_rgn > 0
      /\ fr.end_rgn \in Nat /\ fr.end_rgn < i
      /\ fr.end_rgn = 0 => /\ fr.start_rgn = 1
                           /\ \A k \in 1 .. i - 1 : Below(rs[k])
      /\ fr.end_rgn # 0 => /\ fr.end_rgn = i - 1
                           /\ fr.start_rgn <= fr.end_rgn
                           /\ \A k \in 1 .. fr.start_rgn - 1 : Below(rs[k])
  BY <1>1, IsolateFacts DEF InLoop
<1> HIDE DEF rs, n, i
<1>3. fr.base <= rs[i].base
  <2>1. rs[i].base \in Nat
    BY <1>1, <1>2, IsolateElements DEF rs, n
  <2> QED
    BY <1>1, <1>2, <2>1 DEF CutsFront
<1>4. s \in Nat /\ s > 0 /\ s <= i /\ \A k \in 1 .. s - 1 : Below(rs[k])
  BY <1>2
<1> HIDE DEF s
<1>5. /\ fr' \in IsolateFrames /\ fr'.base = fr.base /\ fr'.end = fr.end
      /\ fr'.idx = i + 1 /\ fr'.start_rgn = s /\ fr'.end_rgn = i
  <2> DEFINE j == i + 1
  <2>1. /\ j \in Nat /\ i \in Nat
        /\ fr' = [fr EXCEPT !.idx = j, !.end_rgn = i, !.start_rgn = s]
    BY <1>1, <1>2
  <2> HIDE DEF j
  <2>2. /\ fr' \in IsolateFrames /\ fr'.base = fr.base /\ fr'.end = fr.end
        /\ fr'.idx = j /\ fr'.start_rgn = s /\ fr'.end_rgn = i
    BY <1>2, <1>4, <2>1 DEF IsolateFrames
  <2> QED
    BY <2>2 DEF j
<1>6. /\ fr'.idx \in 1 .. n + 1 /\ fr'.start_rgn > 0 /\ fr'.end_rgn < fr'.idx
      /\ fr'.end_rgn # 0 /\ fr'.end_rgn = fr'.idx - 1
      /\ fr'.start_rgn <= fr'.end_rgn
      /\ \A k \in 1 .. fr'.start_rgn - 1 : Below(rs[k])
      /\ fr.base <= rs[fr'.end_rgn].base
  BY <1>2, <1>3, <1>4, <1>5
<1> QED
  BY <1>1, <1>2, <1>5, <1>6, IsolateQuiet DEF rs, n

\* A cut: the region at idx is split in two, or the array is full.
LEMMA SplitArrays ==
  ASSUME IInv, Isolating, InLoop, NEW cut \in Addr,
         ScanRegion.base < cut, cut < rend(ScanRegion)
  PROVE  LET i == fr.idx
             rs == ScanRegions
             shrunk == ShrinkTo(mb[fr.type], i, cut)
             split == memblock_insert_region(shrunk, i, rs[i].base, cut - rs[i].base)
             new == split.regions
         IN  /\ shrunk = [regions |-> shrunk.regions, total |-> shrunk.total]
             /\ shrunk.total \in Int /\ ArrayOK(shrunk.regions)
             /\ Len(shrunk.regions) = Len(rs)
             /\ split = [regions |-> split.regions, total |-> split.total]
             /\ split.total \in Int /\ (~Full(rs) => ArrayOK(new))
             /\ Len(new) = Len(rs) + 1
             /\ \A k \in 1 .. i - 1 : new[k] = rs[k]
             /\ new[i].base = rs[i].base /\ rend(new[i]) = cut
             /\ new[i + 1].base = cut /\ rend(new[i + 1]) = rend(rs[i])
             /\ new[i].size > 0 /\ new[i + 1].size > 0
             /\ \A k \in i + 2 .. Len(rs) + 1 : new[k] = rs[k - 1]
<1> DEFINE i == fr.idx
           rs == ScanRegions
           off == cut - rs[i].base
           low == [rs EXCEPT ![i] = [base |-> cut, size |-> @.size - off]]
           new == InsertAt(low, i, [base |-> rs[i].base, size |-> off])
           m == mb[fr.type]
           shrunk == ShrinkTo(m, i, cut)
           split == memblock_insert_region(shrunk, i, rs[i].base, off)
<1>1. ArrayOK(rs) /\ i \in 1 .. Len(rs) /\ fr.type \in Types
  BY IsolateFacts DEF InLoop
<1>2. rs[i].base < cut /\ cut < rend(rs[i])
  BY DEF ScanRegion
<1>3. off \in Int
  <2>1. rs[i].base \in Nat
    BY <1>1, IsolateElements
  <2> QED
    BY <2>1, SizesAssumption DEF Addr
<1>4. m.total \in Int
  BY <1>1 DEF IInv, TypeOK
<1>5. shrunk = [regions |-> low, total |-> m.total - off]
  BY DEF ShrinkTo, ScanRegions
<1>6. split = [regions |-> new, total |-> (m.total - off) + off]
  BY <1>5 DEF memblock_insert_region
<1>7. /\ ArrayOK(low)
      /\ ~Full(rs) => ArrayOK(new)
      /\ Len(new) = Len(rs) + 1
      /\ \A k \in 1 .. i - 1 : new[k] = rs[k]
      /\ new[i].base = rs[i].base /\ rend(new[i]) = cut
      /\ new[i + 1].base = cut /\ rend(new[i + 1]) = rend(rs[i])
      /\ new[i].size > 0 /\ new[i + 1].size > 0
      /\ \A k \in i + 2 .. Len(rs) + 1 : new[k] = rs[k - 1]
  <2> HIDE DEF rs, i
  <2> QED
    BY <1>1, <1>2, SplitRegion DEF low, new
<1>8. Len(low) = Len(rs)
  <2>1. rs \in Seq(Region)
    BY <1>1 DEF ArrayOK
  <2> HIDE DEF rs
  <2> QED
    BY <2>1
<1> HIDE DEF low, new, off, rs, i
<1>9. /\ shrunk.regions = low /\ shrunk.total = m.total - off
      /\ split.regions = new /\ split.total = (m.total - off) + off
  BY <1>5, <1>6
<1>10. shrunk.total \in Int /\ split.total \in Int
  BY <1>3, <1>4, <1>9
<1> HIDE DEF shrunk, split
<1> QED
  BY <1>5, <1>6, <1>7, <1>8, <1>9, <1>10 DEF shrunk, split, off, rs, i, m

\* The BUG in the middle of a split.
LEMMA SplitFull ==
  ASSUME IInv, Isolating, InLoop, NEW cut \in Addr,
         ScanRegion.base < cut, cut < rend(ScanRegion),
         SplitAt(cut), Full(ScanRegions)
  PROVE  IInv'
<1> DEFINE shrunk == ShrinkTo(mb[fr.type], fr.idx, cut)
<1>1. /\ shrunk = [regions |-> shrunk.regions, total |-> shrunk.total]
      /\ shrunk.total \in Int /\ ArrayOK(shrunk.regions)
      /\ Len(shrunk.regions) = Len(ScanRegions)
  BY SplitArrays
<1>2. /\ mb' = [mb EXCEPT ![fr.type] = shrunk]
      /\ hung' = TRUE /\ UNCHANGED <<pc, fr, found>>
  BY DEF SplitAt, Bug, ScanRegions
<1>3. pc = "isolate" /\ fr.type \in Types /\ TypeOK
  BY IsolateFacts DEF IInv
<1> DEFINE rs == shrunk.regions
           total == shrunk.total
<1> HIDE DEF shrunk
<1>4. mb' = [mb EXCEPT ![fr.type] = [regions |-> rs, total |-> total]]
  BY <1>1, <1>2
<1>5. ArrayOK(rs) /\ total \in Int
  BY <1>1
<1> HIDE DEF rs, total
<1>6. /\ mb' \in [Types -> [regions : Seq(Region), total : Int]]
      /\ mb'[fr.type].regions = rs
      /\ \A u \in Types : ArrayOK(mb'[u].regions)
  BY <1>3, <1>4, <1>5, ArrayChanged
<1>7. Len(ScanRegions') = Len(ScanRegions)
  BY <1>1, <1>2, <1>6 DEF ScanRegions, rs
<1>8. FrameOK'
  <2>1. /\ fr \in IsolateFrames /\ fr.base < fr.end
        /\ fr.idx \in 1 .. Len(ScanRegions) + 1
        /\ fr.start_rgn > 0 /\ fr.end_rgn < fr.idx
    BY IsolateFacts
  <2> QED
    BY <1>2, <1>3, <1>7, <2>1 DEF FrameOK
<1>9. TypeOK'
  BY <1>2, <1>3, <1>6, <1>8 DEF TypeOK
<1> QED
  BY <1>2, <1>9 DEF IInv

\* A split leaves two regions that touch at the cut.
LEMMA SplitRoom ==
  ASSUME IInv, Isolating, InLoop, NEW cut \in {fr.base, fr.end},
         rend(ScanRegion) > fr.base, ScanRegion.base < cut, cut < rend(ScanRegion),
         SplitAt(cut), ~Full(ScanRegions)
  PROVE  LET i == fr.idx
             rs == ScanRegions
             new == mb'[fr.type].regions
         IN  /\ mb' \in [Types -> [regions : Seq(Region), total : Int]]
             /\ \A t \in Types : ArrayOK(mb'[t].regions)
             /\ \A t \in Types : t # fr.type => mb'[t] = mb[t]
             /\ TouchAtCuts(new)
             /\ Len(new) = Len(rs) + 1
             /\ \A k \in 1 .. i - 1 : new[k] = rs[k]
             /\ new[i].base = rs[i].base /\ rend(new[i]) = cut
             /\ new[i + 1].base = cut /\ rend(new[i + 1]) = rend(rs[i])
             /\ \A k \in i + 2 .. Len(rs) + 1 : new[k] = rs[k - 1]
             /\ fr' = [fr EXCEPT !.idx = IF cut = fr.base THEN @ + 1 ELSE @]
             /\ UNCHANGED <<pc, found, hung>>
<1> DEFINE i == fr.idx
           rs == ScanRegions
           n == Len(rs)
           split == memblock_insert_region(ShrinkTo(mb[fr.type], i, cut), i,
                                           rs[i].base, cut - rs[i].base)
           new == split.regions
           total == split.total
<1>1. /\ fr.type \in Types /\ fr.base \in Nat /\ fr.end \in Nat
      /\ fr.base \in Addr /\ fr.end \in Addr
      /\ n \in Nat /\ i \in 1 .. n
      /\ rs[i].base < cut /\ cut < rend(rs[i]) /\ rend(rs[i]) > fr.base
      /\ ArrayOK(rs) /\ TouchAtCuts(rs)
  BY IsolateFacts DEF InLoop, ScanRegion, IsolateFrames
<1>2. cut \in Addr /\ cut \in Nat
  BY <1>1
<1>3. /\ mb' = [mb EXCEPT ![fr.type] = split]
      /\ fr' = [fr EXCEPT !.idx = IF cut = fr.base THEN @ + 1 ELSE @]
      /\ UNCHANGED <<pc, found, hung>>
  BY DEF SplitAt, ScanRegions, ScanRegion
<1>4. /\ split = [regions |-> new, total |-> total]
      /\ total \in Int /\ ArrayOK(new)
      /\ Len(new) = n + 1
      /\ \A k \in 1 .. i - 1 : new[k] = rs[k]
      /\ new[i].base = rs[i].base /\ rend(new[i]) = cut
      /\ new[i + 1].base = cut /\ rend(new[i + 1]) = rend(rs[i])
      /\ new[i].size > 0 /\ new[i + 1].size > 0
      /\ \A k \in i + 2 .. n + 1 : new[k] = rs[k - 1]
  BY <1>2, SplitArrays
<1> HIDE DEF split
<1>5. mb' = [mb EXCEPT ![fr.type] = [regions |-> new, total |-> total]]
  BY <1>3, <1>4
<1> HIDE DEF new, total
<1>6. /\ mb' \in [Types -> [regions : Seq(Region), total : Int]]
      /\ mb'[fr.type].regions = new
      /\ \A t \in Types : t # fr.type => mb'[t] = mb[t]
      /\ \A t \in Types : ArrayOK(mb'[t].regions)
  <2>1. TypeOK
    BY DEF IInv
  <2> QED
    BY <1>1, <1>4, <1>5, <2>1, ArrayChanged
<1>7. /\ \A k \in 1 .. n : rs[k].base \in Nat /\ rend(rs[k]) \in Nat
                            /\ rs[k].base < rend(rs[k])
      /\ NoneEmpty(rs)
  BY <1>1, IsolateElements
<1>8. \A k, l \in 1 .. n : k < l =>
        \/ rend(rs[k]) < rs[l].base
        \/ rend(rs[k]) = rs[l].base /\ (rs[l].base = fr.base \/ rs[l].base = fr.end)
  BY <1>1, TouchOrder
<1> HIDE DEF rs, n, i
<1> DEFINE other == IF cut = fr.base THEN fr.end ELSE fr.base
<1>9. other \in Nat /\ {fr.base, fr.end} = {cut, other}
  BY <1>1
<1> HIDE DEF other
<1>10. \A k, l \in 1 .. n : k < l =>
         \/ rend(rs[k]) < rs[l].base
         \/ rend(rs[k]) = rs[l].base /\ (rs[l].base = cut \/ rs[l].base = other)
  BY <1>8, <1>9
<1>11. \A k, l \in 1 .. n + 1 : k < l =>
         \/ rend(new[k]) < new[l].base
         \/ rend(new[k]) = new[l].base /\ (new[l].base = cut \/ new[l].base = other)
  <2>1. n \in Nat /\ i \in 1 .. n /\ rs[i].base < cut /\ cut < rend(rs[i])
    BY <1>1
  <2>2. /\ \A k \in 1 .. i - 1 : new[k] = rs[k]
        /\ new[i].base = rs[i].base /\ rend(new[i]) = cut
        /\ new[i + 1].base = cut /\ rend(new[i + 1]) = rend(rs[i])
        /\ \A k \in i + 2 .. n + 1 : new[k] = rs[k - 1]
    BY <1>4
  <2>3. \A k \in 1 .. n : rs[k].base \in Nat /\ rend(rs[k]) \in Nat
                             /\ rs[k].base < rend(rs[k])
    BY <1>7
  <2> QED
    BY <1>2, <1>9, <1>10, <2>1, <2>2, <2>3
<1>12. \A k \in 1 .. n + 1 : new[k].size > 0
  <2>1. \A k \in 1 .. n : rs[k].size > 0
    <3>1. Flat(rs)
      BY <1>1, ArrayFacts
    <3> QED
      BY <1>7, <3>1, SortedElements DEF n
  <2> TAKE k \in 1 .. n + 1
  <2>2. CASE k < i
    BY <1>1, <1>4, <2>1, <2>2
  <2>3. CASE k = i \/ k = i + 1
    BY <1>4, <2>3
  <2>4. CASE k > i + 1
    <3>1. k - 1 \in 1 .. n /\ k \in i + 2 .. n + 1
      BY <1>1, <2>4
    <3>2. new[k] = rs[k - 1]
      BY <1>4, <3>1
    <3> QED
      BY <2>1, <3>1, <3>2
  <2> QED
    BY <1>1, <2>2, <2>3, <2>4
<1>13. TouchAtCuts(new)
  <2>1. DOMAIN new = 1 .. n + 1
    BY <1>4, ArrayFacts DEF Flat
  <2>2. NoneEmpty(new)
    BY <1>12, <2>1 DEF NoneEmpty
  <2> QED
    BY <1>9, <1>11, <2>1, <2>2 DEF TouchAtCuts
<1> QED
  BY <1>3, <1>4, <1>6, <1>13 DEF n, rs, i

\* After a cut that found room.
LEMMA SplitDone ==
  ASSUME IInv, Isolating,
         mb' \in [Types -> [regions : Seq(Region), total : Int]],
         \A t \in Types : ArrayOK(mb'[t].regions),
         \A t \in Types : t # fr.type => mb'[t] = mb[t],
         TouchAtCuts(mb'[fr.type].regions),
         fr' \in IsolateFrames, fr'.base = fr.base, fr'.end = fr.end,
         fr'.idx \in 1 .. Len(mb'[fr.type].regions) + 1,
         fr'.start_rgn > 0, fr'.end_rgn < fr'.idx,
         fr'.end_rgn = 0 => /\ fr'.start_rgn = 1
                            /\ \A k \in 1 .. fr'.idx - 1 : Below(mb'[fr.type].regions[k]),
         fr'.end_rgn # 0 => /\ fr'.end_rgn = fr'.idx - 1
                            /\ fr'.start_rgn <= fr'.end_rgn
                            /\ \A k \in 1 .. fr'.start_rgn - 1 : Below(mb'[fr.type].regions[k])
                            /\ fr.base <= mb'[fr.type].regions[fr'.end_rgn].base,
         UNCHANGED <<pc, found, hung>>
  PROVE  IInv'
<1> DEFINE new == mb'[fr.type].regions
<1>1. ~hung /\ pc = "isolate" /\ fr.type = "reserved" /\ fr.base < fr.end
  BY IsolateFacts
<1>2. fr'.type = "reserved" /\ ScanRegions' = new
  BY <1>1 DEF IsolateFrames, ScanRegions
<1>3. FrameOK'
  BY <1>1, <1>2 DEF FrameOK
<1>4. TypeOK'
  BY <1>3 DEF IInv, TypeOK
<1>5. OthersCanonical'
  BY <1>1, <1>2 DEF IInv, OthersCanonical, Changing
<1> HIDE DEF ScanRegions
<1> HIDE DEF new
<1>6. TouchAtCuts(ScanRegions)'
  <2>1. TouchAtCuts(new) /\ fr'.base = fr.base /\ fr'.end = fr.end
    BY DEF new
  <2>2. TouchAtCuts(new) <=> TouchAtCuts(ScanRegions)'
    BY <1>2, <2>1 DEF TouchAtCuts
  <2> QED
    BY <2>1, <2>2
<1>7. IsolateInv'
  BY <1>2, <1>6 DEF IsolateInv, Below, new
<1> QED
  BY <1>1, <1>4, <1>5, <1>7 DEF IInv, ScanInv, MergeInv, RemoveInv, AllocFree

\* The split at the beginning of the range.
LEMMA IsolateFrontInv == ASSUME IInv, IsolateFront PROVE IInv'
<1> DEFINE rs == ScanRegions
           n == Len(rs)
           i == fr.idx
           new == mb'[fr.type].regions
<1>1. /\ Isolating /\ InLoop /\ rend(rs[i]) > fr.base /\ rs[i].base < fr.base
      /\ SplitAt(fr.base) /\ rend(ScanRegion) > fr.base
  BY DEF IsolateFront, Overlapping, CutsFront, ScanRegion
<1>2. /\ fr \in IsolateFrames /\ fr.base \in Nat /\ fr.base \in Addr
      /\ n \in Nat /\ i \in 1 .. n
      /\ fr.end_rgn \in Nat /\ fr.end_rgn < i
      /\ fr.end_rgn = 0 => /\ fr.start_rgn = 1
                           /\ \A k \in 1 .. i - 1 : Below(rs[k])
      /\ fr.end_rgn # 0 => /\ fr.end_rgn = i - 1
                           /\ fr.base <= rs[fr.end_rgn].base
  BY <1>1, IsolateFacts DEF InLoop, IsolateFrames
<1>3. ScanRegion.base < fr.base /\ fr.base < rend(ScanRegion)
  <2>1. rend(rs[i]) \in Nat
    BY <1>2, <1>1, IsolateElements
  <2> QED
    BY <1>1, <1>2, <2>1 DEF ScanRegion
<1>4. CASE Full(ScanRegions)
  BY <1>1, <1>2, <1>3, <1>4, SplitFull
<1>5. CASE ~Full(ScanRegions)
  <2>1. /\ mb' \in [Types -> [regions : Seq(Region), total : Int]]
        /\ \A t \in Types : ArrayOK(mb'[t].regions)
        /\ \A t \in Types : t # fr.type => mb'[t] = mb[t]
        /\ TouchAtCuts(new)
        /\ Len(new) = n + 1
        /\ \A k \in 1 .. i - 1 : new[k] = rs[k]
        /\ rend(new[i]) = fr.base
        /\ fr' = [fr EXCEPT !.idx = IF fr.base = fr.base THEN @ + 1 ELSE @]
        /\ UNCHANGED <<pc, found, hung>>
    <3>1. fr.base \in {fr.base, fr.end}
      OBVIOUS
    <3> HIDE DEF new, rs, n, i
    <3> QED
      BY <1>1, <1>3, <1>5, <3>1, SplitRoom DEF new, rs, n, i
  <2> HIDE DEF new, rs, n, i
  <2>2. fr.end_rgn = 0
    <3> SUFFICES ASSUME fr.end_rgn # 0 PROVE FALSE
      OBVIOUS
    <3>1. i - 1 \in 1 .. n /\ fr.base <= rs[i - 1].base
      BY <1>2
    <3>2. /\ rs[i - 1].base <= rend(rs[i - 1]) /\ rend(rs[i - 1]) <= rs[i].base
          /\ rs[i - 1].base \in Nat /\ rend(rs[i - 1]) \in Nat
          /\ rs[i].base \in Nat
      BY <1>1, <1>2, <3>1, IsolateElements DEF rs, n
    <3> QED
      BY <1>1, <1>2, <3>1, <3>2
  <2>3. /\ fr' \in IsolateFrames /\ fr'.base = fr.base /\ fr'.end = fr.end
        /\ fr'.idx = i + 1 /\ fr'.start_rgn = 1 /\ fr'.end_rgn = 0
    <3> DEFINE j == i + 1
    <3>1. j \in Nat /\ fr' = [fr EXCEPT !.idx = j]
      BY <1>2, <2>1 DEF i
    <3> HIDE DEF j
    <3>2. /\ fr' \in IsolateFrames /\ fr'.base = fr.base /\ fr'.end = fr.end
          /\ fr'.idx = j /\ fr'.start_rgn = fr.start_rgn
          /\ fr'.end_rgn = fr.end_rgn
      BY <1>2, <3>1 DEF IsolateFrames
    <3> QED
      BY <1>2, <2>2, <3>2 DEF j
  <2>4. ASSUME NEW k \in 1 .. i PROVE Below(new[k])
    <3>1. CASE k < i
      BY <1>2, <2>1, <2>2, <3>1
    <3>2. CASE k = i
      BY <1>2, <2>1, <3>2 DEF Below
    <3> QED
      BY <1>2, <3>1, <3>2
  <2>5. /\ fr'.idx \in 1 .. Len(new) + 1
        /\ fr'.start_rgn > 0 /\ fr'.end_rgn < fr'.idx
        /\ \A k \in 1 .. fr'.idx - 1 : Below(new[k])
    BY <1>2, <2>1, <2>3, <2>4
  <2> QED
    BY <1>1, <2>1, <2>3, <2>5, SplitDone DEF new
<1> QED
  BY <1>4, <1>5

\* The split at the end of the range; idx is set back.
LEMMA IsolateBackInv == ASSUME IInv, IsolateBack PROVE IInv'
<1> DEFINE rs == ScanRegions
           n == Len(rs)
           i == fr.idx
           new == mb'[fr.type].regions
<1>1. /\ Isolating /\ InLoop /\ rend(rs[i]) > fr.end /\ ~(rs[i].base < fr.base)
      /\ SplitAt(fr.end) /\ rend(ScanRegion) > fr.base
      /\ rs[i].base < fr.end
  BY DEF IsolateBack, Overlapping, CutsFront, CutsBack, ScanRegion, InLoop
<1>2. /\ fr \in IsolateFrames /\ fr.base \in Nat /\ fr.end \in Addr /\ fr.end \in Nat
      /\ n \in Nat /\ i \in 1 .. n /\ fr.base < fr.end
      /\ fr.start_rgn \in Nat /\ fr.start_rgn > 0
      /\ fr.end_rgn \in Nat /\ fr.end_rgn < i
      /\ fr.end_rgn = 0 => /\ fr.start_rgn = 1
                           /\ \A k \in 1 .. i - 1 : Below(rs[k])
      /\ fr.end_rgn # 0 => /\ fr.end_rgn = i - 1
                           /\ fr.start_rgn <= fr.end_rgn
                           /\ \A k \in 1 .. fr.start_rgn - 1 : Below(rs[k])
                           /\ fr.base <= rs[fr.end_rgn].base
  BY <1>1, IsolateFacts DEF InLoop, IsolateFrames
<1>3. ScanRegion.base < fr.end /\ fr.end < rend(ScanRegion)
  <2>1. rend(rs[i]) \in Nat
    BY <1>2, <1>1, IsolateElements
  <2> QED
    BY <1>1, <1>2, <2>1 DEF ScanRegion
<1>4. CASE Full(ScanRegions)
  BY <1>1, <1>2, <1>3, <1>4, SplitFull
<1>5. CASE ~Full(ScanRegions)
  <2>1. /\ mb' \in [Types -> [regions : Seq(Region), total : Int]]
        /\ \A t \in Types : ArrayOK(mb'[t].regions)
        /\ \A t \in Types : t # fr.type => mb'[t] = mb[t]
        /\ TouchAtCuts(new)
        /\ Len(new) = n + 1
        /\ \A k \in 1 .. i - 1 : new[k] = rs[k]
        /\ fr' = [fr EXCEPT !.idx = IF fr.end = fr.base THEN @ + 1 ELSE @]
        /\ UNCHANGED <<pc, found, hung>>
    <3>1. fr.end \in {fr.base, fr.end}
      OBVIOUS
    <3> HIDE DEF new, rs, n, i
    <3>2. /\ Isolating /\ InLoop /\ SplitAt(fr.end) /\ ~Full(ScanRegions)
          /\ rend(ScanRegion) > fr.base
          /\ ScanRegion.base < fr.end /\ fr.end < rend(ScanRegion)
      BY <1>1, <1>3, <1>5
    <3> QED
      BY <3>1, <3>2, SplitRoom, Zenon DEF new, rs, n, i
  <2>2. fr' = fr
    BY <1>2, <2>1 DEF IsolateFrames
  <2> HIDE DEF new, rs, n, i
  <2>3. Len(new) = n + 1 /\ \A k \in 1 .. i - 1 : new[k] = rs[k]
    BY <2>1
  <2>4. /\ i \in 1 .. Len(new) + 1
        /\ fr.end_rgn = 0 => \A k \in 1 .. i - 1 : Below(new[k])
    BY <1>2, <2>3
  <2>5. fr.end_rgn # 0 => /\ \A k \in 1 .. fr.start_rgn - 1 : Below(new[k])
                          /\ fr.base <= new[fr.end_rgn].base
    <3>1. ASSUME fr.end_rgn # 0
          PROVE  /\ \A k \in 1 .. fr.start_rgn - 1 : k \in 1 .. i - 1
                 /\ fr.end_rgn \in 1 .. i - 1
      BY <1>2, <3>1
    <3> QED
      BY <1>2, <2>3, <3>1
  <2> QED
    BY <1>1, <1>2, <2>1, <2>2, <2>4, <2>5, SplitDone DEF new, i
<1> QED
  BY <1>4, <1>5

\* All regions of the range lie between start_rgn and end_rgn.
LEMMA IsolateDoneInv == ASSUME IInv, IsolateDone PROVE IInv'
<1> DEFINE rs == ScanRegions
           n == Len(rs)
           i == fr.idx
<1>1. /\ Isolating /\ ~InLoop /\ pc' = "remove"
      /\ fr' = [type |-> fr.type, base |-> fr.base, end |-> fr.end,
                idx |-> fr.end_rgn, start_rgn |-> fr.start_rgn]
      /\ UNCHANGED <<mb, found, hung>>
  BY DEF IsolateDone
<1>2. /\ fr \in IsolateFrames /\ fr.base \in Nat /\ fr.end \in Nat
      /\ fr.type = "reserved" /\ ~hung /\ pc = "isolate"
      /\ n \in Nat /\ i \in 1 .. n + 1 /\ fr.base < fr.end
      /\ fr.start_rgn \in Nat /\ fr.start_rgn > 0
      /\ fr.end_rgn \in Nat /\ fr.end_rgn < i
      /\ fr.end_rgn = 0 => /\ fr.start_rgn = 1
                           /\ \A k \in 1 .. i - 1 : Below(rs[k])
      /\ fr.end_rgn # 0 => /\ fr.end_rgn = i - 1
                           /\ \A k \in 1 .. fr.start_rgn - 1 : Below(rs[k])
      /\ TouchAtCuts(rs) /\ DOMAIN rs = 1 .. n
  BY <1>1, IsolateFacts, ArrayFacts DEF Flat
<1>3. i \in 1 .. n => ~(rs[i].base < fr.end)
  BY <1>1 DEF InLoop, ScanRegion
<1>4. /\ \A k \in 1 .. n : /\ rs[k].base \in Nat /\ rend(rs[k]) \in Nat
                            /\ rs[k].base <= rend(rs[k])
      /\ \A k, l \in 1 .. n : k < l => rend(rs[k]) <= rs[l].base
  BY <1>1, IsolateElements
<1>5. ScanRegions' = rs
  BY <1>1 DEF ScanRegions
<1>6. /\ fr' \in RemoveFrames /\ fr'.base = fr.base /\ fr'.end = fr.end
      /\ fr'.idx = fr.end_rgn /\ fr'.start_rgn = fr.start_rgn
      /\ fr'.type = "reserved"
  BY <1>1, <1>2 DEF IsolateFrames, RemoveFrames
<1> HIDE DEF rs, n, i
<1>7. ASSUME NEW k \in i .. n PROVE Above(rs[k])
  <2>1. i \in 1 .. n /\ k \in 1 .. n
    BY <1>2
  <2>2. /\ fr.end <= rs[i].base /\ rs[i].base \in Nat /\ rs[k].base \in Nat
        /\ rend(rs[i]) \in Nat /\ rs[i].base <= rend(rs[i])
    <3>1. /\ rs[i].base \in Nat /\ rs[k].base \in Nat
          /\ rend(rs[i]) \in Nat /\ rs[i].base <= rend(rs[i])
      BY <1>4, <2>1
    <3>2. ~(rs[i].base < fr.end) /\ fr.end \in Nat
      BY <1>2, <1>3, <2>1
    <3> QED
      BY <3>1, <3>2
  <2>3. k = i \/ rend(rs[i]) <= rs[k].base
    BY <1>4, <2>1
  <2> QED
    BY <1>2, <2>2, <2>3 DEF Above
<1>8. ASSUME NEW k \in 1 .. n, k < fr.start_rgn \/ fr.end_rgn < k
      PROVE  Below(rs[k]) \/ Above(rs[k])
  <2>1. CASE k \in i .. n
    BY <1>7, <2>1
  <2>2. CASE ~(k \in i .. n)
    <3>1. k \in 1 .. i - 1
      BY <1>2, <2>2
    <3> QED
      BY <1>2, <1>8, <3>1
  <2> QED
    BY <2>1, <2>2
<1>9. FrameOK'
  <2>1. fr.end_rgn <= n
    BY <1>2
  <2> QED
    BY <1>1, <1>2, <1>5, <1>6, <2>1 DEF FrameOK, n
<1>10. TypeOK'
  BY <1>1, <1>2, <1>9, QuietTypes DEF IInv, TypeOK, PCs
<1>11. OthersCanonical'
  BY <1>1, <1>2, <1>6 DEF IInv, OthersCanonical, Changing
<1>12. RemoveInv'
  <2>1. TouchAtCuts(rs)'
    BY <1>2, <1>5, <1>6 DEF TouchAtCuts, rs
  <2>2. TouchAtCuts(ScanRegions)'
    BY <2>1 DEF rs
  <2> QED
    BY <1>2, <1>5, <1>6, <1>8, <2>2 DEF RemoveInv, Below, Above
<1> QED
  BY <1>1, <1>2, <1>10, <1>11, <1>12
  DEF IInv, ScanInv, MergeInv, IsolateInv, AllocFree

(***************************************************************************)
(* The loop of memblock_remove_range.                                      *)
(***************************************************************************)
LEMMA RemoveFacts ==
  ASSUME IInv, Running("remove")
  PROVE  /\ ~hung /\ pc = "remove" /\ fr \in RemoveFrames
         /\ fr.type = "reserved" /\ fr.type \in Types
         /\ ArrayOK(ScanRegions) /\ TouchAtCuts(ScanRegions)
         /\ Len(ScanRegions) \in Nat /\ DOMAIN ScanRegions = 1 .. Len(ScanRegions)
         /\ fr.base \in Nat /\ fr.end \in Nat /\ fr.base < fr.end
         /\ fr.idx \in Nat /\ fr.idx <= Len(ScanRegions)
         /\ fr.start_rgn \in Nat /\ fr.start_rgn > 0
         /\ \A k \in 1 .. Len(ScanRegions) :
              k < fr.start_rgn \/ fr.idx < k =>
                Below(ScanRegions[k]) \/ Above(ScanRegions[k])
<1>1. /\ ~hung /\ pc = "remove" /\ fr \in RemoveFrames
      /\ fr.base < fr.end /\ fr.idx <= Len(ScanRegions) /\ fr.start_rgn > 0
  BY DEF IInv, TypeOK, FrameOK, Running
<1>2. /\ fr.type = "reserved" /\ fr.type \in Types
      /\ fr.base \in Nat /\ fr.end \in Nat
      /\ fr.start_rgn \in Nat /\ fr.idx \in Nat
  BY <1>1, SizesAssumption DEF RemoveFrames, Addr, Types
<1>3. ArrayOK(ScanRegions)
  BY <1>2 DEF IInv, TypeOK, ScanRegions
<1>4. RemoveInv
  BY <1>1 DEF IInv
<1>5. Len(ScanRegions) \in Nat /\ DOMAIN ScanRegions = 1 .. Len(ScanRegions)
  BY <1>3, ArrayFacts DEF Flat
<1> HIDE DEF ScanRegions
<1> QED
  BY <1>1, <1>2, <1>3, <1>4, <1>5 DEF RemoveInv

\* What one removal leaves.
LEMMA RemovedArray ==
  ASSUME IInv, Running("remove"), fr.idx >= fr.start_rgn
  PROVE  LET rs == ScanRegions
             new == IF Len(rs) = 1 THEN Empty ELSE RemoveAt(rs, fr.idx)
         IN  /\ ArrayOK(new) /\ TouchAtCuts(new)
             /\ fr.idx - 1 <= Len(new)
             /\ \A k \in 1 .. Len(new) :
                  k < fr.start_rgn \/ fr.idx - 1 < k => Below(new[k]) \/ Above(new[k])
<1> DEFINE rs == ScanRegions
           n == Len(rs)
           i == fr.idx
<1>1. /\ ArrayOK(rs) /\ TouchAtCuts(rs) /\ n \in Nat
      /\ fr.base \in Nat /\ fr.end \in Nat
      /\ i \in 1 .. n /\ fr.start_rgn \in Nat /\ fr.start_rgn <= i
      /\ \A k \in 1 .. n : k < fr.start_rgn \/ i < k => Below(rs[k]) \/ Above(rs[k])
  BY RemoveFacts
<1> HIDE DEF rs, n, i
<1>2. CASE n = 1
  <2>1. ArrayOK(Empty)
    BY SizesAssumption DEF ArrayOK, Empty, Region, Addr, rend
  <2>2. Len(Empty) = 1 /\ Below(Empty[1])
    BY <1>1 DEF Empty, Below, rend
  <2>3. TouchAtCuts(Empty)
    BY DEF TouchAtCuts
  <2>4. i - 1 <= Len(Empty) /\ \A k \in 1 .. Len(Empty) : Below(Empty[k])
    BY <1>1, <1>2, <2>2
  <2>5. (IF Len(rs) = 1 THEN Empty ELSE RemoveAt(rs, i)) = Empty
    BY <1>2 DEF n
  <2> QED
    BY <2>1, <2>3, <2>4, <2>5, Zenon DEF rs, n, i
<1>3. CASE n # 1
  <2> DEFINE new == RemoveAt(rs, i)
  <2>1. /\ ArrayOK(new)
        /\ Len(new) = n - 1
        /\ \A k \in 1 .. i - 1 : new[k] = rs[k]
        /\ \A k \in i .. n - 1 : new[k] = rs[k + 1]
    BY <1>1, <1>3, RemoveRegion DEF n
  <2> HIDE DEF new
  <2>2. /\ \A k, l \in 1 .. n : k < l =>
             \/ rend(rs[k]) < rs[l].base
             \/ rend(rs[k]) = rs[l].base
                /\ (rs[l].base = fr.base \/ rs[l].base = fr.end)
        /\ NoneEmpty(rs)
    BY <1>1, <1>3, TouchOrder DEF n
  <2>3. \A k, l \in 1 .. n - 1 : k < l =>
          \/ rend(new[k]) < new[l].base
          \/ rend(new[k]) = new[l].base
             /\ (new[l].base = fr.base \/ new[l].base = fr.end)
    <3> SUFFICES ASSUME NEW k \in 1 .. n - 1, NEW l \in 1 .. n - 1, k < l
                 PROVE  \/ rend(new[k]) < new[l].base
                        \/ rend(new[k]) = new[l].base
                           /\ (new[l].base = fr.base \/ new[l].base = fr.end)
      OBVIOUS
    <3> DEFINE old(x) == IF x < i THEN x ELSE x + 1
    <3>1. old(k) \in 1 .. n /\ old(l) \in 1 .. n /\ old(k) < old(l)
      BY <1>1
    <3>2. \A x \in 1 .. n - 1 : new[x] = rs[old(x)]
      BY <1>1, <2>1
    <3> HIDE DEF old
    <3>3. new[k] = rs[old(k)] /\ new[l] = rs[old(l)]
      BY <3>2
    <3> QED
      BY <2>2, <3>1, <3>3
  <2>4. \A k \in 1 .. n - 1 : new[k].size > 0
    <3>1. \A k \in 1 .. n : rs[k].size > 0
      <4>1. Flat(rs)
        BY <1>1, ArrayFacts
      <4> QED
        BY <2>2, <4>1, SortedElements DEF n
    <3> TAKE k \in 1 .. n - 1
    <3>2. CASE k < i
      BY <1>1, <2>1, <3>1, <3>2
    <3>3. CASE ~(k < i)
      <4>1. k \in i .. n - 1 /\ k + 1 \in 1 .. n
        BY <1>1, <3>3
      <4> QED
        BY <2>1, <3>1, <4>1
    <3> QED
      BY <3>2, <3>3
  <2>5. TouchAtCuts(new)
    <3>1. DOMAIN new = 1 .. n - 1
      BY <2>1, ArrayFacts DEF Flat
    <3>2. NoneEmpty(new)
      BY <2>4, <3>1 DEF NoneEmpty
    <3> QED
      BY <2>3, <3>1, <3>2 DEF TouchAtCuts
  <2>6. ASSUME NEW k \in 1 .. n - 1, k < fr.start_rgn \/ i - 1 < k
        PROVE  Below(new[k]) \/ Above(new[k])
    <3>1. CASE k < i
      <4>1. k \in 1 .. n /\ k < fr.start_rgn /\ new[k] = rs[k]
        BY <1>1, <2>1, <2>6, <3>1
      <4> QED
        BY <1>1, <4>1
    <3>2. CASE ~(k < i)
      <4>1. k \in i .. n - 1 /\ k + 1 \in 1 .. n /\ i < k + 1
        BY <1>1, <3>2
      <4>2. new[k] = rs[k + 1]
        BY <2>1, <4>1
      <4> QED
        BY <1>1, <4>1, <4>2
    <3> QED
      BY <3>1, <3>2
  <2>7. i - 1 <= n - 1
    BY <1>1
  <2> QED
    BY <1>3, <2>1, <2>5, <2>6, <2>7 DEF new, rs, n, i
<1> QED
  BY <1>2, <1>3

\* The last region of the range is removed: the array and the locals after it.
LEMMA LastRemoved ==
  ASSUME IInv, RemoveLast
  PROVE  LET rs == ScanRegions
             new == IF Len(rs) = 1 THEN Empty ELSE RemoveAt(rs, fr.idx)
         IN  /\ fr.idx \in 1 .. Len(rs) /\ fr.idx >= fr.start_rgn
             /\ mb' \in [Types -> [regions : Seq(Region), total : Int]]
             /\ mb'[fr.type].regions = new
             /\ \A t \in Types : t # fr.type => mb'[t] = mb[t]
             /\ \A t \in Types : ArrayOK(mb'[t].regions)
             /\ fr' \in RemoveFrames /\ fr'.type = fr.type
             /\ fr'.base = fr.base /\ fr'.end = fr.end
             /\ fr'.idx = fr.idx - 1 /\ fr'.start_rgn = fr.start_rgn
<1> DEFINE rs == ScanRegions
           new == IF Len(rs) = 1 THEN Empty ELSE RemoveAt(rs, fr.idx)
           total == mb[fr.type].total - rs[fr.idx].size
<1>1. /\ Running("remove") /\ fr.idx >= fr.start_rgn
      /\ mb' = [mb EXCEPT ![fr.type] = memblock_remove_region(@, fr.idx)]
      /\ fr' = [fr EXCEPT !.idx = @ - 1]
      /\ UNCHANGED <<pc, found, hung>>
  BY DEF RemoveLast
<1>2. /\ ~hung /\ pc = "remove" /\ fr \in RemoveFrames
      /\ fr.type = "reserved" /\ fr.type \in Types
      /\ ArrayOK(rs) /\ fr.base < fr.end
      /\ fr.idx \in 1 .. Len(rs) /\ fr.start_rgn > 0 /\ fr.idx \in Nat
  BY <1>1, RemoveFacts
<1>3. ArrayOK(new)
  BY <1>1, RemovedArray
<1>4. mb' = [mb EXCEPT ![fr.type] = [regions |-> new, total |-> total]]
  BY <1>1 DEF memblock_remove_region, ScanRegions
<1>5. total \in Int
  <2>1. mb[fr.type].total \in Int
    BY <1>2 DEF IInv, TypeOK
  <2>2. rs[fr.idx].size \in Nat
    <3>1. Flat(rs)
      BY <1>2, ArrayFacts
    <3> HIDE DEF rs
    <3> QED
      BY <1>2, <3>1 DEF Flat
  <2> QED
    BY <2>1, <2>2
<1> HIDE DEF new, total, rs
<1>6. /\ mb' \in [Types -> [regions : Seq(Region), total : Int]]
      /\ mb'[fr.type].regions = new
      /\ \A t \in Types : t # fr.type => mb'[t] = mb[t]
      /\ \A t \in Types : ArrayOK(mb'[t].regions)
  <2>1. TypeOK
    BY DEF IInv
  <2> QED
    BY <1>2, <1>3, <1>4, <1>5, <2>1, ArrayChanged
<1>7. /\ fr' \in RemoveFrames /\ fr'.type = fr.type
      /\ fr'.base = fr.base /\ fr'.end = fr.end
      /\ fr'.idx = fr.idx - 1 /\ fr'.start_rgn = fr.start_rgn
  <2> DEFINE j == fr.idx - 1
  <2>1. j \in Nat /\ fr' = [fr EXCEPT !.idx = j]
    BY <1>1, <1>2
  <2> HIDE DEF j
  <2>2. /\ fr' \in RemoveFrames /\ fr'.type = fr.type
        /\ fr'.base = fr.base /\ fr'.end = fr.end
        /\ fr'.idx = j /\ fr'.start_rgn = fr.start_rgn
    BY <1>2, <2>1 DEF RemoveFrames
  <2> QED
    BY <2>2 DEF j
<1> QED
  BY <1>1, <1>2, <1>6, <1>7, Zenon DEF rs, new

\* What is outside the range stays.
LEMMA RemoveLastInv == ASSUME IInv, RemoveLast PROVE IInv'
<1> DEFINE rs == ScanRegions
           new == IF Len(rs) = 1 THEN Empty ELSE RemoveAt(rs, fr.idx)
<1>1. Running("remove") /\ fr.idx >= fr.start_rgn /\ UNCHANGED <<pc, found, hung>>
  BY DEF RemoveLast
<1>2. /\ ~hung /\ pc = "remove" /\ fr.type = "reserved" /\ fr.type \in Types
      /\ fr.base < fr.end /\ fr.start_rgn > 0 /\ fr.idx \in Nat
  BY <1>1, RemoveFacts
<1>3. /\ ArrayOK(new) /\ TouchAtCuts(new)
      /\ fr.idx - 1 <= Len(new)
      /\ \A k \in 1 .. Len(new) :
           k < fr.start_rgn \/ fr.idx - 1 < k => Below(new[k]) \/ Above(new[k])
  BY <1>1, RemovedArray
<1>4. /\ mb' \in [Types -> [regions : Seq(Region), total : Int]]
      /\ mb'[fr.type].regions = new
      /\ \A t \in Types : t # fr.type => mb'[t] = mb[t]
      /\ \A t \in Types : ArrayOK(mb'[t].regions)
  BY LastRemoved
<1>5. /\ fr' \in RemoveFrames /\ fr'.type = fr.type
      /\ fr'.base = fr.base /\ fr'.end = fr.end
      /\ fr'.idx = fr.idx - 1 /\ fr'.start_rgn = fr.start_rgn
  BY LastRemoved
<1> HIDE DEF new, rs
<1>6. ScanRegions' = new
  BY <1>4, <1>5 DEF ScanRegions
<1>7. FrameOK'
  BY <1>1, <1>2, <1>3, <1>5, <1>6 DEF FrameOK
<1>8. TypeOK'
  BY <1>1, <1>4, <1>7 DEF IInv, TypeOK
<1>9. OthersCanonical'
  BY <1>1, <1>2, <1>4, <1>5 DEF IInv, OthersCanonical, Changing
<1>10. RemoveInv'
  <2>1. TouchAtCuts(ScanRegions)' <=> TouchAtCuts(new)
    BY <1>5, <1>6 DEF TouchAtCuts
  <2>2. DOMAIN new = 1 .. Len(new)
    BY <1>3, ArrayFacts DEF Flat
  <2> QED
    BY <1>3, <1>5, <1>6, <2>1, <2>2 DEF RemoveInv, Below, Above
<1> QED
  BY <1>1, <1>2, <1>8, <1>9, <1>10
  DEF IInv, ScanInv, MergeInv, IsolateInv, AllocFree

\* With the range gone the array is canonical again.
LEMMA RemoveDoneInv == ASSUME IInv, RemoveDone PROVE IInv'
<1> DEFINE rs == ScanRegions
           n == Len(rs)
<1>1. /\ Running("remove") /\ fr.idx < fr.start_rgn
      /\ pc' = "idle" /\ UNCHANGED <<mb, found, hung>>
  BY DEF RemoveDone, Return
<1>2. /\ ~hung /\ pc = "remove" /\ fr.type \in Types
      /\ ArrayOK(rs) /\ TouchAtCuts(rs) /\ n \in Nat /\ DOMAIN rs = 1 .. n
      /\ fr.base \in Nat /\ fr.end \in Nat /\ fr.base < fr.end
      /\ fr.idx \in Nat /\ fr.start_rgn \in Nat
      /\ \A k \in 1 .. n : k < fr.start_rgn \/ fr.idx < k => Below(rs[k]) \/ Above(rs[k])
  BY <1>1, RemoveFacts
<1> HIDE DEF rs, n
<1>3. \A k \in 1 .. n : Below(rs[k]) \/ Above(rs[k])
  BY <1>1, <1>2
<1>4. CanonicalArray(rs)
  <2> SUFFICES ASSUME rs # Empty PROVE NoneEmpty(rs) /\ Separated(rs)
    BY DEF CanonicalArray
  <2>1. /\ \A k, l \in 1 .. n : k < l =>
             \/ rend(rs[k]) < rs[l].base
             \/ rend(rs[k]) = rs[l].base
                /\ (rs[l].base = fr.base \/ rs[l].base = fr.end)
        /\ NoneEmpty(rs) /\ \A k \in 1 .. n : rs[k].base < rend(rs[k])
    BY <1>2, TouchOrder DEF n
  <2>2. \A k \in 1 .. n : rs[k].base \in Nat /\ rend(rs[k]) \in Nat
    <3>1. Flat(rs)
      BY <1>2, ArrayFacts
    <3> QED
      BY <3>1 DEF Flat, n
  <2>3. ASSUME NEW k \in 1 .. n, NEW l \in 1 .. n, k < l
        PROVE  rend(rs[k]) < rs[l].base
    <3>1. /\ rs[k].base < rend(rs[k]) /\ rs[l].base < rend(rs[l])
          /\ rs[k].base \in Nat /\ rend(rs[k]) \in Nat
          /\ rs[l].base \in Nat /\ rend(rs[l]) \in Nat
      BY <2>1, <2>2
    <3>2. /\ rend(rs[k]) <= fr.base \/ fr.end <= rs[k].base
          /\ rend(rs[l]) <= fr.base \/ fr.end <= rs[l].base
      BY <1>3 DEF Below, Above
    <3>3. \/ rend(rs[k]) < rs[l].base
          \/ rend(rs[k]) = rs[l].base
             /\ (rs[l].base = fr.base \/ rs[l].base = fr.end)
      BY <2>1, <2>3
    <3> QED
      BY <1>2, <3>1, <3>2, <3>3
  <2> QED
    BY <1>2, <2>1, <2>3 DEF Separated
<1> QED
  BY <1>1, <1>2, <1>4, Returned DEF rs

(***************************************************************************)
(* memblock_phys_alloc_range.                                              *)
(***************************************************************************)
LEMMA FindFacts ==
  ASSUME IInv, pc = "find", ~hung
  PROVE  /\ fr \in SearchFrames
         /\ fr.size \in Nat /\ fr.align \in Nat /\ fr.align > 0
         /\ fr.start \in Nat /\ fr.end \in Nat
         /\ PAGE_SIZE <= fr.start /\ fr.start <= fr.end /\ fr.end \in Addr
         /\ fr.a \in Nat /\ fr.a <= Len(mb["memory"].regions)
         /\ fr.b \in -1 .. Len(mb["reserved"].regions)
         /\ Flat(mb["memory"].regions) /\ Flat(mb["reserved"].regions)
         /\ Sorted(mb["reserved"].regions)
<1>1. /\ fr \in SearchFrames
      /\ PAGE_SIZE <= fr.start /\ fr.start <= fr.end
      /\ fr.a <= Len(mb["memory"].regions)
      /\ fr.b \in -1 .. Len(mb["reserved"].regions)
  BY DEF IInv, TypeOK, FrameOK
<1>2. /\ fr.size \in Addr /\ fr.align \in Addr \ {0}
      /\ fr.start \in Addr /\ fr.end \in Addr /\ fr.a \in Nat
  BY <1>1 DEF SearchFrames
<1>3. /\ fr.size \in Nat /\ fr.align \in Nat /\ fr.align > 0
      /\ fr.start \in Nat /\ fr.end \in Nat
  BY <1>2, SizesAssumption DEF Addr
<1>4. \A t \in Types : ArrayOK(mb[t].regions) /\ CanonicalArray(mb[t].regions)
  BY DEF IInv, TypeOK, OthersCanonical, Changing
<1>5. \A t \in Types : Flat(mb[t].regions) /\ Sorted(mb[t].regions)
  BY <1>4, ArrayFacts, CanonicalOrder
<1> QED
  BY <1>1, <1>2, <1>3, <1>5 DEF Types

\* memblock_phys_alloc_range.
LEMMA AllocInv ==
  ASSUME IInv, NEW r \in AllocCalls, memblock_phys_alloc_range(r)
  PROVE  IInv'
<1> DEFINE na == Len(mb["memory"].regions)
           nb == Len(mb["reserved"].regions)
           limit == IF r.end = 0 THEN PHYS_ADDR_MAX ELSE r.end
           start == max(r.start, PAGE_SIZE)
           end == max(start, limit)
<1>1. /\ ~hung /\ pc = "idle" /\ pc' = "find" /\ fr' = SearchFrame(r)
      /\ UNCHANGED <<mb, found, hung>>
  BY DEF memblock_phys_alloc_range, Running
<1>2. /\ r.size \in Addr /\ r.align \in Addr \ {0}
      /\ r.start \in Addr /\ r.end \in Addr
  BY CallsAssumption DEF Requests
<1>3. na \in Nat /\ nb \in Nat
  <2>1. \A t \in Types : Flat(mb[t].regions)
    BY ArrayFacts DEF IInv, TypeOK
  <2>2. "memory" \in Types /\ "reserved" \in Types
    BY DEF Types
  <2> QED
    BY <2>1, <2>2 DEF Flat
<1> HIDE DEF na, nb
<1>4. start \in Addr /\ PAGE_SIZE <= start
  BY <1>2, SizesAssumption DEF max, Addr
<1>5. limit \in Addr
  BY <1>2, SizesAssumption DEF Addr
<1> HIDE DEF start, limit
<1>6. end \in Addr /\ start <= end
  BY <1>4, <1>5, SizesAssumption DEF max, Addr
<1> HIDE DEF end
<1>7. fr' = [size |-> r.size, align |-> r.align, start |-> start, end |-> end,
             a |-> na, b |-> nb]
  BY <1>1 DEF SearchFrame, start, end, limit, na, nb
<1>8. /\ fr' \in SearchFrames /\ fr'.start = start /\ fr'.end = end
      /\ fr'.a = na /\ fr'.b = nb
  BY <1>2, <1>3, <1>4, <1>6, <1>7 DEF SearchFrames
<1>9. FrameOK'
  <2>1. na <= na /\ nb \in -1 .. nb
    BY <1>3
  <2> QED
    BY <1>1, <1>4, <1>6, <1>8, <2>1 DEF FrameOK, na, nb
<1>10. TypeOK'
  BY <1>1, <1>9, QuietTypes DEF IInv, TypeOK, PCs
<1>11. OthersCanonical'
  BY <1>1 DEF IInv, OthersCanonical, Changing
<1> QED
  BY <1>1, <1>10, <1>11
  DEF IInv, ScanInv, MergeInv, IsolateInv, RemoveInv, AllocFree

\* The cursors move.
LEMMA CursorInv ==
  ASSUME IInv, pc = "find", ~hung, UNCHANGED <<mb, pc, found, hung>>,
         NEW a \in Nat, a <= fr.a, NEW b \in -1 .. Len(mb["reserved"].regions),
         fr' = [fr EXCEPT !.a = a, !.b = b]
  PROVE  IInv'
<1>1. /\ fr \in SearchFrames /\ fr.a \in Nat /\ fr.a <= Len(mb["memory"].regions)
      /\ Len(mb["memory"].regions) \in Nat /\ Len(mb["reserved"].regions) \in Nat
      /\ PAGE_SIZE <= fr.start /\ fr.start <= fr.end
  BY FindFacts DEF Flat
<1>2. b \in Int
  BY <1>1
<1>3. /\ fr' \in SearchFrames /\ fr'.start = fr.start /\ fr'.end = fr.end
      /\ fr'.a = a /\ fr'.b = b
  BY <1>1, <1>2 DEF SearchFrames
<1>4. a <= Len(mb["memory"].regions)
  BY <1>1
<1>5. FrameOK'
  BY <1>1, <1>3, <1>4 DEF FrameOK
<1>6. TypeOK'
  BY <1>5, QuietTypes DEF IInv, TypeOK, PCs
<1>7. OthersCanonical'
  BY DEF IInv, OthersCanonical, Changing
<1> QED
  BY <1>6, <1>7 DEF IInv, ScanInv, MergeInv, IsolateInv, RemoveInv, AllocFree

\* The cursors of the search move.
LEMMA FindPrevInv ==
  ASSUME IInv, FindPrevRegion \/ FindPrevGap \/ FindTry
  PROVE  IInv'
<1>1. /\ pc = "find" /\ ~hung /\ fr.a > 0 /\ UNCHANGED <<mb, pc, found, hung>>
  BY DEF FindPrevRegion, FindPrevGap, FindTry, FreeRange, Finding, Running
<1>2. /\ fr \in SearchFrames /\ fr.a \in Nat
      /\ Len(mb["reserved"].regions) \in Nat
      /\ fr.b \in -1 .. Len(mb["reserved"].regions)
  BY <1>1, FindFacts DEF Flat
<1> DEFINE down == [fr EXCEPT !.a = @ - 1]
           left == [fr EXCEPT !.b = @ - 1]
<1>3. fr' = down \/ (fr' = left /\ fr.b >= 0)
  BY DEF FindPrevRegion, FindPrevGap, FindTry, FreeRange
<1>4. CASE fr' = down
  <2> DEFINE a == fr.a - 1
             b == fr.b
  <2>1. a \in Nat /\ a <= fr.a /\ b \in -1 .. Len(mb["reserved"].regions)
    BY <1>1, <1>2
  <2>2. fr' = [fr EXCEPT !.a = a, !.b = b]
    BY <1>2, <1>4 DEF SearchFrames
  <2> HIDE DEF a, b
  <2> QED
    BY <1>1, <2>1, <2>2, CursorInv
<1>5. CASE fr' = left /\ fr.b >= 0
  <2> DEFINE a == fr.a
             b == fr.b - 1
  <2>1. a \in Nat /\ a <= fr.a /\ b \in -1 .. Len(mb["reserved"].regions)
    BY <1>1, <1>2, <1>5
  <2>2. fr' = [fr EXCEPT !.a = a, !.b = b]
    BY <1>2, <1>5 DEF SearchFrames
  <2> HIDE DEF a, b
  <2> QED
    BY <1>1, <2>1, <2>2, CursorInv
<1> QED
  BY <1>3, <1>4, <1>5

\* The search ends without a result.
LEMMA FindFailInv == ASSUME IInv, FindFail PROVE IInv'
<1>1. /\ pc = "find" /\ ~hung /\ pc' = "idle" /\ found' = 0 /\ UNCHANGED <<mb, hung>>
  BY DEF FindFail, Running, Return
<1>2. /\ TypeOK /\ OthersCanonical /\ \A t \in Types : ~Changing(t)
      /\ found' \in Addr
  BY <1>1, SizesAssumption DEF IInv, Changing, Addr
<1> QED
  BY <1>1, <1>2, IdleInv

\* An address inside a gap is in no region.
LEMMA GapFree ==
  ASSUME NEW n \in Nat, NEW rs, NEW b \in 0 .. n, NEW x \in Int,
         \A k \in 1 .. n : /\ rs[k].base \in Nat /\ rend(rs[k]) \in Nat
                           /\ rs[k].base <= rend(rs[k]),
         \A k, l \in 1 .. n : k < l => rend(rs[k]) <= rs[l].base,
         b > 0 => rend(rs[b]) <= x,
         b < n => x < rs[b + 1].base,
         NEW k \in 1 .. n
  PROVE  ~(rs[k].base <= x /\ x < rend(rs[k]))
<1>1. rs[k].base \in Nat /\ rend(rs[k]) \in Nat
  OBVIOUS
<1>2. CASE k <= b
  <2>1. b \in 1 .. n
    BY <1>2
  <2>2. /\ rs[b].base \in Nat /\ rend(rs[b]) \in Nat
        /\ rs[b].base <= rend(rs[b]) /\ rend(rs[b]) <= x
    BY <2>1
  <2>3. k = b \/ rend(rs[k]) <= rs[b].base
    BY <1>2, <2>1
  <2> QED
    BY <1>1, <2>2, <2>3
<1>3. CASE k > b
  <2>1. b + 1 \in 1 .. n
    BY <1>3
  <2>2. /\ rs[b + 1].base \in Nat /\ rend(rs[b + 1]) \in Nat
        /\ rs[b + 1].base <= rend(rs[b + 1]) /\ x < rs[b + 1].base
    BY <2>1
  <2>3. k = b + 1 \/ rend(rs[b + 1]) <= rs[k].base
    BY <1>3, <2>1
  <2> QED
    BY <1>1, <2>2, <2>3
<1> QED
  BY <1>2, <1>3

\* What lies between two clamped bounds lies between the bounds.
LEMMA ClampFacts ==
  ASSUME NEW lo \in Int, NEW hi \in Int, NEW start \in Nat, NEW end \in Nat,
         start <= end, NEW x \in Int,
         clamp(lo, start, end) <= x, x < clamp(hi, start, end)
  PROVE  lo <= x /\ x < hi /\ start <= x /\ x < end
BY DEF clamp, min, max

\* Rounding down does not go up.
LEMMA RoundDown ==
  ASSUME NEW x \in Int, NEW align \in Nat, align > 0
  PROVE  round_down(x, align) \in Int /\ round_down(x, align) <= x
<1>1. x % align \in 0 .. align - 1
  OBVIOUS
<1> QED
  BY <1>1 DEF round_down

\* The bounds of what the two cursors have in common.
LEMMA HitFacts ==
  ASSUME IInv, FindHit
  PROVE  /\ m_start \in Nat /\ m_end \in Nat /\ r_start \in Nat /\ r_end \in Nat
         /\ this_start \in Nat /\ this_end \in Nat
         /\ PAGE_SIZE <= this_start /\ this_end <= fr.end
         /\ cand \in Int /\ this_start <= cand /\ cand + fr.size <= this_end
<1> DEFINE ms == mb["memory"].regions
           rs == mb["reserved"].regions
<1>1. /\ pc = "find" /\ ~hung /\ fr.a > 0 /\ fr.b >= 0
      /\ cand >= this_start
  BY DEF FindHit, FreeRange, Finding, Running, Fits
<1>2. /\ fr.size \in Nat /\ fr.align \in Nat /\ fr.align > 0
      /\ fr.start \in Nat /\ fr.end \in Nat /\ PAGE_SIZE <= fr.start
      /\ fr.start <= fr.end
      /\ fr.a \in Nat /\ fr.a <= Len(ms) /\ fr.b \in -1 .. Len(rs)
      /\ Flat(ms) /\ Flat(rs)
  BY <1>1, FindFacts
<1>3. /\ fr.a \in 1 .. Len(ms) /\ fr.b \in 0 .. Len(rs) /\ Len(rs) \in Nat
      /\ Len(ms) \in Nat
  BY <1>1, <1>2 DEF Flat
<1>4. m_start \in Nat /\ m_end \in Nat
  BY <1>2, <1>3 DEF Flat, m_start, m_end
<1>5. r_start \in Nat
  <2>1. fr.b > 0 => fr.b \in 1 .. Len(rs)
    BY <1>3
  <2> QED
    BY <1>2, <2>1 DEF Flat, r_start, GapStart
<1>6. r_end \in Nat
  <2>1. fr.b < Len(rs) => fr.b + 1 \in 1 .. Len(rs)
    BY <1>3
  <2> QED
    BY <1>2, <2>1, SizesAssumption DEF Flat, r_end, GapEnd
<1>7. /\ this_start \in Nat /\ this_end \in Nat
      /\ PAGE_SIZE <= this_start /\ this_end <= fr.end
  <2> HIDE DEF m_start, m_end, r_start, r_end
  <2> QED
    BY <1>2, <1>4, <1>5, <1>6, SizesAssumption
    DEF this_start, this_end, clamp, min, max
<1>8. cand \in Int /\ cand <= this_end - fr.size
  <2>1. this_end - fr.size \in Int
    BY <1>2, <1>7
  <2> QED
    BY <1>2, <2>1, RoundDown DEF cand
<1> HIDE DEF cand, this_start, this_end, m_start, m_end, r_start, r_end
<1> QED
  BY <1>1, <1>2, <1>4, <1>5, <1>6, <1>7, <1>8

\* Every byte of the candidate is RAM, in the bounds, and in no reserved region.
LEMMA HitByte ==
  ASSUME IInv, FindHit, NEW x \in Int, cand <= x, x < cand + fr.size
  PROVE  /\ fr.start <= x /\ x < fr.end
         /\ x \in Covered(mb["memory"].regions)
         /\ x \notin Covered(mb["reserved"].regions)
<1> DEFINE ms == mb["memory"].regions
           rs == mb["reserved"].regions
<1>1. /\ pc = "find" /\ ~hung /\ fr.a > 0 /\ fr.b >= 0
  BY DEF FindHit, FreeRange, Finding, Running, Fits
<1>2. /\ fr.size \in Nat /\ fr.start \in Nat /\ fr.end \in Nat
      /\ fr.start <= fr.end /\ fr.end \in Addr
      /\ fr.a \in Nat /\ fr.a <= Len(ms) /\ fr.b \in -1 .. Len(rs)
      /\ Flat(ms) /\ Flat(rs) /\ Sorted(rs)
  BY <1>1, FindFacts
<1>3. /\ fr.a \in 1 .. Len(ms) /\ fr.b \in 0 .. Len(rs) /\ Len(rs) \in Nat
      /\ DOMAIN ms = 1 .. Len(ms) /\ DOMAIN rs = 1 .. Len(rs)
  BY <1>1, <1>2 DEF Flat
<1>4. /\ m_start \in Nat /\ m_end \in Nat /\ r_start \in Nat /\ r_end \in Nat
      /\ this_start \in Nat /\ this_end \in Nat
      /\ this_start <= x /\ x < this_end
  <2>1. /\ m_start \in Nat /\ m_end \in Nat /\ r_start \in Nat /\ r_end \in Nat
        /\ this_start \in Nat /\ this_end \in Nat
        /\ cand \in Int /\ this_start <= cand /\ cand + fr.size <= this_end
    BY HitFacts
  <2> HIDE DEF cand, this_start, this_end, m_start, m_end, r_start, r_end
  <2> QED
    BY <1>2, <2>1
<1>5. /\ max(m_start, r_start) <= x /\ x < min(m_end, r_end)
      /\ fr.start <= x /\ x < fr.end
  <2> DEFINE lo == max(m_start, r_start)
             hi == min(m_end, r_end)
  <2>1. lo \in Int /\ hi \in Int
    BY <1>4 DEF max, min
  <2>2. clamp(lo, fr.start, fr.end) <= x /\ x < clamp(hi, fr.start, fr.end)
    BY <1>4 DEF this_start, this_end
  <2> HIDE DEF lo, hi
  <2>3. lo <= x /\ x < hi /\ fr.start <= x /\ x < fr.end
    BY <1>2, <2>1, <2>2, ClampFacts
  <2> QED
    BY <2>3 DEF lo, hi
<1>6. m_start <= x /\ x < m_end /\ r_start <= x /\ x < r_end
  BY <1>4, <1>5 DEF max, min
<1>7. x \in Addr
  BY <1>2, <1>5, SizesAssumption DEF Addr
<1>8. x \in Covered(ms)
  BY <1>3, <1>6, <1>7 DEF Covered, m_start, m_end
<1>9. ASSUME NEW k \in 1 .. Len(rs)
      PROVE  ~(rs[k].base <= x /\ x < rend(rs[k]))
  <2>1. \A l \in 1 .. Len(rs) : /\ rs[l].base \in Nat /\ rend(rs[l]) \in Nat
                                 /\ rs[l].base <= rend(rs[l])
    <3> TAKE l \in 1 .. Len(rs)
    <3>1. /\ rs[l].base \in Nat /\ rs[l].size \in Nat
          /\ rend(rs[l]) = rs[l].base + rs[l].size
      BY <1>2 DEF Flat
    <3> QED
      BY <3>1
  <2>2. \A i, j \in 1 .. Len(rs) : i < j => rend(rs[i]) <= rs[j].base
    BY <1>2, SortedElements
  <2>3. fr.b > 0 => rend(rs[fr.b]) <= x
    BY <1>6 DEF r_start, GapStart
  <2>4. fr.b < Len(rs) => x < rs[fr.b + 1].base
    BY <1>6 DEF r_end, GapEnd
  <2> HIDE DEF rs
  <2> DEFINE n == Len(rs)
             b == fr.b
  <2>5. /\ n \in Nat /\ b \in 0 .. n /\ k \in 1 .. n
        /\ \A l \in 1 .. n : /\ rs[l].base \in Nat /\ rend(rs[l]) \in Nat
                             /\ rs[l].base <= rend(rs[l])
        /\ \A i, j \in 1 .. n : i < j => rend(rs[i]) <= rs[j].base
        /\ b > 0 => rend(rs[b]) <= x
        /\ b < n => x < rs[b + 1].base
    BY <1>3, <2>1, <2>2, <2>3, <2>4
  <2> HIDE DEF n, b
  <2> QED
    BY <2>5, GapFree
<1>10. x \notin Covered(rs)
  BY <1>3, <1>9 DEF Covered
<1> QED
  BY <1>5, <1>8, <1>10

\* What the search finds is free RAM.
LEMMA FindHitInv == ASSUME IInv, FindHit PROVE IInv'
<1>1. /\ pc = "find" /\ ~hung /\ pc' = "reserve" /\ found' = cand
      /\ UNCHANGED <<mb, fr, hung>>
  BY DEF FindHit, FreeRange, Finding, Running
<1>2. /\ this_start \in Nat /\ this_end \in Nat
      /\ PAGE_SIZE <= this_start /\ this_end <= fr.end
      /\ cand \in Int /\ this_start <= cand /\ cand + fr.size <= this_end
  BY HitFacts
<1>3. /\ fr \in SearchFrames /\ fr.size \in Nat /\ fr.end \in Addr
      /\ PAGE_SIZE <= fr.start /\ fr.start <= fr.end
      /\ fr.a <= Len(mb["memory"].regions)
      /\ fr.b \in -1 .. Len(mb["reserved"].regions)
  BY <1>1, FindFacts
<1> DEFINE c == cand
<1>4. \A x \in Int : c <= x /\ x < c + fr.size =>
        /\ fr.start <= x /\ x < fr.end
        /\ x \in Covered(mb["memory"].regions)
        /\ x \notin Covered(mb["reserved"].regions)
  BY HitByte
<1> HIDE DEF c
<1>5. /\ found' = c /\ c \in Int /\ PAGE_SIZE <= c /\ c \in Addr
  <2>1. found' = c /\ c \in Int /\ this_start <= c /\ c + fr.size <= this_end
    BY <1>1, <1>2 DEF c
  <2> HIDE DEF this_start, this_end
  <2> QED
    BY <1>2, <1>3, <2>1, SizesAssumption DEF Addr
<1>6. FrameOK'
  BY <1>1, <1>3 DEF FrameOK
<1>7. TypeOK'
  BY <1>1, <1>5, <1>6, QuietTypes DEF IInv, TypeOK, PCs
<1>8. OthersCanonical'
  BY <1>1 DEF IInv, OthersCanonical, Changing
<1>9. AllocFree'
  <2> SUFFICES ASSUME fr.size > 0
      PROVE LET range == c .. (c + fr.size - 1)
            IN  /\ range \subseteq Covered(mb["memory"].regions)
                /\ range \cap Covered(mb["reserved"].regions) = {}
                /\ range \subseteq fr.start .. (fr.end - 1)
                /\ c >= PAGE_SIZE
    BY <1>1, <1>5 DEF AllocFree, Covered
  <2>1. ASSUME NEW x \in c .. (c + fr.size - 1)
        PROVE  /\ x \in fr.start .. (fr.end - 1)
               /\ x \in Covered(mb["memory"].regions)
               /\ x \notin Covered(mb["reserved"].regions)
    <3>1. x \in Int /\ c <= x /\ x < c + fr.size
      BY <1>3, <1>5
    <3>2. /\ fr.start <= x /\ x < fr.end
          /\ x \in Covered(mb["memory"].regions)
          /\ x \notin Covered(mb["reserved"].regions)
      BY <1>4, <3>1
    <3>3. fr.start \in Int /\ fr.end \in Int
      BY <1>1, FindFacts
    <3> QED
      BY <3>1, <3>2, <3>3
  <2>2. PAGE_SIZE \in Int /\ c >= PAGE_SIZE
    BY <1>5, SizesAssumption
  <2> QED
    BY <2>1, <2>2
<1> QED
  BY <1>1, <1>7, <1>8, <1>9 DEF IInv, ScanInv, MergeInv, IsolateInv, RemoveInv

(***************************************************************************)
(* The theorems.                                                           *)
(***************************************************************************)

\* A step that changes nothing.
LEMMA StutterInv == ASSUME IInv, UNCHANGED vars PROVE IInv'
<1>1. UNCHANGED <<mb, pc, fr, found, hung>>
  BY DEF vars
<1>2. TypeOK'
  BY <1>1 DEF IInv, TypeOK, FrameOK, ScanRegions, ArrayOK
<1>3. CASE hung
  BY <1>1, <1>2, <1>3 DEF IInv
<1>4. CASE ~hung
  <2>1. /\ OthersCanonical /\ ScanInv /\ MergeInv
        /\ IsolateInv /\ RemoveInv /\ AllocFree
    BY <1>4 DEF IInv
  <2>2. OthersCanonical'
    BY <1>1, <2>1 DEF OthersCanonical, Changing
  <2>3. /\ ScanRegions' = ScanRegions
        /\ TouchAtCuts(ScanRegions)' = TouchAtCuts(ScanRegions)
    <3>1. ScanRegions' = ScanRegions
      BY <1>1 DEF ScanRegions
    <3> QED
      BY <1>1, <3>1, Zenon DEF TouchAtCuts
  <2>4. ScanInv' /\ MergeInv'
    BY <1>1, <2>1, <2>3 DEF ScanInv, MergeInv
  <2>5. IsolateInv'
    BY <1>1, <2>1, <2>3 DEF IsolateInv, Below
  <2>6. RemoveInv'
    BY <1>1, <2>1, <2>3 DEF RemoveInv, Below, Above
  <2>7. AllocFree'
    <3>1. AllocFree' = AllocFree
      BY <1>1, Zenon DEF AllocFree, Covered
    <3> QED
      BY <2>1, <3>1, Zenon
  <2> QED
    BY <1>2, <2>2, <2>4, <2>5, <2>6, <2>7 DEF IInv
<1> QED
  BY <1>3, <1>4

\* Every step keeps the invariant.
LEMMA NextInv == ASSUME IInv, Next PROVE IInv'
<1>1. CASE Call
  BY <1>1, AddInv, ReserveInv, FreeInv, AllocInv DEF Call
<1>2. CASE AddStep
  BY <1>2, ScanSkipInv, ScanOverlapInv, CountFrontInv, CountDoneInv,
     InsertFrontInv, InsertDoneInv, InsertBugInv,
     MergeStepInv, MergeNextInv, MergeDoneInv DEF AddStep
<1>3. CASE FreeStep
  BY <1>3, IsolateSkipInv, IsolateFrontInv, IsolateBackInv, IsolateWholeInv,
     IsolateDoneInv, RemoveLastInv, RemoveDoneInv DEF FreeStep
<1>4. CASE AllocStep
  BY <1>4, FindPrevInv, FindHitInv, FindFailInv, AllocReserveInv DEF AllocStep
<1>5. CASE Halted
  BY <1>5, StutterInv DEF Halted
<1> QED
  BY <1>1, <1>2, <1>3, <1>4, <1>5 DEF Next, Step

\* The inductive invariant holds of every behaviour.
THEOREM Invariance == Spec => []IInv
<1>1. IInv /\ [Next]_vars => IInv'
  BY NextInv, StutterInv
<1> QED
  BY InitInv, <1>1, PTL DEF Spec

\* No index leaves its array, no address leaves the address space and cnt stays
\* within max, whatever calls are made and in whatever order.
THEOREM TypeCorrect == Spec => []TypeOK
<1>1. IInv => TypeOK
  BY DEF IInv
<1> QED
  BY Invariance, <1>1, PTL

\* An array in which neighbours touch only at the cuts is in order.
LEMMA IsolatedOrder ==
  ASSUME NEW rs, ArrayOK(rs), TouchAtCuts(rs)
  PROVE  Sorted(rs)
<1>1. Flat(rs)
  BY ArrayFacts
<1>2. \A k \in 1 .. Len(rs) : rs[k].base \in Nat /\ rend(rs[k]) \in Nat
  BY <1>1 DEF Flat
<1>3. \A k, l \in 1 .. Len(rs) : k < l =>
        rend(rs[k]) < rs[l].base \/ rend(rs[k]) = rs[l].base
  BY TouchOrder
<1>4. \A k, l \in 1 .. Len(rs) : k < l => rend(rs[k]) <= rs[l].base
  BY <1>2, <1>3
<1> QED
  BY <1>1, <1>4, SortedElements

\* The regions of both arrays are in address order and disjoint at every step
\* of every call: the BUG_ON of memblock_merge_regions never fires.
THEOREM AlwaysOrdered == Spec => []Ordered
<1>1. IInv => Ordered
  <2> SUFFICES ASSUME IInv, ~hung, NEW t \in Types PROVE Sorted(mb[t].regions)
    BY DEF Ordered
  <2>1. ArrayOK(mb[t].regions)
    BY DEF IInv, TypeOK
  <2>2. CASE ~Changing(t)
    BY <2>1, <2>2, CanonicalOrder DEF IInv, OthersCanonical
  <2>3. CASE Changing(t)
    <3>1. mb[t].regions = ScanRegions
      BY <2>3 DEF Changing, ScanRegions
    <3>2. CASE pc \in {"insert", "merge"}
      BY <3>1, <3>2 DEF IInv, ScanInv, MergeInv
    <3>3. CASE pc \in {"isolate", "remove"}
      <4>1. TouchAtCuts(ScanRegions)
        BY <3>3 DEF IInv, IsolateInv, RemoveInv
      <4> QED
        BY <2>1, <3>1, <4>1, IsolatedOrder
    <3> QED
      BY <2>3, <3>2, <3>3 DEF Changing
  <2> QED
    BY <2>2, <2>3
<1> QED
  BY Invariance, <1>1, PTL

\* Nothing hangs at first.
LEMMA InitHangs == Init => HangsInLoops
BY DEF Init, HangsInLoops

\* Only the steps with a BUG in them hang.
LEMMA NextHangs == ASSUME HangsInLoops, [Next]_vars PROVE HangsInLoops'
<1>1. CASE Call
  BY <1>1 DEF Call, memblock_add, memblock_reserve, memblock_free,
              memblock_phys_alloc_range, Running, HangsInLoops
<1>2. CASE AddStep
  BY <1>2 DEF AddStep, ScanSkip, ScanOverlap, CountFront, CountDone, InsertFront,
              InsertDone, InsertBug, Bug, Merge, MergeNext, MergeDone, Merging,
              Scanning, Running, HangsInLoops
<1>3. CASE FreeStep
  <2>1. CASE IsolateFront \/ IsolateBack
    BY <2>1 DEF IsolateFront, IsolateBack, SplitAt, Bug, Overlapping, Isolating,
                HangsInLoops
  <2>2. CASE \/ IsolateSkip \/ IsolateWhole \/ IsolateDone \/ RemoveLast \/ RemoveDone
    BY <2>2 DEF IsolateSkip, IsolateWhole, IsolateDone, RemoveLast, RemoveDone,
                Overlapping, Isolating, Running, HangsInLoops
  <2> QED
    BY <1>3, <2>1, <2>2 DEF FreeStep
<1>4. CASE AllocStep
  BY <1>4 DEF AllocStep, FindPrevRegion, FindPrevGap, FindTry, FindHit, FindFail,
              AllocReserve, FreeRange, Finding, Running, HangsInLoops
<1>5. CASE Halted \/ UNCHANGED vars
  BY <1>5 DEF Halted, vars, HangsInLoops
<1> QED
  BY <1>1, <1>2, <1>3, <1>4, <1>5 DEF Next, Step

\* The processor hangs nowhere but in the two loops that insert.
LEMMA HangsOnlyInLoops == Spec => []HangsInLoops
BY InitHangs, NextHangs, PTL DEF Spec

\* Whenever no call runs both arrays are canonical: sorted, disjoint, no two
\* regions touch, no entry without bytes except the dummy of an empty array.
THEOREM CanonicalBetweenCalls == Spec => []Canonical
<1>1. IInv /\ HangsInLoops => Canonical
  BY DEF IInv, HangsInLoops, Canonical, OthersCanonical, Changing
<1> QED
  BY Invariance, HangsOnlyInLoops, <1>1, PTL

\* What an allocation is about to reserve is RAM that nobody holds, within the
\* bounds of the request and not in page 0.
THEOREM AllocationsAreFree == Spec => []AllocFree
<1>1. IInv /\ HangsInLoops => AllocFree
  BY DEF IInv, HangsInLoops, AllocFree
<1> QED
  BY Invariance, HangsOnlyInLoops, <1>1, PTL

=============================================================================
