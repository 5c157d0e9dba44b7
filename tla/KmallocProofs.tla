--------------------------- MODULE KmallocProofs ----------------------------
(***************************************************************************)
(* The heap, for every set of block sizes, every number of descriptors in  *)
(* a page and every sequence of calls: blocks are disjoint, the free lists *)
(* and the blocks in use cut up the pages, nothing is lost.                *)
(***************************************************************************)
EXTENDS Kmalloc, PageAllocProofs, FiniteSetTheorems, SequenceTheorems

-----------------------------------------------------------------------------
(***************************************************************************)
(* The inductive invariant.  Its parts are about values and not about the  *)
(* variables, so that a lemma can speak of the values before and after.    *)
(***************************************************************************)
DescIds == Nat \X (1 .. DESCS)

\* The addresses in page p of the blocks in L.
UsedIn(L, p) == {block[1] : block \in {x \in L : PageOf(x[1]) = p}}

DescRecord == [page : Nat, bucket_size : 1 .. PAGE_SIZE, refcnt : Nat, freeptr : Seq(Nat)]

\* A descriptor whose blocks at the addresses of used are in use.
DescOK(e, used) ==
  /\ e \in DescRecord
  /\ used \subseteq CutUp(e.page, e.bucket_size)
  /\ IsInjective(e.freeptr)
  /\ Range(e.freeptr) = CutUp(e.page, e.bucket_size) \ used
  /\ e.refcnt = Cardinality(used)

\* The descriptors in m and the blocks in L belong together.
MapOK(m, L) ==
  /\ \A d \in DOMAIN m : /\ DescOK(m[d], UsedIn(L, m[d].page))
                         /\ UsedIn(L, m[d].page) # {}
  /\ \A d, e \in DOMAIN m : m[d].page = m[e].page => d = e
  /\ L \subseteq Nat \X Nat
  /\ \A x \in L : \E d \in DOMAIN m :
       x[1] \in CutUp(m[d].page, m[d].bucket_size) /\ x[2] = m[d].bucket_size

\* Each descriptor in m is on one chain, the one of its size.
ChainsOK(c, m) ==
  /\ c \in [Buckets -> Seq(DescIds)]
  /\ \A b \in Buckets : IsInjective(c[b])
  /\ \A a, b \in Buckets : a # b => Range(c[a]) \cap Range(c[b]) = {}
  /\ DOMAIN m = UNION {Range(c[b]) : b \in Buckets}
  /\ \A b \in Buckets : \A d \in Range(c[b]) : m[d].bucket_size = bucket_dir[b]

\* Where the processor has not stopped for want of memory.
Sane == pc \in {"boot", "idle", "refused", "refused_block", "too_large"}

BlockPages == {desc[d].page : d \in DOMAIN desc}
Returning == IF pc \in {"refused", "refused_block"} THEN {arg} ELSE {}

\* A page has one owner, and every page in use has one.
OwnersInv ==
  /\ ards \in ArdsTables /\ length \in Nat /\ bits \subseteq Pages
  /\ lost \cup held \cup descPages \cup BlockPages \cup Returning \subseteq bits
  /\ lost \cap held = {} /\ descPages \cap (lost \cup held) = {}
  /\ BlockPages \cap (lost \cup held \cup descPages) = {}
  /\ Returning \cap (lost \cup held \cup descPages \cup BlockPages) = {}
  /\ Sane => bits = lost \cup held \cup descPages \cup BlockPages \cup Returning
  /\ pc = "boot" => bits = {}

\* A descriptor is on a chain, or free, or about to be.
Waiting == IF pc = "refused_block" THEN {bdesc} ELSE {}
FreeInv ==
  Sane => /\ free_bucket_desc \in Seq(DescIds)
          /\ IsInjective(free_bucket_desc)
          /\ Range(free_bucket_desc) \cap (DOMAIN desc \cup Waiting) = {}
          /\ Waiting \cap DOMAIN desc = {}
          /\ DescPlaces = Range(free_bucket_desc) \cup DOMAIN desc \cup Waiting

HeapInv == MapOK(desc, live) /\ ChainsOK(chain, desc) /\ OwnersInv /\ FreeInv

-----------------------------------------------------------------------------
(***************************************************************************)
(* Lists without repetition.                                               *)
(***************************************************************************)
LEMMA SeqIs ==
  ASSUME NEW T, NEW s \in Seq(T)
  PROVE  Len(s) \in Nat /\ DOMAIN s = 1 .. Len(s) /\ \A k \in 1 .. Len(s) : s[k] \in T
  OBVIOUS

\* The first element is taken off.
LEMMA TailFacts ==
  ASSUME NEW T, NEW s \in Seq(T), s # <<>>, IsInjective(s)
  PROVE  /\ Head(s) \in T /\ Head(s) \in Range(s)
         /\ Tail(s) \in Seq(T) /\ IsInjective(Tail(s))
         /\ Range(Tail(s)) = Range(s) \ {Head(s)}
<1> DEFINE n == Len(s)
           t == Tail(s)
<1>1. /\ n \in Nat /\ n >= 1 /\ DOMAIN s = 1 .. n /\ Head(s) = s[1] /\ s[1] \in T
      /\ t \in Seq(T) /\ DOMAIN t = 1 .. n - 1 /\ \A k \in 1 .. n - 1 : t[k] = s[k + 1]
  OBVIOUS
<1> HIDE DEF t, n
<1>2. ASSUME NEW k \in 1 .. n - 1 PROVE k + 1 \in DOMAIN s /\ t[k] = s[k + 1] /\ k + 1 # 1
  BY <1>1
<1>3. IsInjective(t)
  <2> SUFFICES ASSUME NEW k \in DOMAIN t, NEW l \in DOMAIN t, t[k] = t[l] PROVE k = l
    BY DEF IsInjective
  <2>1. k + 1 = l + 1
    BY <1>1, <1>2 DEF IsInjective
  <2> QED  BY <1>1, <2>1
<1>4. Range(t) \subseteq Range(s) \ {s[1]}
  <2> SUFFICES ASSUME NEW k \in DOMAIN t PROVE t[k] \in Range(s) /\ t[k] # s[1]
    BY DEF Range
  <2>1. k + 1 \in DOMAIN s /\ t[k] = s[k + 1] /\ k + 1 # 1 /\ 1 \in DOMAIN s
    BY <1>1, <1>2
  <2> QED  BY <2>1 DEF Range, IsInjective
<1>5. Range(s) \ {s[1]} \subseteq Range(t)
  <2> SUFFICES ASSUME NEW k \in DOMAIN s, s[k] # s[1] PROVE s[k] \in Range(t)
    BY DEF Range
  <2>1. k - 1 \in 1 .. n - 1 /\ (k - 1) + 1 = k
    BY <1>1
  <2>2. k - 1 \in DOMAIN t /\ t[k - 1] = s[k]
    BY <1>1, <2>1
  <2> QED  BY <2>2 DEF Range
<1>6. s[1] \in Range(s)
  BY <1>1 DEF Range
<1> QED  BY <1>1, <1>3, <1>4, <1>5, <1>6 DEF t

\* A new element is put in front.
LEMMA PushFacts ==
  ASSUME NEW T, NEW s \in Seq(T), IsInjective(s), NEW x \in T, x \notin Range(s)
  PROVE  /\ <<x>> \o s \in Seq(T) /\ IsInjective(<<x>> \o s)
         /\ Range(<<x>> \o s) = Range(s) \cup {x}
         /\ Len(<<x>> \o s) = Len(s) + 1
<1> DEFINE n == Len(s)
           t == <<x>> \o s
<1>1. /\ n \in Nat /\ DOMAIN s = 1 .. n /\ t \in Seq(T) /\ Len(t) = n + 1
      /\ DOMAIN t = 1 .. n + 1 /\ t[1] = x
      /\ \A k \in 2 .. n + 1 : t[k] = s[k - 1]
  OBVIOUS
<1> HIDE DEF t, n
<1>2. ASSUME NEW k \in 2 .. n + 1 PROVE k - 1 \in DOMAIN s /\ t[k] = s[k - 1] /\ t[k] # x
  <2>1. k - 1 \in DOMAIN s /\ t[k] = s[k - 1]
    BY <1>1
  <2> QED  BY <2>1 DEF Range
<1>3. ASSUME NEW k \in DOMAIN t PROVE k = 1 \/ k \in 2 .. n + 1
  BY <1>1
<1>4. IsInjective(t)
  <2> SUFFICES ASSUME NEW k \in DOMAIN t, NEW l \in DOMAIN t, t[k] = t[l] PROVE k = l
    BY DEF IsInjective
  <2>1. CASE k = 1 \/ l = 1
    BY <1>1, <1>2, <1>3, <2>1
  <2>2. CASE k # 1 /\ l # 1
    <3>1. k \in 2 .. n + 1 /\ l \in 2 .. n + 1
      BY <1>3, <2>2
    <3>2. k - 1 = l - 1
      BY <1>2, <3>1 DEF IsInjective
    <3> QED  BY <1>1, <3>1, <3>2
  <2> QED  BY <2>1, <2>2
<1>5. Range(t) \subseteq Range(s) \cup {x}
  <2> SUFFICES ASSUME NEW k \in DOMAIN t PROVE t[k] \in Range(s) \/ t[k] = x
    BY DEF Range
  <2> QED  BY <1>1, <1>2, <1>3 DEF Range
<1>6. Range(s) \subseteq Range(t)
  <2> SUFFICES ASSUME NEW k \in DOMAIN s PROVE s[k] \in Range(t)
    BY DEF Range
  <2>1. k + 1 \in 2 .. n + 1 /\ k + 1 \in DOMAIN t /\ (k + 1) - 1 = k
    BY <1>1
  <2>2. t[k + 1] = s[k]
    BY <1>1, <2>1
  <2> QED  BY <2>1, <2>2 DEF Range
<1>7. x \in Range(t)
  <2>1. 1 \in DOMAIN t
    BY <1>1
  <2> QED  BY <1>1, <2>1 DEF Range
<1> QED  BY <1>1, <1>4, <1>5, <1>6, <1>7 DEF t, n

\* Such a list is as long as its set is large.
LEMMA LengthIsCount ==
  ASSUME NEW T, NEW s \in Seq(T), IsInjective(s)
  PROVE  IsFiniteSet(Range(s)) /\ Len(s) = Cardinality(Range(s))
<1>1. Len(s) \in Nat /\ DOMAIN s = 1 .. Len(s)
  BY SeqIs
<1>2. IsFiniteSet(1 .. Len(s)) /\ Cardinality(1 .. Len(s)) = Len(s)
  BY <1>1, FS_Interval
<1>3. s \in [1 .. Len(s) -> Range(s)]
  <2>1. s = [k \in 1 .. Len(s) |-> s[k]]
    OBVIOUS
  <2>2. \A k \in 1 .. Len(s) : s[k] \in Range(s)
    BY <1>1 DEF Range
  <2> QED  BY <2>1, <2>2
<1>4. s \in Bijection(1 .. Len(s), Range(s))
  BY <1>1, <1>3 DEF Bijection, Injection, Surjection, IsInjective, Range
<1>5. ExistsBijection(1 .. Len(s), Range(s))
  BY <1>4 DEF ExistsBijection
<1> QED  BY <1>2, <1>5, FS_Bijection

LEMMA NotEmpty ==
  ASSUME NEW T, NEW s \in Seq(T)
  PROVE  s = <<>> <=> Range(s) = {}
<1>1. CASE s = <<>>
  BY <1>1 DEF Range
<1>2. CASE s # <<>>
  <2>1. 1 \in DOMAIN s
    BY <1>2
  <2> QED  BY <1>2, <2>1 DEF Range
<1> QED  BY <1>1, <1>2

-----------------------------------------------------------------------------
(***************************************************************************)
(* The addresses of the blocks of a page.                                  *)
(***************************************************************************)
LEMMA SizeFacts ==
  ASSUME NEW size \in 1 .. PAGE_SIZE
  PROVE  /\ PAGE_SIZE \in Nat \ {0} /\ size \in Nat \ {0}
         /\ PAGE_SIZE \div size \in Nat /\ PAGE_SIZE \div size >= 1
         /\ size * (PAGE_SIZE \div size) <= PAGE_SIZE
<1>1. PAGE_SIZE \in Nat \ {0} /\ size \in Nat \ {0} /\ size <= PAGE_SIZE
  BY PageAssumption
<1>2. PAGE_SIZE \div size \in Nat
  BY <1>1, DivIsNat
<1>3. size * (PAGE_SIZE \div size) <= PAGE_SIZE
  BY <1>1, DivBelow
<1> DEFINE q == PAGE_SIZE \div size
           r == PAGE_SIZE % size
<1>4. PAGE_SIZE = size * q + r /\ r < size
  BY <1>1
<1> HIDE DEF q, r
<1>5. q # 0
  <2> SUFFICES ASSUME q = 0 PROVE FALSE
    OBVIOUS
  <2>1. size * q = 0
    BY <1>1
  <2>2. r \in Int
    BY <1>1 DEF r
  <2> QED  BY <1>1, <1>4, <2>1, <2>2
<1> QED  BY <1>1, <1>2, <1>3, <1>5 DEF q

\* What is in a page has the number of that page.
LEMMA PageOfByte ==
  ASSUME NEW p \in Nat, NEW r \in 0 .. PAGE_SIZE - 1
  PROVE  p * PAGE_SIZE + r \in Nat /\ PageOf(p * PAGE_SIZE + r) = p
<1> DEFINE start == p * PAGE_SIZE
           a == start + r
           q == a \div PAGE_SIZE
           rest == a % PAGE_SIZE
<1>1. PAGE_SIZE \in Nat \ {0}
  BY PageAssumption
<1>2. start \in Nat
  BY <1>1, BitsAreNat
<1> HIDE DEF start
<1>3. a \in Nat /\ a >= start /\ a < start + PAGE_SIZE
  BY <1>1, <1>2
<1> HIDE DEF a
<1>4. q \in Nat /\ rest \in 0 .. PAGE_SIZE - 1 /\ a = PAGE_SIZE * q + rest
  BY <1>1, <1>3, DivIsNat
<1> HIDE DEF q, rest
<1> DEFINE other == q * PAGE_SIZE
<1>5. other \in Nat /\ a = other + rest
  <2>1. PAGE_SIZE * q = q * PAGE_SIZE
    BY <1>1, <1>4
  <2> QED  BY <1>1, <1>4, <2>1, BitsAreNat
<1>6. p < q => start + PAGE_SIZE <= other
  BY <1>1, <1>4, FactorGrows DEF start
<1>7. q < p => other + PAGE_SIZE <= start
  BY <1>1, <1>4, FactorGrows DEF start
<1> HIDE DEF other
<1>8. p = q
  BY <1>1, <1>2, <1>3, <1>4, <1>5, <1>6, <1>7
<1> QED  BY <1>3, <1>8 DEF PageOf, a, q, start

\* Every byte of a block is in its page.
LEMMA BlockInPage ==
  ASSUME NEW p \in Nat, NEW size \in 1 .. PAGE_SIZE, NEW a \in CutUp(p, size)
  PROVE  /\ a \in Nat /\ PageOf(a) = p
         /\ \A b \in a .. a + size - 1 : PageOf(b) = p
<1> DEFINE q == PAGE_SIZE \div size
           start == p * PAGE_SIZE
<1>1. /\ PAGE_SIZE \in Nat \ {0} /\ size \in Nat \ {0}
      /\ q \in Nat /\ size * q <= PAGE_SIZE
  BY SizeFacts
<1>2. PICK k \in 0 .. q - 1 : a = p * PAGE_SIZE + k * size
  BY DEF CutUp
<1>3. start \in Nat
  BY <1>1, BitsAreNat
<1> DEFINE o == k * size
<1>4. o \in Nat /\ o + size <= PAGE_SIZE
  <2>1. k \in Nat /\ k < q
    BY <1>1, <1>2
  <2>2. k * size + size <= q * size
    BY <1>1, <2>1, FactorGrows
  <2>3. q * size = size * q
    BY <1>1
  <2>4. k * size \in Nat
    BY <1>1, <2>1, BitsAreNat
  <2> DEFINE u == q * size
             v == size * q
  <2>5. u = v /\ v <= PAGE_SIZE /\ o + size <= u
    BY <1>1, <2>2, <2>3
  <2>6. u \in Int /\ o \in Nat
    BY <1>1, <2>4
  <2> HIDE DEF u, v, o
  <2> QED  BY <1>1, <2>5, <2>6
<1>5. a = start + o
  BY <1>2
<1> HIDE DEF start, o
<1>6. ASSUME NEW b \in a .. a + size - 1 PROVE PageOf(b) = p
  <2>1. b - start \in 0 .. PAGE_SIZE - 1 /\ start + (b - start) = b
    BY <1>1, <1>3, <1>4, <1>5
  <2> QED  BY <2>1, PageOfByte DEF start
<1>7. a \in Nat /\ a \in a .. a + size - 1
  BY <1>1, <1>3, <1>4, <1>5
<1> QED  BY <1>6, <1>7

\* Two blocks of a page do not overlap.
LEMMA BlocksApart ==
  ASSUME NEW p \in Nat, NEW size \in 1 .. PAGE_SIZE,
         NEW a \in CutUp(p, size), NEW c \in CutUp(p, size), a # c
  PROVE  a .. (a + size - 1) \cap c .. (c + size - 1) = {}
<1> DEFINE q == PAGE_SIZE \div size
           start == p * PAGE_SIZE
<1>1. /\ PAGE_SIZE \in Nat \ {0} /\ size \in Nat \ {0} /\ q \in Nat
  BY SizeFacts
<1>2. PICK k \in 0 .. q - 1 : a = p * PAGE_SIZE + k * size
  BY DEF CutUp
<1>3. PICK l \in 0 .. q - 1 : c = p * PAGE_SIZE + l * size
  BY DEF CutUp
<1> DEFINE u == k * size
           v == l * size
<1>4. k \in Nat /\ l \in Nat /\ k # l
  BY <1>1, <1>2, <1>3
<1>5. start \in Nat /\ u \in Nat /\ v \in Nat
  BY <1>1, <1>4, BitsAreNat
<1>6. k < l => u + size <= v
  BY <1>1, <1>4, FactorGrows
<1>7. l < k => v + size <= u
  BY <1>1, <1>4, FactorGrows
<1>8. a = start + u /\ c = start + v
  BY <1>2, <1>3
<1> HIDE DEF start, u, v
<1>9. u + size <= v \/ v + size <= u
  BY <1>4, <1>6, <1>7
<1> QED  BY <1>1, <1>5, <1>8, <1>9

\* The list that a new page begins with.
LEMMA BlocksAreCut ==
  ASSUME NEW p \in Nat, NEW size \in 1 .. PAGE_SIZE
  PROVE  /\ BlocksOf(p, size) \in Seq(Nat) /\ BlocksOf(p, size) # <<>>
         /\ IsInjective(BlocksOf(p, size))
         /\ Range(BlocksOf(p, size)) = CutUp(p, size)
<1> DEFINE q == PAGE_SIZE \div size
           s == BlocksOf(p, size)
<1>1. /\ PAGE_SIZE \in Nat \ {0} /\ size \in Nat \ {0} /\ q \in Nat /\ q >= 1
  BY SizeFacts
<1>2. s = [k \in 1 .. q |-> p * PAGE_SIZE + (k - 1) * size]
  BY DEF BlocksOf
<1>3. ASSUME NEW k \in 1 .. q PROVE s[k] \in CutUp(p, size) /\ s[k] \in Nat
  <2>1. k - 1 \in 0 .. q - 1 /\ k - 1 \in 0 .. (PAGE_SIZE \div size) - 1
    BY <1>1
  <2>2. s[k] = p * PAGE_SIZE + (k - 1) * size
    BY <1>2
  <2>3. s[k] \in CutUp(p, size)
    BY <2>1, <2>2 DEF CutUp
  <2> QED  BY <2>3, BlockInPage
<1>4. DOMAIN s = 1 .. q
  BY <1>2
<1>5. ASSUME NEW a \in CutUp(p, size) PROVE a \in Range(s)
  <2>1. PICK k \in 0 .. q - 1 : a = p * PAGE_SIZE + k * size
    BY DEF CutUp
  <2>2. k + 1 \in 1 .. q /\ (k + 1) - 1 = k
    BY <1>1
  <2>3. s[k + 1] = p * PAGE_SIZE + ((k + 1) - 1) * size
    BY <1>2, <2>2
  <2>4. s[k + 1] = a
    BY <2>1, <2>2, <2>3
  <2> QED  BY <1>4, <2>2, <2>4 DEF Range
<1>6. ASSUME NEW k \in 1 .. q, NEW l \in 1 .. q, k < l PROVE s[k] # s[l]
  <2> DEFINE u == (k - 1) * size
             v == (l - 1) * size
             start == p * PAGE_SIZE
  <2>1. k - 1 \in Nat /\ l - 1 \in Nat /\ k - 1 < l - 1
    BY <1>1, <1>6
  <2>2. u + size <= v /\ u \in Nat /\ v \in Nat /\ start \in Nat
    BY <1>1, <2>1, FactorGrows, BitsAreNat
  <2>3. s[k] = start + u /\ s[l] = start + v
    BY <1>2
  <2> HIDE DEF u, v, start
  <2> QED  BY <1>1, <2>2, <2>3
<1>7. IsInjective(s)
  <2> SUFFICES ASSUME NEW k \in 1 .. q, NEW l \in 1 .. q, s[k] = s[l] PROVE k = l
    BY <1>4 DEF IsInjective
  <2>1. k < l \/ l < k \/ k = l
    BY <1>1
  <2> QED  BY <1>6, <2>1
<1>8. s \in Seq(Nat)
  <2> HIDE DEF s, q
  <2>1. s = [k \in 1 .. q |-> s[k]]
    BY <1>2
  <2>2. s \in [1 .. q -> Nat]
    BY <1>3, <2>1
  <2> QED  BY <1>1, <2>2, SeqDef
<1>9. Range(s) = CutUp(p, size)
  BY <1>3, <1>4, <1>5 DEF Range
<1>10. s # <<>>
  <2> HIDE DEF s, q
  <2>1. 1 \in DOMAIN s
    BY <1>1, <1>4
  <2> QED  BY <2>1
<1> HIDE DEF s
<1>11. s = BlocksOf(p, size)
  BY DEF s
<1> QED  BY <1>7, <1>8, <1>9, <1>10, <1>11

-----------------------------------------------------------------------------
(***************************************************************************)
(* One descriptor.                                                         *)
(***************************************************************************)
\* A descriptor in which the free list and the counter have changed.
LEMMA DescChanged ==
  ASSUME NEW e \in DescRecord, NEW s, NEW n
  PROVE  [e EXCEPT !.freeptr = s, !.refcnt = n]
           = [page |-> e.page, bucket_size |-> e.bucket_size, refcnt |-> n, freeptr |-> s]
<1> DEFINE f == [e EXCEPT !.freeptr = s]
<1>1. f = [page |-> e.page, bucket_size |-> e.bucket_size,
           refcnt |-> e.refcnt, freeptr |-> s]
  BY DEF DescRecord
<1> HIDE DEF f
<1>2. [f EXCEPT !.refcnt = n]
        = [page |-> e.page, bucket_size |-> e.bucket_size, refcnt |-> n, freeptr |-> s]
  BY <1>1
<1> QED  BY <1>2 DEF f

\* There are finitely many blocks in a page.
LEMMA UsedIsFinite ==
  ASSUME NEW e, NEW used, DescOK(e, used)
  PROVE  IsFiniteSet(used) /\ Cardinality(used) \in Nat
<1>1. /\ e.page \in Nat /\ e.bucket_size \in 1 .. PAGE_SIZE
      /\ used \subseteq CutUp(e.page, e.bucket_size)
  BY DEF DescOK, DescRecord
<1> DEFINE s == BlocksOf(e.page, e.bucket_size)
<1>2. s \in Seq(Nat) /\ IsInjective(s) /\ Range(s) = CutUp(e.page, e.bucket_size)
  BY <1>1, BlocksAreCut
<1> HIDE DEF s
<1>3. IsFiniteSet(CutUp(e.page, e.bucket_size))
  BY <1>2, LengthIsCount
<1> QED  BY <1>1, <1>3, FS_Subset, FS_CardinalityType

\* A new descriptor, none of its blocks in use.
LEMMA NewIsOK ==
  ASSUME NEW p \in Nat, NEW size \in 1 .. PAGE_SIZE
  PROVE  DescOK([page |-> p, bucket_size |-> size, refcnt |-> 0,
                 freeptr |-> BlocksOf(p, size)], {})
<1>1. /\ BlocksOf(p, size) \in Seq(Nat) /\ IsInjective(BlocksOf(p, size))
      /\ Range(BlocksOf(p, size)) = CutUp(p, size)
  BY BlocksAreCut
<1> DEFINE s == BlocksOf(p, size)
<1> HIDE DEF s
<1>2. s \in Seq(Nat) /\ IsInjective(s) /\ Range(s) = CutUp(p, size)
  BY <1>1 DEF s
<1>3. Cardinality({}) = 0
  BY FS_EmptySet
<1>4. DescOK([page |-> p, bucket_size |-> size, refcnt |-> 0, freeptr |-> s], {})
  BY <1>2, <1>3 DEF DescOK, DescRecord
<1> QED  BY <1>4 DEF s

\* The block at the head of the free list is handed out.
LEMMA TakenIsOK ==
  ASSUME NEW e, NEW used, DescOK(e, used), e.freeptr # <<>>
  PROVE  /\ Head(e.freeptr) \in CutUp(e.page, e.bucket_size) \ used
         /\ DescOK(Taken(e), used \cup {Head(e.freeptr)})
         /\ Taken(e).page = e.page /\ Taken(e).bucket_size = e.bucket_size
<1> DEFINE s == e.freeptr
           a == Head(s)
           t == Tail(s)
           cut == CutUp(e.page, e.bucket_size)
           f == Taken(e)
<1>1. /\ e \in DescRecord /\ used \subseteq cut /\ IsInjective(s) /\ s \in Seq(Nat)
      /\ Range(s) = cut \ used /\ e.refcnt = Cardinality(used) /\ s # <<>>
  BY DEF DescOK, DescRecord
<1> HIDE DEF s
<1>2. /\ a \in Range(s) /\ t \in Seq(Nat) /\ IsInjective(t)
      /\ Range(t) = Range(s) \ {a}
  BY <1>1, TailFacts
<1>3. f = [page |-> e.page, bucket_size |-> e.bucket_size,
           refcnt |-> e.refcnt + 1, freeptr |-> t]
  <2>1. f = [e EXCEPT !.freeptr = Tail(e.freeptr), !.refcnt = e.refcnt + 1]
    BY DEF Taken
  <2> QED  BY <1>1, <2>1, DescChanged DEF s
<1> HIDE DEF a, t
<1>4. IsFiniteSet(used)
  BY UsedIsFinite
<1>5. a \notin used /\ a \in cut
  BY <1>1, <1>2
<1>6. Cardinality(used \cup {a}) = Cardinality(used) + 1
  BY <1>4, <1>5, FS_AddElement
<1> HIDE DEF f
<1>7. f \in DescRecord
  BY <1>1, <1>2, <1>3 DEF DescRecord
<1>8. Range(t) = cut \ (used \cup {a})
  BY <1>1, <1>2
<1>9. f.refcnt = Cardinality(used \cup {a})
  BY <1>1, <1>3, <1>6
<1> HIDE DEF cut
<1>10. f.freeptr = t /\ cut = CutUp(f.page, f.bucket_size)
  BY <1>3 DEF cut
<1>11. used \cup {a} \subseteq cut
  BY <1>1, <1>5
<1>12. DescOK(f, used \cup {a})
  BY <1>2, <1>7, <1>8, <1>9, <1>10, <1>11 DEF DescOK, DescRecord
<1> QED  BY <1>3, <1>5, <1>12 DEF f, a, s, cut

\* A block comes back.
LEMMA ReturnedIsOK ==
  ASSUME NEW e, NEW used, DescOK(e, used), NEW a \in used
  PROVE  /\ DescOK(Returned(e, a), used \ {a})
         /\ Returned(e, a).page = e.page /\ Returned(e, a).bucket_size = e.bucket_size
         /\ e.refcnt # 0
         /\ e.refcnt = 1 <=> used = {a}
<1> DEFINE s == e.freeptr
           t == <<a>> \o s
           cut == CutUp(e.page, e.bucket_size)
           f == Returned(e, a)
<1>1. /\ e \in DescRecord /\ used \subseteq cut /\ IsInjective(s) /\ s \in Seq(Nat)
      /\ Range(s) = cut \ used /\ e.refcnt = Cardinality(used)
  BY DEF DescOK, DescRecord
<1>2. a \in Nat
  <2>1. a \in CutUp(e.page, e.bucket_size) /\ e.page \in Nat /\ e.bucket_size \in 1 .. PAGE_SIZE
    BY <1>1 DEF DescRecord
  <2> QED  BY <2>1, BlockInPage
<1> HIDE DEF s
<1>3. t \in Seq(Nat) /\ IsInjective(t) /\ Range(t) = Range(s) \cup {a}
  BY <1>1, <1>2, PushFacts
<1>4. f = [page |-> e.page, bucket_size |-> e.bucket_size,
           refcnt |-> e.refcnt - 1, freeptr |-> t]
  <2>1. f = [e EXCEPT !.freeptr = <<a>> \o e.freeptr, !.refcnt = e.refcnt - 1]
    BY DEF Returned
  <2> QED  BY <1>1, <2>1, DescChanged DEF s
<1> HIDE DEF t
<1>5. IsFiniteSet(used) /\ Cardinality(used) \in Nat
  BY UsedIsFinite
<1>6. IsFiniteSet(used \ {a}) /\ Cardinality(used \ {a}) = Cardinality(used) - 1
  BY <1>5, FS_RemoveElement
<1>7. Cardinality(used \ {a}) \in Nat
  BY <1>6, FS_CardinalityType
<1>8. Cardinality(used \ {a}) = 0 <=> used \ {a} = {}
  BY <1>6, FS_EmptySet
<1> HIDE DEF f, cut
<1>9. e.refcnt \in Nat /\ e.refcnt - 1 \in Nat /\ e.refcnt # 0 /\ (e.refcnt = 1 <=> used = {a})
  BY <1>1, <1>5, <1>6, <1>7, <1>8
<1>10. f \in DescRecord
  BY <1>1, <1>3, <1>4, <1>9 DEF DescRecord
<1>11. Range(t) = cut \ (used \ {a})
  BY <1>1, <1>3
<1>12. f.refcnt = Cardinality(used \ {a})
  BY <1>1, <1>4, <1>6
<1>13. f.freeptr = t /\ cut = CutUp(f.page, f.bucket_size)
  BY <1>4 DEF cut
<1>14. used \ {a} \subseteq cut
  BY <1>1
<1>15. DescOK(f, used \ {a})
  BY <1>3, <1>10, <1>11, <1>12, <1>13, <1>14 DEF DescOK, DescRecord
<1> QED  BY <1>4, <1>9, <1>15 DEF f

-----------------------------------------------------------------------------
(***************************************************************************)
(* All descriptors, and the blocks in use.                                 *)
(***************************************************************************)
\* A block in use lies in the page of a descriptor, as one of its blocks.
LEMMA BlockHasOwner ==
  ASSUME NEW m, NEW L, MapOK(m, L), NEW x \in L
  PROVE  /\ x[1] \in Nat /\ x[2] \in Nat /\ x = <<x[1], x[2]>>
         /\ \E d \in DOMAIN m : /\ m[d].page = PageOf(x[1])
                                /\ x[1] \in CutUp(m[d].page, m[d].bucket_size)
                                /\ x[2] = m[d].bucket_size
<1>1. x \in Nat \X Nat
  BY DEF MapOK
<1>2. PICK d \in DOMAIN m : x[1] \in CutUp(m[d].page, m[d].bucket_size) /\ x[2] = m[d].bucket_size
  BY DEF MapOK
<1>3. m[d].page \in Nat /\ m[d].bucket_size \in 1 .. PAGE_SIZE
  BY <1>2 DEF MapOK, DescOK, DescRecord
<1>4. m[d].page = PageOf(x[1])
  BY <1>2, <1>3, BlockInPage
<1> QED  BY <1>1, <1>2, <1>4

LEMMA OwnerHasBlock ==
  ASSUME NEW m, NEW L, MapOK(m, L), NEW x \in L,
         NEW d \in DOMAIN m, m[d].page = PageOf(x[1])
  PROVE  /\ x[1] \in CutUp(m[d].page, m[d].bucket_size)
         /\ x[2] = m[d].bucket_size
         /\ x[1] \in UsedIn(L, m[d].page)
<1>1. PICK e \in DOMAIN m : /\ m[e].page = PageOf(x[1])
                            /\ x[1] \in CutUp(m[e].page, m[e].bucket_size)
                            /\ x[2] = m[e].bucket_size
  BY BlockHasOwner
<1>2. e = d
  BY <1>1 DEF MapOK
<1> QED  BY <1>1, <1>2 DEF UsedIn

LEMMA SameBlock ==
  ASSUME NEW m, NEW L, MapOK(m, L), NEW x \in L, NEW y \in L, x[1] = y[1]
  PROVE  x = y
<1>1. PICK d \in DOMAIN m : m[d].page = PageOf(x[1]) /\ x[2] = m[d].bucket_size
  BY BlockHasOwner
<1>2. y[2] = m[d].bucket_size
  BY <1>1, OwnerHasBlock
<1>3. x = <<x[1], x[2]>> /\ y = <<y[1], y[2]>>
  BY BlockHasOwner
<1> QED  BY <1>1, <1>2, <1>3

\* A block more, a block less.
LEMMA UsedWithBlock ==
  ASSUME NEW L, NEW x, NEW p
  PROVE  UsedIn(L \cup {x}, p) = IF PageOf(x[1]) = p THEN UsedIn(L, p) \cup {x[1]}
                                                     ELSE UsedIn(L, p)
BY DEF UsedIn

LEMMA UsedWithoutBlock ==
  ASSUME NEW m, NEW L, MapOK(m, L), NEW x \in L, NEW p
  PROVE  UsedIn(L \ {x}, p) = IF PageOf(x[1]) = p THEN UsedIn(L, p) \ {x[1]}
                                                  ELSE UsedIn(L, p)
<1>1. ASSUME NEW a \in UsedIn(L \ {x}, p)
      PROVE  a \in UsedIn(L, p) /\ a # x[1]
  <2>1. PICK y \in L \ {x} : a = y[1] /\ PageOf(y[1]) = p
    BY DEF UsedIn
  <2>2. a # x[1]
    BY <2>1, SameBlock
  <2> QED  BY <2>1, <2>2 DEF UsedIn
<1>2. ASSUME NEW a \in UsedIn(L, p), a # x[1]
      PROVE  a \in UsedIn(L \ {x}, p)
  BY <1>2 DEF UsedIn
<1>3. PageOf(x[1]) # p => x[1] \notin UsedIn(L, p)
  BY DEF UsedIn
<1> QED  BY <1>1, <1>2, <1>3

\* One descriptor, d, of page p, is new, changed or gone; its blocks are
\* those of K, the others those of L.
Replaced(m, L, n, K, d, p) ==
  /\ MapOK(m, L)
  /\ DOMAIN n \ {d} = DOMAIN m \ {d}
  /\ \A e \in DOMAIN n \ {d} : n[e] = m[e]
  /\ \A e \in DOMAIN m : m[e].page = p <=> e = d
  /\ K \subseteq Nat \X Nat
  /\ \A q : q # p => UsedIn(K, q) = UsedIn(L, q)
  /\ \A x \in K : PageOf(x[1]) # p => x \in L
  /\ IF d \in DOMAIN n
     THEN /\ n[d].page = p /\ DescOK(n[d], UsedIn(K, p)) /\ UsedIn(K, p) # {}
          /\ \A x \in K : PageOf(x[1]) = p => x[2] = n[d].bucket_size
     ELSE UsedIn(K, p) = {}

LEMMA ReplacedIsOK ==
  ASSUME NEW m, NEW L, NEW n, NEW K, NEW d, NEW p, Replaced(m, L, n, K, d, p)
  PROVE  MapOK(n, K)
<1>1. ASSUME NEW e \in DOMAIN n
      PROVE  DescOK(n[e], UsedIn(K, n[e].page)) /\ UsedIn(K, n[e].page) # {}
  <2>1. CASE e = d
    BY <2>1 DEF Replaced
  <2>2. CASE e # d
    <3>1. e \in DOMAIN m /\ n[e] = m[e] /\ m[e].page # p
      BY <2>2 DEF Replaced
    <3>2. UsedIn(K, n[e].page) = UsedIn(L, m[e].page)
      BY <3>1 DEF Replaced
    <3>3. DescOK(m[e], UsedIn(L, m[e].page)) /\ UsedIn(L, m[e].page) # {}
      BY <3>1 DEF Replaced, MapOK
    <3> QED  BY <3>1, <3>2, <3>3
  <2> QED  BY <2>1, <2>2
<1>2. ASSUME NEW e \in DOMAIN n, NEW f \in DOMAIN n, n[e].page = n[f].page
      PROVE  e = f
  <2>1. CASE e = d /\ f # d
    <3>1. f \in DOMAIN m /\ n[f] = m[f] /\ m[f].page # p /\ n[d].page = p
      BY <2>1 DEF Replaced
    <3> QED  BY <1>2, <2>1, <3>1
  <2>2. CASE e # d /\ f = d
    <3>1. e \in DOMAIN m /\ n[e] = m[e] /\ m[e].page # p /\ n[d].page = p
      BY <2>2 DEF Replaced
    <3> QED  BY <1>2, <2>2, <3>1
  <2>3. CASE e # d /\ f # d
    <3>1. e \in DOMAIN m /\ n[e] = m[e] /\ f \in DOMAIN m /\ n[f] = m[f] /\ MapOK(m, L)
      BY <2>3 DEF Replaced
    <3> QED  BY <1>2, <3>1 DEF MapOK
  <2> QED  BY <2>1, <2>2, <2>3
<1>3. ASSUME NEW x \in K
      PROVE  \E e \in DOMAIN n :
               x[1] \in CutUp(n[e].page, n[e].bucket_size) /\ x[2] = n[e].bucket_size
  <2>1. CASE PageOf(x[1]) = p
    <3>1. x[1] \in UsedIn(K, p)
      BY <2>1 DEF UsedIn
    <3>2. d \in DOMAIN n /\ x[2] = n[d].bucket_size /\ DescOK(n[d], UsedIn(K, p)) /\ n[d].page = p
      BY <2>1, <3>1 DEF Replaced
    <3>3. x[1] \in CutUp(n[d].page, n[d].bucket_size)
      BY <3>1, <3>2 DEF DescOK, DescRecord
    <3> QED  BY <3>2, <3>3
  <2>2. CASE PageOf(x[1]) # p
    <3>1. x \in L /\ MapOK(m, L)
      BY <2>2 DEF Replaced
    <3>2. PICK e \in DOMAIN m : /\ m[e].page = PageOf(x[1])
                                /\ x[1] \in CutUp(m[e].page, m[e].bucket_size)
                                /\ x[2] = m[e].bucket_size
      BY <3>1, BlockHasOwner
    <3>3. e # d /\ e \in DOMAIN n /\ n[e] = m[e]
      BY <2>2, <3>2 DEF Replaced
    <3> QED  BY <3>2, <3>3
  <2> QED  BY <2>1, <2>2
<1>4. K \subseteq Nat \X Nat
  BY DEF Replaced
<1> QED  BY <1>1, <1>2, <1>3, <1>4 DEF MapOK

\* kmalloc takes a block of a page that has one.
LEMMA TakeStep ==
  ASSUME NEW m, NEW L, MapOK(m, L), NEW d \in DOMAIN m, m[d].freeptr # <<>>
  PROVE  /\ MapOK([m EXCEPT ![d] = Taken(@)],
                  L \cup {<<Head(m[d].freeptr), m[d].bucket_size>>})
         /\ Head(m[d].freeptr) \in CutUp(m[d].page, m[d].bucket_size)
         /\ Taken(m[d]).page = m[d].page /\ Taken(m[d]).bucket_size = m[d].bucket_size
<1> DEFINE e == m[d]
           a == Head(e.freeptr)
           x == <<a, e.bucket_size>>
           n == [m EXCEPT ![d] = Taken(@)]
           K == L \cup {x}
           p == e.page
<1>1. DescOK(e, UsedIn(L, p)) /\ e.freeptr # <<>>
  BY DEF MapOK
<1>2. /\ DOMAIN n = DOMAIN m /\ n[d] = Taken(e)
      /\ \A f \in DOMAIN n \ {d} : n[f] = m[f]
  OBVIOUS
<1> HIDE DEF n
<1>3. p \in Nat /\ e.bucket_size \in 1 .. PAGE_SIZE /\ e.bucket_size \in Nat
  BY <1>1 DEF DescOK, DescRecord
<1>4. /\ a \in CutUp(p, e.bucket_size) /\ DescOK(Taken(e), UsedIn(L, p) \cup {a})
      /\ Taken(e).page = p /\ Taken(e).bucket_size = e.bucket_size
  BY <1>1, TakenIsOK
<1>5. a \in Nat /\ PageOf(a) = p
  BY <1>3, <1>4, BlockInPage
<1>6. \A q : UsedIn(K, q) = IF PageOf(x[1]) = q THEN UsedIn(L, q) \cup {x[1]} ELSE UsedIn(L, q)
  BY UsedWithBlock
<1>7. x[1] = a /\ x[2] = e.bucket_size /\ x \in Nat \X Nat
  BY <1>3, <1>5
<1>8. UsedIn(K, p) = UsedIn(L, p) \cup {a} /\ \A q : q # p => UsedIn(K, q) = UsedIn(L, q)
  BY <1>5, <1>6, <1>7
<1>9. \A y \in K : PageOf(y[1]) = p => y[2] = e.bucket_size
  <2> SUFFICES ASSUME NEW y \in L, PageOf(y[1]) = p PROVE y[2] = e.bucket_size
    BY <1>7
  <2> QED  BY OwnerHasBlock
<1>10. \A f \in DOMAIN m : m[f].page = p <=> f = d
  BY DEF MapOK
<1>11. K \subseteq Nat \X Nat
  BY <1>7 DEF MapOK
<1>12. \A y \in K : PageOf(y[1]) # p => y \in L
  BY <1>5, <1>7
<1> HIDE DEF K, x, a
<1>13. n[d].page = p /\ DescOK(n[d], UsedIn(K, p)) /\ UsedIn(K, p) # {} /\ n[d].bucket_size = e.bucket_size
  BY <1>2, <1>4, <1>8
<1> HIDE DEF e, p
<1>14. Replaced(m, L, n, K, d, p)
  BY <1>2, <1>8, <1>9, <1>10, <1>11, <1>12, <1>13 DEF Replaced
<1>15. MapOK(n, K)
  BY <1>14, ReplacedIsOK
<1> QED  BY <1>4, <1>15 DEF n, K, x, a, e, p

\* kmalloc takes the first block of a new page.
LEMMA GrowStep ==
  ASSUME NEW m, NEW L, MapOK(m, L), NEW d, d \notin DOMAIN m,
         NEW p \in Nat, \A e \in DOMAIN m : m[e].page # p,
         NEW size \in 1 .. PAGE_SIZE, NEW new,
         new = [page |-> p, bucket_size |-> size, refcnt |-> 0,
                freeptr |-> BlocksOf(p, size)],
         NEW n, DOMAIN n = DOMAIN m \cup {d}, n[d] = Taken(new),
         \A e \in DOMAIN m : n[e] = m[e]
  PROVE  /\ MapOK(n, L \cup {<<Head(new.freeptr), size>>})
         /\ Head(new.freeptr) \in CutUp(p, size)
         /\ Taken(new).page = p /\ Taken(new).bucket_size = size
<1> DEFINE a == Head(new.freeptr)
           x == <<a, size>>
           K == L \cup {x}
<1>1. DescOK(new, {})
  BY NewIsOK
<1>2. new.page = p /\ new.bucket_size = size /\ new.freeptr = BlocksOf(p, size)
  OBVIOUS
<1>3. new.freeptr # <<>>
  BY <1>2, BlocksAreCut
<1>4. /\ a \in CutUp(p, size) /\ DescOK(Taken(new), {} \cup {a})
      /\ Taken(new).page = p /\ Taken(new).bucket_size = size
  BY <1>1, <1>2, <1>3, TakenIsOK
<1>5. a \in Nat /\ PageOf(a) = p
  BY <1>4, BlockInPage
<1> DEFINE new2 == Taken(new)
<1>6. /\ DOMAIN n = DOMAIN m \cup {d} /\ n[d] = new2
      /\ \A f \in DOMAIN n \ {d} : n[f] = m[f]
  OBVIOUS
<1>7. UsedIn(L, p) = {}
  <2> SUFFICES ASSUME NEW y \in L, PageOf(y[1]) = p PROVE FALSE
    BY DEF UsedIn
  <2> QED  BY BlockHasOwner
<1>8. \A q : UsedIn(K, q) = IF PageOf(x[1]) = q THEN UsedIn(L, q) \cup {x[1]} ELSE UsedIn(L, q)
  BY UsedWithBlock
<1>9. x[1] = a /\ x[2] = size /\ x \in Nat \X Nat
  BY <1>5
<1>10. UsedIn(K, p) = {a} /\ \A q : q # p => UsedIn(K, q) = UsedIn(L, q)
  BY <1>5, <1>7, <1>8, <1>9
<1>11. \A y \in K : PageOf(y[1]) = p => y[2] = size
  <2> SUFFICES ASSUME NEW y \in L, PageOf(y[1]) = p PROVE FALSE
    BY <1>9
  <2> QED  BY <1>7 DEF UsedIn
<1>12. K \subseteq Nat \X Nat
  BY <1>9 DEF MapOK
<1>13. \A y \in K : PageOf(y[1]) # p => y \in L
  BY <1>5, <1>9
<1> HIDE DEF K, x, a, new2
<1>14. n[d].page = p /\ DescOK(n[d], UsedIn(K, p)) /\ UsedIn(K, p) # {} /\ n[d].bucket_size = size
  BY <1>4, <1>6, <1>10 DEF new2
<1>15. DOMAIN n \ {d} = DOMAIN m \ {d} /\ d \in DOMAIN n
  BY <1>6
<1>16. Replaced(m, L, n, K, d, p)
  BY <1>6, <1>10, <1>11, <1>12, <1>13, <1>14, <1>15 DEF Replaced
<1>17. MapOK(n, K)
  BY <1>16, ReplacedIsOK
<1> QED  BY <1>4, <1>17 DEF K, x, a

\* kfree_s: other blocks of the page stay in use.
LEMMA ReturnStep ==
  ASSUME NEW m, NEW L, MapOK(m, L), NEW x \in L,
         NEW d \in DOMAIN m, m[d].page = PageOf(x[1]), m[d].refcnt > 1
  PROVE  /\ MapOK([m EXCEPT ![d] = Returned(@, x[1])], L \ {x})
         /\ Returned(m[d], x[1]).page = m[d].page
         /\ Returned(m[d], x[1]).bucket_size = m[d].bucket_size
<1> DEFINE e == m[d]
           a == x[1]
           f == Returned(e, a)
           n == [m EXCEPT ![d] = Returned(@, x[1])]
           K == L \ {x}
           p == e.page
<1>1. DescOK(e, UsedIn(L, p))
  BY DEF MapOK
<1>2. a \in UsedIn(L, p) /\ PageOf(a) = p
  BY OwnerHasBlock
<1>3. /\ DescOK(f, UsedIn(L, p) \ {a}) /\ f.page = p /\ f.bucket_size = e.bucket_size
      /\ e.refcnt = 1 <=> UsedIn(L, p) = {a}
  BY <1>1, <1>2, ReturnedIsOK
<1>4. e.refcnt # 1
  OBVIOUS
<1>5. /\ DOMAIN n = DOMAIN m /\ n[d] = f
      /\ \A g \in DOMAIN n \ {d} : n[g] = m[g]
  OBVIOUS
<1> HIDE DEF n, f
<1>6. UsedIn(K, p) = UsedIn(L, p) \ {a} /\ \A q : q # p => UsedIn(K, q) = UsedIn(L, q)
  <2>1. \A q : UsedIn(L \ {x}, q) = IF PageOf(x[1]) = q THEN UsedIn(L, q) \ {x[1]} ELSE UsedIn(L, q)
    BY UsedWithoutBlock
  <2> QED  BY <1>2, <2>1
<1>7. UsedIn(K, p) # {}
  BY <1>2, <1>3, <1>4, <1>6
<1>8. \A y \in K : PageOf(y[1]) = p => y[2] = e.bucket_size
  BY OwnerHasBlock
<1>9. \A g \in DOMAIN m : m[g].page = p <=> g = d
  BY DEF MapOK
<1>10. K \subseteq Nat \X Nat /\ \A y \in K : PageOf(y[1]) # p => y \in L
  BY DEF MapOK
<1> HIDE DEF K, e, a, p
<1>11. n[d].page = p /\ DescOK(n[d], UsedIn(K, p)) /\ n[d].bucket_size = e.bucket_size
  BY <1>3, <1>5, <1>6
<1>12. Replaced(m, L, n, K, d, p)
  BY <1>5, <1>6, <1>7, <1>8, <1>9, <1>10, <1>11 DEF Replaced
<1>13. MapOK(n, K)
  BY <1>12, ReplacedIsOK
<1> QED  BY <1>3, <1>13 DEF n, K, f, e, a, p

\* kfree_s: the last block of the page, its descriptor goes.
LEMMA ReleaseStep ==
  ASSUME NEW m, NEW L, MapOK(m, L), NEW x \in L,
         NEW d \in DOMAIN m, m[d].page = PageOf(x[1]), m[d].refcnt = 1
  PROVE  MapOK(Restrict(m, DOMAIN m \ {d}), L \ {x})
<1> DEFINE e == m[d]
           a == x[1]
           n == Restrict(m, DOMAIN m \ {d})
           K == L \ {x}
           p == e.page
<1>1. DescOK(e, UsedIn(L, p))
  BY DEF MapOK
<1>2. a \in UsedIn(L, p) /\ PageOf(a) = p
  BY OwnerHasBlock
<1>3. UsedIn(L, p) = {a}
  <2>1. e.refcnt = 1
    OBVIOUS
  <2> DEFINE used == UsedIn(L, p)
  <2>2. DescOK(e, used) /\ a \in used
    BY <1>1, <1>2
  <2> HIDE DEF e, a, p, used
  <2>3. e.refcnt = 1 <=> used = {a}
    BY <2>2, ReturnedIsOK
  <2> QED  BY <2>1, <2>3 DEF used
<1>4. /\ DOMAIN n = DOMAIN m \ {d}
      /\ \A g \in DOMAIN n \ {d} : n[g] = m[g]
  BY DEF Restrict
<1> HIDE DEF n
<1>5. UsedIn(K, p) = {} /\ \A q : q # p => UsedIn(K, q) = UsedIn(L, q)
  <2>1. \A q : UsedIn(L \ {x}, q) = IF PageOf(x[1]) = q THEN UsedIn(L, q) \ {x[1]} ELSE UsedIn(L, q)
    BY UsedWithoutBlock
  <2> QED  BY <1>2, <1>3, <2>1
<1>6. \A g \in DOMAIN m : m[g].page = p <=> g = d
  BY DEF MapOK
<1>7. K \subseteq Nat \X Nat /\ \A y \in K : PageOf(y[1]) # p => y \in L
  BY DEF MapOK
<1> HIDE DEF K, e, a, p
<1>8. Replaced(m, L, n, K, d, p)
  BY <1>4, <1>5, <1>6, <1>7 DEF Replaced
<1>9. MapOK(n, K)
  BY <1>8, ReplacedIsOK
<1> QED  BY <1>9 DEF n, K

-----------------------------------------------------------------------------
(***************************************************************************)
(* The chains of the buckets.                                              *)
(***************************************************************************)
\* A descriptor that is not in a chain.
LEMMA NothingToUnlink ==
  ASSUME NEW T, NEW s \in Seq(T), NEW x, x \notin Range(s)
  PROVE  Unlinked(s, x) = s
<1>1. DOMAIN s = 1 .. Len(s)
  BY SeqIs
<1>2. ~ \E i \in 1 .. Len(s) : s[i] = x
  BY <1>1 DEF Range
<1> QED  BY <1>2 DEF Unlinked, RemoveFirst

\* One that is in it once.
LEMMA UnlinkFacts ==
  ASSUME NEW T, NEW s \in Seq(T), IsInjective(s), NEW x \in Range(s)
  PROVE  /\ Unlinked(s, x) \in Seq(T) /\ IsInjective(Unlinked(s, x))
         /\ Range(Unlinked(s, x)) = Range(s) \ {x}
         /\ Len(Unlinked(s, x)) = Len(s) - 1
<1> DEFINE n == Len(s)
<1>1. n \in Nat /\ DOMAIN s = 1 .. n /\ \A i \in 1 .. n : s[i] \in T
  BY SeqIs
<1>2. PICK k \in 1 .. n : s[k] = x
  BY <1>1 DEF Range
<1>3. \A i \in 1 .. n : s[i] = x => i = k
  BY <1>1, <1>2 DEF IsInjective
<1> DEFINE I == {i \in 1 .. n : s[i] = x}
<1>4. I = {k} /\ I \subseteq Int /\ k \in I /\ \A y \in I : k <= y
  BY <1>2, <1>3
<1>5. Min(I) = k
  <2> HIDE DEF I
  <2> QED  BY <1>4, MinIs
<1>6. SelectInSeq(s, LAMBDA v : v = x) = k
  BY <1>4, <1>5 DEF SelectInSeq
<1> DEFINE t == SubSeq(s, 1, k - 1) \o SubSeq(s, k + 1, n)
<1>7. Unlinked(s, x) = t
  BY <1>2, <1>6 DEF Unlinked, RemoveFirst, RemoveAt
<1>8. /\ t \in Seq(T) /\ Len(t) = n - 1 /\ DOMAIN t = 1 .. n - 1
      /\ \A i \in 1 .. n - 1 : t[i] = IF i < k THEN s[i] ELSE s[i + 1]
  <2> DEFINE u == SubSeq(s, 1, k - 1)
             v == SubSeq(s, k + 1, n)
  <2>1. /\ u \in Seq(T) /\ Len(u) = k - 1
        /\ \A i \in 1 .. k - 1 : u[i] = s[i]
    <3>1. k - 1 \in Int /\ \A i \in 1 .. k - 1 : s[i] \in T
      BY <1>1, <1>2
    <3>2. /\ u \in Seq(T) /\ Len(u) = IF 1 <= k - 1 THEN (k - 1) - 1 + 1 ELSE 0
          /\ \A i \in 1 .. (k - 1) - 1 + 1 : u[i] = s[1 + i - 1]
      BY <3>1, SubSeqProperties
    <3> HIDE DEF u
    <3> QED  BY <1>1, <1>2, <3>2
  <2>2. /\ v \in Seq(T) /\ Len(v) = n - k
        /\ \A i \in 1 .. n - k : v[i] = s[k + i]
    <3>1. k + 1 \in Int /\ n \in Int /\ \A i \in k + 1 .. n : s[i] \in T
      BY <1>1, <1>2
    <3>2. /\ v \in Seq(T) /\ Len(v) = IF k + 1 <= n THEN n - (k + 1) + 1 ELSE 0
          /\ \A i \in 1 .. n - (k + 1) + 1 : v[i] = s[(k + 1) + i - 1]
      BY <3>1, SubSeqProperties
    <3> HIDE DEF v
    <3>3. ASSUME NEW i \in 1 .. n - k PROVE v[i] = s[k + i]
      <4>1. i \in 1 .. n - (k + 1) + 1 /\ (k + 1) + i - 1 = k + i
        BY <1>1, <1>2
      <4>2. v[i] = s[(k + 1) + i - 1]
        BY <3>2, <4>1
      <4> QED  BY <4>1, <4>2
    <3>4. Len(v) = n - k
      <4>1. Len(v) = IF k + 1 <= n THEN n - (k + 1) + 1 ELSE 0
        BY <3>2
      <4> HIDE DEF n
      <4> QED  BY <1>1, <1>2, <4>1
    <3> QED  BY <3>2, <3>3, <3>4
  <2> HIDE DEF u, v
  <2>3. /\ u \o v \in Seq(T) /\ Len(u \o v) = n - 1
        /\ \A i \in 1 .. n - 1 : (u \o v)[i] = IF i < k THEN u[i] ELSE v[i - (k - 1)]
    <3>1. /\ u \o v \in Seq(T) /\ Len(u \o v) = Len(u) + Len(v)
          /\ \A i \in 1 .. Len(u) + Len(v) : (u \o v)[i] =
               IF i <= Len(u) THEN u[i] ELSE v[i - Len(u)]
      BY <2>1, <2>2, ConcatProperties
    <3> DEFINE w == u \o v
    <3> HIDE DEF w
    <3>2. /\ w \in Seq(T) /\ Len(w) = n - 1
          /\ \A i \in 1 .. n - 1 : w[i] = IF i <= k - 1 THEN u[i] ELSE v[i - (k - 1)]
      BY <1>1, <1>2, <2>1, <2>2, <3>1 DEF w
    <3>3. \A i \in 1 .. n - 1 : i <= k - 1 <=> i < k
      BY <1>1, <1>2
    <3> QED  BY <3>2, <3>3 DEF w
  <2>4. ASSUME NEW i \in 1 .. n - 1
        PROVE  (u \o v)[i] = IF i < k THEN s[i] ELSE s[i + 1]
    <3>1. CASE i < k
      BY <1>1, <1>2, <2>1, <2>3, <3>1
    <3>2. CASE ~(i < k)
      <4>1. i - (k - 1) \in 1 .. n - k /\ k + (i - (k - 1)) = i + 1
        BY <1>1, <1>2, <3>2
      <4>2. v[i - (k - 1)] = s[i + 1]
        BY <2>2, <4>1
      <4> QED  BY <2>3, <3>2, <4>2
    <3> QED  BY <3>1, <3>2
  <2>5. DOMAIN (u \o v) = 1 .. n - 1
    BY <2>3, SeqIs
  <2> QED  BY <2>3, <2>4, <2>5 DEF u, v
<1> HIDE DEF t, n, I
<1> DEFINE at(i) == IF i < k THEN i ELSE i + 1
<1>9. ASSUME NEW i \in 1 .. n - 1
      PROVE  at(i) \in 1 .. n /\ at(i) # k /\ t[i] = s[at(i)]
  BY <1>1, <1>2, <1>8
<1>10. IsInjective(t)
  <2> SUFFICES ASSUME NEW i \in 1 .. n - 1, NEW j \in 1 .. n - 1, t[i] = t[j] PROVE i = j
    BY <1>8 DEF IsInjective
  <2>1. at(i) = at(j)
    <3> HIDE DEF at
    <3> QED  BY <1>1, <1>9 DEF IsInjective
  <2> QED  BY <1>1, <1>2, <2>1
<1>11. Range(t) \subseteq Range(s) \ {x}
  <2> SUFFICES ASSUME NEW i \in 1 .. n - 1 PROVE t[i] \in Range(s) /\ t[i] # x
    BY <1>8 DEF Range
  <2> HIDE DEF at
  <2> QED  BY <1>1, <1>3, <1>9 DEF Range
<1>12. Range(s) \ {x} \subseteq Range(t)
  <2> SUFFICES ASSUME NEW i \in 1 .. n, s[i] # x PROVE s[i] \in Range(t)
    BY <1>1 DEF Range
  <2>1. PICK j \in 1 .. n - 1 : i = at(j)
    <3>1. i # k
      BY <1>2
    <3>2. CASE i < k
      <4>1. i \in 1 .. n - 1 /\ i = at(i)
        BY <1>1, <1>2, <3>2
      <4> QED  BY <4>1
    <3>3. CASE i > k
      <4>1. i - 1 \in 1 .. n - 1 /\ i = at(i - 1)
        BY <1>1, <1>2, <3>3
      <4> QED  BY <4>1
    <3> QED  BY <1>1, <1>2, <3>1, <3>2, <3>3
  <2>2. t[j] = s[i]
    BY <1>9, <2>1
  <2> QED  BY <1>8, <2>2 DEF Range
<1> QED  BY <1>7, <1>8, <1>10, <1>11, <1>12 DEF n

\* Blocks are taken and given back, the descriptors stay.
LEMMA ChainsKept ==
  ASSUME NEW c, NEW m, NEW n, ChainsOK(c, m), DOMAIN n = DOMAIN m,
         \A d \in DOMAIN m : n[d].bucket_size = m[d].bucket_size
  PROVE  ChainsOK(c, n)
<1>1. \A b \in Buckets : \A d \in Range(c[b]) : d \in DOMAIN m /\ m[d].bucket_size = bucket_dir[b]
  BY DEF ChainsOK
<1> QED  BY <1>1 DEF ChainsOK

\* A descriptor is put on the chain of its bucket.
LEMMA PushStep ==
  ASSUME NEW c, NEW m, NEW n, ChainsOK(c, m), NEW b \in Buckets,
         NEW d \in DescIds, d \notin DOMAIN m,
         DOMAIN n = DOMAIN m \cup {d}, n[d].bucket_size = bucket_dir[b],
         \A e \in DOMAIN m : n[e].bucket_size = m[e].bucket_size
  PROVE  /\ ChainsOK([c EXCEPT ![b] = <<d>> \o @], n)
         /\ \A a \in Buckets \ {b} : [c EXCEPT ![b] = <<d>> \o @][a] = c[a]
<1> DEFINE k == [c EXCEPT ![b] = <<d>> \o @]
<1>1. /\ c \in [Buckets -> Seq(DescIds)] /\ \A a \in Buckets : IsInjective(c[a])
      /\ \A a \in Buckets : d \notin Range(c[a])
  BY DEF ChainsOK
<1>2. /\ <<d>> \o c[b] \in Seq(DescIds) /\ IsInjective(<<d>> \o c[b])
      /\ Range(<<d>> \o c[b]) = Range(c[b]) \cup {d}
  BY <1>1, PushFacts
<1> DEFINE s == <<d>> \o c[b]
<1> HIDE DEF s
<1>3. s \in Seq(DescIds) /\ IsInjective(s) /\ Range(s) = Range(c[b]) \cup {d}
  BY <1>2 DEF s
<1>4. k = [c EXCEPT ![b] = s]
  BY DEF s
<1>5. /\ k \in [Buckets -> Seq(DescIds)] /\ k[b] = s
      /\ \A a \in Buckets \ {b} : k[a] = c[a]
  BY <1>1, <1>3, <1>4
<1> HIDE DEF k
<1>6. /\ Range(k[b]) = Range(c[b]) \cup {d}
      /\ \A a \in Buckets \ {b} : Range(k[a]) = Range(c[a])
  BY <1>3, <1>5
<1>7. \A a \in Buckets : IsInjective(k[a])
  BY <1>1, <1>3, <1>5
<1>8. \A a, e \in Buckets : a # e => Range(k[a]) \cap Range(k[e]) = {}
  <2>1. \A a, e \in Buckets : a # e => Range(c[a]) \cap Range(c[e]) = {}
    BY DEF ChainsOK
  <2>2. \A a \in Buckets \ {b} : Range(k[b]) \cap Range(k[a]) = {}
    <3>1. \A a \in Buckets \ {b} : Range(c[b]) \cap Range(c[a]) = {} /\ d \notin Range(c[a])
      BY <1>1, <2>1
    <3> QED  BY <1>6, <3>1
  <2>3. \A a, e \in Buckets \ {b} : a # e => Range(k[a]) \cap Range(k[e]) = {}
    BY <1>6, <2>1
  <2> QED  BY <2>2, <2>3
<1>9. DOMAIN n = UNION {Range(k[a]) : a \in Buckets}
  <2>1. DOMAIN m = UNION {Range(c[a]) : a \in Buckets}
    BY DEF ChainsOK
  <2>2. \A x : (\E a \in Buckets : x \in Range(k[a])) <=> x = d \/ \E a \in Buckets : x \in Range(c[a])
    BY <1>6
  <2> QED  BY <2>1, <2>2
<1>10. \A a \in Buckets : \A e \in Range(k[a]) : n[e].bucket_size = bucket_dir[a]
  <2>1. ASSUME NEW a \in Buckets, NEW e \in Range(c[a]) PROVE n[e].bucket_size = bucket_dir[a]
    <3>1. e \in DOMAIN m /\ m[e].bucket_size = bucket_dir[a]
      BY DEF ChainsOK
    <3> QED  BY <3>1
  <2> QED  BY <1>6, <2>1
<1>11. ChainsOK(k, n)
  BY <1>5, <1>7, <1>8, <1>9, <1>10 DEF ChainsOK
<1> QED  BY <1>5, <1>11 DEF k

\* A descriptor is taken off.
LEMMA UnlinkStep ==
  ASSUME NEW c, NEW m, ChainsOK(c, m), NEW d \in DOMAIN m
  PROVE  /\ ChainsOK([b \in Buckets |-> Unlinked(c[b], d)], Restrict(m, DOMAIN m \ {d}))
         /\ \A b \in Buckets : Len(Unlinked(c[b], d)) <= Len(c[b])
<1> DEFINE k == [b \in Buckets |-> Unlinked(c[b], d)]
           n == Restrict(m, DOMAIN m \ {d})
<1>1. c \in [Buckets -> Seq(DescIds)] /\ \A a \in Buckets : IsInjective(c[a])
  BY DEF ChainsOK
<1>2. ASSUME NEW a \in Buckets
      PROVE  /\ k[a] \in Seq(DescIds) /\ IsInjective(k[a])
             /\ Range(k[a]) = Range(c[a]) \ {d}
             /\ Len(Unlinked(c[a], d)) <= Len(c[a])
  <2>1. k[a] = Unlinked(c[a], d) /\ c[a] \in Seq(DescIds) /\ IsInjective(c[a]) /\ Len(c[a]) \in Nat
    BY <1>1
  <2>2. CASE d \in Range(c[a])
    BY <2>1, <2>2, UnlinkFacts
  <2>3. CASE d \notin Range(c[a])
    <3>1. k[a] = c[a]
      BY <2>1, <2>3, NothingToUnlink
    <3> QED  BY <2>1, <2>3, <3>1
  <2> QED  BY <2>2, <2>3
<1>3. k = [b \in Buckets |-> k[b]]
  OBVIOUS
<1> HIDE DEF k
<1>4. k \in [Buckets -> Seq(DescIds)] /\ \A a \in Buckets : IsInjective(k[a])
  BY <1>2, <1>3
<1>5. \A a, e \in Buckets : a # e => Range(k[a]) \cap Range(k[e]) = {}
  <2>1. \A a, e \in Buckets : a # e => Range(c[a]) \cap Range(c[e]) = {}
    BY DEF ChainsOK
  <2> QED  BY <1>2, <2>1
<1>6. DOMAIN n = DOMAIN m \ {d} /\ \A e \in DOMAIN n : n[e] = m[e]
  BY DEF Restrict
<1> HIDE DEF n
<1>7. DOMAIN n = UNION {Range(k[a]) : a \in Buckets}
  <2>1. DOMAIN m = UNION {Range(c[a]) : a \in Buckets}
    BY DEF ChainsOK
  <2>2. \A x : (\E a \in Buckets : x \in Range(k[a])) <=> x # d /\ \E a \in Buckets : x \in Range(c[a])
    BY <1>2
  <2> QED  BY <1>6, <2>1, <2>2
<1>8. \A a \in Buckets : \A e \in Range(k[a]) : n[e].bucket_size = bucket_dir[a]
  <2> SUFFICES ASSUME NEW a \in Buckets, NEW e \in Range(k[a]) PROVE n[e].bucket_size = bucket_dir[a]
    OBVIOUS
  <2>1. e \in Range(c[a]) /\ e # d
    BY <1>2
  <2>2. m[e].bucket_size = bucket_dir[a] /\ e \in DOMAIN m
    BY <2>1 DEF ChainsOK
  <2> QED  BY <1>6, <2>1, <2>2
<1>9. ChainsOK(k, n)
  BY <1>4, <1>5, <1>7, <1>8 DEF ChainsOK
<1> QED  BY <1>2, <1>9 DEF k, n

-----------------------------------------------------------------------------
(***************************************************************************)
(* What the invariant says at the beginning of a call.                     *)
(***************************************************************************)
LEMMA MinIn ==
  ASSUME NEW S, S \subseteq Nat, S # {}
  PROVE  Min(S) \in S
<1>1. PICK x \in S : \A y \in S : x <= y
  BY LeastNat
<1>2. S \subseteq Int
  OBVIOUS
<1>3. Min(S) = x
  BY <1>1, <1>2, MinIs
<1> QED  BY <1>1, <1>3

\* The bucket for a length.
LEMMA BucketFacts ==
  /\ Buckets \subseteq Nat
  /\ \A b \in Buckets : bucket_dir[b] \in 1 .. PAGE_SIZE
  /\ \A len : Fitting(len) # {} => Min(Fitting(len)) \in Fitting(len)
  /\ \A len : Fitting(len) \subseteq Buckets
<1>1. /\ DOMAIN bucket_dir = 1 .. Len(bucket_dir) /\ Len(bucket_dir) \in Nat
      /\ \A b \in 1 .. Len(bucket_dir) : bucket_dir[b] \in 1 .. PAGE_SIZE
  BY HeapAssumption, SeqIs
<1>2. Buckets \subseteq Nat
  BY <1>1 DEF Buckets
<1>3. \A b \in Buckets : bucket_dir[b] \in 1 .. PAGE_SIZE
  BY <1>1 DEF Buckets
<1>4. ASSUME NEW len PROVE Fitting(len) \subseteq Buckets
  BY DEF Fitting
<1>5. ASSUME NEW len, Fitting(len) # {} PROVE Min(Fitting(len)) \in Fitting(len)
  BY <1>2, <1>4, <1>5, MinIn
<1> QED  BY <1>2, <1>3, <1>4, <1>5

\* The descriptor that kmalloc finds.
LEMMA FoundWithFree ==
  ASSUME HeapInv, NEW b \in Buckets, WithFree(b) # {}
  PROVE  LET d == chain[b][Min(WithFree(b))]
         IN  d \in DOMAIN desc /\ desc[d].freeptr # <<>> /\ desc[d].bucket_size = bucket_dir[b]
<1> DEFINE k == Min(WithFree(b))
<1>1. chain[b] \in Seq(DescIds)
  BY DEF HeapInv, ChainsOK
<1>2. WithFree(b) \subseteq Nat
  BY <1>1 DEF WithFree
<1>3. k \in WithFree(b)
  BY <1>2, MinIn
<1>4. k \in DOMAIN chain[b] /\ desc[chain[b][k]].freeptr # <<>>
  BY <1>3 DEF WithFree
<1>5. chain[b][k] \in Range(chain[b])
  BY <1>4 DEF Range
<1>6. chain[b][k] \in DOMAIN desc /\ desc[chain[b][k]].bucket_size = bucket_dir[b]
  BY <1>5 DEF HeapInv, ChainsOK
<1> QED  BY <1>4, <1>6

\* The descriptor that kfree_s finds.
LEMMA FoundOwner ==
  ASSUME HeapInv, NEW addr, NEW size, NEW d \in Owners(addr, size)
  PROVE  d \in DOMAIN desc /\ desc[d].page = PageOf(addr)
<1>1. PICK b \in Fitting(size) : d \in Range(chain[b])
  BY DEF Owners
<1>2. b \in Buckets
  BY <1>1, BucketFacts
<1> QED  BY <1>1, <1>2 DEF Owners, HeapInv, ChainsOK

\* The pages.
LEMMA PageFacts ==
  ASSUME OwnersInv
  PROVE  N \in Nat /\ Pages \subseteq Nat /\ bits \subseteq Pages
<1>1. length \in Nat /\ bits \subseteq Pages
  BY DEF OwnersInv
<1>2. N \in Nat
  BY <1>1, BitsAreNat, PageAssumption DEF N
<1> QED  BY <1>1, <1>2 DEF Pages

\* Only the contents of descriptors have changed.
LEMMA OwnersKept ==
  ASSUME OwnersInv, UNCHANGED <<pageVars, descPages>>, DOMAIN desc' = DOMAIN desc,
         \A d \in DOMAIN desc : desc'[d].page = desc[d].page
  PROVE  OwnersInv'
<1>1. BlockPages' = BlockPages
  BY DEF BlockPages
<1>2. Returning' = Returning /\ Sane' = Sane /\ Pages' = Pages
  BY DEF pageVars, Returning, Sane, Pages
<1> QED  BY <1>1, <1>2 DEF OwnersInv, pageVars

LEMMA FreeKept ==
  ASSUME FreeInv, UNCHANGED <<pageVars, descPages, free_bucket_desc, bdesc>>,
         DOMAIN desc' = DOMAIN desc
  PROVE  FreeInv'
<1>1. Waiting' = Waiting /\ Sane' = Sane /\ DescPlaces' = DescPlaces
  BY DEF pageVars, Waiting, Sane, DescPlaces
<1> QED  BY <1>1 DEF FreeInv

-----------------------------------------------------------------------------
(***************************************************************************)
(* The calls keep the invariant.                                           *)
(***************************************************************************)
LEMMA kmallocKeeps ==
  ASSUME HeapInv, NEW len, kmalloc(len)
  PROVE  HeapInv'
<1> DEFINE b == Min(Fitting(len))
           d == chain[b][Min(WithFree(b))]
<1>1. b \in Buckets
  BY BucketFacts DEF kmalloc
<1>2. /\ WithFree(b) # {}
      /\ desc' = [desc EXCEPT ![d] = Taken(@)]
      /\ live' = live \cup {<<Head(desc[d].freeptr), bucket_dir[b]>>}
      /\ UNCHANGED <<pageVars, chain, free_bucket_desc, bdesc, descPages>>
  BY DEF kmalloc
<1>3. d \in DOMAIN desc /\ desc[d].freeptr # <<>> /\ desc[d].bucket_size = bucket_dir[b]
  BY <1>1, <1>2, FoundWithFree
<1> HIDE DEF d
<1>4. MapOK(desc, live) /\ ChainsOK(chain, desc) /\ OwnersInv /\ FreeInv
  BY DEF HeapInv
<1>5. /\ MapOK(desc', live')
      /\ Taken(desc[d]).page = desc[d].page
      /\ Taken(desc[d]).bucket_size = desc[d].bucket_size
  BY <1>2, <1>3, <1>4, TakeStep
<1>6. /\ DOMAIN desc' = DOMAIN desc
      /\ \A e \in DOMAIN desc : /\ desc'[e].page = desc[e].page
                                /\ desc'[e].bucket_size = desc[e].bucket_size
  BY <1>2, <1>5
<1>7. ChainsOK(chain', desc')
  BY <1>2, <1>4, <1>6, ChainsKept
<1>8. OwnersInv'
  BY <1>2, <1>4, <1>6, OwnersKept
<1>9. FreeInv'
  BY <1>2, <1>4, <1>6, FreeKept
<1> QED  BY <1>5, <1>7, <1>8, <1>9 DEF HeapInv

LEMMA kfree_sKeeps ==
  ASSUME HeapInv, NEW block \in live, NEW size, kfree_s(block, size)
  PROVE  HeapInv'
<1> DEFINE d == CHOOSE x \in Owners(block[1], size) : TRUE
<1>1. d \in Owners(block[1], size)
  BY DEF kfree_s, Found
<1>2. /\ desc[d].refcnt > 1
      /\ desc' = [desc EXCEPT ![d] = Returned(@, block[1])]
      /\ live' = live \ {block}
      /\ UNCHANGED <<pageVars, chain, free_bucket_desc, bdesc, descPages>>
  BY DEF kfree_s
<1> HIDE DEF d
<1>3. d \in DOMAIN desc /\ desc[d].page = PageOf(block[1])
  BY <1>1, FoundOwner
<1>4. MapOK(desc, live) /\ ChainsOK(chain, desc) /\ OwnersInv /\ FreeInv
  BY DEF HeapInv
<1>5. /\ MapOK(desc', live')
      /\ Returned(desc[d], block[1]).page = desc[d].page
      /\ Returned(desc[d], block[1]).bucket_size = desc[d].bucket_size
  BY <1>2, <1>3, <1>4, ReturnStep
<1>6. /\ DOMAIN desc' = DOMAIN desc
      /\ \A e \in DOMAIN desc : /\ desc'[e].page = desc[e].page
                                /\ desc'[e].bucket_size = desc[e].bucket_size
  BY <1>2, <1>5
<1>7. ChainsOK(chain', desc')
  BY <1>2, <1>4, <1>6, ChainsKept
<1>8. OwnersInv'
  BY <1>2, <1>4, <1>6, OwnersKept
<1>9. FreeInv'
  BY <1>2, <1>4, <1>6, FreeKept
<1> QED  BY <1>5, <1>7, <1>8, <1>9 DEF HeapInv

\* The free descriptors, when init_bucket_desc has made some.
LEMMA DescsFacts ==
  ASSUME HeapInv, Sane, ~DescFails
  PROVE  /\ Descs \in Seq(DescIds) /\ Descs # <<>> /\ IsInjective(Descs)
         /\ Range(Descs) \cap (DOMAIN desc \cup Waiting) = {}
         /\ init_bucket_desc \subseteq Pages \ bits
         /\ (descPages \cup init_bucket_desc) \X (1 .. DESCS)
              = Range(Descs) \cup DOMAIN desc \cup Waiting
<1>0. /\ OwnersInv /\ FreeInv /\ N \in Nat /\ Pages \subseteq Nat
      /\ DESCS \in Nat \ {0}
  BY PageFacts, HeapAssumption DEF HeapInv
<1>1. /\ free_bucket_desc \in Seq(DescIds) /\ IsInjective(free_bucket_desc)
      /\ Range(free_bucket_desc) \cap (DOMAIN desc \cup Waiting) = {}
      /\ descPages \X (1 .. DESCS) = Range(free_bucket_desc) \cup DOMAIN desc \cup Waiting
  BY <1>0 DEF FreeInv, DescPlaces
<1>2. CASE ~NoFreeDesc
  <2>1. Descs = free_bucket_desc /\ init_bucket_desc = {} /\ Descs # <<>>
    BY <1>2 DEF Descs, init_bucket_desc, NoFreeDesc
  <2> QED  BY <1>1, <2>1
<1>3. CASE NoFreeDesc
  <2> DEFINE p == NextPage(bits)
             s == [k \in 1 .. DESCS |-> <<p, k>>]
  <2>1. Descs = s /\ init_bucket_desc = {p} /\ free_bucket_desc = <<>>
    BY <1>3 DEF Descs, init_bucket_desc, NoFreeDesc
  <2>2. p \in Pages \ bits /\ p \in Nat
    BY <1>0, <1>3, NextPageIsFree DEF DescFails
  <2> HIDE DEF p
  <2>3. Range(free_bucket_desc) = {}
    BY <1>1, <2>1, NotEmpty
  <2>4. p \notin descPages
    BY <1>0, <2>2 DEF OwnersInv
  <2>5. DOMAIN s = 1 .. DESCS /\ \A k \in 1 .. DESCS : s[k] = <<p, k>> /\ s[k] \in DescIds
    BY <2>2 DEF DescIds
  <2>6. Range(s) = {p} \X (1 .. DESCS)
    BY <2>5 DEF Range
  <2>7. IsInjective(s)
    BY <2>5 DEF IsInjective
  <2>8. s \in Seq(DescIds)
    <3>1. s \in [1 .. DESCS -> DescIds]
      BY <2>5
    <3> QED  BY <1>0, <3>1, SeqDef
  <2>9. s # <<>>
    <3>1. 1 \in DOMAIN s
      BY <1>0, <2>5
    <3> HIDE DEF s
    <3> QED  BY <3>1
  <2> HIDE DEF s
  <2>10. DOMAIN desc \cup Waiting = descPages \X (1 .. DESCS)
    BY <1>1, <2>3
  <2>11. Range(s) \cap (DOMAIN desc \cup Waiting) = {}
    BY <2>4, <2>6, <2>10
  <2>12. (descPages \cup {p}) \X (1 .. DESCS) = (descPages \X (1 .. DESCS)) \cup ({p} \X (1 .. DESCS))
    OBVIOUS
  <2>13. (descPages \cup {p}) \X (1 .. DESCS) = Range(s) \cup DOMAIN desc \cup Waiting
    BY <2>6, <2>10, <2>12
  <2> QED  BY <2>1, <2>2, <2>7, <2>8, <2>9, <2>11, <2>13
<1> QED  BY <1>2, <1>3

\* The page for the blocks.
LEMMA BlockPageFacts ==
  ASSUME HeapInv, ~DescFails, ~PageFails
  PROVE  BlockPage \in Pages \ (bits \cup init_bucket_desc) /\ BlockPage \in Nat
<1>1. N \in Nat /\ Pages \subseteq Nat
  BY PageFacts DEF HeapInv
<1> DEFINE map == bits \cup init_bucket_desc
<1>2. BlockPage = NextPage(map) /\ BlockPage # -1
  BY DEF BlockPage, PageFails
<1> HIDE DEF map
<1>3. NextPage(map) \in Pages \ map
  BY <1>1, <1>2, NextPageIsFree
<1> QED  BY <1>1, <1>2, <1>3 DEF map

LEMMA kmalloc_pageKeeps ==
  ASSUME HeapInv, NEW len, kmalloc_page(len)
  PROVE  HeapInv'
<1> DEFINE b == Min(Fitting(len))
           d == Head(Descs)
           size == bucket_dir[b]
           p == BlockPage
           new == [page |-> p, bucket_size |-> size, refcnt |-> 0,
                   freeptr |-> BlocksOf(p, size)]
<1>0. MapOK(desc, live) /\ ChainsOK(chain, desc) /\ OwnersInv /\ FreeInv /\ Sane /\ pc = "idle"
  BY DEF HeapInv, Sane, kmalloc_page
<1>1. /\ free_bucket_desc' = Tail(Descs)
      /\ descPages' = descPages \cup init_bucket_desc
      /\ desc' = [x \in DOMAIN desc \cup {d} |-> IF x = d THEN Taken(new) ELSE desc[x]]
      /\ chain' = [chain EXCEPT ![b] = <<d>> \o @]
      /\ live' = live \cup {<<Head(new.freeptr), size>>}
      /\ bits' = bits \cup init_bucket_desc \cup {p}
      /\ UNCHANGED <<ards, length, lost, held, arg, intr, pc, bdesc>>
      /\ ~DescFails /\ ~PageFails
  BY DEF kmalloc_page, TakeDesc
<1>2. b \in Buckets /\ size \in 1 .. PAGE_SIZE
  BY BucketFacts DEF kmalloc_page
<1>3. /\ Descs \in Seq(DescIds) /\ Descs # <<>> /\ IsInjective(Descs)
      /\ Range(Descs) \cap (DOMAIN desc \cup Waiting) = {}
      /\ init_bucket_desc \subseteq Pages \ bits
      /\ (descPages \cup init_bucket_desc) \X (1 .. DESCS)
           = Range(Descs) \cup DOMAIN desc \cup Waiting
  BY <1>0, <1>1, DescsFacts
<1>4. p \in Pages \ (bits \cup init_bucket_desc) /\ p \in Nat
  BY <1>1, BlockPageFacts
<1>5. /\ d \in DescIds /\ d \in Range(Descs)
      /\ Tail(Descs) \in Seq(DescIds) /\ IsInjective(Tail(Descs))
      /\ Range(Tail(Descs)) = Range(Descs) \ {d}
  BY <1>3, TailFacts
<1>6. d \notin DOMAIN desc /\ \A e \in DOMAIN desc : desc[e].page # p
  <2>1. BlockPages \subseteq bits
    BY <1>0 DEF OwnersInv
  <2> QED  BY <1>3, <1>4, <1>5, <2>1 DEF BlockPages
<1> HIDE DEF d, p, size, b
<1>7. /\ MapOK(desc', live')
      /\ Taken(new).page = p /\ Taken(new).bucket_size = size
  <2>1. new = [page |-> p, bucket_size |-> size, refcnt |-> 0,
               freeptr |-> BlocksOf(p, size)]
    OBVIOUS
  <2> HIDE DEF new
  <2>2. /\ DOMAIN desc' = DOMAIN desc \cup {d} /\ desc'[d] = Taken(new)
        /\ \A e \in DOMAIN desc : desc'[e] = desc[e]
    BY <1>1, <1>6
  <2>3. MapOK(desc, live) /\ d \notin DOMAIN desc /\ p \in Nat /\ size \in 1 .. PAGE_SIZE
    BY <1>0, <1>2, <1>4, <1>6
  <2>4. \A e \in DOMAIN desc : desc[e].page # p
    BY <1>6
  <2>5. /\ MapOK(desc', live \cup {<<Head(new.freeptr), size>>})
        /\ Taken(new).page = p /\ Taken(new).bucket_size = size
    BY <2>1, <2>2, <2>3, <2>4, GrowStep
  <2> QED  BY <1>1, <2>5
<1> HIDE DEF new
<1>8. /\ DOMAIN desc' = DOMAIN desc \cup {d}
      /\ desc'[d].page = p /\ desc'[d].bucket_size = size
      /\ \A e \in DOMAIN desc : desc'[e] = desc[e]
  BY <1>1, <1>6, <1>7
<1>9. ChainsOK(chain', desc')
  <2>1. \A e \in DOMAIN desc : desc'[e].bucket_size = desc[e].bucket_size
    BY <1>8
  <2>2. /\ ChainsOK(chain, desc) /\ b \in Buckets /\ d \in DescIds /\ d \notin DOMAIN desc
        /\ DOMAIN desc' = DOMAIN desc \cup {d} /\ desc'[d].bucket_size = bucket_dir[b]
    BY <1>0, <1>2, <1>5, <1>6, <1>8 DEF size
  <2>3. ChainsOK([chain EXCEPT ![b] = <<d>> \o @], desc')
    BY <2>1, <2>2, PushStep
  <2> QED  BY <1>1, <2>3
<1>10. BlockPages' = BlockPages \cup {p}
  BY <1>8 DEF BlockPages
<1>11. OwnersInv'
  <2>1. Returning = {} /\ Returning' = {} /\ Pages' = Pages /\ Sane' /\ pc' = "idle"
    BY <1>0, <1>1 DEF Returning, Sane, Pages
  <2>2. /\ bits \subseteq Pages /\ ards \in ArdsTables /\ length \in Nat
        /\ lost \cup held \cup descPages \cup BlockPages \subseteq bits
        /\ lost \cap held = {} /\ descPages \cap (lost \cup held) = {}
        /\ BlockPages \cap (lost \cup held \cup descPages) = {}
        /\ bits = lost \cup held \cup descPages \cup BlockPages
    BY <1>0, <2>1 DEF OwnersInv
  <2> DEFINE i == init_bucket_desc
  <2>3. i \subseteq Pages \ bits
    BY <1>3
  <2>4. descPages' = descPages \cup i /\ bits' = bits \cup i \cup {p}
    BY <1>1
  <2> HIDE DEF i
  <2>5. p \in Pages \ (bits \cup i)
    BY <1>4 DEF i
  <2>6. /\ bits' \subseteq Pages
        /\ lost \cup held \cup descPages' \cup BlockPages' \subseteq bits'
        /\ descPages' \cap (lost \cup held) = {}
        /\ BlockPages' \cap (lost \cup held \cup descPages') = {}
        /\ bits' = lost \cup held \cup descPages' \cup BlockPages'
    BY <1>10, <2>2, <2>3, <2>4, <2>5
  <2> QED  BY <1>1, <2>1, <2>2, <2>6 DEF OwnersInv
<1>12. FreeInv'
  <2>1. Waiting = {} /\ Waiting' = {}
    BY <1>0, <1>1 DEF Waiting
  <2>2. DescPlaces' = Range(Descs) \cup DOMAIN desc
    BY <1>1, <1>3, <2>1 DEF DescPlaces
  <2>3. Range(free_bucket_desc') \cap (DOMAIN desc' \cup Waiting') = {}
    BY <1>1, <1>3, <1>5, <1>8, <2>1
  <2>4. DescPlaces' = Range(free_bucket_desc') \cup DOMAIN desc' \cup Waiting'
    BY <1>1, <1>5, <1>8, <2>1, <2>2
  <2> QED  BY <1>1, <1>5, <2>1, <2>3, <2>4 DEF FreeInv
<1> QED  BY <1>7, <1>9, <1>11, <1>12 DEF HeapInv

\* Where the call does not return the blocks stay as they are.
LEMMA FailKeeps ==
  ASSUME HeapInv, pc # "boot", ~Sane', Returning' = {},
         UNCHANGED <<ards, length, lost, held, chain, desc, live>>,
         NEW i, i \subseteq Pages \ bits, descPages' = descPages \cup i,
         bits \cup i \subseteq bits', bits' \subseteq Pages
  PROVE  HeapInv'
<1>0. MapOK(desc, live) /\ ChainsOK(chain, desc) /\ OwnersInv
  BY DEF HeapInv
<1>1. MapOK(desc', live') /\ ChainsOK(chain', desc')
  BY <1>0
<1>2. FreeInv'
  BY DEF FreeInv
<1>3. /\ BlockPages' = BlockPages /\ Pages' = Pages /\ pc' # "boot"
      /\ lost' = lost /\ held' = held /\ ards' = ards /\ length' = length
  BY DEF BlockPages, Pages, Sane
<1>4. /\ bits \subseteq Pages /\ ards \in ArdsTables /\ length \in Nat
      /\ lost \cup held \cup descPages \cup BlockPages \subseteq bits
      /\ lost \cap held = {} /\ descPages \cap (lost \cup held) = {}
      /\ BlockPages \cap (lost \cup held \cup descPages) = {}
  BY <1>0 DEF OwnersInv
<1>5. /\ lost \cup held \cup descPages' \cup BlockPages \subseteq bits'
      /\ descPages' \cap (lost \cup held) = {}
      /\ BlockPages \cap (lost \cup held \cup descPages') = {}
  BY <1>4
<1>6. OwnersInv'
  BY <1>3, <1>4, <1>5 DEF OwnersInv
<1> QED  BY <1>1, <1>2, <1>6 DEF HeapInv

LEMMA OutOfMemoryKeeps ==
  ASSUME HeapInv, Sane, pc # "boot", OutOfMemory,
         UNCHANGED <<ards, length, lost, held, chain, desc, live>>
  PROVE  HeapInv'
<1>1. ~Sane' /\ Returning' = {}
  BY DEF OutOfMemory, Sane, Returning
<1>2. bits \subseteq Pages
  BY DEF HeapInv, OwnersInv
<1>3. CASE DescFails /\ UNCHANGED <<bits, free_bucket_desc, descPages>>
  <2>1. /\ {} \subseteq Pages \ bits /\ descPages' = descPages \cup {}
        /\ bits \cup {} \subseteq bits' /\ bits' \subseteq Pages
    BY <1>2, <1>3
  <2> QED  BY <1>1, <2>1, FailKeeps
<1>4. CASE PageFails /\ TakeDesc /\ bits' = bits \cup init_bucket_desc
  <2> DEFINE i == init_bucket_desc
  <2>1. i \subseteq Pages \ bits
    BY <1>4, DescsFacts DEF PageFails
  <2>2. descPages' = descPages \cup i /\ bits' = bits \cup i
    BY <1>4 DEF TakeDesc
  <2> HIDE DEF i
  <2>3. bits \cup i \subseteq bits' /\ bits' \subseteq Pages
    BY <1>2, <2>1, <2>2
  <2> QED  BY <1>1, <2>1, <2>2, <2>3, FailKeeps
<1> QED  BY <1>3, <1>4 DEF OutOfMemory

LEMMA kmalloc_failsKeeps ==
  ASSUME HeapInv, NEW len, kmalloc_fails(len)
  PROVE  HeapInv'
<1>1. /\ Sane /\ pc # "boot" /\ OutOfMemory
      /\ UNCHANGED <<ards, length, lost, held, chain, desc, live>>
  BY DEF kmalloc_fails, Sane
<1> QED  BY <1>1, OutOfMemoryKeeps

LEMMA kmalloc_too_largeKeeps ==
  ASSUME HeapInv, NEW len, kmalloc_too_large(len)
  PROVE  HeapInv'
<1>1. /\ pc = "idle" /\ pc' = "too_large"
      /\ UNCHANGED <<ards, length, bits, lost, held, arg, intr, heapVars>>
  BY DEF kmalloc_too_large
<1>2. /\ Returning = {} /\ Returning' = {} /\ Waiting = {} /\ Waiting' = {} /\ Sane /\ Sane'
      /\ Pages' = Pages /\ BlockPages' = BlockPages /\ DescPlaces' = DescPlaces
  BY <1>1 DEF Returning, Waiting, Sane, Pages, BlockPages, DescPlaces, heapVars
<1>3. OwnersInv'
  BY <1>1, <1>2 DEF HeapInv, OwnersInv, heapVars
<1>4. FreeInv'
  BY <1>1, <1>2 DEF HeapInv, FreeInv, heapVars
<1>5. MapOK(desc', live') /\ ChainsOK(chain', desc')
  BY <1>1 DEF HeapInv, heapVars
<1> QED  BY <1>3, <1>4, <1>5 DEF HeapInv

LEMMA ResumeTooLargeKeeps ==
  ASSUME HeapInv, ResumeTooLarge
  PROVE  HeapInv'
<1>1. /\ Sane /\ pc # "boot"
      /\ UNCHANGED <<ards, length, lost, held, chain, desc, live>>
  BY DEF ResumeTooLarge, Sane
<1>2. CASE OutOfMemory
  BY <1>1, <1>2, OutOfMemoryKeeps
<1>3. CASE /\ ~DescFails /\ ~PageFails
           /\ TakeDesc
           /\ bits' = bits \cup init_bucket_desc \cup {BlockPage}
           /\ pc' = "divided"
  <2> DEFINE i == init_bucket_desc
  <2>1. i \subseteq Pages \ bits
    BY <1>1, <1>3, DescsFacts
  <2>2. BlockPage \in Pages
    BY <1>3, BlockPageFacts
  <2>3. descPages' = descPages \cup i /\ bits' = bits \cup i \cup {BlockPage}
    BY <1>3 DEF TakeDesc
  <2>4. bits \subseteq Pages
    BY DEF HeapInv, OwnersInv
  <2>5. ~Sane' /\ Returning' = {}
    BY <1>3 DEF Sane, Returning
  <2> HIDE DEF i
  <2>6. bits \cup i \subseteq bits' /\ bits' \subseteq Pages
    BY <2>1, <2>2, <2>3, <2>4
  <2> QED  BY <1>1, <2>1, <2>3, <2>5, <2>6, FailKeeps
<1> QED  BY <1>2, <1>3 DEF ResumeTooLarge

LEMMA kfree_s_lastKeeps ==
  ASSUME HeapInv, NEW block \in live, NEW size, kfree_s_last(block, size)
  PROVE  HeapInv'
<1> DEFINE d == CHOOSE x \in Owners(block[1], size) : TRUE
           page == desc[d].page
<1>0. /\ MapOK(desc, live) /\ ChainsOK(chain, desc) /\ OwnersInv /\ FreeInv
      /\ Sane /\ pc = "idle"
  BY DEF HeapInv, Sane, kfree_s_last
<1>1. d \in Owners(block[1], size)
  BY DEF kfree_s_last, Found
<1>2. /\ desc[d].refcnt = 1
      /\ chain' = [b \in Buckets |-> Unlinked(chain[b], d)]
      /\ desc' = Restrict(desc, DOMAIN desc \ {d})
      /\ live' = live \ {block}
      /\ UNCHANGED <<ards, length, lost, held, intr, descPages>>
      /\ \/ /\ pc' = "refused_block" /\ arg' = page /\ bdesc' = d
            /\ UNCHANGED <<bits, free_bucket_desc>>
         \/ /\ bits' = bits \ {page}
            /\ free_bucket_desc' = <<d>> \o free_bucket_desc
            /\ UNCHANGED <<pc, arg, bdesc>>
  BY DEF kfree_s_last, LastBlock
<1> HIDE DEF d
<1>3. d \in DOMAIN desc /\ page = PageOf(block[1])
  BY <1>1, FoundOwner
<1>4. MapOK(desc', live')
  BY <1>0, <1>2, <1>3, ReleaseStep
<1>5. ChainsOK(chain', desc')
  BY <1>0, <1>2, <1>3, UnlinkStep
<1>6. DOMAIN desc' = DOMAIN desc \ {d} /\ \A e \in DOMAIN desc \ {d} : desc'[e] = desc[e]
  BY <1>2 DEF Restrict
<1>7. BlockPages' = BlockPages \ {page} /\ page \in BlockPages
  <2>1. \A e \in DOMAIN desc : desc[e].page = page <=> e = d
    BY <1>0, <1>3 DEF MapOK
  <2>2. page \in BlockPages
    BY <1>3 DEF BlockPages
  <2>3. BlockPages' = {desc[e].page : e \in DOMAIN desc \ {d}}
    BY <1>6 DEF BlockPages
  <2> QED  BY <2>1, <2>2, <2>3 DEF BlockPages
<1>8. d \in DescIds
  <2>1. PICK b \in Buckets : d \in Range(chain[b])
    BY <1>0, <1>3 DEF ChainsOK
  <2>2. chain[b] \in Seq(DescIds)
    BY <1>0 DEF ChainsOK
  <2> QED  BY <2>1, <2>2, SeqIs DEF Range
<1> HIDE DEF page
<1>9. Waiting = {} /\ Returning = {}
  BY <1>0 DEF Waiting, Returning
<1>10. /\ bits \subseteq Pages /\ ards \in ArdsTables /\ length \in Nat
       /\ lost \cup held \cup descPages \cup BlockPages \subseteq bits
       /\ lost \cap held = {} /\ descPages \cap (lost \cup held) = {}
       /\ BlockPages \cap (lost \cup held \cup descPages) = {}
       /\ bits = lost \cup held \cup descPages \cup BlockPages
  BY <1>0, <1>9 DEF OwnersInv
<1>11. /\ free_bucket_desc \in Seq(DescIds) /\ IsInjective(free_bucket_desc)
       /\ Range(free_bucket_desc) \cap DOMAIN desc = {}
       /\ DescPlaces = Range(free_bucket_desc) \cup DOMAIN desc
  BY <1>0, <1>9 DEF FreeInv
<1>12. Pages' = Pages /\ DescPlaces' = DescPlaces
  BY <1>2 DEF Pages, DescPlaces
<1>13. CASE /\ pc' = "refused_block" /\ arg' = page /\ bdesc' = d
            /\ UNCHANGED <<bits, free_bucket_desc>>
  <2>1. Waiting' = {d} /\ Returning' = {page}
    BY <1>13 DEF Waiting, Returning
  <2>2. OwnersInv'
    BY <1>2, <1>7, <1>10, <1>12, <1>13, <2>1 DEF OwnersInv
  <2>3. FreeInv'
    BY <1>3, <1>6, <1>11, <1>12, <1>13, <2>1 DEF FreeInv
  <2> QED  BY <1>4, <1>5, <2>2, <2>3 DEF HeapInv
<1>14. CASE /\ bits' = bits \ {page}
            /\ free_bucket_desc' = <<d>> \o free_bucket_desc
            /\ UNCHANGED <<pc, arg, bdesc>>
  <2>1. Waiting' = {} /\ Returning' = {} /\ pc' = "idle"
    BY <1>0, <1>14 DEF Waiting, Returning
  <2>2. OwnersInv'
    BY <1>2, <1>7, <1>10, <1>12, <1>14, <2>1 DEF OwnersInv
  <2>3. /\ free_bucket_desc' \in Seq(DescIds) /\ IsInjective(free_bucket_desc')
        /\ Range(free_bucket_desc') = Range(free_bucket_desc) \cup {d}
    BY <1>3, <1>8, <1>11, <1>14, PushFacts
  <2>4. FreeInv'
    BY <1>3, <1>6, <1>11, <1>12, <2>1, <2>3 DEF FreeInv
  <2> QED  BY <1>4, <1>5, <2>2, <2>4 DEF HeapInv
<1> QED  BY <1>2, <1>13, <1>14

LEMMA ResumeKfreeKeeps ==
  ASSUME HeapInv, ResumeKfree
  PROVE  HeapInv'
<1>1. /\ pc = "refused_block"
      /\ bits' = bits \ {arg}
      /\ free_bucket_desc' = <<bdesc>> \o free_bucket_desc
      /\ pc' = "idle"
      /\ UNCHANGED <<ards, length, lost, held, chain, desc, descPages, live>>
  BY DEF ResumeKfree
<1>2. /\ Returning = {arg} /\ Returning' = {} /\ Waiting = {bdesc} /\ Waiting' = {}
      /\ Sane /\ Sane' /\ Pages' = Pages /\ BlockPages' = BlockPages
      /\ DescPlaces' = DescPlaces
  BY <1>1 DEF Returning, Waiting, Sane, Pages, BlockPages, DescPlaces
<1>3. OwnersInv'
  BY <1>1, <1>2 DEF HeapInv, OwnersInv
<1>4. /\ free_bucket_desc \in Seq(DescIds) /\ IsInjective(free_bucket_desc)
      /\ Range(free_bucket_desc) \cap (DOMAIN desc \cup {bdesc}) = {}
      /\ bdesc \notin DOMAIN desc
      /\ DescPlaces = Range(free_bucket_desc) \cup DOMAIN desc \cup {bdesc}
  BY <1>2 DEF HeapInv, FreeInv
<1>5. bdesc \in DescIds
  <2>1. Pages \subseteq Nat /\ descPages \subseteq Pages /\ DESCS \in Nat
    BY PageFacts, HeapAssumption DEF HeapInv, OwnersInv
  <2>2. bdesc \in descPages \X (1 .. DESCS)
    BY <1>4 DEF DescPlaces
  <2> QED  BY <2>1, <2>2 DEF DescIds
<1>6. /\ free_bucket_desc' \in Seq(DescIds) /\ IsInjective(free_bucket_desc')
      /\ Range(free_bucket_desc') = Range(free_bucket_desc) \cup {bdesc}
  BY <1>1, <1>4, <1>5, PushFacts
<1>7. FreeInv'
  BY <1>1, <1>2, <1>4, <1>6 DEF FreeInv
<1>8. MapOK(desc', live') /\ ChainsOK(chain', desc')
  BY <1>1 DEF HeapInv
<1> QED  BY <1>3, <1>7, <1>8 DEF HeapInv

\* Other callers of the page allocator.
LEMMA PageStepKeeps ==
  ASSUME HeapInv, PageStep, UNCHANGED heapVars
  PROVE  HeapInv'
<1>1. /\ chain' = chain /\ free_bucket_desc' = free_bucket_desc /\ desc' = desc
      /\ bdesc' = bdesc /\ descPages' = descPages /\ live' = live
  BY DEF heapVars
<1>2. MapOK(desc', live') /\ ChainsOK(chain', desc')
  BY <1>1 DEF HeapInv
<1>3. BlockPages' = BlockPages /\ DescPlaces' = DescPlaces
  BY <1>1 DEF BlockPages, DescPlaces
<1>4. OwnersInv /\ FreeInv /\ N \in Nat
  BY PageFacts DEF HeapInv
<1>5. (Sane' => Sane) /\ Waiting' = {} /\ Waiting = {}
  BY DEF PageStep, phy_memory_init, get_free_page, OutOfPages, free_page,
         ResumeFree, ResumeWithoutPage, Sane, Waiting
<1>6. FreeInv'
  BY <1>1, <1>3, <1>4, <1>5 DEF FreeInv
<1>7. /\ bits \subseteq Pages /\ ards \in ArdsTables /\ length \in Nat
      /\ lost \cup held \cup descPages \cup BlockPages \cup Returning \subseteq bits
      /\ lost \cap held = {} /\ descPages \cap (lost \cup held) = {}
      /\ BlockPages \cap (lost \cup held \cup descPages) = {}
      /\ Returning \cap (lost \cup held \cup descPages \cup BlockPages) = {}
      /\ Sane => bits = lost \cup held \cup descPages \cup BlockPages \cup Returning
      /\ pc = "boot" => bits = {}
  BY <1>4 DEF OwnersInv
<1>8. CASE phy_memory_init
  <2>1. /\ pc = "boot" /\ pc' = "idle" /\ length' = bitmap_length(ards)
        /\ bits' \in SUBSET (BYTE_BITS .. length' * BYTE_BITS - 1)
        /\ lost' = bits' /\ ards' = ards /\ held' = held
    BY <1>8 DEF phy_memory_init, bitmap_init
  <2>2. length' \in Nat /\ BYTE_BITS \in Nat
    BY <1>7, <2>1, LengthIsNat, PageAssumption
  <2>3. bits' \subseteq Pages'
    <3> DEFINE n == length' * BYTE_BITS
    <3>1. n \in Nat
      BY <2>2, BitsAreNat
    <3>2. Pages' = 0 .. n - 1 /\ bits' \subseteq BYTE_BITS .. n - 1
      BY <2>1 DEF Pages
    <3> HIDE DEF n
    <3> QED  BY <2>2, <3>1, <3>2
  <2>4. held = {} /\ descPages = {} /\ BlockPages = {} /\ Returning' = {}
    BY <1>7, <2>1 DEF Returning
  <2>5. OwnersInv'
    BY <1>1, <1>3, <1>7, <2>1, <2>2, <2>3, <2>4 DEF OwnersInv
  <2> QED  BY <1>2, <1>6, <2>5 DEF HeapInv
<1>9. CASE get_free_page
  <2> DEFINE p == NextPage(bits)
  <2>1. /\ pc = "idle" /\ p # -1 /\ bits' = bits \cup {p} /\ held' = held \cup {p}
        /\ UNCHANGED <<ards, length, lost, arg, intr, pc>>
    BY <1>9 DEF get_free_page
  <2>2. p \in Pages \ bits
    BY <1>4, <2>1, NextPageIsFree
  <2> HIDE DEF p
  <2>3. Pages' = Pages /\ Returning = {} /\ Returning' = {} /\ Sane
    BY <2>1 DEF Pages, Returning, Sane
  <2>4. OwnersInv'
    BY <1>1, <1>3, <1>7, <2>1, <2>2, <2>3 DEF OwnersInv
  <2> QED  BY <1>2, <1>6, <2>4 DEF HeapInv
<1>10. CASE OutOfPages
  <2>1. /\ pc = "idle" /\ pc' = "oom"
        /\ UNCHANGED <<ards, length, bits, lost, held, arg, intr>>
    BY <1>10 DEF OutOfPages
  <2>2. Pages' = Pages /\ Returning' = {} /\ ~Sane'
    BY <2>1 DEF Pages, Returning, Sane
  <2>3. OwnersInv'
    BY <1>1, <1>3, <1>7, <2>1, <2>2 DEF OwnersInv
  <2> QED  BY <1>2, <1>6, <2>3 DEF HeapInv
<1>11. CASE \E index \in held : free_page(index)
  <2>1. PICK index \in held : free_page(index)
    BY <1>11
  <2>2. /\ pc = "idle" /\ held' = held \ {index}
        /\ UNCHANGED <<ards, length, lost, intr>>
        /\ \/ pc' = "refused" /\ arg' = index /\ UNCHANGED bits
           \/ bits' = bits \ {index} /\ UNCHANGED <<arg, pc>>
    BY <2>1 DEF free_page
  <2>3. Pages' = Pages /\ Returning = {} /\ Sane
    BY <2>2 DEF Pages, Returning, Sane
  <2>4. CASE pc' = "refused" /\ arg' = index /\ UNCHANGED bits
    <3>1. Returning' = {index}
      BY <2>4 DEF Returning
    <3>2. OwnersInv'
      BY <1>1, <1>3, <1>7, <2>2, <2>3, <2>4, <3>1 DEF OwnersInv
    <3> QED  BY <1>2, <1>6, <3>2 DEF HeapInv
  <2>5. CASE bits' = bits \ {index} /\ UNCHANGED <<arg, pc>>
    <3>1. Returning' = {} /\ pc' = "idle"
      BY <2>2, <2>5 DEF Returning
    <3>2. OwnersInv'
      BY <1>1, <1>3, <1>7, <2>2, <2>3, <2>5, <3>1 DEF OwnersInv
    <3> QED  BY <1>2, <1>6, <3>2 DEF HeapInv
  <2> QED  BY <2>2, <2>4, <2>5
<1>12. CASE ResumeFree
  <2>1. /\ pc = "refused" /\ pc' = "idle" /\ bits' = bits \ {arg}
        /\ UNCHANGED <<ards, length, lost, held, intr>>
    BY <1>12 DEF ResumeFree
  <2>2. Pages' = Pages /\ Returning = {arg} /\ Returning' = {} /\ Sane
    BY <2>1 DEF Pages, Returning, Sane
  <2>3. OwnersInv'
    BY <1>1, <1>3, <1>7, <2>1, <2>2 DEF OwnersInv
  <2> QED  BY <1>2, <1>6, <2>3 DEF HeapInv
<1>13. CASE ResumeWithoutPage
  <2>1. /\ pc' = "wild" /\ UNCHANGED <<ards, length, bits, lost, held, arg, intr>>
    BY <1>13 DEF ResumeWithoutPage
  <2>2. Pages' = Pages /\ Returning' = {} /\ ~Sane'
    BY <2>1 DEF Pages, Returning, Sane
  <2>3. OwnersInv'
    BY <1>1, <1>3, <1>7, <2>1, <2>2 DEF OwnersInv
  <2> QED  BY <1>2, <1>6, <2>3 DEF HeapInv
<1> QED  BY <1>8, <1>9, <1>10, <1>11, <1>12, <1>13 DEF PageStep

LEMMA StutterKeeps ==
  ASSUME HeapInv, UNCHANGED kmVars
  PROVE  HeapInv'
<1>1. UNCHANGED <<pageVars, descPages, free_bucket_desc, bdesc, chain, desc, live>>
  BY DEF kmVars, heapVars
<1>2. OwnersInv'
  BY <1>1, OwnersKept DEF HeapInv
<1>3. FreeInv'
  BY <1>1, FreeKept DEF HeapInv
<1> QED  BY <1>1, <1>2, <1>3 DEF HeapInv

LEMMA HeapInit == Init => HeapInv
<1> SUFFICES ASSUME Init PROVE HeapInv
  OBVIOUS
<1>1. DOMAIN desc = {} /\ live = {} /\ descPages = {} /\ Range(free_bucket_desc) = {}
  BY DEF Init, Range
<1>2. MapOK(desc, live)
  BY <1>1 DEF MapOK
<1>3. ChainsOK(chain, desc)
  <2>1. chain = [b \in Buckets |-> <<>>] /\ \A b \in Buckets : Range(chain[b]) = {}
    BY DEF Init, Range
  <2>2. chain \in [Buckets -> Seq(DescIds)]
    BY <2>1
  <2>3. \A b \in Buckets : IsInjective(chain[b])
    BY <2>1 DEF IsInjective
  <2> QED  BY <1>1, <2>1, <2>2, <2>3 DEF ChainsOK
<1>4. /\ ards \in ArdsTables /\ length = 0 /\ bits = {} /\ lost = {} /\ held = {} /\ pc = "boot"
  BY DEF Init, PageInit
<1>5. BlockPages = {} /\ Returning = {} /\ Waiting = {} /\ DescPlaces = {}
  BY <1>1, <1>4 DEF BlockPages, Returning, Waiting, DescPlaces
<1>6. OwnersInv
  BY <1>1, <1>4, <1>5 DEF OwnersInv
<1>7. FreeInv
  <2>1. free_bucket_desc = <<>> /\ IsInjective(free_bucket_desc)
    BY DEF Init, IsInjective
  <2> QED  BY <1>1, <1>5, <2>1 DEF FreeInv
<1> QED  BY <1>2, <1>3, <1>6, <1>7 DEF HeapInv

LEMMA HeapNext == HeapInv /\ [Next]_kmVars => HeapInv'
<1> SUFFICES ASSUME HeapInv, [Next]_kmVars PROVE HeapInv'
  OBVIOUS
<1>1. ASSUME NEW len, kmalloc(len) PROVE HeapInv'
  BY <1>1, kmallocKeeps
<1>2. ASSUME NEW len, kmalloc_page(len) PROVE HeapInv'
  BY <1>2, kmalloc_pageKeeps
<1>3. ASSUME NEW len, kmalloc_fails(len) PROVE HeapInv'
  BY <1>3, kmalloc_failsKeeps
<1>4. ASSUME NEW len, kmalloc_too_large(len) PROVE HeapInv'
  BY <1>4, kmalloc_too_largeKeeps
<1>5. ASSUME ResumeTooLarge PROVE HeapInv'
  BY <1>5, ResumeTooLargeKeeps
<1>6. ASSUME NEW block \in live, NEW size, kfree_s(block, size) PROVE HeapInv'
  BY <1>6, kfree_sKeeps
<1>7. ASSUME NEW block \in live, NEW size, kfree_s_last(block, size) PROVE HeapInv'
  BY <1>7, kfree_s_lastKeeps
<1>8. ASSUME ResumeKfree PROVE HeapInv'
  BY <1>8, ResumeKfreeKeeps
<1>9. ASSUME PageStep, UNCHANGED heapVars PROVE HeapInv'
  BY <1>9, PageStepKeeps
<1>10. ASSUME UNCHANGED kmVars PROVE HeapInv'
  BY <1>10, StutterKeeps
<1> QED  BY <1>1, <1>2, <1>3, <1>4, <1>5, <1>6, <1>7, <1>8, <1>9, <1>10
         DEF Next, HeapStep

\* The invariant holds in every state of the heap.
THEOREM HeapSound == Spec => []HeapInv
BY HeapInit, HeapNext, PTL DEF Spec

-----------------------------------------------------------------------------
(***************************************************************************)
(* What callers of the heap may rely on.                                   *)
(***************************************************************************)
LEMMA InUseIs == HeapInv => InUse = DOMAIN desc
BY DEF HeapInv, ChainsOK, InUse

\* Two blocks that are in use have no byte in common.
LEMMA LiveApart ==
  ASSUME NEW m, NEW L, MapOK(m, L), NEW x \in L, NEW y \in L, x # y
  PROVE  Bytes(x) \cap Bytes(y) = {}
<1>1. PICK d \in DOMAIN m : /\ m[d].page = PageOf(x[1])
                            /\ x[1] \in CutUp(m[d].page, m[d].bucket_size)
                            /\ x[2] = m[d].bucket_size
  BY BlockHasOwner
<1>2. PICK e \in DOMAIN m : /\ m[e].page = PageOf(y[1])
                            /\ y[1] \in CutUp(m[e].page, m[e].bucket_size)
                            /\ y[2] = m[e].bucket_size
  BY BlockHasOwner
<1>3. /\ m[d].page \in Nat /\ m[d].bucket_size \in 1 .. PAGE_SIZE
      /\ m[e].page \in Nat /\ m[e].bucket_size \in 1 .. PAGE_SIZE
  BY DEF MapOK, DescOK, DescRecord
<1>4. x[1] # y[1]
  BY SameBlock
<1>5. CASE d = e
  BY <1>1, <1>2, <1>3, <1>4, <1>5, BlocksApart DEF Bytes
<1>6. CASE d # e
  <2> SUFFICES ASSUME NEW a \in Bytes(x), a \in Bytes(y) PROVE FALSE
    OBVIOUS
  <2>1. PageOf(a) = m[d].page
    BY <1>1, <1>3, BlockInPage DEF Bytes
  <2>2. PageOf(a) = m[e].page
    BY <1>2, <1>3, BlockInPage DEF Bytes
  <2> QED  BY <1>6, <2>1, <2>2 DEF MapOK
<1> QED  BY <1>5, <1>6

\* What kmalloc has given to a caller is given to nobody else: no other block,
\* no page of descriptors and no page from get_free_page has a byte of it.
THEOREM BlocksStayApart == Spec => []BlocksDisjoint
<1>1. HeapInv => BlocksDisjoint
  <2> SUFFICES ASSUME HeapInv PROVE BlocksDisjoint
    OBVIOUS
  <2>0. MapOK(desc, live) /\ OwnersInv
    BY DEF HeapInv
  <2>1. \A x, y \in live : x # y => Bytes(x) \cap Bytes(y) = {}
    BY <2>0, LiveApart
  <2>2. ASSUME NEW x \in live, NEW a \in Bytes(x)
        PROVE  PageOf(a) \notin descPages \cup held \cup lost
    <3>1. PICK d \in DOMAIN desc : /\ desc[d].page = PageOf(x[1])
                                   /\ x[1] \in CutUp(desc[d].page, desc[d].bucket_size)
                                   /\ x[2] = desc[d].bucket_size
      BY <2>0, BlockHasOwner
    <3>2. desc[d].page \in Nat /\ desc[d].bucket_size \in 1 .. PAGE_SIZE
      BY <2>0 DEF MapOK, DescOK, DescRecord
    <3>3. PageOf(a) = desc[d].page
      BY <3>1, <3>2, BlockInPage DEF Bytes
    <3>4. PageOf(a) \in BlockPages
      BY <3>3 DEF BlockPages
    <3> QED  BY <2>0, <3>4 DEF OwnersInv
  <2> QED  BY <2>1, <2>2 DEF BlocksDisjoint
<1> QED  BY <1>1, HeapSound, PTL

\* The free list of a page and the blocks in use are exactly the blocks of the
\* page, refcnt counts those in use, and a page with none is not kept.
THEOREM FreeListsAreSound == Spec => []FreeListsSound
<1>1. HeapInv => FreeListsSound
  <2> SUFFICES ASSUME HeapInv, NEW d \in InUse
               PROVE  LET page == desc[d].page
                          size == desc[d].bucket_size
                          used == {block[1] : block \in LiveIn(page)}
                      IN  /\ used \cap Range(desc[d].freeptr) = {}
                          /\ SameElements(desc[d].freeptr, CutUp(page, size) \ used)
                          /\ desc[d].refcnt = Cardinality(used) /\ desc[d].refcnt > 0
                          /\ \A block \in LiveIn(page) : block[2] = size
    BY DEF FreeListsSound
  <2> DEFINE e == desc[d]
             used == {block[1] : block \in LiveIn(e.page)}
  <2>1. d \in DOMAIN desc /\ MapOK(desc, live)
    BY InUseIs DEF HeapInv
  <2>2. used = UsedIn(live, e.page)
    BY DEF UsedIn, LiveIn
  <2>3. DescOK(e, used) /\ used # {}
    BY <2>1, <2>2 DEF MapOK
  <2>4. \A block \in LiveIn(e.page) : block[2] = e.bucket_size
    BY <2>1, OwnerHasBlock DEF LiveIn
  <2> HIDE DEF used
  <2>5. IsFiniteSet(used) /\ Cardinality(used) \in Nat
    BY <2>3, UsedIsFinite
  <2>6. Cardinality(used) # 0
    BY <2>3, <2>5, FS_EmptySet
  <2>7. /\ e.freeptr \in Seq(Nat) /\ IsInjective(e.freeptr)
        /\ Range(e.freeptr) = CutUp(e.page, e.bucket_size) \ used
        /\ e.refcnt = Cardinality(used)
    BY <2>3 DEF DescOK, DescRecord
  <2>8. Len(e.freeptr) = Cardinality(Range(e.freeptr))
    BY <2>7, LengthIsCount
  <2>9. SameElements(e.freeptr, CutUp(e.page, e.bucket_size) \ used)
    BY <2>7, <2>8 DEF SameElements
  <2>10. used \cap Range(e.freeptr) = {}
    BY <2>7
  <2>11. e.refcnt > 0
    BY <2>5, <2>6, <2>7
  <2> QED  BY <2>4, <2>7, <2>9, <2>10, <2>11 DEF used
<1> QED  BY <1>1, HeapSound, PTL

\* kfree_s finds the descriptor of every block in use, with every size up to
\* that of its bucket, and no other.
THEOREM FreeAlwaysFindsOwner == Spec => []FreeFindsOwner
<1>1. HeapInv => FreeFindsOwner
  <2> SUFFICES ASSUME HeapInv, NEW x \in live, NEW size \in Lengths, size <= x[2]
               PROVE  \E d \in InUse : Owners(x[1], size) = {d} /\ desc[d].bucket_size = x[2]
    BY DEF FreeFindsOwner
  <2>0. MapOK(desc, live) /\ ChainsOK(chain, desc)
    BY DEF HeapInv
  <2>1. PICK d \in DOMAIN desc : /\ desc[d].page = PageOf(x[1])
                                 /\ x[2] = desc[d].bucket_size
    BY <2>0, BlockHasOwner
  <2>2. PICK b \in Buckets : d \in Range(chain[b]) /\ desc[d].bucket_size = bucket_dir[b]
    BY <2>0, <2>1 DEF ChainsOK
  <2>3. b \in Fitting(size)
    <3>1. bucket_dir[b] = x[2] /\ bucket_dir[b] \in Nat /\ size \in Nat
      BY <2>1, <2>2, BucketFacts, HeapAssumption
    <3> QED  BY <3>1 DEF Fitting
  <2>4. d \in Owners(x[1], size)
    BY <2>1, <2>2, <2>3 DEF Owners
  <2>5. ASSUME NEW e \in Owners(x[1], size) PROVE e = d
    <3>1. e \in DOMAIN desc /\ desc[e].page = PageOf(x[1])
      BY FoundOwner
    <3> QED  BY <2>0, <2>1, <3>1 DEF MapOK
  <2>6. Owners(x[1], size) = {d}
    BY <2>4, <2>5
  <2>7. d \in InUse
    BY InUseIs
  <2> QED  BY <2>1, <2>6, <2>7
<1> QED  BY <1>1, HeapSound, PTL

\* The step in which a chain grows is one of kmalloc_page.
LEMMA WhoGrows ==
  ASSUME HeapInv, [Next]_kmVars, NEW b \in Buckets, Len(chain'[b]) > Len(chain[b])
  PROVE  WithFree(b) = {}
<1>1. MapOK(desc, live) /\ ChainsOK(chain, desc)
  BY DEF HeapInv
<1>2. chain[b] \in Seq(DescIds) /\ Len(chain[b]) \in Nat /\ chain \in [Buckets -> Seq(DescIds)]
  BY <1>1 DEF ChainsOK
<1>3. chain' # chain
  BY <1>2
<1>4. ASSUME NEW len, kmalloc_page(len) PROVE WithFree(b) = {}
  <2> DEFINE a == Min(Fitting(len))
             d == Head(Descs)
  <2>1. chain' = [chain EXCEPT ![a] = <<d>> \o @] /\ WithFree(a) = {}
    BY <1>4 DEF kmalloc_page
  <2> HIDE DEF a, d
  <2>2. a = b
    <3> SUFFICES ASSUME a # b PROVE FALSE
      OBVIOUS
    <3>1. chain'[b] = chain[b]
      BY <1>2, <2>1
    <3> QED  BY <1>2, <3>1
  <2> QED  BY <2>1, <2>2
<1>5. ASSUME NEW block \in live, NEW size, kfree_s_last(block, size) PROVE FALSE
  <2> DEFINE d == CHOOSE x \in Owners(block[1], size) : TRUE
  <2>1. d \in Owners(block[1], size) /\ chain' = [a \in Buckets |-> Unlinked(chain[a], d)]
    BY <1>5 DEF kfree_s_last, Found
  <2> HIDE DEF d
  <2>2. d \in DOMAIN desc
    BY <2>1, FoundOwner
  <2>3. Len(Unlinked(chain[b], d)) <= Len(chain[b])
    BY <1>1, <2>2, UnlinkStep
  <2>4. chain'[b] = Unlinked(chain[b], d)
    BY <2>1
  <2>5. Len(chain'[b]) <= Len(chain[b])
    BY <2>3, <2>4
  <2>6. Len(chain'[b]) \in Nat
    <3>1. ChainsOK(chain', desc')
      BY <1>5, kfree_s_lastKeeps DEF HeapInv
    <3>2. chain'[b] \in Seq(DescIds)
      BY <3>1 DEF ChainsOK
    <3> QED  BY <3>2
  <2> QED  BY <1>2, <2>5, <2>6
<1>6. ASSUME NEW len, kmalloc(len) \/ kmalloc_fails(len) \/ kmalloc_too_large(len) PROVE FALSE
  BY <1>3, <1>6 DEF kmalloc, kmalloc_fails, kmalloc_too_large, heapVars
<1>7. ASSUME NEW block, NEW size, kfree_s(block, size) PROVE FALSE
  BY <1>3, <1>7 DEF kfree_s
<1>8. ASSUME ResumeTooLarge \/ ResumeKfree \/ UNCHANGED heapVars \/ UNCHANGED kmVars PROVE FALSE
  BY <1>3, <1>8 DEF ResumeTooLarge, ResumeKfree, heapVars, kmVars
<1> QED  BY <1>4, <1>5, <1>6, <1>7, <1>8 DEF Next, HeapStep

\* A bucket gets another page only while every block of its pages is in use.
THEOREM GrowsWhenFull == Spec => GrowsOnlyWhenFull
<1> DEFINE Full ==
      \A b \in Buckets :
        Len(chain'[b]) > Len(chain[b]) =>
          \A k \in DOMAIN chain[b] :
            \A a \in CutUp(desc[chain[b][k]].page, bucket_dir[b]) :
              <<a, bucket_dir[b]>> \in live
<1>1. HeapInv /\ [Next]_kmVars => [Full]_kmVars
  <2> SUFFICES ASSUME HeapInv, [Next]_kmVars, NEW b \in Buckets,
                      Len(chain'[b]) > Len(chain[b]),
                      NEW k \in DOMAIN chain[b],
                      NEW a \in CutUp(desc[chain[b][k]].page, bucket_dir[b])
               PROVE  <<a, bucket_dir[b]>> \in live
    OBVIOUS
  <2> DEFINE d == chain[b][k]
             e == desc[d]
  <2>1. WithFree(b) = {}
    BY WhoGrows
  <2>2. e.freeptr = <<>>
    BY <2>1 DEF WithFree
  <2>3. d \in Range(chain[b])
    BY DEF Range
  <2>4. d \in DOMAIN desc /\ e.bucket_size = bucket_dir[b] /\ MapOK(desc, live)
    BY <2>3 DEF HeapInv, ChainsOK
  <2>5. Range(e.freeptr) = CutUp(e.page, e.bucket_size) \ UsedIn(live, e.page)
    BY <2>4 DEF MapOK, DescOK, DescRecord
  <2>6. Range(e.freeptr) = {}
    BY <2>2 DEF Range
  <2>7. a \in UsedIn(live, e.page)
    BY <2>4, <2>5, <2>6
  <2>8. PICK x \in live : x[1] = a /\ PageOf(x[1]) = e.page
    BY <2>7 DEF UsedIn
  <2>9. x[2] = e.bucket_size
    BY <2>4, <2>8, OwnerHasBlock
  <2>10. x = <<x[1], x[2]>>
    BY <2>4, <2>8, BlockHasOwner
  <2> QED  BY <2>4, <2>8, <2>9, <2>10
<1> QED  BY <1>1, HeapSound, PTL DEF Spec, GrowsOnlyWhenFull

-----------------------------------------------------------------------------
(***************************************************************************)
(* Lists put together.                                                     *)
(***************************************************************************)
LEMMA JoinFacts ==
  ASSUME NEW T, NEW u \in Seq(T), NEW v \in Seq(T), IsInjective(u), IsInjective(v),
         Range(u) \cap Range(v) = {}
  PROVE  /\ u \o v \in Seq(T) /\ IsInjective(u \o v)
         /\ Range(u \o v) = Range(u) \cup Range(v)
<1> DEFINE w == u \o v
           m == Len(u)
           n == Len(v)
<1>1. /\ m \in Nat /\ n \in Nat /\ DOMAIN u = 1 .. m /\ DOMAIN v = 1 .. n
  BY SeqIs
<1>2. /\ w \in Seq(T) /\ Len(w) = m + n
      /\ \A i \in 1 .. m + n : w[i] = IF i <= m THEN u[i] ELSE v[i - m]
  BY ConcatProperties
<1>3. DOMAIN w = 1 .. m + n
  BY <1>2, SeqIs
<1> HIDE DEF w, m, n
<1>4. ASSUME NEW i \in 1 .. m + n
      PROVE  \/ i \in DOMAIN u /\ w[i] = u[i]
             \/ i > m /\ i - m \in DOMAIN v /\ w[i] = v[i - m]
  <2>1. CASE i <= m
    BY <1>1, <1>2, <2>1
  <2>2. CASE i > m
    <3>1. i - m \in 1 .. n /\ ~(i <= m)
      BY <1>1, <2>2
    <3> QED  BY <1>1, <1>2, <2>2, <3>1
  <2> QED  BY <1>1, <2>1, <2>2
<1>5. IsInjective(w)
  <2> SUFFICES ASSUME NEW i \in 1 .. m + n, NEW j \in 1 .. m + n, w[i] = w[j] PROVE i = j
    BY <1>3 DEF IsInjective
  <2>1. CASE i \in DOMAIN u /\ w[i] = u[i] /\ j \in DOMAIN u /\ w[j] = u[j]
    BY <2>1 DEF IsInjective
  <2>2. CASE /\ i - m \in DOMAIN v /\ w[i] = v[i - m]
             /\ j - m \in DOMAIN v /\ w[j] = v[j - m]
    <3>1. i - m = j - m
      BY <2>2 DEF IsInjective
    <3> QED  BY <1>1, <3>1
  <2>3. ASSUME NEW a \in DOMAIN u, NEW b \in DOMAIN v, u[a] = v[b] PROVE FALSE
    BY <2>3 DEF Range
  <2> QED  BY <1>4, <2>1, <2>2, <2>3
<1>6. Range(w) \subseteq Range(u) \cup Range(v)
  <2> SUFFICES ASSUME NEW i \in 1 .. m + n PROVE w[i] \in Range(u) \cup Range(v)
    BY <1>3 DEF Range
  <2> QED  BY <1>4 DEF Range
<1>7. Range(u) \subseteq Range(w)
  <2> SUFFICES ASSUME NEW i \in 1 .. m PROVE u[i] \in Range(w)
    BY <1>1 DEF Range
  <2>1. i \in DOMAIN w /\ w[i] = u[i]
    BY <1>1, <1>2, <1>3
  <2> QED  BY <2>1 DEF Range
<1>8. Range(v) \subseteq Range(w)
  <2> SUFFICES ASSUME NEW i \in 1 .. n PROVE v[i] \in Range(w)
    BY <1>1 DEF Range
  <2>1. m + i \in 1 .. m + n /\ ~(m + i <= m) /\ (m + i) - m = i
    BY <1>1
  <2>2. m + i \in DOMAIN w /\ w[m + i] = v[i]
    BY <1>2, <1>3, <2>1
  <2> QED  BY <2>2 DEF Range
<1> QED  BY <1>2, <1>5, <1>6, <1>7, <1>8 DEF w

\* The function in the definition of FlattenSeq, for the first k sequences.
Flattens(s, f, k) ==
  f = [i \in 1 .. k |-> IF i = 1 THEN s[i] ELSE f[i - 1] \o s[i]]

LEMMA FlattenExists ==
  ASSUME NEW s, NEW n \in Nat
  PROVE  \E f : Flattens(s, f, n)
<1> DEFINE S == {k \in Nat : \E f : Flattens(s, f, k)}
<1>1. 0 \in S
  <2> DEFINE f == [i \in 1 .. 0 |-> s[i]]
  <2>1. f = [i \in 1 .. 0 |-> IF i = 1 THEN s[i] ELSE f[i - 1] \o s[i]]
    OBVIOUS
  <2>2. Flattens(s, f, 0)
    BY <2>1 DEF Flattens
  <2> QED  BY <2>2
<1>2. ASSUME NEW k \in Nat, k \in S PROVE k + 1 \in S
  <2>1. PICK f : Flattens(s, f, k)
    BY <1>2
  <2> DEFINE g == [i \in 1 .. k + 1 |->
                     IF i <= k THEN f[i] ELSE IF i = 1 THEN s[i] ELSE f[i - 1] \o s[i]]
  <2>2. /\ DOMAIN g = 1 .. k + 1
        /\ g = [i \in 1 .. k + 1 |-> g[i]]
    OBVIOUS
  <2>3. ASSUME NEW i \in 1 .. k + 1
        PROVE  g[i] = IF i = 1 THEN s[i] ELSE g[i - 1] \o s[i]
    <3>1. ASSUME i # 1 PROVE i - 1 \in 1 .. k + 1 /\ g[i - 1] = f[i - 1]
      <4>1. i - 1 \in 1 .. k + 1 /\ i - 1 <= k
        BY <3>1
      <4> QED  BY <4>1
    <3>2. CASE i <= k
      <4>1. i \in 1 .. k
        BY <3>2
      <4>2. f[i] = IF i = 1 THEN s[i] ELSE f[i - 1] \o s[i]
        BY <2>1, <4>1 DEF Flattens
      <4>3. g[i] = f[i]
        BY <3>2
      <4> HIDE DEF g
      <4> QED  BY <3>1, <4>2, <4>3
    <3>3. CASE ~(i <= k)
      <4>1. g[i] = IF i = 1 THEN s[i] ELSE f[i - 1] \o s[i]
        BY <3>3
      <4> HIDE DEF g
      <4> QED  BY <3>1, <4>1
    <3> QED  BY <3>2, <3>3
  <2> HIDE DEF g
  <2>4. Flattens(s, g, k + 1)
    BY <2>2, <2>3 DEF Flattens
  <2> QED  BY <2>4
<1> HIDE DEF S
<1>3. n \in S
  BY <1>1, <1>2, Induct
<1> QED  BY <1>3 DEF S

\* One set more.
LEMMA UnionGrows ==
  ASSUME NEW s, NEW k \in Nat
  PROVE  UNION {Range(s[i]) : i \in 1 .. k + 1}
           = (UNION {Range(s[i]) : i \in 1 .. k}) \cup Range(s[k + 1])
<1> DEFINE A == UNION {Range(s[i]) : i \in 1 .. k}
           B == Range(s[k + 1])
           C == UNION {Range(s[i]) : i \in 1 .. k + 1}
<1>1. A \subseteq C
  <2>1. \A i \in 1 .. k : i \in 1 .. k + 1
    OBVIOUS
  <2> QED  BY <2>1
<1>2. B \subseteq C
  <2>1. k + 1 \in 1 .. k + 1
    OBVIOUS
  <2> QED  BY <2>1
<1>3. C \subseteq A \cup B
  <2> SUFFICES ASSUME NEW i \in 1 .. k + 1, NEW x \in Range(s[i]) PROVE x \in A \/ x \in B
    OBVIOUS
  <2>1. i \in 1 .. k \/ i = k + 1
    OBVIOUS
  <2> QED  BY <2>1
<1> HIDE DEF A, B, C
<1>4. C = A \cup B
  BY <1>1, <1>2, <1>3
<1> QED  BY <1>4 DEF A, B, C

\* Sequences without a common element.
LEMMA FlattenFacts ==
  ASSUME NEW T, NEW n \in Nat \ {0}, NEW s \in [1 .. n -> Seq(T)],
         \A i \in 1 .. n : IsInjective(s[i]),
         \A i, j \in 1 .. n : i # j => Range(s[i]) \cap Range(s[j]) = {}
  PROVE  /\ FlattenSeq(s) \in Seq(T) /\ IsInjective(FlattenSeq(s))
         /\ Range(FlattenSeq(s)) = UNION {Range(s[i]) : i \in 1 .. n}
<1> DEFINE f == CHOOSE g : Flattens(s, g, n)
<1>1. Len(s) = n
  OBVIOUS
<1>2. FlattenSeq(s) = f[n]
  BY <1>1 DEF FlattenSeq, Flattens
<1>3. Flattens(s, f, n)
  BY FlattenExists
<1> HIDE DEF f
<1>4. \A i \in 1 .. n : f[i] = IF i = 1 THEN s[i] ELSE f[i - 1] \o s[i]
  BY <1>3 DEF Flattens
<1> DEFINE Good(k) == /\ f[k] \in Seq(T) /\ IsInjective(f[k])
                      /\ Range(f[k]) = UNION {Range(s[i]) : i \in 1 .. k}
           S == {k \in Nat : k \in 1 .. n => Good(k)}
<1>5. 0 \in S
  OBVIOUS
<1>6. ASSUME NEW k \in Nat, k \in S PROVE k + 1 \in S
  <2> SUFFICES ASSUME k + 1 \in 1 .. n PROVE Good(k + 1)
    OBVIOUS
  <2>1. s[k + 1] \in Seq(T) /\ IsInjective(s[k + 1])
    OBVIOUS
  <2>2. CASE k = 0
    <3>1. f[1] = s[1] /\ k + 1 = 1
      BY <1>4, <2>2
    <3>2. UNION {Range(s[i]) : i \in 1 .. 1} = Range(s[1])
      OBVIOUS
    <3> QED  BY <2>1, <3>1, <3>2
  <2>3. CASE k # 0
    <3>1. k \in 1 .. n /\ (k + 1) - 1 = k /\ k + 1 # 1
      BY <2>3
    <3>2. Good(k)
      BY <1>6, <3>1
    <3>3. f[k + 1] = f[k] \o s[k + 1]
      BY <1>4, <3>1
    <3>4. Range(f[k]) \cap Range(s[k + 1]) = {}
      <4> SUFFICES ASSUME NEW x \in Range(f[k]), x \in Range(s[k + 1]) PROVE FALSE
        OBVIOUS
      <4>1. PICK i \in 1 .. k : x \in Range(s[i])
        BY <3>2
      <4>2. i \in 1 .. n /\ i # k + 1
        BY <3>1
      <4> QED  BY <4>1, <4>2
    <3>5. /\ f[k] \o s[k + 1] \in Seq(T) /\ IsInjective(f[k] \o s[k + 1])
          /\ Range(f[k] \o s[k + 1]) = Range(f[k]) \cup Range(s[k + 1])
      BY <2>1, <3>2, <3>4, JoinFacts
    <3>6. UNION {Range(s[i]) : i \in 1 .. k + 1}
            = (UNION {Range(s[i]) : i \in 1 .. k}) \cup Range(s[k + 1])
      BY UnionGrows
    <3>7. Range(f[k + 1]) = UNION {Range(s[i]) : i \in 1 .. k + 1}
      BY <3>2, <3>3, <3>5, <3>6
    <3> QED  BY <3>3, <3>5, <3>7
  <2> QED  BY <2>2, <2>3
<1> HIDE DEF S
<1>7. n \in S
  BY <1>5, <1>6, Induct
<1>8. Good(n)
  BY <1>7 DEF S
<1> QED  BY <1>2, <1>8

-----------------------------------------------------------------------------
(***************************************************************************)
(* Nothing is lost.                                                        *)
(***************************************************************************)
\* As many pages hold blocks as there are descriptors on the chains.
LEMMA PagesPerDesc ==
  ASSUME NEW m, NEW L, MapOK(m, L), IsFiniteSet({m[d].page : d \in DOMAIN m})
  PROVE  /\ IsFiniteSet(DOMAIN m)
         /\ Cardinality({m[d].page : d \in DOMAIN m}) = Cardinality(DOMAIN m)
<1> DEFINE P == {m[d].page : d \in DOMAIN m}
           f == [p \in P |-> CHOOSE d \in DOMAIN m : m[d].page = p]
<1>1. \A p \in P : f[p] \in DOMAIN m /\ m[f[p]].page = p
  OBVIOUS
<1>2. \A d \in DOMAIN m : m[d].page \in P /\ f[m[d].page] = d
  <2> TAKE d \in DOMAIN m
  <2>1. m[d].page \in P
    OBVIOUS
  <2>2. f[m[d].page] \in DOMAIN m /\ m[f[m[d].page]].page = m[d].page
    BY <1>1, <2>1
  <2> HIDE DEF f
  <2> QED  BY <2>1, <2>2 DEF MapOK
<1>3. f = [p \in P |-> f[p]]
  OBVIOUS
<1> HIDE DEF f, P
<1>4. f \in [P -> DOMAIN m]
  BY <1>1, <1>3
<1>5. \A p, q \in P : f[p] = f[q] => p = q
  BY <1>1
<1>6. f \in Bijection(P, DOMAIN m)
  <2>1. \A d \in DOMAIN m : \E p \in P : f[p] = d
    BY <1>2
  <2> QED  BY <1>4, <1>5, <2>1 DEF Bijection, Injection, Surjection, IsInjective
<1>7. ExistsBijection(P, DOMAIN m)
  BY <1>6 DEF ExistsBijection
<1>8. IsFiniteSet(P)
  BY DEF P
<1>9. IsFiniteSet(DOMAIN m) /\ Cardinality(DOMAIN m) = Cardinality(P)
  BY <1>7, <1>8, FS_Bijection
<1> QED  BY <1>9 DEF P

\* Sets without a common element.
LEMMA CountTogether ==
  ASSUME NEW A, NEW B, IsFiniteSet(A), IsFiniteSet(B), A \cap B = {}
  PROVE  /\ IsFiniteSet(A \cup B)
         /\ Cardinality(A \cup B) = Cardinality(A) + Cardinality(B)
<1>1. Cardinality(A) \in Nat /\ Cardinality(B) \in Nat /\ Cardinality({}) = 0
  BY FS_CardinalityType, FS_EmptySet
<1>2. /\ IsFiniteSet(A \cup B)
      /\ Cardinality(A \cup B) = Cardinality(A) + Cardinality(B) - Cardinality(A \cap B)
  BY FS_Union
<1>3. Cardinality(A \cap B) = 0
  BY <1>1
<1> QED  BY <1>1, <1>2, <1>3

\* Between calls every page in use has one owner, and every descriptor is in
\* exactly one list: neither gets lost and neither is in two places, also when
\* free_page has refused a page and the processor has left its HLT again.
THEOREM HeapIsAccounted == Spec => []HeapAccounted
<1>1. HeapInv => HeapAccounted
  <2> SUFFICES ASSUME HeapInv, pc = "idle"
               PROVE  /\ bits = lost \cup held \cup HeapPages
                      /\ Cardinality(bits) = Cardinality(lost) + Cardinality(held)
                                               + Cardinality(descPages) + Cardinality(InUse)
                      /\ SameElements(FlattenSeq(chain) \o free_bucket_desc, DescPlaces)
    BY DEF HeapAccounted
  <2>0. MapOK(desc, live) /\ ChainsOK(chain, desc) /\ OwnersInv /\ FreeInv
    BY DEF HeapInv
  <2>1. Sane /\ Returning = {} /\ Waiting = {}
    BY DEF Sane, Returning, Waiting
  <2>2. /\ bits = lost \cup held \cup descPages \cup BlockPages
        /\ lost \cap held = {} /\ descPages \cap (lost \cup held) = {}
        /\ BlockPages \cap (lost \cup held \cup descPages) = {}
    BY <2>0, <2>1 DEF OwnersInv
  <2>3. InUse = DOMAIN desc /\ HeapPages = descPages \cup BlockPages
    BY InUseIs DEF HeapPages, BlockPages
  <2>4. IsFiniteSet(bits)
    <3>1. N \in Nat /\ bits \subseteq Pages
      BY <2>0, PageFacts
    <3>2. Pages = 0 .. N - 1
      BY DEF Pages, N
    <3>3. IsFiniteSet(0 .. N - 1)
      BY <3>1, FS_Interval
    <3> QED  BY <3>1, <3>2, <3>3, FS_Subset
  <2>5. /\ IsFiniteSet(lost) /\ IsFiniteSet(held) /\ IsFiniteSet(descPages)
        /\ IsFiniteSet(BlockPages)
    <3>1. /\ lost \in SUBSET bits /\ held \in SUBSET bits /\ descPages \in SUBSET bits
          /\ BlockPages \in SUBSET bits
      BY <2>2
    <3> QED  BY <2>4, <3>1, FS_Subset
  <2>6. Cardinality(BlockPages) = Cardinality(DOMAIN desc)
    BY <2>0, <2>5, PagesPerDesc DEF BlockPages
  <2>7. Cardinality(bits) = Cardinality(lost) + Cardinality(held)
                              + Cardinality(descPages) + Cardinality(InUse)
    <3>1. /\ IsFiniteSet(lost \cup held)
          /\ Cardinality(lost \cup held) = Cardinality(lost) + Cardinality(held)
      BY <2>2, <2>5, CountTogether
    <3>2. (lost \cup held) \cap descPages = {}
      BY <2>2
    <3>3. /\ IsFiniteSet(lost \cup held \cup descPages)
          /\ Cardinality(lost \cup held \cup descPages)
               = Cardinality(lost \cup held) + Cardinality(descPages)
      BY <2>5, <3>1, <3>2, CountTogether
    <3>4. (lost \cup held \cup descPages) \cap BlockPages = {}
      BY <2>2
    <3>5. Cardinality(lost \cup held \cup descPages \cup BlockPages)
            = Cardinality(lost \cup held \cup descPages) + Cardinality(BlockPages)
      BY <2>5, <3>3, <3>4, CountTogether
    <3> QED  BY <2>2, <2>3, <2>6, <3>1, <3>3, <3>5
  <2>8. SameElements(FlattenSeq(chain) \o free_bucket_desc, DescPlaces)
    <3> DEFINE n == Len(bucket_dir)
               all == FlattenSeq(chain)
               both == all \o free_bucket_desc
    <3>1. n \in Nat \ {0} /\ Buckets = 1 .. n
      <4>1. n \in Nat /\ DOMAIN bucket_dir = 1 .. n /\ n # 0
        BY HeapAssumption
      <4> QED  BY <4>1 DEF Buckets
    <3> HIDE DEF n
    <3>2. /\ chain \in [1 .. n -> Seq(DescIds)]
          /\ \A i \in 1 .. n : IsInjective(chain[i])
          /\ \A i, j \in 1 .. n : i # j => Range(chain[i]) \cap Range(chain[j]) = {}
          /\ DOMAIN desc = UNION {Range(chain[i]) : i \in 1 .. n}
      BY <2>0, <3>1 DEF ChainsOK
    <3>3. /\ all \in Seq(DescIds) /\ IsInjective(all)
          /\ Range(all) = UNION {Range(chain[i]) : i \in 1 .. n}
      BY <3>1, <3>2, FlattenFacts
    <3>4. Range(all) = DOMAIN desc
      BY <3>2, <3>3
    <3>5. /\ free_bucket_desc \in Seq(DescIds) /\ IsInjective(free_bucket_desc)
          /\ Range(free_bucket_desc) \cap DOMAIN desc = {}
          /\ DescPlaces = Range(free_bucket_desc) \cup DOMAIN desc
      BY <2>0, <2>1 DEF FreeInv
    <3> HIDE DEF all
    <3>6. Range(all) \cap Range(free_bucket_desc) = {}
      BY <3>4, <3>5
    <3>7. /\ both \in Seq(DescIds) /\ IsInjective(both)
          /\ Range(both) = Range(all) \cup Range(free_bucket_desc)
      BY <3>3, <3>5, <3>6, JoinFacts
    <3> HIDE DEF both
    <3>8. Len(both) = Cardinality(Range(both))
      BY <3>7, LengthIsCount
    <3>9. Range(both) = DescPlaces
      BY <3>4, <3>5, <3>7
    <3>10. SameElements(both, DescPlaces)
      BY <3>8, <3>9 DEF SameElements
    <3> QED  BY <3>10 DEF both, all
  <2> QED  BY <2>2, <2>3, <2>7, <2>8
<1> QED  BY <1>1, HeapSound, PTL
=============================================================================
