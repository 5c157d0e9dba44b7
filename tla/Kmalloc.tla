------------------------------ MODULE Kmalloc -------------------------------
(***************************************************************************)
(* The kernel heap: x64/mm/malloc.c on top of the page allocator.          *)
(*                                                                         *)
(* Addresses are counted from PHY_MEM_USE_START.  The list through the     *)
(* free blocks of a page is the sequence of their addresses, the lists of  *)
(* descriptors are sequences of descriptors; descriptor k of page p is     *)
(* <<p, k>>.  A call is one step, except where it waits in HLT: CLI and    *)
(* STI are commented out, but no interrupt handler calls the heap.         *)
(***************************************************************************)
EXTENDS PageAlloc, SequencesExt

CONSTANTS
  bucket_dir,   \* the block sizes of the buckets, ascending
  DESCS,        \* PAGE_SIZE / sizeof(struct bucket_desc)
  Lengths       \* the sizes that callers ask for and free with

ASSUME HeapAssumption ==
  /\ bucket_dir \in Seq(1 .. PAGE_SIZE) /\ bucket_dir # <<>>
  /\ DESCS \in Nat \ {0}
  /\ Lengths \subseteq Nat

VARIABLES
  chain,             \* the descriptors of every bucket
  free_bucket_desc,  \* the descriptors that are not in use
  desc,              \* the contents of the descriptors on the chains
  bdesc,             \* the descriptor that kfree_s has taken off its chain
  descPages,         \* history: the pages made into descriptors
  live               \* history: the blocks, <<address, size>>, that callers hold

heapVars == <<chain, free_bucket_desc, desc, bdesc, descPages, live>>
kmVars == <<pageVars, heapVars>>

Buckets == DOMAIN bucket_dir
NoDesc == <<-1, 0>>

-----------------------------------------------------------------------------
Fitting(len) == {b \in Buckets : bucket_dir[b] >= len}

\* The descriptors of the bucket that have a free block; the first is used.
Bug_first_only(b) == {k \in DOMAIN chain[b] \cap {1} : desc[chain[b][k]].freeptr # <<>>}
WithFree(b) == {k \in DOMAIN chain[b] : desc[chain[b][k]].freeptr # <<>>}

Bug_one_block_more(page, size) ==
  [k \in 1 .. (PAGE_SIZE \div size) + 1 |-> page * PAGE_SIZE + (k - 1) * size]
BlocksOf(page, size) ==
  [k \in 1 .. (PAGE_SIZE \div size) |-> page * PAGE_SIZE + (k - 1) * size]

\* The block at the head of freeptr is handed out.
Bug_freeptr_kept(d) == [d EXCEPT !.refcnt = @ + 1]
Taken(d) == [d EXCEPT !.freeptr = Tail(@), !.refcnt = @ + 1]

kmalloc(len) ==
  /\ pc = "idle"
  /\ Fitting(len) # {}
  /\ LET b == Min(Fitting(len))
     IN  /\ WithFree(b) # {}
         /\ LET d == chain[b][Min(WithFree(b))]
            IN  /\ desc' = [desc EXCEPT ![d] = Taken(@)]
                /\ live' = live \cup {<<Head(desc[d].freeptr), bucket_dir[b]>>}
  /\ UNCHANGED <<pageVars, chain, free_bucket_desc, bdesc, descPages>>

(***************************************************************************)
(* No free block: init_bucket_desc if there is no free descriptor, then a  *)
(* page for the blocks.                                                    *)
(***************************************************************************)
NoFreeDesc == free_bucket_desc = <<>>
Descs == IF NoFreeDesc THEN [k \in 1 .. DESCS |-> <<NextPage(bits), k>>]
                       ELSE free_bucket_desc
init_bucket_desc == IF NoFreeDesc THEN {NextPage(bits)} ELSE {}
BlockPage == NextPage(bits \cup init_bucket_desc)

DescFails == NoFreeDesc /\ NextPage(bits) = -1
PageFails == ~DescFails /\ BlockPage = -1

\* A descriptor is taken; it needs a page if there was none.
TakeDesc ==
  /\ free_bucket_desc' = Tail(Descs)
  /\ descPages' = descPages \cup init_bucket_desc

kmalloc_page(len) ==
  /\ pc = "idle"
  /\ Fitting(len) # {}
  /\ ~DescFails /\ ~PageFails
  /\ LET b == Min(Fitting(len))
         d == Head(Descs)
         size == bucket_dir[b]
         new == [page |-> BlockPage, bucket_size |-> size, refcnt |-> 0,
                 freeptr |-> BlocksOf(BlockPage, size)]
     IN  /\ WithFree(b) = {}
         /\ TakeDesc
         /\ desc' = [x \in DOMAIN desc \cup {d} |-> IF x = d THEN Taken(new) ELSE desc[x]]
         /\ chain' = [chain EXCEPT ![b] = <<d>> \o @]
         /\ live' = live \cup {<<Head(new.freeptr), size>>}
  /\ bits' = bits \cup init_bucket_desc \cup {BlockPage}
  /\ UNCHANGED <<ards, length, lost, held, arg, intr, pc, bdesc>>

\* Not enough pages.  The descriptor that has been taken is in no list.
OutOfMemory ==
  /\ \/ DescFails /\ UNCHANGED <<bits, free_bucket_desc, descPages>>
     \/ PageFails /\ TakeDesc /\ bits' = bits \cup init_bucket_desc
  /\ pc' = "oom"

kmalloc_fails(len) ==
  /\ pc = "idle"
  /\ Fitting(len) # {} /\ WithFree(Min(Fitting(len))) = {}
  /\ OutOfMemory
  /\ UNCHANGED <<ards, length, lost, held, arg, intr, chain, desc, bdesc, live>>

(***************************************************************************)
(* A size above that of the last bucket.  Behind the HLT the code goes on  *)
(* with the end marker of bucket_dir, takes a descriptor and a page and    *)
(* divides by its size 0; the handler of that exception never returns.     *)
(***************************************************************************)
kmalloc_too_large(len) ==
  /\ pc = "idle"
  /\ Fitting(len) = {}
  /\ pc' = "too_large"
  /\ UNCHANGED <<ards, length, bits, lost, held, arg, intr, heapVars>>

ResumeTooLarge ==
  /\ pc = "too_large" /\ intr
  /\ \/ OutOfMemory
     \/ /\ ~DescFails /\ ~PageFails
        /\ TakeDesc
        /\ bits' = bits \cup init_bucket_desc \cup {BlockPage}
        /\ pc' = "divided"
  /\ UNCHANGED <<ards, length, lost, held, arg, intr, chain, desc, bdesc, live>>

-----------------------------------------------------------------------------
(***************************************************************************)
(* kfree_s looks for the page of the block on the chains of the buckets    *)
(* that are large enough for size.                                         *)
(***************************************************************************)
PageOf(addr) == addr \div PAGE_SIZE

Owners(addr, size) ==
  {d \in UNION {Range(chain[b]) : b \in Fitting(size)} : desc[d].page = PageOf(addr)}

Bug_cuts_chain(list, d) ==
  LET k == {i \in DOMAIN list : list[i] = d}
  IN  IF k = {} THEN list ELSE SubSeq(list, Min(k) + 1, Len(list))
Unlinked(list, d) == RemoveFirst(list, d)

\* Bad address: nothing happens, the caller keeps a block it does not use.
\* The step is left out: it changes nothing.
Found(block, size) == Owners(block[1], size) # {}

Returned(d, addr) == [d EXCEPT !.freeptr = <<addr>> \o @, !.refcnt = @ - 1]

kfree_s(block, size) ==
  /\ pc = "idle"
  /\ Found(block, size)
  /\ LET d == CHOOSE x \in Owners(block[1], size) : TRUE
     IN  /\ desc[d].refcnt > 1
         /\ desc' = [desc EXCEPT ![d] = Returned(@, block[1])]
  /\ live' = live \ {block}
  /\ UNCHANGED <<pageVars, chain, free_bucket_desc, bdesc, descPages>>

\* The last block of the page: the descriptor leaves its chain, the page goes
\* back to the page allocator, the descriptor to the free ones.
Bug_early_release(d) == desc[d].refcnt <= 2
LastBlock(d) == desc[d].refcnt = 1

kfree_s_last(block, size) ==
  /\ pc = "idle"
  /\ Found(block, size)
  /\ LET d == CHOOSE x \in Owners(block[1], size) : TRUE
         page == desc[d].page
     IN  /\ LastBlock(d)
         /\ chain' = [b \in Buckets |-> Unlinked(chain[b], d)]
         /\ desc' = Restrict(desc, DOMAIN desc \ {d})
         /\ IF Refused(page)
            THEN /\ pc' = "refused_block" /\ arg' = page /\ bdesc' = d
                 /\ UNCHANGED <<bits, free_bucket_desc>>
            ELSE /\ bits' = bits \ {page}
                 /\ free_bucket_desc' = <<d>> \o free_bucket_desc
                 /\ UNCHANGED <<pc, arg, bdesc>>
  /\ live' = live \ {block}
  /\ UNCHANGED <<ards, length, lost, held, intr, descPages>>

ResumeKfree ==
  /\ pc = "refused_block" /\ intr
  /\ bits' = bits \ {arg}
  /\ free_bucket_desc' = <<bdesc>> \o free_bucket_desc
  /\ pc' = "idle" /\ arg' = 0 /\ bdesc' = NoDesc
  /\ UNCHANGED <<ards, length, lost, held, intr, chain, desc, descPages, live>>

-----------------------------------------------------------------------------
Init ==
  /\ PageInit
  /\ chain = [b \in Buckets |-> <<>>]
  /\ free_bucket_desc = <<>>
  /\ desc = <<>>
  /\ bdesc = NoDesc
  /\ descPages = {}
  /\ live = {}

HeapStep ==
  \/ \E len \in Lengths :
       \/ kmalloc(len) \/ kmalloc_page(len)
       \/ kmalloc_fails(len) \/ kmalloc_too_large(len)
  \/ ResumeTooLarge
  \/ \E block \in live, size \in Lengths : kfree_s(block, size) \/ kfree_s_last(block, size)
  \/ ResumeKfree

Next == HeapStep \/ (PageStep /\ UNCHANGED heapVars)

Spec == Init /\ [][Next]_kmVars

-----------------------------------------------------------------------------
InUse == UNION {Range(chain[b]) : b \in Buckets}
DescPlaces == descPages \X (1 .. DESCS)
HeapPages == descPages \cup {desc[d].page : d \in InUse}
SameElements(s, S) == Range(s) = S /\ Len(s) = Cardinality(S)
CutUp(page, size) == {page * PAGE_SIZE + k * size : k \in 0 .. (PAGE_SIZE \div size) - 1}
LiveIn(page) == {block \in live : PageOf(block[1]) = page}

\* What one caller of kmalloc holds is not touched by anybody else: two blocks
\* never overlap, and no block lies in a page of descriptors or in a page that
\* get_free_page has given to another caller.
Bytes(block) == block[1] .. (block[1] + block[2] - 1)
BlocksDisjoint ==
  /\ \A x, y \in live : x # y => Bytes(x) \cap Bytes(y) = {}
  /\ \A x \in live : \A a \in Bytes(x) : PageOf(a) \notin descPages \cup held \cup lost

\* The free list of a page and the blocks in use cut up the page: nothing in
\* both, nothing lost, no block twice; refcnt counts the blocks in use, and a
\* page stays only while it has one.
FreeListsSound ==
  \A d \in InUse :
    LET page == desc[d].page
        size == desc[d].bucket_size
        used == {block[1] : block \in LiveIn(page)}
    IN  /\ used \cap Range(desc[d].freeptr) = {}
        /\ SameElements(desc[d].freeptr, CutUp(page, size) \ used)
        /\ desc[d].refcnt = Cardinality(used) /\ desc[d].refcnt > 0
        /\ \A block \in LiveIn(page) : block[2] = size

\* Between calls, also behind an HLT that was left again: a page has one owner
\* and every page in use has one, every descriptor is in exactly one list.
HeapAccounted ==
  pc = "idle" =>
    /\ bits = lost \cup held \cup HeapPages
    /\ Cardinality(bits) = Cardinality(lost) + Cardinality(held)
                             + Cardinality(descPages) + Cardinality(InUse)
    /\ SameElements(FlattenSeq(chain) \o free_bucket_desc, DescPlaces)

\* kfree_s finds the descriptor of a block with every size up to that of its
\* bucket, whatever the caller once asked for; the check for a changed chain
\* (malloc.c:178) never sees one.
FreeFindsOwner ==
  \A block \in live, size \in Lengths :
    size <= block[2] =>
      \E d \in InUse : Owners(block[1], size) = {d} /\ desc[d].bucket_size = block[2]

\* A page is taken for a bucket only when all blocks of its pages are in use.
GrowsOnlyWhenFull ==
  [][ \A b \in Buckets :
        Len(chain'[b]) > Len(chain[b]) =>
          \A k \in DOMAIN chain[b] :
            \A a \in CutUp(desc[chain[b][k]].page, bucket_dir[b]) :
              <<a, bucket_dir[b]>> \in live ]_kmVars

\* Who runs out of memory is told so (malloc.c:47, malloc.c:109), and never
\* goes on with an address below the memory that is managed.
OutOfMemoryIsTold == pc # "wild"
=============================================================================
