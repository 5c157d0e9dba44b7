----------------------------- MODULE PageAlloc ------------------------------
(***************************************************************************)
(* The physical page allocator: x64/mm/mm.c over x64/kernel/bitmap.c.      *)
(*                                                                         *)
(* Pages are numbered from PHY_MEM_USE_START.  The bitmap is the set of    *)
(* its bits that are 1.  It is not cleared at first: memset (x64/lib/      *)
(* string.c) never advances its pointer, so that bitmap_init stores a 0    *)
(* only in the first byte and the others keep what the memory at           *)
(* BITMAP_ADDR held before, any value.                                     *)
(*                                                                         *)
(* HLT() waits for an interrupt.  Where interrupts are enabled the code    *)
(* behind it runs on, where they are not the processor stays there.        *)
(***************************************************************************)
EXTENDS Integers, Sequences, FiniteSetsExt

CONSTANTS
  WORD,               \* 2^32: the zone is computed in 32 bits
  PAGE_SIZE,          \* 4096
  PHY_MEM_USE_START,  \* the first address that is handed out
  BYTE_BITS,          \* 8, the bits in an entry of the bitmap
  ArdsTables          \* the memory maps a BIOS may report

ZONE_MEMORY == 1

ASSUME PageAssumption ==
  /\ WORD \in Nat /\ PHY_MEM_USE_START \in 1 .. (WORD - 1)
  /\ PAGE_SIZE \in Nat \ {0}
  /\ BYTE_BITS \in Nat \ {0}
  /\ ArdsTables \subseteq Seq([base : Nat, length : Nat, type : Nat])

VARIABLES
  ards,    \* the memory map left by the boot loader
  length,  \* physics_memory_map.bitmap.length, in bytes
  bits,    \* the bits of the bitmap that are 1
  lost,    \* history: the bits that were 1 before any page was taken
  held,    \* the pages that callers of get_free_page may give back
  arg,     \* the page that is being given back
  intr,    \* the interrupt flag: STI has been executed
  pc       \* "boot", "idle", or why the processor waits in HLT

pageVars == <<ards, length, bits, lost, held, arg, intr, pc>>

-----------------------------------------------------------------------------
(***************************************************************************)
(* phy_memory_init                                                         *)
(***************************************************************************)
zone_start(e) == e.base % WORD
zone_end(e) == (zone_start(e) + (e.length % WORD)) % WORD

Bug_any_type(e) ==
  zone_start(e) < PHY_MEM_USE_START /\ zone_end(e) > PHY_MEM_USE_START
HoldsStart(e) ==
  /\ zone_start(e) < PHY_MEM_USE_START
  /\ zone_end(e) > PHY_MEM_USE_START
  /\ e.type = ZONE_MEMORY

\* The first of these entries is taken for the zone.
Zones(table) == {k \in DOMAIN table : HoldsStart(table[k])}

\* Of the firmware: an entry at 4G or above, whose low half the code looks at,
\* comes behind the RAM around PHY_MEM_USE_START.
ASSUME LowZoneAssumption ==
  \A table \in ArdsTables : \A k \in Zones(table) :
    table[k].base < WORD \/ \E j \in Zones(table) : j < k /\ table[j].base < WORD

pages_total(table) ==
  IF Zones(table) = {} THEN 0
  ELSE (zone_end(table[Min(Zones(table))]) - PHY_MEM_USE_START) \div PAGE_SIZE

\* What is left of the zone when its last, incomplete byte is cut off.
bitmap_length(table) == pages_total(table) \div BYTE_BITS

bitmap_init(len) ==
  /\ length' = len
  /\ bits' \in SUBSET (BYTE_BITS .. len * BYTE_BITS - 1)
  /\ lost' = bits'

phy_memory_init ==
  /\ pc = "boot"
  /\ bitmap_init(bitmap_length(ards))
  /\ pc' = "idle"
  /\ UNCHANGED <<ards, held, arg, intr>>

-----------------------------------------------------------------------------
(***************************************************************************)
(* bitmap.c.  run[n] is the loop's num when cur_bit is n: the number of    *)
(* bits in a row before n that are 0.                                      *)
(***************************************************************************)
Bug_run_goes_on(map) ==
  LET run[n \in 0 .. length * BYTE_BITS] ==
        IF n = 0 THEN 0 ELSE IF n - 1 \in map THEN run[n - 1] ELSE run[n - 1] + 1
  IN  run

FreeRun(map) ==
  LET run[n \in 0 .. length * BYTE_BITS] ==
        IF n = 0 \/ n - 1 \in map THEN 0 ELSE run[n - 1] + 1
  IN  run

bitmap_scan(map, count) ==
  LET ends == {n \in DOMAIN FreeRun(map) : n > 0 /\ FreeRun(map)[n] = count}
  IN  IF ends = {} THEN -1 ELSE Min(ends) - count

\* The page that get_free_page takes, -1 when there is none.
NextPage(map) == bitmap_scan(map, 1)

\* free_page compares the index of a page with a length in bytes.
Refused(index) == index >= length

-----------------------------------------------------------------------------
PageInit ==
  /\ ards \in ArdsTables
  /\ length = 0
  /\ bits = {}
  /\ lost = {}
  /\ held = {}
  /\ arg = 0
  /\ intr \in BOOLEAN
  /\ pc = "boot"

Bug_not_marked ==
  /\ pc = "idle"
  /\ NextPage(bits) # -1
  /\ held' = held \cup {NextPage(bits)}
  /\ UNCHANGED <<ards, length, bits, lost, arg, intr, pc>>
get_free_page ==
  /\ pc = "idle"
  /\ NextPage(bits) # -1
  /\ bits' = bits \cup {NextPage(bits)}
  /\ held' = held \cup {NextPage(bits)}
  /\ UNCHANGED <<ards, length, lost, arg, intr, pc>>

OutOfPages ==
  /\ pc = "idle"
  /\ NextPage(bits) = -1
  /\ pc' = "oom"
  /\ UNCHANGED <<ards, length, bits, lost, held, arg, intr>>

free_page(index) ==
  /\ pc = "idle"
  /\ held' = held \ {index}
  /\ IF Refused(index)
     THEN /\ pc' = "refused"
          /\ arg' = index
          /\ UNCHANGED bits
     ELSE /\ bits' = bits \ {index}
          /\ UNCHANGED <<arg, pc>>
  /\ UNCHANGED <<ards, length, lost, intr>>

\* Behind its HLT free_page clears the bit all the same.
ResumeFree ==
  /\ pc = "refused" /\ intr
  /\ bits' = bits \ {arg}
  /\ arg' = 0
  /\ pc' = "idle"
  /\ UNCHANGED <<ards, length, lost, held, intr>>

\* Behind the HLT of get_free_page the index is still -1: the caller gets the
\* page below PHY_MEM_USE_START.  What becomes of that memory is not modelled.
ResumeWithoutPage ==
  /\ pc = "oom" /\ intr
  /\ pc' = "wild"
  /\ UNCHANGED <<ards, length, bits, lost, held, arg, intr>>

PageStep ==
  \/ phy_memory_init
  \/ get_free_page \/ OutOfPages
  \/ \E index \in held : free_page(index)
  \/ ResumeFree \/ ResumeWithoutPage

PageSpec == PageInit /\ [][PageStep]_pageVars

-----------------------------------------------------------------------------
Pages == 0 .. length * BYTE_BITS - 1

PageTypes ==
  /\ ards \in ArdsTables
  /\ length \in Nat
  /\ lost \subseteq bits /\ bits \subseteq Pages
  /\ held \subseteq Pages
  /\ arg \in Pages \cup {0}
  /\ intr \in BOOLEAN
  /\ pc \in {"boot", "idle", "oom", "refused", "wild"}

\* Every bit that is set is a page that somebody has, the one that is being
\* given back, or one that was never free; and a page has one owner: what is in
\* use is never handed out again, what was given back is not lost.
PagesAccounted ==
  /\ bits = lost \cup held \cup (IF pc = "refused" THEN {arg} ELSE {})
  /\ lost \cap held = {}
  /\ pc = "refused" => arg \notin lost \cup held

\* All pages that are ever handed out are RAM below 4G according to the memory
\* map (the comment of mm.c:35), in spite of the arithmetic in 32 bits.
RAM(table) ==
  UNION {e.base .. (e.base + e.length - 1) :
           e \in {table[k] : k \in {i \in DOMAIN table : table[i].type = ZONE_MEMORY}}}
PageBytes(index) ==
  LET addr == PHY_MEM_USE_START + index * PAGE_SIZE
  IN  addr .. (addr + PAGE_SIZE - 1)
PagesAreRAM ==
  \A index \in Pages : PageBytes(index) \subseteq RAM(ards) \cap 0 .. (WORD - 1)

\* bitmap_scan returns the lowest place with count free bits in a row, -1 only
\* if there is none, also for the larger counts that no caller asks for yet.
FirstFit(map, count) ==
  LET fits == {s \in Pages : /\ s + count - 1 \in Pages
                             /\ s .. (s + count - 1) \cap map = {}}
  IN  IF fits = {} THEN -1 ELSE Min(fits)
ScanIsFirstFit ==
  \A count \in 1 .. length * BYTE_BITS : bitmap_scan(bits, count) = FirstFit(bits, count)

\* free_page takes back every page that get_free_page has handed out: one bit
\* stands for one page of 4K (mm.c:51).
FreesAccepted == pc # "refused"

\* A fresh bitmap has every page free: bitmap_init clears it (bitmap.c:13).
FreshMapIsFree == lost = {}
=============================================================================
