# Verification of os_demo

TLA+ models of the boot loader and the 32-bit kernel in `oskernel/` and of the
kernel in `x64/`, configurations that check them with TLC, and proofs that TLAPS
checks.

- [The system](#the-system): components, state, interactions, what is hard
- [Plan](#plan)
- [Modules](#modules): how state and actions correspond to the code
- [Runs](#runs): what each shows, bounds, fairness
- [Proofs](#proofs): what is proved, and along which argument
- [Disagreements](#disagreements): where the code does not do what it says
- [Mutants](#mutants)
- [Not modelled](#not-modelled)

## The system

A BIOS boot sector (`oskernel/boot`) reads the memory map and two kernels from
the disk. The 32-bit kernel (`oskernel/init`, `oskernel/kernel`) checks the CPU,
builds page tables and enters 64-bit mode. The 64-bit kernel (`x64/`) sets up the
console, copies the memory map into the boot memory allocator, programs the
interrupt controller and the interrupt table, enables interrupts and waits in
`HLT`. There is one processor, and only the keyboard interrupts it. The page
allocator and the heap are complete but only test programs call them.

| Component | Source | State | Operations | Correct when |
|---|---|---|---|---|
| Boot memory allocator | `x64/mm/memblock.c` | two arrays of regions with count and total | add, reserve, free, allocate a range | the arrays stand for two sets of addresses; an allocation is free RAM and the highest place that fits; every call ends |
| Memory map, set-up | `x64/kernel/e820.c` | copy of the firmware's table | copy, enter the usable entries | memory is exactly the usable bytes, for any order of entries |
| Page allocator | `x64/mm/mm.c`, `x64/kernel/bitmap.c` | a bitmap, its length | set-up, take a page, give one back | a page has one owner, and is RAM |
| Heap | `x64/mm/malloc.c` | chains of page descriptors per block size, free descriptors, free lists in the pages | `kmalloc`, `kfree_s` | blocks are disjoint, nothing is lost |
| Text console | `x64/kernel/chr_drv/console.c` | video memory, screen start, cursor (twice), controller registers | write a text, scroll | the display is a page of a terminal |
| Keyboard | `x64/kernel/chr_drv/keyboard.c` | modifiers, locks, the 0xe0 flag | one interrupt per byte | what is printed is what the codes of the keys tell, however late they are taken |
| Formatted output | `vsprintf.c`, `printk.asm` | one shared buffer, the list of arguments, the width | `printk` | the text is what was asked for, each conversion with its own argument |
| Strings | `lib/string.c` | none | memcpy, memmove, memset, strcpy, strlen, strcmp | copies are exact however ranges overlap, nothing else is written |
| Interrupts, main program | `main64.c`, `idt.c`, `pic.c`, `exception.c`, `interrupt.asm` | interrupt table, masks and requests of two 8259A, the flag, handlers that run | set-up, entry, end of interrupt | nothing interrupts before the set-up is complete, nothing interrupts a printer, no key is forgotten |
| Boot loader | `oskernel/boot/*.asm` | memory map at 0x7e00, two kernel images | BIOS and disk loops | it ends or stops for a reason; nothing in use is written over, also after a reset |
| Change to 64 bits | `oskernel/init`, `gdt.c` | modes of the processor, page tables, descriptors | CPU checks, mode switch | the processor accepts every step; segments in use stay valid |

The set-up calls the boot memory allocator; the heap calls the page allocator;
the keyboard handler calls `printk`, which calls the console; everybody prints.
The memory map at 0x7e00 is the only data that the boot loader leaves to the
kernel, and both allocators read it.

What is hard here is seldom concurrency: one processor, one handler. It is
arithmetic on ranges (in place, in two passes, with indices that are set back),
long sequences of calls, arrays and pools at their limit, the `HLT` in error
paths that is left again when interrupts are enabled, and cached copies (cursor,
start register, modifier flags). Where there are several actors (the devices
against the set-up of the interrupts, a reset in the middle of a boot) what
matters is the order of steps that nobody can test at every point. PROJECT.json lists the places under "hazards", each with the properties
that look at it.

## Plan

In this order:

1. **Boot memory allocator** (done): `Memblock` with one step per loop iteration,
   `MemblockSpec` as what it promises; the inductive invariant and its proof.
2. **Page allocator and heap** (done): `PageAlloc`, `Kmalloc` which extends it;
   proof of ownership and of the scan.
3. **Console and keyboard** (done): `Console` refining `Terminal`, proved; `Keyboard`
   with a typist.
4. **Interrupts and main program** (done): `Interrupts` around `Keyboard`, with two
   controllers, the flag and the tests of `main64.c`; proof of its invariants.
5. **Boot loader and change to 64 bits** (done): `Boot`, which ends in `E820` and
   `Memblock`, with failing reads and resets.
6. **Strings and formatted output** (done): `Strings`, `Vsprintf`; proof of the copies.
7. **Proofs** (done): the refinement of `MemblockSpec`, the counting of regions and
   bytes, all safety properties of `Boot`, the measures of the string functions,
   the reports of exceptions, `PagesAreRAM`, all safety properties of the heap, of
   the keyboard driver and of the formatted output. Every invariant and action
   property of a passing run is stated by a theorem.

What composes what: `Boot` extends `E820`, which extends `Memblock` (through
`MemblockProps`); `Kmalloc` extends `PageAlloc`; `Interrupts` extends `Keyboard`;
`Vsprintf` extends `Strings`. `Console` is not composed with `Interrupts`:
`OnePrinter` shows that its calls never overlap, which is what `Console` takes
for granted.

No module declares a RECURSIVE operator; loops over data are steps or recursive
functions.

## Modules

### Memblock, MemblockProps, MemblockInv, MemblockSpec

`Memblock` is `memblock.c`. `mb[t].regions` is the used part of
`memblock.memory.regions` or `memblock.reserved.regions` (indices from 1), its
length is `cnt`, `mb[t].total` is `total_size`; `fr` holds the locals of the loop
that `pc` names.

| pc | Code | Actions |
|---|---|---|
| idle | a call begins | `memblock_add`, `memblock_reserve`, `memblock_free`, `memblock_phys_alloc_range` |
| count, insert | the two passes of `memblock_add_range` | `ScanSkip` (`continue`), `ScanOverlap`, `CountFront`, `InsertFront`, `CountDone` (`goto repeat`), `InsertDone`, `InsertBug` |
| merge | `memblock_merge_regions` | `Merge`, `MergeNext`, `MergeDone` |
| isolate | `memblock_isolate_range` | `IsolateSkip`, `IsolateFront`, `IsolateBack`, `IsolateWhole`, `IsolateDone` |
| remove | `memblock_remove_range` | `RemoveLast`, `RemoveDone` |
| find | `__next_mem_range_rev` in `__memblock_find_range_top_down` | `FindPrevRegion`, `FindPrevGap`, `FindTry`, `FindHit`, `FindFail` |
| reserve | the reservation in `memblock_alloc_range_nid` | `AllocReserve` |

`hung` says that a `BUG_ON` has executed `HLT`; interrupts are off while the
allocator is used, so it is never left. The code is sequential; it is cut into
steps because the `BUG_ON`s and `WARN_ON`s speak of the states inside of a call,
and because the loops are what a proof is about. `flags` and `nid` are the same in
all calls and left out, which makes the retry for other nodes (never taken)
disappear. `round_down` is its meaning for a power of two.

`MemblockSpec` has no arrays: sets of addresses `mem` and `resv`, and the highest
fitting place for an allocation. `ImplementsSets` is the refinement; the mapping
counts a call as done when it begins (`Adding`, `Removing`).

`MemblockInv` has the inductive invariant `IInv` and what is added to it for the
refinement (`SetsInv`) and for counting (`RoomInv`, `TotalInv`).

### E820, Boot

`E820` has the steps of `e820.c`: `e820__memory_setup` copies the table,
`SetupAdd` and `SetupSkip` are the turns of the loop of `e820__memblock_setup`, whose
calls run in the steps of `Memblock`. Then allocations are served (`Allocate`).

`Boot` is what goes before, from power on, and gives the composition its
specification. `stage` is where the boot code is:

| stage | Code | Actions |
|---|---|---|
| mbr | `boot.asm` | `LoadSetup`, `SetupNotRead` |
| query | `setup.asm`, a call of int 15h each | `detect_memory_e820`, `detect_mem_err` |
| protect | `setup.asm` from `cli` to the far jump | `enter_protected_mode` |
| read32, read64 | `read_hd`, a sector each | `DiskAnswers`, `ReadKernel32`, `ReadKernel64` |
| check | `main.c` | `kernel_main` |
| pae, tables, lme, pg, gdt, jump | `enter_x64.c`, `gdt.c` | `SetPAE`, `load_pml4`, `SetLME`, `SetPG`, `install_x64_descriptor`, `FarJump` |
| main_x64 | `main64.c`, `e820.c`, `memblock.c` | `MemorySetup`, `SkipEntry`, `AddEntry`, `Work`, `Alloc` |
| halted, stuck, fault | | `TripleFault` leads from fault to a reset |

Memory is a set of areas at their addresses in the source, of which `intact` are
those that hold what was put there, and the entries of the memory map (`map`).
`Store` is a write: an area it touches is no longer intact, and an entry under a
page table has an unknown type. `map` and `num` survive a reset, as memory does;
so do the data of the kernels until their images are read again
(`ReadKernel64`: the sectors behind the kernel are zero). `Bus` is the line A20.
`Mode` is a change of mode, which the processor carries out or refuses. Firmware,
disk, processor and reset are external. `e820.c` does not reserve anything, so
where the kernels lie does not matter to `Memblock`.

### PageAlloc

`bits` is the set of bits that are 1, `length` the number of bytes.
`phy_memory_init` computes the zone in words of `WORD` values; the bits that the
broken `memset` leaves as they were are any set, except in the first byte.
`get_free_page` is the scan and its marking together. `HLT` is `pc` "oom" or
"refused"; with `intr` the code behind it is executed (`ResumeFree`,
`ResumeWithoutPage`). `held` and `lost` are history.

### Kmalloc

Extends `PageAlloc`; its callers and callers of `get_free_page` alternate. `chain[b]`
and `free_bucket_desc` are lists of descriptors, a descriptor is `<<page, k>>`, and
`desc[d]` its contents, `freeptr` being the list through the free blocks.
`kmalloc` takes a block of a page that has one, `kmalloc_page` takes a page (and,
if there is no descriptor, one for descriptors first), `kmalloc_fails` and
`kmalloc_too_large` end in `HLT`. `kfree_s` and `kfree_s_last` differ in what
happens to the page; `ResumeKfree` is the rest of `kfree_s` behind the `HLT` of
`free_page`. `live` is history: callers free what they hold, once, with any size.

### Console, Terminal

`con` has the video memory and the static variables; addresses count cells. One
step is one character of `console_write`; `set_cursor` ends the call. `crt_start`
and `crt_cursor` are the registers. `Terminal` is a page of characters with a
cursor and nothing else; `Shown`, what the controller displays, implements it.

### Keyboard, Interrupts

`keyboard_interrupt_handler` is split into `ExtendedByte`, `Unsupported`, `Break` and
`Make`; each is the handler for one byte, behind an interrupt gate, so nothing
interrupts it (`OnlyKeys` and `OnePrinter` check that). A character is its place in
`keymap`. External: `Press`, `Repeat`, `Release` put the bytes of a key into `queue`;
every key may repeat while it is down, the lock keys too, and both keys of a
pair may be down. `held` and `locked` are what the person does. What the codes
tell of it is less, and two history variables say how much: `lifted` has the pairs
one key of which has gone up while the other stayed down, until one of them sends
its make code again (its break code is also the pair's, `keyboard.c:236`), and `turned` is whether
caps lock has repeated an odd number of times (`keyboard.c:247` toggles at each make
code). `Told` and `Upper` are the modifiers without these. `due` has the characters that
the codes sent so far mean, by the table and its comments with `Told` and `Upper`;
`printed` pairs what was printed with what was due.

`Interrupts` puts `main_x64` and the hardware around it. `main` is where `main_x64` is
(memory, pic, idt, test, sti, hlt); `pic_init` is one step per byte written, of
`init_8259a`. `chip` has the two 8259A (external): which word of the initialisation
they wait for, vector base, mask, requests, in service, automatic EOI.
`frames` are the handlers that have not returned, innermost first, each in its
body or before its `iretq`; entry and body are separate steps, so that requests
come in between. `Present` hands a byte to the output buffer (`obf`) and raises
line 1, which stays until it is acknowledged; `Tick` raises line 0. `test` is the
test that is compiled into `main_x64`: none, the one that is called, or one that
is commented out. `early` remembers that a byte waited when `pic_init` began.

### Strings, Vsprintf

`Strings` is `string.c`. A caller prepares memory (`caller`) and calls one function;
then each turn of its loop is a step. The registers `d`, `s`, `n` are the locals.
`call` and `was` are history: the arguments, and the memory when the call was
made. Callers of `memcpy` copy downwards or between ranges that lie apart, those
of `memmove` between any.

`Vsprintf` is `vsprintf.c` of both kernels (`x64` says which): int and no width in
the 32-bit one, long long and a width in the other. A step is a character of
the format or of a string; `number` is one step, its loop the recursive function
`DigitsOf`. `printk` is the call, for a list of conversions; `wanted` is the text that
the list asks for, by the reference definitions `Numeral`, digits by powers of the
base, and `TextAt`, which know nothing of digits computed from the end. At `vsprintf_end`
the buffer and the count are ready for `console_write`; `console_written` is the rest of
`printk`. The 32-bit one returns the count (`printk.c:18`). The other one has it in rax,
which `console_write` overwrites (`printk.asm:33-40`), and returns any of `Leftovers`.

### Proof modules

`MemblockProofs`, `MemblockRefinement`, `BootProofs`, `PageAllocProofs`,
`KmallocProofs`, `ConsoleProofs`, `StringsProofs`, `InterruptsProofs`: see [Proofs](#proofs). The `MC` modules have the values of the
constants.

## Runs

| Run | Bounds | Shows |
|---|---|---|
| memblock_ranges | addresses 0..7, 3 regions, every base and size, the ones that wrap included | `Ordered`, `Canonical`, `Accounting`, `HangsOnlyWhenFull`, `ImplementsSets` for reserve and free |
| memblock_alloc | addresses 0..7, 4 regions, two banks and a range over both, four reservations, three frees, 36 requests | `TypeOK`, `AllocFree`, `ImplementsSets` with allocations, `CallsReturn` |
| boot | addresses 0..4, all disjoint tables of up to 3 entries of 3 types in any order, some of 4; four generations of processors; one reset | `NoFault`, `SelectorsValid`, `StillThere`, `MemoryIsUsable`, `AllocUsable`, `BootEnds` |
| page_alloc | words of 64, pages of 2, bytes of 3 bits, four maps | `PagesAccounted`, `PagesAreRAM`, `ScanIsFirstFit` |
| kmalloc | five pages of 4, buckets of 2 and 4, two descriptors per page | `BlocksDisjoint`, `FreeListsSound`, `HeapAccounted`, `FreeFindsOwner`, `GrowsOnlyWhenFull` |
| console | screen of 2 lines of 3, memory of 13 cells, texts of 1 or 2 characters | `CursorInPlace`, `HardwareFollows`, `ImplementsTerminal` |
| interrupts | 12 keys, each of which repeats, 2 down at once, both of a pair too, 3 bytes waiting; no test and four tests | `PrintedAsTyped`, `ModifiersFollow`, `ReadyBeforeSTI`, `OnlyKeys`, `OnePrinter`, `EdgeKept`, `ReportIsTrue`, `TestIsLast`, `KeysServed` |
| library | 18 bytes of memory, 6 of them in front of the buffer; integers of 8 bits, all of them; widths 0, 1, 3, 10; 1 or 255 left in rax | `CopyIsExact`, `StringsMeasured`, `PrintedAsAsked`, `NothingElse`, `CallsReturn` |
| page_frees, page_fresh, kmalloc_oom, cpu_unsupported | as above | see [Disagreements](#disagreements) |

**Why the bounds are enough.** Memblock compares ends of ranges and does nothing
else with addresses: eight addresses hold three separate regions, with a range
below, between, over the edge of, equal to and around any of them, and the
capacity of three is exceeded by fronts, tails and splits. With four regions the
second run has room for allocations to succeed in several gaps and fail for want
of space, of alignment and of limits. For the allocator of pages the four maps are
RAM in two parts, nothing to manage, an incomplete byte, and a zone that ends at
the end of the word. The heap's chains get three long, so that the first, a middle
and the last descriptor are taken out, and pages run out both for descriptors and
for blocks. The screen slides down twice, moves back and slides again. In
the boot the sizes are those of the source except three: an entry of the map has
160 bytes instead of 20 and a sector 7680 instead of 512, with 2 and 17 sectors
for the kernels instead of 30 and 255. So the map reaches the page tables with
its fourth entry (in the source with its 26th), the 32-bit kernel ends where it
ends in the source, and the 64-bit one is read over the same 130 KB as there; what
overlaps what is unchanged. One reset comes at every step, and a second boot
shows all that memory can carry over. The keys are one of every kind that the
handler tells apart; three bytes hold two keys, one of them with 0xe0, and the
interrupt comes before, between and after; two keys down are a pair, of which
either goes up first, or a modifier and a letter. Num lock is not among the keys
of the run: nothing uses its flag (`keyboard.c:246`), which would only
double the states (the proofs are for every set of keys). The memory of the library has room
for two ranges that overlap in every way, and 8-bit integers reach the least
negative number, three decimal digits and two hexadecimal ones. Where there is
a proof the bounds do not matter.

**Unbounded counters.** `MaxCount`, `MaxHeld` and `MaxQueue` bound the length of a
text, the keys that are down and the bytes that wait; `MaxResets` the resets that
somebody causes. The history `due` has no bound of its own: it holds the characters
of the bytes that wait.

**Fairness.** `FairSpec` of `Memblock` has weak fairness of `Step`, the loops of a call
that has begun: there is one processor, interrupts are off, nothing else runs. Not
of calls: nobody has to call. `BootSpec` has weak fairness of the processor (`CpuStep`)
and of the disk, which answers, if only with an error; not of allocations and
resets. `IntSpec` has weak fairness of the processor and of the keyboard
controller, which hands over a byte that waits; nobody has to press a key. `Spec`
of `Vsprintf` has weak fairness of the loops of a call and of the return of
`console_write`, a loop over the count. The other specifications
have no fairness and no liveness property.

**Deadlock** is not checked where the processor really stops: in a `HLT` with
interrupts off, after an error whose consequences are not modelled (`page_*`,
`kmalloc*`), and in `interrupts`, where the exception handler never returns and a
full queue stops the typist. `Memblock` has `Halted` instead, `Boot` the stutter of `Ended`.

## Proofs

`tlapm` checks all of it, for every value of the constants that satisfies the
named assumptions: sizes are positive numbers, `PAGE_SIZE` is an address, the
arguments of calls are addresses (`SizesAssumption`, `CallsAssumption`), the screen
fits into the video memory (`ConsoleAssumption`), memory maps consist of natural
numbers (`PageAssumption`, `LowZoneAssumption`), there are buckets, none larger than a
page (`HeapAssumption`), memory of bytes (`MemoryAssumption`), a test raises
the vector of an exception (`TestsAssumption`), the buffer of `printk` is an address,
words come in two halves, `console_write` leaves some word in rax, and a conversion has a character other than 0, a
width and a word (`FormatAssumption`). Of the boot: a firmware table has
between one entry and as many as the kernels have room for (`BootAssumption`,
`TableAssumption`; more are [not modelled](#not-modelled)), a processor with long
mode has extended addresses (`LongModeAssumption`, a fact of the architecture on
which the code relies: `x64_cpu_check` looks for long mode only), and the image of the 32-bit kernel ends below the number of map entries
(`LayoutAssumption`: it starts at 0x1200 and has 30 sectors of 512 bytes, 0x3c00 bytes,
and so ends at 0x4e00, below 0x7e00).

**Boot memory allocator** (`MemblockProofs`): `Invariance` (`IInv`), `TypeCorrect`,
`AlwaysOrdered`, `CanonicalBetweenCalls`, `AllocationsAreFree`. None of the
properties is inductive: that the array is canonical when a call returns follows
from what each loop has established before its index. `IInv` therefore has one
part per loop. `ScanInv`: regions before `idx` lie below what is left of the range,
so that an insertion there keeps the order. `MergeInv`: up to `idx` nothing touches.
`IsolateInv`: only the cuts at the two ends make neighbours touch, and the regions
between `start_rgn` and `end_rgn` are those in the range. `RemoveInv`: every region
that is not on the list is outside of the range, so that the array is canonical
when the list is gone. `OthersCanonical`: the array that no loop works on is
canonical. There is one lemma per action; lemmas about `InsertAt`, `RemoveAt`
and ordered arrays come first. Since after a `BUG` the array may have lost a
part, only the types are kept then, and `HangsInLoops` says where that can be.

**Boot memory allocator as sets** (`MemblockRefinement`): `ArraysImplementSets`,
from the invariant `SetsInv` (`BytesDoneSoFar`). Each step is a step of `MemblockSpec`
or changes nothing of its two sets, so each loop must say which bytes it has
dealt with. `ScannedInv`: what the range had below `fr.base` is covered (second
pass), and `Adding` is the rest. `RemovableInv`: the regions on the list are the
bytes of the range, which `Removing` leaves out. `SearchInv`: no place above those
looked at fits, so that the first hit is the highest place of the abstract
search. One lemma per action says how it changes `Covered`.

**Counting in the boot memory allocator** (`MemblockRefinement`): `NoHangWithRoom`
and `TotalsAreRight`. Why a call can stop for lack of regions only if the array
was nearly full is an argument about two passes: the first counts the gaps of
the range (`GapsBelow`), the second fills as many (`CountInv`), and since between
them nothing changes but the room, the second needs no more than the first
said. A range that is isolated has two ends, each of which cuts one region at
most, and a region that was cut at one end is not cut there again (`CutInv`). For
the totals, what an operation adds to the sum is disjoint from what the array
covers, and cardinalities of disjoint sets add up (`TotalInv`); `Accounting` says
`Cardinality(Covered(...))` and not a sum over the array, which says more: it is
also wrong if regions overlap.

**Boot** (`BootProofs`): `BootInvariance`, `NeverRefused`, `SegmentsStayValid`,
`NothingNeededIsLost`, `MemoryIsWhatFirmwareSays`, `AllocationsAreUsable`. `BootInv` has a
part per concern. `SegmentsInv` and `PagingInv`: which descriptors are loaded and
which steps of `enter_x64` are done at each stage; from them the processor refuses
nothing. `AreasInv`: what is needed at a stage is intact; the lemmas in front of it
are comparisons of addresses in the layout of the source. `MapInv`: every entry in
memory is the firmware's or was written over, and then its type is unknown and
the map reaches the page tables. `KernelInv`: while the kernel runs the invariants
of `Memblock` hold, and the memory it has is the bytes of the usable entries before
the loop index (`AddedBytes`). That step uses the refinement: whatever the loops
of `memblock_add` do, the set they stand for changes when the call begins, by its
range. With `AllocFree` (an allocation is free memory) the last theorem follows.

**Page allocator** (`PageAllocProofs`): `PagesTyped`, `PagesHaveOneOwner`,
`ScanFindsFirstFit`, `PagesComeFromRAM`. The counter of `bitmap_scan` is a recursive
function; by induction along the bits, in terms of sets (`Induct`), it is the
distance to the last bit that is set (`CounterIsRun`), from which the scan is the
search for the first place (`ScanIsFirst`) and the page taken was free
(`NextPageIsFree`). That all pages are RAM needs an assumption about the firmware
(`LowZoneAssumption`): the code looks at the low halves of addresses, and an
entry at 4G or above could pass for the zone if none below came first. Then the
end of the zone, computed modulo 2^32, is never beyond the end of the entry, and
two divisions that round down keep the last page inside of it.

**Heap** (`KmallocProofs`): `HeapSound` (`HeapInv`), `BlocksStayApart`,
`FreeListsAreSound`, `FreeAlwaysFindsOwner`, `GrowsWhenFull`, `HeapIsAccounted`. The
properties need each other: a block is disjoint from the others because free
lists hold what is not in use (`DescOK`), which after a page has come back and was
cut up for another bucket is so only because no two descriptors have a page in
common (`MapOK`), for which a page must have one owner, heap and other callers of
the page allocator together (`OwnersInv`); `refcnt` counts the blocks in use, so that
the page goes back exactly when no caller holds a part of it. `ChainsOK` and
`FreeInv` say in which list a descriptor is; in the `HLT` of `free_page` it is in none
(`Waiting`), nor does its page belong to anybody (`Returning`). The parts of `HeapInv`
are about values, so that a lemma speaks of the heap before and after: the lemmas
that end in `Step` are about what an action does to the descriptors or the chains, those
that end in `Keeps` put them together. In front are lemmas about lists without
repetition, about the addresses in a page (a block lies in its page, two do not
overlap), and at the end about `FlattenSeq`, by induction over its recursive function.

**Console** (`ConsoleProofs`): `ConsoleInvariance`, `CursorStaysInPlace`,
`HardwareAlwaysFollows`, `ConsoleImplementsTerminal`. The invariant `Good` says that
the two representations of the cursor agree and the screen lies in the memory;
every operation keeps it. With it the map from addresses to places of the page is
one-to-one, so that each character is a step of `Terminal`.

**Strings** (`StringsProofs`): `CopiesAreExact`, `MeasuresAreRight`. The invariant says for each loop how
far it has got: the bytes below the pointer (forward) or above the index
(backward) are those of the source as it was, everything else is untouched, and
in particular what is still to be read has not been written over. That is where
the direction of `memmove` and the restriction of the callers of `memcpy` come in. In `strlen` the
pointer has not passed the end of the string; in `strcmp` the characters before
those under comparison are the same and not zero.

**Interrupts** (`InterruptsProofs`): `ReadyFirst`, `OnlyTheKeyboard`, `PrintersAlone`,
`EdgesAreKept`, `TestsAreLast`, `ReportsAreTrue`, for every set of keys, every way of typing and every
moment at which requests come. The invariant `IntInv` says which word each
controller waits for after every byte of `pic_init` and what has been set by then
(`ChipInv`), how far `main_x64` is (`MainInv`), and that there is at most one handler:
the keyboard's out of `HLT`, or the test's before `STI` (`FrameInv`). `OnlyKeys` is not
inductive without the masks, the masks not without the words. `PicWord` has one
step per byte; then there is one lemma per action.

**Keyboard** (`InterruptsProofs`): `TypingIsPrinted` and `ModifiersAreFollowed`, for
every set of keys, in whatever order they go down, repeat and go up, both of a pair
and the lock keys too. They state the two cases in which the driver is not with
the person (`lifted`, `turned`, see [Disagreements](#disagreements)) and that there is no
third. Many
codes may wait while keys move on, so neither property is inductive; the invariant
`KeyInv` looks ahead: the bytes in the queue, taken one after the other from the
state the driver is in now (`Driver`), make it print exactly what is due and
leave it with the modifiers that the codes tell (`Board`). `Prints` says so without
recursion, by the states and the number of characters after each byte, so that a
byte more at the end (`PrintsMore`) and a byte taken from the front (`PrintsFirst`)
are lemmas about sequences. `HandlerIsAfter` ties `After` and `CharOf`, which stand for
the driver in these lemmas, to the actions of the handler, for every byte; `CodeOfKey`
and `BoardFollows` compare them with the keyboard, by what a make code and a break
code do to `Told`, whatever other keys are down (`MakeTells`, `BreakTells`).

**Formatted output** (`StringsProofs`): `PrintsAsAsked`, `WritesNothingElse` and, for
calls of the string functions that alternate with calls of `printk`, `LibraryIsExact`;
for both kernels, every list of conversions that callers may ask for (`Proper`) and
every word. `PrintedAsAsked` speaks only of the call of `console_write` and of the return;
there, of the count in the 32-bit kernel alone. The invariant `PrintInv` says what
holds at every character of the format: what is written (`Written`, which is also
all that has changed) and what the conversions ahead promise make up the text
that was asked for, and the format and the stack hold just these conversions
(`AtFormat`); or a conversion has been begun and j digits of its width have been read
(`AtLetter`, with `Read` the value of the first j); or it is `%s` and j characters have
been copied (`AtString`), from a string in front of the buffer, which therefore is
still what it was. There is a lemma for each branch of the switch.

Under it are three layers of lemmas. Numbers: `Power` and `Size` (the number of digits)
by induction over sets of numbers (`Induct`), which shows that the recursive function
`DigitsOf`, the loop of `number`, finds the digits of the positional system
(`DigitsAreForm`), that zeros in front make up a width, and that the least negative
number, its own negative, is written right (`NumbersAreRight`,
`FilledNumbersAreRight`). Texts: the flattening of a list is its first part and the rest
(`FlattenFirst`). Conversions: what one promises, how it is rendered and what it takes
from the stack (`FirstConversion`). `SetInv` adds what `memset` has changed, so that
`NothingElse` follows from the invariants of all functions together.

**Model-checked only**: `CallsReturn`, `BootEnds` and `KeysServed`, which are liveness
properties under fairness and beyond the prover, and the disagreements below.

## Disagreements

Each has a run that TLC finds violated.

- **page_frees**: `free_page` compares the index of a page with the length of the
  bitmap in bytes (`mm.c:75`) although one bit stands for a page (`mm.c:51`); it halts
  for seven of eight pages. With interrupts enabled it then clears the bit all
  the same.
- **page_fresh**: `memset` does not advance its pointer (`string.c:35`), the bitmap is
  not cleared (`bitmap.c:13`), and pages are lost for good.
- **kmalloc_oom**: `get_free_page` never returns 0 (`mm.c:68`), the checks at
  `malloc.c:47` and `malloc.c:109` are dead, and behind the `HLT` the heap goes on with
  memory below the zone.
- **cpu_unsupported**: when `x64_cpu_check` fails, `kernel_main` prints "Unsupported
  CPU." and "End" (`main.c:10`) and goes on into `enter_x64` all the same
  (`main.c:13`); the processor faults, is reset, and boots again.

Seen while modelling, without a run: there is one flag for two shift keys
(`keyboard.c:236`), so that releasing one of two ends the shift until the other repeats (so for left and
right ctrl and alt; `lifted` says exactly when); the locks toggle at every make code
and the handler does not look for a repeat (`keyboard.c:245`), so that caps lock, held
until it repeats, ends on or off by chance (`turned`); the high halves of base and length are ignored
(`mm.c:36`), so that RAM beyond 4G is taken for RAM modulo 4G when it is the first
entry at `PHY_MEM_USE_START` or above in its low half; a memory map of more than 25
entries reaches the page tables at 0x8000, although both kernels have room for
128, and what is left of its tail is read as unknown, so that RAM is missing (never
too much: `MemoryIsUsable`); a key pressed before `pic_init` is never served and no
key after it, for its byte is not read (`EdgeKept` and `KeysServed` except it); `memset`
clears only the first byte of a page table (`string.c:35`), which is harmless
because only the entries that are filled in are ever used; caps lock inverts shift for digits as well
(`keyboard.c:261`); the 0xe000 of `keyboard.c:222` does not fit into its variable; the
64-bit `printk` is declared `int` (`printk.asm:17`) with the return value in rax
(`printk.asm:15`), but returns what the void `console_write` leaves there (no caller
looks at it); the bottom-up search (`memblock.c:213`) has no return for failure but cannot be
selected; with a firmware entry that lies over many others the 128 regions of
`memblock.c:448` are not enough although the table has no more entries than that,
because the pieces around them are inserted before they are merged.

## Mutants

The operators whose names begin with `Bug_` are wrong variants of the definition
that follows them: a guard dropped, an index kept, a limit off by one. No
behaviour uses them. PROJECT.json pairs each property of a passing run with one
that it must reject when it is put in the place of the definition.

## Not modelled

- Tables of more than 128 entries: the code reads behind its array.
- A bitmap of pages that grows over the memory map or the page tables (RAM of
  about 1 GB and more), and what the heap does with memory it was wrongly given:
  `main_x64` does not set up the page allocator.
- Addresses of pages above 2 GB, where the `int` of `get_free_page` changes sign;
  pages above the 100 MB that are mapped.
- Bytes the keyboard drops, Pause, Print Screen and the fake shifts of the
  extended block; whether num lock is on (the driver prints digits anyway).
- The handlers of the timer and of the vectors from 0x22 on: `OnlyKeys` says that
  they never run. Exceptions that are not raised by a test, that is, faults in
  the kernel itself.
- Registers in interrupt entries.
- What the boot code and `x64_cpu_check` print, with the brand string; bit 12 of
  CR4, which only the check of the address width reads; a disk whose images are longer than
  the Makefile copies (`Makefile:33`).
- `vsprintf` beyond what callers do: widths from 36 on, formats that end in %, texts
  longer than the buffer, more than five arguments.
- The test programs (`x64/test`): their calls are among those the models make.
