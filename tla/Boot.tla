-------------------------------- MODULE Boot --------------------------------
(***************************************************************************)
(* From the boot sector to memblock: oskernel/boot/{boot,setup,head}.asm,  *)
(* oskernel/init/{main,enter_x64}.c, oskernel/kernel/gdt.c, and then the   *)
(* set-up of E820.  One action per BIOS call, per sector read and per      *)
(* change of the mode of the processor.                                    *)
(*                                                                         *)
(* The firmware, the disk and the processor are external: an instruction   *)
(* that the processor refuses leads to "fault", and as no interrupt table  *)
(* is loaded yet, from there to a reset.  A reset keeps the memory.        *)
(***************************************************************************)
EXTENDS E820

CONSTANTS
  CpuModels,      \* [cpuid, ext, pae, lm |-> BOOLEAN]: CPUID, its function
                  \* 0x80000008, physical address extension, long mode
  FirmwareTables, \* the memory maps that firmware may report
  ENTRY_SIZE,     \* bytes of an entry of the map in memory (20)
  SECTOR,         \* bytes that the disk hands over at a time (512)
  SECTORS_32,     \* sectors of the 32-bit kernel (30)
  SECTORS_64,     \* sectors of the 64-bit kernel (255)
  MaxResets       \* bound: how often somebody resets the machine

SETUP_ADDR == 1280            \* 0x500
KERNEL_ADDR == 4608           \* 0x1200
X64_KERNEL_ADDR == 1048576    \* 0x100000
E820_ARDS_ADDR == 32258       \* 0x7e02
PML4T_ADDR == 32768           \* 0x8000
PDPT_ADDR == 36864            \* 0x9000
PD_ADDR == 40960              \* 0xA000
PD_ENTRIES == 50
PAGE_2M == 2097152

ASSUME BootAssumption ==
  /\ CpuModels \subseteq [cpuid : BOOLEAN, ext : BOOLEAN, pae : BOOLEAN, lm : BOOLEAN]
  /\ \A t \in FirmwareTables : t \in Seq(Entry) /\ Len(t) \in 1 .. E820_MAX_ENTRIES
  /\ {ENTRY_SIZE, SECTOR, SECTORS_32, SECTORS_64} \subseteq Nat \ {0}
  /\ MaxResets \in Nat

\* Of the hardware: long mode comes with physical address extension.
ASSUME LongModeAssumption == \A m \in CpuModels : m.lm => m.pae

\* The 32-bit kernel ends below the number of map entries, at 0x7e00.
ASSUME LayoutAssumption == KERNEL_ADDR + SECTORS_32 * SECTOR <= E820_ARDS_ADDR - 2

VARIABLES
  model,      \* the processor
  firmware,   \* the memory map that the firmware reports
  stage,      \* where the boot code is
  regs,       \* pe, pae, lme, pg, a20; pages and gdt as loaded; the cs in use
  disk,       \* "busy", "ready" with a sector, or "error"
  left,       \* sectors still to read
  num,        \* E820_ARDS_NUM, then at 0x7e00
  map,        \* the entries at 0x7e02
  intact,     \* the areas of memory that hold what was put there
  resets

machine == <<model, firmware, resets>>
memory == <<num, map, intact>>
boot_vars == <<e820_vars, machine, stage, regs, disk, left, memory>>

-----------------------------------------------------------------------------
(***************************************************************************)
(* Memory.  An area or an entry that something else is written over is     *)
(* lost: of an entry under a page table the type is.                       *)
(***************************************************************************)
Span(from, size) == [lo |-> from, hi |-> from + size]
Meet(r, s) == r.lo < s.hi /\ s.lo < r.hi

Area == [
  setup    |-> Span(SETUP_ADDR, 1024),
  kernel32 |-> Span(KERNEL_ADDR, SECTORS_32 * SECTOR),
  kernel64 |-> Span(X64_KERNEL_ADDR, SECTORS_64 * SECTOR),
  pml4     |-> Span(PML4T_ADDR, 8),
  pdpt     |-> Span(PDPT_ADDR, 8),
  pd       |-> Span(PD_ADDR, PD_ENTRIES * 8)]
Tables == {"pml4", "pdpt", "pd"}

Slot(k) == Span(E820_ARDS_ADDR + (k - 1) * ENTRY_SIZE, ENTRY_SIZE)

\* With the line A20 closed an address loses its bit 20.
Bus(r) ==
  IF regs.a20 \/ r.lo < X64_KERNEL_ADDR THEN r
  ELSE Span(r.lo - X64_KERNEL_ADDR, r.hi - r.lo)

\* The ranges are written; afterwards the areas in whole hold what they should.
Store(ranges, whole) ==
  LET hit(r) == \E s \in ranges : Meet(r, Bus(s))
  IN  /\ intact' = {a \in intact : ~hit(Area[a])} \cup whole
      /\ map' = [k \in DOMAIN map |->
           IF hit(Slot(k)) THEN [map[k] EXCEPT !.type = "UNKNOWN"] ELSE map[k]]

-----------------------------------------------------------------------------
(***************************************************************************)
(* The boot sector and the set-up code, in real mode.                      *)
(***************************************************************************)
Quiet == UNCHANGED <<e820_vars, machine, regs, disk, left, memory>>

LoadSetup ==
  /\ stage = "mbr"
  /\ stage' = "query"
  /\ Store({Area["setup"]}, {"setup"})
  /\ num' = 0
  /\ UNCHANGED <<e820_vars, machine, regs, disk, left>>

\* Carry after int 13h: stop_cpu.
SetupNotRead == stage = "mbr" /\ stage' = "halted" /\ Quiet

\* One call of int 15h.
PutEntry == map' = SubSeq(map, 1, num) \o <<firmware[num + 1]>> \o
                   SubSeq(map, num + 2, Len(map))

detect_memory_e820 ==
  /\ stage = "query"
  /\ PutEntry
  /\ num' = num + 1
  /\ intact' = {a \in intact : ~Meet(Area[a], Slot(num + 1))}
  /\ stage' = IF num + 1 = Len(firmware) THEN "protect" ELSE "query"
  /\ UNCHANGED <<e820_vars, machine, regs, disk, left>>

\* Carry, at any call: jmp $.
detect_mem_err == stage = "query" /\ stage' = "stuck" /\ Quiet

NullGdt == [n \in {} |-> ""]
SetupGdt == [n \in 0 .. 2 |-> <<"null", "code32", "data32">>[n + 1]]

Bug_a20_closed ==
  /\ stage = "protect"
  /\ stage' = "read32"
  /\ regs' = [regs EXCEPT !.gdt = SetupGdt, !.pe = TRUE, !.cs = 1]
  /\ left' = SECTORS_32
  /\ disk' = "busy"
  /\ UNCHANGED <<e820_vars, machine, memory>>
enter_protected_mode ==
  /\ stage = "protect"
  /\ stage' = "read32"
  /\ regs' = [regs EXCEPT !.gdt = SetupGdt, !.a20 = TRUE, !.pe = TRUE, !.cs = 1]
  /\ left' = SECTORS_32
  /\ disk' = "busy"
  /\ UNCHANGED <<e820_vars, machine, memory>>

-----------------------------------------------------------------------------
(***************************************************************************)
(* read_hd.  The code polls the status until a sector is there; it does    *)
(* not look at the error bit.                                              *)
(***************************************************************************)
DiskAnswers ==
  /\ stage \in {"read32", "read64"} /\ disk = "busy"
  /\ disk' \in {"ready", "error"}
  /\ UNCHANGED <<e820_vars, machine, stage, regs, left, memory>>

\* A sector goes behind the sectors before it.
ReadSector(area, sectors) ==
  /\ disk = "ready"
  /\ disk' = "busy"
  /\ Store({Span(Area[area].lo + (sectors - left) * SECTOR, SECTOR)},
           IF left = 1 THEN {area} ELSE {})
  /\ UNCHANGED <<machine, regs, num>>

ReadKernel32 ==
  /\ stage = "read32"
  /\ ReadSector("kernel32", SECTORS_32)
  /\ IF left = 1 THEN stage' = "read64" /\ left' = SECTORS_64
                 ELSE left' = left - 1 /\ UNCHANGED stage
  /\ UNCHANGED e820_vars

\* The sectors behind the kernel are zero, so that its data is as in the image
\* again, .bss included.
ImageOfMemblock == [t \in Types |-> [regions |-> Empty, total |-> 0]]

ReadKernel64 ==
  /\ stage = "read64"
  /\ ReadSector("kernel64", SECTORS_64)
  /\ left' = left - 1
  /\ IF left = 1
     THEN stage' = "check" /\ mb' = ImageOfMemblock /\ e820_table' = <<>>
     ELSE UNCHANGED <<stage, mb, e820_table>>
  /\ UNCHANGED <<pc, fr, found, hung, i>>

-----------------------------------------------------------------------------
(***************************************************************************)
(* The 32-bit kernel.  What x64_cpu_check finds is printed; kernel_main    *)
(* goes on in any case.                                                    *)
(***************************************************************************)
x64_cpu_check == model.cpuid /\ model.ext /\ model.lm

\* The processor carries the instruction out, or refuses it.
Mode(from, legal, to) ==
  /\ stage = from
  /\ stage' = IF legal THEN to ELSE "fault"
  /\ UNCHANGED <<e820_vars, machine, disk, left>>

kernel_main ==
  /\ Mode("check", TRUE, "pae")
  /\ UNCHANGED <<regs, memory>>

Bug_pae_forgotten ==
  /\ Mode("pae", model.pae, "tables")
  /\ regs' = [regs EXCEPT !.pg = FALSE]
  /\ UNCHANGED memory
SetPAE ==
  /\ Mode("pae", model.pae, "tables")
  /\ regs' = [regs EXCEPT !.pg = FALSE, !.pae = model.pae]
  /\ UNCHANGED memory

\* memset does not advance (string.c:35): only the entries in use are written.
load_pml4 ==
  /\ Mode("tables", TRUE, "lme")
  /\ regs' = [regs EXCEPT !.pages = [n \in 0 .. (PD_ENTRIES - 1) |-> n * PAGE_2M]]
  /\ Store({Area[t] : t \in Tables}, Tables)
  /\ UNCHANGED num

Identity(x) ==
  /\ x \div PAGE_2M \in DOMAIN regs.pages
  /\ regs.pages[x \div PAGE_2M] = PAGE_2M * (x \div PAGE_2M)

SetLME ==
  /\ Mode("lme", model.lm, "pg")
  /\ regs' = [regs EXCEPT !.lme = model.lm]
  /\ UNCHANGED memory

SetPG ==
  /\ Mode("pg", regs.lme /\ regs.pae /\ Tables \subseteq intact /\ Identity(KERNEL_ADDR),
          "gdt")
  /\ regs' = [regs EXCEPT !.pg = TRUE]
  /\ UNCHANGED memory

Descriptors64 == [n \in {3, 4} |-> IF n = 3 THEN "code64" ELSE "data64"]
ExtendedGdt(gdt) ==
  [n \in DOMAIN gdt \cup {3, 4} |-> IF n \in {3, 4} THEN Descriptors64[n] ELSE gdt[n]]

Bug_nothing_copied ==
  /\ Mode("gdt", TRUE, "jump")
  /\ regs' = [regs EXCEPT !.gdt = Descriptors64]
  /\ UNCHANGED memory
install_x64_descriptor ==
  /\ Mode("gdt", TRUE, "jump")
  /\ regs' = [regs EXCEPT !.gdt = ExtendedGdt(regs.gdt)]
  /\ UNCHANGED memory

FarJump ==
  /\ Mode("jump",
          /\ regs.pg /\ 3 \in DOMAIN regs.gdt /\ regs.gdt[3] = "code64"
          /\ Identity(X64_KERNEL_ADDR),
          "main_x64")
  /\ regs' = [regs EXCEPT !.cs = 3]
  /\ UNCHANGED memory

enter_x64 == SetPAE \/ load_pml4 \/ SetLME \/ SetPG \/ install_x64_descriptor \/ FarJump

-----------------------------------------------------------------------------
(***************************************************************************)
(* main_x64, and the reset.                                                *)
(***************************************************************************)
InKernel64 ==
  /\ stage = "main_x64"
  /\ UNCHANGED <<machine, stage, regs, disk, left, memory>>

MemorySetup == InKernel64 /\ e820__memory_setup(SubSeq(map, 1, num))
SkipEntry == InKernel64 /\ SetupSkip
AddEntry == InKernel64 /\ SetupAdd
Alloc == InKernel64 /\ Allocate
Work == InKernel64 /\ InMemblock

ResetRegs == {
  [pe |-> FALSE, pae |-> FALSE, lme |-> FALSE, pg |-> FALSE, a20 |-> open,
   pages |-> <<>>, gdt |-> NullGdt, cs |-> 0] : open \in BOOLEAN}

Restart ==
  /\ stage' = "mbr"
  /\ regs' \in ResetRegs
  /\ disk' = "busy" /\ left' = 0
  /\ pc' = "idle" /\ fr' = NoFrame /\ found' = 0 /\ hung' = FALSE
  /\ i' = 0
  /\ UNCHANGED <<model, firmware, mb, e820_table, memory>>

TripleFault == stage = "fault" /\ Restart /\ UNCHANGED resets
Reset == resets < MaxResets /\ Restart /\ resets' = resets + 1

BootInit ==
  /\ E820Init
  /\ model \in CpuModels /\ firmware \in FirmwareTables
  /\ stage = "mbr"
  /\ regs \in ResetRegs
  /\ disk = "busy" /\ left = 0
  /\ num = 0 /\ map = <<>> /\ intact = {}
  /\ resets = 0

Ended ==
  \/ stage \in {"halted", "stuck"} \/ disk = "error"
  \/ SetupReturned \/ hung

CpuStep ==
  \/ LoadSetup \/ SetupNotRead \/ detect_memory_e820 \/ detect_mem_err
  \/ enter_protected_mode \/ ReadKernel32 \/ ReadKernel64
  \/ kernel_main \/ enter_x64
  \/ MemorySetup \/ SkipEntry \/ AddEntry \/ Work
  \/ TripleFault

BootNext ==
  \/ CpuStep \/ DiskAnswers \/ Alloc \/ Reset
  \/ Ended /\ UNCHANGED boot_vars

\* There is one processor, and nothing interrupts it; the disk answers.
BootSpec ==
  /\ BootInit /\ [][BootNext]_boot_vars
  /\ WF_boot_vars(CpuStep) /\ WF_boot_vars(DiskAnswers)

-----------------------------------------------------------------------------
\* A processor with long mode is never asked for something that it refuses:
\* paging with the tables in place and extended addresses on, the 64-bit code
\* segment only when its descriptor is loaded (enter_x64.c:214-266).
NoFault == stage = "fault" => ~model.lm

\* The segments in use are those of the table that is loaded, across the change
\* of tables (gdt.c:55): an interrupt handler loads them again when it returns.
SelectorsValid ==
  regs.pe =>
    /\ 2 \in DOMAIN regs.gdt /\ regs.gdt[2] = "data32"
    /\ regs.cs \in DOMAIN regs.gdt /\ regs.gdt[regs.cs] \in {"code32", "code64"}

\* Nothing that is still needed is ever written over: code that runs, the
\* descriptors and the page tables in use, also after a reset half way.
Needed ==
  CASE stage \in {"query", "protect", "read32", "read64"} -> {"setup"}
    [] stage \in {"check", "pae", "tables"} -> {"setup", "kernel32", "kernel64"}
    [] stage \in {"lme", "pg", "gdt"} -> {"setup", "kernel32", "kernel64"} \cup Tables
    [] stage \in {"jump", "main_x64"} -> {"kernel32", "kernel64"} \cup Tables
    [] OTHER -> {}
StillThere == Needed \subseteq intact

\* Bytes of the firmware's entries with one of the given types.  The last
\* address of the address space belongs to no region.
BytesOf(types) ==
  {x \in 0 .. (PHYS_ADDR_MAX - 1) : \E k \in DOMAIN firmware :
     /\ firmware[k].type \in types
     /\ firmware[k].addr <= x /\ x < firmware[k].addr + firmware[k].size}
UsableBytes == BytesOf({"RAM", "RESERVED_KERN"})

\* The map lies below the page tables.
MapFits == Slot(Len(firmware)).hi <= PML4T_ADDR

\* Whatever the order in which the firmware lists its entries and however the
\* boot went, when the setup loop (e820.c:60-69) has returned memory holds only
\* usable bytes, and all of them if the map fits below the page tables.
MemoryIsUsable ==
  SetupReturned =>
    /\ Covered(mb["memory"].regions) \subseteq UsableBytes
    /\ MapFits => Covered(mb["memory"].regions) = UsableBytes

\* No allocation is ever given a byte that the firmware did not report as
\* usable.
AllocUsable == pc = "reserve" => found .. (found + fr.size - 1) \subseteq UsableBytes

\* On a processor with long mode every boot, also after a reset, gets to its
\* end: memory is set up, or the boot code has stopped for a read that failed
\* (boot.asm:36), a map that it did not get (setup.asm:78) or a disk that
\* reports an error (setup.asm:229).
BootEnds == model.lm => []<>(Ended /\ ~hung)

\* A processor that fails the check gets no further (main.c:10, which prints
\* "Unsupported CPU" and "End").
CheckIsHeeded ==
  ~x64_cpu_check => stage \notin {"pae", "tables", "lme", "pg", "gdt", "jump", "main_x64"}
=============================================================================
