----------------------------- MODULE BootProofs ------------------------------
(***************************************************************************)
(* Proofs about the boot: the modes of the processor, the memory that is   *)
(* still needed, and the way of the memory map from the firmware through   *)
(* the loops of memblock to the allocations.                               *)
(***************************************************************************)
EXTENDS Boot, MemblockRefinement

-----------------------------------------------------------------------------
(***************************************************************************)
(* The inductive invariant.                                                *)
(***************************************************************************)
RealMode == {"mbr", "query", "protect", "halted", "stuck"}
Reading == {"read32", "read64"}
Entering == {"check", "pae", "tables", "lme", "pg", "gdt"}
Stages == RealMode \cup Reading \cup Entering \cup {"jump", "main_x64", "fault"}
Loaded == Entering \cup {"jump"}   \* the 64-bit kernel is there, not running yet

RegNames == {"pe", "pae", "lme", "pg", "a20", "pages", "gdt", "cs"}
FullGdt == ExtendedGdt(SetupGdt)
IdentityMap == [n \in 0 .. (PD_ENTRIES - 1) |-> n * PAGE_2M]

MachineOK ==
  /\ model \in CpuModels
  /\ firmware \in FirmwareTables
  /\ stage \in Stages
  /\ DOMAIN regs = RegNames
  /\ left \in Nat

\* Which table of descriptors is loaded where.
SegmentsInv ==
  /\ stage \in RealMode => ~regs.pe
  /\ stage \in Reading \cup Entering => regs.gdt = SetupGdt /\ regs.cs = 1
  /\ stage \in {"jump", "main_x64"} => regs.gdt = FullGdt /\ regs.cs \in {1, 3}
  /\ stage = "fault" => \/ regs.gdt = SetupGdt /\ regs.cs = 1
                        \/ regs.gdt = FullGdt /\ regs.cs \in {1, 3}

\* What the steps of enter_x64 have done so far.
PagingInv ==
  /\ stage \in Reading \cup Loaded => regs.a20
  /\ stage \in {"tables", "lme", "pg", "gdt", "jump"} => regs.pae
  /\ stage \in {"lme", "pg", "gdt", "jump"} => regs.pages = IdentityMap
  /\ stage \in {"pg", "gdt", "jump"} => regs.lme
  /\ stage \in {"gdt", "jump"} => regs.pg
  /\ NoFault

\* The areas that are loaded, and the sectors that are missing.
AreasInv ==
  /\ intact \subseteq DOMAIN Area
  /\ StillThere
  /\ stage = "read32" => left \in 1 .. SECTORS_32
  /\ stage = "read64" => left \in 1 .. SECTORS_64 /\ "kernel32" \in intact

\* Entry k of the map in memory is the firmware's, or was overwritten.
Copied(k) ==
  /\ map[k].addr = firmware[k].addr /\ map[k].size = firmware[k].size
  /\ map[k].type = firmware[k].type \/ (map[k].type = "UNKNOWN" /\ ~MapFits)
MapInv ==
  /\ map \in Seq(Entry)
  /\ num \in 0 .. Len(map) /\ num <= Len(firmware)
  /\ stage = "query" => num < Len(firmware)
  /\ stage \in {"protect", "main_x64"} \cup Reading \cup Loaded => num = Len(firmware)
  /\ \A k \in 1 .. num : Copied(k)

\* The bytes that the loop of e820__memblock_setup has added so far.
AddedBytes ==
  {x \in 0 .. (PHYS_ADDR_MAX - 1) : \E k \in 1 .. i - 1 :
     /\ Usable(e820_table[k])
     /\ e820_table[k].addr <= x /\ x < e820_table[k].addr + e820_table[k].size}

Untouched == mb = ImageOfMemblock /\ e820_table = <<>>
KernelInv ==
  /\ e820_table \in Seq(Entry)
  /\ stage # "main_x64" =>
       pc = "idle" /\ fr = NoFrame /\ found = 0 /\ hung = FALSE /\ i = 0
  /\ stage \in Loaded => Untouched
  /\ stage = "main_x64" =>
       /\ IInv /\ SetsInv /\ HangsInLoops
       /\ i = 0 => Init /\ e820_table = <<>>
       /\ i # 0 => /\ e820_table = SubSeq(map, 1, num)
                   /\ i \in 1 .. num + 1
                   /\ Memory = AddedBytes

BootInv ==
  MachineOK /\ SegmentsInv /\ PagingInv /\ AreasInv /\ MapInv /\ KernelInv

-----------------------------------------------------------------------------
(***************************************************************************)
(* What the steps do to the registers.                                     *)
(***************************************************************************)
LEMMA BootSizes ==
  /\ ENTRY_SIZE \in Nat /\ ENTRY_SIZE > 0 /\ SECTOR \in Nat /\ SECTOR > 0
  /\ SECTORS_32 \in Nat /\ SECTORS_32 > 0 /\ SECTORS_64 \in Nat /\ SECTORS_64 > 0
<1>1. \A n \in {ENTRY_SIZE, SECTOR, SECTORS_32, SECTORS_64} : n \in Nat /\ n # 0
  BY BootAssumption
<1> QED  BY <1>1

\* The registers after each instruction, one lemma for each.
LEMMA Protected ==
  ASSUME DOMAIN regs = RegNames, enter_protected_mode
  PROVE  /\ DOMAIN regs' = RegNames
         /\ regs'.gdt = SetupGdt /\ regs'.cs = 1 /\ regs'.a20
  BY DEF enter_protected_mode, RegNames

LEMMA WithPAE ==
  ASSUME DOMAIN regs = RegNames, SetPAE
  PROVE  /\ DOMAIN regs' = RegNames
         /\ regs'.gdt = regs.gdt /\ regs'.cs = regs.cs /\ regs'.a20 = regs.a20
         /\ regs'.pae = model.pae
  BY DEF SetPAE, RegNames

LEMMA WithPages ==
  ASSUME DOMAIN regs = RegNames, load_pml4
  PROVE  /\ DOMAIN regs' = RegNames
         /\ regs'.gdt = regs.gdt /\ regs'.cs = regs.cs /\ regs'.a20 = regs.a20
         /\ regs'.pae = regs.pae /\ regs'.pages = IdentityMap
  BY DEF load_pml4, RegNames, IdentityMap

LEMMA WithLME ==
  ASSUME DOMAIN regs = RegNames, SetLME
  PROVE  /\ DOMAIN regs' = RegNames
         /\ regs'.gdt = regs.gdt /\ regs'.cs = regs.cs /\ regs'.a20 = regs.a20
         /\ regs'.pae = regs.pae /\ regs'.pages = regs.pages /\ regs'.lme = model.lm
  BY DEF SetLME, RegNames

LEMMA WithPG ==
  ASSUME DOMAIN regs = RegNames, SetPG
  PROVE  /\ DOMAIN regs' = RegNames
         /\ regs'.gdt = regs.gdt /\ regs'.cs = regs.cs /\ regs'.a20 = regs.a20
         /\ regs'.pae = regs.pae /\ regs'.pages = regs.pages /\ regs'.lme = regs.lme
         /\ regs'.pg
  BY DEF SetPG, RegNames

LEMMA WithGdt ==
  ASSUME DOMAIN regs = RegNames, install_x64_descriptor
  PROVE  /\ DOMAIN regs' = RegNames
         /\ regs'.gdt = ExtendedGdt(regs.gdt)
         /\ regs'.cs = regs.cs /\ regs'.a20 = regs.a20
         /\ regs'.pae = regs.pae /\ regs'.pages = regs.pages /\ regs'.lme = regs.lme
         /\ regs'.pg = regs.pg
  BY DEF install_x64_descriptor, RegNames

LEMMA WithCode64 ==
  ASSUME DOMAIN regs = RegNames, FarJump
  PROVE  /\ DOMAIN regs' = RegNames
         /\ regs'.gdt = regs.gdt /\ regs'.cs = 3 /\ regs'.a20 = regs.a20
  BY DEF FarJump, RegNames

\* The tables of descriptors.
LEMMA SetupTable ==
  /\ DOMAIN SetupGdt = {0, 1, 2}
  /\ SetupGdt[1] = "code32" /\ SetupGdt[2] = "data32"
<1>1. /\ <<"null", "code32", "data32">>[2] = "code32"
      /\ <<"null", "code32", "data32">>[3] = "data32"
  OBVIOUS
<1> QED  BY <1>1 DEF SetupGdt

\* The table that install_x64_descriptor makes of it.
LEMMA FullTable ==
  /\ DOMAIN FullGdt = {0, 1, 2, 3, 4}
  /\ FullGdt[1] = "code32" /\ FullGdt[2] = "data32" /\ FullGdt[3] = "code64"
  BY SetupTable DEF FullGdt, ExtendedGdt, Descriptors64

\* The kernels run below 2 MByte.
LEMMA LowAddresses ==
  ASSUME regs.pages = IdentityMap
  PROVE  Identity(KERNEL_ADDR) /\ Identity(X64_KERNEL_ADDR)
<1>1. KERNEL_ADDR \div PAGE_2M = 0 /\ X64_KERNEL_ADDR \div PAGE_2M = 0
  BY DEF KERNEL_ADDR, X64_KERNEL_ADDR, PAGE_2M
<1>2. DOMAIN IdentityMap = 0 .. 49 /\ IdentityMap[0] = 0 /\ PAGE_2M * 0 = 0
  BY DEF IdentityMap, PD_ENTRIES, PAGE_2M
<1> QED  BY <1>1, <1>2 DEF Identity

\* A reset leaves the processor in real mode.
LEMMA AfterReset ==
  ASSUME Restart
  PROVE  DOMAIN regs' = RegNames /\ ~regs'.pe
  BY DEF Restart, ResetRegs, RegNames

-----------------------------------------------------------------------------
\* Nothing that happens changes the processor or the firmware.
LEMMA MachineSame ==
  ASSUME [BootNext]_boot_vars
  PROVE  model' = model /\ firmware' = firmware
  BY DEF BootNext, CpuStep, LoadSetup, SetupNotRead, detect_memory_e820, detect_mem_err,
         enter_protected_mode, ReadKernel32, ReadKernel64, ReadSector, kernel_main, enter_x64,
         SetPAE, load_pml4, SetLME, SetPG, install_x64_descriptor, FarJump, Mode,
         MemorySetup, SkipEntry, AddEntry, Work, Alloc, InKernel64, TripleFault, Reset,
         Restart, DiskAnswers, Quiet, machine, boot_vars

\* Every step keeps the types and the descriptors in order.
LEMMA MachineStep ==
  ASSUME BootInv, [BootNext]_boot_vars
  PROVE  MachineOK' /\ SegmentsInv'
<1>1. /\ model \in CpuModels /\ firmware \in FirmwareTables /\ stage \in Stages
      /\ DOMAIN regs = RegNames /\ left \in Nat
      /\ SegmentsInv
  BY DEF BootInv, MachineOK
<1>2. model' = model /\ firmware' = firmware
  BY MachineSame
<1>3. CASE UNCHANGED <<stage, regs, left>>
  BY <1>1, <1>2, <1>3 DEF MachineOK, SegmentsInv
<1>4. CASE \/ LoadSetup \/ SetupNotRead \/ detect_memory_e820 \/ detect_mem_err
  BY <1>1, <1>2, <1>4 DEF LoadSetup, SetupNotRead, detect_memory_e820, detect_mem_err, Quiet,
    MachineOK, SegmentsInv, Stages, RealMode, Reading, Entering
<1>5. CASE enter_protected_mode
  <2>1. /\ DOMAIN regs' = RegNames /\ regs'.gdt = SetupGdt /\ regs'.cs = 1
    BY <1>1, <1>5, Protected
  <2>2. stage' = "read32" /\ left' = SECTORS_32
    BY <1>5 DEF enter_protected_mode
  <2>3. left' \in Nat
    BY <2>2, BootSizes
  <2> QED  BY <1>1, <1>2, <2>1, <2>2, <2>3 DEF MachineOK, SegmentsInv, Stages, RealMode, Reading,
                                               Entering
<1>6. CASE ReadKernel32 \/ ReadKernel64
  <2>1. /\ stage \in Reading /\ stage' \in Reading \cup {"check"} /\ UNCHANGED regs
    BY <1>6 DEF ReadKernel32, ReadKernel64, ReadSector, Reading
  <2>2. left' \in Nat
    BY <1>1, <1>6, BootSizes DEF ReadKernel32, ReadKernel64, BootInv, AreasInv
  <2> QED  BY <1>1, <1>2, <2>1, <2>2 DEF MachineOK, SegmentsInv, Stages, RealMode, Reading,
                                         Entering
<1>7. CASE kernel_main
  BY <1>1, <1>2, <1>7 DEF kernel_main, Mode, MachineOK, SegmentsInv, Stages, RealMode, Reading,
    Entering
<1>8. CASE SetPAE \/ load_pml4 \/ SetLME \/ SetPG
  <2>1. /\ DOMAIN regs' = RegNames /\ regs'.gdt = regs.gdt /\ regs'.cs = regs.cs
    BY <1>1, <1>8, WithPAE, WithPages, WithLME, WithPG
  <2>2. /\ stage \in Entering /\ stage' \in Entering \cup {"fault"} /\ UNCHANGED left
    BY <1>8 DEF SetPAE, load_pml4, SetLME, SetPG, Mode, Entering
  <2> QED  BY <1>1, <1>2, <2>1, <2>2 DEF MachineOK, SegmentsInv, Stages, RealMode, Reading,
                                         Entering
<1>9. CASE install_x64_descriptor
  <2>1. /\ DOMAIN regs' = RegNames /\ regs'.cs = regs.cs
        /\ regs'.gdt = ExtendedGdt(regs.gdt)
    BY <1>1, <1>9, WithGdt
  <2>2. stage = "gdt" /\ stage' = "jump" /\ UNCHANGED left
    BY <1>9 DEF install_x64_descriptor, Mode
  <2>3. regs.gdt = SetupGdt /\ regs.cs = 1
    BY <1>1, <2>2 DEF SegmentsInv, Entering
  <2>4. regs'.gdt = FullGdt
    BY <2>1, <2>3 DEF FullGdt
  <2> QED  BY <1>1, <1>2, <2>1, <2>2, <2>3, <2>4 DEF MachineOK, SegmentsInv, Stages, RealMode,
                                                     Reading, Entering
<1>10. CASE FarJump
  <2>1. /\ DOMAIN regs' = RegNames /\ regs'.gdt = regs.gdt /\ regs'.cs = 3
    BY <1>1, <1>10, WithCode64
  <2>2. stage = "jump" /\ stage' \in {"main_x64", "fault"} /\ UNCHANGED left
    BY <1>10 DEF FarJump, Mode
  <2> QED  BY <1>1, <1>2, <2>1, <2>2 DEF MachineOK, SegmentsInv, Stages, RealMode, Reading,
                                         Entering
<1>11. CASE Restart
  BY <1>1, <1>2, <1>11, AfterReset DEF Restart, MachineOK, SegmentsInv, Stages, RealMode,
    Reading, Entering
<1>12. CASE \/ MemorySetup \/ SkipEntry \/ AddEntry \/ Work \/ Alloc \/ DiskAnswers
            \/ UNCHANGED boot_vars
  BY <1>3, <1>12 DEF MemorySetup, SkipEntry, AddEntry, Work, Alloc, InKernel64, DiskAnswers,
    boot_vars
<1> QED
  BY <1>4, <1>5, <1>6, <1>7, <1>8, <1>9, <1>10, <1>11, <1>12
  DEF BootNext, CpuStep, enter_x64, TripleFault, Reset

\* A processor with long mode is refused nothing.
LEMMA PagingStep ==
  ASSUME BootInv, [BootNext]_boot_vars
  PROVE  PagingInv'
<1>1. /\ model \in CpuModels /\ stage \in Stages /\ DOMAIN regs = RegNames /\ PagingInv
      /\ model' = model
  BY MachineSame DEF BootInv, MachineOK
<1>2. model.lm => model.pae
  BY <1>1, LongModeAssumption
<1>3. CASE UNCHANGED <<stage, regs>>
  BY <1>1, <1>3 DEF PagingInv, NoFault
<1>4. CASE \/ LoadSetup \/ SetupNotRead \/ detect_memory_e820 \/ detect_mem_err \/ Restart
  <2>1. stage' \in RealMode
    BY <1>4 DEF LoadSetup, SetupNotRead, detect_memory_e820, detect_mem_err, Restart, RealMode
  <2> QED  BY <2>1 DEF PagingInv, NoFault, RealMode, Reading, Loaded, Entering
<1>5. CASE enter_protected_mode
  <2>1. stage' = "read32" /\ regs'.a20
    BY <1>1, <1>5, Protected DEF enter_protected_mode
  <2> QED  BY <2>1 DEF PagingInv, NoFault, Reading, Loaded, Entering
<1>6. CASE ReadKernel32 \/ ReadKernel64 \/ kernel_main
  <2>1. /\ stage \in Reading \cup {"check"} /\ stage' \in Reading \cup {"check", "pae"}
        /\ UNCHANGED regs
    BY <1>6 DEF ReadKernel32, ReadKernel64, ReadSector, kernel_main, Mode, Reading
  <2> QED  BY <1>1, <2>1 DEF PagingInv, NoFault, Reading, Loaded, Entering
<1>7. CASE SetPAE
  <2>1. /\ regs'.a20 = regs.a20 /\ regs'.pae = model.pae
    BY <1>1, <1>7, WithPAE
  <2>2. /\ stage = "pae" /\ stage' = IF model.pae THEN "tables" ELSE "fault"
    BY <1>7 DEF SetPAE, Mode
  <2> QED  BY <1>1, <1>2, <2>1, <2>2 DEF PagingInv, NoFault, Reading, Loaded, Entering
<1>8. CASE load_pml4
  <2>1. /\ regs'.a20 = regs.a20 /\ regs'.pae = regs.pae /\ regs'.pages = IdentityMap
    BY <1>1, <1>8, WithPages
  <2>2. stage = "tables" /\ stage' = "lme"
    BY <1>8 DEF load_pml4, Mode
  <2> QED  BY <1>1, <2>1, <2>2 DEF PagingInv, NoFault, Reading, Loaded, Entering
<1>9. CASE SetLME
  <2>1. /\ regs'.a20 = regs.a20 /\ regs'.pae = regs.pae /\ regs'.pages = regs.pages
        /\ regs'.lme = model.lm
    BY <1>1, <1>9, WithLME
  <2>2. stage = "lme" /\ stage' = IF model.lm THEN "pg" ELSE "fault"
    BY <1>9 DEF SetLME, Mode
  <2> QED  BY <1>1, <2>1, <2>2 DEF PagingInv, NoFault, Reading, Loaded, Entering
<1>10. CASE SetPG
  <2>1. /\ regs'.a20 = regs.a20 /\ regs'.pae = regs.pae /\ regs'.pages = regs.pages
        /\ regs'.lme = regs.lme /\ regs'.pg
    BY <1>1, <1>10, WithPG
  <2>2. stage = "pg" /\ regs.lme /\ regs.pae /\ Identity(KERNEL_ADDR) /\ Tables \subseteq intact
    <3>1. stage = "pg"
      BY <1>10 DEF SetPG, Mode
    <3>2. regs.lme /\ regs.pae /\ regs.pages = IdentityMap
      BY <1>1, <3>1 DEF PagingInv
    <3>3. Tables \subseteq intact
      BY <3>1 DEF BootInv, AreasInv, StillThere, Needed
    <3> QED  BY <3>1, <3>2, <3>3, LowAddresses
  <2>3. stage' = "gdt"
    BY <1>10, <2>2 DEF SetPG, Mode
  <2> QED  BY <1>1, <2>1, <2>2, <2>3 DEF PagingInv, NoFault, Reading, Loaded, Entering
<1>11. CASE install_x64_descriptor
  <2>1. /\ regs'.a20 = regs.a20 /\ regs'.pae = regs.pae /\ regs'.pages = regs.pages
        /\ regs'.lme = regs.lme /\ regs'.pg = regs.pg
    BY <1>1, <1>11, WithGdt
  <2>2. stage = "gdt" /\ stage' = "jump"
    BY <1>11 DEF install_x64_descriptor, Mode
  <2> QED  BY <1>1, <2>1, <2>2 DEF PagingInv, NoFault, Reading, Loaded, Entering
<1>12. CASE FarJump
  <2>1. stage = "jump"
    BY <1>12 DEF FarJump, Mode
  <2>2. regs.pg /\ regs.gdt = FullGdt /\ regs.pages = IdentityMap
    BY <1>1, <2>1 DEF PagingInv, BootInv, SegmentsInv
  <2>3. 3 \in DOMAIN regs.gdt /\ regs.gdt[3] = "code64"
    BY <2>2, FullTable
  <2>4. stage' = "main_x64"
    BY <1>12, <2>2, <2>3, LowAddresses DEF FarJump, Mode
  <2> QED  BY <2>4 DEF PagingInv, NoFault, Reading, Loaded, Entering
<1>13. CASE \/ MemorySetup \/ SkipEntry \/ AddEntry \/ Work \/ Alloc \/ DiskAnswers
            \/ UNCHANGED boot_vars
  BY <1>3, <1>13 DEF MemorySetup, SkipEntry, AddEntry, Work, Alloc, InKernel64, DiskAnswers,
    boot_vars
<1> QED
  BY <1>4, <1>5, <1>6, <1>7, <1>8, <1>9, <1>10, <1>11, <1>12, <1>13
  DEF BootNext, CpuStep, enter_x64, TripleFault, Reset

-----------------------------------------------------------------------------
(***************************************************************************)
(* What is where in memory.                                                *)
(***************************************************************************)
LEMMA Products ==
  ASSUME NEW m \in Nat, NEW n \in Nat, NEW k \in Nat, m <= n
  PROVE  m * k \in Nat /\ n * k \in Nat /\ m * k <= n * k
  OBVIOUS

LEMMA OneMore ==
  ASSUME NEW m \in Nat, NEW k \in Nat
  PROVE  m * k + k = (m + 1) * k
  OBVIOUS

\* Where each area lies; the 32-bit kernel ends below the number of entries.
LEMMA AreaBounds ==
  /\ Area["setup"].lo = 1280 /\ Area["setup"].hi = 2304
  /\ Area["kernel32"].lo = 4608 /\ Area["kernel32"].hi \in Nat
  /\ Area["kernel32"].hi = 4608 + SECTORS_32 * SECTOR /\ Area["kernel32"].hi <= 32256
  /\ Area["kernel64"].lo = 1048576 /\ Area["kernel64"].hi \in Nat
  /\ Area["pml4"].lo = 32768 /\ Area["pml4"].hi = 32776
  /\ Area["pdpt"].lo = 36864 /\ Area["pdpt"].hi = 36872
  /\ Area["pd"].lo = 40960 /\ Area["pd"].hi = 41360
<1> DEFINE k32 == SECTORS_32 * SECTOR
           k64 == SECTORS_64 * SECTOR
<1>1. k32 \in Nat /\ k64 \in Nat
  BY BootSizes, Products
<1>2. 4608 + k32 <= 32256
  BY LayoutAssumption DEF KERNEL_ADDR, E820_ARDS_ADDR
<1> HIDE DEF k32, k64
<1>3. /\ Area["setup"] = Span(1280, 1024)
      /\ Area["kernel32"] = Span(4608, k32)
      /\ Area["kernel64"] = Span(1048576, k64)
      /\ Area["pml4"] = Span(32768, 8)
      /\ Area["pdpt"] = Span(36864, 8)
      /\ Area["pd"] = Span(40960, 50 * 8)
  BY DEF Area, k32, k64, SETUP_ADDR, KERNEL_ADDR, X64_KERNEL_ADDR, PML4T_ADDR, PDPT_ADDR,
         PD_ADDR, PD_ENTRIES
<1> QED  BY <1>1, <1>2, <1>3 DEF Span, k32

\* The sector that is read next lies in its area.
NextSector(area, sectors, l) == Span(Area[area].lo + (sectors - l) * SECTOR, SECTOR)

LEMMA SectorBounds ==
  ASSUME NEW area \in {"kernel32", "kernel64"}, NEW sectors \in Nat, NEW l \in 1 .. sectors
  PROVE  /\ NextSector(area, sectors, l).lo \in Nat /\ NextSector(area, sectors, l).hi \in Nat
         /\ Area[area].lo <= NextSector(area, sectors, l).lo
         /\ NextSector(area, sectors, l).hi <= Area[area].lo + sectors * SECTOR
<1> DEFINE m == sectors - l
           before == m * SECTOR
           all == sectors * SECTOR
           from == Area[area].lo
<1>1. m \in Nat /\ m + 1 \in Nat /\ m + 1 <= sectors /\ SECTOR \in Nat
  BY BootSizes
<1> HIDE DEF m
<1>2. before \in Nat /\ before + SECTOR = (m + 1) * SECTOR
  BY <1>1, Products, OneMore
<1>3. (m + 1) * SECTOR <= all /\ all \in Nat
  BY <1>1, Products
<1>4. from \in Nat
  BY AreaBounds
<1> HIDE DEF from
<1>5. before + SECTOR <= all
  BY <1>2, <1>3
<1> HIDE DEF before, all
<1>6. /\ Span(from + before, SECTOR).lo = from + before
      /\ Span(from + before, SECTOR).hi = from + before + SECTOR
  BY DEF Span
<1>7. /\ from + before \in Nat /\ from + before + SECTOR \in Nat /\ from <= from + before
      /\ from + before + SECTOR <= from + all
  BY <1>1, <1>2, <1>3, <1>4, <1>5
<1> QED  BY <1>6, <1>7 DEF NextSector, from, before, all, m

\* The slots of the map begin at 0x7e02, and end below the page tables if the
\* last one of them does.
LEMMA SlotBounds ==
  ASSUME NEW k \in Nat, k > 0
  PROVE  /\ Slot(k).lo \in Nat /\ Slot(k).hi \in Nat
         /\ 32258 <= Slot(k).lo
         /\ MapFits /\ Len(firmware) \in Nat /\ k <= Len(firmware) => Slot(k).hi <= 32768
<1> DEFINE m == k - 1
           L == Len(firmware)
<1>1. m \in Nat /\ ENTRY_SIZE \in Nat
  BY BootSizes
<1>2. Slot(k).lo = 32258 + m * ENTRY_SIZE /\ Slot(k).hi = 32258 + m * ENTRY_SIZE + ENTRY_SIZE
  BY DEF Slot, Span, E820_ARDS_ADDR
<1>3. m * ENTRY_SIZE \in Nat
  BY <1>1, Products
<1>4. ASSUME MapFits, L \in Nat, k <= L PROVE Slot(k).hi <= 32768
  <2> DEFINE n == L - 1
  <2>1. n \in Nat /\ m <= n
    BY <1>4
  <2>2. 32258 + n * ENTRY_SIZE + ENTRY_SIZE <= 32768
    BY <1>4 DEF MapFits, Slot, Span, E820_ARDS_ADDR, PML4T_ADDR
  <2> HIDE DEF n, m
  <2>3. m * ENTRY_SIZE <= n * ENTRY_SIZE /\ n * ENTRY_SIZE \in Nat
    BY <1>1, <2>1, Products
  <2> QED  BY <1>1, <1>2, <1>3, <2>2, <2>3
<1> HIDE DEF m
<1> QED  BY <1>1, <1>2, <1>3, <1>4 DEF L

\* What is not written over stays, and what was written is there.
LEMMA Stored ==
  ASSUME NEW ranges, NEW whole, Store(ranges, whole), intact \subseteq DOMAIN Area,
         whole \subseteq DOMAIN Area
  PROVE  /\ intact' \subseteq DOMAIN Area
         /\ whole \subseteq intact'
         /\ \A a \in intact : (\A s \in ranges : ~Meet(Area[a], Bus(s))) => a \in intact'
  BY DEF Store

\* The areas by their names.
LEMMA AreaNames == DOMAIN Area = {"setup", "kernel32", "kernel64", "pml4", "pdpt", "pd"}
  BY DEF Area

\* No step writes over an area that is needed after it.
LEMMA AreasStep ==
  ASSUME BootInv, [BootNext]_boot_vars
  PROVE  AreasInv'
<1>1. /\ stage \in Stages /\ intact \subseteq DOMAIN Area /\ Needed \subseteq intact
      /\ stage = "read32" => left \in 1 .. SECTORS_32
      /\ stage = "read64" => left \in 1 .. SECTORS_64 /\ "kernel32" \in intact
      /\ stage \in Reading \cup Loaded => regs.a20
      /\ num \in Nat
  <2>1. Len(map) \in Nat
    BY LenProperties DEF BootInv, MapInv
  <2> QED  BY <2>1 DEF BootInv, MachineOK, AreasInv, StillThere, PagingInv, MapInv
<1>2. CASE UNCHANGED <<stage, left, intact>>
  BY <1>1, <1>2 DEF AreasInv, StillThere, Needed
<1>3. CASE LoadSetup
  <2>1. /\ Store({Area["setup"]}, {"setup"}) /\ stage' = "query"
        /\ {"setup"} \subseteq DOMAIN Area
    BY <1>3, AreaNames DEF LoadSetup
  <2>2. intact' \subseteq DOMAIN Area /\ "setup" \in intact'
    BY <1>1, <2>1, Stored
  <2> QED  BY <2>1, <2>2 DEF AreasInv, StillThere, Needed
<1>4. CASE SetupNotRead \/ detect_mem_err \/ Restart
  <2>1. stage' \in {"mbr", "halted", "stuck"} /\ UNCHANGED intact
    BY <1>4 DEF SetupNotRead, detect_mem_err, Restart, Quiet, memory
  <2> QED  BY <1>1, <2>1 DEF AreasInv, StillThere, Needed
<1>5. CASE detect_memory_e820
  <2>1. /\ stage = "query" /\ stage' \in {"query", "protect"}
        /\ intact' = {a \in intact : ~Meet(Area[a], Slot(num + 1))}
    BY <1>5 DEF detect_memory_e820
  <2>2. "setup" \in intact
    BY <1>1, <2>1 DEF Needed
  <2>3. ~Meet(Area["setup"], Slot(num + 1))
    <3>1. num + 1 \in Nat /\ num + 1 > 0
      BY <1>1
    <3>2. Slot(num + 1).lo \in Nat /\ 32258 <= Slot(num + 1).lo
      BY <3>1, SlotBounds
    <3> QED  BY <3>2, AreaBounds DEF Meet
  <2> QED  BY <1>1, <2>1, <2>2, <2>3 DEF AreasInv, StillThere, Needed
<1>6. CASE enter_protected_mode
  <2>1. /\ stage = "protect" /\ stage' = "read32" /\ left' = SECTORS_32 /\ UNCHANGED intact
    BY <1>6 DEF enter_protected_mode, memory
  <2>2. left' \in 1 .. SECTORS_32
    BY <2>1, BootSizes
  <2> QED  BY <1>1, <2>1, <2>2 DEF AreasInv, StillThere, Needed
<1>7. CASE ReadKernel32
  <2> DEFINE s == NextSector("kernel32", SECTORS_32, left)
             whole == IF left = 1 THEN {"kernel32"} ELSE {}
  <2>1. /\ stage = "read32" /\ Store({s}, whole)
        /\ IF left = 1 THEN stage' = "read64" /\ left' = SECTORS_64
                       ELSE left' = left - 1 /\ stage' = stage
    BY <1>7 DEF ReadKernel32, ReadSector, NextSector
  <2>2. whole \subseteq DOMAIN Area
    BY AreaNames
  <2>3. left \in 1 .. SECTORS_32
    BY <1>1, <2>1
  <2>4. s.lo \in Nat /\ 4608 <= s.lo
    <3>1. Area["kernel32"].lo = 4608
      BY AreaBounds
    <3>2. SECTORS_32 \in Nat
      BY BootSizes
    <3>3. s.lo \in Nat /\ Area["kernel32"].lo <= s.lo
      BY <2>3, <3>2, SectorBounds
    <3> HIDE DEF s
    <3> QED  BY <3>1, <3>3
  <2>5. Bus(s) = s
    BY <1>1, <2>1 DEF Bus, Reading
  <2> HIDE DEF s
  <2>6. "setup" \in intact
    BY <1>1, <2>1 DEF Needed
  <2>7. /\ intact' \subseteq DOMAIN Area /\ whole \subseteq intact'
        /\ ~Meet(Area["setup"], Bus(s)) => "setup" \in intact'
    BY <1>1, <2>1, <2>2, <2>6, Stored
  <2>8. "setup" \in intact'
    BY <2>4, <2>5, <2>7, AreaBounds DEF Meet
  <2>9. CASE left = 1
    <3>1. left' \in 1 .. SECTORS_64 /\ stage' = "read64" /\ "kernel32" \in intact'
      BY <2>1, <2>7, <2>9, BootSizes
    <3> QED  BY <2>7, <2>8, <3>1 DEF AreasInv, StillThere, Needed
  <2>10. CASE left # 1
    <3>1. left' \in 1 .. SECTORS_32 /\ stage' = "read32"
      BY <2>1, <2>3, <2>10, BootSizes
    <3> QED  BY <2>7, <2>8, <3>1 DEF AreasInv, StillThere, Needed
  <2> QED  BY <2>9, <2>10
<1>8. CASE ReadKernel64
  <2> DEFINE s == NextSector("kernel64", SECTORS_64, left)
             whole == IF left = 1 THEN {"kernel64"} ELSE {}
  <2>1. /\ stage = "read64" /\ Store({s}, whole) /\ left' = left - 1
        /\ stage' = IF left = 1 THEN "check" ELSE stage
    BY <1>8 DEF ReadKernel64, ReadSector, NextSector
  <2>2. whole \subseteq DOMAIN Area
    BY AreaNames
  <2>3. left \in 1 .. SECTORS_64
    BY <1>1, <2>1
  <2>4. s.lo \in Nat /\ 1048576 <= s.lo
    <3>1. Area["kernel64"].lo = 1048576
      BY AreaBounds
    <3>2. SECTORS_64 \in Nat
      BY BootSizes
    <3>3. s.lo \in Nat /\ Area["kernel64"].lo <= s.lo
      BY <2>3, <3>2, SectorBounds
    <3> HIDE DEF s
    <3> QED  BY <3>1, <3>3
  <2>5. Bus(s) = s
    BY <1>1, <2>1 DEF Bus, Reading
  <2> HIDE DEF s
  <2>6. "setup" \in intact /\ "kernel32" \in intact
    BY <1>1, <2>1 DEF Needed
  <2>7. /\ intact' \subseteq DOMAIN Area /\ whole \subseteq intact'
        /\ ~Meet(Area["setup"], Bus(s)) => "setup" \in intact'
        /\ ~Meet(Area["kernel32"], Bus(s)) => "kernel32" \in intact'
    BY <1>1, <2>1, <2>2, <2>6, Stored
  <2>8. "setup" \in intact' /\ "kernel32" \in intact'
    BY <2>4, <2>5, <2>7, AreaBounds DEF Meet
  <2>9. CASE left = 1
    <3>1. stage' = "check" /\ "kernel64" \in intact'
      BY <2>1, <2>7, <2>9
    <3> QED  BY <2>7, <2>8, <3>1 DEF AreasInv, StillThere, Needed
  <2>10. CASE left # 1
    <3>1. left' \in 1 .. SECTORS_64 /\ stage' = "read64"
      BY <2>1, <2>3, <2>10, BootSizes
    <3> QED  BY <2>7, <2>8, <3>1 DEF AreasInv, StillThere, Needed
  <2> QED  BY <2>9, <2>10
<1>9. CASE load_pml4
  <2>1. /\ stage = "tables" /\ stage' = "lme"
        /\ Store({Area[t] : t \in Tables}, Tables)
    BY <1>9 DEF load_pml4, Mode
  <2>2. Tables \subseteq DOMAIN Area
    BY AreaNames DEF Tables
  <2>3. /\ intact' \subseteq DOMAIN Area /\ Tables \subseteq intact'
        /\ \A a \in intact : (\A t \in Tables : ~Meet(Area[a], Bus(Area[t]))) => a \in intact'
    <3> DEFINE R == {Area[t] : t \in Tables}
    <3>1. \A a : (\A t \in Tables : ~Meet(Area[a], Bus(Area[t]))) <=>
                 (\A s \in R : ~Meet(Area[a], Bus(s)))
      OBVIOUS
    <3> HIDE DEF R
    <3> QED  BY <1>1, <2>1, <2>2, <3>1, Stored DEF R
  <2>4. {"setup", "kernel32", "kernel64"} \subseteq intact
    BY <1>1, <2>1 DEF Needed
  <2>5. \A t : Bus(Area[t]) = Area[t]
    BY <1>1, <2>1 DEF Bus, Loaded, Entering
  <2>6. ASSUME NEW a \in {"setup", "kernel32", "kernel64"}, NEW t \in Tables
        PROVE  ~Meet(Area[a], Area[t])
    <3>1. CASE t = "pml4"
      BY <3>1, AreaBounds DEF Meet
    <3>2. CASE t = "pdpt"
      BY <3>2, AreaBounds DEF Meet
    <3>3. CASE t = "pd"
      BY <3>3, AreaBounds DEF Meet
    <3> QED  BY <3>1, <3>2, <3>3 DEF Tables
  <2>7. {"setup", "kernel32", "kernel64"} \subseteq intact'
    BY <2>3, <2>4, <2>5, <2>6
  <2> QED  BY <2>1, <2>3, <2>7 DEF AreasInv, StillThere, Needed
<1>10. CASE kernel_main \/ SetPAE \/ SetLME \/ SetPG \/ install_x64_descriptor \/ FarJump
  <2>1. /\ UNCHANGED intact
        /\ \/ stage' = "fault"
           \/ stage \in {"check", "pae"} /\ stage' \in {"pae", "tables"}
           \/ stage \in {"lme", "pg"} /\ stage' \in {"pg", "gdt"}
           \/ stage \in {"gdt", "jump"} /\ stage' \in {"jump", "main_x64"}
    BY <1>10 DEF kernel_main, SetPAE, SetLME, SetPG, install_x64_descriptor, FarJump, Mode,
                 memory
  <2> QED  BY <1>1, <2>1 DEF AreasInv, StillThere, Needed
<1>11. CASE \/ MemorySetup \/ SkipEntry \/ AddEntry \/ Work \/ Alloc \/ DiskAnswers
            \/ UNCHANGED boot_vars
  BY <1>2, <1>11 DEF MemorySetup, SkipEntry, AddEntry, Work, Alloc, InKernel64, DiskAnswers,
    boot_vars, memory
<1> QED
  BY <1>3, <1>4, <1>5, <1>6, <1>7, <1>8, <1>9, <1>10, <1>11
  DEF BootNext, CpuStep, enter_x64, TripleFault, Reset

-----------------------------------------------------------------------------
(***************************************************************************)
(* The memory map on its way.                                              *)
(***************************************************************************)
LEMMA FirmwareFacts ==
  ASSUME BootInv
  PROVE  /\ firmware \in Seq(Entry) /\ Len(firmware) \in Nat /\ Len(firmware) > 0
         /\ DOMAIN firmware = 1 .. Len(firmware)
         /\ \A k \in 1 .. Len(firmware) : firmware[k] \in Entry
<1>1. firmware \in Seq(Entry) /\ Len(firmware) \in 1 .. E820_MAX_ENTRIES
  BY BootAssumption DEF BootInv, MachineOK
<1>2. Len(firmware) \in Nat /\ DOMAIN firmware = 1 .. Len(firmware)
  BY <1>1, LenProperties
<1>3. \A k \in 1 .. Len(firmware) : firmware[k] \in Entry
  BY <1>1, ElementOfSeq
<1>4. Len(firmware) > 0
  BY <1>1, TableAssumption
<1> QED  BY <1>1, <1>2, <1>3, <1>4

\* What is written over an entry takes its type away and nothing else.
LEMMA StoredMap ==
  ASSUME NEW ranges, NEW whole, Store(ranges, whole), map \in Seq(Entry)
  PROVE  /\ map' \in Seq(Entry) /\ Len(map') = Len(map)
         /\ \A k \in 1 .. Len(map) :
              /\ map'[k].addr = map[k].addr /\ map'[k].size = map[k].size
              /\ map'[k].type \in {map[k].type, "UNKNOWN"}
              /\ (\A s \in ranges : ~Meet(Slot(k), Bus(s))) => map'[k] = map[k]
<1> DEFINE hit(k) == \E s \in ranges : Meet(Slot(k), Bus(s))
           lost(k) == [map[k] EXCEPT !.type = "UNKNOWN"]
           n == Len(map)
<1>1. n \in Nat /\ DOMAIN map = 1 .. n
  BY LenProperties
<1>2. map' = [k \in 1 .. n |-> IF hit(k) THEN lost(k) ELSE map[k]]
  BY <1>1 DEF Store
<1> HIDE DEF hit, n
<1>3. ASSUME NEW k \in 1 .. n
      PROVE  /\ map[k] \in Entry /\ lost(k) \in Entry
             /\ lost(k).addr = map[k].addr /\ lost(k).size = map[k].size
             /\ lost(k).type = "UNKNOWN"
  <2>1. map[k] \in Entry
    BY ElementOfSeq DEF n
  <2>2. "UNKNOWN" \in E820Types
    BY DEF E820Types
  <2> QED  BY <2>1, <2>2 DEF Entry
<1> HIDE DEF lost
<1>4. /\ map' \in [1 .. n -> Entry]
      /\ \A k \in 1 .. n : map'[k] = IF hit(k) THEN lost(k) ELSE map[k]
  BY <1>2, <1>3
<1>5. map' \in Seq(Entry)
  BY <1>1, <1>4, SeqDef
<1>6. Len(map') = n
  <2>1. DOMAIN map' = 1 .. n
    BY <1>4
  <2>2. Len(map') \in Nat /\ DOMAIN map' = 1 .. Len(map')
    BY <1>5, LenProperties
  <2> QED  BY <1>1, <2>1, <2>2
<1> QED  BY <1>3, <1>4, <1>5, <1>6 DEF hit, n

\* A write that misses the slots, or a map that does not fit, keeps the copies.
LEMMA StoredCopies ==
  ASSUME BootInv, NEW ranges, NEW whole, Store(ranges, whole), firmware' = firmware,
         MapFits => \A s \in ranges, k \in 1 .. num : ~Meet(Slot(k), Bus(s))
  PROVE  /\ map' \in Seq(Entry) /\ Len(map') = Len(map)
         /\ \A k \in 1 .. num : Copied(k)'
<1>1. /\ map \in Seq(Entry) /\ num \in 0 .. Len(map) /\ Len(map) \in Nat
      /\ \A k \in 1 .. num : Copied(k)
  BY LenProperties DEF BootInv, MapInv
<1>2. /\ map' \in Seq(Entry) /\ Len(map') = Len(map)
      /\ \A k \in 1 .. Len(map) :
           /\ map'[k].addr = map[k].addr /\ map'[k].size = map[k].size
           /\ map'[k].type \in {map[k].type, "UNKNOWN"}
           /\ (\A s \in ranges : ~Meet(Slot(k), Bus(s))) => map'[k] = map[k]
  BY <1>1, StoredMap
<1>3. MapFits' = MapFits
  BY DEF MapFits, Slot
<1>4. ASSUME NEW k \in 1 .. num PROVE Copied(k)'
  <2>1. k \in 1 .. Len(map) /\ Copied(k)
    BY <1>1
  <2>2. CASE MapFits
    <3>1. map'[k] = map[k]
      BY <1>2, <2>1, <2>2
    <3> QED  BY <1>3, <2>1, <3>1 DEF Copied
  <2>3. CASE ~MapFits
    BY <1>2, <1>3, <2>1, <2>3 DEF Copied
  <2> QED  BY <2>2, <2>3
<1> QED  BY <1>2, <1>4

\* One answer of the firmware.
LEMMA EntryPut ==
  ASSUME PutEntry, map \in Seq(Entry), num \in 0 .. Len(map), firmware[num + 1] \in Entry
  PROVE  /\ map' \in Seq(Entry) /\ Len(map') \in Nat /\ Len(map') >= num + 1
         /\ \A k \in 1 .. num : map'[k] = map[k]
         /\ map'[num + 1] = firmware[num + 1]
<1> DEFINE n == Len(map)
           e == firmware[num + 1]
           front == SubSeq(map, 1, num)
           back == SubSeq(map, num + 2, n)
<1>1. n \in Nat /\ num \in Nat /\ num <= n /\ \A k \in 1 .. n : map[k] \in Entry
  BY LenProperties, ElementOfSeq
<1>2. map' = (front \o <<e>>) \o back
  BY DEF PutEntry
<1> HIDE DEF e, n
<1>3. front \in Seq(Entry) /\ Len(front) = num /\ \A k \in 1 .. num : front[k] = map[k]
  <2>1. \A k \in 1 .. num : map[k] \in Entry
    BY <1>1
  <2> QED  BY <1>1, <2>1, SubSeqProperties
<1>4. back \in Seq(Entry) /\ Len(back) \in Nat
  <2>1. \A k \in num + 2 .. n : map[k] \in Entry
    BY <1>1
  <2>2. num + 2 \in Int /\ n \in Int
    BY <1>1
  <2>3. back \in Seq(Entry)
    BY <2>1, <2>2, SubSeqProperties
  <2> QED  BY <2>3, LenProperties
<1>5. <<e>> \in Seq(Entry) /\ Len(<<e>>) = 1 /\ <<e>>[1] = e
  BY DEF e
<1> HIDE DEF front, back
<1>6. /\ front \o <<e>> \in Seq(Entry) /\ Len(front \o <<e>>) = num + 1
      /\ \A k \in 1 .. num + 1 : (front \o <<e>>)[k] = IF k <= num THEN map[k] ELSE e
  BY <1>1, <1>3, <1>5, ConcatProperties
<1> DEFINE left1 == front \o <<e>>
<1> HIDE DEF left1
<1>7. /\ left1 \o back \in Seq(Entry) /\ Len(left1 \o back) = (num + 1) + Len(back)
      /\ \A k \in 1 .. num + 1 : (left1 \o back)[k] = left1[k]
  <2>1. left1 \in Seq(Entry) /\ Len(left1) = num + 1
    BY <1>6 DEF left1
  <2>2. /\ left1 \o back \in Seq(Entry) /\ Len(left1 \o back) = Len(left1) + Len(back)
        /\ \A k \in 1 .. Len(left1) + Len(back) :
             (left1 \o back)[k] = IF k <= Len(left1) THEN left1[k] ELSE back[k - Len(left1)]
    BY <1>4, <2>1, ConcatProperties
  <2>3. \A k \in 1 .. num + 1 : k \in 1 .. (num + 1) + Len(back) /\ k <= num + 1
    BY <1>1, <1>4
  <2> QED  BY <2>1, <2>2, <2>3
<1>8. \A k \in 1 .. num : k \in 1 .. num + 1 /\ k <= num
  BY <1>1
<1>9. num + 1 \in 1 .. num + 1 /\ ~(num + 1 <= num)
  BY <1>1
<1> QED  BY <1>1, <1>2, <1>4, <1>6, <1>7, <1>8, <1>9 DEF left1, e

\* A sector of a kernel or a page table leaves a map that fits alone.
LEMMA SectorsMissMap ==
  ASSUME BootInv, MapFits, NEW k \in 1 .. num, stage \in Reading,
         NEW s, s.lo \in Nat, s.hi \in Nat, s.hi <= 32256 \/ 1048576 <= s.lo
  PROVE  ~Meet(Slot(k), Bus(s))
<1>1. k \in Nat /\ k > 0 /\ k <= Len(firmware) /\ Len(firmware) \in Nat
  <2>1. Len(map) \in Nat /\ num \in 0 .. Len(map) /\ num <= Len(firmware)
    BY LenProperties DEF BootInv, MapInv
  <2> QED  BY <2>1, FirmwareFacts
<1>2. /\ Slot(k).lo \in Nat /\ Slot(k).hi \in Nat
      /\ 32258 <= Slot(k).lo /\ Slot(k).hi <= 32768
  BY <1>1, SlotBounds
<1>3. Bus(s) = s
  BY DEF Bus, BootInv, PagingInv
<1> QED  BY <1>2, <1>3 DEF Meet

\* So do the page tables.
LEMMA TablesMissMap ==
  ASSUME BootInv, MapFits, NEW k \in 1 .. num, stage = "tables", NEW t \in Tables
  PROVE  ~Meet(Slot(k), Bus(Area[t]))
<1>1. k \in Nat /\ k > 0 /\ k <= Len(firmware) /\ Len(firmware) \in Nat
  <2>1. Len(map) \in Nat /\ num \in 0 .. Len(map) /\ num <= Len(firmware)
    BY LenProperties DEF BootInv, MapInv
  <2> QED  BY <2>1, FirmwareFacts
<1>2. Slot(k).lo \in Nat /\ Slot(k).hi \in Nat /\ Slot(k).hi <= 32768
  BY <1>1, SlotBounds
<1>3. Bus(Area[t]) = Area[t]
  BY DEF Bus, BootInv, PagingInv, Loaded, Entering
<1>4. Area[t].lo \in Nat /\ 32768 <= Area[t].lo
  <2>1. CASE t = "pml4"
    BY <2>1, AreaBounds
  <2>2. CASE t = "pdpt"
    BY <2>2, AreaBounds
  <2>3. CASE t = "pd"
    BY <2>3, AreaBounds
  <2> QED  BY <2>1, <2>2, <2>3 DEF Tables
<1> QED  BY <1>2, <1>3, <1>4 DEF Meet

\* Wherever the boot is, the map in memory is what the firmware reported.
LEMMA MapStep ==
  ASSUME BootInv, [BootNext]_boot_vars
  PROVE  MapInv'
<1>1. /\ map \in Seq(Entry) /\ Len(map) \in Nat
      /\ num \in 0 .. Len(map) /\ num \in Nat /\ num <= Len(firmware)
      /\ stage = "query" => num < Len(firmware)
      /\ stage \in {"protect", "main_x64"} \cup Reading \cup Loaded => num = Len(firmware)
      /\ \A k \in 1 .. num : Copied(k)
      /\ firmware' = firmware /\ MapFits' = MapFits
  <2>1. map \in Seq(Entry) /\ num \in 0 .. Len(map)
    BY DEF BootInv, MapInv
  <2>2. Len(map) \in Nat
    BY <2>1, LenProperties
  <2>3. firmware' = firmware /\ MapFits' = MapFits
    BY MachineSame DEF MapFits, Slot
  <2> QED  BY <2>1, <2>2, <2>3 DEF BootInv, MapInv
<1>2. CASE UNCHANGED <<stage, num, map>>
  BY <1>1, <1>2 DEF MapInv, Copied
<1>3. CASE LoadSetup
  <2>1. /\ Store({Area["setup"]}, {"setup"}) /\ stage' = "query" /\ num' = 0
    BY <1>3 DEF LoadSetup
  <2>2. map' \in Seq(Entry) /\ Len(map') \in Nat
    BY <1>1, <2>1, StoredMap
  <2>3. Len(firmware) \in Nat /\ Len(firmware) > 0
    BY FirmwareFacts
  <2> QED  BY <1>1, <2>1, <2>2, <2>3 DEF MapInv, Reading, Loaded, Entering
<1>4. CASE detect_memory_e820
  <2> DEFINE n == num + 1
  <2>1. /\ PutEntry /\ stage = "query" /\ num' = n
        /\ stage' = IF n = Len(firmware) THEN "protect" ELSE "query"
    BY <1>4 DEF detect_memory_e820
  <2>2. /\ n \in Nat /\ n \in 1 .. Len(firmware) /\ Len(firmware) \in Nat
        /\ firmware[n] \in Entry /\ num < Len(firmware)
    <3>1. /\ Len(firmware) \in Nat
          /\ \A k \in 1 .. Len(firmware) : firmware[k] \in Entry
      BY FirmwareFacts
    <3>2. num < Len(firmware)
      BY <1>1, <2>1
    <3>3. n \in Nat /\ n \in 1 .. Len(firmware)
      BY <1>1, <3>1, <3>2
    <3> QED  BY <3>1, <3>2, <3>3
  <2>3. /\ map' \in Seq(Entry) /\ Len(map') \in Nat /\ Len(map') >= n
        /\ \A k \in 1 .. num : map'[k] = map[k]
        /\ map'[n] = firmware[n]
    BY <1>1, <2>1, <2>2, EntryPut
  <2>4. ASSUME NEW k \in 1 .. n PROVE Copied(k)'
    <3>1. CASE k = n
      BY <1>1, <2>3, <3>1 DEF Copied
    <3>2. CASE k # n
      <4>1. k \in 1 .. num
        BY <1>1, <3>2
      <4> QED  BY <1>1, <2>3, <4>1 DEF Copied
    <3> QED  BY <3>1, <3>2
  <2>5. n \in 0 .. Len(map')
    BY <2>2, <2>3
  <2> QED  BY <1>1, <2>1, <2>2, <2>3, <2>4, <2>5 DEF MapInv, Reading, Loaded, Entering
<1>5. CASE ReadKernel32 \/ ReadKernel64
  <2> DEFINE Written ==
        \E s, whole : /\ Store({s}, whole) /\ s.lo \in Nat /\ s.hi \in Nat
                      /\ s.hi <= 32256 \/ 1048576 <= s.lo
  <2>1. Written
    <3> HIDE DEF Written
    <3>1. CASE ReadKernel32
      <4> DEFINE s == NextSector("kernel32", SECTORS_32, left)
      <4> DEFINE whole == IF left = 1 THEN {"kernel32"} ELSE {}
      <4>1. /\ stage = "read32" /\ Store({s}, whole)
        BY <3>1 DEF ReadKernel32, ReadSector, NextSector
      <4>2. left \in 1 .. SECTORS_32 /\ SECTORS_32 \in Nat
        BY <4>1, BootSizes DEF BootInv, AreasInv
      <4>3. s.lo \in Nat /\ s.hi \in Nat /\ s.hi <= Area["kernel32"].lo + SECTORS_32 * SECTOR
        BY <4>2, SectorBounds
      <4> HIDE DEF s, whole
      <4>4. s.hi <= 32256
        <5> DEFINE k32 == SECTORS_32 * SECTOR
        <5>1. /\ s.hi <= 4608 + k32 /\ 4608 + k32 <= 32256 /\ k32 \in Nat
          BY <4>2, <4>3, AreaBounds, BootSizes, Products
        <5> HIDE DEF k32
        <5> QED  BY <4>3, <5>1
      <4>5. /\ Store({s}, whole) /\ s.lo \in Nat /\ s.hi \in Nat
            /\ s.hi <= 32256 \/ 1048576 <= s.lo
        BY <4>1, <4>3, <4>4
      <4> QED  BY <4>5 DEF Written
    <3>2. CASE ReadKernel64
      <4> DEFINE s == NextSector("kernel64", SECTORS_64, left)
      <4> DEFINE whole == IF left = 1 THEN {"kernel64"} ELSE {}
      <4>1. /\ stage = "read64" /\ Store({s}, whole)
        BY <3>2 DEF ReadKernel64, ReadSector, NextSector
      <4>2. left \in 1 .. SECTORS_64 /\ SECTORS_64 \in Nat
        BY <4>1, BootSizes DEF BootInv, AreasInv
      <4>3. s.lo \in Nat /\ s.hi \in Nat /\ Area["kernel64"].lo <= s.lo
        BY <4>2, SectorBounds
      <4> HIDE DEF s, whole
      <4>4. 1048576 <= s.lo
        BY <4>3, AreaBounds
      <4>5. /\ Store({s}, whole) /\ s.lo \in Nat /\ s.hi \in Nat
            /\ s.hi <= 32256 \/ 1048576 <= s.lo
        BY <4>1, <4>3, <4>4
      <4> QED  BY <4>5 DEF Written
    <3> QED  BY <1>5, <3>1, <3>2
  <2> PICK s, whole :
        /\ Store({s}, whole) /\ s.lo \in Nat /\ s.hi \in Nat
        /\ s.hi <= 32256 \/ 1048576 <= s.lo
    BY <2>1
  <2>2. stage \in Reading /\ stage' \in Reading \cup {"check"} /\ num' = num
    BY <1>5 DEF ReadKernel32, ReadKernel64, ReadSector, Reading
  <2>3. MapFits => \A r \in {s}, k \in 1 .. num : ~Meet(Slot(k), Bus(r))
    BY <2>2, SectorsMissMap
  <2>4. /\ map' \in Seq(Entry) /\ Len(map') = Len(map)
        /\ \A k \in 1 .. num : Copied(k)'
    BY <1>1, <2>3, StoredCopies
  <2> QED  BY <1>1, <2>2, <2>4 DEF MapInv, Reading, Loaded, Entering
<1>6. CASE load_pml4
  <2> DEFINE R == {Area[t] : t \in Tables}
  <2>1. Store(R, Tables) /\ stage = "tables" /\ stage' = "lme" /\ num' = num
    BY <1>6 DEF load_pml4, Mode
  <2>2. MapFits => \A r \in R, k \in 1 .. num : ~Meet(Slot(k), Bus(r))
    BY <2>1, TablesMissMap
  <2> HIDE DEF R
  <2>3. /\ map' \in Seq(Entry) /\ Len(map') = Len(map)
        /\ \A k \in 1 .. num : Copied(k)'
    BY <1>1, <2>1, <2>2, StoredCopies
  <2> QED  BY <1>1, <2>1, <2>3 DEF MapInv, Reading, Loaded, Entering
<1>7. CASE SetupNotRead \/ detect_mem_err \/ Restart
  <2>1. stage' \in {"mbr", "halted", "stuck"} /\ UNCHANGED <<num, map>>
    BY <1>7 DEF SetupNotRead, detect_mem_err, Restart, Quiet, memory
  <2> QED  BY <1>1, <2>1 DEF MapInv, Copied, Reading, Loaded, Entering
<1>8. CASE \/ enter_protected_mode \/ kernel_main \/ SetPAE \/ SetLME \/ SetPG
           \/ install_x64_descriptor \/ FarJump
  <2>1. /\ UNCHANGED <<num, map>>
        /\ \/ stage' = "fault"
           \/ stage \in {"protect"} \cup Loaded /\ stage' \in {"main_x64"} \cup Reading \cup Loaded
    BY <1>8 DEF enter_protected_mode, kernel_main, SetPAE, SetLME, SetPG, install_x64_descriptor,
                FarJump, Mode, memory, Reading, Loaded, Entering
  <2> QED  BY <1>1, <2>1 DEF MapInv, Copied, Reading, Loaded, Entering
<1>9. CASE \/ MemorySetup \/ SkipEntry \/ AddEntry \/ Work \/ Alloc \/ DiskAnswers
           \/ UNCHANGED boot_vars
  BY <1>2, <1>9 DEF MemorySetup, SkipEntry, AddEntry, Work, Alloc, InKernel64, DiskAnswers,
    boot_vars, memory
<1> QED
  BY <1>3, <1>4, <1>5, <1>6, <1>7, <1>8, <1>9
  DEF BootNext, CpuStep, enter_x64, TripleFault, Reset

-----------------------------------------------------------------------------
(***************************************************************************)
(* The 64-bit kernel adds the entries.                                     *)
(***************************************************************************)
LEMMA StepsInCalls == ASSUME Step PROVE pc # "idle"
  BY DEF Step, AddStep, FreeStep, AllocStep, ScanSkip, ScanOverlap, CountFront, CountDone,
         InsertFront, InsertDone, InsertBug, Merge, MergeNext, MergeDone, Merging, Scanning,
         IsolateSkip, IsolateFront, IsolateBack, IsolateWhole, IsolateDone, RemoveLast,
         RemoveDone, Overlapping, Isolating, FindPrevRegion, FindPrevGap, FindTry, FindHit,
         FindFail, FreeRange, Finding, AllocReserve, Running

\* No step inside a call changes what counts as memory.
LEMMA StepKeepsMemory ==
  ASSUME IInv, SetsInv, HangsInLoops, Step
  PROVE  IInv' /\ SetsInv' /\ HangsInLoops' /\ Memory' = Memory
<1>1. pc # "idle"
  BY StepsInCalls
<1>2. Next
  BY DEF Next
<1>3. IInv' /\ SetsInv' /\ HangsInLoops' /\ (Abstract!Next \/ UNCHANGED Abstract!vars)
  BY <1>2, NextInv, StepSets, NextHangs
<1>4. Memory' = Memory
  BY <1>1, <1>3 DEF Abstract!Next, Abstract!vars, Abstract!Add, Abstract!Reserve, Abstract!Free,
     Abstract!Request, Abstract!Begin, Abstract!Grant, Abstract!GrantNothing, Abstract!Return,
     Abstract!Stop
<1> QED  BY <1>3, <1>4

\* A stutter of memblock keeps all of it.
LEMMA StutterKeepsMemory ==
  ASSUME IInv, SetsInv, HangsInLoops, UNCHANGED vars
  PROVE  IInv' /\ SetsInv' /\ HangsInLoops' /\ Memory' = Memory
  BY StutterInv, SetsOfStuttering DEF Abstract!vars, HangsInLoops, vars

\* A call for an allocation does not either.
LEMMA AllocKeepsMemory ==
  ASSUME IInv, SetsInv, NEW r \in AllocCalls, memblock_phys_alloc_range(r)
  PROVE  IInv' /\ SetsInv' /\ HangsInLoops' /\ Memory' = Memory
<1>1. pc = "idle" /\ pc' = "find" /\ ~hung /\ UNCHANGED <<mb, found, hung>>
  BY DEF memblock_phys_alloc_range, Running
<1>2. IInv' /\ SetsInv'
  BY AllocInv, AllocSets
<1>3. Memory' = Memory /\ HangsInLoops'
  BY <1>1 DEF Memory, Adding, HangsInLoops
<1> QED  BY <1>2, <1>3

\* The bytes of an entry become memory with the call that adds it.
LEMMA AddGivesMemory ==
  ASSUME IInv, NEW base \in Addr, NEW size \in Addr, memblock_add(base, size)
  PROVE  /\ IInv' /\ SetsInv' /\ HangsInLoops'
         /\ Memory' = Memory \cup Abstract!Bytes(base, size)
<1>1. /\ pc = "idle" /\ ~hung /\ UNCHANGED <<found, hung>>
      /\ memblock_add_range("memory", base, size) /\ "memory" \in Types
  BY DEF memblock_add, Running, Types
<1>2. IInv'
  BY <1>1, AddRangeInv
<1>3. /\ SetsInv'
      /\ Covered(mb'["memory"].regions) \cup Adding("memory")' =
           Covered(mb["memory"].regions) \cup Abstract!Bytes(base, size)
  BY <1>1, AddRangeSets
<1>4. Adding("memory") = {}
  BY <1>1 DEF Adding
<1>5. HangsInLoops'
  BY <1>1 DEF HangsInLoops
<1> QED  BY <1>2, <1>3, <1>4, <1>5 DEF Memory

\* The table that the kernel copied.
LEMMA TableFacts ==
  ASSUME BootInv, stage = "main_x64", i # 0
  PROVE  /\ num \in Nat /\ num = Len(firmware) /\ i \in 1 .. num + 1
         /\ Len(e820_table) = num /\ DOMAIN e820_table = 1 .. num
         /\ \A k \in 1 .. num : e820_table[k] = map[k] /\ e820_table[k] \in Entry
<1>1. /\ map \in Seq(Entry) /\ num \in 0 .. Len(map) /\ num = Len(firmware)
      /\ e820_table = SubSeq(map, 1, num) /\ i \in 1 .. num + 1
  BY DEF BootInv, MapInv, KernelInv
<1>2. Len(map) \in Nat /\ num \in Nat /\ \A k \in 1 .. Len(map) : map[k] \in Entry
  BY <1>1, LenProperties, ElementOfSeq
<1> DEFINE table == SubSeq(map, 1, num)
<1>3. /\ table \in Seq(Entry) /\ Len(table) = num
      /\ \A k \in 1 .. num : table[k] = map[k]
  <2>1. \A k \in 1 .. num : map[k] \in Entry
    BY <1>1, <1>2
  <2> QED  BY <1>2, <2>1, SubSeqProperties
<1> HIDE DEF table
<1>4. DOMAIN table = 1 .. num
  BY <1>2, <1>3, LenProperties
<1>5. \A k \in 1 .. num : map[k] \in Entry
  BY <1>1, <1>2
<1>6. e820_table = table
  BY <1>1 DEF table
<1> QED  BY <1>1, <1>2, <1>3, <1>4, <1>5, <1>6

\* What the loop adds.
LEMMA OneEntryAdded ==
  ASSUME BootInv, stage = "main_x64", AtEntry, e820_table' = e820_table, i' = i + 1
  PROVE  /\ i # 0 /\ num \in Nat /\ i \in 1 .. num /\ e820_table[i] \in Entry
         /\ ~Usable(e820_table[i]) => AddedBytes' = AddedBytes
         /\ Usable(e820_table[i]) =>
              AddedBytes' = AddedBytes \cup Abstract!Bytes(e820_table[i].addr, e820_table[i].size)
<1> DEFINE Held(k, x) == /\ Usable(e820_table[k])
                         /\ e820_table[k].addr <= x
                         /\ x < e820_table[k].addr + e820_table[k].size
<1>1. i # 0
  <2>1. i = 0 => e820_table = <<>>
    BY DEF BootInv, KernelInv
  <2>2. DOMAIN <<>> = {}
    OBVIOUS
  <2> QED  BY <2>1, <2>2 DEF AtEntry
<1>2. i \in 1 .. num /\ num \in Nat /\ e820_table[i] \in Entry
  BY <1>1, TableFacts DEF AtEntry
<1>3. /\ AddedBytes = {x \in 0 .. (PHYS_ADDR_MAX - 1) : \E k \in 1 .. i - 1 : Held(k, x)}
      /\ AddedBytes' = {x \in 0 .. (PHYS_ADDR_MAX - 1) : \E k \in 1 .. (i + 1) - 1 : Held(k, x)}
  BY DEF AddedBytes, Usable
<1>4. (i + 1) - 1 = i /\ \A k : k \in 1 .. i <=> k \in 1 .. i - 1 \/ k = i
  BY <1>2
<1>5. AddedBytes' = AddedBytes \cup {x \in 0 .. (PHYS_ADDR_MAX - 1) : Held(i, x)}
  <2> HIDE DEF Held
  <2> QED  BY <1>3, <1>4
<1>6. Usable(e820_table[i]) =>
        {x \in 0 .. (PHYS_ADDR_MAX - 1) : Held(i, x)} =
          Abstract!Bytes(e820_table[i].addr, e820_table[i].size)
  <2>1. e820_table[i].addr \in Nat /\ e820_table[i].size \in Nat /\ PHYS_ADDR_MAX \in Nat
    BY <1>2, SizesAssumption DEF Entry, Addr
  <2> QED  BY <2>1 DEF Abstract!Bytes
<1>7. ~Usable(e820_table[i]) => {x \in 0 .. (PHYS_ADDR_MAX - 1) : Held(i, x)} = {}
  OBVIOUS
<1> HIDE DEF Held
<1> QED  BY <1>1, <1>2, <1>5, <1>6, <1>7

\* Where the 64-bit kernel does not run yet, memblock is not touched.
LEMMA KernelAsleep ==
  ASSUME BootInv, stage # "main_x64", stage' # "main_x64", UNCHANGED e820_vars,
         stage' \in Loaded => stage \in Loaded
  PROVE  KernelInv'
  BY DEF BootInv, KernelInv, Untouched, e820_vars, vars

\* A step of something else keeps its part of the invariant.
LEMMA KernelQuiet ==
  ASSUME BootInv, UNCHANGED <<stage, e820_vars, num, map>>
  PROVE  KernelInv'
<1>1. CASE stage # "main_x64"
  BY <1>1 DEF BootInv, KernelInv, Untouched, e820_vars, vars
<1>2. CASE stage = "main_x64"
  <2>1. /\ UNCHANGED vars /\ UNCHANGED <<e820_table, i, num, map, stage>> /\ KernelInv
        /\ IInv /\ SetsInv /\ HangsInLoops
    BY <1>2 DEF e820_vars, BootInv, KernelInv
  <2>2. IInv' /\ SetsInv' /\ HangsInLoops' /\ Memory' = Memory
    BY <2>1, StutterKeepsMemory
  <2>3. Init => Init'
    BY <2>1 DEF Init, vars
  <2>4. AddedBytes' = AddedBytes
    BY <2>1 DEF AddedBytes
  <2> QED  BY <1>2, <2>1, <2>2, <2>3, <2>4 DEF KernelInv, Loaded, Entering
<1> QED  BY <1>1, <1>2

\* When its data is as in the image, the 64-bit kernel begins as Memblock does.
LEMMA KernelBegins ==
  ASSUME BootInv, stage = "jump", stage' = "main_x64", UNCHANGED e820_vars
  PROVE  KernelInv'
<1>1. /\ pc = "idle" /\ fr = NoFrame /\ found = 0 /\ hung = FALSE /\ i = 0
      /\ mb = ImageOfMemblock /\ e820_table = <<>> /\ e820_table \in Seq(Entry)
  BY DEF BootInv, KernelInv, Untouched, Loaded
<1>2. Init
  BY <1>1 DEF Init, ImageOfMemblock
<1>3. IInv /\ SetsInv /\ HangsInLoops
  BY <1>2, InitInv, InitSets, InitHangs
<1>4. UNCHANGED vars /\ i' = 0 /\ e820_table' = e820_table
  BY <1>1 DEF e820_vars
<1>5. IInv' /\ SetsInv' /\ HangsInLoops'
  BY <1>3, <1>4, StutterKeepsMemory
<1>6. Init'
  BY <1>2, <1>4 DEF Init, vars
<1> QED  BY <1>1, <1>4, <1>5, <1>6 DEF KernelInv, Loaded, Entering

\* e820__memory_setup.
LEMMA KernelCopies ==
  ASSUME BootInv, MemorySetup
  PROVE  KernelInv'
<1>1. /\ stage = "main_x64" /\ stage' = stage /\ map' = map /\ num' = num
      /\ i = 0 /\ e820_table' = SubSeq(map, 1, num) /\ i' = 1 /\ UNCHANGED vars
  BY DEF MemorySetup, InKernel64, e820__memory_setup, memory
<1>2. IInv /\ SetsInv /\ HangsInLoops /\ Init
  BY <1>1 DEF BootInv, KernelInv
<1>3. IInv' /\ SetsInv' /\ HangsInLoops' /\ Memory' = Memory
  BY <1>1, <1>2, StutterKeepsMemory
<1>4. Memory = {}
  BY <1>2, InitSets DEF Abstract!Init
<1>5. AddedBytes' = {}
  BY <1>1 DEF AddedBytes
<1>6. /\ map \in Seq(Entry) /\ num \in 0 .. Len(map) /\ Len(map) \in Nat
  BY LenProperties DEF BootInv, MapInv
<1>7. SubSeq(map, 1, num) \in Seq(Entry)
  <2>1. \A k \in 1 .. num : map[k] \in Entry
    BY <1>6, ElementOfSeq
  <2>2. 1 \in Int /\ num \in Int
    BY <1>6
  <2> QED  BY <2>1, <2>2, SubSeqProperties
<1>8. 1 \in 1 .. num + 1
  BY <1>6
<1> HIDE DEF Memory, AddedBytes
<1> QED  BY <1>1, <1>3, <1>4, <1>5, <1>7, <1>8 DEF KernelInv, Loaded, Entering

\* The steps of the loop and of memblock, once the table is there.
LEMMA KernelGoesOn ==
  ASSUME BootInv, stage = "main_x64", i # 0, UNCHANGED <<stage, num, map, e820_table>>,
         i' \in 1 .. num + 1, IInv', SetsInv', HangsInLoops', Memory' = AddedBytes'
  PROVE  KernelInv'
<1>1. i' # 0
  OBVIOUS
<1> HIDE DEF Memory, AddedBytes
<1> QED  BY <1>1 DEF BootInv, KernelInv, Loaded, Entering

\* The steps of the kernel, and those before it runs.
LEMMA KernelStep ==
  ASSUME BootInv, [BootNext]_boot_vars
  PROVE  KernelInv'
<1>1. KernelInv /\ stage \in Stages
  BY DEF BootInv, MachineOK
<1>2. CASE /\ UNCHANGED e820_vars
           /\ \/ LoadSetup \/ SetupNotRead \/ detect_memory_e820 \/ detect_mem_err
              \/ enter_protected_mode \/ ReadKernel32 \/ kernel_main \/ SetPAE \/ load_pml4
              \/ SetLME \/ SetPG \/ install_x64_descriptor
  <2>1. /\ stage # "main_x64" /\ stage' # "main_x64"
        /\ stage' \in Loaded => stage \in Loaded
    BY <1>2 DEF LoadSetup, SetupNotRead, detect_memory_e820, detect_mem_err,
      enter_protected_mode, ReadKernel32, kernel_main, SetPAE, load_pml4, SetLME, SetPG,
      install_x64_descriptor, Mode, Loaded, Entering
  <2> QED  BY <1>2, <2>1, KernelAsleep
<1>3. CASE ReadKernel64
  <2>1. CASE left = 1
    <3>1. /\ stage = "read64" /\ stage' = "check" /\ mb' = ImageOfMemblock
          /\ e820_table' = <<>> /\ UNCHANGED <<pc, fr, found, hung, i>>
      BY <1>3, <2>1 DEF ReadKernel64
    <3>2. <<>> \in Seq(Entry)
      OBVIOUS
    <3> QED  BY <1>1, <3>1, <3>2 DEF KernelInv, Untouched
  <2>2. CASE left # 1
    <3>1. /\ stage = "read64" /\ stage' = stage /\ UNCHANGED e820_vars
      BY <1>3, <2>2 DEF ReadKernel64, e820_vars, vars
    <3> QED  BY <3>1, KernelAsleep
  <2> QED  BY <2>1, <2>2
<1>4. CASE FarJump
  <2>1. stage = "jump" /\ stage' \in {"main_x64", "fault"} /\ UNCHANGED e820_vars
    BY <1>4 DEF FarJump, Mode
  <2>2. CASE stage' = "main_x64"
    BY <2>1, <2>2, KernelBegins
  <2>3. CASE stage' = "fault"
    BY <2>1, <2>3, KernelAsleep DEF Loaded, Entering
  <2> QED  BY <2>1, <2>2, <2>3
<1>5. CASE MemorySetup
  BY <1>5, KernelCopies
<1>6. CASE SkipEntry
  <2>1. /\ stage = "main_x64" /\ UNCHANGED <<stage, num, map, e820_table>>
        /\ AtEntry /\ ~Usable(e820_table[i]) /\ i' = i + 1 /\ UNCHANGED vars
    BY <1>6 DEF SkipEntry, InKernel64, SetupSkip, memory
  <2>2. i # 0 /\ num \in Nat /\ i \in 1 .. num /\ AddedBytes' = AddedBytes
    BY <2>1, OneEntryAdded
  <2>3. IInv /\ SetsInv /\ HangsInLoops /\ Memory = AddedBytes
    BY <1>1, <2>1, <2>2 DEF KernelInv
  <2>4. IInv' /\ SetsInv' /\ HangsInLoops' /\ Memory' = Memory
    BY <2>1, <2>3, StutterKeepsMemory
  <2>5. i' \in 1 .. num + 1
    BY <2>1, <2>2
  <2> QED  BY <2>1, <2>2, <2>3, <2>4, <2>5, KernelGoesOn
<1>7. CASE AddEntry
  <2> DEFINE e == e820_table[i]
  <2>1. /\ stage = "main_x64" /\ UNCHANGED <<stage, num, map, e820_table>>
        /\ AtEntry /\ Usable(e) /\ i' = i + 1 /\ memblock_add(e.addr, e.size)
    BY <1>7 DEF AddEntry, InKernel64, SetupAdd, memory
  <2>2. /\ i # 0 /\ num \in Nat /\ i \in 1 .. num /\ e \in Entry
        /\ AddedBytes' = AddedBytes \cup Abstract!Bytes(e.addr, e.size)
    BY <2>1, OneEntryAdded
  <2> HIDE DEF e
  <2>3. IInv /\ Memory = AddedBytes
    BY <1>1, <2>1, <2>2 DEF KernelInv
  <2>4. e.addr \in Addr /\ e.size \in Addr
    BY <2>2 DEF Entry
  <2>5. /\ IInv' /\ SetsInv' /\ HangsInLoops'
        /\ Memory' = Memory \cup Abstract!Bytes(e.addr, e.size)
    BY <2>1, <2>3, <2>4, AddGivesMemory
  <2>6. i' \in 1 .. num + 1
    BY <2>1, <2>2
  <2>7. Memory' = AddedBytes'
    BY <2>2, <2>3, <2>5
  <2> QED  BY <2>1, <2>2, <2>5, <2>6, <2>7, KernelGoesOn
<1>8. CASE Alloc \/ Work
  <2>1. /\ stage = "main_x64" /\ UNCHANGED <<stage, num, map, e820_table, i>>
        /\ \/ Step
           \/ SetupReturned /\ \E r \in AllocCalls : memblock_phys_alloc_range(r)
    BY <1>8 DEF Alloc, Work, InKernel64, Allocate, InMemblock, memory
  <2>2. i # 0
    <3>1. i = 0 => Init /\ e820_table = <<>>
      BY <1>1, <2>1 DEF KernelInv
    <3>2. Init => pc = "idle"
      BY DEF Init
    <3>3. Len(<<>>) = 0
      OBVIOUS
    <3> QED  BY <2>1, <3>1, <3>2, <3>3, StepsInCalls DEF SetupReturned
  <2>3. IInv /\ SetsInv /\ HangsInLoops /\ Memory = AddedBytes /\ i \in 1 .. num + 1
    BY <1>1, <2>1, <2>2 DEF KernelInv
  <2>4. IInv' /\ SetsInv' /\ HangsInLoops' /\ Memory' = Memory
    BY <2>1, <2>3, StepKeepsMemory, AllocKeepsMemory
  <2>5. AddedBytes' = AddedBytes
    BY <2>1 DEF AddedBytes
  <2> QED  BY <2>1, <2>2, <2>3, <2>4, <2>5, KernelGoesOn
<1>9. CASE Restart
  <2>1. /\ stage' = "mbr" /\ pc' = "idle" /\ fr' = NoFrame /\ found' = 0 /\ hung' = FALSE
        /\ i' = 0 /\ e820_table' = e820_table
    BY <1>9 DEF Restart
  <2> QED  BY <1>1, <2>1 DEF KernelInv, Loaded, Entering
<1>10. CASE DiskAnswers \/ UNCHANGED boot_vars
  <2>1. UNCHANGED <<stage, e820_vars, num, map>>
    BY <1>10 DEF DiskAnswers, boot_vars, memory
  <2> QED  BY <2>1, KernelQuiet
<1>11. ASSUME \/ LoadSetup \/ SetupNotRead \/ detect_memory_e820 \/ detect_mem_err
              \/ enter_protected_mode \/ ReadKernel32 \/ kernel_main \/ SetPAE \/ load_pml4
              \/ SetLME \/ SetPG \/ install_x64_descriptor
       PROVE  UNCHANGED e820_vars
  BY <1>11 DEF LoadSetup, SetupNotRead, detect_memory_e820, detect_mem_err,
    enter_protected_mode, ReadKernel32, kernel_main, SetPAE, load_pml4, SetLME, SetPG,
    install_x64_descriptor, Mode, Quiet
<1> QED
  BY <1>2, <1>3, <1>4, <1>5, <1>6, <1>7, <1>8, <1>9, <1>10, <1>11
  DEF BootNext, CpuStep, enter_x64, TripleFault, Reset

-----------------------------------------------------------------------------
(***************************************************************************)
(* The theorems.                                                           *)
(***************************************************************************)
LEMMA BootBegins == BootInit => BootInv
<1> SUFFICES ASSUME BootInit PROVE BootInv
  OBVIOUS
<1>1. /\ stage = "mbr" /\ num = 0 /\ map = <<>> /\ intact = {} /\ left = 0
      /\ pc = "idle" /\ fr = NoFrame /\ found = 0 /\ hung = FALSE /\ i = 0
      /\ e820_table = <<>> /\ model \in CpuModels /\ firmware \in FirmwareTables
      /\ regs \in ResetRegs
  BY DEF BootInit, E820Init, Init
<1>2. DOMAIN regs = RegNames /\ ~regs.pe
  BY <1>1 DEF ResetRegs, RegNames
<1>3. MachineOK /\ SegmentsInv
  BY <1>1, <1>2 DEF MachineOK, SegmentsInv, Stages, RealMode, Reading, Entering
<1>4. PagingInv /\ AreasInv
  BY <1>1 DEF PagingInv, NoFault, AreasInv, StillThere, Needed, Reading, Loaded, Entering
<1>5. MapInv
  <2>1. Len(firmware) \in Nat
    <3>1. firmware \in Seq(Entry)
      BY <1>1, BootAssumption
    <3> QED  BY <3>1, LenProperties
  <2>2. map \in Seq(Entry) /\ Len(map) = 0
    BY <1>1
  <2> QED  BY <1>1, <2>1, <2>2 DEF MapInv, Reading, Loaded, Entering
<1>6. KernelInv
  <2>1. e820_table \in Seq(Entry)
    BY <1>1
  <2> QED  BY <1>1, <2>1 DEF KernelInv, Loaded, Entering
<1> QED  BY <1>3, <1>4, <1>5, <1>6 DEF BootInv

\* Every step of the boot keeps the five parts of the invariant.
THEOREM BootInvariance == BootSpec => []BootInv
<1>1. BootInv /\ [BootNext]_boot_vars => BootInv'
  BY MachineStep, PagingStep, AreasStep, MapStep, KernelStep DEF BootInv
<1> QED  BY BootBegins, <1>1, PTL DEF BootSpec

\* A processor with long mode is refused nothing on its way into it: paging is
\* switched on with extended addresses, long mode and the tables in place, and
\* the jump goes through a descriptor that is loaded (enter_x64.c:214-266).
THEOREM NeverRefused == BootSpec => []NoFault
<1>1. BootInv => NoFault
  BY DEF BootInv, PagingInv
<1> QED  BY BootInvariance, <1>1, PTL

\* The segments in use are in the table of descriptors that is loaded, before,
\* during and after the change of the tables (gdt.c:55).
THEOREM SegmentsStayValid == BootSpec => []SelectorsValid
<1>1. BootInv => SelectorsValid
  <2> SUFFICES ASSUME BootInv, regs.pe PROVE SelectorsValid
    BY DEF SelectorsValid
  <2>1. \/ regs.gdt = SetupGdt /\ regs.cs = 1
        \/ regs.gdt = FullGdt /\ regs.cs \in {1, 3}
    BY DEF BootInv, MachineOK, SegmentsInv, Stages
  <2> QED  BY <2>1, SetupTable, FullTable DEF SelectorsValid
<1> QED  BY BootInvariance, <1>1, PTL

\* What runs or is in use is never written over, by the firmware's map, by a
\* sector or by a page table, for every size of the map and of the kernels that
\* the layout of the memory allows.
THEOREM NothingNeededIsLost == BootSpec => []StillThere
<1>1. BootInv => StillThere
  BY DEF BootInv, AreasInv
<1> QED  BY BootInvariance, <1>1, PTL

\* The bytes added are usable, and when the loop is done they are all of them
\* if the map lies below the page tables.
LEMMA AddedAreUsable ==
  ASSUME BootInv, stage = "main_x64", i # 0
  PROVE  /\ AddedBytes \subseteq UsableBytes
         /\ MapFits /\ i = num + 1 => AddedBytes = UsableBytes
<1>1. /\ num \in Nat /\ num = Len(firmware) /\ i \in 1 .. num + 1
      /\ \A k \in 1 .. num : e820_table[k] = map[k]
      /\ DOMAIN firmware = 1 .. num
  BY TableFacts, FirmwareFacts
<1>2. \A k \in 1 .. num : Copied(k)
  BY DEF BootInv, MapInv
<1> DEFINE Holds(e, x) == e.addr <= x /\ x < e.addr + e.size
<1>3. /\ AddedBytes = {x \in 0 .. (PHYS_ADDR_MAX - 1) : \E k \in 1 .. i - 1 :
                         Usable(e820_table[k]) /\ Holds(e820_table[k], x)}
      /\ UsableBytes = {x \in 0 .. (PHYS_ADDR_MAX - 1) : \E k \in 1 .. num :
                         Usable(firmware[k]) /\ Holds(firmware[k], x)}
  BY <1>1 DEF AddedBytes, UsableBytes, BytesOf, Usable
<1>4. \A k \in 1 .. num :
        /\ \A x : Holds(e820_table[k], x) <=> Holds(firmware[k], x)
        /\ Usable(e820_table[k]) => Usable(firmware[k])
        /\ MapFits => (Usable(e820_table[k]) <=> Usable(firmware[k]))
  BY <1>1, <1>2 DEF Copied, Usable
<1> HIDE DEF Holds
<1>5. \A k \in 1 .. i - 1 : k \in 1 .. num
  BY <1>1
<1>6. AddedBytes \subseteq UsableBytes
  BY <1>3, <1>4, <1>5
<1>7. ASSUME MapFits, i = num + 1 PROVE AddedBytes = UsableBytes
  <2>1. i - 1 = num
    BY <1>1, <1>7
  <2> QED  BY <1>3, <1>4, <1>7, <2>1
<1> QED  BY <1>6, <1>7

\* For every memory map, in any order and with overlaps, and after any reset:
\* when the loop of e820__memblock_setup (e820.c:60-69) is done memory holds no
\* byte that the firmware did not report as usable, and every byte that it did
\* if the map lies below the page tables.
THEOREM MemoryIsWhatFirmwareSays == BootSpec => []MemoryIsUsable
<1>1. BootInv => MemoryIsUsable
  <2> SUFFICES ASSUME BootInv, SetupReturned PROVE MemoryIsUsable
    BY DEF MemoryIsUsable
  <2>1. KernelInv /\ e820_table \in Seq(Entry) /\ i > Len(e820_table) /\ pc = "idle" /\ ~hung
    BY DEF BootInv, KernelInv, SetupReturned, Running
  <2>2. Len(e820_table) \in Nat
    BY <2>1, LenProperties
  <2>3. stage = "main_x64"
    <3>1. stage # "main_x64" => i = 0
      BY <2>1 DEF KernelInv
    <3> QED  BY <2>1, <2>2, <3>1
  <2>4. i # 0
    BY <2>1, <2>2
  <2>5. num \in Nat /\ i = num + 1
    BY <2>1, <2>3, <2>4, TableFacts
  <2>6. Memory = AddedBytes
    BY <2>1, <2>3, <2>4 DEF KernelInv
  <2>7. Covered(mb["memory"].regions) = Memory
    BY <2>1 DEF Memory, Adding
  <2>8. /\ AddedBytes \subseteq UsableBytes
        /\ MapFits => AddedBytes = UsableBytes
    BY <2>3, <2>4, <2>5, AddedAreUsable
  <2> HIDE DEF AddedBytes, UsableBytes
  <2> QED  BY <2>6, <2>7, <2>8 DEF MemoryIsUsable
<1> QED  BY BootInvariance, <1>1, PTL

\* No allocation from memblock is ever given a byte that the firmware did not
\* report as usable.
THEOREM AllocationsAreUsable == BootSpec => []AllocUsable
<1>1. BootInv => AllocUsable
  <2> SUFFICES ASSUME BootInv, pc = "reserve"
               PROVE  found .. (found + fr.size - 1) \subseteq UsableBytes
    BY DEF AllocUsable
  <2>1. stage = "main_x64" /\ KernelInv
    BY DEF BootInv, KernelInv
  <2>2. IInv /\ HangsInLoops /\ ~hung
    BY <2>1 DEF KernelInv, HangsInLoops
  <2>3. i # 0
    BY <2>1 DEF KernelInv, Init
  <2>4. Memory = AddedBytes
    BY <2>1, <2>3 DEF KernelInv
  <2>5. AllocFree /\ found \in Nat /\ fr.size \in Nat
    <3>1. fr \in SearchFrames /\ found \in Addr
      BY <2>2 DEF IInv, TypeOK, FrameOK
    <3> QED  BY <2>2, <3>1 DEF IInv, SearchFrames, Addr
  <2>6. CASE fr.size = 0
    BY <2>5, <2>6
  <2>7. CASE fr.size > 0
    <3>1. found .. (found + fr.size - 1) \subseteq Covered(mb["memory"].regions)
      BY <2>5, <2>7 DEF AllocFree
    <3>2. Covered(mb["memory"].regions) \subseteq Memory
      BY DEF Memory
    <3>3. AddedBytes \subseteq UsableBytes
      BY <2>1, <2>3, AddedAreUsable
    <3> QED  BY <2>4, <3>1, <3>2, <3>3
  <2> QED  BY <2>5, <2>6, <2>7
<1> QED  BY BootInvariance, <1>1, PTL
=============================================================================
