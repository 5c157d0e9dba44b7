-------------------------------- MODULE E820 --------------------------------
(***************************************************************************)
(* Boot-time memory setup: x64/kernel/e820.c copies the table that the     *)
(* boot loader left in memory and adds its usable entries to memblock one  *)
(* by one; when it is done memblock serves allocations.  The steps inside  *)
(* a call are those of Memblock; what goes before is in Boot, which gives  *)
(* the state its initial value and its next-state relation.                *)
(***************************************************************************)
EXTENDS MemblockProps

CONSTANT E820_MAX_ENTRIES

\* "UNKNOWN" is what is left of an entry whose type was overwritten.
E820Types == {"RAM", "RESERVED_KERN", "RESERVED", "UNKNOWN"}
Entry == [addr : Addr, size : Addr, type : E820Types]

ASSUME TableAssumption == E820_MAX_ENTRIES \in Nat

VARIABLES
  e820_table,   \* the kernel's copy, empty before e820__memory_setup
  i             \* the loop index of e820__memblock_setup, 0 before it begins

e820_vars == <<vars, e820_table, i>>

E820Init ==
  /\ Init
  /\ e820_table = <<>>
  /\ i = 0

\* The copy has room for E820_MAX_ENTRIES entries; table is the memory at
\* 0x7e02, as long as the number in front of it says.
e820__memory_setup(table) ==
  /\ i = 0
  /\ e820_table' = table
  /\ i' = 1
  /\ UNCHANGED vars

Bug_all_usable(entry) == TRUE
Usable(entry) == entry.type \in {"RAM", "RESERVED_KERN"}

AtEntry == Running("idle") /\ i \in DOMAIN e820_table

Bug_skip_stays == AtEntry /\ ~Usable(e820_table[i]) /\ UNCHANGED e820_vars
SetupSkip ==
  /\ AtEntry
  /\ ~Usable(e820_table[i])
  /\ i' = i + 1
  /\ UNCHANGED <<vars, e820_table>>

SetupAdd ==
  /\ AtEntry
  /\ Usable(e820_table[i])
  /\ memblock_add(e820_table[i].addr, e820_table[i].size)
  /\ i' = i + 1
  /\ UNCHANGED e820_table

SetupReturned == Running("idle") /\ i > Len(e820_table)

Allocate ==
  /\ SetupReturned
  /\ \E r \in AllocCalls : memblock_phys_alloc_range(r)
  /\ UNCHANGED <<e820_table, i>>

InMemblock == Step /\ UNCHANGED <<e820_table, i>>
=============================================================================
