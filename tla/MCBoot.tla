------------------------------- MODULE MCBoot -------------------------------
(* Small memory maps, in any order, and the processors of four generations.  *)
EXTENDS Boot

NoCalls == {}
OneOrTwoPages == [size : {1, 2}, align : {1}, start : {0}, end : {0}]

Entries ==
  {e \in [addr : Addr, size : Addr \ {0}, type : {"RAM", "RESERVED"}] :
     e.addr + e.size <= PHYS_ADDR_MAX}
  \cup {[addr |-> 1, size |-> 1, type |-> "RESERVED_KERN"]}

Disjoint(e, f) == e.addr + e.size <= f.addr \/ f.addr + f.size <= e.addr

\* In any order, but no byte reported twice: up to three entries, which fit
\* below the page tables, and four that lie side by side, of which one does not.
Reported(n, entries) ==
  {t \in [1 .. n -> entries] : \A k, l \in 1 .. n : k # l => Disjoint(t[k], t[l])}
DisjointTables ==
  UNION {Reported(n, Entries) : n \in 1 .. 3}
  \cup Reported(4, {e \in Entries : e.size = 1 /\ (e.addr = 0 <=> e.type = "RESERVED")})

Cpu(cpuid, ext, pae, lm) == [cpuid |-> cpuid, ext |-> ext, pae |-> pae, lm |-> lm]
Generations == {
  Cpu(FALSE, FALSE, FALSE, FALSE), Cpu(TRUE, FALSE, FALSE, FALSE),
  Cpu(TRUE, TRUE, TRUE, FALSE), Cpu(TRUE, TRUE, TRUE, TRUE)}
=============================================================================
