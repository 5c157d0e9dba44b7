----------------------------- MODULE MCMemblock -----------------------------
(***************************************************************************)
(* Instances of the boot memory allocator for TLC.                         *)
(***************************************************************************)
EXTENDS MemblockInv

\* Every base and size, the ones beyond the end of memory included.
AllRanges == Ranges

NoCalls == {}

\* RAM as firmware reports it: two banks with a hole, and a range that joins
\* and overlaps them.
Banks == {<<0, 3>>, <<4, 3>>, <<2, 3>>}
SomeReserve == {<<0, 1>>, <<2, 1>>, <<5, 2>>, <<3, 5>>}
SomeFree == {<<1, 2>>, <<4, 1>>, <<0, 7>>}
SomeAllocs ==
  [size : {0, 1, 2, 3}, align : {1, 2}, start : {0, 3}, end : {0, 4, PHYS_ADDR_MAX}]
=============================================================================
