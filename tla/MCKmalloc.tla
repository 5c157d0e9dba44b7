----------------------------- MODULE MCKmalloc ------------------------------
(* A small heap: five pages of 4 bytes, so that a chain can be three long;   *)
(* pages of descriptors hold two.                                            *)
EXTENDS Kmalloc

OneMap == {<<[base |-> 0, length |-> 26, type |-> 1]>>}
SmallBuckets == <<2, 4>>
=============================================================================
