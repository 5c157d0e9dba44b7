---------------------------- MODULE MCPageAlloc -----------------------------
(* Small memory maps for the page allocator. *)
EXTENDS PageAlloc

Entry(base, len, type) == [base |-> base, length |-> len, type |-> type]

\* Pages of 2 from address 6 on, words of 64.  RAM in two parts and RAM above
\* the word; the first address to hand out in reserved memory, so that there is
\* nothing to manage; an incomplete byte; RAM up to the end of the word, where
\* the end of the zone is 0.
OrdinaryMaps == {
  <<Entry(0, 3, 1), Entry(3, 2, 2), Entry(5, 15, 1), Entry(60, 4, 2), Entry(64, 30, 1)>>,
  <<Entry(0, 3, 1), Entry(5, 10, 2), Entry(15, 20, 1), Entry(64, 30, 2)>>,
  <<Entry(0, 3, 1), Entry(5, 14, 1), Entry(19, 45, 2)>>,
  <<Entry(0, 3, 1), Entry(4, 60, 1)>>
}
=============================================================================
