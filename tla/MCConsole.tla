----------------------------- MODULE MCConsole ------------------------------
(* A screen of two lines of three characters in a memory of four lines and a *)
(* third, so that it slides down twice and is then moved back.               *)
EXTENDS Console

CONSTANTS a, b, blank

FilledOrBlank == {[k \in Cells |-> g] : g \in {a, blank}}
=============================================================================
