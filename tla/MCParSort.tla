------------------------------ MODULE MCParSort ------------------------------
(***************************************************************************)
(* An instance of ParSort small enough for TLC: an array whose left part   *)
(* goes to qsort and whose right part is partitioned again, one of which   *)
(* only the left part needs sorting, and one whose first pivot is its      *)
(* least element.                                                          *)
(***************************************************************************)
EXTENDS ParSort

MCValues == 1 .. 3

Array(a, b, c, d, e, f) ==
  [i \in Index |-> CASE i = 0 -> a [] i = 1 -> b [] i = 2 -> c
                     [] i = 3 -> d [] i = 4 -> e [] i = 5 -> f]

MCInputs == {Array(3, 1, 3, 2, 1, 2), Array(3, 3, 2, 3, 1, 3), Array(2, 3, 2, 1, 3, 1)}
=============================================================================
