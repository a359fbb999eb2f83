----------------------------- MODULE MCPartition -----------------------------
(***************************************************************************)
(* An instance of Partition small enough for TLC: every array of up to     *)
(* four elements, with and without equal ones, and 3-bit indices.          *)
(***************************************************************************)
EXTENDS Partition

MCValues == 1 .. 3
=============================================================================
