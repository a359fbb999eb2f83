---------------------------- MODULE MCDescriptors ----------------------------
(***************************************************************************)
(* An instance of Descriptors small enough for TLC: the listening socket   *)
(* and room for two clients.                                               *)
(***************************************************************************)
EXTENDS Descriptors

MCFds == 3 .. 5
=============================================================================
