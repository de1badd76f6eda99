------------------------------- MODULE MCExt2 -------------------------------
(***************************************************************************)
(* Ext2 for TLC: open files are interchangeable, and so are names.         *)
(***************************************************************************)
EXTENDS Ext2, TLC

Symmetry == Permutations(Handles) \cup Permutations(Names)
=============================================================================
