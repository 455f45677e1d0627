------------------------------- MODULE MCVfs -------------------------------
(* Vfs on small instances. *)
EXTENDS Vfs, TLC

Symmetry == Permutations(Proc \ {Root})
=============================================================================
