------------------------------- MODULE MCPipe -------------------------------
(* Pipe on small instances. *)
EXTENDS Pipe, TLC

Symmetry == Permutations(Proc \ {Root})
=============================================================================
