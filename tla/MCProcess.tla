----------------------------- MODULE MCProcess -----------------------------
(* Process on small instances. *)
EXTENDS Process, TLC

\* init is not interchangeable with the others.
Symmetry == Permutations(Proc \ {First})
=============================================================================
