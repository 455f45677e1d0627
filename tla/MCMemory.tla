------------------------------ MODULE MCMemory ------------------------------
(* Malloc and Pagedir on small instances.  They share no variable, so that *)
(* a behaviour exercises one of them.                                       *)
EXTENDS Malloc, Pagedir

VARIABLE part

MemoryInit == Init /\ PagedirInit /\ part \in {"malloc", "pagedir"}
MemoryNext ==
    \/ part = "malloc" /\ Next /\ UNCHANGED <<pagedir_vars, part>>
    \/ part = "pagedir" /\ PagedirNext /\ UNCHANGED <<vars, part>>
MemorySpec == MemoryInit /\ [][MemoryNext]_<<vars, pagedir_vars, part>>
=============================================================================
