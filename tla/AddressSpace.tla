---------------------------- MODULE AddressSpace ----------------------------
(***************************************************************************)
(* What the page tables of the kernel promise to processes: an address     *)
(* space that only its own threads change, that fork copies, and where new *)
(* memory is zero.                                                         *)
(***************************************************************************)
EXTENDS Naturals

CONSTANTS
    Proc, Space, None,
    Page,           \* the numbers of the pages
    Value,          \* what a page may hold
    Absent          \* the value of a page that is not mapped

VARIABLES
    space,          \* the address space of a process, or None
    memory          \* memory[s][n]: what page n of the address space s holds

Used == {space[p] : p \in Proc} \ {None}

(* What a process, or the kernel for it, may do to its memory: from m to t. *)

\* Some pages appear, zeroed, and they were absent.
Map(m, t) == \A n \in Page : t[n] = m[n] \/ (m[n] = Absent /\ t[n] = 0)

\* All the pages of an interval disappear.
Unmap(m, t) ==
    /\ \A n \in Page : t[n] \in {m[n], Absent}
    /\ \A i, j, n \in Page : i < n /\ n < j /\ t[i] # m[i] /\ t[j] # m[j] => t[n] = Absent

\* The program writes to a page.
Write(m, t) == \E n \in Page : m[n] # Absent /\ t[n] \in Value /\ \A k \in Page \ {n} : t[k] = m[k]

Next ==
    LET now == memory IN
    \E p \in Proc : LET s == space[p] IN s # None /\
        \/ /\ UNCHANGED space
           /\ \E t \in {memory'} :
                /\ \A r \in Space \ {s} : t[r] = now[r]
                /\ Map(now[s], t[s]) \/ Unmap(now[s], t[s]) \/ Write(now[s], t[s])
        \/ \E q \in Proc : space[q] = None /\                              \* fork
            \/ \E r \in Space \ Used : /\ space' = [space EXCEPT ![q] = r]
                                      /\ memory' = [now EXCEPT ![r] = now[s]]
            \/ space' = [space EXCEPT ![q] = s] /\ memory' = now
        \/ /\ space' = [space EXCEPT ![p] = None]                           \* exit
           /\ memory' = [r \in Space |-> IF \E q \in Proc : space'[q] = r THEN now[r]
                                         ELSE [n \in Page |-> Absent]]

Spec == [][Next]_<<space, memory>>
=============================================================================
