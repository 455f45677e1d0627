--------------------------- MODULE Process_proofs ---------------------------
(***************************************************************************)
(* Proofs about the process tree, for any number of processes and for any  *)
(* set of system calls that they make.                                     *)
(*                                                                         *)
(* TreeOK is not inductive.  IndInv adds to it that identifiers grow along *)
(* the tree (so that no process is above itself), what init is, that a     *)
(* message can only disappear by being collected (MsgOK), and that the     *)
(* loop variables of the kernel point to processes that are not freed      *)
(* (LoopOK).  The tree is changed in three ways: live processes move       *)
(* between live states (QuietStep), a process dies or is collected         *)
(* (DeathStep), or one is created or freed (ForkTree, PruneTree).  What    *)
(* each system call does is reduced to one of these.                       *)
(***************************************************************************)
EXTENDS Process, TLAPS, WellFoundedInduction

\* A function that is bounded on a non-empty set has a largest value there: the
\* list of children, which the code keeps newest first, has a first element.
LEMMA MaxExists ==
    ASSUME NEW S, S # {}, NEW f, \A c \in S : f[c] \in Nat,
           NEW n \in Nat, \A c \in S : f[c] < n
    PROVE  \E c \in S : \A d \in S : f[d] <= f[c]
<1> DEFINE R == OpToRel(<, Nat)
           T == {n - f[c] : c \in S}
<1>1. IsWellFoundedOn(R, Nat)
  BY NatLessThanWellFounded
<1>2. T \subseteq Nat /\ T # {}
  OBVIOUS
<1>3. PICK x \in T : \A y \in T : <<y, x>> \notin R
  <2> HIDE DEF R, T
  <2> QED BY <1>1, <1>2, WFMin
<1>4. PICK c \in S : x = n - f[c]
  BY <1>3
<1>5. ASSUME NEW d \in S PROVE f[d] <= f[c]
  <2>1. n - f[d] \in T
    OBVIOUS
  <2>2. <<n - f[d], n - f[c]>> \notin R
    BY <2>1, <1>3, <1>4
  <2>3. n - f[d] \in Nat /\ n - f[c] \in Nat
    BY <1>2, <2>1, <1>4
  <2>4. ~(n - f[d] < n - f[c])
    BY <2>2, <2>3 DEF OpToRel
  <2> QED BY <2>4
<1> QED BY <1>4, <1>5

\* The first element of a list of processes is one of them, or NULL for none.
LEMMA NewestOfType ==
    ASSUME TypeOK, \A p \in Proc : globalid[p] < next_pid,
           NEW S, S \subseteq Proc
    PROVE  NewestOf(S) \in S \cup {NULL}
<1>1. CASE S = {}
  BY <1>1 DEF NewestOf
<1>2. CASE S # {}
  <2>1. \E c \in S : \A d \in S : globalid[d] <= globalid[c]
    BY <1>2, MaxExists DEF TypeOK
  <2> QED BY <2>1, <1>2 DEF NewestOf
<1> QED BY <1>1, <1>2

\* What the assertions of proc_tryreap may leave in panic.
LEMMA tryreapType ==
    ASSUME NEW st, NEW d
    PROVE  tryreap_asserts(st, d) \in {"ns_id", "tryreap", panic}
  BY DEF tryreap_asserts

-----------------------------------------------------------------------------
\* globalid is handed out from the counter next_pid (proc_fork).
IdsOK  == \A p \in Proc : globalid[p] < next_pid
\* init has no parent, and is neither collected nor freed (proc_kill).
InitOK == /\ state[First] \notin {"FREED", "TOREAP", "DEADLEAF"}
          /\ parent[First] = NULL
\* A dead process that is no longer TOREAP, under a live parent, was collected
\* by it or was noreap: proc_tryreap leaves no other way out of TOREAP.
MsgOK  == \A p \in Allocated \ {First} :
            state[p] \in {"TOMBSTONE", "DEADLEAF"} /\ proc_alive(state, parent[p])
                => noreap[p]
\* The part of the inductive invariant about the tree.
TreeInv == IdsOK /\ InitOK /\ TreeOK /\ MsgOK

\* What the loops of the kernel may rely on: the process that a system call
\* serves runs, and the loop variables of _sys_intr, proc_switch_any and
\* proc_ns_create point to processes that have not been freed.
LoopOK == /\ mode = "user" => state[proc_cur] = "RUNNING"
          /\ mode \in {"intr", "kill"} => it \in Allocated \ {First}
          /\ mode \in {"scan", "nscreate"} => it \in Allocated

\* The inductive invariant.
IndInv == TypeOK /\ TreeInv /\ LoopOK

\* It holds after proc_seed.
LEMMA InitInd == Init => IndInv
  BY ProcAssumption DEF Init, IndInv, TypeOK, TreeInv, IdsOK, InitOK, TreeOK, MsgOK,
     LoopOK, Allocated, Children, States, Waiting, AllWaitStates, Dead, Modes, proc_alive

\* p->child is a process that has not been freed, whose parent is p.
LEMMA childType ==
    ASSUME TypeOK, IdsOK, NEW p \in Proc
    PROVE  child(p) # NULL => child(p) \in Allocated /\ parent[child(p)] = p
<1>1. Children(state, p) \subseteq Proc
  BY DEF Children
<1>2. NewestOf(Children(state, p)) \in Children(state, p) \cup {NULL}
  BY <1>1, NewestOfType DEF IdsOK
<1> QED BY <1>2 DEF child, Children, Allocated

\* c->sibling is a process that has not been freed, and is not init.
LEMMA siblingType ==
    ASSUME TypeOK, IdsOK, NEW c
    PROVE  sibling(c) # NULL => sibling(c) \in Allocated /\ parent[sibling(c)] # NULL
<1> DEFINE S == {d \in Children(state, parent[c]) : globalid[d] < globalid[c]}
<1>1. S \subseteq Proc
  BY DEF Children
<1>2. NewestOf(S) \in S \cup {NULL}
  BY <1>1, NewestOfType DEF IdsOK
<1> QED BY <1>2 DEF sibling, Children, Allocated

\* proc_next never returns a freed process, nor init.
LEMMA nextType ==
    ASSUME TypeOK, IdsOK, InitOK, NEW p \in Proc, NEW root
    PROVE  proc_next(p, root) # NULL =>
             proc_next(p, root) \in Allocated \ {First}
<1>1. CASE child(p) # NULL
  BY <1>1, childType, ProcAssumption DEF proc_next, InitOK
<1>2. CASE child(p) = NULL
  <2>1. proc_next(p, root) = sibling(climb(p, root))
    BY <1>2 DEF proc_next
  <2>2. sibling(climb(p, root)) # NULL => sibling(climb(p, root)) \in Allocated /\ parent[sibling(climb(p, root))] # NULL
    BY siblingType
  <2> QED BY <2>1, <2>2 DEF InitOK
<1> QED BY <1>1, <1>2

\* A step that only moves live processes between live states.
LEMMA QuietStep ==
    ASSUME TypeOK, TypeOK', TreeInv,
           UNCHANGED <<parent, globalid, next_pid, dead_leaves>>,
           \A p \in Proc : \/ state'[p] = state[p]
                           \/ state[p] \notin Dead /\ state'[p] \notin Dead,
           \A p \in Allocated : noreap'[p] = noreap[p]
    PROVE  TreeInv' /\ Allocated' = Allocated
<1>1. Allocated' = Allocated
  BY DEF Allocated, Dead, TypeOK
<1>2. \A p \in Proc : Children(state, p)' = Children(state, p)
  BY DEF Children, Dead, TypeOK
<1>3. \A p \in Proc \cup {NULL} : proc_alive(state, p)' <=> proc_alive(state, p)
  BY DEF proc_alive, TypeOK
<1>4. \A p \in Proc : state'[p] \in Dead \/ state[p] \in Dead => state'[p] = state[p]
  OBVIOUS
<1>5. IdsOK' /\ InitOK'
  BY <1>4, ProcAssumption DEF TreeInv, IdsOK, InitOK, Dead
<1>6. TreeOK'
  <2>1. dead_leaves' = {p \in Proc : state'[p] = "DEADLEAF"}
    BY <1>4 DEF TreeInv, TreeOK, Dead
  <2>2. ASSUME NEW p \in (Allocated \ {First})'
        PROVE  /\ parent'[p] \in Allocated'
               /\ globalid'[parent'[p]] < globalid'[p]
               /\ state'[p] = "TOREAP" => ~noreap'[p] /\ proc_alive(state', parent'[p])
               /\ state'[p] = "TOMBSTONE" => Children(state, p)' # {}
               /\ state'[p] = "DEADLEAF" => Children(state, p)' = {}
    <3>1. p \in Allocated \ {First} /\ p \in Proc
      BY <1>1, <2>2 DEF Allocated
    <3>2. parent[p] \in Proc
      BY <3>1 DEF TreeInv, TreeOK, Allocated
    <3> QED BY <1>1, <1>2, <1>3, <1>4, <3>1, <3>2 DEF TreeInv, TreeOK, Dead
  <2> QED BY <2>1, <2>2 DEF TreeOK
<1>7. MsgOK'
  <2>1. ASSUME NEW p \in (Allocated \ {First})'
        PROVE  state'[p] \in {"TOMBSTONE", "DEADLEAF"} /\ proc_alive(state', parent'[p])
                => noreap'[p]
    <3>1. p \in Allocated \ {First} /\ p \in Proc
      BY <1>1, <2>1 DEF Allocated
    <3>2. parent[p] \in Proc
      BY <3>1 DEF TreeInv, TreeOK, Allocated
    <3> QED BY <1>1, <1>3, <1>4, <3>1, <3>2 DEF TreeInv, MsgOK, Dead
  <2> QED BY <2>1 DEF MsgOK
<1> QED BY <1>1, <1>5, <1>6, <1>7 DEF TreeInv

\* A step in which p dies, or is collected, and the messages of its children L
\* are lost.
LEMMA DeathStep ==
    ASSUME TypeOK, TypeOK', TreeInv, NEW p \in Allocated, NEW L \in SUBSET Proc,
           UNCHANGED <<parent, globalid, next_pid>>,
           dead_leaves' = {q \in Proc : state'[q] = "DEADLEAF"},
           p = First => state'[p] = "TOMBSTONE",
           \A q \in L : /\ q \in Proc \ {First} /\ state[q] = "TOREAP" /\ parent[q] = p
                        /\ state'[q] = Buried(state, q),
           proc_alive(state, p) => \A q \in Proc : state[q] = "TOREAP" /\ parent[q] = p => q \in L,
           \A q \in Proc \ (L \cup {p}) : \/ state'[q] = state[q]
                                          \/ state[q] \notin Dead /\ state'[q] \notin Dead,
           \/ state'[p] = Buried(state, p)
           \/ state'[p] = "TOREAP" /\ ~noreap'[p] /\ proc_alive(state, parent[p]),
           state'[p] # "TOREAP" /\ p # First /\ proc_alive(state, parent[p]) => noreap'[p],
           \A q \in Allocated \ (L \cup {p}) : noreap'[q] = noreap[q]
    PROVE  TreeInv' /\ Allocated' = Allocated
<1> USE DEF Buried
<1>1. p \in Proc /\ state'[p] \in {"TOREAP", "TOMBSTONE", "DEADLEAF"}
  BY DEF Allocated
<1>2. \A q \in L : state'[q] \in {"TOMBSTONE", "DEADLEAF"}
  OBVIOUS
<1>3. \A q \in Proc : state'[q] = "FREED" <=> state[q] = "FREED"
  BY <1>1, <1>2 DEF Dead, Allocated
<1>4. Allocated' = Allocated
  BY <1>3 DEF Allocated
<1>5. \A q \in Proc : Children(state, q)' = Children(state, q)
  BY <1>3 DEF Children
<1>6. \A q \in Proc \ {p} : proc_alive(state', q) <=> proc_alive(state, q)
  BY <1>2, ProcAssumption DEF proc_alive, Dead
<1>7. ~proc_alive(state', p)
  BY <1>1 DEF proc_alive, Dead
<1>8. \A q \in Allocated \ {First} : /\ q \in Proc /\ parent[q] \in Proc
                                     /\ parent[q] # NULL /\ parent[q] # q
                                     /\ parent[q] \in Allocated
  BY ProcAssumption DEF TreeInv, TreeOK, Allocated, TypeOK
<1>9. IdsOK'
  BY DEF TreeInv, IdsOK
<1>10. InitOK'
  BY <1>1, <1>3, ProcAssumption DEF TreeInv, InitOK, Dead
<1>11. TreeOK'
  <2>1. ASSUME NEW q \in Allocated \ {First}
        PROVE  /\ parent'[q] \in Allocated'
               /\ globalid'[parent'[q]] < globalid'[q]
               /\ state'[q] = "TOREAP" => ~noreap'[q] /\ proc_alive(state', parent'[q])
               /\ state'[q] = "TOMBSTONE" => Children(state, q)' # {}
               /\ state'[q] = "DEADLEAF" => Children(state, q)' = {}
    <3> USE <2>1
    <3>1. parent'[q] \in Allocated' /\ globalid'[parent'[q]] < globalid'[q]
      BY <1>4 DEF TreeInv, TreeOK
    <3>2. CASE q \in L
      BY <3>1, <3>2, <1>2, <1>5, <1>8
    <3>3. CASE q = p
      BY <3>1, <3>3, <1>1, <1>5, <1>6, <1>8
    <3>4. CASE q \notin L \cup {p}
      <4>1. state'[q] = state[q] \/ (state[q] \notin Dead /\ state'[q] \notin Dead)
        BY <3>4, <1>8
      <4>2. state'[q] = "TOREAP" => parent[q] # p
        BY <4>1, <3>4, <1>8 DEF TreeInv, TreeOK, Dead
      <4>3. state'[q] = "TOREAP" => ~noreap'[q] /\ proc_alive(state', parent'[q])
        BY <4>1, <4>2, <3>4, <1>6, <1>8 DEF TreeInv, TreeOK, Dead
      <4> QED BY <3>1, <4>1, <4>3, <1>5, <1>8 DEF TreeInv, TreeOK, Dead
    <3> QED BY <3>2, <3>3, <3>4
  <2> QED BY <2>1, <1>4 DEF TreeOK
<1>12. MsgOK'
  <2>1. ASSUME NEW q \in Allocated \ {First},
               state'[q] \in {"TOMBSTONE", "DEADLEAF"}, proc_alive(state', parent'[q])
        PROVE  noreap'[q]
    <3>1. parent[q] # p /\ proc_alive(state, parent[q])
      BY <2>1, <1>6, <1>7, <1>8
    <3>2. q \notin L
      BY <3>1
    <3>3. CASE q = p
      BY <3>1, <3>3, <2>1
    <3>4. CASE q # p
      BY <3>1, <3>2, <3>4, <2>1, <1>8 DEF TreeInv, MsgOK, Dead
    <3> QED BY <3>3, <3>4
  <2> QED BY <2>1, <1>4 DEF MsgOK
<1> QED BY <1>4, <1>9, <1>10, <1>11, <1>12 DEF TreeInv

\* proc_kill keeps the invariant of the tree, and frees nothing.
LEMMA KillTree ==
    ASSUME TypeOK, TypeOK', TreeInv, NEW p \in Allocated,
           p = First => proc_alive(state, p),
           Kill(p), UNCHANGED <<parent, globalid, next_pid>>
    PROVE  TreeInv' /\ Allocated' = Allocated
<1> DEFINE d == dyingStates(p)
           l == lostStates(p)
<1>1. p \in Proc /\ (p # First => parent[p] \in Proc /\ parent[p] # NULL /\ parent[p] # p)
  BY ProcAssumption DEF TreeInv, TreeOK, Allocated, TypeOK
<1>2. CASE proc_alive(state, p)
  <2> DEFINE L == Toreap(p)
  <2>1. \A q \in L : /\ q \in Proc \ {First} /\ state[q] = "TOREAP" /\ parent[q] = p
    BY <1>1, ProcAssumption DEF Toreap, Children, TreeInv, InitOK
  <2>2. p \notin L /\ parent[p] \notin L
    <3>1. p \notin L
      BY <1>2, <2>1 DEF proc_alive, Dead
    <3>2. CASE p = First
      BY <3>1, <3>2, <2>1, ProcAssumption DEF TreeInv, InitOK
    <3>3. CASE p # First
      <4>1. ASSUME parent[p] \in L PROVE FALSE
        <5>1. parent[p] \in Allocated \ {First} /\ parent[parent[p]] = p
          BY <4>1, <2>1 DEF Allocated
        <5>2. globalid[p] < globalid[parent[p]] /\ globalid[parent[p]] < globalid[p]
          BY <5>1, <3>3 DEF TreeInv, TreeOK
        <5> QED BY <5>2, <1>1, <3>3 DEF TypeOK
      <4> QED BY <3>1, <4>1
    <3> QED BY <3>2, <3>3
  <2>3. \A q \in Proc : d[q] = IF q = p THEN IF proc_alive(state, parent[p]) THEN "TOREAP" ELSE "TOMBSTONE"
                               ELSE state[q]
    BY DEF dyingStates
  <2>4. \A q \in Proc : l[q] = IF q \in L THEN Buried(state, q) ELSE d[q]
    BY DEF lostStates
  <2>5. d \in [Proc -> States] /\ l \in [Proc -> States]
    BY DEF dyingStates, lostStates, States, Dead, Buried, TypeOK
  <2>6. \A q \in Proc : (l[q] = "FREED" <=> state[q] = "FREED")
    BY <2>1, <2>3, <2>4, <1>2 DEF Buried, proc_alive, Dead
  <2>7. \A q \in Proc : Children(l, q) = Children(state, q)
    BY <2>6 DEF Children
  <2>8. p # First => (proc_alive(l, parent[p]) <=> proc_alive(state, parent[p]))
    BY <1>1, <2>2, <2>3, <2>4 DEF proc_alive
  <2>9. Bury(d, IF p = First THEN l ELSE proc_tryreap(l, p))
    BY <1>2 DEF Kill
  <2>10. \A q \in Proc \ (L \cup {p}) : \/ state'[q] = state[q]
                                        \/ state[q] \notin Dead /\ state'[q] \notin Dead
    BY <2>9, <2>3, <2>4, <1>1, <2>8 DEF Bury, proc_tryreap, Collected, Collectable, proc_alive, Dead
  <2>11. \A q \in L : state'[q] = Buried(state, q)
    BY <2>1, <2>2, <2>4, <2>9 DEF Bury, proc_tryreap
  <2>12. proc_alive(state, p) => \A q \in Proc : state[q] = "TOREAP" /\ parent[q] = p => q \in L
    BY DEF Toreap, Children
  <2>13. p = First => state'[p] = "TOMBSTONE"
    BY <1>1, <2>2, <2>3, <2>4, <2>9 DEF Bury, TreeInv, InitOK, proc_alive
  <2>14. \A q \in Proc : noreap'[q] = (d[q] # "FREED" /\ (noreap[q] \/ (d[q] = "TOREAP" /\ state'[q] # "TOREAP")))
    BY <2>9 DEF Bury
  <2>15. \A q \in Allocated \ (L \cup {p}) : noreap'[q] = noreap[q]
    <3>1. ASSUME NEW q \in Allocated \ (L \cup {p}) PROVE noreap'[q] = noreap[q]
      <4>1. q \in Proc /\ d[q] = state[q] /\ state[q] # "FREED"
        BY <3>1, <2>3 DEF Allocated
      <4>2. state[q] = "TOREAP" => state'[q] = "TOREAP"
        BY <4>1, <3>1, <2>10 DEF Dead
      <4>3. noreap[q] \in BOOLEAN
        BY <4>1 DEF TypeOK
      <4> QED BY <4>1, <4>2, <4>3, <2>14
    <3> QED BY <3>1
  <2>16. \/ state'[p] = Buried(state, p)
         \/ state'[p] = "TOREAP" /\ ~noreap'[p] /\ proc_alive(state, parent[p])
    <3>1. CASE p = First
      BY <3>1, <2>13, <1>1 DEF Buried, TreeInv, InitOK
    <3>2. CASE p # First
      <4>1. l[p] = IF proc_alive(state, parent[p]) THEN "TOREAP" ELSE "TOMBSTONE"
        BY <1>1, <2>2, <2>3, <2>4
      <4>2. Buried(l, p) = Buried(state, p)
        BY <2>7, <1>1 DEF Buried
      <4>3. state' = proc_tryreap(l, p)
        BY <2>9, <3>2 DEF Bury
      <4>4. CASE Collectable(l, p) /\ ~Collected(l, p)
        <5>1. state'[p] = "TOREAP" /\ ~noreap[p] /\ proc_alive(state, parent[p])
          BY <4>1, <4>3, <4>4, <2>8, <3>2 DEF proc_tryreap, Collectable
        <5>2. ~noreap'[p]
          BY <5>1, <2>14, <1>1
        <5> QED BY <5>1, <5>2
      <4>5. CASE ~(Collectable(l, p) /\ ~Collected(l, p))
        BY <4>2, <4>3, <4>5, <1>1 DEF proc_tryreap
      <4> QED BY <4>4, <4>5
    <3> QED BY <3>1, <3>2
  <2>17. state'[p] # "TOREAP" /\ p # First /\ proc_alive(state, parent[p]) => noreap'[p]
    BY <2>3, <2>14, <1>1
  <2>18. dead_leaves' = {q \in Proc : state'[q] = "DEADLEAF"}
    <3>1. \A q \in Proc : d[q] = "DEADLEAF" <=> state[q] = "DEADLEAF"
      BY <2>3, <1>2 DEF proc_alive, Dead
    <3>2. \A q \in Proc : d[q] = "FREED" <=> state[q] = "FREED"
      BY <2>3, <1>2 DEF proc_alive, Dead
    <3>3. \A q \in Proc : state[q] = "DEADLEAF" => state'[q] = "DEADLEAF"
      BY <2>1, <2>10, <1>2 DEF proc_alive, Dead
    <3> QED BY <3>1, <3>2, <3>3, <2>9 DEF Bury, TreeInv, TreeOK
  <2> HIDE DEF L
  <2>19. L \in SUBSET Proc
    BY <2>1
  <2> QED BY <2>1, <2>10, <2>11, <2>12, <2>13, <2>15, <2>16, <2>17, <2>18, <2>19, DeathStep
<1>3. CASE ~proc_alive(state, p)
  <2>1. p # First /\ state[p] \in {"TOREAP", "TOMBSTONE", "DEADLEAF"}
    BY <1>3, <1>1, ProcAssumption DEF proc_alive, Dead, Allocated
  <2>2. Bury(state, proc_tryreap(state, p))
    BY <1>3 DEF Kill
  <2>3. \A q \in Proc \ {p} : \/ state'[q] = state[q]
                              \/ state[q] \notin Dead /\ state'[q] \notin Dead
    BY <2>2, <1>1 DEF Bury, proc_tryreap, Collected, Collectable, proc_alive, Dead
  <2>4. \A q \in Proc : noreap'[q] = (state[q] # "FREED" /\ (noreap[q] \/ (state[q] = "TOREAP" /\ state'[q] # "TOREAP")))
    BY <2>2 DEF Bury
  <2>5. \A q \in Allocated \ {p} : noreap'[q] = noreap[q]
    <3>1. ASSUME NEW q \in Allocated \ {p} PROVE noreap'[q] = noreap[q]
      <4>1. q \in Proc /\ state[q] # "FREED" /\ noreap[q] \in BOOLEAN
        BY <3>1 DEF Allocated, TypeOK
      <4>2. state[q] = "TOREAP" => state'[q] = "TOREAP"
        BY <4>1, <3>1, <2>3 DEF Dead
      <4> QED BY <4>1, <4>2, <2>4
    <3> QED BY <3>1
  <2>6. state[p] # "TOREAP" => Buried(state, p) = state[p]
    BY <2>1, <1>1 DEF Buried, TreeInv, TreeOK
  <2>7. \/ state'[p] = Buried(state, p)
        \/ state'[p] = "TOREAP" /\ ~noreap'[p] /\ proc_alive(state, parent[p])
    <3>1. CASE Collectable(state, p) /\ ~Collected(state, p)
      <4>1. state'[p] = "TOREAP" /\ ~noreap[p] /\ proc_alive(state, parent[p])
        BY <3>1, <2>2 DEF Bury, proc_tryreap, Collectable
      <4> QED BY <4>1, <2>4, <1>1
    <3>2. CASE ~(Collectable(state, p) /\ ~Collected(state, p))
      BY <3>2, <2>2, <1>1 DEF Bury, proc_tryreap
    <3> QED BY <3>1, <3>2
  <2>8. state'[p] # "TOREAP" /\ p # First /\ proc_alive(state, parent[p]) => noreap'[p]
    <3>1. CASE state[p] = "TOREAP"
      BY <3>1, <2>4, <1>1
    <3>2. CASE state[p] # "TOREAP"
      <4>1. p \in Allocated \ {First} /\ state[p] \in {"TOMBSTONE", "DEADLEAF"}
        BY <3>2, <2>1
      <4>2. proc_alive(state, parent[p]) => noreap[p]
        BY <4>1 DEF TreeInv, MsgOK
      <4>3. state[p] # "FREED"
        BY <2>1
      <4> QED BY <4>2, <4>3, <2>4, <1>1
    <3> QED BY <3>1, <3>2
  <2>9. dead_leaves' = {q \in Proc : state'[q] = "DEADLEAF"}
    <3>1. \A q \in Proc : state[q] = "DEADLEAF" => state'[q] = "DEADLEAF"
      BY <2>3, <2>6, <2>7, <2>2 DEF Dead, Bury, proc_tryreap, Collectable
    <3> QED BY <3>1, <2>2 DEF Bury, TreeInv, TreeOK
  <2> DEFINE L == {}
  <2>10. /\ L \in SUBSET Proc
         /\ \A q \in L : /\ q \in Proc \ {First} /\ state[q] = "TOREAP" /\ parent[q] = p
                         /\ state'[q] = Buried(state, q)
         /\ Proc \ (L \cup {p}) = Proc \ {p} /\ Allocated \ (L \cup {p}) = Allocated \ {p}
    OBVIOUS
  <2> HIDE DEF L
  <2> QED BY <1>3, <2>1, <2>3, <2>5, <2>7, <2>8, <2>9, <2>10, DeathStep
<1> QED BY <1>2, <1>3

\* A new child c of the running process.
LEMMA ForkTree ==
    ASSUME TypeOK, TypeOK', TreeInv, state[proc_cur] = "RUNNING",
           NEW c \in Proc, NEW nr \in BOOLEAN, proc_fork(c, nr),
           NEW s \in {"RUNNING", "DEADLEAF"},
           s = "DEADLEAF" => nr,
           state' = [state EXCEPT ![c] = s],
           dead_leaves' = dead_leaves \cup (IF s = "DEADLEAF" THEN {c} ELSE {})
    PROVE  TreeInv'
<1>1. /\ state[c] = "FREED" /\ c # First /\ proc_cur # c /\ proc_cur \in Allocated
      /\ proc_cur \in Proc
  BY DEF proc_fork, TreeInv, InitOK, Allocated, TypeOK
<1>2. Allocated' = Allocated \cup {c}
  BY <1>1 DEF Allocated, TypeOK
<1>3. \A q \in Proc \ {c} : state'[q] = state[q] /\ parent'[q] = parent[q]
                            /\ globalid'[q] = globalid[q] /\ noreap'[q] = noreap[q]
  BY DEF proc_fork, TypeOK
<1>4. state'[c] = s /\ parent'[c] = proc_cur /\ globalid'[c] = next_pid /\ noreap'[c] = nr
      /\ next_pid' = next_pid + 1
  BY DEF proc_fork, TypeOK
<1>5. \A q \in Allocated \ {First} : q \in Proc /\ q # c /\ parent[q] \in Proc /\ parent[q] # c
                                     /\ parent[q] # NULL /\ parent[q] \in Allocated
  BY <1>1, ProcAssumption DEF TreeInv, TreeOK, Allocated, TypeOK
<1>6. IdsOK'
  BY <1>3, <1>4 DEF TreeInv, IdsOK, TypeOK
<1>7. InitOK'
  BY <1>1, <1>3, ProcAssumption DEF TreeInv, InitOK
<1>8. \A q \in Proc \ {c, proc_cur} : Children(state, q)' = Children(state, q)
  BY <1>1, <1>3, <1>4 DEF Children
<1>9. Children(state, c)' = {}
  <2>1. ASSUME NEW q \in Proc, state'[q] # "FREED", parent'[q] = c PROVE FALSE
    <3>1. q # c
      BY <2>1, <1>4, <1>1
    <3>2. q \in Allocated /\ parent[q] = c
      BY <2>1, <3>1, <1>3 DEF Allocated
    <3> QED BY <3>2, <1>5, <1>1, ProcAssumption DEF TreeInv, InitOK
  <2> QED BY <2>1 DEF Children
<1>10. proc_alive(state', proc_cur) /\ state'[proc_cur] = "RUNNING"
  BY <1>1, <1>3, ProcAssumption DEF proc_alive, Dead
<1>11. TreeOK'
  <2>1. dead_leaves' = {q \in Proc : state'[q] = "DEADLEAF"}
    BY <1>1, <1>3, <1>4 DEF TreeInv, TreeOK
  <2>2. ASSUME NEW q \in Allocated' \ {First}
        PROVE  /\ parent'[q] \in Allocated'
               /\ globalid'[parent'[q]] < globalid'[q]
               /\ state'[q] = "TOREAP" => ~noreap'[q] /\ proc_alive(state', parent'[q])
               /\ state'[q] = "TOMBSTONE" => Children(state, q)' # {}
               /\ state'[q] = "DEADLEAF" => Children(state, q)' = {}
    <3>1. CASE q = c
      <4>1. globalid'[proc_cur] < next_pid
        BY <1>1, <1>3 DEF TreeInv, IdsOK
      <4> QED BY <3>1, <4>1, <1>1, <1>2, <1>4, <1>9
    <3>2. CASE q # c
      <4>1. q \in Allocated \ {First}
        BY <2>2, <3>2, <1>2
      <4>2. state'[q] \in Dead => q # proc_cur /\ Children(state, q)' = Children(state, q)
        BY <4>1, <1>3, <1>5, <1>8, <1>10 DEF Dead
      <4>3. proc_alive(state', parent'[q]) <=> proc_alive(state, parent[q])
        BY <4>1, <1>3, <1>5 DEF proc_alive
      <4> QED BY <4>1, <4>2, <4>3, <1>2, <1>3, <1>5 DEF TreeInv, TreeOK, Dead
    <3> QED BY <3>1, <3>2
  <2> QED BY <2>1, <2>2 DEF TreeOK
<1>12. MsgOK'
  <2>1. ASSUME NEW q \in Allocated' \ {First},
               state'[q] \in {"TOMBSTONE", "DEADLEAF"}, proc_alive(state', parent'[q])
        PROVE  noreap'[q]
    <3>1. CASE q = c
      BY <2>1, <3>1, <1>4
    <3>2. CASE q # c
      <4>1. q \in Allocated \ {First}
        BY <2>1, <3>2, <1>2
      <4>2. proc_alive(state, parent[q])
        BY <2>1, <4>1, <1>3, <1>5 DEF proc_alive
      <4> QED BY <2>1, <4>1, <4>2, <1>3, <1>5 DEF TreeInv, MsgOK
    <3> QED BY <3>1, <3>2
  <2> QED BY <2>1 DEF MsgOK
<1> QED BY <1>6, <1>7, <1>11, <1>12 DEF TreeInv

\* A dead leaf p is freed, and its dead parent, if it is one, is looked at.
LEMMA PruneTree ==
    ASSUME TypeOK, TypeOK', TreeInv, NEW p \in dead_leaves,
           LET freed == [state EXCEPT ![p] = "FREED"]
               up    == parent[p]
           IN IF proc_alive(state, up) THEN Bury(freed, freed)
              ELSE Bury(freed, proc_tryreap(freed, up)),
           parent' = [parent EXCEPT ![p] = NULL],
           globalid' = [globalid EXCEPT ![p] = 0],
           UNCHANGED next_pid
    PROVE  TreeInv'
<1> DEFINE freed == [state EXCEPT ![p] = "FREED"]
           up    == parent[p]
<1>1. p \in Proc /\ state[p] = "DEADLEAF" /\ p # First /\ p \in Allocated
  BY DEF TreeInv, TreeOK, InitOK, Allocated
<1>2. \A q \in Allocated \ {First} :
        /\ q \in Proc /\ parent[q] \in Proc /\ parent[q] # NULL /\ parent[q] # q
        /\ parent[q] \in Allocated /\ parent[q] # p
  BY <1>1, ProcAssumption DEF TreeInv, TreeOK, Allocated, TypeOK, Children
<1>3. freed \in [Proc -> States] /\ freed[p] = "FREED"
      /\ \A q \in Proc \ {p} : freed[q] = state[q]
  BY <1>1 DEF TypeOK, States, Dead
<1>4. up \in Proc /\ up # NULL /\ up # p /\ up \in Allocated
  BY <1>1, <1>2
<1>5. state'[p] = "FREED"
  BY <1>1, <1>3, <1>4 DEF Bury, proc_tryreap, Collected, Collectable, Awaits
<1>6. \A q \in Proc \ {p, up} : \/ state'[q] = state[q]
                                \/ state[q] \notin Dead /\ state'[q] \notin Dead
  BY <1>3, <1>4 DEF Bury, proc_tryreap, Collected, Collectable, proc_alive, Dead
<1>7. Children(freed, up) = Children(state, up) \ {p}
  BY <1>3 DEF Children
<1>8. proc_alive(freed, parent[up]) <=> proc_alive(state, parent[up])
  <2>1. parent[up] # p
    BY <1>1, <1>2, <1>4, ProcAssumption DEF TreeInv, InitOK
  <2>2. parent[up] \in Proc \cup {NULL}
    BY <1>4 DEF TypeOK
  <2> QED BY <2>1, <2>2, <1>3 DEF proc_alive
<1>9. \/ state'[up] = state[up] /\ proc_alive(state, up)
      \/ state'[up] = Buried(freed, up) /\ state[up] \in {"TOREAP", "TOMBSTONE"}
      \/ state'[up] = "TOREAP" /\ state[up] = "TOREAP"
  <2>1. CASE proc_alive(state, up)
    BY <2>1, <1>3, <1>4 DEF Bury
  <2>2. CASE ~proc_alive(state, up)
    <3>1. state[up] \in {"TOREAP", "TOMBSTONE"}
      <4>1. p \in Children(state, up)
        BY <1>1 DEF Children
      <4>2. state[up] # "DEADLEAF"
        BY <4>1, <1>4 DEF TreeInv, TreeOK, InitOK
      <4> QED BY <4>2, <2>2, <1>4 DEF proc_alive, Dead, Allocated
    <3>2. state' = proc_tryreap(freed, up)
      BY <2>2 DEF Bury
    <3>3. CASE Collectable(freed, up) /\ ~Collected(freed, up)
      BY <3>1, <3>2, <3>3, <1>3, <1>4 DEF proc_tryreap, Collectable
    <3>4. CASE ~(Collectable(freed, up) /\ ~Collected(freed, up))
      BY <3>1, <3>2, <3>4, <1>4 DEF proc_tryreap
    <3> QED BY <3>3, <3>4
  <2> QED BY <2>1, <2>2
<1>10. Buried(freed, up) = IF Children(state, up) \ {p} = {} /\ parent[up] # NULL
                           THEN "DEADLEAF" ELSE "TOMBSTONE"
  BY <1>7 DEF Buried
<1> HIDE DEF freed, up
<1>11. Allocated' = Allocated \ {p}
  BY <1>1, <1>4, <1>5, <1>6, <1>9, <1>10 DEF Allocated, Dead, proc_alive
<1>12. \A q \in Proc \ {p} : parent'[q] = parent[q] /\ globalid'[q] = globalid[q]
  BY DEF TypeOK
<1>13. \A q \in Proc : q # p => Children(state, q)' = Children(state, q) \ {p}
  BY <1>1, <1>5, <1>11, <1>12, ProcAssumption DEF Children, Allocated, TypeOK
<1>14. \A q \in Proc \ {p} : proc_alive(state', q) <=> proc_alive(state, q)
  BY <1>4, <1>6, <1>9, <1>10, ProcAssumption DEF proc_alive, Dead
<1>15. IdsOK'
  <2>1. 0 < next_pid
    BY <1>1 DEF TreeInv, IdsOK, TypeOK
  <2> QED BY <2>1, <1>1, <1>12 DEF TreeInv, IdsOK, TypeOK
<1>16. InitOK'
  BY <1>1, <1>4, <1>6, <1>9, <1>10, <1>12, ProcAssumption DEF TreeInv, InitOK, Dead, proc_alive
<1>17. \A q \in Proc \ {p} : noreap'[q] = (state[q] # "FREED" /\ (noreap[q] \/ (state[q] = "TOREAP" /\ state'[q] # "TOREAP")))
  BY <1>3 DEF Bury, freed, up
<1>18. \A q \in Allocated \ {p, up} : noreap'[q] = noreap[q]
  <2>1. ASSUME NEW q \in Allocated \ {p, up} PROVE noreap'[q] = noreap[q]
    <3>1. q \in Proc \ {p} /\ state[q] # "FREED" /\ noreap[q] \in BOOLEAN
      BY <2>1 DEF Allocated, TypeOK
    <3>2. state[q] = "TOREAP" => state'[q] = "TOREAP"
      BY <3>1, <2>1, <1>6 DEF Dead
    <3> QED BY <3>1, <3>2, <1>17
  <2> QED BY <2>1
<1>19. dead_leaves' = {q \in Proc : state'[q] = "DEADLEAF"}
  <2>1. dead_leaves' = (dead_leaves \ {q \in Proc : freed[q] = "FREED"})
                        \cup {q \in Proc : freed[q] # "DEADLEAF" /\ state'[q] = "DEADLEAF"}
    BY DEF Bury, freed, up
  <2>2. \A q \in Proc \ {p} : state[q] = "DEADLEAF" => state'[q] = "DEADLEAF"
    BY <1>4, <1>6, <1>9 DEF Dead, proc_alive
  <2> QED BY <2>1, <2>2, <1>1, <1>3, <1>5 DEF TreeInv, TreeOK
<1>20. TreeOK'
  <2>1. ASSUME NEW q \in Allocated' \ {First}
        PROVE  /\ parent'[q] \in Allocated'
               /\ globalid'[parent'[q]] < globalid'[q]
               /\ state'[q] = "TOREAP" => ~noreap'[q] /\ proc_alive(state', parent'[q])
               /\ state'[q] = "TOMBSTONE" => Children(state, q)' # {}
               /\ state'[q] = "DEADLEAF" => Children(state, q)' = {}
    <3>1. q \in Allocated \ {First} /\ q # p
      BY <2>1, <1>11
    <3>2. q \in Proc /\ parent'[q] = parent[q] /\ parent[q] \in Proc \ {p} /\ parent[q] \in Allocated
      BY <3>1, <1>2, <1>12
    <3>3. parent'[q] \in Allocated' /\ globalid'[parent'[q]] < globalid'[q]
      BY <3>1, <3>2, <1>11, <1>12 DEF TreeInv, TreeOK
    <3>4. Children(state, q)' = Children(state, q) \ {p}
      BY <3>1, <3>2, <1>13
    <3>5. CASE q = up
      <4>1. state'[q] = "TOREAP" => ~noreap'[q] /\ proc_alive(state', parent'[q])
        <5>1. state'[q] = "TOREAP" => state[q] = "TOREAP"
          BY <3>5, <1>9, <1>10 DEF proc_alive, Dead
        <5>2. state[q] = "TOREAP" => ~noreap[q] /\ proc_alive(state, parent[q])
          BY <3>1 DEF TreeInv, TreeOK
        <5> QED BY <5>1, <5>2, <3>1, <3>2, <1>14, <1>17
      <4>2. parent[up] # NULL
        BY <3>1, <3>5, <1>2
      <4> QED BY <3>3, <3>4, <3>5, <4>1, <4>2, <1>9, <1>10 DEF proc_alive, Dead
    <3>6. CASE q # up
      <4>1. p \notin Children(state, q)
        BY <3>6 DEF Children, up
      <4>2. noreap'[q] = noreap[q]
        BY <3>1, <3>6, <1>18
      <4>3. state'[q] = state[q] \/ (state[q] \notin Dead /\ state'[q] \notin Dead)
        BY <3>1, <3>2, <3>6, <1>6
      <4>4. Children(state, q)' = Children(state, q)
        BY <3>4, <4>1
      <4> QED BY <3>1, <3>2, <3>3, <4>2, <4>3, <4>4, <1>14 DEF TreeInv, TreeOK, Dead
    <3> QED BY <3>5, <3>6
  <2> QED BY <2>1, <1>19 DEF TreeOK
<1>21. MsgOK'
  <2>1. ASSUME NEW q \in Allocated' \ {First},
               state'[q] \in {"TOMBSTONE", "DEADLEAF"}, proc_alive(state', parent'[q])
        PROVE  noreap'[q]
    <3>1. q \in Allocated \ {First} /\ q # p /\ q \in Proc /\ state[q] # "FREED"
      BY <2>1, <1>11 DEF Allocated
    <3>2. proc_alive(state, parent[q])
      BY <2>1, <3>1, <1>2, <1>12, <1>14
    <3>3. state[q] \in {"TOREAP", "TOMBSTONE", "DEADLEAF"}
      BY <2>1, <3>1, <1>6, <1>9 DEF Dead, proc_alive
    <3>4. CASE state[q] = "TOREAP"
      BY <3>4, <2>1, <3>1, <1>17
    <3>5. CASE state[q] # "TOREAP"
      <4>1. noreap[q]
        BY <3>1, <3>2, <3>3, <3>5 DEF TreeInv, MsgOK
      <4> QED BY <4>1, <3>1, <1>17
    <3> QED BY <3>4, <3>5
  <2> QED BY <2>1 DEF MsgOK
<1> QED BY <1>15, <1>16, <1>20, <1>21 DEF TreeInv

-----------------------------------------------------------------------------
\* The bookkeeping of a call keeps the types.
LEMMA BuryType ==
    ASSUME TypeOK, NEW mid, NEW st \in [Proc -> States], Bury(mid, st)
    PROVE  state' \in [Proc -> States] /\ noreap' \in [Proc -> BOOLEAN] /\ dead_leaves' \subseteq Proc
  BY DEF Bury, TypeOK

\* proc_tryreap gives every process one of the states of ProcState.
LEMMA tryreapStates ==
    ASSUME NEW st \in [Proc -> States], NEW d
    PROVE  proc_tryreap(st, d) \in [Proc -> States]
  BY DEF proc_tryreap, Buried, States, Dead

\* proc_kill keeps the types.
LEMMA KillType ==
    ASSUME TypeOK, NEW p, Kill(p)
    PROVE  /\ state' \in [Proc -> States] /\ noreap' \in [Proc -> BOOLEAN]
           /\ dead_leaves' \subseteq Proc
           /\ panic' \in {"ns_id", "tryreap", panic}
<1>1. dyingStates(p) \in [Proc -> States]
  BY DEF dyingStates, TypeOK, States, Dead
<1>2. lostStates(p) \in [Proc -> States]
  BY <1>1 DEF lostStates, Buried, States, Dead
<1>3. CASE proc_alive(state, p)
  <2>1. (IF p = First THEN lostStates(p) ELSE proc_tryreap(lostStates(p), p)) \in [Proc -> States]
    BY <1>2, tryreapStates
  <2>2. state' \in [Proc -> States] /\ noreap' \in [Proc -> BOOLEAN] /\ dead_leaves' \subseteq Proc
    BY <1>3, <2>1, BuryType DEF Kill
  <2>3. panic' \in {"ns_id", "tryreap", panic}
    BY <1>3, tryreapType DEF Kill
  <2> QED BY <2>2, <2>3
<1>4. CASE ~proc_alive(state, p)
  <2>1. proc_tryreap(state, p) \in [Proc -> States]
    BY tryreapStates DEF TypeOK
  <2>2. state' \in [Proc -> States] /\ noreap' \in [Proc -> BOOLEAN] /\ dead_leaves' \subseteq Proc
    BY <1>4, <2>1, BuryType DEF Kill
  <2>3. panic' \in {"ns_id", "tryreap", panic}
    BY <1>4, tryreapType DEF Kill
  <2> QED BY <2>2, <2>3
<1> QED BY <1>3, <1>4

\* proc_fork keeps the types.
LEMMA forkType ==
    ASSUME TypeOK, NEW c \in Proc, NEW nr \in BOOLEAN, proc_fork(c, nr)
    PROVE  /\ parent' \in [Proc -> Proc \cup {NULL}] /\ globalid' \in [Proc -> Nat]
           /\ noreap' \in [Proc -> BOOLEAN] /\ awaited' \in [Proc -> Nat]
           /\ intr_fn' \in [Proc -> BOOLEAN] /\ pns' \in [Proc -> Proc]
           /\ localid' \in [Proc -> Nat] /\ nextlid' \in [Proc -> Nat]
           /\ next_pid' \in Nat
  BY DEF proc_fork, TypeOK

\* Each action keeps the invariant.  First _sys_fork, with a new child, ...
LEMMA ForkInd == IndInv /\ Fork => IndInv'
<1> SUFFICES ASSUME IndInv, Fork PROVE IndInv'
  OBVIOUS
<1> USE DEF IndInv
<1>1. PICK c \in Proc, nr \in BOOLEAN : proc_fork(c, nr) /\ state' = [state EXCEPT ![c] = "RUNNING"]
  BY DEF Fork
<1>2. TypeOK'
  <2>1. mode' \in Modes /\ UNCHANGED <<it, old, proc_cur, dead_leaves, panic>>
    BY DEF Fork, Return, Modes
  <2>2. state' \in [Proc -> States]
    BY <1>1 DEF TypeOK, States
  <2> QED BY <1>1, <2>1, <2>2, forkType DEF TypeOK
<1>3. state[proc_cur] = "RUNNING"
  BY DEF Fork, User, LoopOK
<1>4. dead_leaves' = dead_leaves \cup (IF "RUNNING" = "DEADLEAF" THEN {c} ELSE {})
  BY DEF Fork
<1>5. TreeInv'
  BY <1>1, <1>2, <1>3, <1>4, ForkTree
<1>6. LoopOK'
  BY DEF Fork, Return, LoopOK
<1> QED BY <1>2, <1>5, <1>6

\* ... _sys_fork with FORK_NEWFS and no free handle, ...
LEMMA ForkFailInd == IndInv /\ ForkFail => IndInv'
<1> SUFFICES ASSUME IndInv, ForkFail PROVE IndInv'
  OBVIOUS
<1> USE DEF IndInv
<1>1. PICK c \in Proc : /\ proc_fork(c, TRUE) /\ state' = [state EXCEPT ![c] = "DEADLEAF"]
                        /\ dead_leaves' = dead_leaves \cup {c}
  BY DEF ForkFail
<1>2. TypeOK'
  <2>1. mode' \in Modes /\ UNCHANGED <<it, old, proc_cur, panic>>
    BY DEF ForkFail, Return, Modes
  <2>2. state' \in [Proc -> States] /\ dead_leaves' \subseteq Proc
    BY <1>1 DEF TypeOK, States, Dead
  <2> QED BY <1>1, <2>1, <2>2, forkType DEF TypeOK
<1>3. state[proc_cur] = "RUNNING"
  BY DEF ForkFail, User, LoopOK
<1>4. TreeInv'
  BY <1>1, <1>2, <1>3, ForkTree
<1>5. LoopOK'
  BY DEF ForkFail, Return, LoopOK
<1> QED BY <1>2, <1>4, <1>5

\* ... _sys_exit, ...
LEMMA ExitInd == IndInv /\ Exit => IndInv'
<1> SUFFICES ASSUME IndInv, Exit PROVE IndInv'
  OBVIOUS
<1> USE DEF IndInv
<1>1. TypeOK'
  BY KillType DEF Exit, User, Return, TypeOK, Modes, ns
<1>2. proc_cur \in Allocated /\ proc_alive(state, proc_cur)
  BY ProcAssumption DEF Exit, User, LoopOK, Allocated, TypeOK, proc_alive, Dead
<1>3. TreeInv'
  BY <1>1, <1>2, KillTree DEF Exit
<1>4. LoopOK'
  BY DEF Exit, Return, LoopOK
<1> QED BY <1>1, <1>3, <1>4

\* ... _sys_wait2: the newest child that matches is buried, or the caller waits,
\* or there is nothing to wait for.
LEMMA Wait2Ind == IndInv /\ Wait2 => IndInv'
<1> SUFFICES ASSUME IndInv, Wait2 PROVE IndInv'
  OBVIOUS
<1> USE DEF IndInv
<1> DEFINE waits == [state EXCEPT ![proc_cur] = "WAITS4CHILDDEATH"]
           mine  == Reapable(proc_cur)
           ready(pid) == {c \in mine : /\ state[c] = "TOREAP"
                                       /\ pid \in {0, proc_ns_id(pns[proc_cur], c)}}
           d(pid) == NewestOf(ready(pid))
<1>1. /\ state[proc_cur] = "RUNNING" /\ proc_cur \in Proc /\ panic = "none"
      /\ mode' = "prune" /\ UNCHANGED <<it, old, proc_cur, parent, globalid, next_pid, intr_fn, pns, localid, nextlid>>
  BY DEF Wait2, User, LoopOK, Return, TypeOK, ns
<1>2. waits \in [Proc -> States] /\ state \in [Proc -> States]
  BY DEF TypeOK, States, Waiting
<1>3. PICK pid \in Nat :
        \/ /\ ready(pid) # {}
           /\ Bury(waits, [state EXCEPT ![d(pid)] = Buried(waits, d(pid))])
           /\ panic' \in {"ns_id", "tryreap", panic}
           /\ UNCHANGED awaited
        \/ /\ ready(pid) = {} /\ mine # {}
           /\ Bury(waits, waits)
           /\ awaited' = [awaited EXCEPT ![proc_cur] = pid]
           /\ panic' \in {"ns_id", "tryreap", panic}
        \/ /\ mine = {}
           /\ Bury(state, state)
           /\ UNCHANGED <<awaited, panic>>
  BY tryreapType, ProcAssumption DEF Wait2
<1>4. CASE ready(pid) # {} /\ Bury(waits, [state EXCEPT ![d(pid)] = Buried(waits, d(pid))]) /\ UNCHANGED awaited
           /\ panic' \in {"ns_id", "tryreap", panic}
  <2> DEFINE e == d(pid)
             L == {}
  <2>1. ready(pid) \subseteq Proc
    BY DEF Reapable, Children
  <2>2. \E c \in ready(pid) : \A f \in ready(pid) : globalid[f] <= globalid[c]
    BY <2>1, <1>4, MaxExists DEF TreeInv, IdsOK, TypeOK
  <2>3. e \in ready(pid)
    BY <2>2, <1>4 DEF NewestOf
  <2>4. e \in Proc /\ state[e] = "TOREAP" /\ parent[e] = proc_cur /\ e # proc_cur /\ e \in Allocated
    BY <2>3, <1>1 DEF Reapable, Children, Allocated
  <2>5. e # First
    BY <2>4, <1>1, ProcAssumption DEF TreeInv, InitOK
  <2> HIDE DEF e, ready, d
  <2>6. Bury(waits, [state EXCEPT ![e] = Buried(waits, e)])
    BY <1>4 DEF e
  <2>7. [state EXCEPT ![e] = Buried(waits, e)] \in [Proc -> States]
    BY <1>2 DEF Buried, States, Dead
  <2>8. TypeOK'
    BY <1>1, <1>2, <1>4, <2>6, <2>7, BuryType DEF TypeOK, Modes
  <2>9. Buried(waits, e) = Buried(state, e)
    BY <1>1, <1>2 DEF Buried, Children
  <2>10. state'[e] = Buried(state, e) /\ \A q \in Proc \ {e} : state'[q] = state[q]
    BY <1>2, <2>4, <2>6, <2>9 DEF Bury
  <2>11. \A q \in Proc : waits[q] = IF q = proc_cur THEN "WAITS4CHILDDEATH" ELSE state[q]
    BY <1>2
  <2>12. \A q \in Proc : noreap'[q] = (waits[q] # "FREED" /\ (noreap[q] \/ (waits[q] = "TOREAP" /\ state'[q] # "TOREAP")))
    BY <2>6 DEF Bury
  <2>13. state'[e] # "TOREAP" /\ noreap'[e]
    BY <2>4, <2>10, <2>11, <2>12 DEF Buried
  <2>14. \A q \in Allocated \ {e} : noreap'[q] = noreap[q]
    <3>1. ASSUME NEW q \in Allocated \ {e} PROVE noreap'[q] = noreap[q]
      <4>1. q \in Proc /\ waits[q] # "FREED" /\ noreap[q] \in BOOLEAN /\ (waits[q] = "TOREAP" => state'[q] = "TOREAP")
        BY <3>1, <2>10, <2>11 DEF Allocated, TypeOK
      <4> QED BY <4>1, <2>12
    <3> QED BY <3>1
  <2>15. dead_leaves' = {q \in Proc : state'[q] = "DEADLEAF"}
    BY <1>1, <2>4, <2>6, <2>10, <2>11 DEF Bury, TreeInv, TreeOK
  <2>16. /\ L \in SUBSET Proc
         /\ \A q \in L : /\ q \in Proc \ {First} /\ state[q] = "TOREAP" /\ parent[q] = e
                         /\ state'[q] = Buried(state, q)
         /\ Proc \ (L \cup {e}) = Proc \ {e} /\ Allocated \ (L \cup {e}) = Allocated \ {e}
    OBVIOUS
  <2>17. ~proc_alive(state, e)
    BY <2>4 DEF proc_alive, Dead
  <2> HIDE DEF L
  <2>18. TreeInv'
    BY <1>1, <2>4, <2>5, <2>8, <2>10, <2>13, <2>14, <2>15, <2>16, <2>17, DeathStep
  <2>19. LoopOK'
    BY <1>1 DEF LoopOK
  <2> QED BY <2>8, <2>18, <2>19
<1>5. CASE Bury(waits, waits) /\ awaited' = [awaited EXCEPT ![proc_cur] = pid] /\ panic' \in {"ns_id", "tryreap", panic}
  <2>1. TypeOK'
    BY <1>1, <1>2, <1>5, BuryType DEF TypeOK, Modes
  <2>2. \A q \in Proc : state'[q] = IF q = proc_cur THEN "WAITS4CHILDDEATH" ELSE state[q]
    BY <1>2, <1>5 DEF Bury
  <2>3. \A q \in Proc : noreap'[q] = (waits[q] # "FREED" /\ (noreap[q] \/ (waits[q] = "TOREAP" /\ waits[q] # "TOREAP")))
    BY <1>5 DEF Bury
  <2>4. \A q \in Allocated : noreap'[q] = noreap[q]
    <3>1. ASSUME NEW q \in Allocated PROVE noreap'[q] = noreap[q]
      <4>1. q \in Proc /\ waits[q] # "FREED" /\ noreap[q] \in BOOLEAN
        BY <1>2 DEF Allocated, TypeOK
      <4> QED BY <4>1, <2>3
    <3> QED BY <3>1
  <2>5. dead_leaves' = dead_leaves
    BY <1>1, <1>2, <1>5 DEF Bury, TreeInv, TreeOK
  <2>6. \A q \in Proc : \/ state'[q] = state[q]
                        \/ state[q] \notin Dead /\ state'[q] \notin Dead
    BY <1>1, <2>2 DEF Dead
  <2>7. TreeInv'
    BY <1>1, <2>1, <2>4, <2>5, <2>6, QuietStep
  <2> QED BY <1>1, <2>1, <2>7 DEF LoopOK
<1>6. CASE Bury(state, state) /\ UNCHANGED <<awaited, panic>>
  <2>1. TypeOK'
    BY <1>1, <1>2, <1>6, BuryType DEF TypeOK, Modes
  <2>2. state' = state
    BY <1>6 DEF Bury
  <2>3. \A q \in Proc : noreap'[q] = (state[q] # "FREED" /\ (noreap[q] \/ (state[q] = "TOREAP" /\ state[q] # "TOREAP")))
    BY <1>6 DEF Bury
  <2>4. \A q \in Allocated : noreap'[q] = noreap[q]
    <3>1. ASSUME NEW q \in Allocated PROVE noreap'[q] = noreap[q]
      <4>1. q \in Proc /\ state[q] # "FREED" /\ noreap[q] \in BOOLEAN
        BY DEF Allocated, TypeOK
      <4> QED BY <4>1, <2>3
    <3> QED BY <3>1
  <2>5. dead_leaves' = dead_leaves
    BY <1>6 DEF Bury, TreeInv, TreeOK
  <2>6. TreeInv'
    BY <1>1, <2>1, <2>2, <2>4, <2>5, QuietStep
  <2> QED BY <1>1, <2>1, <2>6 DEF LoopOK
<1> QED BY <1>3, <1>4, <1>5, <1>6

\* A step that leaves the tree alone but for moving live processes between
\* live states.
LEMMA QuietInd ==
    ASSUME IndInv, TypeOK', LoopOK',
           UNCHANGED <<parent, globalid, next_pid, dead_leaves, noreap>>,
           \A p \in Proc : \/ state'[p] = state[p]
                           \/ state[p] \notin Dead /\ state'[p] \notin Dead
    PROVE  IndInv'
  BY QuietStep DEF IndInv

\* _sys_intr enters its loop at the first child of the caller, ...
LEMMA IntrInd == IndInv /\ Intr => IndInv'
<1> SUFFICES ASSUME IndInv, Intr PROVE IndInv'
  OBVIOUS
<1> USE DEF IndInv
<1>1. proc_cur \in Proc /\ IdsOK
  BY DEF TypeOK, TreeInv
<1>2. child(proc_cur) # NULL => child(proc_cur) \in Allocated \ {First} /\ child(proc_cur) \in Proc
  BY <1>1, childType, ProcAssumption DEF TreeInv, InitOK, Allocated
<1>3. /\ UNCHANGED <<state, parent, globalid, noreap, dead_leaves, next_pid, awaited,
                     intr_fn, pns, localid, nextlid, old, proc_cur, panic>>
      /\ it' = child(proc_cur)
      /\ mode' \in {"prune", "intr", "kill"}
      /\ mode' # "prune" => it' # NULL
  BY DEF Intr, tree, ns
<1>4. TypeOK'
  BY <1>2, <1>3 DEF TypeOK, Modes
<1>5. LoopOK'
  BY <1>2, <1>3 DEF LoopOK, Allocated
<1> QED BY <1>3, <1>4, <1>5, QuietInd

\* (a call that ends leaves no loop variable in use)
LEMMA ReturnLoop == Return => LoopOK'
  BY DEF Return, LoopOK

\* ... _sys_intr_set leaves the tree alone, ...
LEMMA IntrSetInd == IndInv /\ IntrSet => IndInv'
<1> SUFFICES ASSUME IndInv, IntrSet PROVE IndInv'
  OBVIOUS
<1>1. TypeOK'
  BY DEF IndInv, IntrSet, TypeOK, Return, Modes, tree, ns
<1> QED BY <1>1, ReturnLoop, QuietInd DEF IntrSet, tree

\* ... and so does a call that blocks its caller, ...
LEMMA BlockInd == IndInv /\ Block => IndInv'
<1> SUFFICES ASSUME IndInv, Block PROVE IndInv'
  OBVIOUS
<1>1. PICK s \in WaitStates : state' = [state EXCEPT ![proc_cur] = s]
  BY DEF Block
<1>2. s \in States \ Dead
  BY <1>1, ProcAssumption DEF States, Waiting, AllWaitStates, Dead
<1>3. state[proc_cur] \notin Dead
  BY DEF IndInv, LoopOK, Block, Dead
<1>4. TypeOK'
  BY <1>1, <1>2 DEF IndInv, Block, TypeOK, Return, Modes, ns
<1>5. \A p \in Proc : \/ state'[p] = state[p]
                      \/ state[p] \notin Dead /\ state'[p] \notin Dead
  BY <1>1, <1>2, <1>3 DEF IndInv, TypeOK
<1> QED BY <1>4, <1>5, ReturnLoop, QuietInd DEF Block

\* What waking a process that waits for something does to the states.
LEMMA WakeStates ==
    ASSUME TypeOK, NEW p \in Proc, state[p] \in AllWaitStates,
           state' = [state EXCEPT ![p] = "RUNNING"]
    PROVE  /\ state' \in [Proc -> States]
           /\ \A q \in Proc : \/ state'[q] = state[q]
                              \/ state[q] \notin Dead /\ state'[q] \notin Dead
  BY DEF TypeOK, States, AllWaitStates, Dead

\* ... a call that wakes another process, ...
LEMMA WakeOtherInd == IndInv /\ WakeOther => IndInv'
<1> SUFFICES ASSUME IndInv, WakeOther PROVE IndInv'
  OBVIOUS
<1>1. PICK p \in Proc : /\ state[p] \in AllWaitStates
                        /\ state' = [state EXCEPT ![p] = "RUNNING"]
  BY DEF WakeOther
<1>2. TypeOK'
  BY <1>1, WakeStates DEF IndInv, WakeOther, TypeOK, Return, Modes, ns
<1> QED BY <1>1, <1>2, WakeStates, ReturnLoop, QuietInd DEF WakeOther, IndInv

\* ... an interrupt in cpu_pause, after which the search starts at init, ...
LEMMA IdleInd == IndInv /\ Idle => IndInv'
<1> SUFFICES ASSUME IndInv, Idle PROVE IndInv'
  OBVIOUS
<1>1. /\ state' \in [Proc -> States]
      /\ \A q \in Proc : \/ state'[q] = state[q]
                         \/ state[q] \notin Dead /\ state'[q] \notin Dead
  <2>1. CASE state' = state
    BY <2>1 DEF IndInv, TypeOK
  <2>2. CASE \E p \in Proc : /\ state[p] \in AllWaitStates
                             /\ state' = [state EXCEPT ![p] = "RUNNING"]
    BY <2>2, WakeStates DEF IndInv
  <2> QED BY <2>1, <2>2 DEF Idle
<1>2. TypeOK'
  BY <1>1, ProcAssumption DEF IndInv, Idle, TypeOK, Modes, ns
<1>3. LoopOK'
  BY <1>1, ProcAssumption DEF IndInv, TreeInv, InitOK, Idle, LoopOK, Allocated, Dead
<1> QED BY <1>1, <1>2, <1>3, QuietInd DEF Idle

\* ... and _sys_getprocfs, which enters its loop at the first child.
LEMMA GetProcfsInd == IndInv /\ GetProcfs => IndInv'
<1> SUFFICES ASSUME IndInv, GetProcfs PROVE IndInv'
  OBVIOUS
<1> USE DEF IndInv
<1>1. proc_cur \in Proc /\ IdsOK
  BY DEF TypeOK, TreeInv
<1>2. child(proc_cur) # NULL => child(proc_cur) \in Allocated /\ child(proc_cur) \in Proc
  BY <1>1, childType DEF Allocated
<1>3. UNCHANGED <<state, parent, globalid, noreap, dead_leaves, next_pid>>
  BY DEF GetProcfs, tree
<1>4. TypeOK'
  BY <1>2 DEF GetProcfs, TypeOK, Modes, Return, tree, ns
<1>5. LoopOK'
  BY <1>2, <1>3, ReturnLoop DEF GetProcfs, LoopOK, Allocated
<1> QED BY <1>3, <1>4, <1>5, QuietInd

\* An iteration of _sys_intr: proc_next is evaluated after the process it
\* starts from was killed, and still finds a process that has not been freed,
\* because only proc_prune_leaves frees.
LEMMA IntrStepInd == IndInv /\ IntrStep => IndInv'
<1> SUFFICES ASSUME IndInv, IntrStep PROVE IndInv'
  OBVIOUS
<1> USE DEF IndInv
<1>1. mode \in {"intr", "kill"} /\ it \in Allocated \ {First} /\ it \in Proc
  BY DEF IntrStep, LoopOK, Allocated
<1>2. /\ it' = proc_next(it, proc_cur)
      /\ mode' = IF it' = NULL THEN "prune" ELSE mode
      /\ UNCHANGED <<parent, globalid, next_pid, awaited, intr_fn, pns, localid, nextlid, old, proc_cur>>
  BY DEF IntrStep, ns
<1>3. it' # NULL => it' \in Allocated \ {First} /\ it' \in Proc
  BY <1>1, <1>2, nextType DEF TreeInv, Allocated
<1>4. CASE mode = "kill"
  <2>1. Kill(it)
    BY <1>4 DEF IntrStep
  <2>2. TypeOK'
    BY <1>2, <1>3, <1>4, <2>1, KillType DEF TypeOK, Modes
  <2>3. TreeInv' /\ Allocated' = Allocated
    BY <1>1, <1>2, <2>1, <2>2, KillTree
  <2>4. LoopOK'
    BY <1>2, <1>3, <1>4, <2>3 DEF LoopOK
  <2> QED BY <2>2, <2>3, <2>4
<1>5. CASE mode = "intr"
  <2>1. /\ state' = IF intr_fn[it] /\ state[it] = "WAITS4TIMER"
                    THEN [state EXCEPT ![it] = "RUNNING"] ELSE state
        /\ UNCHANGED <<noreap, dead_leaves, panic>>
    BY <1>5 DEF IntrStep
  <2>2. /\ state' \in [Proc -> States]
        /\ \A q \in Proc : \/ state'[q] = state[q]
                           \/ state[q] \notin Dead /\ state'[q] \notin Dead
    BY <1>1, <2>1 DEF TypeOK, States, Dead
  <2>3. TypeOK'
    BY <1>2, <1>3, <1>5, <2>1, <2>2 DEF TypeOK, Modes
  <2>4. TreeInv' /\ Allocated' = Allocated
    BY <1>2, <2>1, <2>2, <2>3, QuietStep
  <2>5. LoopOK'
    BY <1>2, <1>3, <1>5, <2>4 DEF LoopOK
  <2> QED BY <2>3, <2>4, <2>5
<1> QED BY <1>1, <1>4, <1>5

\* An iteration of proc_ns_create.
LEMMA NsCreateStepInd == IndInv /\ NsCreateStep => IndInv'
<1> SUFFICES ASSUME IndInv, NsCreateStep PROVE IndInv'
  OBVIOUS
<1> USE DEF IndInv
<1>1. mode = "nscreate" /\ it \in Allocated /\ it \in Proc /\ IdsOK /\ proc_cur \in Proc
  BY DEF NsCreateStep, LoopOK, Allocated, TreeInv, TypeOK
<1>2. /\ UNCHANGED <<state, parent, globalid, noreap, dead_leaves, next_pid,
                     awaited, intr_fn, localid, old, proc_cur>>
      /\ mode' = IF it' = NULL THEN "prune" ELSE mode
      /\ nextlid' = [nextlid EXCEPT ![proc_cur] = nextlid_raised]
      /\ pns' = pns_moved
      /\ panic' \in {"ns_create", panic}
  BY DEF NsCreateStep, tree
<1>3. it' # NULL => it' \in Allocated /\ it' \in Proc
  <2>1. it' = child(it) \/ \E c : it' = sibling(c)
    BY DEF NsCreateStep
  <2> QED BY <1>1, <2>1, childType, siblingType DEF Allocated
<1>4. pns' \in [Proc -> Proc] /\ nextlid' \in [Proc -> Nat]
  BY <1>1, <1>2 DEF TypeOK, pns_moved, nextlid_raised
<1>5. TypeOK'
  BY <1>1, <1>2, <1>3, <1>4 DEF TypeOK, Modes
<1>6. LoopOK'
  BY <1>1, <1>2, <1>3 DEF LoopOK, Allocated
<1> QED BY <1>2, <1>5, <1>6, QuietInd

\* An iteration of proc_prune_leaves.  No loop variable is in use then, so none
\* can point to the process that is freed.
LEMMA PruneStepInd == IndInv /\ PruneStep => IndInv'
<1> SUFFICES ASSUME IndInv, PruneStep PROVE IndInv'
  OBVIOUS
<1> USE DEF IndInv
<1> DEFINE freed(p) == [state EXCEPT ![p] = "FREED"]
<1>1. PICK p \in dead_leaves :
        /\ IF proc_alive(state, parent[p])
           THEN Bury(freed(p), freed(p)) /\ UNCHANGED panic
           ELSE /\ Bury(freed(p), proc_tryreap(freed(p), parent[p]))
                /\ panic' = tryreap_asserts(freed(p), parent[p])
        /\ parent' = [parent EXCEPT ![p] = NULL]
        /\ globalid' = [globalid EXCEPT ![p] = 0]
        /\ intr_fn' = [intr_fn EXCEPT ![p] = FALSE]
        /\ awaited' = [awaited EXCEPT ![p] = 0]
        /\ pns' = [pns EXCEPT ![p] = p]
        /\ localid' = [localid EXCEPT ![p] = 0]
        /\ nextlid' = [nextlid EXCEPT ![p] = 0]
  BY DEF PruneStep
<1>2. mode = "prune" /\ UNCHANGED <<next_pid, old, it, proc_cur, mode>>
  BY DEF PruneStep
<1>3. p \in Proc /\ freed(p) \in [Proc -> States]
  BY DEF TypeOK, States, Dead
<1>4. /\ state' \in [Proc -> States] /\ noreap' \in [Proc -> BOOLEAN]
      /\ dead_leaves' \subseteq Proc
      /\ panic' \in {"ns_id", "tryreap", panic}
  <2> HIDE DEF freed
  <2>1. CASE proc_alive(state, parent[p])
    BY <1>1, <1>3, <2>1, BuryType
  <2>2. CASE ~proc_alive(state, parent[p])
    BY <1>1, <1>3, <2>2, BuryType, tryreapStates, tryreapType
  <2> QED BY <2>1, <2>2
<1>5. TypeOK'
  BY <1>1, <1>2, <1>3, <1>4 DEF TypeOK
<1>6. TreeInv'
  BY <1>1, <1>2, <1>5, PruneTree
<1>7. LoopOK'
  BY <1>2 DEF LoopOK
<1> QED BY <1>5, <1>6, <1>7

\* The end of proc_prune_leaves.
LEMMA PruneEndInd == IndInv /\ PruneEnd => IndInv'
<1> SUFFICES ASSUME IndInv, PruneEnd PROVE IndInv'
  OBVIOUS
<1> USE DEF IndInv
<1>1. TypeOK'
  BY ProcAssumption DEF PruneEnd, TypeOK, Modes, tree, ns
<1>2. LoopOK'
  BY ProcAssumption DEF PruneEnd, LoopOK, TreeInv, InitOK, Allocated, tree
<1> QED BY <1>1, <1>2, QuietInd DEF PruneEnd, tree

\* An iteration of the search of proc_switch_any.
LEMMA ScanStepInd == IndInv /\ ScanStep => IndInv'
<1> SUFFICES ASSUME IndInv, ScanStep PROVE IndInv'
  OBVIOUS
<1> USE DEF IndInv
<1>1. mode = "scan" /\ it \in Allocated /\ it \in Proc
  BY DEF ScanStep, LoopOK, Allocated
<1>2. LET n == proc_next(it, NULL) IN n # NULL => n \in Allocated /\ n \in Proc
  BY <1>1, nextType DEF TreeInv, Allocated
<1>3. UNCHANGED <<state, parent, globalid, noreap, dead_leaves, next_pid, awaited, intr_fn, pns,
                  localid, nextlid, old, panic>>
  BY DEF ScanStep, tree, ns
<1>4. TypeOK'
  BY <1>1, <1>2, <1>3 DEF ScanStep, TypeOK, Modes
<1>5. LoopOK'
  BY <1>1, <1>2, <1>3 DEF ScanStep, LoopOK, Allocated
<1> QED BY <1>3, <1>4, <1>5, QuietInd

\* A step that changes nothing.
LEMMA StutterInd == IndInv /\ UNCHANGED vars => IndInv'
  BY DEF IndInv, TypeOK, TreeInv, IdsOK, InitOK, TreeOK, MsgOK, LoopOK, Allocated, Children, vars

\* Every step keeps the invariant, ...
LEMMA NextInd == IndInv /\ [Next]_vars => IndInv'
  BY ForkInd, ForkFailInd, ExitInd, Wait2Ind, IntrInd, IntrSetInd, BlockInd, WakeOtherInd,
     GetProcfsInd, IntrStepInd, NsCreateStepInd, PruneStepInd, PruneEndInd, ScanStepInd,
     IdleInd, StutterInd DEF Next, Syscall, Kernel

\* ... so it always holds.
LEMMA Inductive == Spec => []IndInv
  BY InitInd, NextInd, PTL DEF Spec

\* The variables of the process tree always have their types; in particular no
\* loop of the kernel follows a pointer to something that is not a process.
THEOREM TypeCorrect == Spec => []TypeOK
<1>1. IndInv => TypeOK
  BY DEF IndInv
<1> QED BY <1>1, Inductive, PTL

\* The protocol of proc_setstate, proc_tryreap and proc_prune_leaves for dead
\* processes keeps the tree in order, whatever the processes do: a process that
\* can be collected has a live parent, a TOMBSTONE stays exactly as long as it has
\* children, and what is on dead_leaves is what is to be freed.
THEOREM TreeCorrect == Spec => []TreeOK
<1>1. IndInv => TreeOK
  BY DEF IndInv, TreeInv
<1> QED BY <1>1, Inductive, PTL

-----------------------------------------------------------------------------
\* What proc_kill does to the processes other than p: children in TOREAP lose
\* their message, and a parent that waits for p is woken.
LEMMA KillEffect ==
    ASSUME TypeOK, TreeInv, NEW p \in Allocated,
           p = First => proc_alive(state, p),
           Kill(p)
    PROVE  /\ \A q \in Proc \ {p} :
                \/ state'[q] = state[q]
                \/ state[q] = "TOREAP" /\ state'[q] \in {"TOMBSTONE", "DEADLEAF"}
                \/ state[q] = "WAITS4CHILDDEATH" /\ state'[q] = "RUNNING"
           /\ \A q \in Allocated \ {p} : state[q] # "TOREAP" => noreap'[q] = noreap[q]
           /\ \A q \in Allocated : noreap[q] => noreap'[q]
           /\ state'[p] \in {"TOREAP", "TOMBSTONE", "DEADLEAF"}
           /\ state'[p] = "TOREAP" =>
                ~Awaits(state, parent[p], p) /\ state'[parent[p]] = state[parent[p]]
           /\ /\ proc_alive(state, p) /\ ~noreap[p] /\ p # First
              /\ proc_alive(state, parent[p]) /\ Awaits(state, parent[p], p)
              => state'[parent[p]] = "RUNNING"
<1> DEFINE d == dyingStates(p)
           l == lostStates(p)
           L == Toreap(p)
<1>1. p \in Proc /\ (p # First => parent[p] \in Proc /\ parent[p] # NULL /\ parent[p] # p)
  BY ProcAssumption DEF TreeInv, TreeOK, Allocated, TypeOK
<1>2. CASE proc_alive(state, p)
  <2>1. p \notin L /\ \A q \in L : q \in Proc /\ state[q] = "TOREAP"
    BY <1>2 DEF Toreap, Children, proc_alive, Dead
  <2>2. proc_alive(state, parent[p]) => parent[p] \notin L
    BY <2>1 DEF proc_alive, Dead
  <2>3. \A q \in Proc : d[q] = IF q = p THEN IF proc_alive(state, parent[p]) THEN "TOREAP" ELSE "TOMBSTONE"
                               ELSE state[q]
    BY DEF dyingStates
  <2>4. \A q \in Proc : l[q] = IF q \in L THEN Buried(state, q) ELSE d[q]
    BY DEF lostStates
  <2>5. Bury(d, IF p = First THEN l ELSE proc_tryreap(l, p))
    BY <1>2 DEF Kill
  <2>6. \A q \in Proc : noreap'[q] = (d[q] # "FREED" /\ (noreap[q] \/ (d[q] = "TOREAP" /\ state'[q] # "TOREAP")))
    BY <2>5 DEF Bury
  <2>7. l[p] = IF proc_alive(state, parent[p]) THEN "TOREAP" ELSE "TOMBSTONE"
    BY <1>1, <2>1, <2>3, <2>4
  <2>8. proc_alive(l, parent[p]) =>
          proc_alive(state, parent[p]) /\ p # First /\ l[parent[p]] = state[parent[p]]
    BY <1>1, <2>1, <2>2, <2>3, <2>4, ProcAssumption DEF proc_alive, TreeInv, InitOK, Buried, Dead
  <2>9. Collected(l, p) => p # First /\ state[parent[p]] = "WAITS4CHILDDEATH"
                           /\ Awaits(state, parent[p], p)
    BY <2>8 DEF Collected, Collectable, Awaits
  <2>10. \A q \in Proc \ {p} :
            state'[q] = IF p # First /\ q = parent[p] /\ Collected(l, p) THEN "RUNNING" ELSE l[q]
    BY <2>5 DEF Bury, proc_tryreap
  <2>11. \A q \in Proc \ {p} :
            \/ state'[q] = state[q]
            \/ state[q] = "TOREAP" /\ state'[q] \in {"TOMBSTONE", "DEADLEAF"}
            \/ state[q] = "WAITS4CHILDDEATH" /\ state'[q] = "RUNNING"
    BY <2>1, <2>3, <2>4, <2>9, <2>10 DEF Buried
  <2>12. \A q \in Allocated \ {p} : state[q] # "TOREAP" => noreap'[q] = noreap[q]
    <3>1. ASSUME NEW q \in Allocated \ {p}, state[q] # "TOREAP" PROVE noreap'[q] = noreap[q]
      <4>1. q \in Proc /\ d[q] = state[q] /\ state[q] # "FREED" /\ noreap[q] \in BOOLEAN
        BY <3>1, <2>3 DEF Allocated, TypeOK
      <4> QED BY <3>1, <4>1, <2>6
    <3> QED BY <3>1
  <2>13. \A q \in Allocated : noreap[q] => noreap'[q]
    BY <2>3, <2>6, <1>1 DEF Allocated
  <2>14. state'[p] \in {"TOREAP", "TOMBSTONE", "DEADLEAF"}
    BY <2>5, <2>7, <1>1 DEF Bury, proc_tryreap, Buried
  <2>15. state'[p] = "TOREAP" => ~Awaits(state, parent[p], p) /\ state'[parent[p]] = state[parent[p]]
    <3>1. SUFFICES ASSUME state'[p] = "TOREAP"
                   PROVE  ~Awaits(state, parent[p], p) /\ state'[parent[p]] = state[parent[p]]
      OBVIOUS
    <3>2. p # First
      BY <3>1, <2>5, <2>7 DEF Bury, TreeInv, InitOK, proc_alive
    <3>3. state' = proc_tryreap(l, p)
      BY <3>2, <2>5 DEF Bury
    <3>4. Collectable(l, p) /\ ~Collected(l, p)
      BY <3>1, <3>3, <1>1 DEF proc_tryreap, Buried
    <3>5. l[parent[p]] = state[parent[p]] /\ state' = l
      BY <3>3, <3>4, <2>8 DEF proc_tryreap, Collectable
    <3> QED BY <3>4, <3>5 DEF Collected, Awaits
  <2>16. /\ proc_alive(state, p) /\ ~noreap[p] /\ p # First
         /\ proc_alive(state, parent[p]) /\ Awaits(state, parent[p], p)
         => state'[parent[p]] = "RUNNING"
    <3>1. SUFFICES ASSUME ~noreap[p], p # First, proc_alive(state, parent[p]), Awaits(state, parent[p], p)
                   PROVE  state'[parent[p]] = "RUNNING"
      OBVIOUS
    <3>2. l[parent[p]] = state[parent[p]]
      BY <3>1, <1>1, <2>2, <2>3, <2>4
    <3>3. Collected(l, p)
      BY <3>1, <3>2, <2>7 DEF Collected, Collectable, Awaits, proc_alive
    <3> QED BY <3>1, <3>3, <1>1, <2>10
  <2> HIDE DEF d, l, L
  <2> QED BY <2>11, <2>12, <2>13, <2>14, <2>15, <2>16
<1>3. CASE ~proc_alive(state, p)
  <2>1. p # First /\ state[p] \in {"TOREAP", "TOMBSTONE", "DEADLEAF"}
    BY <1>3, <1>1, ProcAssumption DEF proc_alive, Dead, Allocated
  <2>2. Bury(state, proc_tryreap(state, p))
    BY <1>3 DEF Kill
  <2>3. \A q \in Proc : noreap'[q] = (state[q] # "FREED" /\ (noreap[q] \/ (state[q] = "TOREAP" /\ state'[q] # "TOREAP")))
    BY <2>2 DEF Bury
  <2>4. \A q \in Proc \ {p} :
            \/ state'[q] = state[q]
            \/ state[q] = "WAITS4CHILDDEATH" /\ state'[q] = "RUNNING"
    BY <2>2 DEF Bury, proc_tryreap, Collected, Awaits
  <2>5. \A q \in Allocated \ {p} : state[q] # "TOREAP" => noreap'[q] = noreap[q]
    <3>1. ASSUME NEW q \in Allocated \ {p}, state[q] # "TOREAP" PROVE noreap'[q] = noreap[q]
      <4>1. q \in Proc /\ state[q] # "FREED" /\ noreap[q] \in BOOLEAN
        BY <3>1 DEF Allocated, TypeOK
      <4> QED BY <3>1, <4>1, <2>3
    <3> QED BY <3>1
  <2>6. \A q \in Allocated : noreap[q] => noreap'[q]
    BY <2>3 DEF Allocated
  <2>7. state'[p] \in {"TOREAP", "TOMBSTONE", "DEADLEAF"}
    BY <2>1, <2>2, <1>1 DEF Bury, proc_tryreap, Buried
  <2>8. state'[p] = "TOREAP" => ~Awaits(state, parent[p], p) /\ state'[parent[p]] = state[parent[p]]
    <3>1. SUFFICES ASSUME state'[p] = "TOREAP"
                   PROVE  ~Awaits(state, parent[p], p) /\ state'[parent[p]] = state[parent[p]]
      OBVIOUS
    <3>2. Collectable(state, p) /\ ~Collected(state, p)
      BY <3>1, <2>2, <1>1 DEF Bury, proc_tryreap, Buried
    <3> QED BY <3>2, <2>2 DEF Bury, proc_tryreap, Collected
  <2> QED BY <1>3, <2>4, <2>5, <2>6, <2>7, <2>8
<1> QED BY <1>2, <1>3

\* A step keeps WaiterHasChild when every process that waits for any child
\* after it did so before, and keeps the children that can wake it.
LEMMA WaitersKept ==
    ASSUME WaiterHasChild,
           \A p \in Proc : state'[p] = "WAITS4CHILDDEATH" /\ awaited'[p] = 0 =>
                /\ state[p] = "WAITS4CHILDDEATH" /\ awaited[p] = 0
                /\ \A c \in Children(state, p) : ~noreap[c] /\ proc_alive(state, c) =>
                    parent'[c] = p /\ ~noreap'[c] /\ proc_alive(state', c)
    PROVE  WaiterHasChild'
<1>1. ASSUME NEW p \in Proc, state'[p] = "WAITS4CHILDDEATH", awaited'[p] = 0
      PROVE  \E c \in Children(state, p)' : ~noreap'[c] /\ proc_alive(state', c)
  <2>1. PICK c \in Children(state, p) : ~noreap[c] /\ proc_alive(state, c)
    BY <1>1 DEF WaiterHasChild
  <2>2. c \in Proc /\ parent'[c] = p /\ ~noreap'[c] /\ proc_alive(state', c)
    BY <1>1, <2>1 DEF Children
  <2> QED BY <2>2 DEF Children, proc_alive, Dead
<1> QED BY <1>1 DEF WaiterHasChild

\* A step that only moves live processes between live states, and starts no wait
\* for a child, keeps WaiterHasChild, ...
LEMMA QuietWaiters ==
    ASSUME WaiterHasChild, UNCHANGED <<parent, awaited, noreap>>,
           \A p \in Proc : \/ state'[p] = state[p]
                           \/ state[p] \notin Dead /\ state'[p] \notin Dead,
           \A p \in Proc : state'[p] = "WAITS4CHILDDEATH" => state[p] = "WAITS4CHILDDEATH"
    PROVE  WaiterHasChild'
<1>1. \A c \in Proc : proc_alive(state, c) => proc_alive(state', c)
  BY DEF proc_alive
<1> QED BY <1>1, WaitersKept DEF Children

\* ... and so does proc_kill: the parent that waits for any child and loses one is
\* woken by it, ...
LEMMA KillWaiters ==
    ASSUME TypeOK, TreeInv, WaiterHasChild, NEW p \in Allocated,
           p = First => proc_alive(state, p),
           Kill(p), UNCHANGED <<parent, awaited>>
    PROVE  WaiterHasChild'
<1>1. ASSUME NEW q \in Proc, state'[q] = "WAITS4CHILDDEATH", awaited'[q] = 0
      PROVE  state[q] = "WAITS4CHILDDEATH" /\ awaited[q] = 0
  <2>1. q # p
    BY <1>1, KillEffect
  <2> QED BY <1>1, <2>1, KillEffect
<1>2. ASSUME NEW q \in Proc, state'[q] = "WAITS4CHILDDEATH", awaited'[q] = 0,
             NEW c \in Children(state, q), ~noreap[c], proc_alive(state, c)
      PROVE  parent'[c] = q /\ ~noreap'[c] /\ proc_alive(state', c)
  <2>1. c \in Allocated /\ c \in Proc /\ parent[c] = q /\ state[c] # "TOREAP"
    BY <1>2 DEF Children, Allocated, proc_alive, Dead
  <2>2. c # p
    <3>1. SUFFICES ASSUME c = p PROVE FALSE
      OBVIOUS
    <3>2. p # First
      BY <3>1, <2>1, <1>2, ProcAssumption DEF TreeInv, InitOK
    <3>3. Awaits(state, parent[p], p) /\ proc_alive(state, parent[p])
      BY <3>1, <2>1, <1>1, <1>2, ProcAssumption DEF Awaits, proc_alive, Dead
    <3>4. state'[parent[p]] = "RUNNING"
      BY <3>1, <3>2, <3>3, <1>2, KillEffect
    <3> QED BY <3>1, <3>4, <2>1, <1>2
  <2>3. noreap'[c] = noreap[c]
    BY <2>1, <2>2, KillEffect
  <2>4. proc_alive(state', c)
    BY <2>1, <2>2, <1>2, KillEffect DEF proc_alive, Dead
  <2> QED BY <2>1, <2>3, <2>4, <1>2
<1> QED BY <1>1, <1>2, WaitersKept

\* ... proc_fork, ...
LEMMA ForkWaiters ==
    ASSUME TypeOK, TreeInv, WaiterHasChild, NEW c \in Proc, NEW nr \in BOOLEAN, proc_fork(c, nr),
           NEW s \in {"RUNNING", "DEADLEAF"}, state' = [state EXCEPT ![c] = s]
    PROVE  WaiterHasChild'
<1>1. \A q \in Proc \ {c} : state'[q] = state[q] /\ parent'[q] = parent[q]
                            /\ noreap'[q] = noreap[q] /\ awaited'[q] = awaited[q]
  BY DEF proc_fork, TypeOK
<1>2. state'[c] = s /\ state[c] = "FREED"
  BY DEF proc_fork, TypeOK
<1> QED BY <1>1, <1>2, WaitersKept DEF Children, proc_alive

\* ... _sys_wait2: it waits only if some child is not noreap, and with no child in
\* TOREAP such a child is alive, by MsgOK, ...
LEMMA Wait2Waiters == IndInv /\ WaiterHasChild /\ Wait2 => WaiterHasChild'
<1> SUFFICES ASSUME IndInv, WaiterHasChild, Wait2 PROVE WaiterHasChild'
  OBVIOUS
<1> USE DEF IndInv
<1> DEFINE waits == [state EXCEPT ![proc_cur] = "WAITS4CHILDDEATH"]
           mine  == Reapable(proc_cur)
           ready(pid) == {c \in mine : /\ state[c] = "TOREAP"
                                       /\ pid \in {0, proc_ns_id(pns[proc_cur], c)}}
           d(pid) == NewestOf(ready(pid))
<1>1. /\ state[proc_cur] = "RUNNING" /\ proc_cur \in Proc /\ UNCHANGED parent
  BY DEF Wait2, User, LoopOK, TypeOK
<1>2. \A q \in Proc : waits[q] = IF q = proc_cur THEN "WAITS4CHILDDEATH" ELSE state[q]
  BY DEF TypeOK
<1>3. PICK pid :
        \/ /\ ready(pid) # {}
           /\ Bury(waits, [state EXCEPT ![d(pid)] = Buried(waits, d(pid))])
           /\ UNCHANGED awaited
        \/ /\ ready(pid) = {} /\ mine # {}
           /\ Bury(waits, waits)
           /\ awaited' = [awaited EXCEPT ![proc_cur] = pid]
        \/ /\ mine = {}
           /\ Bury(state, state)
           /\ UNCHANGED awaited
  BY DEF Wait2
<1>4. CASE ready(pid) # {} /\ Bury(waits, [state EXCEPT ![d(pid)] = Buried(waits, d(pid))]) /\ UNCHANGED awaited
  <2> DEFINE e == d(pid)
  <2>1. ready(pid) \subseteq Proc
    BY DEF Reapable, Children
  <2>2. \E c \in ready(pid) : \A f \in ready(pid) : globalid[f] <= globalid[c]
    BY <2>1, <1>4, MaxExists DEF TreeInv, IdsOK, TypeOK
  <2>3. e \in ready(pid)
    BY <2>2, <1>4 DEF NewestOf
  <2>4. e \in Proc /\ state[e] = "TOREAP"
    BY <2>3 DEF Reapable, Children
  <2> HIDE DEF e, ready, d
  <2>5. Bury(waits, [state EXCEPT ![e] = Buried(waits, e)])
    BY <1>4 DEF e
  <2>6. state'[e] \in {"TOMBSTONE", "DEADLEAF"} /\ \A q \in Proc \ {e} : state'[q] = state[q]
    BY <2>4, <2>5 DEF Bury, TypeOK, Buried
  <2>7. \A q \in Proc : noreap'[q] = (waits[q] # "FREED" /\ (noreap[q] \/ (waits[q] = "TOREAP" /\ state'[q] # "TOREAP")))
    BY <2>5 DEF Bury
  <2>8. ASSUME NEW c \in Proc, ~noreap[c], proc_alive(state, c)
        PROVE  ~noreap'[c] /\ proc_alive(state', c)
    <3>1. c # e
      BY <2>4, <2>8 DEF proc_alive, Dead
    <3>2. waits[c] # "TOREAP"
      BY <1>2, <2>8 DEF proc_alive, Dead
    <3> QED BY <3>1, <3>2, <2>6, <2>7, <2>8 DEF proc_alive
  <2> QED BY <1>1, <1>4, <2>6, <2>8, WaitersKept DEF Children
<1>5. CASE ready(pid) = {} /\ mine # {} /\ Bury(waits, waits) /\ awaited' = [awaited EXCEPT ![proc_cur] = pid]
  <2>1. state' = waits
    BY <1>5 DEF Bury
  <2>2. \A q \in Proc : noreap'[q] = (waits[q] # "FREED" /\ (noreap[q] \/ (waits[q] = "TOREAP" /\ waits[q] # "TOREAP")))
    BY <1>5 DEF Bury
  <2>3. ASSUME NEW c \in Proc, ~noreap[c], proc_alive(state, c)
        PROVE  ~noreap'[c] /\ proc_alive(state', c)
    <3>1. c # NULL /\ waits[c] \notin Dead /\ proc_alive(state', c)
      BY <2>3, <2>1, <1>2 DEF proc_alive, Dead
    <3>2. ~noreap'[c]
      BY <2>3, <2>2
    <3> QED BY <3>1, <3>2
  <2>4. ASSUME NEW p \in Proc, state'[p] = "WAITS4CHILDDEATH", awaited'[p] = 0
        PROVE  \E c \in Children(state, p)' : ~noreap'[c] /\ proc_alive(state', c)
    <3>1. \E c \in Children(state, p) : ~noreap[c] /\ proc_alive(state, c)
      <4>1. CASE p = proc_cur
        <5>1. pid = 0
          BY <1>1, <1>5, <2>4, <4>1 DEF TypeOK
        <5>2. PICK c \in mine : state[c] # "TOREAP"
          BY <1>5, <5>1
        <5>3. c \in Allocated \ {First} /\ c \in Proc /\ parent[c] = proc_cur /\ ~noreap[c] /\ c \in Children(state, p)
          BY <4>1, <5>2, <1>1, ProcAssumption DEF Reapable, Children, Allocated, TreeInv, InitOK
        <5>4. proc_alive(state, proc_cur)
          BY <1>1, ProcAssumption DEF proc_alive, Dead
        <5>5. state[c] \notin {"TOMBSTONE", "DEADLEAF"}
          BY <5>3, <5>4 DEF TreeInv, MsgOK
        <5>6. proc_alive(state, c)
          BY <5>2, <5>3, <5>5, ProcAssumption DEF proc_alive, Dead, Allocated
        <5> QED BY <5>3, <5>6
      <4>2. CASE p # proc_cur
        BY <1>1, <1>2, <1>5, <2>1, <2>4, <4>2 DEF WaiterHasChild, TypeOK
      <4> QED BY <4>1, <4>2
    <3>2. PICK c \in Children(state, p) : ~noreap[c] /\ proc_alive(state, c)
      BY <3>1
    <3>3. c \in Proc /\ parent'[c] = p /\ ~noreap'[c] /\ proc_alive(state', c)
      BY <1>1, <2>3, <3>2 DEF Children
    <3> QED BY <3>3 DEF Children, proc_alive, Dead
  <2> QED BY <2>4 DEF WaiterHasChild
<1>6. CASE Bury(state, state) /\ UNCHANGED awaited
  <2>1. state' = state
    BY <1>6 DEF Bury
  <2>2. \A q \in Proc : noreap'[q] = (state[q] # "FREED" /\ (noreap[q] \/ (state[q] = "TOREAP" /\ state[q] # "TOREAP")))
    BY <1>6 DEF Bury
  <2>3. \A c \in Proc : ~noreap[c] => ~noreap'[c]
    BY <2>2
  <2> QED BY <1>1, <1>6, <2>1, <2>3, WaitersKept DEF Children
<1> QED BY <1>3, <1>4, <1>5, <1>6

\* What an iteration of proc_prune_leaves that frees p does to the others:
\* only its parent, when it is dead too, and a process that waits for that
\* parent can change.
LEMMA PruneEffect ==
    ASSUME IndInv, NEW p \in dead_leaves,
           LET freed == [state EXCEPT ![p] = "FREED"]
               up    == parent[p]
           IN IF proc_alive(state, up) THEN Bury(freed, freed)
              ELSE Bury(freed, proc_tryreap(freed, up))
    PROVE  /\ p \in Proc /\ state[p] = "DEADLEAF" /\ parent[p] \in Proc \ {p}
           /\ \A q \in Allocated \ {First} : parent[q] # p
           /\ state'[p] = "FREED"
           /\ \A q \in Proc \ {p, parent[p]} :
                \/ state'[q] = state[q]
                \/ state[q] = "WAITS4CHILDDEATH" /\ state'[q] = "RUNNING"
           /\ \/ state'[parent[p]] = state[parent[p]]
              \/ state[parent[p]] \in Dead /\ state'[parent[p]] \in {"TOMBSTONE", "DEADLEAF"}
           /\ \A q \in Proc \ {p} : noreap'[q] =
                (state[q] # "FREED" /\ (noreap[q] \/ (state[q] = "TOREAP" /\ state'[q] # "TOREAP")))
           /\ state'[parent[p]] = "TOREAP" => ~Awaits(state', parent[parent[p]], parent[p])
<1> USE DEF IndInv
<1> DEFINE freed == [state EXCEPT ![p] = "FREED"]
           up    == parent[p]
<1>1. p \in Proc /\ state[p] = "DEADLEAF" /\ p # First /\ p \in Allocated
  BY DEF TreeInv, TreeOK, InitOK, Allocated
<1>2. \A q \in Allocated \ {First} : q \in Proc /\ parent[q] \in Proc /\ parent[q] # q /\ parent[q] # p
  BY <1>1, ProcAssumption DEF TreeInv, TreeOK, Allocated, TypeOK, Children
<1>3. freed[p] = "FREED" /\ \A q \in Proc \ {p} : freed[q] = state[q]
  BY <1>1 DEF TypeOK
<1>4. up \in Proc \ {p} /\ up # NULL
  BY <1>1, <1>2, ProcAssumption
<1> HIDE DEF freed, up
<1>5. IF proc_alive(state, up) THEN Bury(freed, freed) ELSE Bury(freed, proc_tryreap(freed, up))
  BY DEF freed, up
<1>6. CASE proc_alive(state, up)
  <2>1. state' = freed
    BY <1>5, <1>6 DEF Bury
  <2>2. \A q \in Proc \ {p} : noreap'[q] =
                (state[q] # "FREED" /\ (noreap[q] \/ (state[q] = "TOREAP" /\ state'[q] # "TOREAP")))
    <3>1. \A q \in Proc : noreap'[q] =
                (freed[q] # "FREED" /\ (noreap[q] \/ (freed[q] = "TOREAP" /\ state'[q] # "TOREAP")))
      BY <1>5, <1>6, <2>1 DEF Bury
    <3> QED BY <1>3, <3>1
  <2>3. state'[up] = state[up] /\ state'[up] # "TOREAP"
    BY <1>3, <1>4, <1>6, <2>1 DEF proc_alive, Dead
  <2> QED BY <1>1, <1>2, <1>3, <1>4, <2>1, <2>2, <2>3 DEF up
<1>7. CASE ~proc_alive(state, up)
  <2>1. state' = proc_tryreap(freed, up)
    BY <1>5, <1>7 DEF Bury
  <2>2. \A q \in Proc \ {p} : noreap'[q] =
                (state[q] # "FREED" /\ (noreap[q] \/ (state[q] = "TOREAP" /\ state'[q] # "TOREAP")))
    <3>1. \A q \in Proc : noreap'[q] =
                (freed[q] # "FREED" /\ (noreap[q] \/ (freed[q] = "TOREAP" /\ state'[q] # "TOREAP")))
      BY <1>5, <1>7, <2>1 DEF Bury
    <3> QED BY <1>3, <3>1
  <2>3. state[up] \in Dead
    BY <1>4, <1>7 DEF proc_alive
  <2>4. CASE Collectable(freed, up) /\ ~Collected(freed, up)
    <3>1. state' = freed
      BY <2>1, <2>4 DEF proc_tryreap
    <3>2. ~Awaits(state', parent[up], up)
      BY <3>1, <2>4 DEF Collected
    <3>3. state'[up] = state[up]
      BY <3>1, <1>3, <1>4
    <3> QED BY <1>1, <1>2, <1>3, <1>4, <2>2, <3>1, <3>2, <3>3 DEF up
  <2>5. CASE ~(Collectable(freed, up) /\ ~Collected(freed, up))
    <3>1. \A q \in Proc : state'[q] = IF q = up THEN Buried(freed, up)
                                      ELSE IF q = parent[up] /\ Collected(freed, up) THEN "RUNNING"
                                      ELSE freed[q]
      BY <2>1, <2>5 DEF proc_tryreap
    <3>2. state'[up] \in {"TOMBSTONE", "DEADLEAF"}
      BY <3>1, <1>4 DEF Buried
    <3>3. Collected(freed, up) => freed[parent[up]] = "WAITS4CHILDDEATH"
      BY DEF Collected, Awaits
    <3>4. state'[p] = "FREED"
      BY <3>1, <3>3, <1>1, <1>3, <1>4
    <3>5. \A q \in Proc \ {p, up} : \/ state'[q] = state[q]
                                    \/ state[q] = "WAITS4CHILDDEATH" /\ state'[q] = "RUNNING"
      BY <3>1, <3>3, <1>3
    <3> QED BY <1>1, <1>2, <1>4, <2>2, <2>3, <3>2, <3>4, <3>5 DEF up
  <2> QED BY <2>4, <2>5
<1> QED BY <1>6, <1>7

\* ... and proc_prune_leaves, which frees no live child.
LEMMA PruneWaiters == IndInv /\ WaiterHasChild /\ PruneStep => WaiterHasChild'
<1> SUFFICES ASSUME IndInv, WaiterHasChild, PruneStep PROVE WaiterHasChild'
  OBVIOUS
<1>1. PICK p \in dead_leaves :
        /\ LET freed == [state EXCEPT ![p] = "FREED"]
               up    == parent[p]
           IN IF proc_alive(state, up) THEN Bury(freed, freed)
              ELSE Bury(freed, proc_tryreap(freed, up))
        /\ parent' = [parent EXCEPT ![p] = NULL]
        /\ awaited' = [awaited EXCEPT ![p] = 0]
  BY DEF PruneStep
<1>2. \A q \in Proc \ {p} : parent'[q] = parent[q] /\ awaited'[q] = awaited[q]
  BY <1>1 DEF IndInv, TypeOK
<1>3. ASSUME NEW q \in Proc, state'[q] = "WAITS4CHILDDEATH", awaited'[q] = 0
      PROVE  state[q] = "WAITS4CHILDDEATH" /\ awaited[q] = 0
  <2>1. q # p
    BY <1>1, <1>3, PruneEffect
  <2>2. CASE q = parent[p]
    BY <1>1, <1>2, <1>3, <2>1, <2>2, PruneEffect
  <2>3. CASE q # parent[p]
    BY <1>1, <1>2, <1>3, <2>1, <2>3, PruneEffect
  <2> QED BY <2>2, <2>3
<1>4. ASSUME NEW q \in Proc, NEW c \in Children(state, q), ~noreap[c], proc_alive(state, c)
      PROVE  parent'[c] = q /\ ~noreap'[c] /\ proc_alive(state', c)
  <2>1. c \in Proc /\ parent[c] = q /\ state[c] \notin Dead /\ c # NULL
    BY <1>4 DEF Children, proc_alive
  <2>2. c # p
    BY <2>1, <1>1, PruneEffect DEF Dead
  <2>3. state'[c] \notin Dead
    <3>1. CASE c = parent[p]
      BY <2>1, <2>2, <3>1, <1>1, PruneEffect DEF Dead
    <3>2. CASE c # parent[p]
      BY <2>1, <2>2, <3>2, <1>1, PruneEffect DEF Dead
    <3> QED BY <3>1, <3>2
  <2>4. noreap'[c] = (state[c] # "FREED" /\ (noreap[c] \/ (state[c] = "TOREAP" /\ state'[c] # "TOREAP")))
    BY <2>1, <2>2, <1>1, PruneEffect
  <2>5. ~noreap'[c]
    BY <2>1, <2>4, <1>4 DEF Dead
  <2> QED BY <1>2, <2>1, <2>2, <2>3, <2>5 DEF proc_alive
<1> QED BY <1>3, <1>4, WaitersKept

\* Every step keeps WaiterHasChild.
LEMMA NextWaiters == IndInv /\ WaiterHasChild /\ [Next]_vars => WaiterHasChild'
<1> SUFFICES ASSUME IndInv, WaiterHasChild, [Next]_vars PROVE WaiterHasChild'
  OBVIOUS
<1> USE DEF IndInv
<1>1. CASE Fork
  BY <1>1, ForkWaiters DEF Fork
<1>2. CASE ForkFail
  BY <1>2, ForkWaiters DEF ForkFail
<1>3. CASE Exit
  <2>1. proc_cur \in Allocated /\ proc_alive(state, proc_cur)
    BY <1>3, ProcAssumption DEF Exit, User, LoopOK, Allocated, TypeOK, proc_alive, Dead
  <2> QED BY <1>3, <2>1, KillWaiters DEF Exit
<1>4. CASE Wait2
  BY <1>4, Wait2Waiters
<1>5. CASE Intr
  BY <1>5, QuietWaiters DEF Intr, tree
<1>6. CASE IntrSet
  BY <1>6, QuietWaiters DEF IntrSet, tree
<1>7. CASE Block
  <2>1. PICK s \in WaitStates : state' = [state EXCEPT ![proc_cur] = s]
    BY <1>7 DEF Block
  <2>2. state[proc_cur] = "RUNNING" /\ s \notin Dead /\ s # "WAITS4CHILDDEATH"
    BY <1>7, ProcAssumption DEF Block, LoopOK, AllWaitStates, Dead
  <2>3. \A p \in Proc : \/ state'[p] = state[p]
                        \/ /\ state[p] \notin Dead /\ state'[p] \notin Dead
                           /\ state'[p] # "WAITS4CHILDDEATH"
    BY <2>1, <2>2 DEF TypeOK, Dead
  <2> QED BY <1>7, <2>3, QuietWaiters DEF Block
<1>8. CASE WakeOther
  <2>1. PICK p \in Proc : state[p] \in AllWaitStates /\ state' = [state EXCEPT ![p] = "RUNNING"]
    BY <1>8 DEF WakeOther
  <2>2. \A q \in Proc : state'[q] = IF q = p THEN "RUNNING" ELSE state[q]
    BY <2>1 DEF TypeOK
  <2> QED BY <1>8, <2>1, <2>2, WakeStates, QuietWaiters DEF WakeOther
<1>9. CASE GetProcfs
  BY <1>9, QuietWaiters DEF GetProcfs, tree
<1>10. CASE IntrStep
  <2>1. it \in Allocated \ {First} /\ it \in Proc /\ UNCHANGED <<parent, awaited>>
    BY <1>10 DEF IntrStep, LoopOK, Allocated
  <2>2. CASE mode = "kill"
    <3>1. Kill(it)
      BY <1>10, <2>2 DEF IntrStep
    <3> QED BY <2>1, <3>1, KillWaiters
  <2>3. CASE mode = "intr"
    <3>1. /\ state' = IF intr_fn[it] /\ state[it] = "WAITS4TIMER"
                      THEN [state EXCEPT ![it] = "RUNNING"] ELSE state
          /\ UNCHANGED noreap
      BY <1>10, <2>3 DEF IntrStep
    <3>2. \A q \in Proc : \/ state'[q] = state[q]
                          \/ /\ state[q] \notin Dead /\ state'[q] \notin Dead
                             /\ state'[q] # "WAITS4CHILDDEATH"
      BY <2>1, <3>1 DEF TypeOK, Dead
    <3> QED BY <2>1, <3>1, <3>2, QuietWaiters
  <2> QED BY <1>10, <2>2, <2>3 DEF IntrStep
<1>11. CASE NsCreateStep
  BY <1>11, QuietWaiters DEF NsCreateStep, tree
<1>12. CASE PruneStep
  BY <1>12, PruneWaiters
<1>13. CASE PruneEnd
  BY <1>13, QuietWaiters DEF PruneEnd, tree
<1>14. CASE ScanStep
  BY <1>14, QuietWaiters DEF ScanStep, tree
<1>15. CASE Idle
  <2>1. \A q \in Proc : \/ state'[q] = state[q]
                        \/ /\ state[q] \notin Dead /\ state'[q] \notin Dead
                           /\ state'[q] # "WAITS4CHILDDEATH"
    BY <1>15 DEF Idle, TypeOK, Dead, AllWaitStates
  <2> QED BY <1>15, <2>1, QuietWaiters DEF Idle
<1>16. CASE UNCHANGED vars
  BY <1>16, QuietWaiters DEF vars
<1> QED BY <1>1, <1>2, <1>3, <1>4, <1>5, <1>6, <1>7, <1>8, <1>9, <1>10, <1>11, <1>12, <1>13,
           <1>14, <1>15, <1>16 DEF Next, Syscall, Kernel

\* A process that waits in _sys_wait2 for any child always has a live child whose
\* death will be reported to it, so it never waits for nothing.
THEOREM WaiterHasChildAlways == Spec => []WaiterHasChild
<1>1. Init => WaiterHasChild
  BY DEF Init, WaiterHasChild
<1> QED BY <1>1, Inductive, NextWaiters, PTL DEF Spec

-----------------------------------------------------------------------------
\* A step keeps NoLostDeath when a child that could be collected after it and
\* is waited for was so before.
LEMMA MessagesKept ==
    ASSUME NoLostDeath,
           \A c \in Allocated' :
             state'[c] = "TOREAP" /\ ~noreap'[c] /\ Awaits(state, parent[c], c)' =>
                /\ c \in Allocated /\ state[c] = "TOREAP" /\ ~noreap[c]
                /\ parent[c] # NULL /\ Awaits(state, parent[c], c)
    PROVE  NoLostDeath'
<1>1. ASSUME NEW c \in Allocated', Collectable(state, c)', Awaits(state, parent[c], c)'
      PROVE  FALSE
  <2>1. /\ c \in Allocated /\ state[c] = "TOREAP" /\ ~noreap[c]
        /\ parent[c] # NULL /\ Awaits(state, parent[c], c)
    BY <1>1 DEF Collectable
  <2>2. Collectable(state, c)
    BY <2>1 DEF Collectable, proc_alive, Awaits, Dead
  <2> QED BY <2>1, <2>2 DEF NoLostDeath
<1> QED BY <1>1 DEF NoLostDeath

\* A step that only moves live processes between live states, and starts no wait
\* for a child, keeps NoLostDeath, ...
LEMMA QuietMessages ==
    ASSUME IndInv, NoLostDeath, UNCHANGED <<parent, noreap, awaited, pns, localid>>,
           \A p \in Proc : \/ state'[p] = state[p]
                           \/ /\ state[p] \notin Dead /\ state'[p] \notin Dead
                              /\ state'[p] # "WAITS4CHILDDEATH"
    PROVE  NoLostDeath'
<1>1. ASSUME NEW c \in Allocated', state'[c] = "TOREAP", ~noreap'[c], Awaits(state, parent[c], c)'
      PROVE  /\ c \in Allocated /\ state[c] = "TOREAP" /\ ~noreap[c]
             /\ parent[c] # NULL /\ Awaits(state, parent[c], c)
  <2>1. c \in Proc /\ state[c] = "TOREAP" /\ c \in Allocated
    BY <1>1 DEF Allocated, Dead
  <2>2. c # First
    BY <2>1 DEF IndInv, TreeInv, InitOK
  <2>3. parent[c] \in Proc /\ parent[c] # NULL
    BY <2>1, <2>2, ProcAssumption DEF IndInv, TreeInv, TreeOK, Allocated
  <2>4. Awaits(state, parent[c], c)
    BY <1>1, <2>3 DEF Awaits, proc_ns_id
  <2> QED BY <1>1, <2>1, <2>3, <2>4
<1> QED BY <1>1, MessagesKept

\* ... and so does proc_kill: a process stays TOREAP only if its parent does not
\* wait for it now, ...
LEMMA KillMessages ==
    ASSUME IndInv, NoLostDeath, NEW p \in Allocated,
           p = First => proc_alive(state, p),
           Kill(p), UNCHANGED <<parent, awaited, pns, localid>>
    PROVE  NoLostDeath'
<1> USE DEF IndInv
<1>1. ASSUME NEW c \in Allocated', state'[c] = "TOREAP", ~noreap'[c], Awaits(state, parent[c], c)'
      PROVE  /\ c \in Allocated /\ state[c] = "TOREAP" /\ ~noreap[c]
             /\ parent[c] # NULL /\ Awaits(state, parent[c], c)
  <2>1. c \in Proc /\ p \in Proc
    BY <1>1 DEF Allocated
  <2>2. Awaits(state', parent[c], c) /\ state'[parent[c]] = "WAITS4CHILDDEATH"
    BY <1>1 DEF Awaits, proc_ns_id
  <2>3. c # p
    <3>1. SUFFICES ASSUME c = p PROVE FALSE
      OBVIOUS
    <3>2. ~Awaits(state, parent[p], p) /\ state'[parent[p]] = state[parent[p]]
      BY <3>1, <1>1, KillEffect
    <3> QED BY <3>1, <3>2, <2>2 DEF Awaits
  <2>4. state[c] = "TOREAP" /\ c \in Allocated
    BY <1>1, <2>1, <2>3, KillEffect DEF Allocated
  <2>5. c # First
    BY <2>4 DEF TreeInv, InitOK
  <2>6. parent[c] \in Proc /\ parent[c] # NULL
    BY <2>4, <2>5, ProcAssumption DEF TreeInv, TreeOK, Allocated
  <2>7. parent[c] # p
    BY <2>2, KillEffect
  <2>8. state[parent[c]] = "WAITS4CHILDDEATH"
    BY <2>2, <2>6, <2>7, KillEffect
  <2>9. ~noreap[c]
    BY <1>1, <2>4, KillEffect
  <2> QED BY <2>2, <2>4, <2>6, <2>8, <2>9 DEF Awaits
<1> QED BY <1>1, MessagesKept

\* ... proc_fork, ...
LEMMA ForkMessages ==
    ASSUME IndInv, NoLostDeath, NEW c \in Proc, NEW nr \in BOOLEAN, proc_fork(c, nr),
           NEW s \in {"RUNNING", "DEADLEAF"}, state' = [state EXCEPT ![c] = s]
    PROVE  NoLostDeath'
<1> USE DEF IndInv
<1>1. \A q \in Proc \ {c} : /\ state'[q] = state[q] /\ parent'[q] = parent[q]
                            /\ noreap'[q] = noreap[q] /\ awaited'[q] = awaited[q]
                            /\ pns'[q] = pns[q] /\ localid'[q] = localid[q]
  BY DEF proc_fork, TypeOK
<1>2. state'[c] = s /\ state[c] = "FREED"
  BY DEF proc_fork, TypeOK
<1>3. ASSUME NEW q \in Allocated', state'[q] = "TOREAP", ~noreap'[q], Awaits(state, parent[q], q)'
      PROVE  /\ q \in Allocated /\ state[q] = "TOREAP" /\ ~noreap[q]
             /\ parent[q] # NULL /\ Awaits(state, parent[q], q)
  <2>1. q \in Proc \ {c} /\ q \in Allocated /\ state[q] = "TOREAP" /\ parent'[q] = parent[q] /\ ~noreap[q]
    BY <1>1, <1>2, <1>3 DEF Allocated
  <2>2. q # First
    BY <2>1 DEF TreeInv, InitOK
  <2>3. parent[q] \in Proc /\ parent[q] # NULL /\ parent[q] \in Allocated
    BY <2>1, <2>2, ProcAssumption DEF TreeInv, TreeOK, Allocated
  <2>4. parent[q] # c
    BY <2>3, <1>2 DEF Allocated
  <2>5. Awaits(state, parent[q], q)
    BY <1>1, <1>3, <2>1, <2>3, <2>4 DEF Awaits, proc_ns_id
  <2> QED BY <2>1, <2>3, <2>5
<1> QED BY <1>3, MessagesKept

\* ... proc_prune_leaves, ...
LEMMA PruneMessages == IndInv /\ NoLostDeath /\ PruneStep => NoLostDeath'
<1> SUFFICES ASSUME IndInv, NoLostDeath, PruneStep PROVE NoLostDeath'
  OBVIOUS
<1> USE DEF IndInv
<1>1. PICK p \in dead_leaves :
        /\ LET freed == [state EXCEPT ![p] = "FREED"]
               up    == parent[p]
           IN IF proc_alive(state, up) THEN Bury(freed, freed)
              ELSE Bury(freed, proc_tryreap(freed, up))
        /\ parent' = [parent EXCEPT ![p] = NULL]
        /\ awaited' = [awaited EXCEPT ![p] = 0]
        /\ pns' = [pns EXCEPT ![p] = p]
        /\ localid' = [localid EXCEPT ![p] = 0]
  BY DEF PruneStep
<1>2. \A q \in Proc \ {p} : /\ parent'[q] = parent[q] /\ awaited'[q] = awaited[q]
                            /\ pns'[q] = pns[q] /\ localid'[q] = localid[q]
  BY <1>1 DEF TypeOK
<1>3. ASSUME NEW c \in Allocated', state'[c] = "TOREAP", ~noreap'[c], Awaits(state, parent[c], c)'
      PROVE  /\ c \in Allocated /\ state[c] = "TOREAP" /\ ~noreap[c]
             /\ parent[c] # NULL /\ Awaits(state, parent[c], c)
  <2>1. c \in Proc /\ c # p
    BY <1>1, <1>3, PruneEffect DEF Allocated
  <2>2. state[c] = "TOREAP" /\ c \in Allocated
    <3>1. CASE c = parent[p]
      BY <3>1, <1>1, <1>3, <2>1, PruneEffect DEF Allocated
    <3>2. CASE c # parent[p]
      BY <3>2, <1>1, <1>3, <2>1, PruneEffect DEF Allocated
    <3> QED BY <3>1, <3>2
  <2>3. c # First
    BY <2>2 DEF TreeInv, InitOK
  <2>4. parent[c] \in Proc /\ parent[c] # NULL /\ parent[c] # p
    BY <2>2, <2>3, <1>1, PruneEffect, ProcAssumption DEF TreeInv, TreeOK, Allocated
  <2>5. Awaits(state', parent[c], c) /\ state'[parent[c]] = "WAITS4CHILDDEATH"
    BY <1>2, <1>3, <2>1, <2>4 DEF Awaits, proc_ns_id
  <2>6. state[parent[c]] = "WAITS4CHILDDEATH"
    <3>1. CASE parent[c] = parent[p]
      BY <3>1, <1>1, <2>5, PruneEffect
    <3>2. CASE parent[c] # parent[p]
      BY <3>2, <1>1, <2>4, <2>5, PruneEffect
    <3> QED BY <3>1, <3>2
  <2>7. noreap'[c] = (state[c] # "FREED" /\ (noreap[c] \/ (state[c] = "TOREAP" /\ state'[c] # "TOREAP")))
    BY <2>1, <1>1, PruneEffect
  <2>8. ~noreap[c]
    BY <2>2, <2>7, <1>3
  <2> QED BY <2>2, <2>4, <2>5, <2>6, <2>8 DEF Awaits
<1> QED BY <1>3, MessagesKept

\* ... and _sys_wait2, which waits only after it has looked at every child.
LEMMA Wait2Messages == IndInv /\ NoLostDeath /\ Wait2 => NoLostDeath'
<1> SUFFICES ASSUME IndInv, NoLostDeath, Wait2 PROVE NoLostDeath'
  OBVIOUS
<1> USE DEF IndInv
<1> DEFINE waits == [state EXCEPT ![proc_cur] = "WAITS4CHILDDEATH"]
           mine  == Reapable(proc_cur)
           ready(pid) == {c \in mine : /\ state[c] = "TOREAP"
                                       /\ pid \in {0, proc_ns_id(pns[proc_cur], c)}}
           d(pid) == NewestOf(ready(pid))
<1>1. /\ state[proc_cur] = "RUNNING" /\ proc_cur \in Proc /\ UNCHANGED <<parent, pns, localid>>
  BY DEF Wait2, User, LoopOK, TypeOK, ns
<1>2. \A q \in Proc : waits[q] = IF q = proc_cur THEN "WAITS4CHILDDEATH" ELSE state[q]
  BY DEF TypeOK
<1>3. PICK pid :
        \/ /\ ready(pid) # {}
           /\ Bury(waits, [state EXCEPT ![d(pid)] = Buried(waits, d(pid))])
           /\ UNCHANGED awaited
        \/ /\ ready(pid) = {}
           /\ Bury(waits, waits)
           /\ awaited' = [awaited EXCEPT ![proc_cur] = pid]
        \/ /\ mine = {}
           /\ Bury(state, state)
           /\ UNCHANGED awaited
  BY DEF Wait2
<1>4. ASSUME NEW c \in Proc, state[c] = "TOREAP", ~noreap'[c],
             NEW mid, mid[c] # "FREED", NEW st, Bury(mid, st)
      PROVE  ~noreap[c]
  BY <1>4 DEF Bury
<1>5. ASSUME NEW c \in Proc, state[c] = "TOREAP"
      PROVE  c \in Allocated /\ c # First /\ parent[c] \in Proc /\ parent[c] # NULL
             /\ waits[c] # "FREED" /\ state[c] # "FREED"
  BY <1>1, <1>2, <1>5, ProcAssumption DEF TreeInv, TreeOK, InitOK, Allocated
<1>6. CASE ready(pid) # {} /\ Bury(waits, [state EXCEPT ![d(pid)] = Buried(waits, d(pid))]) /\ UNCHANGED awaited
  <2>1. \A q \in Proc : state'[q] = state[q] \/ state'[q] \in {"TOMBSTONE", "DEADLEAF"}
    BY <1>6 DEF Bury, Buried, TypeOK
  <2>2. ASSUME NEW c \in Allocated', state'[c] = "TOREAP", ~noreap'[c], Awaits(state, parent[c], c)'
        PROVE  /\ c \in Allocated /\ state[c] = "TOREAP" /\ ~noreap[c]
               /\ parent[c] # NULL /\ Awaits(state, parent[c], c)
    <3>1. c \in Proc /\ state[c] = "TOREAP"
      BY <2>1, <2>2 DEF Allocated
    <3>2. ~noreap[c]
      <4> HIDE DEF waits, d, ready
      <4> QED BY <1>4, <1>5, <1>6, <2>2, <3>1
    <3>3. Awaits(state, parent[c], c)
      BY <1>1, <1>5, <1>6, <2>1, <2>2, <3>1 DEF Awaits, proc_ns_id
    <3> QED BY <1>5, <3>1, <3>2, <3>3
  <2> QED BY <2>2, MessagesKept
<1>7. CASE ready(pid) = {} /\ Bury(waits, waits) /\ awaited' = [awaited EXCEPT ![proc_cur] = pid]
  <2>1. \A q \in Proc : state'[q] = IF q = proc_cur THEN "WAITS4CHILDDEATH" ELSE state[q]
    BY <1>2, <1>7 DEF Bury
  <2>2. ASSUME NEW c \in Allocated', state'[c] = "TOREAP", ~noreap'[c], Awaits(state, parent[c], c)'
        PROVE  /\ c \in Allocated /\ state[c] = "TOREAP" /\ ~noreap[c]
               /\ parent[c] # NULL /\ Awaits(state, parent[c], c)
    <3>1. c \in Proc /\ state[c] = "TOREAP"
      BY <2>1, <2>2 DEF Allocated
    <3>2. ~noreap[c]
      <4> HIDE DEF waits, ready
      <4> QED BY <1>4, <1>5, <1>7, <2>2, <3>1
    <3>3. parent[c] # proc_cur
      <4>1. SUFFICES ASSUME parent[c] = proc_cur PROVE FALSE
        OBVIOUS
      <4>2. c \in mine
        BY <3>1, <3>2, <4>1 DEF Reapable, Children
      <4>3. pid \in {0, proc_ns_id(pns[proc_cur], c)}
        BY <1>1, <1>7, <2>2, <4>1 DEF Awaits, proc_ns_id, TypeOK
      <4>4. c \in ready(pid)
        BY <3>1, <4>2, <4>3
      <4> QED BY <4>4, <1>7
    <3>4. Awaits(state, parent[c], c)
      BY <1>1, <1>5, <1>7, <2>1, <2>2, <3>1, <3>3 DEF Awaits, proc_ns_id, TypeOK
    <3> QED BY <1>5, <3>1, <3>2, <3>4
  <2> QED BY <2>2, MessagesKept
<1>8. CASE Bury(state, state) /\ UNCHANGED awaited
  <2>1. state' = state
    BY <1>8 DEF Bury
  <2>2. ASSUME NEW c \in Allocated', state'[c] = "TOREAP", ~noreap'[c], Awaits(state, parent[c], c)'
        PROVE  /\ c \in Allocated /\ state[c] = "TOREAP" /\ ~noreap[c]
               /\ parent[c] # NULL /\ Awaits(state, parent[c], c)
    <3>1. c \in Proc /\ state[c] = "TOREAP"
      BY <2>1, <2>2 DEF Allocated
    <3>2. ~noreap[c]
      BY <1>4, <1>5, <1>8, <2>2, <3>1
    <3>3. Awaits(state, parent[c], c)
      BY <1>1, <1>8, <2>1, <2>2 DEF Awaits, proc_ns_id
    <3> QED BY <1>5, <3>1, <3>2, <3>3
  <2> QED BY <2>2, MessagesKept
<1> QED BY <1>3, <1>6, <1>7, <1>8

\* Without _sys_getprocfs nothing is ever renumbered.
MessageInv == mode # "nscreate" /\ NoLostDeath

\* Every step keeps NoLostDeath that does not renumber processes.
LEMMA NextMessages ==
    ASSUME IndInv, NoLostDeath, [Next]_vars, ~GetProcfs, ~NsCreateStep
    PROVE  NoLostDeath'
<1> USE DEF IndInv
<1>1. CASE Fork
  BY <1>1, ForkMessages DEF Fork, Return
<1>2. CASE ForkFail
  BY <1>2, ForkMessages DEF ForkFail, Return
<1>3. CASE Exit
  <2>1. proc_cur \in Allocated /\ proc_alive(state, proc_cur)
    BY <1>3, ProcAssumption DEF Exit, User, LoopOK, Allocated, TypeOK, proc_alive, Dead
  <2>2. Kill(proc_cur) /\ UNCHANGED <<parent, awaited, pns, localid>>
    BY <1>3 DEF Exit, ns
  <2> QED BY <2>1, <2>2, KillMessages
<1>4. CASE Wait2
  BY <1>4, Wait2Messages DEF Wait2, Return
<1>5. CASE Intr
  BY <1>5, QuietMessages DEF Intr, tree, ns
<1>6. CASE IntrSet
  BY <1>6, QuietMessages DEF IntrSet, tree, ns, Return
<1>7. CASE Block
  <2>1. PICK s \in WaitStates : state' = [state EXCEPT ![proc_cur] = s]
    BY <1>7 DEF Block
  <2>2. state[proc_cur] = "RUNNING" /\ s \notin Dead /\ s # "WAITS4CHILDDEATH"
    BY <1>7, ProcAssumption DEF Block, LoopOK, AllWaitStates, Dead
  <2>3. \A p \in Proc : \/ state'[p] = state[p]
                        \/ /\ state[p] \notin Dead /\ state'[p] \notin Dead
                           /\ state'[p] # "WAITS4CHILDDEATH"
    BY <2>1, <2>2 DEF TypeOK, Dead
  <2> QED BY <1>7, <2>3, QuietMessages DEF Block, ns, Return
<1>8. CASE WakeOther
  <2>1. \A q \in Proc : \/ state'[q] = state[q]
                        \/ /\ state[q] \notin Dead /\ state'[q] \notin Dead
                           /\ state'[q] # "WAITS4CHILDDEATH"
    BY <1>8 DEF WakeOther, TypeOK, Dead, AllWaitStates
  <2> QED BY <1>8, <2>1, QuietMessages DEF WakeOther, ns, Return
<1>10. CASE IntrStep
  <2>1. it \in Allocated \ {First} /\ it \in Proc /\ UNCHANGED <<parent, awaited, pns, localid>>
    BY <1>10 DEF IntrStep, LoopOK, Allocated, ns
  <2>2. CASE mode = "kill"
    <3>1. Kill(it)
      BY <1>10, <2>2 DEF IntrStep
    <3> QED BY <2>1, <3>1, KillMessages
  <2>3. CASE mode = "intr"
    <3>1. /\ state' = IF intr_fn[it] /\ state[it] = "WAITS4TIMER"
                      THEN [state EXCEPT ![it] = "RUNNING"] ELSE state
          /\ UNCHANGED noreap
      BY <1>10, <2>3 DEF IntrStep
    <3>2. \A q \in Proc : \/ state'[q] = state[q]
                          \/ /\ state[q] \notin Dead /\ state'[q] \notin Dead
                             /\ state'[q] # "WAITS4CHILDDEATH"
      BY <2>1, <3>1 DEF TypeOK, Dead
    <3> QED BY <2>1, <3>1, <3>2, QuietMessages
  <2> QED BY <1>10, <2>2, <2>3 DEF IntrStep
<1>12. CASE PruneStep
  BY <1>12, PruneMessages DEF PruneStep
<1>13. CASE PruneEnd
  BY <1>13, QuietMessages DEF PruneEnd, tree, ns
<1>14. CASE ScanStep
  BY <1>14, QuietMessages DEF ScanStep, tree, ns
<1>15. CASE Idle
  <2>1. \A q \in Proc : \/ state'[q] = state[q]
                        \/ /\ state[q] \notin Dead /\ state'[q] \notin Dead
                           /\ state'[q] # "WAITS4CHILDDEATH"
    BY <1>15 DEF Idle, TypeOK, Dead, AllWaitStates
  <2> QED BY <1>15, <2>1, QuietMessages DEF Idle, ns
<1>16. CASE UNCHANGED vars
  BY <1>16, QuietMessages DEF vars
<1> QED BY <1>1, <1>2, <1>3, <1>4, <1>5, <1>6, <1>7, <1>8, <1>10, <1>12, <1>13,
           <1>14, <1>15, <1>16 DEF Next, Syscall, Kernel

\* Without _sys_getprocfs, nothing does.
LEMMA NothingRenumbers ==
    ASSUME "getprocfs" \notin Calls, mode # "nscreate", [Next]_vars
    PROVE  mode' # "nscreate" /\ ~GetProcfs /\ ~NsCreateStep
<1>1. ~GetProcfs /\ ~NsCreateStep
  BY DEF GetProcfs, User, NsCreateStep
<1>2. CASE Syscall
  BY <1>1, <1>2 DEF Syscall, Fork, ForkFail, Exit, Wait2, Intr, IntrSet, Block, WakeOther, Return
<1>3. CASE Kernel
  BY <1>1, <1>3 DEF Kernel, IntrStep, PruneStep, PruneEnd, ScanStep
<1>4. CASE Idle \/ UNCHANGED vars
  <2>1. mode' # "nscreate"
    BY <1>4 DEF Idle, vars
  <2> QED BY <1>1, <2>1
<1> QED BY <1>1, <1>2, <1>3, <1>4 DEF Next

\* No death is missed: while the processes do not call _sys_getprocfs, a process
\* never sleeps in _sys_wait2 next to a child in TOREAP that it asked for, with or
\* without a pid.
THEOREM NoDeathIsLost ==
    ASSUME "getprocfs" \notin Calls
    PROVE  Spec => []NoLostDeath
<1>1. Init => MessageInv
  BY DEF Init, MessageInv, NoLostDeath, Collectable, Allocated
<1>2. IndInv /\ MessageInv /\ [Next]_vars => MessageInv'
  BY NextMessages, NothingRenumbers DEF MessageInv
<1>3. MessageInv => NoLostDeath
  BY DEF MessageInv
<1> QED BY <1>1, <1>2, <1>3, Inductive, PTL DEF Spec
=============================================================================
