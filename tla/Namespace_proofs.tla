-------------------------- MODULE Namespace_proofs --------------------------
(***************************************************************************)
(* Proofs about the walks of the kernel over the process tree, and about   *)
(* the namespaces that it divides the tree into.                           *)
(* DeathsAlwaysExact: the climbs of proc_next and proc_tryreap, and the    *)
(* loops that they are part of, tell the right process of a death.         *)
(* NamespacesAlwaysSound: the namespaces are subtrees, number their        *)
(* members uniquely and make no process miss a death it waits for.         *)
(* KernelAlwaysSound: no assertion fails, and the CPU is halted only when  *)
(* nobody can run.                                                         *)
(***************************************************************************)
EXTENDS Process_proofs

-----------------------------------------------------------------------------
(* Loops that follow a pointer until they may stop: from x in S they go to *)
(* nx[x], unless x is in T, and a measure decreases on the way.            *)

\* A set of natural numbers that is not empty has a smallest element.
LEMMA SmallestExists ==
    ASSUME NEW S \in SUBSET Nat, S # {}
    PROVE  \E x \in S : \A y \in S : x <= y
<1> DEFINE R == OpToRel(<, Nat)
<1>1. IsWellFoundedOn(R, Nat)
  BY NatLessThanWellFounded
<1>2. PICK x \in S : \A y \in S : <<y, x>> \notin R
  <2> HIDE DEF R
  <2> QED BY <1>1, WFMin
<1>3. \A y \in S : ~(y < x)
  BY <1>2 DEF OpToRel
<1> QED BY <1>3

Descends(S, T, nx, m, b) ==
    /\ b \in Nat /\ \A x \in S : m[x] \in Nat /\ m[x] < b
    /\ \A x \in S \ T : nx[x] \in S /\ m[nx[x]] < m[x]

\* f says where the loop ends.
Loop(S, T, nx, f) == f = [x \in S |-> IF x \in T THEN x ELSE f[nx[x]]]

\* The recursive function that says where the loop ends exists.
LEMMA LoopExists ==
    ASSUME NEW S, NEW T, NEW nx, NEW m, NEW b, Descends(S, T, nx, m, b)
    PROVE  \E f : Loop(S, T, nx, f)
<1>0. /\ b \in Nat /\ \A x \in S : m[x] \in Nat /\ m[x] < b
      /\ \A x \in S \ T : nx[x] \in S /\ m[nx[x]] < m[x]
  BY DEF Descends
<1> DEFINE Below(n)   == {x \in S : m[x] < n}
           Part(n, f) == f = [x \in Below(n) |-> IF x \in T THEN x ELSE f[nx[x]]]
           Bad        == {n \in Nat : ~ \E f : Part(n, f)}
<1>1. Bad = {}
  <2> SUFFICES ASSUME Bad # {} PROVE FALSE
    OBVIOUS
  <2>1. PICK k \in Bad : \A j \in Bad : k <= j
    <3>1. Bad \in SUBSET Nat
      OBVIOUS
    <3> HIDE DEF Bad
    <3> QED BY <3>1, SmallestExists
  <2>2. k \in Nat /\ ~ \E f : Part(k, f)
    BY <2>1
  <2>3. k # 0
    <3>1. ASSUME k = 0 PROVE FALSE
      <4>1. Below(0) = {}
        BY <1>0
      <4> DEFINE z == [x \in {} |-> x]
      <4>2. z = [x \in Below(0) |-> IF x \in T THEN x ELSE z[nx[x]]]
        BY <4>1
      <4> QED BY <2>2, <3>1, <4>2
    <3> QED BY <3>1
  <2>4. k - 1 \in Nat /\ k - 1 \notin Bad
    <3>1. k - 1 \in Nat /\ ~(k <= k - 1)
      BY <2>2, <2>3
    <3> HIDE DEF Bad
    <3> QED BY <2>1, <3>1
  <2>5. PICK f : Part(k - 1, f)
    BY <2>4
  <2> DEFINE g == [x \in Below(k) |-> IF x \in T THEN x ELSE f[nx[x]]]
  <2>6. \A x \in Below(k - 1) : x \in Below(k) /\ g[x] = f[x]
    <3> TAKE x \in Below(k - 1)
    <3>1. x \in Below(k)
      BY <1>0, <2>2
    <3>2. f[x] = IF x \in T THEN x ELSE f[nx[x]]
      BY <2>5
    <3> QED BY <3>1, <3>2
  <2>7. \A x \in Below(k) : x \notin T => nx[x] \in Below(k - 1)
    BY <1>0, <2>2
  <2>8. \A x \in Below(k) : g[x] = IF x \in T THEN x ELSE g[nx[x]]
    <3> TAKE x \in Below(k)
    <3>1. g[x] = IF x \in T THEN x ELSE f[nx[x]]
      OBVIOUS
    <3> HIDE DEF g
    <3> QED BY <2>6, <2>7, <3>1
  <2>9. g = [x \in Below(k) |-> g[x]]
    OBVIOUS
  <2> HIDE DEF g, Below
  <2>10. Part(k, g)
    BY <2>8, <2>9
  <2> QED BY <2>2, <2>10
<1>2. \E f : Part(b, f)
  BY <1>0, <1>1
<1>3. Below(b) = S
  BY <1>0
<1> QED BY <1>2, <1>3 DEF Loop

\* The loop ends where it may stop, and keeps what every step keeps.
LEMMA LoopEnds ==
    ASSUME NEW S, NEW T, NEW nx, NEW m, NEW b, Descends(S, T, nx, m, b),
           NEW f, Loop(S, T, nx, f),
           NEW P, P \subseteq S, \A x \in P \ T : nx[x] \in P
    PROVE  \A x \in P : f[x] \in P /\ f[x] \in T
<1>0. /\ \A x \in S : m[x] \in Nat
      /\ \A x \in S \ T : nx[x] \in S /\ m[nx[x]] < m[x]
      /\ f = [x \in S |-> IF x \in T THEN x ELSE f[nx[x]]]
  BY DEF Descends, Loop
<1> DEFINE Bad == {x \in P : ~(f[x] \in P /\ f[x] \in T)}
           Ms  == {m[x] : x \in Bad}
<1> SUFFICES ASSUME Bad # {} PROVE FALSE
  OBVIOUS
<1>1. Ms \in SUBSET Nat /\ Ms # {}
  <2>1. PICK y : y \in Bad
    OBVIOUS
  <2>2. m[y] \in Ms
    BY <2>1
  <2>3. \A x \in Bad : m[x] \in Nat
    BY <1>0
  <2> HIDE DEF Bad
  <2> QED BY <2>2, <2>3
<1>2. PICK k \in Ms : \A j \in Ms : k <= j
  <2> HIDE DEF Ms
  <2> QED BY <1>1, SmallestExists
<1>3. PICK x \in Bad : k = m[x]
  BY <1>2
<1>4. x \in P /\ x \in S /\ ~(f[x] \in P /\ f[x] \in T)
  BY <1>3
<1>5. f[x] = IF x \in T THEN x ELSE f[nx[x]]
  BY <1>0, <1>4
<1>6. x \notin T
  BY <1>4, <1>5
<1>7. nx[x] \in P /\ m[nx[x]] < m[x] /\ m[x] \in Nat /\ m[nx[x]] \in Nat /\ f[x] = f[nx[x]]
  BY <1>0, <1>4, <1>5, <1>6
<1>8. nx[x] \in Bad
  BY <1>4, <1>7
<1>9. m[x] <= m[nx[x]]
  BY <1>2, <1>3, <1>8
<1> QED BY <1>7, <1>9

-----------------------------------------------------------------------------
(* The tree as the loops see it. *)

\* Identifiers are never given twice, and nothing is above a process that is
\* not allocated.
UniqueIds == \A p, q \in Allocated : globalid[p] = globalid[q] => p = q
FreedOK   == \A p \in Proc \ Allocated : parent[p] = NULL
TreeFacts == TypeOK /\ TreeInv /\ UniqueIds /\ FreedOK

\* Along parent, identifiers decrease; only init has no parent.
LEMMA UpDecreases ==
    ASSUME TreeFacts
    PROVE  /\ \A p \in Proc : globalid[p] \in Nat /\ globalid[p] < next_pid
           /\ next_pid \in Nat /\ NULL \notin Proc
           /\ \A p \in Proc : parent[p] # NULL =>
                /\ p \in Allocated \ {First} /\ parent[p] \in Allocated /\ parent[p] \in Proc
                /\ globalid[parent[p]] < globalid[p]
           /\ \A p \in Allocated : p \in Proc /\ (parent[p] = NULL <=> p = First)
           /\ First \in Allocated
<1>1. \A p \in Allocated \ {First} : parent[p] \in Allocated /\ globalid[parent[p]] < globalid[p]
  BY DEF TreeFacts, TreeInv, TreeOK
<1>2. parent[First] = NULL /\ state[First] # "FREED" /\ First \in Proc /\ NULL \notin Proc
  BY ProcAssumption DEF TreeFacts, TreeInv, InitOK
<1>3. \A p \in Proc \ Allocated : parent[p] = NULL
  BY DEF TreeFacts, FreedOK
<1>4. (\A p \in Proc : globalid[p] \in Nat /\ globalid[p] < next_pid) /\ next_pid \in Nat
  BY DEF TreeFacts, TypeOK, TreeInv, IdsOK
<1>5. \A p \in Allocated : p \in Proc
  BY DEF Allocated
<1> QED BY <1>1, <1>2, <1>3, <1>4, <1>5 DEF Allocated

\* The newest of a set of processes is in it, and is the newest.
LEMMA NewestIs ==
    ASSUME TreeFacts, NEW S, S \subseteq Proc
    PROVE  /\ NewestOf(S) = NULL <=> S = {}
           /\ S # {} => NewestOf(S) \in S /\ \A d \in S : globalid[d] <= globalid[NewestOf(S)]
<1>1. CASE S = {}
  BY <1>1 DEF NewestOf
<1>2. CASE S # {}
  <2>1. \E c \in S : \A d \in S : globalid[d] <= globalid[c]
    BY <1>2, MaxExists, UpDecreases
  <2>2. NewestOf(S) \in S /\ \A d \in S : globalid[d] <= globalid[NewestOf(S)]
    BY <2>1, <1>2 DEF NewestOf
  <2> QED BY <1>2, <2>2, UpDecreases
<1> QED BY <1>1, <1>2

\* What p->child and c->sibling are.
LEMMA childIs ==
    ASSUME TreeFacts, NEW p \in Proc
    PROVE  /\ child(p) = NULL <=> Children(state, p) = {}
           /\ child(p) # NULL => /\ child(p) \in Children(state, p)
                                 /\ \A d \in Children(state, p) : globalid[d] <= globalid[child(p)]
<1>1. Children(state, p) \subseteq Proc
  BY DEF Children
<1> QED BY <1>1, NewestIs DEF child

LEMMA siblingIs ==
    ASSUME TreeFacts, NEW c \in Proc, parent[c] # NULL
    PROVE  LET S == {d \in Children(state, parent[c]) : globalid[d] < globalid[c]} IN
           /\ sibling(c) = NULL <=> S = {}
           /\ sibling(c) # NULL => sibling(c) \in S /\ \A d \in S : globalid[d] <= globalid[sibling(c)]
<1> DEFINE S == {d \in Children(state, parent[c]) : globalid[d] < globalid[c]}
<1>1. S \subseteq Proc
  BY DEF Children
<1>2. sibling(c) = NewestOf(S)
  BY DEF sibling
<1> HIDE DEF S
<1>3. /\ sibling(c) = NULL <=> S = {}
      /\ sibling(c) # NULL => sibling(c) \in S /\ \A d \in S : globalid[d] <= globalid[sibling(c)]
  BY <1>1, <1>2, NewestIs
<1> QED BY <1>3 DEF S

\* Where the climb of proc_next may stop, and where it ends: at such a place,
\* which has every property that all steps of the climb keep.
Tops(root) == {q \in Proc : sibling(q) # NULL \/ parent[q] \in {root, NULL}}
LEMMA climbIs ==
    ASSUME TreeFacts, NEW root, NEW P, P \subseteq Proc,
           \A q \in P \ Tops(root) : parent[q] \in P
    PROVE  \A p \in P : climb(p, root) \in P /\ climb(p, root) \in Tops(root)
<1> DEFINE F(top) == [q \in Proc |-> IF sibling(q) # NULL \/ parent[q] \in {root, NULL} THEN q
                                     ELSE top[parent[q]]]
           f == CHOOSE top : top = F(top)
<1>1. \A top : top = F(top) <=> Loop(Proc, Tops(root), parent, top)
  BY DEF Tops, Loop
<1>2. Descends(Proc, Tops(root), parent, globalid, next_pid)
  BY UpDecreases DEF Tops, Descends
<1>3. \E top : Loop(Proc, Tops(root), parent, top)
  BY <1>2, LoopExists
<1> HIDE DEF F
<1>4. Loop(Proc, Tops(root), parent, f)
  BY <1>1, <1>3
<1> HIDE DEF f
<1>5. \A p \in P : f[p] \in P /\ f[p] \in Tops(root)
  BY <1>2, <1>4, LoopEnds
<1>6. \A p : climb(p, root) = f[p]
  BY DEF climb, f, F
<1> QED BY <1>5, <1>6

\* Whether q is below p, likewise.
LEMMA underIs ==
    ASSUME TreeFacts, NEW p, NEW P, P \subseteq Proc,
           \A r \in P : r # p /\ parent[r] # NULL => parent[r] \in P
    PROVE  \A q \in P : /\ p \notin P => ~under(q, p)
                        /\ (\A r \in P : parent[r] = NULL => r = p) => under(q, p)
<1> DEFINE F(top) == [r \in Proc |-> IF r = p \/ parent[r] = NULL THEN r ELSE top[parent[r]]]
           f == CHOOSE top : top = F(top)
           T == {r \in Proc : r = p \/ parent[r] = NULL}
<1>1. \A top : top = F(top) <=> Loop(Proc, T, parent, top)
  BY DEF Loop
<1>2. Descends(Proc, T, parent, globalid, next_pid)
  BY UpDecreases DEF Descends
<1>3. \E top : Loop(Proc, T, parent, top)
  BY <1>2, LoopExists
<1> HIDE DEF F
<1>4. Loop(Proc, T, parent, f)
  BY <1>1, <1>3
<1> HIDE DEF f
<1>5. \A q \in P \ T : parent[q] \in P
  OBVIOUS
<1>6. \A q \in P : f[q] \in P /\ f[q] \in T
  <2> HIDE DEF T
  <2> QED BY <1>2, <1>4, <1>5, LoopEnds
<1>7. \A q : under(q, p) <=> f[q] = p
  BY DEF under, f, F
<1> QED BY <1>6, <1>7

-----------------------------------------------------------------------------
(* The order of proc_next.  While the walk below root is at p, A is the    *)
(* path from root to p, and D are the processes that the walk has left     *)
(* behind, with all that is below them: of a process on the path, these    *)
(* are the children that are newer than the one on the path.               *)

Walk(A, D, p, root) ==
    /\ A \subseteq Allocated /\ D \subseteq Allocated /\ root \in A /\ p \in A
    /\ \A a \in A : globalid[root] <= globalid[a] /\ globalid[a] <= globalid[p]
    /\ \A a \in A \ {root} : parent[a] \in A
    /\ \A a \in A \ {root}, b \in A : globalid[b] <= globalid[parent[a]] \/ globalid[a] <= globalid[b]
    /\ \A a \in A \ {p} : \E b \in A \ {root} : parent[b] = a
    /\ \A v \in D : Children(state, v) \subseteq D
    /\ \A a \in A \ {root} : \A c \in Children(state, parent[a]) : globalid[c] > globalid[a] => c \in D

\* Everything below root is in W.
Closed(W, root) == root \in W /\ \A q \in W : Children(state, q) \subseteq W

\* The walk begins.
LEMMA WalkBegins ==
    ASSUME TreeFacts, NEW root \in Allocated
    PROVE  Walk({root}, {}, root, root)
  BY UpDecreases DEF Walk

\* What is known of a walk at p.
LEMMA WalkIds ==
    ASSUME TreeFacts, NEW A, NEW D, NEW p, NEW root, Walk(A, D, p, root)
    PROVE  /\ \A a \in A : a \in Allocated /\ a \in Proc /\ globalid[a] \in Nat
           /\ \A a \in A \ {root} : /\ parent[a] # NULL /\ a \in Children(state, parent[a])
                                    /\ globalid[parent[a]] < globalid[a]
           /\ root \in A /\ p \in A
           /\ \A a \in A : globalid[a] = globalid[root] => a = root
           /\ \A a \in A : globalid[a] = globalid[p] => a = p
           /\ \A a \in A : \A c \in Children(state, a) :
                c \in Allocated /\ c \in Proc /\ parent[c] = a /\ globalid[c] \in Nat /\ globalid[a] < globalid[c]
           /\ \A c, d \in Allocated : globalid[c] = globalid[d] => c = d
<1>1. A \subseteq Allocated /\ root \in A /\ p \in A /\ \A a \in A \ {root} : parent[a] \in A
  BY DEF Walk
<1>2. \A c, d \in Allocated : globalid[c] = globalid[d] => c = d
  BY DEF TreeFacts, UniqueIds
<1>3. \A a \in A \ {root} : parent[a] # NULL /\ a \in Children(state, parent[a])
  BY <1>1, UpDecreases DEF Children, Allocated
<1>4. \A a \in A : \A c \in Children(state, a) : c \in Allocated /\ c \in Proc /\ parent[c] = a
  BY DEF Children, Allocated
<1> QED BY <1>1, <1>2, <1>3, <1>4, UpDecreases

\* It goes down, ...
LEMMA WalkDown ==
    ASSUME TreeFacts, NEW A, NEW D, NEW p, NEW root, Walk(A, D, p, root), child(p) # NULL
    PROVE  Walk(A \cup {child(p)}, D, child(p), root) /\ child(p) # root
<1>1. PICK n : n = child(p)
  OBVIOUS
<1>2. p \in A /\ p \in Proc /\ root \in A
  BY WalkIds
<1>3. n \in Children(state, p) /\ \A d \in Children(state, p) : globalid[d] <= globalid[n]
  BY <1>1, <1>2, childIs
<1>4. n \in Allocated /\ parent[n] = p /\ globalid[p] < globalid[n] /\ globalid[n] \in Nat /\ globalid[p] \in Nat
  BY <1>2, <1>3, WalkIds
<1>5. /\ A \subseteq Allocated /\ D \subseteq Allocated
      /\ \A a \in A : globalid[root] <= globalid[a] /\ globalid[a] <= globalid[p]
      /\ \A a \in A \ {root} : parent[a] \in A
      /\ \A a \in A \ {root}, b \in A : globalid[b] <= globalid[parent[a]] \/ globalid[a] <= globalid[b]
      /\ \A a \in A \ {p} : \E b \in A \ {root} : parent[b] = a
      /\ \A v \in D : Children(state, v) \subseteq D
      /\ \A a \in A \ {root} : \A c \in Children(state, parent[a]) : globalid[c] > globalid[a] => c \in D
  BY DEF Walk
<1>0. \A a \in A : globalid[a] \in Nat
  BY WalkIds
<1>6. n \notin A /\ n # root
  BY <1>0, <1>2, <1>4, <1>5
<1> DEFINE B == A \cup {n}
<1>7. \A a \in B : globalid[root] <= globalid[a] /\ globalid[a] <= globalid[n]
  BY <1>0, <1>2, <1>4, <1>5
<1>8. \A a \in B \ {root} : parent[a] \in B
  BY <1>0, <1>2, <1>4, <1>5
<1>9. \A a \in B \ {root}, b \in B : globalid[b] <= globalid[parent[a]] \/ globalid[a] <= globalid[b]
  BY <1>0, <1>2, <1>4, <1>5
<1>10. \A a \in B \ {n} : \E b \in B \ {root} : parent[b] = a
  BY <1>0, <1>2, <1>4, <1>5, <1>6
<1>11. \A a \in B \ {root} : \A c \in Children(state, parent[a]) : globalid[c] > globalid[a] => c \in D
  <2>1. \A c \in Children(state, parent[n]) : ~(globalid[c] > globalid[n])
    BY <1>2, <1>3, <1>4, WalkIds
  <2> QED BY <1>5, <2>1
<1>12. Walk(B, D, n, root)
  BY <1>0, <1>2, <1>4, <1>5, <1>7, <1>8, <1>9, <1>10, <1>11 DEF Walk
<1> QED BY <1>1, <1>6, <1>12

\* ... or it climbs from p to t, whose sibling comes next.  What is left behind
\* is the path below t, with all that is below it.
LEMMA WalkOver ==
    ASSUME TreeFacts, NEW A, NEW D, NEW p, NEW root, Walk(A, D, p, root), Children(state, p) \subseteq D,
           NEW t \in A, \A b \in A : globalid[b] > globalid[t] => sibling(b) = NULL
    PROVE  \A v \in D \cup {a \in A : globalid[a] >= globalid[t]} :
             Children(state, v) \subseteq D \cup {a \in A : globalid[a] >= globalid[t]}
<1> DEFINE E == D \cup {a \in A : globalid[a] >= globalid[t]}
<1>1. /\ \A a \in A \ {p} : \E b \in A \ {root} : parent[b] = a
      /\ \A v \in D : Children(state, v) \subseteq D
      /\ \A a \in A \ {root} : \A c \in Children(state, parent[a]) : globalid[c] > globalid[a] => c \in D
  BY DEF Walk
<1>3. ASSUME NEW a \in A, globalid[a] >= globalid[t], NEW c \in Children(state, a) PROVE c \in E
  <2>1. SUFFICES ASSUME a # p PROVE c \in E
    BY <1>3
  <2>2. PICK b \in A \ {root} : parent[b] = a
    BY <1>1, <2>1
  <2>3. /\ globalid[a] < globalid[b] /\ globalid[a] \in Nat /\ globalid[b] \in Nat /\ globalid[t] \in Nat
        /\ b \in Proc /\ b \in Allocated /\ parent[b] # NULL
    BY <2>2, WalkIds
  <2>4. sibling(b) = NULL
    BY <1>3, <2>2, <2>3
  <2>5. c \in Allocated /\ globalid[c] \in Nat
    BY <1>3, WalkIds
  <2>6. ~(globalid[c] < globalid[b])
    BY <1>3, <2>2, <2>3, <2>4, siblingIs
  <2>7. CASE globalid[c] > globalid[b]
    BY <1>1, <1>3, <2>2, <2>7
  <2>8. CASE globalid[c] = globalid[b]
    <3>1. c = b
      BY <2>3, <2>5, <2>8, WalkIds
    <3> QED BY <1>3, <2>2, <2>3, <3>1
  <2> QED BY <2>3, <2>5, <2>6, <2>7, <2>8
<1> QED BY <1>1, <1>3

LEMMA WalkAcross ==
    ASSUME TreeFacts, NEW A, NEW D, NEW p, NEW root, Walk(A, D, p, root), Children(state, p) \subseteq D,
           NEW t \in A \ {root}, \A b \in A : globalid[b] > globalid[t] => sibling(b) = NULL,
           sibling(t) # NULL
    PROVE  /\ Walk({a \in A : globalid[a] < globalid[t]} \cup {sibling(t)},
                   D \cup {a \in A : globalid[a] >= globalid[t]}, sibling(t), root)
           /\ sibling(t) # root
<1> DEFINE E == D \cup {a \in A : globalid[a] >= globalid[t]}
<1>1. PICK n : n = sibling(t)
  OBVIOUS
<1> DEFINE B == {a \in A : globalid[a] < globalid[t]} \cup {n}
<1>2. PICK u : u = parent[t]
  OBVIOUS
<1>3. /\ u \in A /\ u # NULL /\ globalid[u] < globalid[t] /\ t \in Proc /\ t \in Children(state, u)
      /\ globalid[u] \in Nat /\ globalid[t] \in Nat /\ u \in Allocated /\ t \in Allocated
  <2>1. u \in A
    BY <1>2 DEF Walk
  <2> QED BY <1>2, <2>1, WalkIds
<1>4. /\ n \in Children(state, u) /\ globalid[n] < globalid[t]
      /\ \A d \in Children(state, u) : globalid[d] < globalid[t] => globalid[d] <= globalid[n]
  BY <1>1, <1>2, <1>3, siblingIs
<1>5. n \in Allocated /\ parent[n] = u /\ globalid[u] < globalid[n] /\ globalid[n] \in Nat
  BY <1>3, <1>4, WalkIds
<1>6. /\ A \subseteq Allocated /\ D \subseteq Allocated
      /\ \A a \in A : globalid[root] <= globalid[a] /\ globalid[a] <= globalid[p]
      /\ \A a \in A \ {root} : parent[a] \in A
      /\ \A a \in A \ {root}, b \in A : globalid[b] <= globalid[parent[a]] \/ globalid[a] <= globalid[b]
      /\ \A a \in A \ {p} : \E b \in A \ {root} : parent[b] = a
      /\ \A a \in A \ {root} : \A c \in Children(state, parent[a]) : globalid[c] > globalid[a] => c \in D
  BY DEF Walk
<1>7. /\ \A a \in A : globalid[a] \in Nat
      /\ \A a \in A \ {root} : globalid[parent[a]] < globalid[a]
      /\ \A a \in A : globalid[a] = globalid[root] => a = root
      /\ root \in A
  BY WalkIds
<1>8. \A a \in A : globalid[a] < globalid[t] => globalid[a] <= globalid[u]
  BY <1>2, <1>3, <1>6, <1>7
<1>9. root \in B /\ n # root
  <2>1. globalid[root] <= globalid[u]
    BY <1>3, <1>6
  <2> QED BY <1>3, <1>5, <1>7, <2>1
<1>10. \A a \in B : globalid[root] <= globalid[a] /\ globalid[a] <= globalid[n]
  BY <1>3, <1>5, <1>6, <1>7, <1>8
<1>11. \A a \in B \ {root} : parent[a] \in B
  <2>1. u \in B
    BY <1>3
  <2>2. ASSUME NEW a \in A \ {root}, globalid[a] < globalid[t] PROVE parent[a] \in B
    <3>1. parent[a] \in A /\ globalid[parent[a]] < globalid[a] /\ globalid[parent[a]] \in Nat /\ globalid[a] \in Nat
      BY <1>6, <1>7
    <3> QED BY <1>3, <2>2, <3>1
  <2> QED BY <1>5, <2>1, <2>2
<1>12. \A a \in B \ {root}, b \in B : globalid[b] <= globalid[parent[a]] \/ globalid[a] <= globalid[b]
  <2> TAKE a \in B \ {root}, b \in B
  <2>1. CASE a = n /\ b = n
    BY <1>5, <2>1
  <2>2. CASE a = n /\ b # n
    BY <1>5, <1>8, <2>2
  <2>3. CASE a # n /\ b = n
    BY <1>3, <1>5, <1>7, <1>8, <2>3
  <2>4. CASE a # n /\ b # n
    BY <1>6, <2>4
  <2> QED BY <2>1, <2>2, <2>3, <2>4
<1>13. \A a \in B \ {n} : \E b \in B \ {root} : parent[b] = a
  <2> SUFFICES ASSUME NEW a \in A, globalid[a] < globalid[t], a # n
               PROVE  \E b \in B \ {root} : parent[b] = a
    OBVIOUS
  <2>1. CASE a = u
    BY <1>5, <1>9, <2>1
  <2>2. CASE a # u
    <3>1. a # p
      BY <1>3, <1>6, <1>7
    <3>2. PICK b \in A \ {root} : parent[b] = a
      BY <1>6, <3>1
    <3>3. globalid[a] < globalid[u]
      <4>1. globalid[a] # globalid[u]
        BY <1>3, <1>6, <2>2, WalkIds
      <4> QED BY <1>3, <1>7, <1>8, <4>1
    <3>4. globalid[b] <= globalid[u]
      BY <1>3, <1>6, <1>7, <3>2, <3>3
    <3>5. b \in B
      BY <1>3, <1>7, <3>2, <3>4
    <3> QED BY <3>2, <3>5
  <2> QED BY <2>1, <2>2
<1>14. \A v \in E : Children(state, v) \subseteq E
  BY WalkOver
<1>15. \A a \in B \ {root} : \A c \in Children(state, parent[a]) : globalid[c] > globalid[a] => c \in E
  <2>1. ASSUME NEW c \in Children(state, u), globalid[c] > globalid[n] PROVE c \in E
    <3>1. c \in Allocated /\ globalid[c] \in Nat
      BY <1>3, WalkIds
    <3>2. ~(globalid[c] < globalid[t])
      BY <1>4, <1>5, <2>1, <3>1
    <3>3. CASE globalid[c] = globalid[t]
      <4>1. c = t
        BY <1>3, <3>1, <3>3, WalkIds
      <4> QED BY <1>3, <4>1
    <3>4. CASE globalid[c] > globalid[t]
      BY <1>2, <1>6, <3>4
    <3> QED BY <1>3, <3>1, <3>2, <3>3, <3>4
  <2> QED BY <1>5, <1>6, <2>1
<1>16. B \subseteq Allocated /\ E \subseteq Allocated /\ n \in B
  BY <1>5, <1>6
<1> HIDE DEF B, E
<1>17. Walk(B, E, n, root)
  BY <1>9, <1>10, <1>11, <1>12, <1>13, <1>14, <1>15, <1>16 DEF Walk
<1> QED BY <1>1, <1>9, <1>17 DEF B, E

\* When what is below p has been left behind, the walk climbs to the first
\* process t on its path that has an older sibling n, and goes on there.
ClimbsTo(A, D, root, t, n) ==
    /\ t \in A
    /\ n # NULL => /\ t # root /\ n # root
                   /\ Walk({a \in A : globalid[a] < globalid[t]} \cup {n},
                           D \cup {a \in A : globalid[a] >= globalid[t]}, n, root)
    /\ n = NULL => Closed(D \cup A, root) /\ parent[t] \in {root, NULL}

LEMMA WalkUp ==
    ASSUME TreeFacts, NEW A, NEW D, NEW p, NEW root, Walk(A, D, p, root), Children(state, p) \subseteq D,
           NEW r, (r = root /\ p # root) \/ (r = NULL /\ root = First)
    PROVE  ClimbsTo(A, D, root, climb(p, r), sibling(climb(p, r)))
<1> DEFINE P == {a \in A : /\ r = root => a # root
                           /\ \A b \in A : globalid[b] > globalid[a] => sibling(b) = NULL}
           t == climb(p, r)
           n == sibling(t)
<1> SUFFICES ClimbsTo(A, D, root, t, n)
  OBVIOUS
<1>1. /\ \A a \in A : globalid[root] <= globalid[a] /\ globalid[a] <= globalid[p]
      /\ \A a \in A \ {root} : parent[a] \in A
      /\ \A a \in A \ {root}, b \in A : globalid[b] <= globalid[parent[a]] \/ globalid[a] <= globalid[b]
      /\ \A a \in A \ {root} : \A c \in Children(state, parent[a]) : globalid[c] > globalid[a] => c \in D
  BY DEF Walk
<1>2. /\ \A a \in A : a \in Allocated /\ a \in Proc /\ globalid[a] \in Nat
      /\ \A a, b \in A : globalid[a] = globalid[b] => a = b
      /\ root \in A /\ p \in A
  BY WalkIds
<1>3. /\ parent[First] = NULL /\ sibling(First) = NULL /\ NULL \notin Proc
      /\ \A a \in A : parent[a] = NULL => a = First
  BY <1>2, UpDecreases DEF sibling
<1>4. p \in P /\ P \subseteq Proc
  BY <1>1, <1>2, <1>3
<1>5. ASSUME NEW a \in P \ Tops(r) PROVE parent[a] \in P
  <2>1. a \in A /\ sibling(a) = NULL /\ parent[a] # r /\ parent[a] # NULL
    BY <1>2, <1>5 DEF Tops
  <2>2. a # root
    BY <1>3, <1>5, <2>1
  <2>3. parent[a] \in A /\ (r = root => parent[a] # root)
    BY <1>1, <2>1, <2>2
  <2>4. ASSUME NEW b \in A, globalid[b] > globalid[parent[a]] PROVE sibling(b) = NULL
    <3>1. globalid[a] <= globalid[b]
      BY <1>1, <1>2, <2>1, <2>2, <2>3, <2>4
    <3>2. CASE globalid[a] = globalid[b]
      BY <1>2, <2>1, <3>2
    <3>3. CASE globalid[a] < globalid[b]
      BY <1>2, <1>5, <2>1, <3>3
    <3> QED BY <1>2, <2>1, <3>1, <3>2, <3>3
  <2> QED BY <2>3, <2>4
<1>6. t \in P /\ t \in Tops(r)
  <2> HIDE DEF P
  <2> QED BY <1>4, <1>5, climbIs
<1>7. /\ t \in A /\ (r = root => t # root) /\ t \in Proc
      /\ \A b \in A : globalid[b] > globalid[t] => sibling(b) = NULL
      /\ sibling(t) # NULL \/ parent[t] \in {r, NULL}
  BY <1>6, <1>2 DEF Tops
<1>8. n = sibling(t)
  OBVIOUS
<1> HIDE DEF P, t, n
<1>9. CASE n # NULL
  <2>1. t # root
    BY <1>3, <1>7, <1>8, <1>9
  <2> DEFINE B == {a \in A : globalid[a] < globalid[t]} \cup {n}
             E == D \cup {a \in A : globalid[a] >= globalid[t]}
  <2>2. Walk(B, E, n, root) /\ n # root
    BY <1>7, <1>8, <1>9, <2>1, WalkAcross
  <2> QED BY <1>7, <1>9, <2>1, <2>2 DEF ClimbsTo
<1>10. CASE n = NULL
  <2> DEFINE E == D \cup {a \in A : globalid[a] >= globalid[t]}
  <2>1. \A v \in E : Children(state, v) \subseteq E
    BY <1>7, WalkOver
  <2>2. parent[t] \in {r, NULL}
    BY <1>7, <1>8, <1>10
  <2>3. \A a \in A : a \in E \/ a = root
    <3>1. CASE t = root
      BY <1>1, <1>2, <3>1
    <3>2. CASE t # root
      <4>1. parent[t] = root
        <5>1. parent[t] # NULL
          BY <1>1, <1>2, <1>3, <1>7, <3>2
        <5> QED BY <2>2, <5>1
      <4>2. ASSUME NEW a \in A, globalid[a] < globalid[t] PROVE a = root
        <5>1. globalid[a] <= globalid[root]
          BY <1>1, <1>2, <1>7, <3>2, <4>1, <4>2
        <5> QED BY <1>1, <1>2, <5>1
      <4>3. \A a \in A : globalid[a] < globalid[t] \/ globalid[a] >= globalid[t]
        BY <1>2, <1>7
      <4> QED BY <4>2, <4>3
    <3> QED BY <3>1, <3>2
  <2>4. Children(state, root) \subseteq E
    <3>1. CASE t = root
      BY <2>1, <3>1, <1>2
    <3>2. CASE t # root
      <4>1. parent[t] = root
        <5>1. parent[t] # NULL
          BY <1>1, <1>2, <1>3, <1>7, <3>2
        <5> QED BY <2>2, <5>1
      <4>2. ASSUME NEW c \in Children(state, root) PROVE c \in E
        <5>1. c \in Allocated /\ globalid[c] \in Nat /\ globalid[t] \in Nat /\ t \in Allocated
          BY <1>2, <1>7, <4>2, WalkIds
        <5>2. ~(globalid[c] < globalid[t])
          <6>1. parent[t] # NULL
            BY <1>2, <1>3, <4>1
          <6> QED BY <1>7, <1>8, <1>10, <4>1, <4>2, <6>1, siblingIs
        <5>3. CASE globalid[c] > globalid[t]
          BY <1>1, <1>7, <3>2, <4>1, <4>2, <5>3
        <5>4. CASE globalid[c] = globalid[t]
          <6>1. c = t
            BY <5>1, <5>4, WalkIds
          <6> QED BY <1>7, <5>1, <6>1
        <5> QED BY <5>1, <5>2, <5>3, <5>4
      <4> QED BY <4>2
    <3> QED BY <3>1, <3>2
  <2>5. Closed(D \cup A, root)
    <3>1. E \subseteq D \cup A
      OBVIOUS
    <3> HIDE DEF E
    <3>2. \A v \in D \cup A : v \in E \/ v = root
      <4>1. D \subseteq E
        BY DEF E
      <4> QED BY <2>3, <4>1
    <3> QED BY <1>2, <2>1, <2>4, <3>1, <3>2 DEF Closed
  <2>6. parent[t] \in {root, NULL}
    BY <2>2
  <2> QED BY <1>7, <1>10, <2>5, <2>6 DEF ClimbsTo
<1> QED BY <1>9, <1>10

\* A step of proc_next takes the walk to a process that has not been visited,
\* or ends it when everything has been: the walk over the subtree of root, and
\* the one over the whole tree.
GoesOn(A, D, root, n) ==
    /\ n # NULL => n # root /\ \E B, E : Walk(B, E, n, root) /\ E \cup (B \ {n}) \subseteq D \cup A
    /\ n = NULL => Closed(D \cup A, root)

LEMMA WalkStep ==
    ASSUME TreeFacts, NEW A, NEW D, NEW p, NEW root, Walk(A, D, p, root),
           NEW r, (r = root /\ p # root) \/ (r = NULL /\ root = First)
    PROVE  GoesOn(A, D, root, proc_next(p, r))
<1> DEFINE n == proc_next(p, r)
<1>1. CASE child(p) # NULL
  <2>1. n = child(p)
    BY <1>1 DEF proc_next
  <2>2. Walk(A \cup {n}, D, n, root) /\ n # root
    BY <1>1, <2>1, WalkDown
  <2>3. D \cup ((A \cup {n}) \ {n}) \subseteq D \cup A
    OBVIOUS
  <2> HIDE DEF n
  <2>4. n # NULL /\ n # root /\ \E B, E : Walk(B, E, n, root) /\ E \cup (B \ {n}) \subseteq D \cup A
    BY <1>1, <2>1, <2>2, <2>3
  <2> QED BY <2>4 DEF n, GoesOn
<1>2. CASE child(p) = NULL
  <2>1. Children(state, p) \subseteq D
    BY <1>2, childIs, WalkIds
  <2>2. PICK t : t = climb(p, r)
    OBVIOUS
  <2>3. n = sibling(t)
    BY <1>2, <2>2 DEF proc_next
  <2> HIDE DEF n
  <2>4. ClimbsTo(A, D, root, t, n)
    BY <2>1, <2>2, <2>3, WalkUp
  <2>5. CASE n # NULL
    <3> DEFINE B == {a \in A : globalid[a] < globalid[t]} \cup {n}
               E == D \cup {a \in A : globalid[a] >= globalid[t]}
    <3>1. Walk(B, E, n, root) /\ n # root
      BY <2>4, <2>5 DEF ClimbsTo
    <3>2. E \cup (B \ {n}) \subseteq D \cup A
      OBVIOUS
    <3> HIDE DEF B, E
    <3> QED BY <2>5, <3>1, <3>2 DEF n, GoesOn
  <2>6. CASE n = NULL
    <3>1. Closed(D \cup A, root)
      BY <2>4, <2>6 DEF ClimbsTo
    <3> QED BY <2>6, <3>1 DEF n, GoesOn
  <2> QED BY <2>5, <2>6
<1> QED BY <1>1, <1>2

\* What the walk has seen at the end is the whole subtree of root, ...
LEMMA ClosedSubtree ==
    ASSUME TreeFacts, NEW W, NEW root, Closed(W, root), NEW q \in Allocated, under(q, root)
    PROVE  q \in W
<1> SUFFICES ASSUME q \notin W PROVE FALSE
  OBVIOUS
<1> DEFINE P == Allocated \ W
<1>1. q \in P /\ root \notin P /\ P \subseteq Proc
  BY DEF Closed, Allocated
<1>2. ASSUME NEW a \in P, parent[a] # NULL PROVE parent[a] \in P
  <2>1. a \in Allocated /\ parent[a] \in Allocated /\ a \in Children(state, parent[a])
    BY <1>2, UpDecreases DEF Children, Allocated
  <2> QED BY <1>2, <2>1 DEF Closed
<1> HIDE DEF P
<1>3. ~under(q, root)
  BY <1>1, <1>2, underIs
<1> QED BY <1>3

\* ... which for init is everything.
LEMMA UnderInit == ASSUME TreeFacts, NEW q \in Allocated PROVE under(q, First)
<1>1. Allocated \subseteq Proc /\ \A a \in Allocated : parent[a] # NULL => parent[a] \in Allocated
  BY UpDecreases
<1>2. \A a \in Allocated : parent[a] = NULL => a = First
  BY UpDecreases
<1> QED BY <1>1, <1>2, underIs

\* The walk is below root all the time.
LEMMA WalkBelow ==
    ASSUME TreeFacts, NEW A, NEW D, NEW p, NEW root, Walk(A, D, p, root)
    PROVE  under(p, root)
<1>1. A \subseteq Proc /\ p \in A
  BY WalkIds
<1>2. \A a \in A : a # root => parent[a] \in A
  BY DEF Walk
<1>3. \A a \in A : parent[a] = NULL => a = root
  BY WalkIds
<1> QED BY <1>1, <1>2, <1>3, underIs

-----------------------------------------------------------------------------
(* How a step changes the tree: not at all, or by one process. *)

SameTree == /\ UNCHANGED <<parent, globalid>>
            /\ \A q \in Proc : state'[q] = "FREED" <=> state[q] = "FREED"
Grown(c) == /\ c \in Proc /\ state[c] = "FREED" /\ state'[c] # "FREED"
            /\ \A q \in Proc \ {c} : state'[q] = state[q]
            /\ parent' = [parent EXCEPT ![c] = proc_cur]
            /\ globalid' = [globalid EXCEPT ![c] = next_pid]
Cut(p)   == /\ p \in Proc /\ state[p] = "DEADLEAF" /\ state'[p] = "FREED"
            /\ \A q \in Proc \ {p} : state'[q] = "FREED" <=> state[q] = "FREED"
            /\ parent' = [parent EXCEPT ![p] = NULL]
            /\ globalid' = [globalid EXCEPT ![p] = 0]

LEMMA KillTreeKept ==
    ASSUME IndInv, NEW p \in Allocated, p = First => proc_alive(state, p), Kill(p), UNCHANGED <<parent, globalid>>
    PROVE  SameTree
<1>1. TypeOK /\ TreeInv /\ p \in Proc /\ state[p] # "FREED"
  BY DEF IndInv, Allocated
<1>2. /\ \A q \in Proc \ {p} :
            \/ state'[q] = state[q]
            \/ state[q] = "TOREAP" /\ state'[q] \in {"TOMBSTONE", "DEADLEAF"}
            \/ state[q] = "WAITS4CHILDDEATH" /\ state'[q] = "RUNNING"
      /\ state'[p] \in {"TOREAP", "TOMBSTONE", "DEADLEAF"}
  BY <1>1, KillEffect
<1> QED BY <1>1, <1>2 DEF SameTree

LEMMA Wait2Effect ==
    ASSUME IndInv, Wait2
    PROVE  /\ state[proc_cur] = "RUNNING" /\ UNCHANGED <<parent, globalid, next_pid, pns, localid>>
           /\ \/ /\ \E d \in Proc : /\ state[d] = "TOREAP" /\ ~noreap[d] /\ parent[d] = proc_cur
                                    /\ state'[d] \in {"TOMBSTONE", "DEADLEAF"}
                                    /\ \A q \in Proc \ {d} : state'[q] = state[q]
              \/ /\ state'[proc_cur] = "WAITS4CHILDDEATH"
                 /\ \A q \in Proc \ {proc_cur} : state'[q] = state[q]
              \/ state' = state
<1> USE DEF IndInv
<1> DEFINE waits == [state EXCEPT ![proc_cur] = "WAITS4CHILDDEATH"]
           mine  == Reapable(proc_cur)
           ready(pid) == {c \in mine : /\ state[c] = "TOREAP"
                                       /\ pid \in {0, proc_ns_id(pns[proc_cur], c)}}
<1>1. state[proc_cur] = "RUNNING" /\ proc_cur \in Proc /\ UNCHANGED <<parent, globalid, next_pid, pns, localid>>
  BY DEF Wait2, User, LoopOK, TypeOK, ns
<1>2. PICK pid :
        \/ /\ ready(pid) # {}
           /\ Bury(waits, [state EXCEPT ![NewestOf(ready(pid))] = Buried(waits, NewestOf(ready(pid)))])
        \/ Bury(waits, waits)
        \/ Bury(state, state)
  BY DEF Wait2
<1>3. CASE /\ ready(pid) # {}
           /\ Bury(waits, [state EXCEPT ![NewestOf(ready(pid))] = Buried(waits, NewestOf(ready(pid)))])
  <2>1. PICK d : d = NewestOf(ready(pid))
    OBVIOUS
  <2>2. ready(pid) \subseteq Proc
    BY DEF Reapable, Children
  <2>3. d \in ready(pid)
    <3>1. \E c \in ready(pid) : \A f \in ready(pid) : globalid[f] <= globalid[c]
      BY <2>2, <1>3, MaxExists DEF TreeInv, IdsOK, TypeOK
    <3> QED BY <1>3, <2>1, <3>1 DEF NewestOf
  <2>4. d \in Proc /\ state[d] = "TOREAP" /\ ~noreap[d] /\ parent[d] = proc_cur
    BY <2>3 DEF Reapable, Children
  <2> HIDE DEF waits, ready
  <2>5. state' = [state EXCEPT ![d] = Buried(waits, d)]
    BY <1>3, <2>1 DEF Bury
  <2>6. state'[d] \in {"TOMBSTONE", "DEADLEAF"} /\ \A q \in Proc \ {d} : state'[q] = state[q]
    BY <2>4, <2>5 DEF TypeOK, Buried
  <2> QED BY <1>1, <2>4, <2>6
<1>4. CASE Bury(waits, waits)
  BY <1>1, <1>4 DEF Bury, TypeOK
<1>5. CASE Bury(state, state)
  BY <1>1, <1>5 DEF Bury
<1> QED BY <1>2, <1>3, <1>4, <1>5

\* An iteration of proc_prune_leaves.
LEMMA PruneCuts ==
    ASSUME IndInv, PruneStep
    PROVE  \E p \in dead_leaves :
             /\ Cut(p)
             /\ LET freed == [state EXCEPT ![p] = "FREED"]
                    up    == parent[p]
                IN IF proc_alive(state, up) THEN Bury(freed, freed) /\ UNCHANGED panic
                   ELSE Bury(freed, proc_tryreap(freed, up)) /\ panic' = tryreap_asserts(freed, up)
             /\ pns' = [pns EXCEPT ![p] = p]
<1>1. PICK p \in dead_leaves :
        /\ LET freed == [state EXCEPT ![p] = "FREED"]
               up    == parent[p]
           IN IF proc_alive(state, up) THEN Bury(freed, freed) /\ UNCHANGED panic
              ELSE Bury(freed, proc_tryreap(freed, up)) /\ panic' = tryreap_asserts(freed, up)
        /\ parent' = [parent EXCEPT ![p] = NULL]
        /\ globalid' = [globalid EXCEPT ![p] = 0]
        /\ pns' = [pns EXCEPT ![p] = p]
  BY DEF PruneStep
<1>2. LET freed == [state EXCEPT ![p] = "FREED"]
          up    == parent[p]
      IN IF proc_alive(state, up) THEN Bury(freed, freed)
         ELSE Bury(freed, proc_tryreap(freed, up))
  BY <1>1
<1>3. /\ p \in Proc /\ state[p] = "DEADLEAF" /\ parent[p] \in Proc \ {p}
      /\ state'[p] = "FREED"
      /\ \A q \in Proc \ {p, parent[p]} :
            \/ state'[q] = state[q]
            \/ state[q] = "WAITS4CHILDDEATH" /\ state'[q] = "RUNNING"
      /\ \/ state'[parent[p]] = state[parent[p]]
         \/ state[parent[p]] \in Dead /\ state'[parent[p]] \in {"TOMBSTONE", "DEADLEAF"}
  BY <1>2, PruneEffect
<1>4. state[parent[p]] # "FREED"
  <2>1. p \in Allocated \ {First}
    BY <1>3 DEF Allocated, IndInv, TreeInv, InitOK
  <2> QED BY <2>1 DEF IndInv, TreeInv, TreeOK, Allocated
<1>5. Cut(p)
  BY <1>1, <1>3, <1>4 DEF Cut
<1> QED BY <1>1, <1>5

LEMMA NextTree ==
    ASSUME IndInv, [Next]_vars
    PROVE  SameTree \/ (\E c : Grown(c)) \/ (\E p : Cut(p))
<1> USE DEF IndInv
<1>1. ASSUME NEW c \in Proc, NEW nr, proc_fork(c, nr), NEW s, s # "FREED", state' = [state EXCEPT ![c] = s]
      PROVE  Grown(c)
  <2>1. state[c] = "FREED" /\ parent' = [parent EXCEPT ![c] = proc_cur] /\ globalid' = [globalid EXCEPT ![c] = next_pid]
    BY <1>1 DEF proc_fork
  <2> QED BY <1>1, <2>1 DEF Grown, TypeOK
<1>2. CASE Fork
  BY <1>1, <1>2 DEF Fork
<1>3. CASE ForkFail
  BY <1>1, <1>3 DEF ForkFail
<1>4. CASE Exit
  <2>1. proc_cur \in Allocated /\ proc_alive(state, proc_cur)
    BY <1>4, ProcAssumption DEF Exit, User, LoopOK, Allocated, TypeOK, proc_alive, Dead
  <2>2. Kill(proc_cur) /\ UNCHANGED <<parent, globalid>>
    BY <1>4 DEF Exit
  <2> QED BY <2>1, <2>2, KillTreeKept
<1>5. CASE Wait2
  BY <1>5, Wait2Effect DEF SameTree
<1>6. ASSUME UNCHANGED <<parent, globalid>>,
             \/ state' = state
             \/ \E p \in Proc : \E s : state[p] # "FREED" /\ s # "FREED" /\ state' = [state EXCEPT ![p] = s]
      PROVE  SameTree
  BY <1>6 DEF SameTree, TypeOK
<1>7. CASE Intr \/ IntrSet \/ GetProcfs \/ NsCreateStep \/ PruneEnd \/ ScanStep \/ UNCHANGED vars
  <2>1. UNCHANGED <<state, parent, globalid>>
    BY <1>7 DEF Intr, IntrSet, GetProcfs, NsCreateStep, PruneEnd, ScanStep, tree, vars
  <2> QED BY <1>6, <2>1
<1>8. CASE Block
  <2>1. state[proc_cur] = "RUNNING" /\ proc_cur \in Proc /\ UNCHANGED <<parent, globalid>>
    BY <1>8 DEF Block, LoopOK, TypeOK
  <2>2. PICK s \in WaitStates : state' = [state EXCEPT ![proc_cur] = s]
    BY <1>8 DEF Block
  <2>3. s # "FREED"
    BY <2>2, ProcAssumption DEF AllWaitStates
  <2> QED BY <1>6, <2>1, <2>2, <2>3
<1>9. CASE WakeOther \/ Idle
  <2>1. UNCHANGED <<parent, globalid>>
    BY <1>9 DEF WakeOther, Idle
  <2>2. state' = state \/ \E p \in Proc : state[p] \in AllWaitStates /\ state' = [state EXCEPT ![p] = "RUNNING"]
    BY <1>9 DEF WakeOther, Idle
  <2> QED BY <1>6, <2>1, <2>2 DEF AllWaitStates
<1>10. CASE IntrStep
  <2>1. it \in Allocated \ {First} /\ it \in Proc /\ UNCHANGED <<parent, globalid>>
    BY <1>10 DEF IntrStep, LoopOK, Allocated
  <2>2. CASE mode = "kill"
    <3>1. Kill(it)
      BY <1>10, <2>2 DEF IntrStep
    <3> QED BY <2>1, <3>1, KillTreeKept
  <2>3. CASE mode = "intr"
    <3>1. state' = IF intr_fn[it] /\ state[it] = "WAITS4TIMER"
                   THEN [state EXCEPT ![it] = "RUNNING"] ELSE state
      BY <1>10, <2>3 DEF IntrStep
    <3> QED BY <1>6, <2>1, <3>1
  <2> QED BY <1>10, <2>2, <2>3 DEF IntrStep
<1>11. CASE PruneStep
  BY <1>11, PruneCuts
<1> QED BY <1>2, <1>3, <1>4, <1>5, <1>7, <1>8, <1>9, <1>10, <1>11 DEF Next, Syscall, Kernel

\* Identifiers stay unique.
IdsInv == UniqueIds /\ FreedOK
LEMMA IdsInd == ASSUME IndInv, IdsInv, [Next]_vars PROVE IdsInv'
<1>1. TypeOK /\ (\A p \in Proc : globalid[p] \in Nat /\ globalid[p] < next_pid) /\ next_pid \in Nat
  BY DEF IndInv, TypeOK, TreeInv, IdsOK
<1>2. \A p, q \in Proc : state[p] # "FREED" /\ state[q] # "FREED" /\ globalid[p] = globalid[q] => p = q
  BY DEF IdsInv, UniqueIds, Allocated
<1>3. \A p \in Proc : state[p] = "FREED" => parent[p] = NULL
  BY DEF IdsInv, FreedOK, Allocated
<1>4. SUFFICES /\ \A p, q \in Proc : state'[p] # "FREED" /\ state'[q] # "FREED" /\ globalid'[p] = globalid'[q] => p = q
               /\ \A p \in Proc : state'[p] = "FREED" => parent'[p] = NULL
  BY DEF IdsInv, UniqueIds, FreedOK, Allocated
<1>5. CASE SameTree
  BY <1>2, <1>3, <1>5 DEF SameTree
<1>6. ASSUME NEW c, Grown(c)
      PROVE  /\ \A p, q \in Proc : state'[p] # "FREED" /\ state'[q] # "FREED" /\ globalid'[p] = globalid'[q] => p = q
             /\ \A p \in Proc : state'[p] = "FREED" => parent'[p] = NULL
  <2>1. /\ \A q \in Proc \ {c} : state'[q] = state[q] /\ parent'[q] = parent[q] /\ globalid'[q] = globalid[q]
        /\ globalid'[c] = next_pid /\ state'[c] # "FREED"
    BY <1>1, <1>6 DEF Grown, TypeOK
  <2> QED BY <1>1, <1>2, <1>3, <2>1
<1>7. ASSUME NEW p, Cut(p)
      PROVE  /\ \A r, q \in Proc : state'[r] # "FREED" /\ state'[q] # "FREED" /\ globalid'[r] = globalid'[q] => r = q
             /\ \A q \in Proc : state'[q] = "FREED" => parent'[q] = NULL
  <2>1. /\ \A q \in Proc \ {p} : (state'[q] = "FREED" <=> state[q] = "FREED")
                                 /\ parent'[q] = parent[q] /\ globalid'[q] = globalid[q]
        /\ parent'[p] = NULL /\ state'[p] = "FREED"
    BY <1>1, <1>7 DEF Cut, TypeOK
  <2> QED BY <1>2, <1>3, <2>1
<1> QED BY <1>5, <1>6, <1>7, NextTree

\* A step that leaves the tree alone leaves the walks alone.
LEMMA WalkKept ==
    ASSUME SameTree
    PROVE  /\ \A A, D, p, root : Walk(A, D, p, root) => Walk(A, D, p, root)'
           /\ \A W, root : Closed(W, root)' <=> Closed(W, root)
           /\ Allocated' = Allocated
           /\ \A q, p : under(q, p)' <=> under(q, p)
<1>1. Allocated' = Allocated
  BY DEF SameTree, Allocated
<1>2. \A q : Children(state, q)' = Children(state, q)
  BY DEF SameTree, Children
<1>3. UNCHANGED <<parent, globalid>>
  BY DEF SameTree
<1>4. \A A, D, p, root : Walk(A, D, p, root) => Walk(A, D, p, root)'
  BY <1>1, <1>2, <1>3 DEF Walk
<1>5. \A W, root : Closed(W, root)' <=> Closed(W, root)
  BY <1>2 DEF Closed
<1>6. \A q, p : under(q, p)' <=> under(q, p)
  BY <1>3 DEF under
<1> QED BY <1>1, <1>4, <1>5, <1>6

\* While proc_switch_any searches, what it has passed cannot run; while
\* _sys_intr kills, what it has passed below the caller is dead.
Passed(A, D, p) == D \cup (A \ {p})
ScanInv == mode = "scan" =>
    \E A, D : Walk(A, D, it, First) /\ \A v \in Passed(A, D, it) : state[v] # "RUNNING"
KillInv == mode = "kill" =>
    /\ it # proc_cur
    /\ \E A, D : Walk(A, D, it, proc_cur) /\ \A v \in Passed(A, D, it) \ {proc_cur} : state[v] \in Dead

WalkInv == IndInv /\ IdsInv /\ ScanInv /\ KillInv /\ IdleOnlyIfNothingRuns

LEMMA FactsOfInv == IndInv /\ IdsInv => TreeFacts
  BY DEF TreeFacts, IndInv, IdsInv

\* The search begins at init, ...
LEMMA ScanBegins ==
    ASSUME TreeFacts, SameTree, it' = First
    PROVE  ScanInv'
<1>1. First \in Allocated
  BY UpDecreases
<1>2. Walk({First}, {}, First, First)
  BY <1>1, WalkBegins
<1>3. Walk({First}, {}, First, First)'
  BY <1>2, WalkKept
<1>4. Passed({First}, {}, First) = {}
  BY DEF Passed
<1>5. Walk({First}, {}, it, First)'
  BY <1>3 DEF Walk
<1>6. Passed({First}, {}, it') = {}
  BY <1>4
<1> QED BY <1>5, <1>6 DEF ScanInv

\* ... goes on, and ends when everybody has been passed.
LEMMA ScanGoesOn ==
    ASSUME TreeFacts, ScanInv, ScanStep
    PROVE  ScanInv' /\ IdleOnlyIfNothingRuns'
<1>1. /\ mode = "scan" /\ UNCHANGED <<state, parent, globalid>>
      /\ \/ mode' = "user"
         \/ /\ state[it] # "RUNNING" /\ it' = proc_next(it, NULL)
            /\ mode' = IF it' = NULL THEN "idle" ELSE mode
  BY DEF ScanStep, tree
<1>2. CASE mode' = "user"
  BY <1>2 DEF ScanInv, IdleOnlyIfNothingRuns
<1>3. CASE mode' # "user"
  <2>1. state[it] # "RUNNING" /\ it' = proc_next(it, NULL) /\ mode' = IF it' = NULL THEN "idle" ELSE "scan"
    BY <1>1, <1>3
  <2>2. SameTree
    BY <1>1 DEF SameTree
  <2>3. PICK A, D : Walk(A, D, it, First) /\ \A v \in Passed(A, D, it) : state[v] # "RUNNING"
    BY <1>1 DEF ScanInv
  <2>4. PICK n : n = it'
    OBVIOUS
  <2>5. \A v \in D \cup A : state[v] # "RUNNING"
    BY <2>1, <2>3 DEF Passed
  <2>6. /\ n # NULL => \E B, E : Walk(B, E, n, First) /\ E \cup (B \ {n}) \subseteq D \cup A
        /\ n = NULL => Closed(D \cup A, First)
    <3>1. GoesOn(A, D, First, proc_next(it, NULL))
      BY <2>3, WalkStep
    <3> QED BY <2>1, <2>4, <3>1 DEF GoesOn
  <2>7. CASE n # NULL
    <3>1. PICK B, E : Walk(B, E, n, First) /\ E \cup (B \ {n}) \subseteq D \cup A
      BY <2>6, <2>7
    <3>2. Walk(B, E, n, First)'
      BY <2>2, <3>1, WalkKept
    <3>3. Walk(B, E, it, First)'
      BY <2>4, <3>2 DEF Walk
    <3>4. \A v \in Passed(B, E, it') : state'[v] # "RUNNING"
      BY <1>1, <2>4, <2>5, <3>1 DEF Passed
    <3>5. ScanInv'
      BY <3>3, <3>4 DEF ScanInv
    <3>6. mode' = "scan"
      BY <2>1, <2>4, <2>7
    <3> QED BY <3>5, <3>6 DEF IdleOnlyIfNothingRuns
  <2>8. CASE n = NULL
    <3>1. Closed(D \cup A, First) /\ mode' = "idle"
      BY <2>1, <2>4, <2>6, <2>8
    <3>2. ASSUME NEW p \in Proc PROVE state'[p] # "RUNNING"
      <4>1. CASE p \in Allocated
        BY <1>1, <2>5, <3>1, <4>1, UnderInit, ClosedSubtree
      <4>2. CASE p \notin Allocated
        BY <1>1, <4>2 DEF Allocated
      <4> QED BY <4>1, <4>2
    <3> QED BY <3>1, <3>2 DEF ScanInv, IdleOnlyIfNothingRuns
  <2> QED BY <2>7, <2>8
<1> QED BY <1>2, <1>3

\* The loop of _sys_intr begins at the newest child of the caller, ...
LEMMA KillBegins ==
    ASSUME TreeFacts, UNCHANGED <<state, parent, globalid, proc_cur>>, proc_cur \in Allocated,
           it' = child(proc_cur), child(proc_cur) # NULL
    PROVE  KillInv'
<1>1. SameTree
  BY DEF SameTree
<1>2. Walk({proc_cur}, {}, proc_cur, proc_cur)
  BY WalkBegins
<1>3. PICK n, c : n = child(proc_cur) /\ c = proc_cur
  OBVIOUS
<1>4. Walk({c} \cup {n}, {}, n, c) /\ n # c
  BY <1>2, <1>3, WalkDown
<1>5. Walk({c} \cup {n}, {}, n, c)'
  BY <1>1, <1>4, WalkKept
<1>6. it' = n /\ proc_cur' = c
  BY <1>3
<1>7. Walk({c} \cup {n}, {}, it, proc_cur)'
  BY <1>5, <1>6 DEF Walk
<1>8. Passed({c} \cup {n}, {}, n) \ {c} = {}
  BY DEF Passed
<1> QED BY <1>4, <1>6, <1>7, <1>8 DEF KillInv

\* ... goes on, and has killed the whole subtree at the end.
LEMMA KillGoesOn ==
    ASSUME IndInv, IdsInv, KillInv, IntrStep, mode = "kill"
    PROVE  /\ KillInv'
           /\ mode' = "prune" =>
                \A q \in Allocated \ {proc_cur} : under(q, proc_cur) => state'[q] \in Dead
           /\ it # proc_cur /\ under(it, proc_cur)
           /\ \A q \in Allocated \ {it} : proc_alive(state, q) => proc_alive(state', q)
<1>1. /\ Kill(it) /\ it' = proc_next(it, proc_cur) /\ mode' = IF it' = NULL THEN "prune" ELSE "kill"
      /\ UNCHANGED <<parent, globalid, proc_cur>>
      /\ it \in Allocated \ {First} /\ TypeOK /\ TreeInv
  BY DEF IntrStep, IndInv, LoopOK
<1>2. SameTree
  BY <1>1, KillTreeKept
<1>3. TreeFacts
  BY FactsOfInv
<1>4. /\ \A q \in Proc \ {it} :
            \/ state'[q] = state[q]
            \/ state[q] = "TOREAP" /\ state'[q] \in {"TOMBSTONE", "DEADLEAF"}
            \/ state[q] = "WAITS4CHILDDEATH" /\ state'[q] = "RUNNING"
      /\ state'[it] \in {"TOREAP", "TOMBSTONE", "DEADLEAF"}
  BY <1>1, KillEffect
<1>5. /\ state'[it] \in Dead
      /\ \A q \in Proc : state[q] \in Dead => state'[q] \in Dead
      /\ \A q \in Allocated \ {it} : proc_alive(state, q) => proc_alive(state', q)
  <2>1. state'[it] \in Dead
    BY <1>4 DEF Dead
  <2>2. ASSUME NEW q \in Proc, state[q] \in Dead PROVE state'[q] \in Dead
    BY <1>4, <2>1, <2>2 DEF Dead
  <2>3. ASSUME NEW q \in Allocated \ {it}, proc_alive(state, q) PROVE proc_alive(state', q)
    BY <1>4, <2>3 DEF Dead, proc_alive, Allocated
  <2> QED BY <2>1, <2>2, <2>3
<1>6. PICK A, D : Walk(A, D, it, proc_cur) /\ \A v \in Passed(A, D, it) \ {proc_cur} : state[v] \in Dead
  BY DEF KillInv
<1>7. it # proc_cur
  BY DEF KillInv
<1>8. PICK n, c : n = it' /\ c = proc_cur
  OBVIOUS
<1>9. /\ n # NULL => n # c /\ \E B, E : Walk(B, E, n, c) /\ E \cup (B \ {n}) \subseteq D \cup A
      /\ n = NULL => Closed(D \cup A, c)
  <2>1. GoesOn(A, D, proc_cur, proc_next(it, proc_cur))
    BY <1>3, <1>6, <1>7, WalkStep
  <2> QED BY <1>1, <1>8, <2>1 DEF GoesOn
<1>10. \A v \in (D \cup A) \ {c} : state'[v] \in Dead
  <2>1. D \cup A \subseteq Proc
    BY <1>6 DEF Walk, Allocated
  <2> QED BY <1>5, <1>6, <1>8, <2>1 DEF Passed
<1>11. KillInv'
  <2>1. CASE n # NULL
    <3>1. PICK B, E : Walk(B, E, n, c) /\ E \cup (B \ {n}) \subseteq D \cup A
      BY <1>9, <2>1
    <3>2. Walk(B, E, n, c)'
      BY <1>2, <3>1, WalkKept
    <3>3. it' = n /\ proc_cur' = c /\ n # c
      BY <1>1, <1>8, <1>9, <2>1
    <3>4. Walk(B, E, it, proc_cur)'
      BY <3>2, <3>3 DEF Walk
    <3>5. \A v \in Passed(B, E, n) \ {c} : state'[v] \in Dead
      BY <1>10, <3>1 DEF Passed
    <3> QED BY <3>3, <3>4, <3>5 DEF KillInv
  <2>2. CASE n = NULL
    BY <1>1, <1>8, <2>2 DEF KillInv
  <2> QED BY <2>1, <2>2
<1>12. ASSUME mode' = "prune", NEW q \in Allocated \ {proc_cur}, under(q, proc_cur) PROVE state'[q] \in Dead
  <2>1. Closed(D \cup A, c)
    BY <1>1, <1>8, <1>9, <1>12
  <2>2. q \in D \cup A
    BY <1>3, <1>8, <1>12, <2>1, ClosedSubtree
  <2> QED BY <1>8, <1>10, <1>12, <2>2
<1>13. under(it, proc_cur)
  BY <1>3, <1>6, WalkBelow
<1> QED BY <1>5, <1>7, <1>11, <1>12, <1>13

-----------------------------------------------------------------------------
LEMMA WalkInit == ASSUME Init PROVE WalkInv
<1>1. IndInv
  BY InitInd
<1>2. IdsInv
  BY DEF Init, IdsInv, UniqueIds, FreedOK, Allocated
<1>3. ScanInv /\ KillInv /\ IdleOnlyIfNothingRuns
  BY DEF Init, ScanInv, KillInv, IdleOnlyIfNothingRuns
<1> QED BY <1>1, <1>2, <1>3 DEF WalkInv

\* Outside of the searches there is nothing to show.
LEMMA NoWalk ==
    ASSUME mode' \notin {"scan", "kill", "idle"}
    PROVE  ScanInv' /\ KillInv' /\ IdleOnlyIfNothingRuns'
  BY DEF ScanInv, KillInv, IdleOnlyIfNothingRuns

LEMMA WalkNext == ASSUME WalkInv, [Next]_vars PROVE WalkInv'
<1>1. IndInv /\ IdsInv /\ ScanInv /\ KillInv /\ IdleOnlyIfNothingRuns /\ TreeFacts /\ TypeOK
  BY FactsOfInv DEF WalkInv, IndInv
<1>2. IndInv' /\ IdsInv'
  BY <1>1, NextInd, IdsInd
<1>3. SUFFICES ScanInv' /\ KillInv' /\ IdleOnlyIfNothingRuns'
  BY <1>2 DEF WalkInv
<1>4. CASE Fork \/ ForkFail \/ Exit \/ Wait2 \/ IntrSet \/ Block \/ WakeOther
  BY <1>4, NoWalk DEF Fork, ForkFail, Exit, Wait2, IntrSet, Block, WakeOther, Return
<1>5. CASE GetProcfs
  BY <1>5, NoWalk DEF GetProcfs, Return
<1>6. CASE NsCreateStep \/ PruneStep
  BY <1>6, NoWalk DEF NsCreateStep, PruneStep
<1>7. CASE Intr
  <2>1. /\ it' = child(proc_cur) /\ UNCHANGED <<state, parent, globalid, proc_cur>>
        /\ mode' \in {"prune", "intr", "kill"} /\ (child(proc_cur) = NULL => mode' = "prune")
        /\ mode = "user"
    BY <1>7 DEF Intr, User, tree
  <2>2. proc_cur \in Allocated
    BY <1>1, <2>1 DEF IndInv, LoopOK, TypeOK, Allocated
  <2>3. CASE mode' = "kill"
    <3>1. KillInv'
      BY <1>1, <2>1, <2>2, <2>3, KillBegins
    <3> QED BY <2>3, <3>1 DEF ScanInv, IdleOnlyIfNothingRuns
  <2>4. CASE mode' # "kill"
    BY <2>1, <2>4, NoWalk
  <2> QED BY <2>3, <2>4
<1>8. CASE IntrStep
  <2>1. CASE mode = "kill"
    <3>1. KillInv'
      BY <1>1, <1>8, <2>1, KillGoesOn
    <3>2. mode' \in {"kill", "prune"}
      BY <1>8, <2>1 DEF IntrStep
    <3> QED BY <3>1, <3>2 DEF ScanInv, IdleOnlyIfNothingRuns
  <2>2. CASE mode # "kill"
    <3>1. mode' \in {"intr", "prune"}
      BY <1>8, <2>2 DEF IntrStep
    <3> QED BY <3>1, NoWalk
  <2> QED BY <2>1, <2>2
<1>9. CASE PruneEnd
  <2>1. UNCHANGED <<state, parent, globalid>> /\ (mode' = "off" \/ (mode' = "scan" /\ it' = First))
    BY <1>9 DEF PruneEnd, tree
  <2>2. SameTree
    BY <2>1 DEF SameTree
  <2>3. CASE mode' = "scan"
    <3>1. ScanInv'
      BY <1>1, <2>1, <2>2, <2>3, ScanBegins
    <3> QED BY <2>3, <3>1 DEF KillInv, IdleOnlyIfNothingRuns
  <2>4. CASE mode' = "off"
    BY <2>4, NoWalk
  <2> QED BY <2>1, <2>3, <2>4
<1>10. CASE ScanStep
  <2>1. ScanInv' /\ IdleOnlyIfNothingRuns'
    BY <1>1, <1>10, ScanGoesOn
  <2>2. mode' # "kill"
    BY <1>10 DEF ScanStep
  <2> QED BY <2>1, <2>2 DEF KillInv
<1>11. CASE Idle
  <2>1. UNCHANGED <<parent, globalid>> /\ mode' = "scan" /\ it' = First
    BY <1>11 DEF Idle
  <2>2. state' = state \/ \E p \in Proc : state[p] \in AllWaitStates /\ state' = [state EXCEPT ![p] = "RUNNING"]
    BY <1>11 DEF Idle
  <2>3. SameTree
    BY <1>1, <2>1, <2>2 DEF SameTree, TypeOK, AllWaitStates
  <2>4. ScanInv'
    BY <1>1, <2>1, <2>3, ScanBegins
  <2> QED BY <2>1, <2>4 DEF KillInv, IdleOnlyIfNothingRuns
<1>12. CASE UNCHANGED vars
  <2>1. UNCHANGED <<state, parent, globalid, mode, it, proc_cur>>
    BY <1>12 DEF vars
  <2>2. SameTree
    BY <2>1 DEF SameTree
  <2>3. IdleOnlyIfNothingRuns'
    BY <1>1, <2>1 DEF IdleOnlyIfNothingRuns
  <2>4. ScanInv'
    <3>1. SUFFICES ASSUME mode = "scan" PROVE ScanInv'
      BY <2>1 DEF ScanInv
    <3>2. PICK A, D : Walk(A, D, it, First) /\ \A v \in Passed(A, D, it) : state[v] # "RUNNING"
      BY <1>1, <3>1 DEF ScanInv
    <3>3. PICK n : n = it
      OBVIOUS
    <3>4. Walk(A, D, n, First)'
      BY <2>2, <3>2, <3>3, WalkKept
    <3>5. Walk(A, D, it, First)'
      BY <2>1, <3>3, <3>4 DEF Walk
    <3> QED BY <2>1, <3>2, <3>5 DEF ScanInv
  <2>5. KillInv'
    <3>1. SUFFICES ASSUME mode = "kill" PROVE KillInv'
      BY <2>1 DEF KillInv
    <3>2. PICK A, D : Walk(A, D, it, proc_cur) /\ \A v \in Passed(A, D, it) \ {proc_cur} : state[v] \in Dead
      BY <1>1, <3>1 DEF KillInv
    <3>3. PICK n, c : n = it /\ c = proc_cur
      OBVIOUS
    <3>4. Walk(A, D, n, c)'
      BY <2>2, <3>2, <3>3, WalkKept
    <3>5. Walk(A, D, it, proc_cur)'
      BY <2>1, <3>3, <3>4 DEF Walk
    <3>6. it # proc_cur
      BY <1>1, <3>1 DEF KillInv
    <3> QED BY <2>1, <3>2, <3>5, <3>6 DEF KillInv
  <2> QED BY <2>3, <2>4, <2>5
<1> QED BY <1>4, <1>5, <1>6, <1>7, <1>8, <1>9, <1>10, <1>11, <1>12 DEF Next, Syscall, Kernel

LEMMA WalkInductive == Spec => []WalkInv
<1>1. Init => WalkInv
  BY WalkInit
<1>2. WalkInv /\ [Next]_vars => WalkInv'
  BY WalkNext
<1> QED BY <1>1, <1>2, PTL DEF Spec

-----------------------------------------------------------------------------
\* The kill of _sys_intr, step by step.
LEMMA NextSubtree == WalkInv /\ [Next]_vars => [SubtreeStep]_vars
<1> SUFFICES ASSUME WalkInv, Next PROVE SubtreeStep
  OBVIOUS
<1>1. CASE mode # "kill"
  BY <1>1 DEF SubtreeStep
<1>2. CASE mode = "kill"
  <2>1. IntrStep
    BY <1>2 DEF Next, Syscall, Kernel, Fork, ForkFail, Exit, Wait2, Intr, IntrSet, Block, WakeOther,
                GetProcfs, User, NsCreateStep, PruneStep, PruneEnd, ScanStep, Idle
  <2>2. IndInv /\ IdsInv /\ KillInv
    BY DEF WalkInv
  <2>3. /\ mode' = "prune" =>
             \A q \in Allocated \ {proc_cur} : under(q, proc_cur) => state'[q] \in Dead
        /\ it # proc_cur /\ under(it, proc_cur)
        /\ \A q \in Allocated \ {it} : proc_alive(state, q) => proc_alive(state', q)
    BY <1>2, <2>1, <2>2, KillGoesOn
  <2>4. ASSUME NEW q \in Allocated, proc_alive(state, q), state'[q] \in Dead PROVE q = it
    BY <2>3, <2>4 DEF proc_alive
  <2> QED BY <2>3, <2>4 DEF SubtreeStep
<1> QED BY <1>1, <1>2

-----------------------------------------------------------------------------
(* Reports of deaths. *)

\* What proc_tryreap(p) does when the processes are in the states st: it
\* collects p for a parent that waits for it, which is woken, or buries it.
LEMMA TryreapReports ==
    ASSUME NEW st, NEW p \in Proc, parent[p] \in Proc \ {p}, NEW s2, s2 = proc_tryreap(st, p)
    PROVE  /\ \A q \in Proc \ {p} : \/ s2[q] = st[q]
                                    \/ /\ q = parent[p] /\ s2[q] = "RUNNING" /\ Collected(st, p)
                                       /\ s2[p] \in {"TOMBSTONE", "DEADLEAF"}
           /\ Collectable(st, p) => s2[p] = "TOREAP" \/ (Collected(st, p) /\ s2[parent[p]] = "RUNNING")
           /\ s2[p] = st[p] \/ s2[p] \in {"TOMBSTONE", "DEADLEAF"}
<1>1. CASE Collectable(st, p) /\ ~Collected(st, p)
  BY <1>1 DEF proc_tryreap, Collectable
<1>2. CASE ~(Collectable(st, p) /\ ~Collected(st, p))
  <2>1. s2 = [q \in Proc |-> IF q = p THEN Buried(st, p)
                             ELSE IF q = parent[p] /\ Collected(st, p) THEN "RUNNING" ELSE st[q]]
    BY <1>2 DEF proc_tryreap
  <2>2. Buried(st, p) \in {"TOMBSTONE", "DEADLEAF"}
    BY DEF Buried
  <2> QED BY <1>2, <2>1, <2>2
<1> QED BY <1>1, <1>2

\* A step that reports no death, and wakes nobody who waits for one.
LEMMA NoReport ==
    ASSUME \A p \in Proc : \/ state'[p] = state[p] \/ state'[p] \notin {"TOMBSTONE", "DEADLEAF"}
                           \/ state[p] \in {"TOMBSTONE", "DEADLEAF", "FREED"} \/ noreap[p],
           \A p \in Proc : state[p] = "WAITS4CHILDDEATH" => state'[p] # "RUNNING"
    PROVE  ReportStep
<1>1. \A p \in Proc : ~Reported(p)
  BY DEF Reported
<1> QED BY <1>1 DEF ReportStep

\* A step in which the death of p is the only one that may be reported: all
\* others that lose their message have a parent that is dead afterwards, and
\* only the parent of p may be woken.
LEMMA OneReport ==
    ASSUME NEW p \in Proc,
           \A q \in Proc \ {p} : Reported(q) => FALSE,
           Reported(p) => /\ state[parent[p]] = "WAITS4CHILDDEATH" \/ proc_cur = parent[p]
                          /\ state'[parent[p]] = "RUNNING",
           \A q \in Proc : state[q] = "WAITS4CHILDDEATH" /\ state'[q] = "RUNNING" =>
                Reported(p) /\ q = parent[p]
    PROVE  ReportStep
  BY DEF ReportStep

LEMMA KillReports ==
    ASSUME IndInv, NEW p \in Allocated, p = First => proc_alive(state, p), Kill(p)
    PROVE  ReportStep
<1> USE DEF IndInv
<1>1. /\ p \in Proc /\ NULL \notin Proc /\ (p # First => parent[p] \in Proc /\ parent[p] # NULL /\ parent[p] # p)
      /\ parent[First] = NULL
  BY ProcAssumption DEF TreeInv, TreeOK, Allocated, TypeOK, InitOK
<1>2. state'[p] \in Dead /\ state'[p] \in {"TOREAP", "TOMBSTONE", "DEADLEAF"}
  BY KillEffect DEF Dead
<1>3. CASE proc_alive(state, p)
  <2>0. PICK l : l = lostStates(p)
    OBVIOUS
  <2>1. /\ l[p] = IF proc_alive(state, parent[p]) THEN "TOREAP" ELSE "TOMBSTONE"
        /\ \A q \in Toreap(p) : q # p /\ parent[q] = p
        /\ \A q \in Proc \ {p} : q \notin Toreap(p) => l[q] = state[q]
        /\ \A q \in Toreap(p) : l[q] \in {"TOMBSTONE", "DEADLEAF"} /\ state[q] = "TOREAP"
    <3>1. \A q \in Toreap(p) : q # p /\ parent[q] = p /\ state[q] = "TOREAP" /\ q \in Proc
      BY <1>3 DEF Toreap, Children, proc_alive, Dead
    <3>2. p \notin Toreap(p)
      BY <3>1
    <3> QED BY <1>1, <2>0, <3>1, <3>2 DEF lostStates, dyingStates, Buried
  <2>2. state' = IF p = First THEN l ELSE proc_tryreap(l, p)
    BY <1>3, <2>0 DEF Kill, Bury
  <2>3. CASE p = First
    <3>1. \A q \in Proc : ~Reported(q)
      <4> SUFFICES ASSUME NEW q \in Proc, Reported(q) PROVE FALSE
        OBVIOUS
      <4>1. parent[q] # NULL /\ state'[parent[q]] \notin Dead /\ state'[q] # state[q]
        BY DEF Reported
      <4>2. q # p
        BY <1>1, <2>3, <4>1
      <4>3. parent[q] = p
        BY <2>1, <2>2, <2>3, <4>1, <4>2
      <4> QED BY <1>2, <4>1, <4>3
    <3>2. \A q \in Proc : state[q] = "WAITS4CHILDDEATH" => state'[q] # "RUNNING"
      <4> SUFFICES ASSUME NEW q \in Proc, state[q] = "WAITS4CHILDDEATH", state'[q] = "RUNNING" PROVE FALSE
        OBVIOUS
      <4>1. q # p
        BY <1>2 DEF Dead
      <4> QED BY <2>1, <2>2, <2>3, <4>1
    <3> QED BY <3>1, <3>2 DEF ReportStep
  <2>4. CASE p # First
    <3>1. parent[p] \in Proc \ {p} /\ parent[p] # NULL
      BY <1>1, <2>4
    <3>2. parent[p] \notin Toreap(p) /\ l[parent[p]] = state[parent[p]]
      <4>1. parent[p] \in Allocated
        BY <2>4 DEF TreeInv, TreeOK
      <4>2. globalid[parent[p]] < globalid[p] /\ globalid[p] \in Nat /\ globalid[parent[p]] \in Nat
        BY <1>1, <2>4, <3>1 DEF TreeInv, TreeOK, TypeOK
      <4>3. ASSUME parent[p] \in Toreap(p) PROVE FALSE
        <5>1. parent[p] # First /\ parent[parent[p]] = p
          BY <1>1, <2>1, <4>3
        <5>2. globalid[p] < globalid[parent[p]]
          BY <4>1, <5>1 DEF TreeInv, TreeOK
        <5> QED BY <4>2, <5>2
      <4> QED BY <2>1, <3>1, <4>3
    <3>3. /\ \A q \in Proc \ {p} : \/ state'[q] = l[q]
                                   \/ /\ q = parent[p] /\ state'[q] = "RUNNING" /\ Collected(l, p)
                                      /\ state'[p] \in {"TOMBSTONE", "DEADLEAF"}
          /\ Collectable(l, p) => state'[p] = "TOREAP" \/ (Collected(l, p) /\ state'[parent[p]] = "RUNNING")
      <4>1. PICK s2 : s2 = proc_tryreap(l, p)
        OBVIOUS
      <4>2. state' = s2
        BY <2>2, <2>4, <4>1
      <4> QED BY <1>1, <3>1, <4>1, <4>2, TryreapReports
    <3>4. Collected(l, p) => state[parent[p]] = "WAITS4CHILDDEATH" /\ ~noreap[p]
      BY <3>2 DEF Collected, Collectable, Awaits
    <3>5. ASSUME NEW q \in Proc \ {p}, Reported(q) PROVE FALSE
      <4>1. parent[q] # NULL /\ state'[parent[q]] \notin Dead /\ state'[q] \in {"TOMBSTONE", "DEADLEAF"}
            /\ state[q] \notin {"TOMBSTONE", "DEADLEAF"}
        BY <3>5 DEF Reported
      <4>2. q \in Toreap(p)
        BY <2>1, <3>3, <4>1
      <4> QED BY <1>2, <2>1, <4>1, <4>2
    <3>6. ASSUME Reported(p)
          PROVE  state[parent[p]] = "WAITS4CHILDDEATH" /\ state'[parent[p]] = "RUNNING"
      <4>1. ~noreap[p] /\ state'[parent[p]] \notin Dead /\ state'[p] # "TOREAP"
        BY <3>6 DEF Reported
      <4>2. proc_alive(state, parent[p])
        <5>1. CASE state'[parent[p]] = l[parent[p]]
          BY <3>1, <3>2, <4>1, <5>1 DEF proc_alive
        <5>2. CASE Collected(l, p)
          BY <3>1, <3>2, <5>2 DEF Collected, Collectable, proc_alive
        <5> QED BY <3>1, <3>3, <5>1, <5>2
      <4>3. Collectable(l, p)
        BY <2>1, <3>2, <4>1, <4>2 DEF Collectable, proc_alive
      <4> QED BY <3>3, <3>4, <4>1, <4>3
    <3>7. ASSUME NEW q \in Proc, state[q] = "WAITS4CHILDDEATH", state'[q] = "RUNNING"
          PROVE  Reported(p) /\ q = parent[p]
      <4>1. q # p /\ q \notin Toreap(p)
        BY <1>2, <2>1, <3>7 DEF Dead
      <4>2. l[q] = state[q]
        BY <2>1, <4>1
      <4>3. q = parent[p] /\ Collected(l, p) /\ state'[p] \in {"TOMBSTONE", "DEADLEAF"}
        BY <3>3, <3>7, <4>1, <4>2
      <4>4. state[p] \notin {"TOMBSTONE", "DEADLEAF", "FREED"}
        BY <1>3 DEF proc_alive, Dead
      <4>5. state'[parent[p]] \notin Dead
        BY <3>7, <4>3 DEF Dead
      <4> QED BY <3>1, <3>4, <4>3, <4>4, <4>5 DEF Reported
    <3> QED BY <1>1, <3>5, <3>6, <3>7, OneReport
  <2> QED BY <2>3, <2>4
<1>4. CASE ~proc_alive(state, p)
  <2>1. p # First /\ parent[p] \in Proc \ {p} /\ parent[p] # NULL
    BY <1>1, <1>4
  <2>2. state' = proc_tryreap(state, p)
    BY <1>4 DEF Kill, Bury
  <2>3. /\ \A q \in Proc \ {p} : \/ state'[q] = state[q]
                                 \/ /\ q = parent[p] /\ state'[q] = "RUNNING" /\ Collected(state, p)
                                    /\ state'[p] \in {"TOMBSTONE", "DEADLEAF"}
        /\ Collectable(state, p) => state'[p] = "TOREAP" \/ (Collected(state, p) /\ state'[parent[p]] = "RUNNING")
    <3>1. PICK s2 : s2 = proc_tryreap(state, p)
      OBVIOUS
    <3>2. state' = s2
      BY <2>2, <3>1
    <3> QED BY <1>1, <2>1, <3>1, <3>2, TryreapReports
  <2>4. Collected(state, p) => state[parent[p]] = "WAITS4CHILDDEATH" /\ ~noreap[p] /\ state[p] = "TOREAP"
    BY DEF Collected, Collectable, Awaits
  <2>5. ASSUME NEW q \in Proc \ {p}, Reported(q) PROVE FALSE
    BY <2>3, <2>5 DEF Reported
  <2>6. ASSUME Reported(p)
        PROVE  state[parent[p]] = "WAITS4CHILDDEATH" /\ state'[parent[p]] = "RUNNING"
    <3>1. ~noreap[p] /\ state'[p] # "TOREAP" /\ state[p] \notin {"TOMBSTONE", "DEADLEAF", "FREED"}
      BY <2>6 DEF Reported
    <3>2. state[p] = "TOREAP"
      BY <1>1, <1>4, <3>1 DEF proc_alive, Dead
    <3>3. Collectable(state, p)
      BY <2>1, <3>1, <3>2 DEF Collectable, TreeInv, TreeOK
    <3> QED BY <2>3, <2>4, <3>1, <3>3
  <2>7. ASSUME NEW q \in Proc, state[q] = "WAITS4CHILDDEATH", state'[q] = "RUNNING"
        PROVE  Reported(p) /\ q = parent[p]
    <3>1. q # p
      BY <1>2, <2>7 DEF Dead
    <3>2. q = parent[p] /\ Collected(state, p) /\ state'[p] \in {"TOMBSTONE", "DEADLEAF"}
      BY <2>3, <2>7, <3>1
    <3>3. state'[parent[p]] \notin Dead
      BY <2>7, <3>2 DEF Dead
    <3> QED BY <2>1, <2>4, <3>2, <3>3 DEF Reported
  <2> QED BY <1>1, <2>5, <2>6, <2>7, OneReport
<1> QED BY <1>3, <1>4

\* An iteration of proc_prune_leaves: the only death it may report is that of
\* the parent of the process it frees.
LEMMA PruneReports == ASSUME IndInv, PruneStep PROVE ReportStep
<1> USE DEF IndInv
<1>1. PICK p \in dead_leaves :
        /\ Cut(p)
        /\ LET freed == [state EXCEPT ![p] = "FREED"]
               up    == parent[p]
           IN IF proc_alive(state, up) THEN Bury(freed, freed) /\ UNCHANGED panic
              ELSE Bury(freed, proc_tryreap(freed, up)) /\ panic' = tryreap_asserts(freed, up)
        /\ pns' = [pns EXCEPT ![p] = p]
  BY PruneCuts
<1>2. p \in Proc /\ state[p] = "DEADLEAF" /\ state'[p] = "FREED" /\ p # First
  BY <1>1 DEF Cut, TreeInv, InitOK
<1>3. PICK up, fr : up = parent[p] /\ fr = [state EXCEPT ![p] = "FREED"]
  OBVIOUS
<1>4. up \in Allocated /\ up \in Proc /\ up # p
  <2>1. up \in Allocated /\ globalid[up] < globalid[p]
    BY <1>2, <1>3 DEF TreeInv, TreeOK, Allocated
  <2> QED BY <1>2, <2>1 DEF TypeOK, Allocated
<1>5. state' = IF proc_alive(state, up) THEN fr ELSE proc_tryreap(fr, up)
  BY <1>1, <1>3 DEF Bury
<1>6. fr[p] = "FREED" /\ (\A q \in Proc \ {p} : fr[q] = state[q])
  BY <1>2, <1>3 DEF TypeOK
<1>7. CASE state' = fr
  <2>1. \A q \in Proc : \/ state'[q] = state[q] \/ state'[q] = "FREED"
    BY <1>6, <1>7
  <2> QED BY <2>1, NoReport
<1>8. CASE ~proc_alive(state, up) /\ up = First
  <2>1. parent[First] = NULL /\ NULL \notin Proc
    BY ProcAssumption DEF TreeInv, InitOK
  <2>2. state' = proc_tryreap(fr, First)
    BY <1>5, <1>8
  <2>3. ~Collectable(fr, First)
    BY <2>1 DEF Collectable, proc_alive
  <2>4. \A q \in Proc \ {First} : state'[q] = fr[q]
    BY <2>1, <2>2, <2>3 DEF proc_tryreap
  <2>5. state[First] \in Dead /\ state[First] # "TOREAP"
    BY <1>4, <1>8, <2>1 DEF proc_alive, TreeInv, InitOK
  <2>6. \A q \in Proc \ {First} : \/ state'[q] = state[q] \/ state'[q] = "FREED"
    BY <1>6, <2>4
  <2>7. \A q \in Proc : state[q] = "WAITS4CHILDDEATH" => q # First
    BY <2>5 DEF Dead
  <2>8. state[First] \in {"TOMBSTONE", "DEADLEAF", "FREED"}
    BY <2>5 DEF Dead
  <2> QED BY <2>6, <2>7, <2>8, NoReport
<1>9. CASE ~proc_alive(state, up) /\ up # First
  <2>1. parent[up] \in Allocated /\ globalid[parent[up]] < globalid[up] /\ parent[up] \in Proc /\ up # parent[up]
    <3>1. parent[up] \in Allocated /\ globalid[parent[up]] < globalid[up]
      BY <1>4, <1>9 DEF TreeInv, TreeOK
    <3> QED BY <1>4, <3>1 DEF TypeOK, Allocated
  <2>2. parent[up] # p
    <3>1. globalid[up] < globalid[p]
      BY <1>2, <1>3 DEF TreeInv, TreeOK, Allocated
    <3> QED BY <1>2, <1>4, <2>1, <3>1 DEF TypeOK
  <2>3. fr[up] = state[up] /\ fr[parent[up]] = state[parent[up]] /\ state[up] \in Dead
    BY <1>4, <1>6, <1>9, <2>1, <2>2, ProcAssumption DEF proc_alive
  <2>4. PICK s2 : s2 = proc_tryreap(fr, up)
    OBVIOUS
  <2>5. state' = s2
    BY <1>5, <1>9, <2>4
  <2>6. /\ \A q \in Proc \ {up} : \/ state'[q] = fr[q]
                                  \/ /\ q = parent[up] /\ state'[q] = "RUNNING" /\ Collected(fr, up)
                                     /\ state'[up] \in {"TOMBSTONE", "DEADLEAF"}
        /\ Collectable(fr, up) => state'[up] = "TOREAP" \/ (Collected(fr, up) /\ state'[parent[up]] = "RUNNING")
    BY <1>4, <2>1, <2>4, <2>5, TryreapReports
  <2>7. Collected(fr, up) => state[parent[up]] = "WAITS4CHILDDEATH" /\ ~noreap[up] /\ state[up] = "TOREAP"
    BY <2>3 DEF Collected, Collectable, Awaits
  <2>8. ASSUME NEW q \in Proc \ {up}, Reported(q) PROVE FALSE
    <3>1. state'[q] # state[q] /\ state'[q] # "FREED" /\ state'[q] # "RUNNING"
      BY <2>8 DEF Reported
    <3> QED BY <1>6, <2>6, <3>1
  <2>9. ASSUME Reported(up)
        PROVE  state[parent[up]] = "WAITS4CHILDDEATH" /\ state'[parent[up]] = "RUNNING"
    <3>1. ~noreap[up] /\ state'[up] # "TOREAP" /\ state[up] \notin {"TOMBSTONE", "DEADLEAF", "FREED"}
      BY <2>9 DEF Reported
    <3>2. state[up] = "TOREAP"
      BY <2>3, <3>1 DEF Dead
    <3>3. proc_alive(state, parent[up])
      BY <1>4, <1>9, <3>2 DEF TreeInv, TreeOK
    <3>4. Collectable(fr, up)
      BY <2>3, <3>1, <3>2, <3>3 DEF Collectable, proc_alive
    <3> QED BY <2>6, <2>7, <3>1, <3>4
  <2>10. ASSUME NEW q \in Proc, state[q] = "WAITS4CHILDDEATH", state'[q] = "RUNNING"
         PROVE  Reported(up) /\ q = parent[up]
    <3>1. q # up /\ q # p
      BY <1>2, <2>3, <2>10 DEF Dead
    <3>2. q = parent[up] /\ Collected(fr, up) /\ state'[up] \in {"TOMBSTONE", "DEADLEAF"}
      BY <1>6, <2>6, <2>10, <3>1
    <3>3. state'[parent[up]] \notin Dead /\ parent[up] # NULL
      BY <2>1, <2>10, <3>2, ProcAssumption DEF Dead
    <3> QED BY <2>7, <3>2, <3>3 DEF Reported
  <2> QED BY <1>4, <2>8, <2>9, <2>10, OneReport
<1> QED BY <1>5, <1>7, <1>8, <1>9

LEMMA NextReports == ASSUME WalkInv, [Next]_vars PROVE [ReportStep]_vars
<1> SUFFICES ASSUME Next PROVE ReportStep
  OBVIOUS
<1>1. IndInv
  BY DEF WalkInv
<1>2. CASE Fork \/ ForkFail
  <2>1. PICK c \in Proc, nr \in BOOLEAN : \/ state' = [state EXCEPT ![c] = "RUNNING"] /\ state[c] = "FREED"
                                          \/ state' = [state EXCEPT ![c] = "DEADLEAF"] /\ state[c] = "FREED"
    BY <1>2 DEF Fork, ForkFail, proc_fork
  <2>2. \A q \in Proc : state'[q] = state[q] \/ state[q] = "FREED"
    BY <1>1, <2>1 DEF IndInv, TypeOK
  <2> QED BY <2>2, NoReport
<1>3. CASE Exit
  <2>1. Kill(proc_cur) /\ state[proc_cur] = "RUNNING" /\ proc_cur \in Proc
    BY <1>1, <1>3 DEF Exit, User, IndInv, LoopOK, TypeOK
  <2>2. proc_cur \in Allocated /\ proc_alive(state, proc_cur)
    BY <2>1, ProcAssumption DEF Allocated, proc_alive, Dead
  <2> QED BY <1>1, <2>1, <2>2, KillReports
<1>4. CASE Wait2
  <2>1. /\ state[proc_cur] = "RUNNING"
        /\ \/ /\ \E d \in Proc : /\ state[d] = "TOREAP" /\ ~noreap[d] /\ parent[d] = proc_cur
                                 /\ state'[d] \in {"TOMBSTONE", "DEADLEAF"}
                                 /\ \A q \in Proc \ {d} : state'[q] = state[q]
           \/ /\ state'[proc_cur] = "WAITS4CHILDDEATH"
              /\ \A q \in Proc \ {proc_cur} : state'[q] = state[q]
           \/ state' = state
    BY <1>1, <1>4, Wait2Effect
  <2>2. CASE \E d \in Proc : /\ state[d] = "TOREAP" /\ ~noreap[d] /\ parent[d] = proc_cur
                             /\ state'[d] \in {"TOMBSTONE", "DEADLEAF"}
                             /\ \A q \in Proc \ {d} : state'[q] = state[q]
    <3>1. PICK d \in Proc : /\ state[d] = "TOREAP" /\ ~noreap[d] /\ parent[d] = proc_cur
                            /\ state'[d] \in {"TOMBSTONE", "DEADLEAF"}
                            /\ \A q \in Proc \ {d} : state'[q] = state[q]
      BY <2>2
    <3>2. proc_cur \in Proc /\ proc_cur # d /\ state'[proc_cur] = "RUNNING"
      BY <1>1, <2>1, <3>1 DEF IndInv, TypeOK
    <3>3. \A q \in Proc \ {d} : ~Reported(q)
      BY <3>1 DEF Reported
    <3>4. \A q \in Proc : state[q] = "WAITS4CHILDDEATH" => state'[q] # "RUNNING"
      BY <3>1
    <3> QED BY <3>1, <3>2, <3>3, <3>4, OneReport
  <2>3. CASE \/ /\ state'[proc_cur] = "WAITS4CHILDDEATH"
                /\ \A q \in Proc \ {proc_cur} : state'[q] = state[q]
             \/ state' = state
    BY <2>1, <2>3, NoReport
  <2> QED BY <2>1, <2>2, <2>3
<1>5. CASE IntrStep
  <2>1. CASE mode = "kill"
    <3>1. Kill(it)
      BY <1>5, <2>1 DEF IntrStep
    <3>2. it \in Allocated /\ it # First
      BY <1>1, <2>1 DEF IndInv, LoopOK
    <3> QED BY <1>1, <3>1, <3>2, KillReports
  <2>2. CASE mode # "kill"
    <3>1. state' = IF intr_fn[it] /\ state[it] = "WAITS4TIMER" THEN [state EXCEPT ![it] = "RUNNING"] ELSE state
      BY <1>5, <2>2 DEF IntrStep
    <3>2. \A q \in Proc : state'[q] = state[q] \/ (state[q] = "WAITS4TIMER" /\ state'[q] = "RUNNING")
      BY <1>1, <3>1 DEF IndInv, TypeOK
    <3> QED BY <3>2, NoReport
  <2> QED BY <2>1, <2>2
<1>6. CASE PruneStep
  BY <1>1, <1>6, PruneReports
<1>7. CASE Block
  <2>1. PICK s \in WaitStates : state' = [state EXCEPT ![proc_cur] = s]
    BY <1>7 DEF Block
  <2>2. s \in AllWaitStates
    BY ProcAssumption
  <2>3. \A q \in Proc : state'[q] = state[q] \/ state'[q] \in AllWaitStates
    BY <1>1, <2>1, <2>2 DEF IndInv, TypeOK
  <2> QED BY <2>3, NoReport DEF AllWaitStates
<1>8. CASE WakeOther \/ Idle
  <2>1. \/ state' = state
        \/ \E p \in Proc : state[p] \in AllWaitStates /\ state' = [state EXCEPT ![p] = "RUNNING"]
    BY <1>8 DEF WakeOther, Idle
  <2>2. \A q \in Proc : \/ state'[q] = state[q]
                        \/ state[q] \in AllWaitStates /\ state'[q] = "RUNNING"
    BY <1>1, <2>1 DEF IndInv, TypeOK
  <2> QED BY <2>2, NoReport DEF AllWaitStates
<1>9. CASE Intr \/ IntrSet \/ GetProcfs \/ NsCreateStep \/ PruneEnd \/ ScanStep
  <2>1. state' = state
    BY <1>9 DEF Intr, IntrSet, GetProcfs, NsCreateStep, PruneEnd, ScanStep, tree
  <2> QED BY <2>1, NoReport
<1> QED BY <1>2, <1>3, <1>4, <1>5, <1>6, <1>7, <1>8, <1>9 DEF Next, Syscall, Kernel

\* A death is reported exactly once and to the parent that waits for it
\* (proc_tryreap, _sys_wait2), and the loop of _sys_intr with "kill" kills
\* every process below the caller and no other, in every tree of processes.
THEOREM DeathsAlwaysExact == Spec => DeathsExact
<1>1. WalkInv /\ [Next]_vars => [ReportStep]_vars
  BY NextReports
<1> QED BY WalkInductive, NextSubtree, <1>1, PTL
        DEF Spec, DeathsExact, DeathReportedOnce, IntrKillsSubtree

-----------------------------------------------------------------------------
(* Namespaces. *)

\* The premise: getprocfs is called where the walk of proc_ns_create ends
\* before it comes to a sibling of the caller, or it is not called at all.
NsCareful == ~NsAnywhere \/ "getprocfs" \notin Calls

\* The namespace of p as it was before the walk of proc_ns_create began.
Opns(p) == IF mode = "nscreate" /\ pns[p] = proc_cur THEN old ELSE pns[p]

\* An owner is in its own namespace, and no younger than the members.
OwnersOK ==
    /\ pns[First] = First
    /\ \A p \in Allocated : /\ pns[p] \in Allocated /\ pns[pns[p]] = pns[p]
                            /\ globalid[pns[p]] <= globalid[p]

\* A process that owns no namespace is in that of its parent.
NsTreeOK == \A p \in Allocated \ {First} : pns[p] # p => Opns(p) = Opns(parent[p])

\* The numbers are those of the namespace of the parent: below its counter,
\* above the 1 of the owner, and different from each other.
NumbersOK ==
    /\ \A n \in Allocated : pns[n] = n => nextlid[n] >= 2
    /\ \A p \in Allocated \ {First} : localid[p] >= 2 /\ localid[p] < nextlid[Opns(parent[p])]
    /\ \A p, q \in Allocated \ {First} :
        Opns(parent[p]) = Opns(parent[q]) /\ localid[p] = localid[q] => p = q

\* What proc_ns_create need not look at: the members of other namespaces below
\* the caller, except for the owners that have a number in this one.
Outside == {v \in Allocated \ {First} : /\ globalid[v] > globalid[proc_cur]
                                        /\ Opns(v) # old /\ Opns(parent[v]) # old}

\* The walk of proc_ns_create.  On the path to `it' everything has been moved;
\* what it has left behind is not in the old namespace any more, and has a
\* number below the counter of the new one; what lies ahead has not been moved.
NsPath(A, D) ==
    /\ Walk(A, D, it, proc_cur)
    /\ \A a \in A \ {it} : pns[a] = proc_cur
    /\ \A a \in A \ {proc_cur}, w \in Allocated :
        parent[w] = parent[a] /\ globalid[w] < globalid[a] => pns[w] # proc_cur
    /\ Outside \subseteq D
    /\ \A v \in Passed(A, D, it) \ {proc_cur, First} :
        /\ pns[v] # old /\ pns[parent[v]] # old
        /\ pns[parent[v]] = proc_cur => localid[v] < nextlid[proc_cur]
NsWalkInv == mode = "nscreate" =>
    /\ proc_cur \in Allocated \ {First} /\ old \in Allocated /\ globalid[old] < globalid[proc_cur]
    /\ pns[old] = old /\ pns[proc_cur] = proc_cur /\ sibling(proc_cur) = NULL
    /\ it # proc_cur /\ pns[it] # proc_cur
    /\ \A q \in Allocated \ {proc_cur} : pns[q] = proc_cur => pns[parent[q]] = proc_cur
    /\ \E A, D \in SUBSET Proc : NsPath(A, D)

NsInv == OwnersOK /\ NsTreeOK /\ NumbersOK /\ NsWalkInv

-----------------------------------------------------------------------------
(* Steps that leave the namespaces alone. *)

\* The names that a step which changes neither the tree nor the namespaces
\* keeps, when the kernel is not in proc_ns_create before or after it.
SameNames == UNCHANGED <<pns, localid, nextlid>>

LEMMA NsKept ==
    ASSUME NsInv, SameTree, SameNames, mode # "nscreate", mode' # "nscreate"
    PROVE  NsInv'
<1>1. Allocated' = Allocated /\ parent' = parent /\ globalid' = globalid
  BY DEF SameTree, Allocated
<1>2. pns' = pns /\ localid' = localid /\ nextlid' = nextlid
  BY DEF SameNames
<1>3. \A p : Opns(p)' = Opns(p)
  BY <1>2 DEF Opns
<1>4. OwnersOK'
  BY <1>1, <1>2 DEF NsInv, OwnersOK
<1>5. NsTreeOK'
  <2>1. \A p \in Allocated \ {First} : pns[p] # p => Opns(p) = Opns(parent[p])
    BY DEF NsInv, NsTreeOK
  <2> QED BY <1>1, <1>2, <1>3, <2>1 DEF NsTreeOK
<1>6. NumbersOK'
  <2>1. NumbersOK
    BY DEF NsInv
  <2> QED BY <1>1, <1>2, <1>3, <2>1 DEF NumbersOK
<1>7. NsWalkInv'
  BY DEF NsWalkInv
<1> QED BY <1>4, <1>5, <1>6, <1>7 DEF NsInv

LEMMA NsInit == ASSUME Init PROVE NsInv
<1>1. Allocated = {First}
  BY ProcAssumption DEF Init, Allocated
<1>2. pns[First] = First /\ nextlid[First] = 2 /\ globalid[First] = 1 /\ mode # "nscreate"
  BY ProcAssumption DEF Init
<1> QED BY <1>1, <1>2 DEF NsInv, OwnersOK, NsTreeOK, NumbersOK, NsWalkInv

\* Outside proc_ns_create.
LEMMA OutsideWalk ==
    ASSUME NsInv, mode # "nscreate"
    PROVE  /\ \A p : Opns(p) = pns[p]
           /\ \A p \in Allocated \ {First} : pns[p] # p => pns[p] = pns[parent[p]]
<1>1. \A p : Opns(p) = pns[p]
  BY DEF Opns
<1> QED BY <1>1 DEF NsInv, NsTreeOK

-----------------------------------------------------------------------------
(* proc_fork gives the child the next number of the namespace. *)

LEMMA NsFork ==
    ASSUME IndInv, IdsInv, NsInv, mode = "user", mode' # "nscreate", NEW c \in Proc, NEW nr, proc_fork(c, nr),
           state'[c] # "FREED", \A q \in Proc \ {c} : state'[q] = state[q]
    PROVE  NsInv'
<1>1. PICK u, n : u = proc_cur /\ n = pns[u]
  OBVIOUS
<1>2. /\ u \in Allocated /\ u \in Proc /\ n \in Allocated /\ n \in Proc /\ pns[n] = n /\ globalid[n] <= globalid[u]
      /\ c \notin Allocated /\ next_pid \in Nat
      /\ \A p \in Allocated : globalid[p] \in Nat /\ globalid[p] < next_pid /\ p \in Proc /\ p # c
  <2>1. u \in Allocated /\ c \notin Allocated
    BY <1>1 DEF IndInv, TypeOK, LoopOK, Allocated, proc_fork
  <2>2. \A p \in Allocated : globalid[p] \in Nat /\ globalid[p] < next_pid /\ p \in Proc
    BY DEF IndInv, TypeOK, TreeInv, IdsOK, Allocated
  <2> QED BY <1>1, <2>1, <2>2 DEF NsInv, OwnersOK, IndInv, TypeOK, Allocated
<1>3. Allocated' = Allocated \cup {c}
  BY DEF Allocated
<1>4. /\ parent'[c] = u /\ globalid'[c] = next_pid /\ pns'[c] = n /\ localid'[c] = nextlid[n]
      /\ nextlid'[n] = nextlid[n] + 1
      /\ \A q \in Allocated : /\ parent'[q] = parent[q] /\ globalid'[q] = globalid[q] /\ pns'[q] = pns[q]
                              /\ localid'[q] = localid[q] /\ (q # n => nextlid'[q] = nextlid[q])
  <2>1. parent'[c] = u /\ \A q \in Allocated : parent'[q] = parent[q]
    BY <1>1, <1>2 DEF proc_fork, IndInv, TypeOK
  <2>2. globalid'[c] = next_pid /\ \A q \in Allocated : globalid'[q] = globalid[q]
    BY <1>1, <1>2 DEF proc_fork, IndInv, TypeOK
  <2>3. pns'[c] = n /\ \A q \in Allocated : pns'[q] = pns[q]
    BY <1>1, <1>2 DEF proc_fork, IndInv, TypeOK
  <2>4. localid'[c] = nextlid[n] /\ \A q \in Allocated : localid'[q] = localid[q]
    BY <1>1, <1>2 DEF proc_fork, IndInv, TypeOK
  <2>5. nextlid'[n] = nextlid[n] + 1 /\ \A q \in Allocated : q # n => nextlid'[q] = nextlid[q]
    <3>1. nextlid' = [nextlid EXCEPT ![c] = 0, ![n] = @ + 1]
      BY <1>1 DEF proc_fork
    <3> QED BY <1>2, <3>1 DEF IndInv, TypeOK
  <2> QED BY <2>1, <2>2, <2>3, <2>4, <2>5
<1>5. /\ \A p \in Allocated : pns[p] \in Allocated /\ pns[pns[p]] = pns[p] /\ globalid[pns[p]] <= globalid[p]
      /\ pns[First] = First /\ First \in Allocated
      /\ \A p \in Allocated \ {First} : parent[p] \in Allocated
  <2>1. \A p \in Allocated \ {First} : parent[p] \in Allocated
    BY DEF IndInv, TreeInv, TreeOK
  <2>2. First \in Allocated
    BY ProcAssumption DEF IndInv, TreeInv, InitOK, Allocated
  <2> QED BY <2>1, <2>2 DEF NsInv, OwnersOK
<1>6. \A p \in Allocated \ {First} : pns[p] # p => pns[p] = pns[parent[p]]
  BY OutsideWalk
<1>7. /\ \A q \in Allocated : pns[q] = q => nextlid[q] >= 2
      /\ \A p \in Allocated \ {First} : localid[p] >= 2 /\ localid[p] < nextlid[pns[parent[p]]]
      /\ \A p, q \in Allocated \ {First} :
            pns[parent[p]] = pns[parent[q]] /\ localid[p] = localid[q] => p = q
      /\ \A q \in Allocated : nextlid[q] \in Nat /\ localid[q] \in Nat
  <2>1. \A p : Opns(p) = pns[p]
    BY OutsideWalk
  <2> QED BY <2>1 DEF NsInv, NumbersOK, IndInv, TypeOK, Allocated
<1>8. \A p : Opns(p)' = pns'[p]
  BY DEF Opns
<1>9. OwnersOK'
  <2>1. pns'[First] = First
    BY <1>4, <1>5
  <2>2. ASSUME NEW p \in Allocated
        PROVE  pns'[p] \in Allocated' /\ pns'[pns'[p]] = pns'[p] /\ globalid'[pns'[p]] <= globalid'[p]
    BY <1>3, <1>4, <1>5
  <2>3. pns'[c] \in Allocated' /\ pns'[pns'[c]] = pns'[c] /\ globalid'[pns'[c]] <= globalid'[c]
    BY <1>2, <1>3, <1>4, <1>5
  <2> QED BY <1>3, <2>1, <2>2, <2>3 DEF OwnersOK
<1>10. NsTreeOK'
  <2>1. ASSUME NEW p \in Allocated \ {First}, pns'[p] # p PROVE pns'[p] = pns'[parent'[p]]
    BY <1>4, <1>5, <1>6, <2>1
  <2>2. pns'[c] = pns'[parent'[c]]
    BY <1>1, <1>2, <1>4
  <2> QED BY <1>3, <1>8, <2>1, <2>2 DEF NsTreeOK
<1>11. NumbersOK'
  <2>1. \A q \in Allocated : nextlid'[q] >= nextlid[q] /\ nextlid'[q] \in Nat
    BY <1>2, <1>4, <1>7
  <2>2. \A q \in Allocated' : pns'[q] = q => nextlid'[q] >= 2
    BY <1>2, <1>3, <1>4, <1>7, <2>1
  <2>3. \A p \in Allocated \ {First} : /\ parent'[p] \in Allocated /\ pns'[parent'[p]] = pns[parent[p]]
                                       /\ pns[parent[p]] \in Allocated /\ localid'[p] = localid[p]
    BY <1>4, <1>5
  <2>4. \A p \in Allocated \ {First} : localid'[p] >= 2 /\ localid'[p] < nextlid'[pns'[parent'[p]]]
    BY <1>7, <2>1, <2>3
  <2>5. localid'[c] >= 2 /\ localid'[c] < nextlid'[pns'[parent'[c]]] /\ pns'[parent'[c]] = n
    BY <1>1, <1>2, <1>4, <1>7
  <2>6. \A p \in Allocated \ {First} : pns'[parent'[p]] = n => localid'[p] # localid'[c]
    BY <1>2, <1>4, <1>7, <2>3
  <2>7. \A p, q \in Allocated' \ {First} :
            pns'[parent'[p]] = pns'[parent'[q]] /\ localid'[p] = localid'[q] => p = q
    BY <1>3, <1>7, <2>3, <2>5, <2>6
  <2>8. \A p \in Allocated' \ {First} : localid'[p] >= 2 /\ localid'[p] < nextlid'[pns'[parent'[p]]]
    BY <1>3, <2>4, <2>5
  <2> QED BY <1>8, <2>2, <2>7, <2>8 DEF NumbersOK
<1>12. NsWalkInv'
  BY DEF NsWalkInv
<1> QED BY <1>9, <1>10, <1>11, <1>12 DEF NsInv

-----------------------------------------------------------------------------
(* proc_prune_leaves frees no namespace that has a member. *)

LEMMA LeafOwnsNothing ==
    ASSUME IndInv, IdsInv, NsInv, mode # "nscreate", NEW p \in Allocated \ {First}, Children(state, p) = {},
           NEW q \in Allocated \ {p}
    PROVE  pns[q] # p
<1> SUFFICES ASSUME pns[q] = p PROVE FALSE
  OBVIOUS
<1> DEFINE S == {v \in Allocated \ {p} : pns[v] = p}
<1>1. TreeFacts
  BY FactsOfInv
<1>2. /\ \A v \in Proc : globalid[v] \in Nat
      /\ \A v \in Allocated \ {First} : parent[v] \in Allocated /\ globalid[parent[v]] < globalid[v]
      /\ pns[First] = First /\ Allocated \subseteq Proc
  BY <1>1, UpDecreases DEF NsInv, OwnersOK, Allocated
<1>3. PICK v \in S : \A w \in S : globalid[v] <= globalid[w]
  <2>1. S \subseteq Proc /\ S # {}
    BY <1>2
  <2>2. \A w \in S : globalid[w] \in Nat
    BY <1>2, <2>1
  <2> HIDE DEF S
  <2> DEFINE G == {globalid[w] : w \in S}
  <2>3. G \in SUBSET Nat /\ G # {}
    BY <2>1, <2>2
  <2>4. PICK x \in G : \A y \in G : x <= y
    <3> HIDE DEF G
    <3> QED BY <2>3, SmallestExists
  <2> QED BY <2>4
<1>4. v \in Allocated \ {First} /\ pns[v] = p /\ v # p
  BY <1>2, <1>3
<1>5. pns[parent[v]] = p /\ parent[v] \in Allocated /\ globalid[parent[v]] < globalid[v]
  BY <1>2, <1>4, OutsideWalk
<1>6. parent[v] = p
  <2>1. ASSUME parent[v] # p PROVE FALSE
    <3>1. parent[v] \in S
      BY <1>5, <2>1
    <3> QED BY <1>2, <1>3, <1>4, <1>5, <3>1
  <2> QED BY <2>1
<1>7. v \in Children(state, p)
  BY <1>4, <1>6 DEF Children, Allocated
<1> QED BY <1>7

LEMMA NsPrune ==
    ASSUME IndInv, IdsInv, NsInv, PruneStep
    PROVE  NsInv'
<1>1. PICK p \in dead_leaves : Cut(p) /\ pns' = [pns EXCEPT ![p] = p]
                               /\ localid' = [localid EXCEPT ![p] = 0] /\ nextlid' = [nextlid EXCEPT ![p] = 0]
  <2>1. PICK p \in dead_leaves : Cut(p) /\ pns' = [pns EXCEPT ![p] = p]
    BY PruneCuts
  <2>2. PICK q \in dead_leaves : /\ parent' = [parent EXCEPT ![q] = NULL]
                                 /\ localid' = [localid EXCEPT ![q] = 0] /\ nextlid' = [nextlid EXCEPT ![q] = 0]
    BY DEF PruneStep
  <2>3. p = q
    <3>1. q \in Proc /\ state[q] = "DEADLEAF" /\ p \in Proc
      BY DEF IndInv, TreeInv, TreeOK, TypeOK
    <3>2. parent[q] # NULL /\ parent'[q] = NULL
      <4>1. q \in Allocated \ {First}
        BY <3>1 DEF Allocated, IndInv, TreeInv, InitOK
      <4>2. parent[q] \in Proc
        BY <4>1 DEF IndInv, TreeInv, TreeOK, Allocated
      <4> QED BY <2>2, <3>1, <4>2, ProcAssumption DEF IndInv, TypeOK
    <3>3. parent' = [parent EXCEPT ![p] = NULL]
      BY <2>1 DEF Cut
    <3> QED BY <3>1, <3>2, <3>3 DEF IndInv, TypeOK
  <2> QED BY <2>1, <2>2, <2>3
<1>2. /\ mode = "prune" /\ mode' = "prune"
      /\ p \in Allocated \ {First} /\ p \in Proc /\ Children(state, p) = {}
  <2>1. state[p] = "DEADLEAF" /\ p \in Proc
    BY <1>1 DEF Cut
  <2>2. p \in Allocated \ {First}
    BY <2>1 DEF IndInv, TreeInv, InitOK, Allocated
  <2> QED BY <2>1, <2>2 DEF PruneStep, IndInv, TreeInv, TreeOK
<1>3. Allocated' = Allocated \ {p}
  BY <1>1 DEF Cut, Allocated
<1>4. \A q \in Allocated \ {p} : pns[q] # p
  BY <1>2, LeafOwnsNothing
<1>5. \A q \in Allocated \ {First} : parent[q] \in Allocated /\ parent[q] # p
  <2>1. \A q \in Allocated \ {First} : parent[q] \in Allocated
    BY DEF IndInv, TreeInv, TreeOK
  <2>2. \A q \in Allocated : parent[q] # p
    BY <1>2 DEF Children, Allocated
  <2> QED BY <2>1, <2>2
<1>6. \A q \in Allocated \ {p} : /\ q \in Proc /\ parent'[q] = parent[q] /\ globalid'[q] = globalid[q] /\ pns'[q] = pns[q]
                                 /\ localid'[q] = localid[q] /\ nextlid'[q] = nextlid[q]
  <2>1. \A q \in Allocated \ {p} : q \in Proc /\ parent'[q] = parent[q] /\ globalid'[q] = globalid[q]
    BY <1>1 DEF Cut, IndInv, TypeOK, Allocated
  <2> QED BY <1>1, <2>1 DEF IndInv, TypeOK
<1>7. /\ \A q \in Allocated : pns[q] \in Allocated /\ pns[pns[q]] = pns[q] /\ globalid[pns[q]] <= globalid[q]
      /\ pns[First] = First /\ First \in Allocated
  <2>1. First \in Allocated
    BY ProcAssumption DEF IndInv, TreeInv, InitOK, Allocated
  <2> QED BY <2>1 DEF NsInv, OwnersOK
<1>8. \A q : Opns(q) = pns[q] /\ Opns(q)' = pns'[q]
  BY <1>2 DEF Opns
<1>9. OwnersOK'
  <2>1. pns'[First] = First
    BY <1>2, <1>6, <1>7
  <2>2. ASSUME NEW q \in Allocated \ {p}
        PROVE  pns'[q] \in Allocated' /\ pns'[pns'[q]] = pns'[q] /\ globalid'[pns'[q]] <= globalid'[q]
    BY <1>3, <1>4, <1>6, <1>7
  <2> QED BY <1>3, <2>1, <2>2 DEF OwnersOK
<1>10. NsTreeOK'
  <2>1. \A q \in Allocated \ {First} : pns[q] # q => pns[q] = pns[parent[q]]
    BY <1>2, OutsideWalk
  <2>2. ASSUME NEW q \in Allocated \ {First, p}, pns'[q] # q PROVE pns'[q] = pns'[parent'[q]]
    BY <1>5, <1>6, <2>1, <2>2
  <2> QED BY <1>3, <1>8, <2>2 DEF NsTreeOK
<1>11. NumbersOK'
  <2>1. /\ \A q \in Allocated : pns[q] = q => nextlid[q] >= 2
        /\ \A q \in Allocated \ {First} : localid[q] >= 2 /\ localid[q] < nextlid[pns[parent[q]]]
        /\ \A r, q \in Allocated \ {First} :
              pns[parent[r]] = pns[parent[q]] /\ localid[r] = localid[q] => r = q
    BY <1>8 DEF NsInv, NumbersOK
  <2>2. \A q \in Allocated \ {First, p} : /\ parent'[q] = parent[q] /\ pns'[parent'[q]] = pns[parent[q]]
                                          /\ localid'[q] = localid[q]
                                          /\ nextlid'[pns'[parent'[q]]] = nextlid[pns[parent[q]]]
    BY <1>4, <1>5, <1>6, <1>7
  <2>3. \A q \in Allocated \ {p} : pns'[q] = q => nextlid'[q] >= 2
    BY <1>6, <2>1
  <2>4. \A q \in Allocated \ {First, p} : localid'[q] >= 2 /\ localid'[q] < nextlid'[pns'[parent'[q]]]
    BY <2>1, <2>2
  <2>5. \A r, q \in Allocated \ {First, p} :
              pns'[parent'[r]] = pns'[parent'[q]] /\ localid'[r] = localid'[q] => r = q
    BY <2>1, <2>2
  <2> QED BY <1>3, <1>8, <2>3, <2>4, <2>5 DEF NumbersOK
<1>12. NsWalkInv'
  BY <1>2 DEF NsWalkInv
<1> QED BY <1>9, <1>10, <1>11, <1>12 DEF NsInv

-----------------------------------------------------------------------------
(* proc_ns_create. *)

\* A walk may know of more that is behind it.
LEMMA WalkMore ==
    ASSUME NEW A, NEW D, NEW p, NEW root, Walk(A, D, p, root), NEW E, E \subseteq Allocated,
           \A v \in E : Children(state, v) \subseteq E
    PROVE  Walk(A, D \cup E, p, root)
  BY DEF Walk

\* The walk begins: the caller alone is in the new namespace.
LEMMA NsBegins ==
    ASSUME NsCareful, IndInv, IdsInv, NsInv, GetProcfs, pns[proc_cur] # proc_cur
    PROVE  NsInv'
<1>1. PICK c, o : c = proc_cur /\ o = pns[c]
  OBVIOUS
<1>2. /\ mode = "user" /\ o # c /\ UNCHANGED <<state, parent, globalid, localid>> /\ proc_cur' = c /\ old' = o
      /\ pns' = [pns EXCEPT ![c] = c] /\ nextlid' = [nextlid EXCEPT ![c] = 2]
      /\ it' = child(c) /\ mode' = IF child(c) = NULL THEN "prune" ELSE "nscreate"
      /\ child(c) # NULL => sibling(c) = NULL
  BY <1>1 DEF GetProcfs, User, NsCareful, tree
<1>3. TreeFacts /\ SameTree
  BY <1>2, FactsOfInv DEF SameTree
<1>4. /\ c \in Allocated /\ c \in Proc /\ First \in Allocated
      /\ \A p \in Proc : globalid[p] \in Nat
      /\ \A p \in Allocated \ {First} : parent[p] \in Allocated /\ globalid[parent[p]] < globalid[p]
      /\ Allocated \subseteq Proc /\ Allocated' = Allocated
  <2>1. c \in Allocated
    BY <1>1, <1>2 DEF IndInv, TypeOK, LoopOK, Allocated
  <2> QED BY <1>3, <2>1, UpDecreases, WalkKept DEF Allocated
<1>5. /\ pns[First] = First /\ c # First
      /\ \A p \in Allocated : /\ pns[p] \in Allocated /\ pns[pns[p]] = pns[p] /\ globalid[pns[p]] <= globalid[p]
                              /\ pns[p] # c
  BY <1>1, <1>2 DEF NsInv, OwnersOK
<1>6. /\ pns'[c] = c /\ nextlid'[c] = 2
      /\ \A p \in Allocated \ {c} : pns'[p] = pns[p] /\ nextlid'[p] = nextlid[p]
  BY <1>2, <1>4 DEF IndInv, TypeOK
<1>7. \A p \in Allocated \ {First} : pns[p] # p => pns[p] = pns[parent[p]]
  BY <1>2, OutsideWalk
<1>8. /\ \A q \in Allocated : pns[q] = q => nextlid[q] >= 2
      /\ \A p \in Allocated \ {First} : localid[p] >= 2 /\ localid[p] < nextlid[pns[parent[p]]]
      /\ \A p, q \in Allocated \ {First} : pns[parent[p]] = pns[parent[q]] /\ localid[p] = localid[q] => p = q
  <2>1. \A p : Opns(p) = pns[p]
    BY <1>2, OutsideWalk
  <2> QED BY <2>1 DEF NsInv, NumbersOK
<1>9. OwnersOK'
  <2>1. ASSUME NEW p \in Allocated
        PROVE  pns'[p] \in Allocated' /\ pns'[pns'[p]] = pns'[p] /\ globalid'[pns'[p]] <= globalid'[p]
    <3>1. CASE p = c
      BY <1>2, <1>4, <1>6, <3>1
    <3>2. CASE p # c
      BY <1>2, <1>4, <1>5, <1>6, <3>2
    <3> QED BY <3>1, <3>2
  <2> QED BY <1>4, <1>5, <1>6, <2>1 DEF OwnersOK
\* Before the walk and after its first assignment, the namespaces are those of the past.
<1>10. \A p \in Allocated : child(c) # NULL \/ p # c => Opns(p)' = pns[p]
  BY <1>1, <1>2, <1>5, <1>6 DEF Opns
<1>11. \A p \in Allocated \ {First} : Opns(parent[p])' = pns[parent[p]] /\ pns[parent[p]] \in Allocated \ {c}
  <2>1. ASSUME NEW p \in Allocated \ {First}, child(c) = NULL PROVE parent[p] # c
    BY <1>3, <1>4, <2>1, childIs DEF Children, Allocated
  <2> QED BY <1>2, <1>4, <1>5, <1>10, <2>1
<1>12. NsTreeOK'
  <2>1. ASSUME NEW p \in Allocated \ {First}, pns'[p] # p PROVE Opns(p)' = Opns(parent[p])'
    <3>1. p # c
      BY <1>6, <2>1
    <3>2. pns'[p] = pns[p] /\ Opns(p)' = pns[p]
      BY <1>6, <1>10, <3>1
    <3> QED BY <1>7, <1>11, <2>1, <3>2
  <2>2. \A p \in Allocated' \ {First} : pns'[p] # p => Opns(p)' = Opns(parent[p])'
    BY <1>4, <2>1
  <2> QED BY <1>2, <2>2 DEF NsTreeOK
<1>13. NumbersOK'
  <2>1. \A q \in Allocated' : pns'[q] = q => nextlid'[q] >= 2
    BY <1>4, <1>6, <1>8
  <2>2. \A p \in Allocated' \ {First} : localid'[p] >= 2 /\ localid'[p] < nextlid'[Opns(parent[p])']
    BY <1>2, <1>4, <1>6, <1>8, <1>11
  <2>3. \A p, q \in Allocated' \ {First} :
            Opns(parent[p])' = Opns(parent[q])' /\ localid'[p] = localid'[q] => p = q
    BY <1>2, <1>4, <1>8, <1>11
  <2> QED BY <1>2, <2>1, <2>2, <2>3 DEF NumbersOK
<1>14. NsWalkInv'
  <2>1. SUFFICES ASSUME child(c) # NULL PROVE NsWalkInv'
    BY <1>2 DEF NsWalkInv
  <2>2. PICK n : n = child(c)
    OBVIOUS
  <2>3. n \in Children(state, c) /\ n \in Allocated /\ parent[n] = c /\ globalid[c] < globalid[n] /\ n # c
    <3>1. n \in Children(state, c)
      BY <1>3, <1>4, <2>1, <2>2, childIs
    <3>2. n \in Allocated /\ parent[n] = c /\ n # First
      BY <1>3, <1>4, <3>1, UpDecreases DEF Children, Allocated
    <3> QED BY <1>4, <3>1, <3>2
  <2> DEFINE X == {v \in Allocated \ {First} : globalid[v] > globalid[c] /\ pns[v] # o /\ pns[parent[v]] # o}
  <2>4. globalid[o] < globalid[c] /\ o \in Allocated /\ pns[o] = o
    <3>1. o \in Allocated /\ pns[o] = o /\ globalid[o] <= globalid[c]
      BY <1>1, <1>4, <1>5
    <3>2. globalid[o] # globalid[c]
      BY <1>2, <1>3, <1>4, <3>1 DEF TreeFacts, UniqueIds
    <3> QED BY <1>4, <3>1, <3>2
  <2>5. \A v \in X : Children(state, v) \subseteq X
    <3> SUFFICES ASSUME NEW v \in X, NEW w \in Children(state, v) PROVE w \in X
      OBVIOUS
    <3>1. w \in Allocated \ {First} /\ parent[w] = v /\ v \in Allocated /\ globalid[v] > globalid[c] /\ pns[v] # o
      BY <1>3, <1>4, UpDecreases DEF Children, Allocated
    <3>2. globalid[w] > globalid[c] /\ w # o
      BY <1>4, <2>4, <3>1
    <3>3. pns[w] # o
      BY <1>7, <3>1, <3>2
    <3> QED BY <3>1, <3>2, <3>3
  <2>6. Walk({c} \cup {n}, {} \cup X, n, c)
    <3>1. Walk({c}, {}, c, c)
      BY <1>3, <1>4, WalkBegins
    <3>2. Walk({c} \cup {n}, {}, n, c)
      BY <1>3, <2>1, <2>2, <3>1, WalkDown
    <3>3. X \subseteq Allocated
      OBVIOUS
    <3> HIDE DEF X
    <3> QED BY <2>5, <3>2, <3>3, WalkMore
  <2>7. PICK A, D : A = {c} \cup {n} /\ D = {} \cup X
    OBVIOUS
  <2>8. it' = n /\ mode' = "nscreate"
    BY <1>2, <2>1, <2>2
  <2>9. Walk(A, D, it, proc_cur)'
    <3>1. Walk(A, D, n, c)
      BY <2>6, <2>7
    <3>2. Walk(A, D, n, c)'
      BY <1>3, <3>1, WalkKept
    <3> QED BY <1>2, <2>8, <3>2 DEF Walk
  <2>10. \A p \in Allocated : pns'[p] = c => p = c
    BY <1>5, <1>6
  <2>11. \A p \in Allocated : Opns(p)' = pns[p]
    BY <1>10, <2>1
  <2>12. Outside' \subseteq D
    <3> SUFFICES ASSUME NEW v \in Outside' PROVE v \in X
      BY <2>7
    <3>1. v \in Allocated \ {First} /\ globalid[v] > globalid[c] /\ Opns(v)' # o /\ Opns(parent[v])' # o
      BY <1>2, <1>4 DEF Outside
    <3>2. pns[v] # o
      BY <2>11, <3>1
    <3>3. pns[parent[v]] # o
      BY <1>11, <3>1
    <3> QED BY <3>1, <3>2, <3>3
  <2>13. \A v \in Passed(A, D, n) \ {c, First} : v \in X
    BY <2>7 DEF Passed
  <2>14. ASSUME NEW v \in X PROVE pns'[v] # o /\ pns'[parent[v]] # o /\ pns'[parent[v]] # c
    <3>1. v \in Allocated \ {First} /\ globalid[v] > globalid[c] /\ pns[v] # o /\ pns[parent[v]] # o
      OBVIOUS
    <3>2. v # c /\ parent[v] # c /\ parent[v] \in Allocated
      BY <1>1, <1>4, <3>1
    <3> QED BY <1>5, <1>6, <3>1, <3>2
  <2> HIDE DEF X
  <2>15. \A v \in Passed(A, D, it') \ {c, First} :
            pns'[v] # o /\ pns'[parent'[v]] # o /\ pns'[parent'[v]] # c
    BY <1>2, <2>8, <2>13, <2>14
  <2>16. \A a \in A \ {n} : pns'[a] = c
    BY <1>6, <2>7
  <2>17. \A a \in A \ {c}, w \in Allocated' :
            parent'[w] = parent'[a] /\ globalid'[w] < globalid'[a] => pns'[w] # c
    <3> SUFFICES ASSUME NEW w \in Allocated, parent[w] = c PROVE w # c
      BY <1>2, <1>4, <2>3, <2>7, <2>10
    <3> QED BY <1>4, <1>5
  <2>18. NsPath(A, D)'
    BY <1>2, <2>8, <2>9, <2>12, <2>15, <2>16, <2>17 DEF NsPath
  <2>19. A \in SUBSET Proc /\ D \in SUBSET Proc
    BY <1>4, <2>3, <2>7 DEF X
  <2>20. sibling(proc_cur)' = NULL
    BY <1>2, <2>1 DEF sibling, Children, NewestOf
  <2>21. pns'[o] = o /\ pns'[n] # c
    BY <1>2, <1>6, <2>3, <2>4, <2>10
  <2>22. \A q \in Allocated' \ {c} : pns'[q] # c
    BY <1>4, <2>10
  <2> QED BY <1>2, <1>4, <1>5, <1>6, <2>3, <2>4, <2>8, <2>18, <2>19, <2>20, <2>21, <2>22 DEF NsWalkInv
<1> QED BY <1>9, <1>12, <1>13, <1>14 DEF NsInv

\* What the walk knows at i = it, with c = proc_cur and o = old.
NsHere(A, D, c, o, i) ==
    /\ c \in Allocated \ {First} /\ c \in Proc /\ o \in Allocated /\ globalid[o] < globalid[c] /\ o # c
    /\ pns[o] = o /\ pns[c] = c /\ sibling(c) = NULL
    /\ i \in Allocated \ {First, c, o} /\ i \in Proc /\ i \in A /\ globalid[c] < globalid[i]
    /\ pns[i] # c /\ pns[i] \in {o, i} /\ pns[parent[i]] = c
    /\ \A q \in Allocated \ {c} : pns[q] = c => pns[parent[q]] = c
    /\ Walk(A, D, i, c)
    /\ \A a \in A \ {i} : pns[a] = c
    /\ \A a \in A \ {c}, w \in Allocated : parent[w] = parent[a] /\ globalid[w] < globalid[a] => pns[w] # c
    /\ \A v \in (D \cup A) \ {c, i, First} : pns[v] # o /\ pns[parent[v]] # o
                                      /\ (pns[parent[v]] = c => localid[v] < nextlid[c])
    /\ Outside \subseteq D

LEMMA NsHereIs ==
    ASSUME IndInv, IdsInv, NsInv, mode = "nscreate", NEW A, NEW D, NsPath(A, D)
    PROVE  NsHere(A, D, proc_cur, old, it)
<1>1. PICK c, o, i : c = proc_cur /\ o = old /\ i = it
  OBVIOUS
<1>2. /\ c \in Allocated \ {First} /\ o \in Allocated /\ globalid[o] < globalid[c]
      /\ pns[o] = o /\ pns[c] = c /\ sibling(c) = NULL
      /\ i # c /\ pns[i] # c
      /\ \A q \in Allocated \ {c} : pns[q] = c => pns[parent[q]] = c
  BY <1>1 DEF NsInv, NsWalkInv
<1>3. /\ Walk(A, D, i, c)
      /\ \A a \in A \ {i} : pns[a] = c
      /\ \A a \in A \ {c}, w \in Allocated : parent[w] = parent[a] /\ globalid[w] < globalid[a] => pns[w] # c
      /\ Outside \subseteq D
      /\ \A v \in Passed(A, D, i) \ {c, First} : /\ pns[v] # o /\ pns[parent[v]] # o
                                                 /\ pns[parent[v]] = c => localid[v] < nextlid[c]
  BY <1>1 DEF NsPath
<1>4. TreeFacts
  BY FactsOfInv
<1>5. /\ \A p \in Proc : globalid[p] \in Nat
      /\ \A p \in Allocated \ {First} : parent[p] \in Allocated /\ globalid[parent[p]] < globalid[p]
      /\ Allocated \subseteq Proc
      /\ \A p \in Allocated : parent[p] = NULL => p = First
      /\ parent[First] = NULL
  BY <1>4, UpDecreases DEF Allocated
<1>6. i \in A /\ i \in Allocated /\ parent[i] \in A /\ parent[i] # NULL /\ globalid[parent[i]] < globalid[i]
      /\ globalid[c] <= globalid[parent[i]]
  <2>1. i \in A /\ i \in Allocated /\ parent[i] # NULL /\ globalid[parent[i]] < globalid[i]
    BY <1>2, <1>3, <1>4, WalkIds
  <2> QED BY <1>2, <1>3, <2>1 DEF Walk
<1>7. globalid[c] < globalid[i] /\ i # First /\ i # o /\ o # c /\ parent[i] # i
  BY <1>2, <1>5, <1>6
<1>8. pns[parent[i]] = c
  BY <1>3, <1>6, <1>7
<1>9. pns[i] \in {o, i}
  <2>1. CASE pns[i] = i
    BY <2>1
  <2>2. CASE pns[i] # i
    <3>1. Opns(i) = Opns(parent[i])
      BY <1>6, <1>7, <2>2 DEF NsInv, NsTreeOK
    <3> QED BY <1>1, <1>2, <1>8, <3>1 DEF Opns
  <2> QED BY <2>1, <2>2
<1>10. \A v \in (D \cup A) \ {c, i, First} : v \in Passed(A, D, i) \ {c, First}
  BY DEF Passed
<1>11. NsHere(A, D, c, o, i)
  BY <1>2, <1>3, <1>5, <1>6, <1>7, <1>8, <1>9, <1>10 DEF NsHere
<1> QED BY <1>1, <1>11

\* What an iteration does to the namespaces.
NsMoved(c, o, i) ==
    /\ UNCHANGED <<state, parent, globalid, localid, proc_cur, old>>
    /\ pns'[i] = (IF pns[i] = o THEN c ELSE i)
    /\ \A q \in Allocated \ {i} : pns'[q] = pns[q]
    /\ localid[i] < nextlid'[c] /\ nextlid[c] <= nextlid'[c]
    /\ \A q \in Allocated \ {c} : nextlid'[q] = nextlid[q]
    /\ \A q \in Allocated : nextlid[q] \in Nat /\ nextlid'[q] \in Nat /\ localid[q] \in Nat

LEMMA NsMoves ==
    ASSUME IndInv, NsCreateStep, NEW A, NEW D, NsHere(A, D, proc_cur, old, it)
    PROVE  NsMoved(proc_cur, old, it)
<1>1. PICK c, o, i : c = proc_cur /\ o = old /\ i = it
  OBVIOUS
<1>2. /\ UNCHANGED <<state, parent, globalid, localid, proc_cur, old>>
      /\ pns' = IF pns[i] = o THEN [pns EXCEPT ![i] = c] ELSE pns
      /\ nextlid' = [nextlid EXCEPT ![c] = IF nextlid[c] < localid[i] + 1 THEN localid[i] + 1 ELSE nextlid[c]]
  BY <1>1 DEF NsCreateStep, pns_moved, nextlid_raised, tree
<1>3. c \in Proc /\ i \in Proc /\ pns[i] \in {o, i} /\ Allocated \subseteq Proc
  BY <1>1 DEF NsHere, Allocated
<1>4. pns \in [Proc -> Proc] /\ nextlid \in [Proc -> Nat] /\ localid \in [Proc -> Nat]
  BY DEF IndInv, TypeOK
<1>5. pns'[i] = (IF pns[i] = o THEN c ELSE i) /\ \A q \in Allocated \ {i} : pns'[q] = pns[q]
  BY <1>2, <1>3, <1>4
<1>6. /\ localid[i] < nextlid'[c] /\ nextlid[c] <= nextlid'[c] /\ nextlid'[c] \in Nat
      /\ \A q \in Allocated \ {c} : nextlid'[q] = nextlid[q]
  BY <1>2, <1>3, <1>4
<1>7. \A q \in Allocated : nextlid[q] \in Nat /\ nextlid'[q] \in Nat /\ localid[q] \in Nat
  BY <1>3, <1>4, <1>6
<1>8. NsMoved(c, o, i)
  BY <1>2, <1>5, <1>6, <1>7 DEF NsMoved
<1> QED BY <1>1, <1>8

\* What holds of the namespaces after it, whether the walk ends here or not.
NsAfter(A, D, c, o, i) ==
    /\ \A p \in Allocated : Opns(p) = IF pns'[p] = c THEN o ELSE pns'[p]
    /\ \A p \in Allocated \ {First} : pns'[p] # p => Opns(p) = Opns(parent[p])
    /\ \A q \in Allocated \ {c} : pns'[q] = c => pns'[parent[q]] = c
    /\ \A v \in (D \cup A) \ {c, First} : /\ pns'[v] # o /\ pns'[parent[v]] # o
                                          /\ pns'[parent[v]] = c => localid[v] < nextlid'[c]

LEMMA NsVisits ==
    ASSUME IndInv, IdsInv, NsInv, mode = "nscreate", NEW A, NEW D,
           NEW c, NEW o, NEW i, c = proc_cur, o = old, i = it, NsHere(A, D, c, o, i), NsMoved(c, o, i)
    PROVE  OwnersOK' /\ NsAfter(A, D, c, o, i)
<1>1. /\ c \in Allocated \ {First} /\ o \in Allocated /\ globalid[o] < globalid[c] /\ o # c
      /\ pns[o] = o /\ pns[c] = c
      /\ i \in Allocated \ {First, c, o} /\ globalid[c] < globalid[i]
      /\ pns[i] # c /\ pns[i] \in {o, i} /\ pns[parent[i]] = c
      /\ \A q \in Allocated \ {c} : pns[q] = c => pns[parent[q]] = c
      /\ \A v \in (D \cup A) \ {c, i, First} : pns[v] # o /\ pns[parent[v]] # o
                                        /\ (pns[parent[v]] = c => localid[v] < nextlid[c])
  BY DEF NsHere
<1>2. /\ UNCHANGED <<state, parent, globalid, localid>>
      /\ pns'[i] = (IF pns[i] = o THEN c ELSE i)
      /\ \A q \in Allocated \ {i} : pns'[q] = pns[q]
      /\ localid[i] < nextlid'[c] /\ nextlid[c] <= nextlid'[c]
      /\ \A q \in Allocated : nextlid[q] \in Nat /\ nextlid'[q] \in Nat /\ localid[q] \in Nat
  BY DEF NsMoved
<1>3. /\ \A p \in Proc : globalid[p] \in Nat
      /\ \A p \in Allocated \ {First} : parent[p] \in Allocated /\ globalid[parent[p]] < globalid[p]
      /\ Allocated \subseteq Proc
  BY FactsOfInv, UpDecreases DEF Allocated
<1>4. /\ pns[First] = First
      /\ \A p \in Allocated : pns[p] \in Allocated /\ pns[pns[p]] = pns[p] /\ globalid[pns[p]] <= globalid[p]
  BY DEF NsInv, OwnersOK
<1>5. Allocated' = Allocated
  BY <1>2 DEF Allocated
<1>6. First \in Allocated
  BY ProcAssumption DEF IndInv, TreeInv, InitOK, Allocated
<1>7. OwnersOK'
  <2>1. pns'[First] = First
    BY <1>1, <1>2, <1>4, <1>6
  <2>2. ASSUME NEW p \in Allocated
        PROVE  pns'[p] \in Allocated /\ pns'[pns'[p]] = pns'[p] /\ globalid[pns'[p]] <= globalid[p]
    <3>1. CASE p = i /\ pns[i] = o
      BY <1>1, <1>2, <1>3, <3>1
    <3>2. CASE p = i /\ pns[i] = i
      BY <1>1, <1>2, <1>3, <3>2
    <3>3. CASE p # i
      <4>1. pns'[p] = pns[p]
        BY <1>2, <3>3
      <4>2. CASE pns[p] = i
        BY <1>1, <1>2, <1>4, <4>1, <4>2
      <4>3. CASE pns[p] # i
        BY <1>2, <1>4, <4>1, <4>3
      <4> QED BY <4>2, <4>3
    <3> QED BY <1>1, <3>1, <3>2, <3>3
  <2> QED BY <1>2, <1>5, <2>1, <2>2 DEF OwnersOK
<1>8. ASSUME NEW p \in Allocated PROVE Opns(p) = IF pns'[p] = c THEN o ELSE pns'[p]
  <2>1. Opns(p) = IF pns[p] = c THEN o ELSE pns[p]
    BY DEF Opns
  <2> QED BY <1>1, <1>2, <2>1
<1>9. ASSUME NEW p \in Allocated \ {First}, pns'[p] # p PROVE Opns(p) = Opns(parent[p])
  <2>1. pns[p] # p
    BY <1>1, <1>2, <1>9
  <2> QED BY <2>1 DEF NsInv, NsTreeOK
<1>10. ASSUME NEW q \in Allocated \ {c}, pns'[q] = c PROVE pns'[parent[q]] = c
  <2>1. pns[parent[q]] = c
    BY <1>1, <1>2, <1>10
  <2>2. q # First
    BY <1>1, <1>2, <1>4, <1>10
  <2>3. parent[q] \in Allocated /\ parent[q] # i
    BY <1>1, <1>3, <2>1, <2>2
  <2> QED BY <1>2, <2>1, <2>3
<1>0. D \cup A \subseteq Allocated
  BY DEF NsHere, Walk
<1>11. ASSUME NEW v \in (D \cup A) \ {c, First} PROVE pns'[v] # o
  BY <1>0, <1>1, <1>2, <1>11
<1>12. ASSUME NEW v \in (D \cup A) \ {c, First}
       PROVE  pns'[parent[v]] # o /\ (pns'[parent[v]] = c => localid[v] < nextlid'[c])
  <2>1. CASE v = i
    <3>1. parent[i] \in Allocated \ {i}
      BY <1>1, <1>3
    <3> QED BY <1>1, <1>2, <2>1, <3>1
  <2>2. CASE v # i
    <3>1. parent[v] \in Allocated /\ v \in Allocated
      BY <1>0, <1>3, <1>12
    <3>2. pns[parent[v]] # o /\ (pns[parent[v]] = c => localid[v] < nextlid[c])
      BY <1>1, <1>12, <2>2
    <3>3. pns'[parent[v]] = pns[parent[v]] \/ (parent[v] = i /\ pns'[i] = i)
      BY <1>1, <1>2, <3>1, <3>2
    <3>4. pns'[parent[v]] # o /\ (pns'[parent[v]] = c => localid[v] < nextlid[c])
      BY <1>1, <3>2, <3>3
    <3> QED BY <1>1, <1>2, <1>12, <3>1, <3>4
  <2> QED BY <2>1, <2>2
<1>13. NsAfter(A, D, c, o, i)
  BY <1>8, <1>9, <1>10, <1>11, <1>12 DEF NsAfter
<1> QED BY <1>7, <1>13

\* The walk goes on at n, ...
LEMMA NsGoesOn ==
    ASSUME IndInv, IdsInv, NsInv, mode = "nscreate", NEW A, NEW D,
           NEW c, NEW o, NEW i, c = proc_cur, o = old, i = it, NsHere(A, D, c, o, i), NsMoved(c, o, i),
           NEW B, NEW E, NEW n, Walk(B, E, n, c), n # c, D \subseteq E, E \cup (B \ {n}) \subseteq D \cup A,
           mode' = "nscreate", it' = n,
           \A a \in B \ {n} : pns'[a] = c,
           \A a \in B \ {c}, w \in Allocated : parent[w] = parent[a] /\ globalid[w] < globalid[a] => pns'[w] # c,
           pns'[n] # c
    PROVE  NsInv'
<1>1. OwnersOK' /\ NsAfter(A, D, c, o, i)
  BY NsVisits
<1>2. /\ \A p \in Allocated : Opns(p) = IF pns'[p] = c THEN o ELSE pns'[p]
      /\ \A p \in Allocated \ {First} : pns'[p] # p => Opns(p) = Opns(parent[p])
      /\ \A q \in Allocated \ {c} : pns'[q] = c => pns'[parent[q]] = c
      /\ \A v \in (D \cup A) \ {c, First} : /\ pns'[v] # o /\ pns'[parent[v]] # o
                                            /\ pns'[parent[v]] = c => localid[v] < nextlid'[c]
  BY <1>1 DEF NsAfter
<1>3. /\ UNCHANGED <<state, parent, globalid, localid, proc_cur, old>>
      /\ nextlid[c] <= nextlid'[c] /\ \A q \in Allocated \ {i} : pns'[q] = pns[q]
      /\ \A q \in Allocated \ {c} : nextlid'[q] = nextlid[q]
      /\ \A q \in Allocated : nextlid[q] \in Nat /\ nextlid'[q] \in Nat /\ localid[q] \in Nat
  BY DEF NsMoved
<1>4. /\ c \in Allocated \ {First} /\ o \in Allocated /\ globalid[o] < globalid[c] /\ o # c
      /\ pns[o] = o /\ pns[c] = c /\ sibling(c) = NULL /\ Outside \subseteq D
      /\ i \in Allocated \ {First, c, o} /\ i \in Proc /\ i \in A
  BY DEF NsHere
<1>5. TreeFacts /\ SameTree /\ Allocated' = Allocated
  BY <1>3, FactsOfInv DEF SameTree, Allocated
<1>6. /\ \A p \in Allocated \ {First} : parent[p] \in Allocated
      /\ Allocated \subseteq Proc /\ First \in Allocated
  BY <1>5, UpDecreases DEF Allocated
<1>7. \A p \in Allocated : Opns(p)' = Opns(p)
  <2>1. \A p \in Allocated : Opns(p)' = IF pns'[p] = c THEN o ELSE pns'[p]
    BY <1>3 DEF Opns
  <2> QED BY <1>2, <2>1
<1>8. \A p \in Allocated \ {First} : Opns(parent[p])' = Opns(parent[p])
  <2>1. \A p : Opns(parent[p])' = IF pns'[parent'[p]] = c THEN o ELSE pns'[parent'[p]]
    BY <1>3 DEF Opns
  <2> QED BY <1>2, <1>3, <1>6, <2>1
<1>9. NsTreeOK'
  <2>1. ASSUME NEW p \in Allocated \ {First}, pns'[p] # p PROVE Opns(p)' = Opns(parent[p])'
    BY <1>2, <1>7, <1>8, <2>1
  <2> QED BY <1>5, <2>1 DEF NsTreeOK
<1>10. NumbersOK'
  <2>1. /\ \A q \in Allocated : pns[q] = q => nextlid[q] >= 2
        /\ \A p \in Allocated \ {First} : localid[p] >= 2 /\ localid[p] < nextlid[Opns(parent[p])]
        /\ \A p, q \in Allocated \ {First} : Opns(parent[p]) = Opns(parent[q]) /\ localid[p] = localid[q] => p = q
    BY DEF NsInv, NumbersOK
  <2>2. ASSUME NEW q \in Allocated, pns'[q] = q PROVE nextlid'[q] >= 2
    <3>1. pns[q] = q
      <4>1. CASE q = i
        BY <1>4, <2>2, <4>1 DEF NsHere, NsMoved
      <4>2. CASE q # i
        BY <1>3, <2>2, <4>2
      <4> QED BY <4>1, <4>2
    <3>2. nextlid'[q] >= nextlid[q]
      BY <1>3, <1>4
    <3> QED BY <1>3, <2>1, <3>1, <3>2
  <2>3. \A p \in Allocated \ {First} : Opns(parent[p]) \in Allocated \ {c}
    <3>1. \A p \in Allocated : pns[p] \in Allocated /\ (Opns(p) = IF pns[p] = c THEN o ELSE pns[p])
      BY DEF NsInv, OwnersOK, Opns
    <3> QED BY <1>4, <1>6, <3>1
  <2>4. \A p \in Allocated \ {First} : localid'[p] >= 2 /\ localid'[p] < nextlid'[Opns(parent[p])']
    BY <1>3, <1>8, <2>1, <2>3
  <2>5. \A p, q \in Allocated \ {First} :
            Opns(parent[p])' = Opns(parent[q])' /\ localid'[p] = localid'[q] => p = q
    BY <1>3, <1>8, <2>1
  <2> QED BY <1>5, <2>2, <2>4, <2>5 DEF NumbersOK
<1>11. Outside' \subseteq E
  <2>1. Outside' \subseteq Outside
    <3> SUFFICES ASSUME NEW v \in Outside' PROVE v \in Outside
      OBVIOUS
    <3>1. v \in Allocated \ {First} /\ globalid[v] > globalid[c] /\ Opns(v)' # o /\ Opns(parent[v])' # o
      BY <1>3, <1>5 DEF Outside
    <3>2. Opns(v) # o /\ Opns(parent[v]) # o
      BY <1>7, <1>8, <3>1
    <3> QED BY <3>1, <3>2 DEF Outside
  <2> QED BY <1>4, <2>1
<1>12. Walk(B, E, it, proc_cur)'
  <2>1. Walk(B, E, n, c)'
    BY <1>5, WalkKept
  <2> QED BY <1>3, <2>1 DEF Walk
<1>13. B \subseteq Allocated /\ E \subseteq Allocated
  BY DEF Walk
<1>14. \A v \in Passed(B, E, n) \ {c, First} :
          /\ pns'[v] # o /\ pns'[parent[v]] # o
          /\ pns'[parent[v]] = c => localid[v] < nextlid'[c]
  <2>1. Passed(B, E, n) \subseteq D \cup A
    BY DEF Passed
  <2> QED BY <1>2, <2>1
<1>15. NsPath(B, E)'
  BY <1>3, <1>5, <1>11, <1>12, <1>14 DEF NsPath
<1>16. NsWalkInv'
  <2>1. sibling(proc_cur)' = NULL
    BY <1>3, <1>4 DEF sibling, Children, NewestOf
  <2>2. pns'[o] = o /\ pns'[c] = c
    BY <1>3, <1>4
  <2>3. B \in SUBSET Proc /\ E \in SUBSET Proc
    BY <1>6, <1>13
  <2> QED BY <1>2, <1>3, <1>4, <1>5, <1>15, <2>1, <2>2, <2>3 DEF NsWalkInv
<1> QED BY <1>1, <1>9, <1>10, <1>16 DEF NsInv

\* ... and ends when everything below the caller has been visited.
LEMMA NsEnds ==
    ASSUME IndInv, IdsInv, NsInv, mode = "nscreate", NEW A, NEW D,
           NEW c, NEW o, NEW i, c = proc_cur, o = old, i = it, NsHere(A, D, c, o, i), NsMoved(c, o, i),
           Closed(D \cup A, c), mode' # "nscreate"
    PROVE  NsInv'
<1>1. OwnersOK' /\ NsAfter(A, D, c, o, i)
  BY NsVisits
<1>2. /\ \A p \in Allocated : Opns(p) = IF pns'[p] = c THEN o ELSE pns'[p]
      /\ \A p \in Allocated \ {First} : pns'[p] # p => Opns(p) = Opns(parent[p])
      /\ \A q \in Allocated \ {c} : pns'[q] = c => pns'[parent[q]] = c
      /\ \A v \in (D \cup A) \ {c, First} : /\ pns'[v] # o /\ pns'[parent[v]] # o
                                            /\ pns'[parent[v]] = c => localid[v] < nextlid'[c]
  BY <1>1 DEF NsAfter
<1>3. /\ UNCHANGED <<state, parent, globalid, localid, proc_cur, old>>
      /\ nextlid[c] <= nextlid'[c]
      /\ \A q \in Allocated \ {i} : pns'[q] = pns[q]
      /\ \A q \in Allocated \ {c} : nextlid'[q] = nextlid[q]
      /\ \A q \in Allocated : nextlid[q] \in Nat /\ nextlid'[q] \in Nat /\ localid[q] \in Nat
  BY DEF NsMoved
<1>4. /\ c \in Allocated \ {First} /\ o \in Allocated /\ o # c /\ pns[c] = c
      /\ i \in Allocated \ {First, c, o}
  BY DEF NsHere
<1>5. TreeFacts /\ Allocated' = Allocated
  BY <1>3, FactsOfInv DEF Allocated
<1>6. /\ \A p \in Allocated \ {First} : parent[p] \in Allocated /\ globalid[parent[p]] < globalid[p]
      /\ \A p \in Allocated : parent[p] = NULL => p = First
      /\ \A p \in Proc : globalid[p] \in Nat
      /\ Allocated \subseteq Proc /\ First \in Allocated /\ NULL \notin Proc
  BY <1>5, UpDecreases DEF Allocated
<1>7. \A p \in Allocated : pns'[p] \in Allocated /\ globalid[pns'[p]] <= globalid[p]
  BY <1>1, <1>3, <1>5 DEF OwnersOK
<1>8. pns'[First] = First
  BY <1>1 DEF OwnersOK
\* What has been moved is below the caller, and so is what has a number there.
<1>9. ASSUME NEW u \in Allocated, pns'[u] = c PROVE u \in D \cup A
  <2> DEFINE P == {r \in Allocated : pns'[r] = c}
  <2>1. u \in P /\ P \subseteq Proc
    BY <1>6, <1>9
  <2>2. \A r \in P : r # c /\ parent[r] # NULL => parent[r] \in P
    <3> SUFFICES ASSUME NEW r \in P, r # c PROVE parent[r] \in P
      OBVIOUS
    <3>1. r # First
      BY <1>4, <1>8
    <3> QED BY <1>2, <1>6, <3>1
  <2>3. \A r \in P : parent[r] = NULL => r = c
    <3> SUFFICES ASSUME NEW r \in P, parent[r] = NULL PROVE FALSE
      OBVIOUS
    <3> QED BY <1>4, <1>6, <1>8
  <2> HIDE DEF P
  <2>4. under(u, c)
    BY <1>5, <2>1, <2>2, <2>3, underIs
  <2> QED BY <1>5, <2>4, ClosedSubtree
<1>10. ASSUME NEW p \in Allocated \ {First}, pns'[parent[p]] = c PROVE p \in (D \cup A) \ {c, First}
  <2>1. parent[p] \in D \cup A
    BY <1>6, <1>9, <1>10
  <2>2. p \in Children(state, parent[p])
    BY DEF Children, Allocated
  <2>3. p \in D \cup A
    BY <2>1, <2>2 DEF Closed
  <2>4. globalid[c] <= globalid[parent[p]] /\ globalid[parent[p]] < globalid[p]
    BY <1>6, <1>7, <1>10
  <2> QED BY <1>4, <1>6, <2>3, <2>4
<1>11. \A p : Opns(p)' = pns'[p] /\ Opns(parent[p])' = pns'[parent[p]]
  BY <1>3 DEF Opns
<1>12. ASSUME NEW p \in Allocated \ {First}, pns'[p] # p PROVE pns'[p] = pns'[parent[p]]
  <2>1. Opns(p) = Opns(parent[p]) /\ parent[p] \in Allocated
    BY <1>2, <1>6, <1>12
  <2>2. CASE pns'[p] = c
    BY <1>2, <1>12, <2>2
  <2>3. CASE pns'[p] # c /\ pns'[parent[p]] # c
    BY <1>2, <2>1, <2>3
  <2>4. CASE pns'[p] # c /\ pns'[parent[p]] = c
    <3>1. pns'[p] = o
      BY <1>2, <2>1, <2>4
    <3> QED BY <1>2, <1>10, <2>4, <3>1
  <2> QED BY <2>2, <2>3, <2>4
<1>13. NsTreeOK'
  BY <1>5, <1>11, <1>12 DEF NsTreeOK
<1>14. NumbersOK'
  <2>1. /\ \A q \in Allocated : pns[q] = q => nextlid[q] >= 2
        /\ \A p \in Allocated \ {First} : localid[p] >= 2 /\ localid[p] < nextlid[Opns(parent[p])]
        /\ \A p, q \in Allocated \ {First} : Opns(parent[p]) = Opns(parent[q]) /\ localid[p] = localid[q] => p = q
    BY DEF NsInv, NumbersOK
  <2>2. ASSUME NEW q \in Allocated, pns'[q] = q PROVE nextlid'[q] >= 2
    <3>1. pns[q] = q
      <4>1. CASE q = i
        BY <1>4, <2>2, <4>1 DEF NsHere, NsMoved
      <4>2. CASE q # i
        BY <1>3, <2>2, <4>2
      <4> QED BY <4>1, <4>2
    <3>2. nextlid'[q] >= nextlid[q]
      BY <1>3, <1>4
    <3> QED BY <1>3, <2>1, <3>1, <3>2
  <2>3. ASSUME NEW p \in Allocated \ {First} PROVE localid[p] < nextlid'[pns'[parent[p]]]
    <3>1. CASE pns'[parent[p]] = c
      BY <1>2, <1>10, <3>1
    <3>2. CASE pns'[parent[p]] # c
      <4>1. parent[p] \in Allocated /\ pns'[parent[p]] \in Allocated /\ Opns(parent[p]) = pns'[parent[p]]
        BY <1>2, <1>6, <1>7, <3>2
      <4> QED BY <1>3, <2>1, <3>2, <4>1
    <3> QED BY <3>1, <3>2
  <2>4. ASSUME NEW p \in Allocated \ {First}, NEW q \in Allocated \ {First},
               pns'[parent[p]] = pns'[parent[q]], localid[p] = localid[q]
        PROVE  p = q
    <3>1. Opns(parent[p]) = Opns(parent[q])
      BY <1>2, <1>6, <2>4
    <3> QED BY <2>1, <2>4, <3>1
  <2>5. \A p \in Allocated' \ {First} : localid'[p] >= 2 /\ localid'[p] < nextlid'[Opns(parent[p])']
    BY <1>3, <1>5, <1>11, <2>1, <2>3
  <2>6. \A p, q \in Allocated' \ {First} :
            Opns(parent[p])' = Opns(parent[q])' /\ localid'[p] = localid'[q] => p = q
    BY <1>3, <1>5, <1>11, <2>4
  <2> QED BY <1>5, <2>2, <2>5, <2>6 DEF NumbersOK
<1>15. NsWalkInv'
  BY DEF NsWalkInv
<1> QED BY <1>1, <1>13, <1>14, <1>15 DEF NsInv

\* An iteration of proc_ns_create: no assertion fails on the way.
LEMMA NsSteps ==
    ASSUME IndInv, IdsInv, NsInv, NsCreateStep
    PROVE  NsInv' /\ panic' = panic
<1>1. PICK c, o, i : c = proc_cur /\ o = old /\ i = it
  OBVIOUS
<1>2. mode = "nscreate"
  BY DEF NsCreateStep
<1>3. PICK A, D : NsPath(A, D)
  BY <1>2 DEF NsInv, NsWalkInv
<1>4. NsHere(A, D, c, o, i)
  BY <1>1, <1>2, <1>3, NsHereIs
<1>5. NsMoved(c, o, i)
  BY <1>1, <1>4, NsMoves
<1>6. TreeFacts
  BY FactsOfInv
<1>7. /\ c \in Allocated \ {First} /\ c \in Proc /\ o \in Allocated /\ globalid[o] < globalid[c] /\ o # c
      /\ pns[o] = o /\ pns[c] = c /\ sibling(c) = NULL
      /\ i \in Allocated \ {First, c, o} /\ i \in Proc /\ i \in A /\ globalid[c] < globalid[i]
      /\ pns[i] # c /\ pns[i] \in {o, i} /\ pns[parent[i]] = c
      /\ \A q \in Allocated \ {c} : pns[q] = c => pns[parent[q]] = c
      /\ Walk(A, D, i, c)
      /\ \A a \in A \ {i} : pns[a] = c
      /\ \A a \in A \ {c}, w \in Allocated : parent[w] = parent[a] /\ globalid[w] < globalid[a] => pns[w] # c
      /\ Outside \subseteq D
  BY <1>4 DEF NsHere
<1>8. /\ pns'[i] = (IF pns[i] = o THEN c ELSE i)
      /\ \A q \in Allocated \ {i} : pns'[q] = pns[q]
  BY <1>5 DEF NsMoved
<1>9. /\ \A p \in Proc : globalid[p] \in Nat
      /\ \A p \in Allocated \ {First} : parent[p] \in Allocated /\ globalid[parent[p]] < globalid[p]
      /\ \A p \in Allocated : parent[p] = NULL <=> p = First
      /\ Allocated \subseteq Proc /\ NULL \notin Proc
  BY <1>6, UpDecreases DEF Allocated
<1>10. A \subseteq Allocated /\ \A a \in A : globalid[a] <= globalid[i] /\ globalid[c] <= globalid[a]
  BY <1>7 DEF Walk
<1>11. \A w \in Children(state, i) : /\ w \in Allocated \ {First} /\ parent[w] = i
                                     /\ globalid[w] > globalid[i] /\ w # c /\ w # o
  <2> TAKE w \in Children(state, i)
  <2>1. w \in Allocated \ {First} /\ parent[w] = i
    BY <1>7, <1>9 DEF Children, Allocated
  <2>2. globalid[w] > globalid[i]
    BY <1>9, <2>1
  <2> QED BY <1>7, <1>9, <2>1, <2>2
<1>12. PICK t, end : /\ t = climb(i, c)
                     /\ end = IF sibling(t) = NULL /\ parent[t] = c THEN c ELSE t
  OBVIOUS
<1>13. /\ mode' = IF it' = NULL THEN "prune" ELSE "nscreate"
       /\ \/ /\ child(i) # NULL
             /\ child(i) \in {c, o} \/ pns'[i] \in {c, o}
             /\ it' = child(i)
             /\ panic' = IF pns[i] \in {o, i} THEN panic ELSE "ns_create"
          \/ /\ ~(/\ child(i) # NULL
                  /\ child(i) \in {c, o} \/ pns'[i] \in {c, o})
             /\ it' = sibling(end)
             /\ panic' = IF /\ pns[i] \in {o, i}
                            /\ sibling(end) # NULL \/ end = c
                         THEN panic ELSE "ns_create"
  BY <1>1, <1>2, <1>12 DEF NsCreateStep
<1>14. CASE /\ child(i) # NULL
            /\ child(i) \in {c, o} \/ pns'[i] \in {c, o}
            /\ it' = child(i)
            /\ panic' = IF pns[i] \in {o, i} THEN panic ELSE "ns_create"
  <2>1. PICK n : n = child(i)
    OBVIOUS
  <2>2. n \in Children(state, i)
    BY <1>6, <1>7, <1>14, <2>1, childIs
  <2>3. n \in Allocated /\ parent[n] = i /\ n # c /\ n # o /\ n # i /\ n # NULL
    BY <1>9, <1>11, <2>2
  <2>4. pns'[i] = c /\ pns[i] = o
    BY <1>7, <1>8, <1>14, <2>1, <2>3
  <2>5. Walk(A \cup {n}, D, n, c)
    BY <1>6, <1>7, <1>14, <2>1, WalkDown
  <2>6. PICK B : B = A \cup {n}
    OBVIOUS
  <2>7. \A a \in B \ {n} : pns'[a] = c
    BY <1>7, <1>8, <1>10, <2>4, <2>6
  <2>8. ASSUME NEW w \in Allocated, parent[w] = i PROVE pns'[w] # c
    <3>1. w # c /\ w # i
      BY <1>7, <1>9, <1>11, <2>8 DEF Children, Allocated
    <3>2. pns[w] # c
      BY <1>7, <2>8, <3>1
    <3> QED BY <1>8, <3>1, <3>2
  <2>9. ASSUME NEW a \in A \ {c}, NEW w \in Allocated, parent[w] = parent[a], globalid[w] < globalid[a]
        PROVE  pns'[w] # c
    <3>1. w # i
      BY <1>7, <1>9, <1>10, <2>9
    <3> QED BY <1>7, <1>8, <2>9, <3>1
  <2>10. \A a \in B \ {c}, w \in Allocated : parent[w] = parent[a] /\ globalid[w] < globalid[a] => pns'[w] # c
    BY <2>3, <2>6, <2>8, <2>9
  <2>11. D \cup (B \ {n}) \subseteq D \cup A
    BY <2>6
  <2>12. mode' = "nscreate" /\ it' = n /\ pns'[n] # c /\ Walk(B, D, n, c)
    BY <1>13, <1>14, <2>1, <2>3, <2>5, <2>6, <2>8
  <2>13. NsInv'
    BY <1>1, <1>2, <1>4, <1>5, <2>3, <2>7, <2>10, <2>11, <2>12, NsGoesOn
  <2> QED BY <1>7, <1>14, <2>13
<1>15. CASE /\ ~(/\ child(i) # NULL
                 /\ child(i) \in {c, o} \/ pns'[i] \in {c, o})
            /\ it' = sibling(end)
            /\ panic' = IF /\ pns[i] \in {o, i}
                           /\ sibling(end) # NULL \/ end = c
                        THEN panic ELSE "ns_create"
  <2>1. Children(state, i) \subseteq D
    <3>1. CASE child(i) = NULL
      BY <1>6, <1>7, <3>1, childIs
    <3>2. CASE pns[i] = i
      <4> SUFFICES ASSUME NEW w \in Children(state, i) PROVE w \in Outside
        BY <1>7
      <4>1. w \in Allocated \ {First} /\ parent[w] = i /\ globalid[w] > globalid[i] /\ w # c /\ w # o
        BY <1>11
      <4>2. Opns(i) = i
        BY <1>1, <1>7, <3>2 DEF Opns
      <4>3. Opns(w) # o
        <5>1. CASE pns[w] = w
          BY <1>1, <4>1, <5>1 DEF Opns
        <5>2. CASE pns[w] # w
          BY <1>7, <4>1, <4>2, <5>2 DEF NsInv, NsTreeOK
        <5> QED BY <5>1, <5>2
      <4>4. globalid[w] > globalid[c]
        BY <1>7, <1>9, <4>1
      <4> QED BY <1>1, <1>7, <4>1, <4>2, <4>3, <4>4 DEF Outside
    <3> QED BY <1>7, <1>8, <1>15, <3>1, <3>2
  <2>2. PICK n : n = sibling(t)
    OBVIOUS
  <2>3. ClimbsTo(A, D, c, t, n)
    BY <1>6, <1>7, <1>12, <2>1, <2>2, WalkUp
  <2>4. CASE n # NULL
    <3>1. end = t /\ it' = n /\ mode' = "nscreate" /\ panic' = panic
      BY <1>7, <1>12, <1>13, <1>15, <2>2, <2>4
    <3>2. PICK B, E : /\ B = {a \in A : globalid[a] < globalid[t]} \cup {n}
                      /\ E = D \cup {a \in A : globalid[a] >= globalid[t]}
      OBVIOUS
    <3>3. Walk(B, E, n, c) /\ t \in A \ {c} /\ n # c
      BY <2>3, <2>4, <3>2 DEF ClimbsTo
    <3>4. t \in Allocated \ {First} /\ parent[t] # NULL
      BY <1>6, <1>7, <1>10, <3>3, UpDecreases, WalkIds
    <3>5. /\ n \in Allocated /\ parent[n] = parent[t] /\ globalid[n] < globalid[t]
          /\ n # i
      <4>1. n \in {d \in Children(state, parent[t]) : globalid[d] < globalid[t]}
        BY <1>6, <1>9, <2>2, <2>4, <3>4, siblingIs
      <4>2. n \in Allocated /\ parent[n] = parent[t] /\ globalid[n] < globalid[t]
        BY <4>1 DEF Children, Allocated
      <4>3. globalid[t] <= globalid[i]
        BY <1>10, <3>3
      <4> QED BY <1>7, <1>9, <3>4, <4>2, <4>3
    <3>6. \A a \in B \ {n} : pns'[a] = c
      <4> SUFFICES ASSUME NEW a \in A, globalid[a] < globalid[t] PROVE pns'[a] = c
        BY <3>2
      <4>1. a # i
        BY <1>7, <1>9, <1>10, <3>3
      <4> QED BY <1>7, <1>8, <1>10, <4>1
    <3>7. ASSUME NEW a \in A \ {c}, NEW w \in Allocated, parent[w] = parent[a], globalid[w] < globalid[a]
          PROVE  pns'[w] # c
      <4>1. w # i
        BY <1>7, <1>9, <1>10, <3>7
      <4> QED BY <1>7, <1>8, <3>7, <4>1
    <3>8. \A a \in B \ {c}, w \in Allocated : parent[w] = parent[a] /\ globalid[w] < globalid[a] => pns'[w] # c
      <4>1. \A w \in Allocated : parent[w] = parent[n] /\ globalid[w] < globalid[n] => pns'[w] # c
        <5> SUFFICES ASSUME NEW w \in Allocated, parent[w] = parent[n], globalid[w] < globalid[n] PROVE pns'[w] # c
          OBVIOUS
        <5>1. globalid[w] < globalid[t]
          BY <1>9, <3>4, <3>5
        <5> QED BY <3>3, <3>5, <3>7, <5>1
      <4> QED BY <3>2, <3>7, <4>1
    <3>9. pns'[n] # c
      BY <3>3, <3>5, <3>7
    <3>10. D \subseteq E /\ E \cup (B \ {n}) \subseteq D \cup A
      BY <3>2
    <3>11. NsInv'
      BY <1>1, <1>2, <1>4, <1>5, <3>1, <3>3, <3>6, <3>8, <3>9, <3>10, NsGoesOn
    <3> QED BY <3>1, <3>11
  <2>5. CASE n = NULL
    <3>1. t \in A /\ Closed(D \cup A, c) /\ parent[t] \in {c, NULL}
      BY <2>3, <2>5 DEF ClimbsTo
    <3>2. parent[t] = c
      <4>1. parent[t] # NULL
        <5>1. CASE t = c
          BY <1>7, <1>9, <5>1
        <5>2. CASE t # c
          BY <1>6, <1>7, <3>1, <5>2, WalkIds
        <5> QED BY <5>1, <5>2
      <4> QED BY <3>1, <4>1
    <3>3. end = c /\ it' = NULL /\ mode' = "prune" /\ panic' = panic
      BY <1>7, <1>12, <1>13, <1>15, <2>2, <2>5, <3>2
    <3>4. NsInv'
      BY <1>1, <1>2, <1>4, <1>5, <3>1, <3>3, NsEnds
    <3> QED BY <3>3, <3>4
  <2> QED BY <2>4, <2>5
<1> QED BY <1>13, <1>14, <1>15

-----------------------------------------------------------------------------
(* The assertions of proc_tryreap. *)

\* What they need of the states st that the processes are in when d is given
\* to proc_tryreap: below d the tree is in order, and a d that is not kept for
\* its parent has no child in TOREAP.
Orderly(st, d) ==
    /\ \A q \in Proc : st[q] \in States /\ (st[q] # "FREED" => state[q] # "FREED")
    /\ \A q \in Proc \ {First} : st[q] # "FREED" /\ globalid[q] > globalid[d] =>
        /\ st[q] = "TOREAP" => proc_alive(st, parent[q])
        /\ st[q] = "TOMBSTONE" => Children(st, q) # {}
    /\ \A c \in Children(st, d) : st[c] # "TOREAP"

LEMMA AssertsHold ==
    ASSUME TreeFacts, NEW st, NEW d \in Proc, Orderly(st, d),
           parent[d] # NULL => proc_ns_id_ok(pns[parent[d]], d)
    PROVE  tryreap_asserts(st, d) = panic
<1> DEFINE F(f) == [q \in Proc |-> IF Children(st, q) = {} THEN q ELSE f[NewestOf(Children(st, q))]]
           first == CHOOSE f : f = F(f)
           T     == {q \in Proc : Children(st, q) = {}}
           nx    == [q \in Proc |-> NewestOf(Children(st, q))]
           m     == [q \in Proc |-> next_pid - globalid[q]]
<1>1. /\ \A q \in Proc : st[q] \in States /\ (st[q] # "FREED" => state[q] # "FREED")
      /\ \A q \in Proc \ {First} : st[q] # "FREED" /\ globalid[q] > globalid[d] =>
            /\ st[q] = "TOREAP" => proc_alive(st, parent[q])
            /\ st[q] = "TOMBSTONE" => Children(st, q) # {}
      /\ \A c \in Children(st, d) : st[c] # "TOREAP"
  BY DEF Orderly
<1>2. /\ \A p \in Proc : globalid[p] \in Nat /\ globalid[p] < next_pid
      /\ next_pid \in Nat /\ NULL \notin Proc
      /\ \A p \in Proc : parent[p] # NULL => p # First /\ globalid[parent[p]] < globalid[p]
  BY UpDecreases
<1>3. ASSUME NEW q \in Proc, Children(st, q) # {}
      PROVE  /\ nx[q] \in Proc \ {First} /\ st[nx[q]] # "FREED" /\ globalid[q] < globalid[nx[q]]
             /\ nx[q] = NewestOf(Children(st, q))
  <2>1. Children(st, q) \subseteq Proc
    BY DEF Children
  <2>2. NewestOf(Children(st, q)) \in Children(st, q)
    <3>1. NewestOf(Children(st, q)) # NULL
      BY <1>3, <2>1, NewestIs
    <3> QED BY <2>1, <3>1, NewestIs
  <2>3. PICK n : n = NewestOf(Children(st, q))
    OBVIOUS
  <2>4. n \in Proc /\ st[n] # "FREED" /\ parent[n] = q
    BY <2>2, <2>3 DEF Children
  <2>5. globalid[q] < globalid[n] /\ n # First
    BY <1>2, <2>4
  <2> QED BY <2>3, <2>4, <2>5
<1>4. Descends(Proc, T, nx, m, next_pid + 1)
  <2>1. \A q \in Proc : m[q] \in Nat /\ m[q] < next_pid + 1
    BY <1>2
  <2>2. ASSUME NEW q \in Proc \ T PROVE nx[q] \in Proc /\ m[nx[q]] < m[q]
    <3>1. nx[q] \in Proc /\ globalid[q] < globalid[nx[q]]
      BY <1>3, <2>2
    <3> HIDE DEF nx
    <3>2. m[nx[q]] = next_pid - globalid[nx[q]] /\ m[q] = next_pid - globalid[q]
      BY <3>1
    <3> QED BY <1>2, <3>1, <3>2
  <2> HIDE DEF T, nx, m
  <2> QED BY <1>2, <2>1, <2>2 DEF Descends
<1>5. \A f : f = F(f) <=> Loop(Proc, T, nx, f)
  <2> SUFFICES ASSUME NEW f PROVE F(f) = [q \in Proc |-> IF q \in T THEN q ELSE f[nx[q]]]
    BY DEF Loop
  <2> QED OBVIOUS
<1>6. Loop(Proc, T, nx, first)
  <2>1. \E f : Loop(Proc, T, nx, f)
    <3> HIDE DEF T, nx, m
    <3> QED BY <1>4, LoopExists
  <2> HIDE DEF F, T, nx
  <2> QED BY <1>5, <2>1
<1>7. ASSUME Children(st, d) # {}
      PROVE  IF st[first[d]] = "TOREAP" THEN proc_alive(st, parent[first[d]])
             ELSE proc_alive(st, first[d]) \/ st[first[d]] = "DEADLEAF"
  <2> DEFINE P == {q \in Proc \ {First} : st[q] # "FREED" /\ globalid[q] > globalid[d]}
  <2>1. nx[d] \in P
    BY <1>2, <1>3, <1>7
  <2>2. \A q \in P \ T : nx[q] \in P
    <3> SUFFICES ASSUME NEW q \in P, q \notin T PROVE nx[q] \in P
      OBVIOUS
    <3>1. nx[q] \in Proc \ {First} /\ st[nx[q]] # "FREED" /\ globalid[q] < globalid[nx[q]]
      BY <1>3
    <3> HIDE DEF nx
    <3> QED BY <1>2, <3>1
  <2>3. P \subseteq Proc
    OBVIOUS
  <2>4. d \notin T
    BY <1>7
  <2> HIDE DEF first, nx, m, T, P
  <2>5. first[nx[d]] \in P /\ first[nx[d]] \in T
    BY <1>4, <1>6, <2>1, <2>2, <2>3, LoopEnds
  <2>6. first[d] = first[nx[d]]
    BY <1>6, <2>4 DEF Loop
  <2>7. PICK l : l = first[d]
    OBVIOUS
  <2>8. l \in Proc \ {First} /\ st[l] # "FREED" /\ globalid[l] > globalid[d] /\ Children(st, l) = {}
    BY <2>5, <2>6, <2>7 DEF P, T
  <2>9. st[l] # "TOMBSTONE" /\ (st[l] = "TOREAP" => proc_alive(st, parent[l]))
    BY <1>1, <2>8
  <2>10. l # NULL
    BY <1>2, <2>8
  <2> QED BY <2>7, <2>8, <2>9, <2>10 DEF proc_alive, Dead
<1>8. Collectable(st, d) => proc_ns_id_ok(pns[parent[d]], d)
  BY DEF Collectable, proc_alive
<1> HIDE DEF first
<1>9. tryreap_asserts(st, d) =
        IF /\ Collectable(st, d)
           /\ st[parent[d]] = "WAITS4CHILDDEATH"
           /\ ~proc_ns_id_ok(pns[parent[d]], d)
        THEN "ns_id"
        ELSE IF \/ Collectable(st, d) /\ ~Collected(st, d)
                \/ Children(st, d) = {}
                \/ /\ \A c \in Children(st, d) : st[c] # "TOREAP"
                   /\ IF st[first[d]] = "TOREAP" THEN proc_alive(st, parent[first[d]])
                      ELSE proc_alive(st, first[d]) \/ st[first[d]] = "DEADLEAF"
        THEN panic ELSE "tryreap"
  BY DEF tryreap_asserts, first, F
<1> QED BY <1>1, <1>7, <1>8, <1>9

LEMMA NsIdOk ==
    ASSUME IndInv, NsInv, mode # "nscreate", NEW d \in Allocated, parent[d] # NULL
    PROVE  proc_ns_id_ok(pns[parent[d]], d)
<1>1. d # First
  BY DEF IndInv, TreeInv, InitOK
<1>2. pns[d] # d => pns[d] = pns[parent[d]]
  BY <1>1, OutsideWalk
<1> QED BY <1>2 DEF proc_ns_id_ok

\* What TreeOK says of the states as they are.
LEMMA TreeOrderly ==
    ASSUME IndInv
    PROVE  /\ \A q \in Proc \ {First} : state[q] # "FREED" =>
                /\ state[q] = "TOREAP" => proc_alive(state, parent[q]) /\ parent[q] \in Proc
                /\ state[q] = "TOMBSTONE" => Children(state, q) # {}
           /\ \A q \in Proc : state[q] \in States
           /\ \A d \in Proc : state[d] \in Dead => \A c \in Children(state, d) : state[c] # "TOREAP"
<1>1. \A q \in Proc \ {First} : state[q] # "FREED" =>
          /\ state[q] = "TOREAP" => proc_alive(state, parent[q]) /\ parent[q] \in Proc
          /\ state[q] = "TOMBSTONE" => Children(state, q) # {}
  BY DEF IndInv, TreeInv, TreeOK, Allocated
<1>2. \A q \in Proc : state[q] \in States
  BY DEF IndInv, TypeOK
<1>3. ASSUME NEW d \in Proc, state[d] \in Dead, NEW c \in Children(state, d) PROVE state[c] # "TOREAP"
  <2>1. c \in Proc /\ parent[c] = d /\ state[c] # "FREED"
    BY <1>3 DEF Children
  <2>2. c # First
    BY <2>1, ProcAssumption DEF IndInv, TreeInv, InitOK
  <2> QED BY <1>1, <1>3, <2>1, <2>2 DEF proc_alive
<1> QED BY <1>1, <1>2, <1>3

\* proc_kill fails no assertion.
LEMMA KillAsserts ==
    ASSUME IndInv, IdsInv, NsInv, mode # "nscreate", NEW p \in Allocated, p = First => proc_alive(state, p),
           Kill(p), panic = "none"
    PROVE  panic' = "none"
<1>1. TreeFacts /\ p \in Proc /\ NULL \notin Proc /\ parent[First] = NULL
  BY FactsOfInv, ProcAssumption DEF Allocated, IndInv, TreeInv, InitOK
<1>2. /\ \A q \in Proc \ {First} : state[q] # "FREED" =>
            /\ state[q] = "TOREAP" => proc_alive(state, parent[q]) /\ parent[q] \in Proc
            /\ state[q] = "TOMBSTONE" => Children(state, q) # {}
      /\ \A q \in Proc : state[q] \in States
      /\ \A d \in Proc : state[d] \in Dead => \A c \in Children(state, d) : state[c] # "TOREAP"
  BY TreeOrderly
<1>3. CASE ~proc_alive(state, p)
  <2>1. Orderly(state, p)
    BY <1>1, <1>2, <1>3 DEF Orderly, proc_alive
  <2>2. panic' = tryreap_asserts(state, p)
    BY <1>3 DEF Kill
  <2>3. tryreap_asserts(state, p) = panic
    BY <1>1, <2>1, NsIdOk, AssertsHold
  <2> QED BY <2>2, <2>3
<1>4. CASE proc_alive(state, p)
  <2>0. PICK l : l = lostStates(p)
    OBVIOUS
  <2>1. /\ l[p] \in {"TOREAP", "TOMBSTONE"} /\ state[p] \notin Dead
        /\ \A q \in Toreap(p) : /\ q \in Proc /\ q # p /\ parent[q] = p /\ state[q] = "TOREAP" /\ q # First
                                /\ l[q] = Buried(state, q)
        /\ \A q \in Proc \ {p} : q \notin Toreap(p) => l[q] = state[q]
    <3>1. \A q \in Toreap(p) : q # p /\ parent[q] = p /\ state[q] = "TOREAP" /\ q \in Proc
      BY <1>4 DEF Toreap, Children, proc_alive, Dead
    <3>2. p \notin Toreap(p) /\ First \notin Toreap(p)
      BY <1>1, <3>1
    <3> QED BY <1>1, <1>4, <2>0, <3>1, <3>2 DEF lostStates, dyingStates, proc_alive
  <2>2. \A q \in Proc : l[q] \in States /\ (l[q] = "FREED" <=> state[q] = "FREED")
    BY <1>1, <1>2, <2>1 DEF Buried, Dead, States
  <2>3. \A q : Children(l, q) = Children(state, q)
    BY <2>2 DEF Children
  <2>4. \A q \in Toreap(p) : /\ l[q] \in {"TOMBSTONE", "DEADLEAF"}
                             /\ l[q] = "TOMBSTONE" => Children(l, q) # {}
    BY <1>1, <2>1, <2>3 DEF Buried
  <2>5. \A r \in Proc : parent[r] # NULL => globalid[parent[r]] < globalid[r] /\ globalid[r] \in Nat
                                            /\ globalid[parent[r]] \in Nat
    BY <1>1, UpDecreases
  <2>6. ASSUME NEW r \in Proc \ {First}, l[r] # "FREED", r # p
        PROVE  /\ l[r] = "TOREAP" => proc_alive(l, parent[r])
               /\ l[r] = "TOMBSTONE" => Children(l, r) # {}
    <3>1. CASE r \in Toreap(p)
      BY <2>4, <3>1
    <3>2. CASE r \notin Toreap(p)
      <4>1. l[r] = state[r] /\ state[r] # "FREED"
        BY <2>1, <2>2, <2>6, <3>2
      <4>2. ASSUME state[r] = "TOREAP" PROVE proc_alive(l, parent[r])
        <5>1. proc_alive(state, parent[r]) /\ parent[r] \in Proc
          BY <1>2, <2>6, <4>1, <4>2
        <5>2. parent[r] # p
          BY <3>2, <4>2 DEF Toreap, Children
        <5>3. parent[r] \notin Toreap(p)
          BY <2>1, <5>1 DEF proc_alive, Dead
        <5> QED BY <2>1, <5>1, <5>2, <5>3 DEF proc_alive
      <4>3. state[r] = "TOMBSTONE" => Children(l, r) # {}
        BY <1>2, <2>3, <2>6, <4>1
      <4> QED BY <4>1, <4>2, <4>3
    <3> QED BY <3>1, <3>2
  <2>7. ASSUME NEW q \in Proc, q = p \/ q \in Toreap(p) PROVE Orderly(l, q)
    <3>1. \A c \in Children(l, q) : l[c] # "TOREAP"
      <4> SUFFICES ASSUME NEW c \in Children(state, q) PROVE l[c] # "TOREAP"
        BY <2>3
      <4>0. c \in Proc /\ parent[c] = q
        BY DEF Children
      <4>1. CASE c \in Toreap(p)
        BY <2>4, <4>1
      <4>2. CASE c \notin Toreap(p) /\ q = p
        <5>1. c # p
          BY <1>1, <2>5, <4>0, <4>2
        <5>2. state[c] # "TOREAP"
          BY <4>2 DEF Toreap
        <5> QED BY <2>1, <4>0, <4>2, <5>1, <5>2
      <4>3. CASE c \notin Toreap(p) /\ q # p
        <5>1. q \in Toreap(p) /\ parent[q] = p /\ state[q] = "TOREAP"
          BY <2>1, <2>7, <4>3
        <5>2. c # p
          BY <1>1, <2>5, <4>0, <5>1
        <5>3. state[c] # "TOREAP"
          BY <1>2, <5>1 DEF Dead
        <5> QED BY <2>1, <4>0, <4>3, <5>2, <5>3
      <4> QED BY <4>1, <4>2, <4>3
    <3>2. \A r \in Proc \ {First} : globalid[r] > globalid[q] => r # p
      <4>1. globalid[p] <= globalid[q] /\ globalid[p] \in Nat /\ globalid[q] \in Nat
        <5>1. globalid[p] \in Nat /\ globalid[q] \in Nat
          BY <1>1, UpDecreases
        <5>2. CASE q = p
          BY <5>1, <5>2
        <5>3. CASE q \in Toreap(p)
          BY <1>1, <2>1, <2>5, <5>1, <5>3
        <5> QED BY <2>7, <5>1, <5>2, <5>3
      <4> QED BY <4>1
    <3> QED BY <2>2, <2>6, <3>1, <3>2 DEF Orderly
  <2>8. ASSUME NEW q \in Toreap(p) \cup ({p} \ {First}) PROVE tryreap_asserts(l, q) = "none"
    <3>1. q \in Proc /\ q \in Allocated
      BY <1>1, <2>1 DEF Allocated
    <3>2. Orderly(l, q)
      BY <2>7, <2>8, <3>1
    <3>3. parent[q] # NULL => proc_ns_id_ok(pns[parent[q]], q)
      BY <3>1, NsIdOk
    <3> QED BY <1>1, <3>1, <3>2, <3>3, AssertsHold
  <2>9. panic' = LET bad == {q \in Toreap(p) \cup ({p} \ {First}) : tryreap_asserts(l, q) # "none"}
                 IN IF bad = {} THEN panic ELSE tryreap_asserts(l, CHOOSE q \in bad : TRUE)
    BY <1>4, <2>0 DEF Kill
  <2>10. {q \in Toreap(p) \cup ({p} \ {First}) : tryreap_asserts(l, q) # "none"} = {}
    BY <2>8
  <2> QED BY <2>9, <2>10
<1> QED BY <1>3, <1>4

\* Neither does proc_prune_leaves, ...
LEMMA PruneAsserts ==
    ASSUME IndInv, IdsInv, NsInv, PruneStep
    PROVE  panic' = "none"
<1>0. panic = "none" /\ mode # "nscreate"
  BY DEF PruneStep
<1>1. PICK p \in dead_leaves :
        /\ Cut(p)
        /\ LET freed == [state EXCEPT ![p] = "FREED"]
               up    == parent[p]
           IN IF proc_alive(state, up) THEN Bury(freed, freed) /\ UNCHANGED panic
              ELSE Bury(freed, proc_tryreap(freed, up)) /\ panic' = tryreap_asserts(freed, up)
        /\ pns' = [pns EXCEPT ![p] = p]
  BY PruneCuts
<1>2. TreeFacts /\ p \in Proc /\ state[p] = "DEADLEAF" /\ p \in Allocated \ {First}
  BY <1>1, FactsOfInv DEF Cut, IndInv, TreeInv, InitOK, Allocated
<1>3. PICK up, fr : up = parent[p] /\ fr = [state EXCEPT ![p] = "FREED"]
  OBVIOUS
<1>4. CASE proc_alive(state, up)
  BY <1>0, <1>1, <1>3, <1>4
<1>5. CASE ~proc_alive(state, up)
  <2>1. panic' = tryreap_asserts(fr, up)
    BY <1>1, <1>3, <1>5
  <2>2. up \in Allocated /\ up \in Proc /\ up # p
    <3>1. up \in Allocated /\ globalid[up] < globalid[p]
      BY <1>2, <1>3 DEF IndInv, TreeInv, TreeOK
    <3> QED BY <1>2, <3>1 DEF IndInv, TypeOK, Allocated
  <2>3. fr[p] = "FREED" /\ (\A q \in Proc \ {p} : fr[q] = state[q])
    BY <1>2, <1>3 DEF IndInv, TypeOK
  <2>4. /\ \A q \in Proc \ {First} : state[q] # "FREED" =>
              /\ state[q] = "TOREAP" => proc_alive(state, parent[q]) /\ parent[q] \in Proc
              /\ state[q] = "TOMBSTONE" => Children(state, q) # {}
        /\ \A q \in Proc : state[q] \in States
        /\ \A d \in Proc : state[d] \in Dead => \A c \in Children(state, d) : state[c] # "TOREAP"
    BY TreeOrderly
  <2>5. state[up] \in Dead
    BY <1>5, <2>2, ProcAssumption DEF proc_alive
  <2>6. \A c \in Children(fr, up) : fr[c] # "TOREAP"
    <3> SUFFICES ASSUME NEW c \in Children(fr, up) PROVE fr[c] # "TOREAP"
      OBVIOUS
    <3>1. c \in Proc /\ c # p /\ parent[c] = up /\ fr[c] = state[c] /\ state[c] # "FREED"
      BY <2>3 DEF Children
    <3>2. c \in Children(state, up)
      BY <3>1 DEF Children
    <3> QED BY <2>2, <2>4, <2>5, <3>1, <3>2
  <2>7. ASSUME NEW r \in Proc \ {First}, fr[r] # "FREED", globalid[r] > globalid[up]
        PROVE  /\ fr[r] = "TOREAP" => proc_alive(fr, parent[r])
               /\ fr[r] = "TOMBSTONE" => Children(fr, r) # {}
    <3>1. r # p /\ fr[r] = state[r] /\ state[r] # "FREED"
      BY <2>3, <2>7
    <3>2. ASSUME state[r] = "TOREAP" PROVE proc_alive(fr, parent[r])
      <4>1. proc_alive(state, parent[r]) /\ parent[r] \in Proc
        BY <2>4, <2>7, <3>1, <3>2
      <4>2. parent[r] # p
        BY <1>2, <4>1 DEF proc_alive, Dead
      <4> QED BY <2>3, <4>1, <4>2 DEF proc_alive
    <3>3. ASSUME state[r] = "TOMBSTONE" PROVE Children(fr, r) # {}
      <4>1. PICK c \in Children(state, r) : TRUE
        BY <2>4, <2>7, <3>1, <3>3
      <4>2. c \in Proc /\ parent[c] = r /\ state[c] # "FREED"
        BY DEF Children
      <4>3. r # up
        BY <1>2, <2>7, UpDecreases
      <4>4. c # p
        BY <1>3, <4>2, <4>3
      <4>5. c \in Children(fr, r)
        BY <2>3, <4>2, <4>4 DEF Children
      <4> QED BY <4>5
    <3> QED BY <3>1, <3>2, <3>3
  <2>8. \A q \in Proc : fr[q] \in States /\ (fr[q] # "FREED" => state[q] # "FREED")
    BY <2>3, <2>4 DEF States, Dead
  <2>9. Orderly(fr, up)
    BY <2>6, <2>7, <2>8 DEF Orderly
  <2>10. tryreap_asserts(fr, up) = panic
    <3>1. parent[up] # NULL => proc_ns_id_ok(pns[parent[up]], up)
      BY <1>0, <2>2, NsIdOk
    <3> QED BY <1>2, <2>2, <2>9, <3>1, AssertsHold
  <2> QED BY <1>0, <2>1, <2>10
<1> QED BY <1>4, <1>5

\* ... or _sys_wait2.
LEMMA Wait2Asserts ==
    ASSUME IndInv, IdsInv, NsInv, Wait2
    PROVE  panic' = "none"
<1>1. /\ panic = "none" /\ mode = "user" /\ state[proc_cur] = "RUNNING" /\ proc_cur \in Proc
  BY DEF Wait2, User, IndInv, LoopOK, TypeOK
<1>2. PICK w : w = [state EXCEPT ![proc_cur] = "WAITS4CHILDDEATH"]
  OBVIOUS
<1> DEFINE mine == Reapable(proc_cur)
           ready(pid) == {c \in mine : /\ state[c] = "TOREAP"
                                       /\ pid \in {0, proc_ns_id(pns[proc_cur], c)}}
           seen(pid)  == {c \in mine : /\ state[c] = "TOREAP"
                                       /\ ready(pid) # {} => globalid[c] >= globalid[NewestOf(ready(pid))]}
           ns_ok(pid) == \A c \in seen(pid) : proc_ns_id_ok(pns[proc_cur], c)
<1>3. PICK pid :
        \/ /\ ready(pid) # {}
           /\ panic' = IF ns_ok(pid) THEN tryreap_asserts(w, NewestOf(ready(pid))) ELSE "ns_id"
        \/ panic' = IF ns_ok(pid) THEN panic ELSE "ns_id"
        \/ panic' = panic
  BY <1>2 DEF Wait2
<1>4. \A c \in mine : c \in Allocated /\ c \in Proc /\ parent[c] = proc_cur
  BY DEF Reapable, Children, Allocated
<1>5. TreeFacts /\ NULL \notin Proc
  BY FactsOfInv, ProcAssumption
<1>6. ns_ok(pid)
  <2> SUFFICES ASSUME NEW c \in mine PROVE proc_ns_id_ok(pns[proc_cur], c)
    OBVIOUS
  <2>1. c \in Allocated /\ parent[c] = proc_cur /\ parent[c] # NULL
    BY <1>1, <1>4, <1>5
  <2>2. proc_ns_id_ok(pns[parent[c]], c)
    BY <1>1, <2>1, NsIdOk
  <2> QED BY <2>1, <2>2
<1> HIDE DEF ns_ok
<1>7. CASE /\ ready(pid) # {}
           /\ panic' = IF ns_ok(pid) THEN tryreap_asserts(w, NewestOf(ready(pid))) ELSE "ns_id"
  <2>1. PICK d : d = NewestOf(ready(pid))
    OBVIOUS
  <2>2. d \in ready(pid)
    <3>1. ready(pid) \subseteq Proc
      BY <1>4
    <3>2. PICK S : S = ready(pid)
      OBVIOUS
    <3>3. NewestOf(S) # NULL
      BY <1>5, <1>7, <3>1, <3>2, NewestIs
    <3>4. NewestOf(S) \in S
      BY <1>5, <3>1, <3>2, <3>3, NewestIs
    <3> QED BY <2>1, <3>2, <3>4
  <2>3. d \in Proc /\ d \in Allocated /\ state[d] = "TOREAP" /\ parent[d] # NULL
    BY <1>1, <1>4, <1>5, <2>2
  <2>4. w[proc_cur] = "WAITS4CHILDDEATH" /\ \A q \in Proc \ {proc_cur} : w[q] = state[q]
    BY <1>1, <1>2 DEF IndInv, TypeOK
  <2>5. /\ \A q \in Proc \ {First} : state[q] # "FREED" =>
              /\ state[q] = "TOREAP" => proc_alive(state, parent[q]) /\ parent[q] \in Proc
              /\ state[q] = "TOMBSTONE" => Children(state, q) # {}
        /\ \A q \in Proc : state[q] \in States
        /\ \A e \in Proc : state[e] \in Dead => \A c \in Children(state, e) : state[c] # "TOREAP"
    BY TreeOrderly
  <2>6. \A q \in Proc : w[q] \in States /\ (w[q] # "FREED" <=> state[q] # "FREED")
    BY <1>1, <2>4, <2>5 DEF States, Waiting
  <2>7. \A q : Children(w, q) = Children(state, q)
    BY <2>6 DEF Children
  <2>8. \A q \in Proc : proc_alive(state, q) => proc_alive(w, q)
    BY <2>4 DEF proc_alive, Dead
  <2>9. \A q \in Proc \ {First} : w[q] # "FREED" =>
            /\ w[q] = "TOREAP" => proc_alive(w, parent[q])
            /\ w[q] = "TOMBSTONE" => Children(w, q) # {}
    BY <2>4, <2>5, <2>6, <2>7, <2>8
  <2>10. \A c \in Children(w, d) : w[c] # "TOREAP"
    <3> SUFFICES ASSUME NEW c \in Children(state, d) PROVE w[c] # "TOREAP"
      BY <2>7
    <3>1. state[c] # "TOREAP" /\ c \in Proc
      BY <2>3, <2>5 DEF Dead, Children
    <3> QED BY <2>4, <3>1
  <2>11. Orderly(w, d)
    BY <2>6, <2>9, <2>10 DEF Orderly
  <2>12. tryreap_asserts(w, d) = panic
    <3>1. proc_ns_id_ok(pns[parent[d]], d)
      BY <1>1, <2>3, NsIdOk
    <3> QED BY <1>5, <2>3, <2>11, <3>1, AssertsHold
  <2> QED BY <1>1, <1>6, <1>7, <2>1, <2>12
<1> QED BY <1>1, <1>3, <1>6, <1>7

-----------------------------------------------------------------------------
(* Every step keeps the invariant and fails no assertion. *)

\* The tree grows and shrinks only where parent changes.
LEMMA StillTree ==
    ASSUME IndInv, IdsInv, [Next]_vars, parent' = parent
    PROVE  SameTree
<1>1. ASSUME NEW c, Grown(c) PROVE FALSE
  <2>1. c \in Proc /\ state[c] = "FREED" /\ parent'[c] # NULL
    BY <1>1, ProcAssumption DEF Grown, IndInv, TypeOK
  <2> QED BY <2>1 DEF IdsInv, FreedOK, Allocated
<1>2. ASSUME NEW p, Cut(p) PROVE FALSE
  <2>1. p \in Proc /\ state[p] = "DEADLEAF" /\ parent'[p] = NULL
    BY <1>2 DEF Cut, IndInv, TypeOK
  <2>2. p \in Allocated \ {First}
    BY <2>1 DEF Allocated, IndInv, TreeInv, InitOK
  <2>3. parent[p] \in Proc
    BY <2>2 DEF IndInv, TreeInv, TreeOK, Allocated
  <2> QED BY <2>1, <2>3, ProcAssumption
<1> QED BY <1>1, <1>2, NextTree

LEMMA NsStutters == ASSUME NsInv, UNCHANGED vars PROVE NsInv'
<1>1. UNCHANGED <<state, parent, globalid, pns, localid, nextlid, mode, it, old, proc_cur>>
  BY DEF vars
<1>2. Allocated' = Allocated /\ \A p : Opns(p)' = Opns(p)
  BY <1>1 DEF Allocated, Opns
<1>3. OwnersOK' /\ NsTreeOK' /\ NumbersOK'
  BY <1>1, <1>2 DEF NsInv, OwnersOK, NsTreeOK, NumbersOK
<1>4. NsWalkInv'
  <2> SUFFICES ASSUME mode = "nscreate" PROVE NsWalkInv'
    BY <1>1 DEF NsWalkInv
  <2>1. SameTree
    BY <1>1 DEF SameTree
  <2>2. PICK A, D \in SUBSET Proc : NsPath(A, D)
    BY DEF NsInv, NsWalkInv
  <2>3. PICK n, c : n = it /\ c = proc_cur
    OBVIOUS
  <2>4. Walk(A, D, n, c)'
    BY <2>1, <2>2, <2>3, WalkKept DEF NsPath
  <2>5. Walk(A, D, it, proc_cur)'
    BY <1>1, <2>3, <2>4 DEF Walk
  <2>6. Outside' = Outside
    BY <1>1, <1>2 DEF Outside
  <2>7. NsPath(A, D)'
    BY <1>1, <1>2, <2>2, <2>5, <2>6 DEF NsPath, Passed
  <2>8. sibling(proc_cur)' = sibling(proc_cur)
    BY <1>1 DEF sibling, NewestOf, Children
  <2> QED BY <1>1, <1>2, <2>7, <2>8 DEF NsInv, NsWalkInv
<1> QED BY <1>3, <1>4 DEF NsInv

LEMMA NsNext ==
    ASSUME NsCareful, WalkInv, NsInv, NoPanic, [Next]_vars
    PROVE  NsInv' /\ NoPanic'
<1>1. IndInv /\ IdsInv /\ TypeOK /\ LoopOK
  BY DEF WalkInv, IndInv
<1>2. ASSUME parent' = parent, SameNames, mode # "nscreate", mode' # "nscreate" PROVE NsInv'
  <2>1. SameTree
    BY <1>1, <1>2, StillTree
  <2> QED BY <1>2, <2>1, NsKept
<1>3. CASE Fork
  <2>1. PICK c \in Proc, nr \in BOOLEAN : proc_fork(c, nr) /\ state' = [state EXCEPT ![c] = "RUNNING"]
    BY <1>3 DEF Fork
  <2>2. mode = "user" /\ mode' = "prune" /\ panic' = panic
    BY <1>3 DEF Fork, User, Return
  <2>3. state'[c] = "RUNNING" /\ \A q \in Proc \ {c} : state'[q] = state[q]
    BY <1>1, <2>1 DEF TypeOK
  <2>4. NsInv'
    BY <1>1, <2>1, <2>2, <2>3, NsFork
  <2> QED BY <2>2, <2>4 DEF NoPanic
<1>4. CASE ForkFail
  <2>1. PICK c \in Proc : proc_fork(c, TRUE) /\ state' = [state EXCEPT ![c] = "DEADLEAF"]
    BY <1>4 DEF ForkFail
  <2>2. mode = "user" /\ mode' = "prune" /\ panic' = panic
    BY <1>4 DEF ForkFail, User, Return
  <2>3. state'[c] = "DEADLEAF" /\ \A q \in Proc \ {c} : state'[q] = state[q]
    BY <1>1, <2>1 DEF TypeOK
  <2>4. NsInv'
    BY <1>1, <2>1, <2>2, <2>3, NsFork
  <2> QED BY <2>2, <2>4 DEF NoPanic
<1>5. CASE Exit
  <2>1. /\ mode = "user" /\ mode' = "prune" /\ panic = "none" /\ Kill(proc_cur)
        /\ parent' = parent /\ SameNames
    BY <1>5 DEF Exit, User, Return, SameNames, ns
  <2>2. proc_cur \in Allocated /\ proc_alive(state, proc_cur)
    BY <1>1, <2>1, ProcAssumption DEF LoopOK, Allocated, TypeOK, proc_alive, Dead
  <2>3. panic' = "none"
    BY <1>1, <2>1, <2>2, KillAsserts
  <2> QED BY <1>2, <2>1, <2>3 DEF NoPanic
<1>6. CASE Wait2
  <2>1. mode = "user" /\ mode' = "prune" /\ parent' = parent /\ SameNames
    BY <1>6 DEF Wait2, User, Return, SameNames, ns
  <2>2. panic' = "none"
    BY <1>1, <1>6, Wait2Asserts
  <2> QED BY <1>2, <2>1, <2>2 DEF NoPanic
<1>7. CASE Intr \/ IntrSet \/ Block \/ WakeOther
  <2>1. mode = "user" /\ mode' # "nscreate" /\ parent' = parent /\ SameNames /\ panic' = panic
    BY <1>7 DEF Intr, IntrSet, Block, WakeOther, User, Return, SameNames, tree, ns
  <2> QED BY <1>2, <2>1 DEF NoPanic
<1>8. CASE GetProcfs
  <2>1. panic' = panic
    BY <1>8 DEF GetProcfs
  <2>2. CASE pns[proc_cur] = proc_cur
    <3>1. mode = "user" /\ mode' = "prune" /\ parent' = parent /\ SameNames
      BY <1>8, <2>2 DEF GetProcfs, User, Return, SameNames, tree, ns
    <3> QED BY <1>2, <2>1, <3>1 DEF NoPanic
  <2>3. CASE pns[proc_cur] # proc_cur
    <3>1. NsInv'
      BY <1>1, <1>8, <2>3, NsBegins
    <3> QED BY <2>1, <3>1 DEF NoPanic
  <2> QED BY <2>2, <2>3
<1>9. CASE IntrStep
  <2>1. /\ mode \in {"intr", "kill"} /\ panic = "none" /\ parent' = parent /\ SameNames
        /\ mode' # "nscreate"
    BY <1>9 DEF IntrStep, SameNames, ns
  <2>2. CASE mode = "kill"
    <3>1. Kill(it) /\ it \in Allocated \ {First}
      BY <1>1, <1>9, <2>2 DEF IntrStep, LoopOK
    <3>2. panic' = "none"
      BY <1>1, <2>1, <2>2, <3>1, KillAsserts
    <3> QED BY <1>2, <2>1, <3>2 DEF NoPanic
  <2>3. CASE mode = "intr"
    <3>1. panic' = panic
      BY <1>9, <2>3 DEF IntrStep
    <3> QED BY <1>2, <2>1, <3>1 DEF NoPanic
  <2> QED BY <2>1, <2>2, <2>3
<1>10. CASE NsCreateStep
  BY <1>1, <1>10, NsSteps DEF NoPanic
<1>11. CASE PruneStep
  BY <1>1, <1>11, NsPrune, PruneAsserts DEF NoPanic
<1>12. CASE PruneEnd \/ ScanStep \/ Idle
  <2>1. /\ mode # "nscreate" /\ mode' # "nscreate" /\ parent' = parent /\ SameNames
        /\ panic' \in {panic, "init"}
    BY <1>12 DEF PruneEnd, ScanStep, Idle, SameNames, tree, ns
  <2> QED BY <1>2, <2>1 DEF NoPanic
<1>13. CASE UNCHANGED vars
  <2>1. panic' = panic
    BY <1>13 DEF vars
  <2> QED BY <1>13, <2>1, NsStutters DEF NoPanic
<1> QED BY <1>3, <1>4, <1>5, <1>6, <1>7, <1>8, <1>9, <1>10, <1>11, <1>12, <1>13
        DEF Next, Syscall, Kernel

-----------------------------------------------------------------------------
(* What a process waits for when the numbers change. *)

\* A child is younger than the owner of its parent's namespace: its number
\* there is localid.
LEMMA ChildNumber ==
    ASSUME IndInv, OwnersOK, NEW c \in Allocated \ {First}
    PROVE  proc_ns_id(pns[parent[c]], c) = localid[c] /\ parent[c] \in Proc /\ parent[c] # NULL
<1>1. parent[c] \in Allocated /\ globalid[parent[c]] < globalid[c]
  BY DEF IndInv, TreeInv, TreeOK
<1>2. globalid[pns[parent[c]]] <= globalid[parent[c]]
  BY <1>1 DEF OwnersOK
<1>3. parent[c] \in Proc /\ pns[parent[c]] \in Proc /\ c \in Proc
  BY <1>1 DEF IndInv, TypeOK, Allocated
<1>4. globalid[pns[parent[c]]] \in Nat /\ globalid[parent[c]] \in Nat /\ globalid[c] \in Nat
  BY <1>3 DEF IndInv, TypeOK
<1>5. c # pns[parent[c]]
  BY <1>1, <1>2, <1>4
<1> QED BY <1>3, <1>5, ProcAssumption DEF proc_ns_id

\* So moving processes to another namespace makes nobody miss a death.
LEMMA RenumberMessages ==
    ASSUME IndInv, IndInv', OwnersOK, OwnersOK', NoLostDeath,
           UNCHANGED <<state, parent, noreap, awaited, localid>>
    PROVE  NoLostDeath'
<1>1. ASSUME NEW c \in Allocated', state'[c] = "TOREAP", ~noreap'[c], Awaits(state, parent[c], c)'
      PROVE  /\ c \in Allocated /\ state[c] = "TOREAP" /\ ~noreap[c]
             /\ parent[c] # NULL /\ Awaits(state, parent[c], c)
  <2>1. c \in Allocated /\ state[c] = "TOREAP" /\ ~noreap[c]
    BY <1>1 DEF Allocated
  <2>2. c # First
    BY <2>1 DEF IndInv, TreeInv, InitOK
  <2>3. proc_ns_id(pns[parent[c]], c) = localid[c] /\ parent[c] \in Proc /\ parent[c] # NULL
    BY <2>1, <2>2, ChildNumber
  <2>4. c # pns'[parent[c]]
    <3>1. parent[c] \in Allocated /\ globalid'[parent[c]] < globalid'[c] /\ parent[c] \in Allocated'
      <4>1. c \in Allocated' \ {First}
        BY <1>1, <2>2
      <4>2. parent'[c] \in Allocated' /\ globalid'[parent'[c]] < globalid'[c]
        BY <4>1 DEF IndInv, TreeInv, TreeOK
      <4> QED BY <4>2 DEF Allocated
    <3>2. globalid'[pns'[parent[c]]] <= globalid'[parent[c]]
      BY <3>1 DEF OwnersOK
    <3>3. pns'[parent[c]] \in Proc /\ c \in Proc
      BY <2>1, <2>3 DEF IndInv, TypeOK, Allocated
    <3>4. globalid'[pns'[parent[c]]] \in Nat /\ globalid'[parent[c]] \in Nat /\ globalid'[c] \in Nat
      BY <2>3, <3>3 DEF IndInv, TypeOK
    <3> QED BY <3>1, <3>2, <3>4
  <2>5. state[parent[c]] = "WAITS4CHILDDEATH" /\ awaited[parent[c]] \in {0, localid[c]}
    BY <1>1, <2>4 DEF Awaits, proc_ns_id
  <2>6. Awaits(state, parent[c], c)
    BY <2>3, <2>5 DEF Awaits
  <2> QED BY <2>1, <2>3, <2>6
<1> QED BY <1>1, MessagesKept

-----------------------------------------------------------------------------
\* The inductive invariant of the theorems below.
SoundInv == WalkInv /\ NsInv /\ NoPanic /\ NoLostDeath

LEMMA SoundInit == Init => SoundInv
<1> SUFFICES ASSUME Init PROVE SoundInv
  OBVIOUS
<1>1. NoPanic /\ NoLostDeath
  BY DEF Init, NoPanic, NoLostDeath, Collectable, Allocated
<1> QED BY <1>1, WalkInit, NsInit DEF SoundInv

LEMMA SoundNext == ASSUME NsCareful, SoundInv, [Next]_vars PROVE SoundInv'
<1>1. WalkInv /\ NsInv /\ NoPanic /\ NoLostDeath /\ IndInv /\ OwnersOK
  BY DEF SoundInv, WalkInv, NsInv
<1>2. WalkInv'
  BY <1>1, WalkNext
<1>3. NsInv' /\ NoPanic'
  BY <1>1, NsNext
<1>4. NoLostDeath'
  <2>1. CASE ~GetProcfs /\ ~NsCreateStep
    BY <1>1, <2>1, NextMessages
  <2>2. CASE GetProcfs \/ NsCreateStep
    <3>1. UNCHANGED <<state, parent, noreap, awaited, localid>>
      BY <2>2 DEF GetProcfs, NsCreateStep, tree, ns
    <3>2. IndInv' /\ OwnersOK'
      BY <1>2, <1>3 DEF WalkInv, NsInv
    <3> QED BY <1>1, <3>1, <3>2, RenumberMessages
  <2> QED BY <2>1, <2>2
<1> QED BY <1>2, <1>3, <1>4 DEF SoundInv

LEMMA SoundInductive == ASSUME NsCareful PROVE Spec => []SoundInv
<1>1. Init => SoundInv
  BY SoundInit
<1>2. SoundInv /\ [Next]_vars => SoundInv'
  BY SoundNext
<1> QED BY <1>1, <1>2, PTL DEF Spec

\* Whatever the processes call, no assertion of proc.c fails (those of
\* proc_tryreap, of proc_ns_id in proc_tryreap and _sys_wait2, and of
\* proc_ns_create), and proc_switch_any halts the CPU only when its search has
\* visited every process and none can run.
THEOREM KernelAlwaysSound == ASSUME NsCareful PROVE Spec => []KernelSound
<1>1. SoundInv => KernelSound
  BY DEF SoundInv, WalkInv, KernelSound
<1> QED BY <1>1, SoundInductive, PTL

\* What proc_ns_create leaves behind: outside its walk, every process is in the
\* namespace of its parent or owns one, the owner outlives the members, and the
\* members of a namespace have different numbers in it.
LEMMA NsResult ==
    ASSUME IndInv, NsInv
    PROVE  NsOK /\ LocalIdUnique
<1> SUFFICES ASSUME mode # "nscreate"
             PROVE  /\ \A p \in Allocated : pns[p] \in Allocated /\ (pns[p] # p => pns[p] = pns[parent[p]])
                    /\ \A n \in Allocated : pns[n] = n =>
                         \A p, q \in NsMembers(n) : p # q => proc_ns_id(n, p) # proc_ns_id(n, q)
  BY DEF NsOK, LocalIdUnique
<1>1. /\ \A p : Opns(p) = pns[p]
      /\ \A p \in Allocated \ {First} : pns[p] # p => pns[p] = pns[parent[p]]
  BY OutsideWalk
<1>2. pns[First] = First /\ parent[First] = NULL /\ \A p \in Allocated : pns[p] \in Allocated
  BY DEF NsInv, OwnersOK, IndInv, TreeInv, InitOK
<1>3. ASSUME NEW n \in Allocated, NEW p \in NsMembers(n), p # n
      PROVE  p \in Allocated \ {First} /\ pns[parent[p]] = n /\ proc_ns_id(n, p) = localid[p]
    BY <1>2, <1>3 DEF NsMembers, proc_ns_contains, proc_ns_id
<1>4. /\ \A p \in Allocated \ {First} : localid[p] >= 2 /\ localid[p] \in Nat
      /\ \A p, q \in Allocated \ {First} :
            pns[parent[p]] = pns[parent[q]] /\ localid[p] = localid[q] => p = q
  BY <1>1 DEF NsInv, NumbersOK, IndInv, TypeOK, Allocated
<1>5. ASSUME NEW n \in Allocated, NEW p \in NsMembers(n), NEW q \in NsMembers(n), p # q
      PROVE  proc_ns_id(n, p) # proc_ns_id(n, q)
  <2>1. proc_ns_id(n, n) = 1
    BY DEF proc_ns_id
  <2>2. CASE p = n
    BY <1>3, <1>4, <1>5, <2>1, <2>2
  <2>3. CASE q = n
    BY <1>3, <1>4, <1>5, <2>1, <2>3
  <2>4. CASE p # n /\ q # n
    <3>1. p \in Allocated \ {First} /\ pns[parent[p]] = n /\ proc_ns_id(n, p) = localid[p]
      BY <1>3, <2>4
    <3>2. q \in Allocated \ {First} /\ pns[parent[q]] = n /\ proc_ns_id(n, q) = localid[q]
      BY <1>3, <2>4
    <3> QED BY <1>4, <1>5, <3>1, <3>2
  <2> QED BY <2>2, <2>3, <2>4
<1> QED BY <1>1, <1>2, <1>5

\* The namespaces stay subtrees of the process tree and number their members
\* uniquely, no assertion about them fails, and a process that waits for a number
\* in _sys_wait2 does not miss the death of that child although _sys_getprocfs
\* renumbers processes.
THEOREM NamespacesAlwaysSound == ASSUME NsCareful PROVE Spec => []NamespacesSound
<1>1. SoundInv => NamespacesSound
  BY NsResult DEF SoundInv, WalkInv, NamespacesSound
<1> QED BY <1>1, SoundInductive, PTL

=============================================================================
