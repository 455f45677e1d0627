----------------------------- MODULE Pipe_proofs -----------------------------
(***************************************************************************)
(* Proofs about the pipe and the tables of handles, for any number of      *)
(* processes, any size of the tables and any lengths.                      *)
(*                                                                         *)
(* PipeSound counts; the proof needs to know what is counted.  IndInv says *)
(* so: who is in a queue, at one place only (QueuesInv), which processes   *)
(* use a table, and that a table is empty before it is made (TablesInv),   *)
(* while proc_kill goes through its loop, too.                             *)
(***************************************************************************)
EXTENDS Pipe, FiniteSetTheorems, TLAPS

\* p waits for the end e.
WaitsFor(p, e) == p # killed /\ state[p] = "WAITS4PIPE" /\ waits[p].end = e

\* The queue of an end is made of those who wait for it, at one place each.
QueuesInv ==
    \A e \in End :
        /\ \A i \in DOMAIN queued[e] : WaitsFor(queued[e][i], e)
        /\ \A i, j \in DOMAIN queued[e] : queued[e][i] = queued[e][j] => i = j
        /\ \A p \in Proc : WaitsFor(p, e) => InQueue(p, queued[e])

\* The processes that use a table, without the one that is about to free it.
Users == [t \in Proc |-> {p \in Proc \ {killed} : table[p] = t}]

\* The slots of all tables that hold an end.
SlotsWith(all, e) == {s \in Proc \X Hid : all[s[1]][s[2]] = e}

\* A process has a table as long as it lives; before it is made, nothing is in
\* its table and nobody uses it; and nobody else uses the one that proc_kill is
\* emptying.
TablesInv ==
    /\ \A p \in Proc : table[p] # NULL <=> state[p] \in {"RUNNING", "WAITS4PIPE"}
    /\ \A t \in Proc : state[t] = "NEW" => \A p \in Proc : table[p] # t
    /\ \A t \in Proc : state[t] = "NEW" => \A h \in Hid : slots[t][h] = NULL
    /\ \A t \in Proc : handles_refcount[t] = Cardinality(Users[t])
    /\ killed # NULL => table[killed] # NULL /\ Users[table[killed]] = {}

SlotsInv == \A e \in End : refcount[e] = Cardinality(SlotsWith(slots, e))

\* The inductive invariant.
IndInv == TypeOK /\ QueuesInv /\ TablesInv /\ SlotsInv /\ NobodyWaitsInVain

-----------------------------------------------------------------------------
(* Counting. *)

LEMMA FiniteSlots ==
    \A e : IsFiniteSet({s \in Proc \X Hid : slots[s[1]][s[2]] = e})
<1>1. IsFiniteSet(Hid)
  BY FS_Interval, PipeAssumption DEF Hid
<1>2. IsFiniteSet(Proc \X Hid)
  BY <1>1, FS_Product, PipeAssumption
<1> QED BY <1>2, FS_Subset

LEMMA FiniteHids ==
    ASSUME NEW H \in SUBSET Hid PROVE IsFiniteSet(H) /\ Cardinality(H) \in Nat
<1>1. IsFiniteSet(Hid)
  BY FS_Interval, PipeAssumption DEF Hid
<1>2. IsFiniteSet(H)
  BY <1>1, FS_Subset
<1> QED BY <1>2, FS_CardinalityType

LEMMA FiniteUsers == \A t \in Proc : IsFiniteSet(Users[t])
  BY FS_Subset, PipeAssumption DEF Users

\* A process is counted once in a queue where it is at one place, and not at
\* all where it is not.
LEMMA CountPlaces ==
    ASSUME NEW q \in Seq(Proc), NEW p,
           \A i, j \in DOMAIN q : q[i] = q[j] => i = j
    PROVE  Cardinality({i \in DOMAIN q : q[i] = p}) = IF InQueue(p, q) THEN 1 ELSE 0
<1>1. CASE InQueue(p, q)
  <2>1. PICK i \in DOMAIN q : q[i] = p
    BY <1>1 DEF InQueue
  <2>2. {j \in DOMAIN q : q[j] = p} = {i}
    BY <2>1
  <2> QED BY <1>1, <2>2, FS_Singleton
<1>2. CASE ~InQueue(p, q)
  <2>1. {j \in DOMAIN q : q[j] = p} = {}
    BY <1>2 DEF InQueue
  <2> QED BY <1>2, <2>1, FS_EmptySet
<1> QED BY <1>1, <1>2

\* What IndInv says is what PipeSound counts.
LEMMA InvSound == IndInv => PipeSound /\ NobodyWaitsInVain
<1> SUFFICES ASSUME IndInv PROVE PipeSound
  BY DEF IndInv
<1> USE DEF IndInv
<1>1. QueuesOK
  <2> SUFFICES ASSUME NEW p \in Proc \ {killed}, NEW e \in End
               PROVE  Cardinality({i \in DOMAIN queued[e] : queued[e][i] = p}) =
                        IF state[p] = "WAITS4PIPE" /\ waits[p].end = e THEN 1 ELSE 0
    BY DEF QueuesOK
  <2>1. queued[e] \in Seq(Proc)
    BY DEF TypeOK
  <2>2. \A i, j \in DOMAIN queued[e] : queued[e][i] = queued[e][j] => i = j
    BY DEF QueuesInv
  <2>3. Cardinality({i \in DOMAIN queued[e] : queued[e][i] = p}) = IF InQueue(p, queued[e]) THEN 1 ELSE 0
    BY <2>1, <2>2, CountPlaces
  <2>4. InQueue(p, queued[e]) <=> WaitsFor(p, e)
    BY DEF QueuesInv, InQueue
  <2> QED BY <2>3, <2>4 DEF WaitsFor
<1>2. RefsOK
  <2>1. ASSUME killed = NULL, NEW t \in Proc
        PROVE  Users[t] = {p \in Proc : table[p] = t}
    BY <2>1, PipeAssumption DEF Users
  <2> QED BY <2>1 DEF RefsOK, SlotsInv, SlotsWith, TablesInv
<1> QED BY <1>1, <1>2 DEF PipeSound

\* _sys_pipe leaves one handle for each end.
LEMMA InitInd == Init => IndInv
<1> SUFFICES ASSUME Init PROVE IndInv
  OBVIOUS
<1> USE PipeAssumption
<1>1. TypeOK
  BY DEF Init, TypeOK, NoWait, NoRet, None, End, Hid
<1>2. QueuesInv
  BY DEF Init, QueuesInv, WaitsFor, InQueue
<1>3. TablesInv
  <2>1. Users[Root] = {Root} /\ \A t \in Proc \ {Root} : Users[t] = {}
    BY DEF Init, Users
  <2>2. \A t \in Proc : handles_refcount[t] = Cardinality(Users[t])
    BY <2>1, FS_Singleton, FS_EmptySet DEF Init
  <2> QED BY <2>2 DEF Init, TablesInv
<1>4. SlotsInv
  <2>0. \A t \in Proc, h \in Hid : /\ slots[t][h] = "R" <=> t = Root /\ h = 1
                                   /\ slots[t][h] = "W" <=> t = Root /\ h = 2
    BY DEF Init
  <2>1. ASSUME NEW e \in End, NEW n \in Hid,
               \A t \in Proc, h \in Hid : slots[t][h] = e <=> t = Root /\ h = n
        PROVE  SlotsWith(slots, e) = {<<Root, n>>}
    <3>1. <<Root, n>> \in SlotsWith(slots, e)
      BY <2>1 DEF SlotsWith
    <3>2. ASSUME NEW x \in SlotsWith(slots, e) PROVE x = <<Root, n>>
      BY <2>1, <3>2 DEF SlotsWith
    <3> QED BY <3>1, <3>2
  <2>2. SlotsWith(slots, "R") = {<<Root, 1>>}
    <3>1. 1 \in Hid /\ "R" \in End
      BY DEF End, Hid
    <3> QED BY <3>1, <2>0, <2>1
  <2>3. SlotsWith(slots, "W") = {<<Root, 2>>}
    <3>1. 2 \in Hid /\ "W" \in End
      BY DEF End, Hid
    <3> QED BY <3>1, <2>0, <2>1
  <2> QED BY <2>2, <2>3, FS_Singleton DEF Init, SlotsInv, End
<1>5. NobodyWaitsInVain
  BY DEF Init, NobodyWaitsInVain, NoMissedTransfer, NoWaitForClosedEnd, End
<1> QED BY <1>1, <1>2, <1>3, <1>4, <1>5 DEF IndInv

-----------------------------------------------------------------------------
(* Closing a handle. *)

\* A slot that held the end e, or nothing, is given the end inc, or nothing.
LEMMA SlotChange ==
    ASSUME TypeOK, SlotsInv, NEW t \in Proc, NEW h \in Hid, NEW inc \in End \cup {NULL},
           slots[t][h] # inc \/ slots[t][h] = NULL,
           slots' = [slots EXCEPT ![t][h] = inc],
           NEW x \in End
    PROVE  /\ slots[t][h] = x => refcount[x] > 0
           /\ x = inc => Cardinality(SlotsWith(slots', x)) = refcount[x] + 1
           /\ x = slots[t][h] => Cardinality(SlotsWith(slots', x)) = refcount[x] - 1
           /\ x \notin {inc, slots[t][h]} => Cardinality(SlotsWith(slots', x)) = refcount[x]
<1> USE PipeAssumption
<1> DEFINE s == <<t, h>>
           S == SlotsWith(slots, x)
<1>1. IsFiniteSet(S) /\ Cardinality(S) = refcount[x] /\ refcount[x] \in Nat
  BY FiniteSlots DEF SlotsWith, SlotsInv, TypeOK
<1>2. s \in S <=> slots[t][h] = x
  BY DEF SlotsWith
<1>3. \A u \in Proc, g \in Hid : slots'[u][g] = IF u = t /\ g = h THEN inc ELSE slots[u][g]
  BY DEF TypeOK
<1>4. SlotsWith(slots', x) = IF x = inc THEN S \cup {s} ELSE S \ {s}
  <2>1. ASSUME NEW y \in Proc \X Hid PROVE slots'[y[1]][y[2]] = IF y = s THEN inc ELSE slots[y[1]][y[2]]
    BY <1>3
  <2>2. s \in Proc \X Hid
    OBVIOUS
  <2> QED BY <2>1, <2>2 DEF SlotsWith
<1>5. x = slots[t][h] => Cardinality(S) > 0
  <2> SUFFICES ASSUME x = slots[t][h] PROVE Cardinality(S) # 0
    BY <1>1
  <2> QED BY <1>1, <1>2, FS_EmptySet
<1>6. IsFiniteSet(S \cup {s}) /\ Cardinality(S \cup {s}) = IF s \in S THEN Cardinality(S) ELSE Cardinality(S) + 1
  BY <1>1, FS_AddElement
<1>7. Cardinality(S \ {s}) = IF s \in S THEN Cardinality(S) - 1 ELSE Cardinality(S)
  BY <1>1, FS_RemoveElement
<1>8. x # NULL
  BY DEF End
<1> HIDE DEF S, s
<1>9. CASE x = inc
  <2>1. x # slots[t][h]
    BY <1>9, <1>8
  <2>2. Cardinality(SlotsWith(slots', x)) = Cardinality(S) + 1
    BY <1>9, <1>4, <1>6, <1>2, <2>1
  <2> QED BY <1>9, <2>1, <2>2, <1>1 DEF S
<1>10. CASE x # inc
  <2>1. Cardinality(SlotsWith(slots', x)) = IF x = slots[t][h] THEN Cardinality(S) - 1 ELSE Cardinality(S)
    BY <1>10, <1>4, <1>7, <1>2
  <2> QED BY <1>10, <2>1, <1>1, <1>5 DEF S
<1> QED BY <1>9, <1>10

\* handle_close keeps the counts of the ends.
LEMMA SlotsKept ==
    ASSUME TypeOK, SlotsInv, NEW t \in Proc, NEW h \in Hid, NEW inc \in End \cup {NULL},
           slots[t][h] # inc \/ slots[t][h] = NULL,
           slots' = [slots EXCEPT ![t][h] = inc],
           refcount' = [x \in End |-> (refcount[x] - (IF x = slots[t][h] THEN 1 ELSE 0))
                                        + (IF x = inc THEN 1 ELSE 0)]
    PROVE  SlotsInv'
<1> SUFFICES ASSUME NEW x \in End PROVE refcount'[x] = Cardinality(SlotsWith(slots', x))
  BY DEF SlotsInv
<1>1. /\ x = inc => Cardinality(SlotsWith(slots', x)) = refcount[x] + 1
      /\ x = slots[t][h] => Cardinality(SlotsWith(slots', x)) = refcount[x] - 1
      /\ x \notin {inc, slots[t][h]} => Cardinality(SlotsWith(slots', x)) = refcount[x]
  BY SlotChange
<1>2. refcount[x] \in Nat /\ x # NULL
  BY PipeAssumption DEF TypeOK, End
<1> QED BY <1>1, <1>2

\* handle_close of what is in a slot, with the slot changed accordingly.
LEMMA CloseInd ==
    ASSUME IndInv, panic = "none", NEW t \in Proc, NEW h \in Hid,
           NEW inc \in End \cup {NULL},
           slots[t][h] # inc \/ slots[t][h] = NULL,
           handle_close(slots[t][h], inc),
           slots' = [slots EXCEPT ![t][h] = inc],
           \E p \in Proc : table[p] = t,
           UNCHANGED <<table, handles_refcount, killed>>, hid' \in 0..HANDLE_MAX
    PROVE  IndInv'
<1> USE PipeAssumption DEF IndInv
<1> DEFINE e    == slots[t][h]
           last == e # NULL /\ refcount[e] = 1
           cut  == {p \in Proc : last /\ InQueue(p, queued[sister(e)])}
<1>1. e \in End \cup {NULL} /\ \A x \in End : sister(x) \in End /\ sister(x) # x /\ refcount[x] \in Nat /\ x # NULL
  BY DEF TypeOK, End, sister
<1>2. \A x \in End : x = e => refcount[x] > 0
  BY SlotChange
<1>3. \A x \in End : queued[x] \in Seq(Proc)
  BY DEF TypeOK
<1>4. \A p \in Proc, x \in End : InQueue(p, queued[x]) <=> WaitsFor(p, x)
  BY DEF QueuesInv, InQueue
<1>5. \A p \in Proc, x \in End : InQueue(p, queued[x]) => refcount[x] > 0
  <2>1. \A p \in Proc, x \in End : InQueue(p, queued[x]) => queued[x] # <<>>
    BY DEF InQueue
  <2> QED BY <2>1 DEF NobodyWaitsInVain, NoWaitForClosedEnd
<1>6. /\ refcount' = [x \in End |-> (refcount[x] - (IF x = e THEN 1 ELSE 0)) + (IF x = inc THEN 1 ELSE 0)]
      /\ state' = [p \in Proc |-> IF p \in cut THEN "RUNNING" ELSE state[p]]
      /\ ret' = [p \in Proc |-> IF p \in cut THEN -1 ELSE None]
      /\ waits' = [p \in Proc |-> IF p \in cut THEN NoWait ELSE waits[p]]
      /\ queued' = [x \in End |-> IF last /\ x = sister(e) THEN <<>> ELSE queued[x]]
      /\ panic' = IF last /\ queued[e] # <<>> THEN "queued" ELSE panic
  <2>1. e # NULL => [x \in End |-> refcount[x] - (IF x = e THEN 1 ELSE 0)][e] = refcount[e] - 1
    BY <1>1
  <2>2. (e # NULL /\ [x \in End |-> refcount[x] - (IF x = e THEN 1 ELSE 0)][e] = 0) <=> last
    BY <2>1, <1>1
  <2>3. \A x \in End : [y \in End |-> refcount[y] - (IF y = e THEN 1 ELSE 0)][x] = refcount[x] - (IF x = e THEN 1 ELSE 0)
    OBVIOUS
  <2>4. (IF last /\ refcount[sister(e)] > 0 THEN {p \in Proc : InQueue(p, queued[sister(e)])} ELSE {}) = cut
    BY <1>1, <1>5
  <2> HIDE DEF e, last, cut
  <2> QED BY <2>2, <2>3, <2>4 DEF handle_close, e
<1>7. \A p \in cut : p \in Proc /\ state[p] = "WAITS4PIPE" /\ p # killed
  BY <1>4, <1>1 DEF WaitsFor
<1> HIDE DEF cut
<1>8. TypeOK'
  <2>1. refcount' \in [End -> Nat]
    BY <1>6, <1>1, <1>2
  <2>2. queued' \in [End -> Seq(Proc)]
    BY <1>6, <1>3
  <2>3. slots' \in [Proc -> [Hid -> End \cup {NULL}]]
    BY DEF TypeOK
  <2>4. state' \in [Proc -> {"NEW", "RUNNING", "WAITS4PIPE", "DEAD"}]
    BY <1>6 DEF TypeOK
  <2>5. waits' \in [Proc -> [end : End, len : {0} \cup ReadLens \cup WriteLens]]
    BY <1>6 DEF TypeOK, NoWait, End
  <2>6. \A p \in Proc : ret'[p] \in {None, EPIPE, -1}
    BY <1>6
  <2>7. panic' \in {"none", "queued"}
    BY <1>6
  <2> QED BY <2>1, <2>2, <2>3, <2>4, <2>5, <2>6, <2>7 DEF TypeOK
<1>9. QueuesInv'
  <2> SUFFICES ASSUME NEW x \in End
               PROVE  /\ \A i \in DOMAIN queued'[x] : WaitsFor(queued[x][i], x)'
                      /\ \A i, j \in DOMAIN queued'[x] : queued'[x][i] = queued'[x][j] => i = j
                      /\ \A p \in Proc : WaitsFor(p, x)' => InQueue(p, queued'[x])
    BY DEF QueuesInv
  <2>1. \A p \in Proc : WaitsFor(p, x)' => p \notin cut /\ WaitsFor(p, x)
    BY <1>6 DEF WaitsFor
  <2>2. \A p \in Proc \ cut : WaitsFor(p, x) => WaitsFor(p, x)'
    BY <1>6 DEF WaitsFor
  <2>3. CASE last /\ x = sister(e)
    <3>1. queued'[x] = <<>>
      BY <2>3, <1>6
    <3>2. \A p \in Proc : ~WaitsFor(p, x)'
      BY <2>1, <2>3, <1>4 DEF cut
    <3> QED BY <3>1, <3>2
  <2>4. CASE ~(last /\ x = sister(e))
    <3>1. queued'[x] = queued[x]
      BY <2>4, <1>6
    <3>2. ASSUME NEW p \in Proc, WaitsFor(p, x) PROVE p \notin cut
      BY <3>2, <2>4, <1>4, <1>1 DEF cut, WaitsFor
    <3>3. \A i \in DOMAIN queued[x] : queued[x][i] \in Proc
      BY <1>3
    <3> QED BY <2>1, <2>2, <3>1, <3>2, <3>3 DEF QueuesInv
  <2> QED BY <2>3, <2>4
<1>10. TablesInv'
  <2>1. Users' = Users
    BY DEF Users
  <2>2. \A p \in Proc : state'[p] = "NEW" <=> state[p] = "NEW"
    BY <1>6, <1>7
  <2>3. \A p \in Proc : state'[p] \in {"RUNNING", "WAITS4PIPE"} <=> state[p] \in {"RUNNING", "WAITS4PIPE"}
    BY <1>6, <1>7
  <2>4. state[t] # "NEW"
    BY DEF TablesInv
  <2>5. \A u \in Proc \ {t} : slots'[u] = slots[u]
    BY DEF TypeOK
  <2> QED BY <2>1, <2>2, <2>3, <2>4, <2>5 DEF TablesInv
<1>11. SlotsInv'
  <2>1. TypeOK /\ SlotsInv
    OBVIOUS
  <2> HIDE DEF IndInv
  <2> QED BY <1>6, <2>1, SlotsKept
<1>12. NobodyWaitsInVain'
  <2>1. \A x \in End : queued'[x] \in {<<>>, queued[x]}
    BY <1>6
  <2>2. NoMissedTransfer'
    BY <2>1 DEF NobodyWaitsInVain, NoMissedTransfer, End
  <2>3. NoWaitForClosedEnd'
    <3> SUFFICES ASSUME panic' = "none", NEW x \in End, queued'[x] # <<>>
                 PROVE  refcount'[x] > 0 /\ refcount'[sister(x)] > 0
      BY DEF NoWaitForClosedEnd
    <3>1. queued[x] # <<>> /\ refcount[x] > 0 /\ refcount[sister(x)] > 0
      BY <2>1 DEF NobodyWaitsInVain, NoWaitForClosedEnd
    <3>2. ~(last /\ x = sister(e)) /\ ~(last /\ x = e)
      BY <1>6, <3>1
    <3>3. sister(x) = e => x = sister(e)
      BY DEF End, sister
    <3> QED BY <1>1, <1>6, <3>1, <3>2, <3>3
  <2> QED BY <2>2, <2>3 DEF NobodyWaitsInVain
<1> QED BY <1>8, <1>9, <1>10, <1>11, <1>12

\* A set of natural numbers that is not empty has a smallest element.
LEMMA SmallestExists ==
    ASSUME NEW S \in SUBSET Nat, S # {}
    PROVE  \E x \in S : \A y \in S : x <= y
<1> DEFINE R == OpToRel(<, Nat)
<1>1. IsWellFoundedOn(R, Nat)
  BY NatLessThanWellFounded
<1>2. PICK x \in S : \A y \in S : <<y, x>> \notin R
  <2> HIDE DEF R
  <2> QED BY <1>1, WFMin
<1>3. \A y \in S : ~(y < x)
  BY <1>2 DEF OpToRel
<1> QED BY <1>3

\* proc_find_free_handle returns a slot, or -1.
LEMMA FreeHandleType ==
    ASSUME NEW p, NEW start PROVE proc_find_free_handle(p, start) \in Hid \cup {-1}
<1> DEFINE free == FreeHids(table[p], start)
<1>1. free \subseteq Hid /\ free \in SUBSET Nat
  BY PipeAssumption DEF FreeHids, Hid
<1>2. CASE free = {}
  BY <1>2 DEF proc_find_free_handle
<1>3. CASE free # {}
  <2>1. \E h \in free : \A g \in free : h <= g
    BY <1>1, <1>3, SmallestExists
  <2> HIDE DEF free
  <2>2. (CHOOSE h \in free : \A g \in free : h <= g) \in free
    BY <2>1
  <2> QED BY <2>2, <1>1, <1>3 DEF proc_find_free_handle, free
<1> QED BY <1>2, <1>3

\* A process that runs has a table.
LEMMA RunnerHasTable ==
    ASSUME IndInv, NEW p \in Proc, state[p] \in {"RUNNING", "WAITS4PIPE"}
    PROVE  table[p] \in Proc
  BY DEF IndInv, TablesInv, TypeOK

LEMMA DupInd == ASSUME IndInv, NEW p \in Proc, Dup(p) PROVE IndInv'
<1> USE PipeAssumption
<1>1. state[p] = "RUNNING" /\ panic = "none" /\ UNCHANGED <<table, handles_refcount, killed, hid>>
  BY DEF Dup, Running
<1>2. table[p] \in Proc
  BY <1>1, RunnerHasTable
<1>3. PICK from \in Hid, to \in Hid \cup {-1} :
        /\ to >= 0 /\ Get(p, to) # Get(p, from)
        /\ handle_close(Get(p, to), Get(p, from))
        /\ slots' = [slots EXCEPT ![table[p]][to] = Get(p, from)]
  BY FreeHandleType DEF Dup
<1>4. to \in Hid
  BY <1>3
<1>5. slots[table[p]][from] \in End \cup {NULL} /\ hid' \in 0..HANDLE_MAX
  BY <1>1, <1>2 DEF IndInv, TypeOK
<1> QED BY <1>1, <1>2, <1>3, <1>4, <1>5, CloseInd DEF Get

LEMMA CloseSysInd == ASSUME IndInv, NEW p \in Proc, Close(p) PROVE IndInv'
<1>1. state[p] = "RUNNING" /\ panic = "none" /\ UNCHANGED <<table, handles_refcount, killed, hid>>
  BY DEF Close, Running
<1>2. table[p] \in Proc
  BY <1>1, RunnerHasTable
<1>3. PICK h \in Hid :
        /\ Get(p, h) # NULL
        /\ handle_close(Get(p, h), NULL)
        /\ slots' = [slots EXCEPT ![table[p]][h] = NULL]
  BY DEF Close
<1>4. hid' \in 0..HANDLE_MAX
  BY <1>1 DEF IndInv, TypeOK
<1> QED BY <1>1, <1>2, <1>3, <1>4, CloseInd DEF Get

LEMMA KillCloseInd == ASSUME IndInv, KillClose PROVE IndInv'
<1>1. /\ killed \in Proc /\ panic = "none" /\ hid \in Hid /\ hid' \in 0..HANDLE_MAX
      /\ UNCHANGED <<table, handles_refcount, killed>>
  BY PipeAssumption DEF KillClose, IndInv, TypeOK, Hid
<1>2. table[killed] \in Proc
  BY <1>1, PipeAssumption DEF IndInv, TablesInv, TypeOK
<1>3. /\ handle_close(slots[table[killed]][hid], NULL)
      /\ slots' = [slots EXCEPT ![table[killed]][hid] = NULL]
  BY DEF KillClose, Get
<1>4. slots[table[killed]][hid] # NULL \/ slots[table[killed]][hid] = NULL
  OBVIOUS
<1> QED BY <1>1, <1>2, <1>3, <1>4, CloseInd

-----------------------------------------------------------------------------
(* proc_fork *)

\* A table that is copied into an empty one adds the handles in it.
LEMMA CopyCount ==
    ASSUME TypeOK, SlotsInv, NEW t \in Proc, NEW c \in Proc,
           \A h \in Hid : slots[c][h] = NULL,
           slots' = [slots EXCEPT ![c] = slots[t]],
           NEW e \in End
    PROVE  Cardinality(SlotsWith(slots', e)) = refcount[e] + Cardinality({h \in Hid : slots[t][h] = e})
<1> DEFINE H == {h \in Hid : slots[t][h] = e}
           C == {s \in {c} \X Hid : slots[t][s[2]] = e}
           f == [h \in H |-> <<c, h>>]
<1>1. IsFiniteSet(H) /\ Cardinality(H) \in Nat
  BY FiniteHids
<1>2. f \in Bijection(H, C)
  <2>1. \A h \in H : f[h] = <<c, h>> /\ <<c, h>> \in C
    OBVIOUS
  <2>2. \A s \in C : s[2] \in H /\ s = <<c, s[2]>>
    OBVIOUS
  <2>3. f \in Injection(H, C)
    BY <2>1 DEF Injection, IsInjective
  <2>4. f \in Surjection(H, C)
    <3>1. \A s \in C : \E h \in H : f[h] = s
      BY <2>1, <2>2
    <3>2. f \in [H -> C]
      BY <2>1
    <3> HIDE DEF f, H, C
    <3> QED BY <3>1, <3>2 DEF Surjection
  <2> QED BY <2>3, <2>4 DEF Bijection
<1>3. IsFiniteSet(C) /\ Cardinality(C) = Cardinality(H)
  <2> HIDE DEF f, H, C
  <2>1. ExistsBijection(H, C)
    BY <1>2 DEF ExistsBijection
  <2> QED BY <1>1, <2>1, FS_Bijection
<1>4. IsFiniteSet(SlotsWith(slots, e)) /\ Cardinality(SlotsWith(slots, e)) = refcount[e] /\ refcount[e] \in Nat
  BY FiniteSlots DEF SlotsWith, SlotsInv, TypeOK
<1>5. \A u \in Proc, h \in Hid : slots'[u][h] = IF u = c THEN slots[t][h] ELSE slots[u][h]
  BY DEF TypeOK
<1>6. e # NULL
  BY PipeAssumption DEF End
<1>7. SlotsWith(slots', e) = SlotsWith(slots, e) \cup C
  <2>1. ASSUME NEW s \in Proc \X Hid
        PROVE  s \in SlotsWith(slots', e) <=> s \in SlotsWith(slots, e) \cup C
    BY <1>5, <1>6 DEF SlotsWith
  <2>2. C \subseteq Proc \X Hid /\ SlotsWith(slots, e) \subseteq Proc \X Hid /\ SlotsWith(slots', e) \subseteq Proc \X Hid
    BY DEF SlotsWith
  <2> HIDE DEF C
  <2> QED BY <2>1, <2>2
<1>8. SlotsWith(slots, e) \cap C = {}
  BY <1>6 DEF SlotsWith
<1>9. Cardinality(SlotsWith(slots, e) \cup C) = refcount[e] + Cardinality(C) - Cardinality(SlotsWith(slots, e) \cap C)
  <2> HIDE DEF C
  <2> QED BY <1>3, <1>4, FS_Union
<1> HIDE DEF C, H
<1>10. Cardinality(SlotsWith(slots, e) \cap C) = 0
  BY <1>8, FS_EmptySet
<1>11. Cardinality(SlotsWith(slots', e)) = refcount[e] + Cardinality(H)
  <2>1. refcount[e] + Cardinality(C) - Cardinality(SlotsWith(slots, e) \cap C) = refcount[e] + Cardinality(H)
    BY <1>1, <1>3, <1>4, <1>10
  <2>2. Cardinality(SlotsWith(slots', e)) = Cardinality(SlotsWith(slots, e) \cup C)
    BY <1>7
  <2> QED BY <2>1, <2>2, <1>9
<1> QED BY <1>11 DEF H

LEMMA ForkInd == ASSUME IndInv, NEW p \in Proc, Fork(p) PROVE IndInv'
<1> USE PipeAssumption DEF IndInv
<1>1. /\ state[p] = "RUNNING" /\ killed = NULL /\ panic = "none"
      /\ ret' = NoRet /\ UNCHANGED <<queued, waits, killed, hid, panic>>
  BY DEF Fork, Running
<1>2. PICK c \in Proc :
        /\ state[c] = "NEW"
        /\ state' = [state EXCEPT ![c] = "RUNNING"]
        /\ \/ /\ table' = [table EXCEPT ![c] = c]
              /\ slots' = [slots EXCEPT ![c] = slots[table[p]]]
              /\ handles_refcount' = [handles_refcount EXCEPT ![c] = 1]
              /\ refcount' = copied(p)
           \/ /\ table' = [table EXCEPT ![c] = table[p]]
              /\ handles_refcount' = [handles_refcount EXCEPT ![table[p]] = @ + 1]
              /\ UNCHANGED <<slots, refcount>>
  BY DEF Fork
<1>3. table[p] \in Proc /\ table[c] = NULL
  BY <1>1, <1>2, RunnerHasTable DEF TablesInv
<1>4. \A q : WaitsFor(q, "R")' = WaitsFor(q, "R") /\ WaitsFor(q, "W")' = WaitsFor(q, "W")
  BY <1>1, <1>2 DEF WaitsFor, TypeOK
<1>5. QueuesInv'
  BY <1>1, <1>2 DEF QueuesInv, WaitsFor, TypeOK
<1>6. CASE /\ table' = [table EXCEPT ![c] = c]
           /\ slots' = [slots EXCEPT ![c] = slots[table[p]]]
           /\ handles_refcount' = [handles_refcount EXCEPT ![c] = 1]
           /\ refcount' = copied(p)
  <2> DEFINE N == [e \in End |-> Cardinality({h \in Hid : slots[table[p]][h] = e})]
  <2>1. \A e \in End : N[e] \in Nat
    BY FiniteHids
  <2>2. refcount' = [e \in End |-> refcount[e] + N[e]]
    BY <1>6 DEF copied, Get
  <2> HIDE DEF N
  <2>3. refcount' \in [End -> Nat] /\ \A e \in End : refcount'[e] >= refcount[e]
    <3>1. \A e \in End : refcount[e] \in Nat
      BY DEF TypeOK
    <3>2. PICK g : g = refcount'
      OBVIOUS
    <3>3. g = [e \in End |-> refcount[e] + N[e]]
      BY ONLY <2>2, <3>2
    <3>4. g \in [End -> Nat] /\ \A e \in End : g[e] >= refcount[e]
      BY ONLY <2>1, <3>1, <3>3
    <3> QED BY ONLY <3>2, <3>4
  <2>4. TypeOK'
    BY <1>1, <1>2, <1>3, <1>6, <2>3 DEF TypeOK, NoRet
  <2>5. SlotsInv'
    <3>1. \A h \in Hid : slots[c][h] = NULL
      BY <1>2 DEF TablesInv
    <3>2. \A e \in End : Cardinality(SlotsWith(slots', e)) = refcount[e] + Cardinality({h \in Hid : slots[table[p]][h] = e})
      BY <3>1, <1>3, <1>6, CopyCount
    <3> QED BY <3>2, <2>2 DEF SlotsInv, N
  <2>6. NobodyWaitsInVain'
    <3>1. \A e \in End : sister(e) \in End
      BY DEF sister, End
    <3>2. \A e \in End : refcount[e] \in Nat /\ refcount'[e] \in Nat
      BY <2>3 DEF TypeOK
    <3>3. ASSUME NEW e \in End, queued[e] # <<>> PROVE refcount'[e] > 0 /\ refcount'[sister(e)] > 0
      BY <3>1, <3>2, <3>3, <1>1, <2>3 DEF NobodyWaitsInVain, NoWaitForClosedEnd
    <3> QED BY <1>1, <3>3 DEF NobodyWaitsInVain, NoMissedTransfer, NoWaitForClosedEnd
  <2>7. TablesInv'
    <3>1. Users'[c] = {c}
      BY <1>1, <1>2, <1>6 DEF Users, TablesInv, TypeOK
    <3>2. \A t \in Proc \ {c} : Users'[t] = Users[t]
      BY <1>1, <1>2, <1>3, <1>6 DEF Users, TypeOK
    <3>3. \A t \in Proc : handles_refcount'[t] = Cardinality(Users'[t])
      <4>1. handles_refcount'[c] = Cardinality(Users'[c])
        BY <3>1, <1>6, FS_Singleton DEF TypeOK
      <4>2. \A t \in Proc \ {c} : handles_refcount'[t] = handles_refcount[t]
        BY <1>6 DEF TypeOK
      <4> QED BY <4>1, <4>2, <3>2 DEF TablesInv
    <3>4. \A q \in Proc : table'[q] # NULL <=> state'[q] \in {"RUNNING", "WAITS4PIPE"}
      BY <1>2, <1>6 DEF TablesInv, TypeOK
    <3>5. \A t \in Proc : state'[t] = "NEW" => \A q \in Proc : table'[q] # t
      BY <1>2, <1>6 DEF TablesInv, TypeOK
    <3>6. \A t \in Proc : state'[t] = "NEW" => \A h \in Hid : slots'[t][h] = NULL
      BY <1>2, <1>6 DEF TablesInv, TypeOK
    <3> QED BY <3>3, <3>4, <3>5, <3>6, <1>1 DEF TablesInv
  <2> QED BY <1>5, <2>4, <2>5, <2>6, <2>7
<1>7. CASE /\ table' = [table EXCEPT ![c] = table[p]]
           /\ handles_refcount' = [handles_refcount EXCEPT ![table[p]] = @ + 1]
           /\ UNCHANGED <<slots, refcount>>
  <2>1. TypeOK'
    <3>1. state' \in [Proc -> {"NEW", "RUNNING", "WAITS4PIPE", "DEAD"}]
      BY <1>2 DEF TypeOK
    <3>2. table' \in [Proc -> Proc \cup {NULL}]
      BY <1>3, <1>7 DEF TypeOK
    <3>3. handles_refcount' \in [Proc -> Nat]
      BY <1>3, <1>7 DEF TypeOK
    <3> QED BY <1>1, <1>7, <3>1, <3>2, <3>3 DEF TypeOK, NoRet
  <2>2. SlotsInv'
    BY <1>7 DEF SlotsInv
  <2>3. NobodyWaitsInVain'
    BY <1>1, <1>7 DEF NobodyWaitsInVain, NoMissedTransfer, NoWaitForClosedEnd
  <2>4. TablesInv'
    <3>1. Users'[table[p]] = Users[table[p]] \cup {c} /\ c \notin Users[table[p]]
      BY <1>1, <1>2, <1>3, <1>7 DEF Users, TypeOK
    <3>2. \A t \in Proc \ {table[p]} : Users'[t] = Users[t]
      BY <1>1, <1>2, <1>3, <1>7 DEF Users, TypeOK
    <3>3. Cardinality(Users[table[p]] \cup {c}) = Cardinality(Users[table[p]]) + 1
      <4>1. IsFiniteSet(Users[table[p]])
        BY <1>3, FiniteUsers
      <4> QED BY <3>1, <4>1, FS_AddElement
    <3>4. \A t \in Proc : handles_refcount'[t] = Cardinality(Users'[t])
      <4>1. handles_refcount'[table[p]] = handles_refcount[table[p]] + 1
        BY <1>3, <1>7 DEF TypeOK
      <4>2. \A t \in Proc \ {table[p]} : handles_refcount'[t] = handles_refcount[t]
        BY <1>7 DEF TypeOK
      <4>3. handles_refcount'[table[p]] = Cardinality(Users'[table[p]])
        BY <4>1, <3>1, <3>3, <1>3 DEF TablesInv
      <4> QED BY <4>2, <4>3, <3>2 DEF TablesInv
    <3>5. \A q \in Proc : table'[q] # NULL <=> state'[q] \in {"RUNNING", "WAITS4PIPE"}
      BY <1>2, <1>3, <1>7 DEF TablesInv, TypeOK
    <3>6. \A t \in Proc : state'[t] = "NEW" => \A q \in Proc : table'[q] # t
      BY <1>2, <1>3, <1>7 DEF TablesInv, TypeOK
    <3>7. \A t \in Proc : state'[t] = "NEW" => \A h \in Hid : slots'[t][h] = NULL
      BY <1>2, <1>7 DEF TablesInv, TypeOK
    <3> QED BY <3>4, <3>5, <3>6, <3>7, <1>1 DEF TablesInv
  <2> QED BY <1>5, <2>1, <2>2, <2>3, <2>4
<1> QED BY <1>2, <1>6, <1>7

-----------------------------------------------------------------------------
(* Reads and writes. *)

\* Steps that leave the tables alone, and in which live processes stay alive.
LEMMA TablesKept ==
    ASSUME TypeOK, TablesInv, SlotsInv,
           UNCHANGED <<table, slots, handles_refcount, refcount, killed>>,
           \A p \in Proc : state'[p] = state[p] \/ {state[p], state'[p]} = {"RUNNING", "WAITS4PIPE"}
    PROVE  TablesInv' /\ SlotsInv'
<1>1. Users' = Users
  BY DEF Users
<1>2. \A p \in Proc : /\ state'[p] \in {"RUNNING", "WAITS4PIPE"} <=> state[p] \in {"RUNNING", "WAITS4PIPE"}
                      /\ state'[p] = "NEW" <=> state[p] = "NEW"
  <2> SUFFICES ASSUME NEW p \in Proc, state'[p] # state[p]
               PROVE  state[p] \in {"RUNNING", "WAITS4PIPE"} /\ state'[p] \in {"RUNNING", "WAITS4PIPE"}
    OBVIOUS
  <2>1. {state[p], state'[p]} = {"RUNNING", "WAITS4PIPE"}
    OBVIOUS
  <2> QED BY <2>1
<1>3. TablesInv'
  BY <1>1, <1>2 DEF TablesInv
<1> QED BY <1>3 DEF SlotsInv

\* Whoever finds nobody at the other end joins the queue.
LEMMA JoinQueues ==
    ASSUME TypeOK, QueuesInv, NEW p \in Proc, NEW e \in End, NEW n,
           state[p] = "RUNNING", killed = NULL, killed' = killed,
           state' = [state EXCEPT ![p] = "WAITS4PIPE"],
           queued' = [queued EXCEPT ![e] = Append(queued[e], p)],
           waits' = [waits EXCEPT ![p] = [end |-> e, len |-> n]]
    PROVE  QueuesInv'
<1> USE PipeAssumption
<1> SUFFICES ASSUME NEW x \in End
             PROVE  /\ \A i \in DOMAIN queued'[x] : WaitsFor(queued[x][i], x)'
                    /\ \A i, j \in DOMAIN queued'[x] : queued'[x][i] = queued'[x][j] => i = j
                    /\ \A q \in Proc : WaitsFor(q, x)' => InQueue(q, queued'[x])
  BY DEF QueuesInv
<1>1. \A q \in Proc \ {p} : WaitsFor(q, x)' <=> WaitsFor(q, x)
  BY DEF WaitsFor, TypeOK
<1>2. ~WaitsFor(p, x) /\ (WaitsFor(p, x)' <=> x = e)
  BY DEF WaitsFor, TypeOK
<1>3. queued[x] \in Seq(Proc) /\ \A i \in DOMAIN queued[x] : queued[x][i] \in Proc \ {p}
  BY <1>2 DEF TypeOK, QueuesInv
<1>4. CASE x # e
  BY <1>1, <1>2, <1>3, <1>4 DEF QueuesInv, TypeOK
<1>5. CASE x = e
  <2> DEFINE q == queued[e]
             n1 == Len(q) + 1
  <2>1. /\ queued'[x] = Append(q, p) /\ DOMAIN queued'[x] = 1..n1
        /\ \A i \in 1..Len(q) : queued'[x][i] = q[i]
        /\ queued'[x][n1] = p
    BY <1>3, <1>5 DEF TypeOK
  <2>2. \A i \in 1..n1 : i \in DOMAIN q \/ i = n1
    BY <1>3, <1>5
  <2>3. DOMAIN q = 1..Len(q) /\ Len(q) \in Nat
    BY <1>3, <1>5
  <2>4. \A i \in DOMAIN queued'[x] : WaitsFor(queued[x][i], x)'
    <3> SUFFICES ASSUME NEW i \in 1..n1 PROVE WaitsFor(queued[x][i], x)'
      BY <2>1
    <3>1. CASE i = n1
      BY <3>1, <2>1, <1>2, <1>5 DEF WaitsFor
    <3>2. CASE i \in DOMAIN q
      <4>1. queued'[x][i] = q[i] /\ q[i] \in Proc \ {p} /\ WaitsFor(q[i], x)
        BY <3>2, <2>1, <2>3, <1>3, <1>5 DEF QueuesInv
      <4> QED BY <4>1, <1>1 DEF WaitsFor
    <3> QED BY <3>1, <3>2, <2>2
  <2>5. \A i, j \in DOMAIN queued'[x] : queued'[x][i] = queued'[x][j] => i = j
    <3>1. \A i, j \in DOMAIN q : q[i] = q[j] => i = j
      BY DEF QueuesInv
    <3>2. \A i \in DOMAIN q : q[i] # p
      BY <1>3, <1>5
    <3> QED BY <2>1, <2>2, <2>3, <3>1, <3>2
  <2>6. \A r \in Proc : WaitsFor(r, x)' => InQueue(r, queued'[x])
    <3> SUFFICES ASSUME NEW r \in Proc, WaitsFor(r, x)' PROVE \E i \in 1..n1 : queued'[x][i] = r
      BY <2>1 DEF InQueue
    <3>1. CASE r = p
      BY <3>1, <2>1, <2>3
    <3>2. CASE r # p
      <4>1. InQueue(r, q)
        BY <3>2, <1>1, <1>5 DEF QueuesInv
      <4> QED BY <4>1, <2>1, <2>3 DEF InQueue
    <3> QED BY <3>1, <3>2
  <2> QED BY <2>4, <2>5, <2>6
<1> QED BY <1>4, <1>5

\* The first in the queue of the end s is served.
LEMMA ServeQueues ==
    ASSUME TypeOK, QueuesInv, NEW s \in End, queued[s] # <<>>, killed' = killed,
           NEW p \in Proc, state[p] = "RUNNING",
           state' = [state EXCEPT ![Head(queued[s])] = "RUNNING"],
           queued' = [queued EXCEPT ![s] = Tail(queued[s])],
           waits' = [waits EXCEPT ![p] = NoWait, ![Head(queued[s])] = NoWait]
    PROVE  QueuesInv'
<1>0. PICK b, q : b = Head(queued[s]) /\ q = queued[s]
  OBVIOUS
<1>1. q \in Seq(Proc) /\ DOMAIN q = 1..Len(q) /\ Len(q) \in Nat \ {0} /\ b \in Proc /\ b = q[1]
  BY <1>0 DEF TypeOK
<1>2. WaitsFor(b, s)
  BY <1>0, <1>1 DEF QueuesInv
<1> SUFFICES ASSUME NEW x \in End
             PROVE  /\ \A i \in DOMAIN queued'[x] : WaitsFor(queued[x][i], x)'
                    /\ \A i, j \in DOMAIN queued'[x] : queued'[x][i] = queued'[x][j] => i = j
                    /\ \A r \in Proc : WaitsFor(r, x)' => InQueue(r, queued'[x])
  BY DEF QueuesInv
<1>3. \A r \in Proc \ {b} : WaitsFor(r, x)' <=> WaitsFor(r, x)
  BY <1>0 DEF WaitsFor, TypeOK
<1>4. ~WaitsFor(b, x)'
  BY <1>0, <1>1 DEF WaitsFor, TypeOK
<1>5. \A i \in DOMAIN queued[x] : queued[x][i] \in Proc
  BY DEF TypeOK
<1>6. CASE x # s
  <2>1. \A i \in DOMAIN queued[x] : queued[x][i] # b
    BY <1>2, <1>6 DEF QueuesInv, WaitsFor
  <2>2. queued'[x] = queued[x]
    BY <1>6 DEF TypeOK
  <2>3. \A i \in DOMAIN queued[x] : WaitsFor(queued[x][i], x)
    BY DEF QueuesInv
  <2>4. \A i \in DOMAIN queued[x] : WaitsFor(queued[x][i], x)'
    <3> SUFFICES ASSUME NEW i \in DOMAIN queued[x] PROVE WaitsFor(queued[x][i], x)'
      OBVIOUS
    <3>1. PICK r : r = queued[x][i]
      OBVIOUS
    <3>2. r \in Proc \ {b} /\ queued'[x][i] = r /\ WaitsFor(r, x)
      BY <2>1, <2>2, <2>3, <1>5, <3>1
    <3>3. WaitsFor(r, x)'
      BY <3>2, <1>3
    <3> QED BY <3>2, <3>3 DEF WaitsFor
  <2>5. \A i, j \in DOMAIN queued'[x] : queued'[x][i] = queued'[x][j] => i = j
    <3>1. \A i, j \in DOMAIN queued[x] : queued[x][i] = queued[x][j] => i = j
      BY ONLY QueuesInv, x \in End DEF QueuesInv
    <3> QED BY ONLY <2>2, <3>1
  <2>6. \A r \in Proc : WaitsFor(r, x)' => WaitsFor(r, x)
    BY <1>3, <1>4
  <2>7. \A r \in Proc : WaitsFor(r, x)' => InQueue(r, queued'[x])
    BY <2>2, <2>6 DEF QueuesInv
  <2> QED BY <2>2, <2>4, <2>5, <2>7
<1>7. CASE x = s
  <2>1. /\ queued'[x] = Tail(q) /\ DOMAIN Tail(q) = 1..(Len(q) - 1)
        /\ \A i \in 1..(Len(q) - 1) : Tail(q)[i] = q[i + 1] /\ i + 1 \in DOMAIN q
    BY <1>0, <1>1, <1>7 DEF TypeOK
  <2>2. \A i, j \in DOMAIN q : q[i] = q[j] => i = j
    BY <1>0 DEF QueuesInv
  <2>3. \A i \in DOMAIN queued'[x] : WaitsFor(queued[x][i], x)'
    <3> SUFFICES ASSUME NEW i \in 1..(Len(q) - 1) PROVE WaitsFor(queued[x][i], x)'
      BY <2>1
    <3>1. queued'[x][i] = q[i + 1] /\ q[i + 1] \in Proc \ {b} /\ WaitsFor(q[i + 1], x)
      <4>1. i + 1 \in DOMAIN q /\ 1 \in DOMAIN q /\ i + 1 # 1 /\ queued'[x][i] = q[i + 1]
        <5>1. 1 \in DOMAIN q /\ i + 1 # 1
          BY ONLY <1>1, i \in 1..(Len(q) - 1)
        <5> QED BY ONLY <2>1, <5>1, i \in 1..(Len(q) - 1)
      <4>2. q[i + 1] # b
        BY <4>1, <2>2, <1>1
      <4>3. \A j \in DOMAIN q : q[j] \in Proc /\ WaitsFor(q[j], x)
        BY <1>0, <1>5, <1>7 DEF QueuesInv
      <4> QED BY ONLY <4>1, <4>2, <4>3
    <3>2. PICK r : r = q[i + 1]
      OBVIOUS
    <3>3. queued'[x][i] = r /\ r \in Proc \ {b} /\ WaitsFor(r, x)
      BY <3>1, <3>2
    <3>4. WaitsFor(r, x)'
      BY <3>3, <1>3
    <3> QED BY <3>3, <3>4 DEF WaitsFor
  <2>4. \A i, j \in DOMAIN queued'[x] : queued'[x][i] = queued'[x][j] => i = j
    <3>1. ASSUME NEW i \in 1..(Len(q) - 1), NEW j \in 1..(Len(q) - 1), Tail(q)[i] = Tail(q)[j]
          PROVE  i = j
      <4>1. /\ i + 1 \in DOMAIN q /\ j + 1 \in DOMAIN q
            /\ Tail(q)[i] = q[i + 1] /\ Tail(q)[j] = q[j + 1]
        BY ONLY <2>1, i \in 1..(Len(q) - 1), j \in 1..(Len(q) - 1)
      <4>2. i + 1 = j + 1
        BY ONLY <4>1, <2>2, <3>1
      <4> QED BY ONLY <4>2, i \in 1..(Len(q) - 1), j \in 1..(Len(q) - 1), <1>1
    <3> QED BY ONLY <2>1, <3>1
  <2>5. ASSUME NEW r \in Proc, WaitsFor(r, x)' PROVE InQueue(r, queued'[x])
    <3>1. r # b /\ WaitsFor(r, x)
      BY <2>5, <1>3, <1>4
    <3>2. PICK i \in DOMAIN q : q[i] = r
      BY <3>1, <1>0, <1>7 DEF QueuesInv, InQueue
    <3>3. i - 1 \in 1..(Len(q) - 1) /\ (i - 1) + 1 = i
      BY <3>1, <3>2, <1>1
    <3> QED BY <3>2, <3>3, <2>1 DEF InQueue
  <2> QED BY <2>3, <2>4, <2>5
<1> QED BY <1>6, <1>7

LEMMA LenType == \A len \in {0} \cup ReadLens \cup WriteLens : len \in Nat
<1>1. ReadLens \subseteq Nat /\ WriteLens \subseteq Nat
  BY PipeAssumption
<1> QED BY <1>1

\* A read or a write returns at once, waits, or is served with the first who
\* waits at the other end.
RWGone(p, e) ==
    /\ refcount[sister(e)] = 0
    /\ ret' = [NoRet EXCEPT ![p] = IF e = "R" THEN 0 ELSE EPIPE]
    /\ UNCHANGED <<state, queued, waits>>
RWJoins(p, e, n) ==
    /\ refcount[sister(e)] # 0 /\ queued[sister(e)] = <<>>
    /\ state' = [state EXCEPT ![p] = "WAITS4PIPE"]
    /\ queued' = [queued EXCEPT ![e] = Append(queued[e], p)]
    /\ waits' = [waits EXCEPT ![p] = [end |-> e, len |-> n]]
    /\ ret' = NoRet
RWServed(p, e, s, b) ==
    /\ s = sister(e) /\ queued[s] # <<>> /\ b = Head(queued[s]) /\ b # p /\ WaitsFor(b, s)
    /\ state' = [state EXCEPT ![b] = "RUNNING"]
    /\ queued' = [queued EXCEPT ![s] = Tail(queued[s])]
    /\ waits' = [waits EXCEPT ![p] = NoWait, ![b] = NoWait]
    /\ \E len \in Nat : len <= waits[b].len /\ ret' = [NoRet EXCEPT ![p] = len, ![b] = len]

LEMMA ReadWriteCases ==
    ASSUME IndInv, NEW p \in Proc, ReadWrite(p)
    PROVE  /\ state[p] = "RUNNING" /\ killed = NULL /\ panic = "none"
           /\ UNCHANGED <<table, slots, handles_refcount, refcount, killed, hid, panic>>
           /\ \E e \in End, n \in ReadLens \cup WriteLens :
                /\ refcount[e] > 0
                /\ \/ RWGone(p, e)
                   \/ RWJoins(p, e, n)
                   \/ \E s \in End, b \in Proc : RWServed(p, e, s, b)
<1> USE PipeAssumption DEF IndInv
<1>1. /\ state[p] = "RUNNING" /\ killed = NULL /\ panic = "none"
      /\ UNCHANGED <<table, slots, handles_refcount, refcount, killed, hid, panic>>
  BY DEF ReadWrite, Running
<1>2. PICK h \in Hid : \E n \in IF Get(p, h) = "R" THEN ReadLens ELSE WriteLens :
        LET e == Get(p, h)
            q == joined(e, p)
            w == [waits EXCEPT ![p] = [end |-> e, len |-> n]]
        IN
        /\ e # NULL
        /\ \/ /\ PeerGone(e)
              /\ ret' = [NoRet EXCEPT ![p] = IF e = "R" THEN 0 ELSE EPIPE]
              /\ UNCHANGED <<state, queued, waits>>
           \/ /\ ~PeerGone(e) /\ queued[sister(e)] = <<>>
              /\ state' = [state EXCEPT ![p] = "WAITS4PIPE"]
              /\ queued' = [queued EXCEPT ![e] = q]
              /\ waits' = w
              /\ ret' = NoRet
           \/ /\ ~PeerGone(e) /\ queued[sister(e)] # <<>>
              /\ Transfer(e, q, w)
  BY DEF ReadWrite
<1>3. PICK e : e = Get(p, h)
  OBVIOUS
<1>4. PICK n \in IF e = "R" THEN ReadLens ELSE WriteLens :
        /\ e # NULL
        /\ \/ RWGone(p, e)
           \/ RWJoins(p, e, n)
           \/ /\ queued[sister(e)] # <<>>
              /\ Transfer(e, joined(e, p), [waits EXCEPT ![p] = [end |-> e, len |-> n]])
  BY <1>2, <1>3 DEF RWGone, RWJoins, PeerGone, joined
<1>5. e \in End /\ sister(e) \in End /\ sister(e) # e /\ refcount[e] > 0
  <2>1. e \in End
    <3>1. table[p] \in Proc
      BY <1>1, RunnerHasTable
    <3>2. slots[table[p]][h] \in End \cup {NULL}
      BY <1>1, <1>3, <3>1 DEF TypeOK
    <3>3. e # NULL
      BY <1>4
    <3> QED BY ONLY <1>3, <3>2, <3>3 DEF Get
  <2>2. <<table[p], h>> \in SlotsWith(slots, e)
    <3>1. table[p] \in Proc
      BY <1>1, RunnerHasTable
    <3>2. slots[table[p]][h] = e
      BY ONLY <1>3 DEF Get
    <3> QED BY ONLY <3>1, <3>2, h \in Hid DEF SlotsWith
  <2>3. refcount[e] # 0
    <3>1. refcount[e] = Cardinality(SlotsWith(slots, e))
      BY <2>1 DEF SlotsInv
    <3>2. IsFiniteSet(SlotsWith(slots, e))
      BY ONLY FiniteSlots DEF SlotsWith
    <3> QED BY ONLY <2>2, <3>1, <3>2, FS_EmptySet
  <2> QED BY <2>1, <2>3 DEF TypeOK, End, sister
<1>6. n \in ReadLens \cup WriteLens /\ n \in Nat
  BY <1>4
<1>7. CASE /\ queued[sister(e)] # <<>>
           /\ Transfer(e, joined(e, p), [waits EXCEPT ![p] = [end |-> e, len |-> n]])
  <2>1. PICK s, b : s = sister(e) /\ b = Head(queued[s])
    OBVIOUS
  <2>2. queued[e] = <<>>
    BY <1>5, <1>7 DEF NobodyWaitsInVain, NoMissedTransfer, End, sister
  <2>3. /\ joined(e, p) = <<p>> /\ Head(joined(e, p)) = p
        /\ Tail(joined(e, p)) = <<>> /\ joined(e, p)[Len(joined(e, p))] = p
    BY <2>2 DEF joined
  <2>4. queued[s] \in Seq(Proc) /\ queued[s] # <<>> /\ b \in Proc /\ WaitsFor(b, s)
    BY <1>5, <1>7, <2>1 DEF TypeOK, QueuesInv
  <2>5. b # p
    BY <2>4, <1>1 DEF WaitsFor
  <2>6. /\ state' = [state EXCEPT ![b] = "RUNNING"]
        /\ queued' = [queued EXCEPT ![s] = Tail(queued[s])]
        /\ waits' = [waits EXCEPT ![p] = NoWait, ![b] = NoWait]
    BY <1>1, <1>5, <1>7, <2>1, <2>2, <2>3, <2>4, <2>5 DEF Transfer, TypeOK
  <2>7. \E len \in Nat : len <= waits[b].len /\ ret' = [NoRet EXCEPT ![p] = len, ![b] = len]
    <3>1. PICK w : w = [waits EXCEPT ![p] = [end |-> e, len |-> n]]
      OBVIOUS
    <3>2. waits[b].len \in Nat
      <4>1. waits[b] \in [end : End, len : {0} \cup ReadLens \cup WriteLens]
        BY <2>4 DEF TypeOK
      <4>2. waits[b].len \in {0} \cup ReadLens \cup WriteLens
        BY <4>1
      <4> QED BY <4>2, LenType
    <3>3. w[p].len = n /\ w[b] = waits[b]
      BY <3>1, <2>4, <2>5 DEF TypeOK
    <3>4. PICK m : m = IF w[p].len < w[b].len THEN w[p].len ELSE w[b].len
      OBVIOUS
    <3>5. m \in Nat /\ m <= waits[b].len
      BY <3>2, <3>3, <3>4, <1>6
    <3>6. PICK len \in 0..m : ret' = [NoRet EXCEPT ![p] = len, ![b] = len]
      BY <3>1, <3>4, <1>7, <2>1, <2>3 DEF Transfer
    <3>7. len \in Nat /\ len <= waits[b].len
      BY <3>2, <3>5
    <3> QED BY <3>6, <3>7
  <2>8. RWServed(p, e, s, b)
    BY <2>1, <2>4, <2>5, <2>6, <2>7 DEF RWServed
  <2> QED BY <1>1, <1>5, <1>6, <2>1, <2>4, <2>8
<1> QED BY <1>1, <1>4, <1>5, <1>6, <1>7

LEMMA ReadWriteInd == ASSUME IndInv, NEW p \in Proc, ReadWrite(p) PROVE IndInv'
<1> USE PipeAssumption DEF IndInv
<1>1. /\ state[p] = "RUNNING" /\ killed = NULL /\ panic = "none"
      /\ UNCHANGED <<table, slots, handles_refcount, refcount, killed, hid, panic>>
  BY ReadWriteCases
<1>2. PICK e \in End, n \in ReadLens \cup WriteLens :
        /\ refcount[e] > 0
        /\ \/ RWGone(p, e)
           \/ RWJoins(p, e, n)
           \/ \E s \in End, b \in Proc : RWServed(p, e, s, b)
  BY ReadWriteCases
<1>3. sister(e) \in End /\ sister(e) # e /\ n \in Nat
  BY LenType DEF End, sister
<1>4. CASE RWGone(p, e)
  <2> USE DEF RWGone
  <2>1. TypeOK'
    BY <1>1, <1>4 DEF TypeOK, NoRet
  <2>2. QueuesInv'
    BY <1>1, <1>4 DEF QueuesInv, WaitsFor
  <2>3. TablesInv' /\ SlotsInv'
    BY <1>1, <1>4, TablesKept
  <2>4. NobodyWaitsInVain'
    BY <1>1, <1>4 DEF NobodyWaitsInVain, NoMissedTransfer, NoWaitForClosedEnd
  <2> QED BY <2>1, <2>2, <2>3, <2>4
<1>5. CASE RWJoins(p, e, n)
  <2> USE <1>5 DEF RWJoins
  <2>1. TypeOK'
    <3>1. state' \in [Proc -> {"NEW", "RUNNING", "WAITS4PIPE", "DEAD"}]
      BY DEF TypeOK
    <3>2. queued' \in [End -> Seq(Proc)]
      BY DEF TypeOK
    <3>3. waits' \in [Proc -> [end : End, len : {0} \cup ReadLens \cup WriteLens]]
      BY DEF TypeOK
    <3> QED BY <1>1, <3>1, <3>2, <3>3 DEF TypeOK, NoRet
  <2>2. QueuesInv'
    BY <1>1, JoinQueues
  <2>3. TablesInv' /\ SlotsInv'
    BY <1>1, TablesKept DEF TypeOK
  <2>4. NobodyWaitsInVain'
    <3>1. refcount[sister(e)] > 0
      BY <1>3 DEF TypeOK
    <3>2. \A x \in End : x # e => x = sister(e) /\ sister(x) = e
      BY DEF End, sister
    <3>3. queued'[sister(e)] = <<>>
      BY <1>3 DEF TypeOK
    <3> QED BY <3>1, <3>2, <3>3, <1>1, <1>2 DEF NobodyWaitsInVain, NoMissedTransfer, NoWaitForClosedEnd, End
  <2> QED BY <2>1, <2>2, <2>3, <2>4
<1>6. ASSUME NEW s \in End, NEW b \in Proc, RWServed(p, e, s, b) PROVE IndInv'
  <2> USE <1>6 DEF RWServed
  <2>1. TypeOK'
    <3>1. queued' \in [End -> Seq(Proc)]
      BY DEF TypeOK
    <3>2. state' \in [Proc -> {"NEW", "RUNNING", "WAITS4PIPE", "DEAD"}]
      BY DEF TypeOK
    <3>3. waits' \in [Proc -> [end : End, len : {0} \cup ReadLens \cup WriteLens]]
      BY DEF TypeOK, NoWait, End
    <3>4. \A r \in Proc : ret'[r] = None \/ ret'[r] \in Nat
      BY DEF NoRet
    <3> QED BY <1>1, <3>1, <3>2, <3>3, <3>4 DEF TypeOK
  <2>2. QueuesInv'
    BY <1>1, ServeQueues
  <2>3. TablesInv' /\ SlotsInv'
    BY <1>1, TablesKept DEF TypeOK, WaitsFor
  <2>4. NobodyWaitsInVain'
    <3>1. \A x \in End : queued'[x] # <<>> => queued[x] # <<>>
      BY DEF TypeOK
    <3> QED BY <1>1, <3>1 DEF NobodyWaitsInVain, NoMissedTransfer, NoWaitForClosedEnd, End
  <2> QED BY <2>1, <2>2, <2>3, <2>4
<1> QED BY <1>2, <1>4, <1>5, <1>6

-----------------------------------------------------------------------------
(* proc_kill *)

\* A process that is taken out of its queue leaves the others in theirs.
LEMMA WithoutPlaces ==
    ASSUME NEW q \in Seq(Proc), NEW p \in Proc, InQueue(p, q),
           \A i, j \in DOMAIN q : q[i] = q[j] => i = j
    PROVE  /\ Without(q, p) \in Seq(Proc)
           /\ \A i, j \in DOMAIN Without(q, p) : Without(q, p)[i] = Without(q, p)[j] => i = j
           /\ \A r \in Proc : InQueue(r, Without(q, p)) <=> InQueue(r, q) /\ r # p
<1>1. PICK k : k = Place(p, q)
  OBVIOUS
<1>2. k \in DOMAIN q /\ q[k] = p
  BY <1>1 DEF Place, InQueue
<1>3. PICK w : w = Without(q, p)
  OBVIOUS
<1>4. DOMAIN q = 1..Len(q) /\ Len(q) \in Nat
  OBVIOUS
<1>5. w = [i \in 1..(Len(q) - 1) |-> IF i < k THEN q[i] ELSE q[i + 1]]
  BY <1>1, <1>3 DEF Without
<1>6. \A i \in 1..(Len(q) - 1) : w[i] \in Proc
  BY <1>2, <1>4, <1>5
<1>7. w \in Seq(Proc) /\ DOMAIN w = 1..(Len(q) - 1)
  BY <1>4, <1>5, <1>6
<1>8. ASSUME NEW i \in DOMAIN w, NEW j \in DOMAIN w, w[i] = w[j] PROVE i = j
  <2>1. PICK a \in DOMAIN q : w[i] = q[a] /\ a = IF i < k THEN i ELSE i + 1
    BY <1>4, <1>5, <1>7
  <2>2. PICK b \in DOMAIN q : w[j] = q[b] /\ b = IF j < k THEN j ELSE j + 1
    BY <1>4, <1>5, <1>7
  <2>3. a = b
    BY <1>8, <2>1, <2>2
  <2> QED BY <2>1, <2>2, <2>3, <1>2, <1>4, <1>7
<1>9. ASSUME NEW r \in Proc PROVE InQueue(r, w) <=> InQueue(r, q) /\ r # p
  <2>1. ASSUME NEW i \in DOMAIN w, w[i] = r PROVE InQueue(r, q) /\ r # p
    <3>1. PICK a \in DOMAIN q : w[i] = q[a] /\ a = IF i < k THEN i ELSE i + 1
      BY <1>4, <1>5, <1>7
    <3>2. a # k
      BY <3>1, <1>2, <1>4, <1>7
    <3> QED BY <2>1, <3>1, <3>2, <1>2 DEF InQueue
  <2>2. ASSUME NEW a \in DOMAIN q, q[a] = r, r # p PROVE InQueue(r, w)
    <3>1. CASE a < k
      <4>1. a \in 1..(Len(q) - 1) /\ w[a] = q[a]
        BY <3>1, <1>2, <1>4, <1>5
      <4> QED BY <4>1, <2>2, <1>7 DEF InQueue
    <3>2. CASE ~(a < k)
      <4>1. a # k
        BY <2>2, <1>2
      <4>2. a - 1 \in 1..(Len(q) - 1) /\ ~(a - 1 < k) /\ (a - 1) + 1 = a
        BY <3>2, <4>1, <1>2, <1>4
      <4>3. w[a - 1] = q[a]
        BY <4>2, <1>5
      <4> QED BY <4>2, <4>3, <2>2, <1>7 DEF InQueue
    <3> QED BY <3>1, <3>2
  <2> QED BY <2>1, <2>2 DEF InQueue
<1> QED BY <1>3, <1>7, <1>8, <1>9

LEMMA DequeuedPlaces ==
    ASSUME TypeOK, QueuesInv, killed = NULL, NEW p \in Proc, NEW x \in End
    PROVE  /\ dequeued(p) \in [End -> Seq(Proc)]
           /\ \A i, j \in DOMAIN dequeued(p)[x] : dequeued(p)[x][i] = dequeued(p)[x][j] => i = j
           /\ \A r \in Proc : InQueue(r, dequeued(p)[x]) <=> InQueue(r, queued[x]) /\ r # p
<1>1. \A e \in End : InQueue(p, queued[e]) <=> WaitsFor(p, e)
  BY DEF QueuesInv, InQueue
<1>2. \A e \in End : /\ queued[e] \in Seq(Proc)
                     /\ \A i, j \in DOMAIN queued[e] : queued[e][i] = queued[e][j] => i = j
  BY DEF TypeOK, QueuesInv
<1>3. queued \in [End -> Seq(Proc)]
  BY DEF TypeOK
<1>4. CASE state[p] # "WAITS4PIPE"
  BY <1>1, <1>2, <1>3, <1>4 DEF dequeued, WaitsFor
<1>5. CASE state[p] = "WAITS4PIPE"
  <2>1. PICK e \in End : e = waits[p].end
    BY DEF TypeOK
  <2>2. InQueue(p, queued[e]) /\ \A y \in End \ {e} : ~InQueue(p, queued[y])
    BY <1>1, <1>5, <2>1, PipeAssumption DEF WaitsFor
  <2>3. dequeued(p) = [queued EXCEPT ![e] = Without(queued[e], p)]
    BY <1>5, <2>1 DEF dequeued
  <2>4. PICK w : w = Without(queued[e], p)
    OBVIOUS
  <2>5. /\ w \in Seq(Proc)
        /\ \A i, j \in DOMAIN w : w[i] = w[j] => i = j
        /\ \A r \in Proc : InQueue(r, w) <=> InQueue(r, queued[e]) /\ r # p
    BY <2>2, <2>4, <1>2, WithoutPlaces
  <2>6. dequeued(p) \in [End -> Seq(Proc)] /\ dequeued(p)[x] = IF x = e THEN w ELSE queued[x]
    BY <2>3, <2>4, <2>5, <1>3
  <2>7. CASE x = e
    BY <2>5, <2>6, <2>7
  <2>8. CASE x # e
    BY <2>2, <2>6, <2>8, <1>2
  <2> QED BY <2>7, <2>8
<1> QED BY <1>4, <1>5

LEMMA KillInd == ASSUME IndInv, NEW p \in Proc, Kill(p) PROVE IndInv'
<1> USE PipeAssumption DEF IndInv
<1>1. /\ killed = NULL /\ panic = "none" /\ state[p] \in {"RUNNING", "WAITS4PIPE"}
      /\ queued' = dequeued(p)
      /\ handles_refcount' = [handles_refcount EXCEPT ![table[p]] = @ - 1]
      /\ waits' = [waits EXCEPT ![p] = NoWait]
      /\ ret' = NoRet
      /\ UNCHANGED <<slots, refcount, panic>>
  BY DEF Kill
<1>2. \/ /\ handles_refcount[table[p]] > 1
         /\ state' = [state EXCEPT ![p] = "DEAD"]
         /\ table' = [table EXCEPT ![p] = NULL]
         /\ UNCHANGED <<killed, hid>>
      \/ /\ ~(handles_refcount[table[p]] > 1)
         /\ killed' = p /\ hid' = 0
         /\ UNCHANGED <<state, table>>
  BY DEF Kill
<1>3. table[p] \in Proc
  BY <1>1, RunnerHasTable
<1>4. \A x \in End :
        /\ queued'[x] \in Seq(Proc)
        /\ \A i, j \in DOMAIN queued'[x] : queued'[x][i] = queued'[x][j] => i = j
        /\ \A r \in Proc : InQueue(r, queued'[x]) <=> InQueue(r, queued[x]) /\ r # p
  BY <1>1, DequeuedPlaces
<1>5. \A t \in Proc : Users'[t] = Users[t] \ {p}
  <2>1. \A r \in Proc : r # p => table'[r] = table[r]
    BY <1>2 DEF TypeOK
  <2>2. table'[p] = NULL \/ killed' = p
    BY <1>2 DEF TypeOK
  <2>3. killed' = p \/ killed' = NULL
    BY <1>1, <1>2
  <2> QED BY <1>1, <2>1, <2>2, <2>3 DEF Users
<1>6. p \in Users[table[p]] /\ \A t \in Proc \ {table[p]} : p \notin Users[t]
  BY <1>1, <1>3 DEF Users
<1>7. \A t \in Proc : IsFiniteSet(Users[t]) /\ Cardinality(Users[t]) = handles_refcount[t] /\ handles_refcount[t] \in Nat
  BY FiniteUsers DEF TablesInv, TypeOK
<1>8. \A t \in Proc : Cardinality(Users[t] \ {p}) = IF t = table[p] THEN handles_refcount[t] - 1 ELSE handles_refcount[t]
  <2> SUFFICES ASSUME NEW t \in Proc
               PROVE  Cardinality(Users[t] \ {p}) = IF t = table[p] THEN handles_refcount[t] - 1 ELSE handles_refcount[t]
    OBVIOUS
  <2>1. Cardinality(Users[t] \ {p}) = IF p \in Users[t] THEN Cardinality(Users[t]) - 1 ELSE Cardinality(Users[t])
    BY <1>7, FS_RemoveElement
  <2> QED BY <2>1, <1>6, <1>7
<1>9. handles_refcount[table[p]] > 0
  <2>1. Cardinality(Users[table[p]]) # 0
    BY <1>3, <1>6, <1>7, FS_EmptySet
  <2> QED BY <2>1, <1>3, <1>7
<1>10. TypeOK'
  <2>1. queued' \in [End -> Seq(Proc)]
    BY <1>1, DequeuedPlaces DEF End
  <2>2. handles_refcount' \in [Proc -> Nat]
    BY <1>1, <1>3, <1>9 DEF TypeOK
  <2>3. state' \in [Proc -> {"NEW", "RUNNING", "WAITS4PIPE", "DEAD"}]
    BY <1>2 DEF TypeOK
  <2>5. table' \in [Proc -> Proc \cup {NULL}]
    BY <1>2 DEF TypeOK
  <2>6. killed' \in Proc \cup {NULL} /\ hid' \in 0..HANDLE_MAX
    BY <1>2 DEF TypeOK
  <2>4. waits' \in [Proc -> [end : End, len : {0} \cup ReadLens \cup WriteLens]]
    BY <1>1 DEF TypeOK, NoWait, End
  <2> QED BY <1>1, <2>1, <2>2, <2>3, <2>4, <2>5, <2>6 DEF TypeOK, NoRet
<1>11. QueuesInv'
  <2>1. \A r \in Proc, x \in End : InQueue(r, queued[x]) <=> WaitsFor(r, x)
    BY DEF QueuesInv, InQueue
  <2>2. \A r \in Proc \ {p} : \A x \in End : WaitsFor(r, x)' <=> WaitsFor(r, x)
    BY <1>1, <1>2 DEF WaitsFor, TypeOK
  <2>3. \A x \in End : ~WaitsFor(p, x)'
    BY <1>1, <1>2 DEF WaitsFor, TypeOK
  <2>4. \A r \in Proc, x \in End : InQueue(r, queued'[x]) <=> WaitsFor(r, x)'
    BY <1>4, <2>1, <2>2, <2>3
  <2>5. ASSUME NEW x \in End, NEW i \in DOMAIN queued'[x] PROVE WaitsFor(queued[x][i], x)'
    <3>1. PICK r : r = queued'[x][i]
      OBVIOUS
    <3>2. r \in Proc /\ InQueue(r, queued'[x])
      BY <3>1, <1>4 DEF InQueue
    <3> QED BY <3>1, <3>2, <2>4 DEF WaitsFor
  <2> QED BY <1>4, <2>4, <2>5 DEF QueuesInv
<1>12. TablesInv'
  <2>1. \A t \in Proc : handles_refcount'[t] = Cardinality(Users'[t])
    BY <1>1, <1>3, <1>5, <1>8 DEF TypeOK
  <2>2. CASE handles_refcount[table[p]] > 1
    <3>1. /\ state' = [state EXCEPT ![p] = "DEAD"]
          /\ table' = [table EXCEPT ![p] = NULL]
          /\ killed' = NULL
      BY <1>1, <1>2, <2>2
    <3> QED BY <1>1, <2>1, <3>1 DEF TablesInv, TypeOK
  <2>3. CASE ~(handles_refcount[table[p]] > 1)
    <3>1. killed' = p /\ UNCHANGED <<state, table>>
      BY <1>2, <2>3
    <3>2. handles_refcount'[table[p]] = 0
      BY <1>1, <1>3, <1>7, <1>9, <2>3 DEF TypeOK
    <3>3. IsFiniteSet(Users'[table[p]])
      <4>1. IsFiniteSet(Users[table[p]]) /\ Users'[table[p]] = Users[table[p]] \ {p}
        BY <1>3, <1>5, <1>7
      <4> QED BY <4>1, FS_RemoveElement
    <3>4. Users'[table[p]] = {}
      BY <3>2, <3>3, <2>1, <1>3, FS_EmptySet
    <3> QED BY <1>1, <1>3, <2>1, <3>1, <3>4 DEF TablesInv
  <2> QED BY <2>2, <2>3
<1>13. SlotsInv'
  BY <1>1 DEF SlotsInv
<1>14. NobodyWaitsInVain'
  <2>1. ASSUME NEW x \in End, queued'[x] # <<>> PROVE queued[x] # <<>>
    <3>1. 1 \in DOMAIN queued'[x] /\ queued'[x][1] \in Proc
      BY <2>1, <1>4
    <3>2. InQueue(queued'[x][1], queued[x])
      BY <3>1, <1>4 DEF InQueue
    <3> QED BY <3>2 DEF InQueue
  <2> QED BY <1>1, <2>1 DEF NobodyWaitsInVain, NoMissedTransfer, NoWaitForClosedEnd, End
<1> QED BY <1>10, <1>11, <1>12, <1>13, <1>14

LEMMA KillEndInd == ASSUME IndInv, KillEnd PROVE IndInv'
<1> USE PipeAssumption DEF IndInv
<1>1. /\ killed \in Proc /\ panic = "none"
      /\ state' = [state EXCEPT ![killed] = "DEAD"]
      /\ table' = [table EXCEPT ![killed] = NULL]
      /\ killed' = NULL /\ hid' = 0
      /\ ret' = NoRet
      /\ UNCHANGED <<slots, handles_refcount, refcount, queued, waits, panic>>
  BY DEF KillEnd, TypeOK
<1>2. TypeOK'
  BY <1>1 DEF TypeOK, NoRet
<1>3. QueuesInv'
  <2>1. \A r \in Proc, x \in End : WaitsFor(r, x)' <=> WaitsFor(r, x)
    BY <1>1 DEF WaitsFor, TypeOK
  <2>2. \A x \in End : \A i \in DOMAIN queued[x] : queued[x][i] \in Proc
    BY DEF TypeOK
  <2>3. ASSUME NEW x \in End, NEW i \in DOMAIN queued'[x] PROVE WaitsFor(queued[x][i], x)'
    BY <1>1, <2>2, <2>3 DEF QueuesInv, WaitsFor, TypeOK
  <2> QED BY <1>1, <2>1, <2>3 DEF QueuesInv
<1>4. TablesInv'
  <2>1. Users' = Users
    BY <1>1 DEF Users, TypeOK
  <2> QED BY <1>1, <2>1 DEF TablesInv, TypeOK
<1>5. SlotsInv'
  BY <1>1 DEF SlotsInv
<1>6. NobodyWaitsInVain'
  BY <1>1 DEF NobodyWaitsInVain, NoMissedTransfer, NoWaitForClosedEnd
<1> QED BY <1>2, <1>3, <1>4, <1>5, <1>6

LEMMA NextInd == IndInv /\ [Next]_vars => IndInv'
<1> SUFFICES ASSUME IndInv, [Next]_vars PROVE IndInv'
  OBVIOUS
<1>1. ASSUME NEW p \in Proc, Fork(p) \/ Dup(p) \/ Close(p) \/ ReadWrite(p) \/ Kill(p) PROVE IndInv'
  BY <1>1, ForkInd, DupInd, CloseSysInd, ReadWriteInd, KillInd
<1>2. CASE KillClose
  BY <1>2, KillCloseInd
<1>3. CASE KillEnd
  BY <1>3, KillEndInd
<1>4. CASE UNCHANGED vars
  <2> USE <1>4 DEF vars
  <2>1. TypeOK' /\ QueuesInv'
    BY DEF IndInv, TypeOK, QueuesInv, WaitsFor
  <2>2. TablesInv' /\ SlotsInv'
    BY TablesKept DEF IndInv
  <2>3. NobodyWaitsInVain'
    BY DEF IndInv, NobodyWaitsInVain, NoMissedTransfer, NoWaitForClosedEnd
  <2> QED BY <2>1, <2>2, <2>3 DEF IndInv
<1> QED BY <1>1, <1>2, <1>3, <1>4 DEF Next

LEMMA Inductive == Spec => []IndInv
  BY InitInd, NextInd, PTL DEF Spec

\* Whoever waits for a pipe is in the queue of that end once, nobody else is,
\* and the counts of the ends and of the tables are exact: for any processes that
\* share tables, duplicate and close handles and are killed in any order.
THEOREM PipeSoundAlways == Spec => []PipeSound
  BY Inductive, InvSound, PTL

\* A reader and a writer never wait for each other, and nobody waits for an end
\* that has been closed.
THEOREM NobodyWaitsAlways == Spec => []NobodyWaitsInVain
  BY Inductive, InvSound, PTL

-----------------------------------------------------------------------------
(* What a step may do. *)

\* Nobody who waits is given a result, and nobody joins a queue.
LEMMA QuietFair ==
    ASSUME \A p \in Proc : state[p] = "WAITS4PIPE" => ~(ret'[p] >= 0),
           \A e \in End : \A p \in Proc : InQueue(p, queued'[e]) => InQueue(p, queued[e])
    PROVE  FairStep
  BY DEF FairStep

\* handle_close wakes those who wait with -1.
LEMMA CloseFair ==
    ASSUME TypeOK, NEW e, NEW inc, handle_close(e, inc) PROVE FairStep
<1>1. \A p \in Proc : ret'[p] \in {-1, None}
  BY DEF handle_close
<1>2. \A x \in End : queued'[x] \in {<<>>, queued[x]}
  BY DEF handle_close
<1>3. \A p \in Proc : ~(ret'[p] >= 0)
  BY <1>1 DEF None
<1>4. \A x \in End : \A p \in Proc : InQueue(p, queued'[x]) => InQueue(p, queued[x])
  BY <1>2 DEF InQueue
<1> QED BY <1>3, <1>4, QuietFair

\* Who joins a queue is the last in it.
LEMMA JoinFair ==
    ASSUME TypeOK, NEW e \in End, NEW p \in Proc, ~InQueue(p, queued[e]),
           queued' = [queued EXCEPT ![e] = Append(queued[e], p)],
           \A r \in Proc : ~(ret'[r] >= 0)
    PROVE  FairStep
<1> SUFFICES ASSUME NEW x \in End, NEW r \in Proc, NEW q \in Proc,
                    InQueue(r, queued[x]), ~InQueue(q, queued[x]), InQueue(q, queued'[x])
             PROVE  Place(r, queued'[x]) < Place(q, queued'[x])
  BY DEF FairStep
<1>1. x = e
  BY DEF TypeOK
<1>2. PICK l : l = queued[e]
  OBVIOUS
<1>3. l \in Seq(Proc) /\ Len(l) \in Nat /\ DOMAIN l = 1..Len(l)
  BY <1>2 DEF TypeOK
<1>4. PICK m : m = queued'[e]
  OBVIOUS
<1>5. m = Append(l, p)
  BY <1>2, <1>4 DEF TypeOK
<1>6. DOMAIN m = 1..(Len(l) + 1) /\ (\A i \in 1..Len(l) : m[i] = l[i]) /\ m[Len(l) + 1] = p
  BY <1>3, <1>5
<1>7. q = p
  <2>1. PICK i \in DOMAIN m : m[i] = q
    BY <1>1, <1>4 DEF InQueue
  <2>2. i \notin 1..Len(l)
    BY <2>1, <1>1, <1>2, <1>3, <1>6 DEF InQueue
  <2>3. i = Len(l) + 1
    BY <2>1, <2>2, <1>3, <1>6
  <2> QED BY <2>1, <2>3, <1>6
<1>8. r # p
  BY <1>1
<1>9. Place(q, m) = Len(l) + 1
  <2>1. \A i \in DOMAIN m : m[i] = p <=> i = Len(l) + 1
    <3>1. \A i \in 1..Len(l) : l[i] # p
      BY <1>2, <1>3 DEF InQueue
    <3>2. \A i \in DOMAIN m : i \in 1..Len(l) \/ i = Len(l) + 1
      BY <1>3, <1>6
    <3> QED BY <3>1, <3>2, <1>3, <1>6
  <2>2. Len(l) + 1 \in DOMAIN m
    BY <1>3, <1>6
  <2> QED BY <2>1, <2>2, <1>7 DEF Place
<1>10. Place(r, m) \in DOMAIN m /\ m[Place(r, m)] = r
  <2>1. \E i \in DOMAIN l : l[i] = r
    BY <1>1, <1>2 DEF InQueue
  <2>2. \E i \in DOMAIN m : m[i] = r
    BY <2>1, <1>3, <1>6
  <2> QED BY <2>2 DEF Place
<1>11. Place(r, m) < Len(l) + 1
  BY <1>3, <1>6, <1>8, <1>10
<1> QED BY <1>1, <1>4, <1>9, <1>11

LEMMA ReadWriteFair == ASSUME IndInv, NEW p \in Proc, ReadWrite(p) PROVE FairStep
<1> USE PipeAssumption DEF IndInv
<1>1. state[p] = "RUNNING"
  BY ReadWriteCases
<1>2. PICK e \in End, n \in ReadLens \cup WriteLens :
           \/ RWGone(p, e)
           \/ RWJoins(p, e, n)
           \/ \E s \in End, b \in Proc : RWServed(p, e, s, b)
  BY ReadWriteCases
<1>3. \A x \in End : ~InQueue(p, queued[x])
  BY <1>1 DEF QueuesInv, InQueue, WaitsFor
<1>4. CASE RWGone(p, e)
  <2>1. \A r \in Proc \ {p} : ret'[r] = None
    BY <1>4 DEF RWGone, NoRet
  <2>2. queued' = queued
    BY <1>4 DEF RWGone
  <2>3. \A r \in Proc : state[r] = "WAITS4PIPE" => ~(ret'[r] >= 0)
    BY <1>1, <2>1 DEF None
  <2> QED BY <2>2, <2>3, QuietFair
<1>5. CASE RWJoins(p, e, n)
  <2>1. \A r \in Proc : ~(ret'[r] >= 0)
    BY <1>5 DEF RWJoins, NoRet, None
  <2>2. queued' = [queued EXCEPT ![e] = Append(queued[e], p)]
    BY <1>5 DEF RWJoins
  <2> QED BY <1>3, <2>1, <2>2, JoinFair
<1>6. ASSUME NEW s \in End, NEW b \in Proc, RWServed(p, e, s, b) PROVE FairStep
  <2> USE <1>6 DEF RWServed
  <2>1. PICK len \in Nat : len <= waits[b].len /\ ret' = [NoRet EXCEPT ![p] = len, ![b] = len]
    OBVIOUS
  <2>2. ret'[p] = len /\ ret'[b] = len /\ \A r \in Proc \ {p, b} : ret'[r] = None
    BY <2>1 DEF NoRet
  <2>3. {r \in Proc : ret'[r] # None} = {b, p}
    <3>1. len # None
      BY DEF None
    <3> QED BY <2>2, <3>1
  <2>4. \A r \in Proc : state[r] = "WAITS4PIPE" /\ ret'[r] >= 0 => r = b
    BY <1>1, <2>2 DEF None
  <2>5. waits[b].end = s /\ b = Head(queued[s]) /\ queued'[s] = Tail(queued[s])
    BY DEF WaitsFor, TypeOK
  <2>6. \A x \in End : \A r \in Proc : InQueue(r, queued'[x]) => InQueue(r, queued[x])
    <3> SUFFICES ASSUME NEW x \in End, NEW r \in Proc, InQueue(r, queued'[x]) PROVE InQueue(r, queued[x])
      OBVIOUS
    <3>1. CASE x # s
      BY <3>1 DEF TypeOK
    <3>2. CASE x = s
      <4>1. PICK i \in DOMAIN Tail(queued[s]) : Tail(queued[s])[i] = r
        BY <3>2, <2>5 DEF InQueue
      <4>2. queued[s] \in Seq(Proc) /\ queued[s] # <<>>
        BY DEF TypeOK
      <4>3. i + 1 \in DOMAIN queued[s] /\ queued[s][i + 1] = r
        BY <4>1, <4>2
      <4> QED BY <4>3, <3>2 DEF InQueue
    <3> QED BY <3>1, <3>2
  <2>7. ASSUME NEW r \in Proc, state[r] = "WAITS4PIPE", ret'[r] >= 0
        PROVE  /\ r = Head(queued[waits[r].end]) /\ queued'[waits[r].end] = Tail(queued[waits[r].end])
               /\ \E q \in Proc : /\ {x \in Proc : ret'[x] # None} = {r, q}
                                  /\ ret'[q] = ret'[r] /\ ret'[r] <= waits[r].len
                                  /\ ~InQueue(q, queued[waits[r].end])
    <3>1. r = b
      BY <2>4, <2>7
    <3> QED BY <3>1, <2>1, <2>2, <2>3, <2>5, <1>3
  <2> QED BY <2>6, <2>7 DEF FairStep
<1> QED BY <1>2, <1>4, <1>5, <1>6

LEMMA NextFair == IndInv /\ [Next]_vars => [FairStep]_vars
<1> SUFFICES ASSUME IndInv, Next PROVE FairStep
  BY DEF vars
<1>1. TypeOK
  BY DEF IndInv
<1>2. ASSUME NEW p \in Proc, Fork(p) PROVE FairStep
  <2>1. ret' = NoRet /\ queued' = queued
    BY <1>2 DEF Fork
  <2> QED BY <2>1, QuietFair DEF NoRet, None
<1>3. ASSUME NEW p \in Proc, Dup(p) PROVE FairStep
  BY <1>1, <1>3, CloseFair DEF Dup
<1>4. ASSUME NEW p \in Proc, Close(p) PROVE FairStep
  BY <1>1, <1>4, CloseFair DEF Close
<1>5. ASSUME NEW p \in Proc, ReadWrite(p) PROVE FairStep
  BY <1>5, ReadWriteFair
<1>6. ASSUME NEW p \in Proc, Kill(p) PROVE FairStep
  <2>1. ret' = NoRet /\ queued' = dequeued(p) /\ killed = NULL
    BY <1>6 DEF Kill
  <2>2. \A x \in End : \A r \in Proc : InQueue(r, dequeued(p)[x]) => InQueue(r, queued[x])
    BY <2>1, DequeuedPlaces DEF IndInv
  <2> QED BY <2>1, <2>2, QuietFair DEF NoRet, None
<1>7. CASE KillClose
  BY <1>1, <1>7, CloseFair DEF KillClose
<1>8. CASE KillEnd
  <2>1. ret' = NoRet /\ queued' = queued
    BY <1>8 DEF KillEnd
  <2> QED BY <2>1, QuietFair DEF NoRet, None
<1> QED BY <1>2, <1>3, <1>4, <1>5, <1>6, <1>7, <1>8 DEF Next

\* A process whose table is not the one that changes keeps what it holds.
LEMMA OthersHold ==
    ASSUME TypeOK, NEW t \in Proc, \A u \in Proc \ {t} : slots'[u] = slots[u],
           NEW p \in Proc, table[p] \in Proc \ {t}, table'[p] = table[p],
           waits'[p] = waits[p], Holds(p, waits[p].end)
    PROVE  Holds(p, waits[p].end)'
  BY DEF Holds, Get

\* Two processes that use a table count for two.
LEMMA TwoUsers ==
    ASSUME IndInv, killed = NULL, NEW p \in Proc, NEW r \in Proc, p # r,
           table[p] = table[r], table[p] \in Proc
    PROVE  handles_refcount[table[p]] > 1
<1>1. p \in Users[table[p]] /\ r \in Users[table[p]] /\ IsFiniteSet(Users[table[p]])
  BY FiniteUsers, PipeAssumption DEF Users
<1>2. handles_refcount[table[p]] = Cardinality(Users[table[p]]) /\ handles_refcount[table[p]] \in Nat
  BY DEF IndInv, TablesInv, TypeOK
<1>3. Cardinality(Users[table[p]]) # 0
  BY <1>1, FS_EmptySet
<1>4. Cardinality(Users[table[p]]) # 1
  BY <1>1, FS_Singleton
<1> QED BY <1>2, <1>3, <1>4

LEMMA CloseWaits ==
    ASSUME TypeOK, NEW e, NEW inc, handle_close(e, inc), NEW p \in Proc,
           state'[p] = "WAITS4PIPE"
    PROVE  waits'[p] = waits[p] /\ state[p] = "WAITS4PIPE"
  BY DEF handle_close

LEMMA LostEnd ==
    ASSUME IndInv, Next, slots' # slots,
           NEW p \in Proc \ {killed'}, state[p] = "WAITS4PIPE", state'[p] = "WAITS4PIPE",
           Holds(p, waits[p].end), ~Holds(p, waits[p].end)'
    PROVE  handles_refcount[table[p]] > 1
<1> USE PipeAssumption
<1>1. TypeOK /\ table[p] \in Proc
  BY RunnerHasTable DEF IndInv
<1>2. ASSUME NEW r \in Proc, Fork(r) PROVE FALSE
  <2>1. PICK c \in Proc :
          /\ state[c] = "NEW"
          /\ table'[p] = table[p] /\ \A u \in Proc \ {c} : slots'[u] = slots[u]
    BY <1>1, <1>2 DEF Fork, TypeOK
  <2>2. waits' = waits
    BY <1>2 DEF Fork
  <2>3. table[p] # c
    BY <2>1 DEF IndInv, TablesInv
  <2> QED BY <1>1, <2>1, <2>2, <2>3, OthersHold
<1>3. ASSUME NEW r \in Proc, Dup(r) \/ Close(r) PROVE handles_refcount[table[p]] > 1
  <2>1. state[r] = "RUNNING" /\ killed = NULL /\ table' = table
    BY <1>3 DEF Dup, Close, Running
  <2>2. \A u \in Proc \ {table[r]} : slots'[u] = slots[u]
    BY <1>1, <1>3 DEF Dup, Close, TypeOK
  <2>3. waits'[p] = waits[p]
    BY <1>1, <1>3, CloseWaits DEF Dup, Close
  <2>4. table[r] \in Proc
    BY <2>1, RunnerHasTable
  <2>5. table[p] = table[r]
    BY <1>1, <2>1, <2>2, <2>3, <2>4, OthersHold
  <2> QED BY <1>1, <2>1, <2>5, TwoUsers
<1>4. CASE KillClose
  <2>1. killed \in Proc /\ killed' = killed /\ table' = table
    BY <1>1, <1>4 DEF KillClose, TypeOK
  <2>2. table[killed] \in Proc /\ Users[table[killed]] = {}
    BY <1>1, <2>1 DEF IndInv, TablesInv, TypeOK
  <2>3. table[p] # table[killed]
    BY <2>1, <2>2 DEF Users
  <2>4. \A u \in Proc \ {table[killed]} : slots'[u] = slots[u]
    BY <1>1, <1>4 DEF KillClose, TypeOK
  <2>5. waits'[p] = waits[p]
    BY <1>1, <1>4, CloseWaits DEF KillClose
  <2> QED BY <1>1, <2>1, <2>2, <2>3, <2>4, <2>5, OthersHold
<1>5. ASSUME NEW r \in Proc, ReadWrite(r) \/ Kill(r) PROVE FALSE
  BY <1>5 DEF ReadWrite, Kill
<1>6. CASE KillEnd
  BY <1>6 DEF KillEnd
<1> QED BY <1>2, <1>3, <1>4, <1>5, <1>6 DEF Next

LEMMA NextEnds == IndInv /\ IndInv' /\ [Next]_vars => [EndStep]_vars
<1> SUFFICES ASSUME IndInv, IndInv', Next PROVE EndStep
  BY DEF vars
<1>1. ASSUME NEW e \in End, refcount'[e] = 0, NEW p \in Proc, InQueue(p, queued'[e])
      PROVE  p # killed' /\ state'[p] = "WAITS4PIPE" /\ ~Holds(p, e)'
  <2>1. PICK i \in DOMAIN queued'[e] : queued'[e][i] = p
    BY <1>1 DEF InQueue
  <2>2. WaitsFor(p, e)'
    BY <2>1 DEF IndInv, QueuesInv, WaitsFor
  <2>3. SlotsWith(slots', e) = {}
    <3>1. Cardinality(SlotsWith(slots', e)) = 0
      BY <1>1 DEF IndInv, SlotsInv
    <3>2. IsFiniteSet(Proc \X Hid)
      BY FS_Product, FiniteHids, PipeAssumption
    <3>3. IsFiniteSet(SlotsWith(slots', e))
      BY <3>2, FS_Subset DEF SlotsWith
    <3> QED BY <3>1, <3>3, FS_EmptySet
  <2>4. ASSUME Holds(p, e)' PROVE FALSE
    <3>1. table'[p] \in Proc
      BY <2>4 DEF Holds, IndInv, TypeOK
    <3>2. PICK h \in Hid : slots'[table'[p]][h] = e
      BY <2>4 DEF Holds, Get
    <3>3. <<table'[p], h>> \in SlotsWith(slots', e)
      BY <3>1, <3>2 DEF SlotsWith
    <3> QED BY <2>3, <3>3
  <2> QED BY <2>2, <2>4 DEF WaitsFor
<1> QED BY <1>1, LostEnd DEF EndStep

\* pipe_trytransfer serves in the order in which processes came and gives both
\* sides the same length, and handle_close comes to its failing assertion, that
\* nobody waits for an end that goes away, only if a process that shares the
\* table closes it.
THEOREM TransfersAlwaysExact == Spec => TransfersExact
<1>1. IndInv /\ [Next]_vars => IndInv'
  BY NextInd
<1> QED BY Inductive, <1>1, NextFair, NextEnds, PTL DEF Spec, TransfersExact, FairTransfer, EndLostOnlyIfShared

=============================================================================
