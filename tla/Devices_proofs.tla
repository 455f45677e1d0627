--------------------------- MODULE Devices_proofs ---------------------------
(***************************************************************************)
(* Proofs about the timer, src/kernel/arch/amd64/time.c, about the drivers *)
(* whose reads are postponed, and about IPv4 and the file system of the    *)
(* network stack, src/cmd/netstack, for any number of processes, devices,  *)
(* handles and hosts and any lengths of sleeps, reads and packets.         *)
(*                                                                         *)
(* TimerAlwaysSound: the list is the sleepers in the order of their goals  *)
(* and the comparator is armed for the first.  SleepsAreLongEnough: the    *)
(* interrupt wakes no process early, unless the product overflows.         *)
(* DriversAlwaysSound: no read waits next to bytes.  The invariant says    *)
(* who is in which queue (Waiting), what a ring and its only reader hold   *)
(* (CharOK), and which descriptors the network card has (InTurn).          *)
(* Ipv4AlwaysSound: packets are put together intact.  A list of fragments  *)
(* is of one packet, in order, and has a hole (Ipv4Inv).                   *)
(* NetfsAlwaysSound: datagrams are read in order and the ARP cache is      *)
(* current.  The invariant says what is queued for a handle (HandleInv),   *)
(* which handles have a connection (ConnsInv), and in which order the      *)
(* entries of the cache were announced (ArpInv).                           *)
(***************************************************************************)
EXTENDS Timer, Drivers, Ipv4, Netfs, SequenceTheorems, FiniteSetTheorems, NaturalsInduction, WellFoundedInduction, TLAPS

\* The list, state by state and goal by goal: only sleepers, each at one
\* place, all of them, in order.
Listed(list, st)   == \A i \in DOMAIN list : st[list[i]] = "WAITS4TIMER"
Once(list)         == \A i, j \in DOMAIN list : list[i] = list[j] => i = j
Complete(list, st) == \A p \in Sleeper : st[p] = "WAITS4TIMER" => \E i \in DOMAIN list : list[i] = p
Sorted(list, g)    == \A i, j \in DOMAIN list : i < j => g[list[i]] <= g[list[j]]
ListOK(list, st, g) ==
    /\ list \in Seq(Sleeper)
    /\ Listed(list, st) /\ Once(list) /\ Complete(list, st) /\ Sorted(list, g)

\* What hpet_sched leaves.
Armed(list, g, e, t) ==
    /\ e <=> list # <<>>
    /\ list # <<>> => t = g[list[1]]

\* The inductive invariant.
TimerInv == TypeOK /\ ListOK(scheduled, state, goal) /\ Armed(scheduled, goal, enabled, timval)

-----------------------------------------------------------------------------
(* The list.                                                                *)

LEMMA SmallestExists ==
    ASSUME NEW S \in SUBSET Nat, S # {}
    PROVE  \E x \in S : \A y \in S : x <= y
<1> DEFINE R == OpToRel(<, Nat)
<1>1. IsWellFoundedOn(R, Nat)
  BY NatLessThanWellFounded
<1>2. PICK x \in S : \A y \in S : <<y, x>> \notin R
  <2> HIDE DEF R
  <2> QED BY <1>1, WFMin
<1>3. \A y \in S : ~(y < x)
  BY <1>2 DEF OpToRel
<1> QED BY <1>3

LEMMA SeqFacts ==
    ASSUME NEW list \in Seq(Sleeper)
    PROVE  /\ Len(list) \in Nat /\ DOMAIN list = 1..Len(list)
           /\ \A i \in 1..Len(list) : list[i] \in Sleeper
           /\ list # <<>> <=> Len(list) > 0
           /\ list # <<>> => Head(list) = list[1]
OBVIOUS

\* The loop of timer_schedule stops, and where it stops it is the first
\* sleeper that is to be woken later that comes next.
LEMMA SlotIs ==
    ASSUME NEW list \in Seq(Sleeper), NEW time \in Nat, goal \in [Sleeper -> Nat]
    PROVE  /\ slot(list, time) \in 0..Len(list)
           /\ \A i \in 1..slot(list, time) : goal[list[i]] <= time
           /\ slot(list, time) < Len(list) => goal[list[slot(list, time) + 1]] > time
<1>1. Len(list) \in Nat /\ \A i \in 1..Len(list) : goal[list[i]] \in Nat
  BY SeqFacts
<1> DEFINE Late == {i \in 1..Len(list) : goal[list[i]] > time}
<1>3. \E k \in 0..Len(list) : /\ \A i \in 1..k : goal[list[i]] <= time
                              /\ k < Len(list) => goal[list[k + 1]] > time
  <2>1. CASE Late = {}
    <3>1. \A i \in 1..Len(list) : goal[list[i]] <= time
      <4> TAKE i \in 1..Len(list)
      <4>1. i \notin Late
        BY <2>1
      <4>2. ~(goal[list[i]] > time)
        BY <4>1
      <4> QED BY <1>1, <4>2
    <3>2. Len(list) \in 0..Len(list) /\ ~(Len(list) < Len(list))
      BY <1>1
    <3> QED BY <3>1, <3>2
  <2>2. CASE Late # {}
    <3>1. PICK m \in Late : \A k \in Late : m <= k
      <4>1. Late \in SUBSET Nat
        OBVIOUS
      <4> QED BY <2>2, <4>1, SmallestExists
    <3>2. m \in 1..Len(list) /\ goal[list[m]] > time
      OBVIOUS
    <3>3. \A i \in 1..(m - 1) : goal[list[i]] <= time
      <4> TAKE i \in 1..(m - 1)
      <4>1. i \in 1..Len(list) /\ i < m
        BY <1>1, <3>2
      <4>2. i \notin Late
        BY <3>1, <3>2, <4>1
      <4> QED BY <1>1, <4>1, <4>2
    <3>4. m - 1 \in 0..Len(list) /\ (m - 1) + 1 = m
      BY <1>1, <3>2
    <3> QED BY <3>2, <3>3, <3>4
  <2> QED BY <2>1, <2>2
<1> QED BY <1>3 DEF slot

LEMMA WithIs ==
    ASSUME NEW list \in Seq(Sleeper), NEW k \in 0..Len(list), NEW p \in Sleeper
    PROVE  /\ With(list, k, p) \in Seq(Sleeper)
           /\ Len(With(list, k, p)) = Len(list) + 1
           /\ \A i \in 1..k : With(list, k, p)[i] = list[i]
           /\ With(list, k, p)[k + 1] = p
           /\ \A i \in (k + 2)..(Len(list) + 1) : With(list, k, p)[i] = list[i - 1]
<1>1. Len(list) \in Nat /\ \A i \in 1..Len(list) : list[i] \in Sleeper
  BY SeqFacts
<1>2. With(list, k, p) \in [1..(Len(list) + 1) -> Sleeper]
  <2>1. ASSUME NEW i \in 1..(Len(list) + 1)
        PROVE  (IF i <= k THEN list[i] ELSE IF i = k + 1 THEN p ELSE list[i - 1]) \in Sleeper
    BY <1>1, <2>1
  <2> QED BY <2>1 DEF With
<1>3. With(list, k, p) \in Seq(Sleeper)
  BY <1>1, <1>2, SeqDef
<1>4. Len(With(list, k, p)) = Len(list) + 1
  BY <1>1 DEF With
<1>5. \A i \in 1..(Len(list) + 1) :
        With(list, k, p)[i] = IF i <= k THEN list[i] ELSE IF i = k + 1 THEN p ELSE list[i - 1]
  BY DEF With
<1> QED BY <1>1, <1>3, <1>4, <1>5

\* A process that is not asleep is put before the first that is to be woken
\* later: the list stays what it should be.
LEMMA WithKeeps ==
    ASSUME NEW list, NEW st, NEW g \in [Sleeper -> Nat], ListOK(list, st, g),
           NEW k \in 0..Len(list), NEW p \in Sleeper, st[p] # "WAITS4TIMER",
           NEW time \in Nat,
           \A i \in 1..k : g[list[i]] <= time,
           k < Len(list) => g[list[k + 1]] > time,
           NEW st2, st2[p] = "WAITS4TIMER", \A q \in Sleeper : q # p => st2[q] = st[q],
           NEW g2, g2[p] = time, \A q \in Sleeper : q # p => g2[q] = g[q]
    PROVE  ListOK(With(list, k, p), st2, g2)
<1>1. /\ list \in Seq(Sleeper)
      /\ Listed(list, st) /\ Once(list) /\ Complete(list, st) /\ Sorted(list, g)
  BY DEF ListOK
<1>2. /\ Len(list) \in Nat /\ DOMAIN list = 1..Len(list)
      /\ \A i \in 1..Len(list) : list[i] \in Sleeper /\ g[list[i]] \in Nat
  BY <1>1, SeqFacts
<1>3. PICK new : new = With(list, k, p)
  OBVIOUS
<1>4. /\ new \in Seq(Sleeper)
      /\ Len(new) = Len(list) + 1
      /\ \A i \in 1..k : new[i] = list[i]
      /\ new[k + 1] = p
      /\ \A i \in (k + 2)..(Len(list) + 1) : new[i] = list[i - 1]
  BY <1>1, <1>3, WithIs
<1>5. DOMAIN new = 1..(Len(list) + 1)
  BY <1>2, <1>4, SeqFacts
<1>6. \A i \in 1..Len(list) : list[i] # p
  BY <1>1, <1>2 DEF Listed
<1>7. \A i \in 1..Len(list) : st2[list[i]] = "WAITS4TIMER" /\ g2[list[i]] = g[list[i]]
  BY <1>1, <1>2, <1>6 DEF Listed
<1>8. \A i \in 1..(Len(list) + 1) :
        i \in 1..k \/ i = k + 1 \/ (i \in (k + 2)..(Len(list) + 1) /\ i - 1 \in 1..Len(list) /\ i - 1 > k)
  BY <1>2
<1>9. \A i \in 1..k : i \in 1..Len(list)
  BY <1>2
<1>10. Listed(new, st2)
  <2> SUFFICES ASSUME NEW i \in 1..(Len(list) + 1) PROVE st2[new[i]] = "WAITS4TIMER"
    BY <1>5 DEF Listed
  <2>1. CASE i \in 1..k
    BY <1>4, <1>7, <1>9, <2>1
  <2>2. CASE i = k + 1
    BY <1>4, <2>2
  <2>3. CASE i \in (k + 2)..(Len(list) + 1) /\ i - 1 \in 1..Len(list)
    BY <1>4, <1>7, <2>3
  <2> QED BY <1>8, <2>1, <2>2, <2>3
<1>11. Once(new)
  <2> SUFFICES ASSUME NEW i \in 1..(Len(list) + 1), NEW j \in 1..(Len(list) + 1), new[i] = new[j]
               PROVE  i = j
    BY <1>5 DEF Once
  <2>1. \A a, b \in 1..Len(list) : list[a] = list[b] => a = b
    BY <1>1, <1>2 DEF Once
  <2>2. CASE i \in 1..k
    <3>1. i \in 1..Len(list) /\ new[i] = list[i] /\ new[i] # p
      BY <1>4, <1>6, <1>9, <2>2
    <3>2. CASE j \in 1..k
      <4>1. j \in 1..Len(list) /\ new[j] = list[j]
        BY <1>4, <1>9, <3>2
      <4> QED BY <2>1, <3>1, <4>1
    <3>3. CASE j \in (k + 2)..(Len(list) + 1) /\ j - 1 \in 1..Len(list) /\ j - 1 > k
      <4>1. list[i] = list[j - 1]
        BY <1>4, <3>1, <3>3
      <4>2. i = j - 1
        BY <2>1, <3>1, <3>3, <4>1
      <4> QED BY <2>2, <3>3, <4>2
    <3>4. j # k + 1
      BY <1>4, <3>1
    <3> QED BY <1>8, <3>2, <3>3, <3>4
  <2>3. CASE i = k + 1
    BY <1>4, <1>6, <1>8, <1>9, <2>3
  <2>4. CASE i \in (k + 2)..(Len(list) + 1) /\ i - 1 \in 1..Len(list) /\ i - 1 > k
    <3>1. new[i] = list[i - 1] /\ new[i] # p
      BY <1>4, <1>6, <2>4
    <3>2. CASE j \in 1..k
      <4>1. list[i - 1] = list[j] /\ j \in 1..Len(list)
        BY <1>4, <1>9, <3>1, <3>2
      <4>2. i - 1 = j
        BY <2>1, <2>4, <4>1
      <4> QED BY <2>4, <3>2, <4>2
    <3>3. CASE j \in (k + 2)..(Len(list) + 1) /\ j - 1 \in 1..Len(list)
      <4>1. list[i - 1] = list[j - 1]
        BY <1>4, <3>1, <3>3
      <4>2. i - 1 = j - 1
        BY <2>1, <2>4, <3>3, <4>1
      <4> QED BY <4>2
    <3>4. j # k + 1
      BY <1>4, <3>1
    <3> QED BY <1>8, <3>2, <3>3, <3>4
  <2> QED BY <1>8, <2>2, <2>3, <2>4
<1>12. Complete(new, st2)
  <2> SUFFICES ASSUME NEW q \in Sleeper, st2[q] = "WAITS4TIMER"
               PROVE  \E i \in 1..(Len(list) + 1) : new[i] = q
    BY <1>5 DEF Complete
  <2>1. CASE q = p
    <3>1. k + 1 \in 1..(Len(list) + 1)
      BY <1>2
    <3> QED BY <1>4, <2>1, <3>1
  <2>2. CASE q # p
    <3>1. PICK i \in 1..Len(list) : list[i] = q
      BY <1>1, <1>2, <2>2 DEF Complete
    <3>2. CASE i <= k
      <4>1. i \in 1..k /\ i \in 1..(Len(list) + 1)
        BY <1>2, <3>2
      <4> QED BY <1>4, <3>1, <4>1
    <3>3. CASE i > k
      <4>1. i + 1 \in (k + 2)..(Len(list) + 1) /\ i + 1 \in 1..(Len(list) + 1) /\ (i + 1) - 1 = i
        BY <1>2, <3>3
      <4>2. new[i + 1] = list[(i + 1) - 1]
        BY <1>4, <4>1
      <4> QED BY <3>1, <4>1, <4>2
    <3> QED BY <1>2, <3>2, <3>3
  <2> QED BY <2>1, <2>2
<1>13. Sorted(new, g2)
  <2> SUFFICES ASSUME NEW i \in 1..(Len(list) + 1), NEW j \in 1..(Len(list) + 1), i < j
               PROVE  g2[new[i]] <= g2[new[j]]
    BY <1>5 DEF Sorted
  <2>1. \A a, b \in 1..Len(list) : a < b => g[list[a]] <= g[list[b]]
    BY <1>1, <1>2 DEF Sorted
  <2>2. \A a \in 1..Len(list) : a > k => g[list[a]] > time
    <3> SUFFICES ASSUME NEW a \in 1..Len(list), a > k PROVE g[list[a]] > time
      OBVIOUS
    <3>1. k < Len(list) /\ k + 1 \in 1..Len(list) /\ (a = k + 1 \/ k + 1 < a)
      BY <1>2
    <3>2. g[list[k + 1]] > time
      BY <3>1
    <3>3. g[list[k + 1]] <= g[list[a]]
      BY <1>2, <2>1, <3>1
    <3>4. g[list[a]] \in Nat /\ g[list[k + 1]] \in Nat
      BY <1>2, <3>1
    <3> QED BY <3>2, <3>3, <3>4
  <2>3. CASE j \in 1..k
    <3>1. i \in 1..k
      BY <2>3
    <3>2. new[i] = list[i] /\ new[j] = list[j]
      BY <1>4, <2>3, <3>1
    <3>3. i \in 1..Len(list) /\ j \in 1..Len(list)
      BY <1>9, <2>3, <3>1
    <3> QED BY <1>7, <2>1, <3>2, <3>3
  <2>4. CASE j = k + 1
    <3>1. i \in 1..k
      BY <2>4
    <3> QED BY <1>4, <1>7, <1>9, <2>4, <3>1
  <2>5. CASE j \in (k + 2)..(Len(list) + 1) /\ j - 1 \in 1..Len(list) /\ j - 1 > k
    <3>1. g2[new[j]] = g[list[j - 1]] /\ g[list[j - 1]] > time /\ g[list[j - 1]] \in Nat
      BY <1>2, <1>4, <1>7, <2>2, <2>5
    <3>2. CASE i \in 1..k
      <4>1. i \in 1..Len(list) /\ new[i] = list[i]
        BY <1>4, <1>9, <3>2
      <4>2. i < j - 1
        BY <2>5, <3>2
      <4>3. g2[new[i]] = g[list[i]] /\ i \in 1..Len(list) /\ i < j - 1
        BY <1>7, <4>1, <4>2
      <4> QED BY <2>1, <2>5, <3>1, <4>3
    <3>3. CASE i = k + 1
      <4>1. g2[new[i]] = time
        BY <1>4, <3>3
      <4> QED BY <3>1, <4>1
    <3>4. CASE i \in (k + 2)..(Len(list) + 1) /\ i - 1 \in 1..Len(list)
      <4>1. g2[new[i]] = g[list[i - 1]]
        BY <1>4, <1>7, <3>4
      <4>2. i - 1 < j - 1
        OBVIOUS
      <4> QED BY <2>1, <2>5, <3>1, <3>4, <4>1, <4>2
    <3> QED BY <1>8, <3>2, <3>3, <3>4
  <2> QED BY <1>8, <2>3, <2>4, <2>5
<1> QED BY <1>3, <1>4, <1>10, <1>11, <1>12, <1>13 DEF ListOK

\* The list without what is at place k, as timer_deschedule and hpet_irq
\* leave it.
SameBut(f, f2, p)     == \A q \in Sleeper : q # p => f2[q] = f[q]
SameHead(list, g, g2) == list # <<>> => g2[list[1]] = g[list[1]]
Cut(list, k) == [i \in 1..(Len(list) - 1) |-> IF i < k THEN list[i] ELSE list[i + 1]]

LEMMA CutKeeps ==
    ASSUME NEW list, NEW st, NEW g \in [Sleeper -> Nat], ListOK(list, st, g),
           NEW k \in 1..Len(list),
           NEW st2, st2[list[k]] # "WAITS4TIMER", SameBut(st, st2, list[k]),
           NEW g2, SameBut(g, g2, list[k])
    PROVE  /\ ListOK(Cut(list, k), st2, g2)
           /\ SameHead(Cut(list, k), g, g2)
<1>0. PICK p : p = list[k] /\ st2[p] # "WAITS4TIMER" /\ SameBut(st, st2, p) /\ SameBut(g, g2, p)
  OBVIOUS
<1>1. /\ list \in Seq(Sleeper)
      /\ Listed(list, st) /\ Once(list) /\ Complete(list, st) /\ Sorted(list, g)
  BY DEF ListOK
<1>2. /\ Len(list) \in Nat /\ DOMAIN list = 1..Len(list)
      /\ \A i \in 1..Len(list) : list[i] \in Sleeper /\ g[list[i]] \in Nat
  BY <1>1, SeqFacts
<1>3. PICK new : new = Cut(list, k)
  OBVIOUS
<1>4. PICK n \in Nat : n = Len(list) - 1 /\ Len(list) = n + 1
  <2>1. Len(list) - 1 \in Nat /\ Len(list) = (Len(list) - 1) + 1
    BY <1>2
  <2> QED BY <2>1
<1>5. \A i \in 1..n : i \in 1..Len(list) /\ i + 1 \in 1..Len(list)
  BY <1>4
<1>6. \A i \in 1..n : new[i] = IF i < k THEN list[i] ELSE list[i + 1]
  BY <1>3, <1>4 DEF Cut
<1>7. new \in [1..n -> Sleeper]
  BY <1>2, <1>3, <1>4, <1>5 DEF Cut
<1>8. new \in Seq(Sleeper) /\ DOMAIN new = 1..n
  BY <1>4, <1>7, SeqDef
\* Where the elements of the new list were.
<1>9. DEFINE old(i) == IF i < k THEN i ELSE i + 1
<1>10. \A i \in 1..n : old(i) \in 1..Len(list) /\ old(i) # k /\ new[i] = list[old(i)]
  BY <1>4, <1>5, <1>6
<1>11. \A i, j \in 1..n : (i < j => old(i) < old(j)) /\ (old(i) = old(j) => i = j)
  OBVIOUS
<1>12. \A i \in 1..Len(list) : i # k => \E j \in 1..n : old(j) = i
  <2> SUFFICES ASSUME NEW i \in 1..Len(list), i # k PROVE \E j \in 1..n : old(j) = i
    OBVIOUS
  <2>1. CASE i < k
    <3>1. i \in 1..n
      BY <1>4, <2>1
    <3> QED BY <2>1, <3>1
  <2>2. CASE i > k
    <3>1. i - 1 \in 1..n /\ ~(i - 1 < k) /\ (i - 1) + 1 = i
      BY <1>4, <2>2
    <3> QED BY <3>1
  <2> QED BY <1>2, <2>1, <2>2
<1> HIDE DEF old
<1>13. \A i \in 1..Len(list) : i # k =>
           list[i] # p /\ st2[list[i]] = "WAITS4TIMER" /\ g2[list[i]] = g[list[i]]
  <2> SUFFICES ASSUME NEW i \in 1..Len(list), i # k
               PROVE  list[i] # p /\ st2[list[i]] = "WAITS4TIMER" /\ g2[list[i]] = g[list[i]]
    OBVIOUS
  <2>1. list[i] # p /\ list[i] \in Sleeper
    BY <1>0, <1>1, <1>2 DEF Once
  <2>2. st[list[i]] = "WAITS4TIMER"
    BY <1>1, <1>2 DEF Listed
  <2> QED BY <1>0, <2>1, <2>2 DEF SameBut
<1>14. Listed(new, st2)
  BY <1>8, <1>10, <1>13 DEF Listed
<1>15. Once(new)
  <2> SUFFICES ASSUME NEW i \in 1..n, NEW j \in 1..n, new[i] = new[j] PROVE i = j
    BY <1>8 DEF Once
  <2>1. old(i) = old(j)
    BY <1>1, <1>2, <1>10 DEF Once
  <2> QED BY <1>11, <2>1
<1>16. Complete(new, st2)
  <2> SUFFICES ASSUME NEW q \in Sleeper, st2[q] = "WAITS4TIMER" PROVE \E i \in 1..n : new[i] = q
    BY <1>8 DEF Complete
  <2>1. q # p /\ st[q] = "WAITS4TIMER"
    BY <1>0 DEF SameBut
  <2>2. PICK i \in 1..Len(list) : list[i] = q
    BY <1>1, <1>2, <2>1 DEF Complete
  <2>3. i # k
    BY <1>0, <2>1, <2>2
  <2> QED BY <1>10, <1>12, <2>2, <2>3
<1>17. Sorted(new, g2)
  <2> SUFFICES ASSUME NEW i \in 1..n, NEW j \in 1..n, i < j PROVE g2[new[i]] <= g2[new[j]]
    BY <1>8 DEF Sorted
  <2>1. old(i) < old(j) /\ old(i) \in 1..Len(list) /\ old(j) \in 1..Len(list)
    BY <1>10, <1>11
  <2>2. g[list[old(i)]] <= g[list[old(j)]]
    BY <1>1, <1>2, <2>1 DEF Sorted
  <2>3. g2[new[i]] = g[list[old(i)]] /\ g2[new[j]] = g[list[old(j)]]
    BY <1>10, <1>13
  <2> QED BY <2>2, <2>3
<1>18. new # <<>> => g2[new[1]] = g[new[1]]
  <2> SUFFICES ASSUME new # <<>> PROVE g2[new[1]] = g[new[1]]
    OBVIOUS
  <2>1. 1 \in 1..n
    BY <1>7, <1>8, SeqFacts
  <2> QED BY <1>10, <1>13, <2>1
<1> QED BY <1>3, <1>8, <1>14, <1>15, <1>16, <1>17, <1>18 DEF ListOK, SameHead

-----------------------------------------------------------------------------
(* The times.                                                               *)

LEMMA TicksAreNat ==
    ASSUME NEW ms \in Ms
    PROVE  ticks(ms) \in Nat /\ ticks(ms) < Modulus
<1>1. /\ ms \in Nat /\ NsPerMs \in Nat /\ FsPerNs \in Nat
      /\ hpet_period \in Nat /\ hpet_period > 0 /\ Modulus \in Nat /\ Modulus > 0
  BY TimerAssumption
<1>2. PICK a : a = (ms * NsPerMs) % Modulus
  OBVIOUS
<1>3. ms * NsPerMs \in Nat
  BY <1>1
<1>4. a \in Nat
  BY <1>1, <1>2, <1>3
<1>5. a * FsPerNs \in Nat
  BY <1>1, <1>4
<1>6. PICK b : b = (a * FsPerNs) % Modulus
  OBVIOUS
<1>7. b \in Nat /\ b < Modulus
  BY <1>1, <1>5, <1>6
<1>8. b \div hpet_period \in Nat /\ b \div hpet_period <= b
  BY <1>1, <1>7
<1>9. ticks(ms) = b \div hpet_period
  BY <1>2, <1>6 DEF ticks
<1> QED BY <1>1, <1>7, <1>8, <1>9

LEMMA ModSmall ==
    ASSUME NEW a \in Nat, NEW m \in Nat, a < m
    PROVE  a % m = a
BY SMT

LEMMA WakeupIs ==
    ASSUME NEW ms \in Ms, counter \in 0..MaxNow
    PROVE  /\ wakeup(ms) \in 0..Max64
           /\ counter + ticks(ms) <= Max64 => wakeup(ms) = counter + ticks(ms)
           /\ counter + ticks(ms) > Max64 => wakeup(ms) = Max64
<1>1. /\ counter \in Nat /\ counter < Modulus /\ Modulus \in Nat /\ Modulus > 0
  BY TimerAssumption
<1>2. PICK t \in Nat : t = ticks(ms) /\ t < Modulus
  BY TicksAreNat
<1>3. PICK sum : sum = (counter + t) % Modulus
  OBVIOUS
<1>4. counter + t < Modulus => sum = counter + t
  <2>1. counter + t \in Nat
    BY <1>1, <1>2
  <2> QED BY <1>1, <1>3, <2>1, ModSmall
<1>5. counter + t >= Modulus => sum = counter + t - Modulus
  <2> SUFFICES ASSUME counter + t >= Modulus PROVE sum = counter + t - Modulus
    OBVIOUS
  <2>1. counter + t < 2 * Modulus
    BY <1>1, <1>2
  <2> QED BY <1>1, <1>2, <1>3, <2>1
<1>6. wakeup(ms) = IF sum < counter THEN Modulus - 1 ELSE sum
  BY <1>2, <1>3 DEF wakeup, Max64
<1>7. \/ counter + t < Modulus /\ wakeup(ms) = counter + t
      \/ counter + t >= Modulus /\ wakeup(ms) = Modulus - 1
  <2>1. CASE counter + t < Modulus
    BY <1>1, <1>2, <1>4, <1>6, <2>1
  <2>2. CASE counter + t >= Modulus
    <3>1. sum < counter
      BY <1>1, <1>2, <1>5, <2>2
    <3> QED BY <1>6, <2>2, <3>1
  <2> QED BY <1>1, <1>2, <2>1, <2>2
<1>8. wakeup(ms) \in 0..(Modulus - 1)
  BY <1>1, <1>2, <1>7
<1> QED BY <1>1, <1>2, <1>7, <1>8 DEF Max64

-----------------------------------------------------------------------------
(* The list and the comparator.                                             *)

LEMMA TimerTypes ==
    ASSUME TypeOK
    PROVE  /\ state \in [Sleeper -> {"RUNNING", "WAITS4TIMER", "DEAD"}]
           /\ goal \in [Sleeper -> 0..Max64] /\ goal \in [Sleeper -> Nat]
           /\ deadline \in [Sleeper -> Nat]
           /\ Max64 \in Nat /\ counter \in Nat /\ counter <= MaxNow
<1>1. Max64 \in Nat
  BY TimerAssumption DEF Max64
<1> QED BY <1>1, TimerAssumption DEF TypeOK

LEMMA InitTimer == Init => TimerInv
<1> SUFFICES ASSUME Init PROVE TimerInv
  OBVIOUS
<1>1. Max64 \in Nat /\ MaxNow \in Nat
  BY TimerAssumption DEF Max64
<1>2. TypeOK
  <2>1. scheduled \in Seq(Sleeper)
    BY DEF Init
  <2>2. state \in [Sleeper -> {"RUNNING", "WAITS4TIMER", "DEAD"}]
    BY DEF Init
  <2>3. goal \in [Sleeper -> 0..Max64] /\ deadline \in [Sleeper -> Nat]
    BY <1>1 DEF Init
  <2>4. counter \in 0..MaxNow /\ timval \in 0..Max64
    BY <1>1 DEF Init
  <2>5. enabled \in BOOLEAN /\ pending \in BOOLEAN
    BY DEF Init
  <2> QED BY <2>1, <2>2, <2>3, <2>4, <2>5 DEF TypeOK
<1>3. scheduled = <<>> /\ DOMAIN scheduled = {} /\ \A p \in Sleeper : state[p] = "RUNNING"
  BY DEF Init
<1>4. ListOK(scheduled, state, goal)
  BY <1>3 DEF ListOK, Listed, Once, Complete, Sorted
<1>5. Armed(scheduled, goal, enabled, timval)
  BY DEF Init, Armed
<1> QED BY <1>2, <1>4, <1>5 DEF TimerInv

LEMMA SleepKeeps ==
    ASSUME TimerInv, NEW p \in Sleeper, Sleep(p)
    PROVE  TimerInv'
<1>1. TypeOK /\ ListOK(scheduled, state, goal)
  BY DEF TimerInv
<1>2. /\ state \in [Sleeper -> {"RUNNING", "WAITS4TIMER", "DEAD"}]
      /\ goal \in [Sleeper -> 0..Max64] /\ goal \in [Sleeper -> Nat]
      /\ deadline \in [Sleeper -> Nat]
      /\ Max64 \in Nat /\ counter \in Nat /\ counter \in 0..MaxNow /\ scheduled \in Seq(Sleeper)
  BY <1>1, TimerTypes DEF TypeOK
<1>3. PICK ms \in Ms :
        LET time  == wakeup(ms)
            ideal == counter + (ms * NsPerMs * FsPerNs) \div hpet_period
        IN
        /\ state' = [state EXCEPT ![p] = "WAITS4TIMER"]
        /\ goal' = [goal EXCEPT ![p] = time]
        /\ deadline' = [deadline EXCEPT ![p] = IF ideal > Max64 THEN Max64 ELSE ideal]
        /\ scheduled' = With(scheduled, slot(scheduled, time), p)
        /\ hpet_sched(scheduled', goal')
  BY DEF Sleep
<1>4. state[p] = "RUNNING" /\ counter' = counter
  BY DEF Sleep
<1>5. PICK time : time = wakeup(ms)
  OBVIOUS
<1>6. PICK k : k = slot(scheduled, time)
  OBVIOUS
<1>7. time \in 0..Max64 /\ time \in Nat
  BY <1>2, <1>5, WakeupIs
<1>8. /\ k \in 0..Len(scheduled)
      /\ \A i \in 1..k : goal[scheduled[i]] <= time
      /\ k < Len(scheduled) => goal[scheduled[k + 1]] > time
  BY <1>2, <1>6, <1>7, SlotIs
<1>9. /\ state' = [state EXCEPT ![p] = "WAITS4TIMER"]
      /\ goal' = [goal EXCEPT ![p] = time]
      /\ scheduled' = With(scheduled, k, p)
  BY <1>3, <1>5, <1>6
<1>10. /\ state'[p] = "WAITS4TIMER" /\ \A q \in Sleeper : q # p => state'[q] = state[q]
       /\ goal'[p] = time /\ \A q \in Sleeper : q # p => goal'[q] = goal[q]
  BY <1>2, <1>9
<1>11. ListOK(scheduled', state', goal')
  <2>1. state[p] # "WAITS4TIMER"
    BY <1>4
  <2>2. ListOK(With(scheduled, k, p), state', goal')
    BY <1>1, <1>2, <1>7, <1>8, <1>10, <2>1, WithKeeps
  <2> QED BY <1>9, <2>2
<1>12. scheduled' \in Seq(Sleeper) /\ scheduled'# <<>>
  <2>1. scheduled' \in Seq(Sleeper) /\ Len(scheduled') = Len(scheduled) + 1 /\ Len(scheduled) \in Nat
    BY <1>2, <1>8, <1>9, WithIs, SeqFacts
  <2> QED BY <2>1, SeqFacts
<1>13. enabled' = TRUE /\ timval' = goal'[Head(scheduled')] /\ pending' = FALSE
  BY <1>3, <1>12 DEF hpet_sched
<1>14. Head(scheduled') = scheduled'[1] /\ scheduled'[1] \in Sleeper
  BY <1>12, SeqFacts
<1>15. goal' \in [Sleeper -> 0..Max64] /\ state' \in [Sleeper -> {"RUNNING", "WAITS4TIMER", "DEAD"}]
  BY <1>2, <1>7, <1>9
<1>16. deadline' \in [Sleeper -> Nat]
  <2>1. PICK ideal : ideal = counter + (ms * NsPerMs * FsPerNs) \div hpet_period
    OBVIOUS
  <2>2. /\ ms \in Nat /\ NsPerMs \in Nat /\ FsPerNs \in Nat
        /\ hpet_period \in Nat /\ hpet_period > 0
    BY TimerAssumption
  <2>3. ms * NsPerMs * FsPerNs \in Nat
    BY <2>2
  <2>4. (ms * NsPerMs * FsPerNs) \div hpet_period \in Nat
    BY <2>2, <2>3
  <2>5. ideal \in Nat
    BY <1>2, <2>1, <2>4
  <2>6. deadline' = [deadline EXCEPT ![p] = IF ideal > Max64 THEN Max64 ELSE ideal]
    BY <1>3, <2>1
  <2> QED BY <1>2, <2>5, <2>6
<1>17. TypeOK'
  <2>1. timval' \in 0..Max64
    BY <1>13, <1>14, <1>15
  <2> QED BY <1>2, <1>4, <1>12, <1>13, <1>15, <1>16, <2>1 DEF TypeOK
<1>18. Armed(scheduled', goal', enabled', timval')
  BY <1>12, <1>13, <1>14 DEF Armed
<1> QED BY <1>11, <1>17, <1>18 DEF TimerInv

\* One sleeper is taken out, whatever becomes of it, and the comparator is
\* set for the first of the rest.
Removal(k) ==
    /\ \E s \in {"RUNNING", "DEAD"} : state' = [state EXCEPT ![scheduled[k]] = s]
    /\ goal' = [goal EXCEPT ![scheduled[k]] = 0]
    /\ deadline' = [deadline EXCEPT ![scheduled[k]] = 0]
    /\ scheduled' = Cut(scheduled, k)
    /\ hpet_sched(scheduled', goal)
    /\ UNCHANGED counter

LEMMA RemovalKeeps ==
    ASSUME TimerInv, NEW k \in 1..Len(scheduled), Removal(k)
    PROVE  TimerInv'
<1>1. TypeOK /\ ListOK(scheduled, state, goal)
  BY DEF TimerInv
<1>2. /\ state \in [Sleeper -> {"RUNNING", "WAITS4TIMER", "DEAD"}]
      /\ goal \in [Sleeper -> 0..Max64] /\ goal \in [Sleeper -> Nat]
      /\ deadline \in [Sleeper -> Nat]
      /\ Max64 \in Nat /\ counter \in 0..MaxNow /\ scheduled \in Seq(Sleeper)
      /\ timval \in 0..Max64
  BY <1>1, TimerTypes DEF TypeOK
<1>3. PICK p \in Sleeper : p = scheduled[k]
  BY <1>2, SeqFacts
<1>4. /\ state'[p] # "WAITS4TIMER" /\ \A q \in Sleeper : q # p => state'[q] = state[q]
      /\ \A q \in Sleeper : q # p => goal'[q] = goal[q]
  BY <1>2, <1>3 DEF Removal
<1>5. /\ ListOK(scheduled', state', goal')
      /\ scheduled' # <<>> => goal'[scheduled'[1]] = goal[scheduled'[1]]
  <2>1. /\ state'[scheduled[k]] # "WAITS4TIMER"
        /\ SameBut(state, state', scheduled[k]) /\ SameBut(goal, goal', scheduled[k])
    BY <1>3, <1>4 DEF SameBut
  <2>2. ListOK(Cut(scheduled, k), state', goal') /\ SameHead(Cut(scheduled, k), goal, goal')
    BY <1>1, <1>2, <2>1, CutKeeps
  <2>3. scheduled' = Cut(scheduled, k)
    BY DEF Removal
  <2> QED BY <2>2, <2>3 DEF SameHead
<1>6. scheduled' \in Seq(Sleeper)
  BY <1>5 DEF ListOK
<1>7. scheduled' # <<>> => Head(scheduled') = scheduled'[1] /\ scheduled'[1] \in Sleeper
  BY <1>6, SeqFacts
<1>8. Armed(scheduled', goal', enabled', timval')
  BY <1>5, <1>7 DEF Removal, hpet_sched, Armed
<1>9. enabled' \in BOOLEAN /\ pending' = FALSE /\ timval' \in 0..Max64
  <2>1. /\ IF scheduled' = <<>> THEN enabled' = FALSE /\ UNCHANGED timval
           ELSE enabled' = TRUE /\ timval' = goal[Head(scheduled')]
        /\ pending' = FALSE
    BY DEF Removal, hpet_sched
  <2>2. CASE scheduled' = <<>>
    BY <1>2, <2>1, <2>2
  <2>3. CASE scheduled' # <<>>
    BY <1>2, <1>7, <2>1, <2>3
  <2> QED BY <2>2, <2>3
<1>10. /\ state' \in [Sleeper -> {"RUNNING", "WAITS4TIMER", "DEAD"}]
       /\ goal' \in [Sleeper -> 0..Max64] /\ deadline' \in [Sleeper -> Nat]
  BY <1>2 DEF Removal
<1>11. TypeOK'
  <2>1. counter' = counter
    BY DEF Removal
  <2> QED BY <1>2, <1>6, <1>9, <1>10, <2>1 DEF TypeOK
<1> QED BY <1>5, <1>8, <1>11 DEF TimerInv

LEMMA DescheduleKeeps ==
    ASSUME TimerInv, NEW p \in Sleeper, Deschedule(p)
    PROVE  TimerInv'
<1>1. ListOK(scheduled, state, goal) /\ scheduled \in Seq(Sleeper)
  BY DEF TimerInv, ListOK
<1>2. DOMAIN scheduled = 1..Len(scheduled) /\ state[p] = "WAITS4TIMER"
  BY <1>1, SeqFacts DEF Deschedule
<1>3. \E k \in DOMAIN scheduled : scheduled[k] = p
  BY <1>1, <1>2 DEF ListOK, Complete
<1>4. PICK k : k = CHOOSE j \in DOMAIN scheduled : scheduled[j] = p
  OBVIOUS
<1>5. k \in 1..Len(scheduled) /\ scheduled[k] = p
  BY <1>2, <1>3, <1>4
<1>6. Without(scheduled, p) = Cut(scheduled, k)
  BY <1>4 DEF Without, Cut
<1>7. Removal(k)
  BY <1>5, <1>6 DEF Deschedule, Removal
<1> QED BY <1>5, <1>7, RemovalKeeps

LEMMA ExitKeeps ==
    ASSUME TimerInv, NEW p \in Sleeper, Exit(p)
    PROVE  TimerInv'
<1>1. TypeOK /\ ListOK(scheduled, state, goal)
  BY DEF TimerInv
<1>2. TypeOK'
  BY <1>1 DEF Exit, TypeOK
<1>3. \A q \in Sleeper : state'[q] = "WAITS4TIMER" <=> state[q] = "WAITS4TIMER"
  BY <1>1 DEF Exit, TypeOK
<1>4. scheduled' = scheduled /\ goal' = goal /\ enabled' = enabled /\ timval' = timval
  BY DEF Exit
<1>5. \A i \in DOMAIN scheduled : scheduled[i] \in Sleeper
  BY <1>1, SeqFacts DEF ListOK
<1>6. ListOK(scheduled, state', goal)
  BY <1>1, <1>3, <1>5 DEF ListOK, Listed, Complete
<1>7. ListOK(scheduled', state', goal') /\ Armed(scheduled', goal', enabled', timval')
  BY <1>4, <1>6 DEF TimerInv
<1> QED BY <1>2, <1>7 DEF TimerInv

\* The interrupt: the first is taken out, or only the comparator is set.
LEMMA IrqKeeps ==
    ASSUME TimerInv, hpet_irq
    PROVE  TimerInv'
<1>1. TypeOK /\ ListOK(scheduled, state, goal) /\ scheduled \in Seq(Sleeper)
  BY DEF TimerInv, ListOK
<1>2. CASE scheduled # <<>> /\ goal[Head(scheduled)] < counter
  <2>1. 1 \in 1..Len(scheduled) /\ Head(scheduled) = scheduled[1]
    BY <1>1, <1>2, SeqFacts
  <2>2. Tail(scheduled) = Cut(scheduled, 1)
    <3>1. PICK n \in Nat : n = Len(scheduled) - 1 /\ Len(scheduled) = n + 1
      <4>1. Len(scheduled) - 1 \in Nat /\ Len(scheduled) = (Len(scheduled) - 1) + 1
        BY <1>1, <2>1, SeqFacts
      <4> QED BY <4>1
    <3>2. /\ Tail(scheduled) \in Seq(Sleeper) /\ Len(Tail(scheduled)) = n
          /\ \A i \in 1..n : Tail(scheduled)[i] = scheduled[i + 1]
      BY <1>1, <1>2, <3>1, HeadTailProperties
    <3>3. \A i \in 1..n : ~(i < 1) /\ i + 1 \in 1..Len(scheduled) /\ scheduled[i + 1] \in Sleeper
      BY <1>1, <3>1, SeqFacts
    <3>4. /\ Cut(scheduled, 1) \in [1..n -> Sleeper]
          /\ \A i \in 1..n : Cut(scheduled, 1)[i] = scheduled[i + 1]
      BY <3>1, <3>3 DEF Cut
    <3>5. Cut(scheduled, 1) \in Seq(Sleeper) /\ Len(Cut(scheduled, 1)) = n
      <4>1. Cut(scheduled, 1) \in Seq(Sleeper)
        BY <3>1, <3>4, SeqDef
      <4>2. DOMAIN Cut(scheduled, 1) = 1..n
        BY <3>4
      <4> QED BY <3>1, <4>1, <4>2, LenProperties
    <3> QED BY <3>2, <3>4, <3>5, SeqEqual
  <2>3. /\ state' = [state EXCEPT ![scheduled[1]] = "RUNNING"]
        /\ goal' = [goal EXCEPT ![scheduled[1]] = 0]
        /\ deadline' = [deadline EXCEPT ![scheduled[1]] = 0]
        /\ scheduled' = Cut(scheduled, 1)
        /\ hpet_sched(scheduled', goal)
        /\ UNCHANGED counter
    BY <1>2, <2>1, <2>2 DEF hpet_irq
  <2>4. Removal(1)
    BY <2>3 DEF Removal
  <2> QED BY <2>1, <2>4, RemovalKeeps
<1>3. CASE ~(scheduled # <<>> /\ goal[Head(scheduled)] < counter)
  <2>1. /\ state' = state /\ goal' = goal /\ deadline' = deadline /\ scheduled' = scheduled
        /\ counter' = counter /\ hpet_sched(scheduled', goal)
    BY <1>3 DEF hpet_irq
  <2>2. /\ IF scheduled = <<>> THEN enabled' = FALSE /\ UNCHANGED timval
           ELSE enabled' = TRUE /\ timval' = goal[Head(scheduled)]
        /\ pending' = FALSE
    BY <2>1 DEF hpet_sched
  <2>3. scheduled # <<>> => Head(scheduled) = scheduled[1] /\ scheduled[1] \in Sleeper
    BY <1>1, SeqFacts
  <2>4. Armed(scheduled, goal, enabled', timval')
    BY <2>2, <2>3 DEF Armed
  <2>5. enabled' \in BOOLEAN /\ timval' \in 0..Max64
    <3>1. timval \in 0..Max64 /\ goal \in [Sleeper -> 0..Max64]
      BY <1>1 DEF TypeOK
    <3>2. CASE scheduled = <<>>
      BY <2>2, <3>1, <3>2
    <3>3. CASE scheduled # <<>>
      BY <2>2, <2>3, <3>1, <3>3
    <3> QED BY <3>2, <3>3
  <2>6. TypeOK'
    BY <1>1, <2>1, <2>2, <2>5 DEF TypeOK
  <2> QED BY <1>1, <2>1, <2>4, <2>6 DEF TimerInv
<1> QED BY <1>2, <1>3

LEMMA TimerStep == TimerInv /\ [Next]_vars => TimerInv'
<1> SUFFICES ASSUME TimerInv, [Next]_vars PROVE TimerInv'
  OBVIOUS
<1>1. ASSUME NEW p \in Sleeper, Sleep(p) PROVE TimerInv'
  BY <1>1, SleepKeeps
<1>2. ASSUME NEW p \in Sleeper, Deschedule(p) PROVE TimerInv'
  BY <1>2, DescheduleKeeps
<1>3. ASSUME NEW p \in Sleeper, Exit(p) PROVE TimerInv'
  BY <1>3, ExitKeeps
<1>4. CASE Tick
  <2>1. counter' \in 0..MaxNow
    BY <1>4, TimerAssumption DEF Tick, TimerInv, TypeOK
  <2>2. UNCHANGED <<state, goal, deadline, scheduled, timval, enabled, pending>>
    BY <1>4 DEF Tick
  <2> QED BY <2>1, <2>2 DEF TimerInv, TypeOK
<1>5. CASE Raise
  BY <1>5 DEF Raise, TimerInv, TypeOK
<1>6. CASE hpet_irq
  BY <1>6, IrqKeeps
<1>7. CASE UNCHANGED vars
  BY <1>7 DEF vars, TimerInv, TypeOK
<1> QED BY <1>1, <1>2, <1>3, <1>4, <1>5, <1>6, <1>7 DEF Next

LEMMA TimerInvAlways == Spec => []TimerInv
<1> QED BY InitTimer, TimerStep, PTL DEF Spec

LEMMA TimerInvSound == TimerInv => TimerSound
<1> SUFFICES ASSUME TimerInv PROVE TimerSound
  OBVIOUS
<1>1. /\ TypeOK /\ scheduled \in Seq(Sleeper)
      /\ Listed(scheduled, state) /\ Once(scheduled) /\ Complete(scheduled, state) /\ Sorted(scheduled, goal)
      /\ Armed(scheduled, goal, enabled, timval)
  BY DEF TimerInv, ListOK
<1>2. /\ goal \in [Sleeper -> Nat] /\ Len(scheduled) \in Nat /\ DOMAIN scheduled = 1..Len(scheduled)
      /\ \A i \in 1..Len(scheduled) : scheduled[i] \in Sleeper
      /\ scheduled # <<>> <=> Len(scheduled) > 0
  BY <1>1, TimerTypes, SeqFacts
<1>3. ASSUME NEW p \in Sleeper
      PROVE  Cardinality({i \in DOMAIN scheduled : scheduled[i] = p}) =
                 IF state[p] = "WAITS4TIMER" THEN 1 ELSE 0
  <2>1. CASE state[p] = "WAITS4TIMER"
    <3>1. PICK i \in DOMAIN scheduled : scheduled[i] = p
      BY <1>1, <2>1 DEF Complete
    <3>2. {j \in DOMAIN scheduled : scheduled[j] = p} = {i}
      BY <1>1, <3>1 DEF Once
    <3> QED BY <2>1, <3>2, FS_Singleton
  <2>2. CASE state[p] # "WAITS4TIMER"
    <3>1. {j \in DOMAIN scheduled : scheduled[j] = p} = {}
      BY <1>1, <2>2 DEF Listed
    <3> QED BY <2>2, <3>1, FS_EmptySet
  <2> QED BY <2>1, <2>2
<1>4. ScheduleOK
  BY <1>1, <1>3 DEF ScheduleOK, Sorted
<1>5. ASSUME NEW p \in Sleeper, state[p] = "WAITS4TIMER" PROVE timval <= goal[p]
  <2>1. PICK i \in DOMAIN scheduled : scheduled[i] = p
    BY <1>1, <1>5 DEF Complete
  <2>2. scheduled # <<>> /\ 1 \in DOMAIN scheduled /\ (i = 1 \/ 1 < i)
    BY <1>2, <2>1
  <2>3. timval = goal[scheduled[1]]
    BY <1>1, <2>2 DEF Armed
  <2>4. goal[scheduled[1]] \in Nat
    BY <1>2, <2>2
  <2>5. goal[scheduled[1]] <= goal[scheduled[i]]
    BY <1>1, <2>1, <2>2, <2>4 DEF Sorted
  <2> QED BY <2>1, <2>3, <2>5
<1>6. TimerArmed
  BY <1>1, <1>5 DEF TimerArmed, Armed
<1> QED BY <1>1, <1>4, <1>6 DEF TimerSound

\* timer_schedule, timer_deschedule, hpet_irq and hpet_sched: whatever sleeps,
\* is interrupted, is killed or wakes up, the list is the sleepers, once each
\* and in the order of their goals, and the comparator is the earliest goal.
THEOREM TimerAlwaysSound == Spec => []TimerSound
<1> QED BY TimerInvAlways, TimerInvSound, PTL

-----------------------------------------------------------------------------
(* The length of a sleep.  The products of _sys_sleep and timer_schedule    *)
(* are on 64 bits: a sleep so long that they wrap around ends too early.    *)
(* For the others the goal is the deadline.                                 *)

NoOverflow == \A ms \in Ms : ms * NsPerMs * FsPerNs < Modulus

GoalsOK == \A p \in Sleeper : deadline[p] <= goal[p]

LEMMA TicksAreExact ==
    ASSUME NoOverflow, NEW ms \in Ms
    PROVE  ticks(ms) = (ms * NsPerMs * FsPerNs) \div hpet_period
<1>1. ms \in Nat /\ NsPerMs \in Nat /\ FsPerNs \in Nat /\ Modulus \in Nat
  BY TimerAssumption
<1>2. PICK a \in Nat : a = ms * NsPerMs
  BY <1>1
<1>3. a * FsPerNs \in Nat /\ a * FsPerNs < Modulus
  BY <1>1, <1>2 DEF NoOverflow
<1>4. (a * FsPerNs) % Modulus = a * FsPerNs
  BY <1>1, <1>3, ModSmall
<1>5. CASE FsPerNs = 0
  <2>1. a * FsPerNs = 0 /\ (a % Modulus) * FsPerNs = 0
    BY <1>1, <1>2, <1>3, <1>5
  <2> QED BY <1>2, <1>4, <2>1 DEF ticks
<1>6. CASE FsPerNs > 0
  <2>1. a <= a * FsPerNs
    BY <1>1, <1>2, <1>6
  <2>2. a < Modulus
    BY <1>1, <1>2, <1>3, <2>1
  <2>3. a % Modulus = a
    BY <1>1, <2>2, ModSmall
  <2> QED BY <1>2, <1>4, <2>3 DEF ticks
<1> QED BY <1>1, <1>5, <1>6

LEMMA GoalsStep ==
    ASSUME NoOverflow, TimerInv, GoalsOK, [Next]_vars
    PROVE  GoalsOK'
<1>1. /\ goal \in [Sleeper -> Nat] /\ deadline \in [Sleeper -> Nat]
      /\ counter \in Nat /\ counter \in 0..MaxNow /\ Max64 \in Nat
  BY TimerTypes DEF TimerInv, TypeOK
<1>2. \A p \in Sleeper : deadline[p] <= goal[p]
  BY DEF GoalsOK
<1>3. ASSUME NEW p \in Sleeper, Sleep(p) PROVE GoalsOK'
  <2>1. PICK ms \in Ms :
          LET time  == wakeup(ms)
              ideal == counter + (ms * NsPerMs * FsPerNs) \div hpet_period
          IN
          /\ goal' = [goal EXCEPT ![p] = time]
          /\ deadline' = [deadline EXCEPT ![p] = IF ideal > Max64 THEN Max64 ELSE ideal]
    BY <1>3 DEF Sleep
  <2>2. PICK ideal : ideal = counter + ticks(ms)
    OBVIOUS
  <2>3. ideal \in Nat
    BY <1>1, <2>2, TicksAreNat
  <2>4. /\ goal' = [goal EXCEPT ![p] = wakeup(ms)]
        /\ deadline' = [deadline EXCEPT ![p] = IF ideal > Max64 THEN Max64 ELSE ideal]
    BY <2>1, <2>2, TicksAreExact
  <2>5. wakeup(ms) = IF ideal > Max64 THEN Max64 ELSE ideal
    BY <1>1, <2>2, <2>3, WakeupIs
  <2>6. goal'[p] = deadline'[p] /\ goal'[p] \in Nat
    BY <1>1, <2>3, <2>4, <2>5
  <2>7. \A q \in Sleeper : q # p => goal'[q] = goal[q] /\ deadline'[q] = deadline[q]
    BY <1>1, <2>4
  <2> QED BY <1>2, <2>6, <2>7 DEF GoalsOK
<1>4. ASSUME NEW p \in Sleeper,
             goal' = [goal EXCEPT ![p] = 0], deadline' = [deadline EXCEPT ![p] = 0]
      PROVE  GoalsOK'
  BY <1>1, <1>2, <1>4 DEF GoalsOK
<1>5. ASSUME goal' = goal, deadline' = deadline PROVE GoalsOK'
  BY <1>2, <1>5 DEF GoalsOK
<1>6. ASSUME NEW p \in Sleeper, Deschedule(p) PROVE GoalsOK'
  BY <1>4, <1>6 DEF Deschedule
<1>7. CASE hpet_irq
  <2>1. CASE scheduled # <<>> /\ goal[Head(scheduled)] < counter
    <3>1. Head(scheduled) \in Sleeper
      BY <2>1, SeqFacts DEF TimerInv, ListOK
    <3> QED BY <1>4, <1>7, <2>1, <3>1 DEF hpet_irq
  <2>2. CASE ~(scheduled # <<>> /\ goal[Head(scheduled)] < counter)
    BY <1>5, <1>7, <2>2 DEF hpet_irq
  <2> QED BY <2>1, <2>2
<1>8. ASSUME NEW p \in Sleeper, Exit(p) PROVE GoalsOK'
  BY <1>5, <1>8 DEF Exit
<1>9. CASE Tick \/ Raise \/ UNCHANGED vars
  BY <1>5, <1>9 DEF Tick, Raise, vars
<1> QED BY <1>3, <1>6, <1>7, <1>8, <1>9 DEF Next

\* What NeverEarly says of a step.
NotEarly == hpet_irq => \A p \in Sleeper : state[p] # state'[p] => deadline[p] < counter

LEMMA IrqNotEarly ==
    ASSUME TimerInv, GoalsOK
    PROVE  NotEarly
<1> SUFFICES ASSUME hpet_irq, NEW p \in Sleeper, state[p] # state'[p]
             PROVE  deadline[p] < counter
  BY DEF NotEarly
<1>1. /\ goal \in [Sleeper -> Nat] /\ deadline \in [Sleeper -> Nat] /\ counter \in Nat
      /\ state \in [Sleeper -> {"RUNNING", "WAITS4TIMER", "DEAD"}]
  BY TimerTypes DEF TimerInv
<1>2. scheduled # <<>> /\ goal[Head(scheduled)] < counter
  BY DEF hpet_irq
<1>3. state' = [state EXCEPT ![Head(scheduled)] = "RUNNING"]
  BY <1>2 DEF hpet_irq
<1>4. p = Head(scheduled)
  BY <1>1, <1>3
<1> QED BY <1>1, <1>2, <1>4 DEF GoalsOK

\* _sys_sleep and timer_schedule: the interrupt wakes no process before the
\* time it asked for, also when the sum of the counter and the ticks is
\* saturated, as long as the product on 64 bits does not wrap around.
THEOREM SleepsAreLongEnough == ASSUME NoOverflow PROVE Spec => NeverEarly
<1>1. Init => GoalsOK
  BY DEF Init, GoalsOK
<1>2. TimerInv /\ GoalsOK /\ [Next]_vars => GoalsOK'
  BY GoalsStep
<1>3. TimerInv /\ GoalsOK => NotEarly
  BY IrqNotEarly
<1>4. NeverEarly <=> [][NotEarly]_vars
  BY DEF NeverEarly, NotEarly
<1> QED BY <1>1, <1>2, <1>3, <1>4, TimerInvAlways, PTL DEF Spec

-----------------------------------------------------------------------------
(* The drivers.                                                             *)

Queues == Dev \cup {"eth"}
Descs  == 0..(NDesc - 1)

DrvType ==
    /\ use \in Uses
    /\ proc \in [Proc -> {"run", "dead", "eth"} \cup Dev]
    /\ queue \in [Queues -> Seq(Requests)]
    /\ ring \in [Dev -> Seq(1..MaxBytes)] /\ (\A d \in Dev : Len(ring[d]) <= Room)
    /\ nin \in [Dev -> 0..MaxBytes] /\ last \in [Dev -> [Proc -> 0..MaxBytes]]
    /\ readers \in [Dev -> SUBSET Proc]
    /\ rx \in 0..RxRoom /\ status \in BOOLEAN /\ mask \in BOOLEAN
    /\ irq \in {"out", "loop", "ack"}
    /\ desc \in Descs /\ busy \in Seq(Descs)
    /\ panic \in {"none", "freed", "tx"}

\* A process waits for a device if it is the caller of a request in its queue,
\* which is the only one; and a request without a caller was that of a process
\* that is dead.
InQueue(q, p) == \E i \in DOMAIN q : q[i].caller = p
CallerOnce(q) == \A i, j \in DOMAIN q : q[i].caller = q[j].caller /\ q[i].caller # NULL => i = j
Waiting(Q, st) ==
    /\ \A d \in Queues, p \in Proc : InQueue(Q[d], p) <=> st[p] = d
    /\ \A d \in Queues : CallerOnce(Q[d])
    /\ \A d \in Queues : InQueue(Q[d], NULL) => \E p \in Proc : st[p] = "dead"

\* The ring r holds the last of n bytes, and the queue waits for more.  A
\* process that has been alone with the device has had all the others.
Numbered(r, n) == Len(r) <= n /\ \A i \in 1..Len(r) : r[i] = n - Len(r) + i
Alone(R, l, r, n) == \A p \in Proc : R \subseteq {p} => l[p] + Len(r) = n
CharOK(q, r, n, l, R, pn) ==
    /\ Numbered(r, n) /\ (q = <<>> \/ r = <<>>)
    /\ \A i \in DOMAIN q : q[i].caller \in R \cup {NULL}
    /\ pn = "none" => Alone(R, l, r, n)

\* The descriptors that the card has are those before the next, in turn.
InTurn(b, d) ==
    /\ Len(b) <= NDesc
    /\ \A i \in 1..Len(b) : b[i] = IF d + i - 1 >= Len(b) THEN d + i - 1 - Len(b) ELSE d + i - 1 - Len(b) + NDesc

\* The inductive invariant.
DriversInv ==
    /\ DrvType /\ Waiting(queue, proc)
    /\ \A d \in Dev : CharOK(queue[d], ring[d], nin[d], last[d], readers[d], panic)
    /\ InTurn(busy, desc) /\ (queue["eth"] # <<>> => mask)
    /\ (panic = "tx" => Len(busy) = NDesc)
    /\ (panic = "freed" => \E p \in Proc : proc[p] = "dead")

LEMMA DriversConstants ==
    /\ NULL \notin Proc /\ "eth" \notin Dev /\ "run" \notin Queues /\ "dead" \notin Queues
    /\ Dev \subseteq Queues /\ "eth" \in Queues
    /\ Room \in Nat /\ TmpLen \in Nat /\ MaxLen \in Nat /\ MaxBytes \in Nat /\ RxRoom \in Nat
    /\ NDesc \in Nat /\ NDesc > 0 /\ MaxLen > 0
    /\ \A u \in Uses : u \subseteq Queues
<1>1. "eth" \notin {"com1", "kb", "mouse"} /\ "run" \notin {"com1", "kb", "mouse", "eth"}
      /\ "dead" \notin {"com1", "kb", "mouse", "eth"}
  OBVIOUS
<1> QED BY <1>1, DriversAssumption DEF Queues

LEMMA MinTwo == ASSUME NEW a \in Nat, NEW b \in Nat PROVE Min({a, b}) = IF a <= b THEN a ELSE b
<1>1. CASE a <= b
  <2>1. \A x \in {a, b} : (\A y \in {a, b} : x <= y) <=> x = a
    BY <1>1
  <2> QED BY <1>1, <2>1 DEF Min
<1>2. CASE ~(a <= b)
  <2>1. \A x \in {a, b} : (\A y \in {a, b} : x <= y) <=> x = b
    BY <1>2
  <2> QED BY <1>2, <2>1 DEF Min
<1> QED BY <1>1, <1>2

LEMMA MinThree ==
    ASSUME NEW a \in Nat, NEW b \in Nat, NEW c \in Nat
    PROVE  LET m == Min({a, b, c}) IN m \in Nat /\ m <= a /\ m <= b /\ m <= c
<1>1. \E x \in {a, b, c} : \A y \in {a, b, c} : x <= y
  <2>1. CASE a <= b /\ a <= c
    BY <2>1
  <2>2. CASE b <= a /\ b <= c
    BY <2>2
  <2>3. CASE c <= a /\ c <= b
    BY <2>3
  <2> QED BY <2>1, <2>2, <2>3
<1>2. Min({a, b, c}) \in {a, b, c} /\ \A y \in {a, b, c} : Min({a, b, c}) <= y
  BY <1>1 DEF Min
<1> QED BY <1>2

LEMMA MaxIs ==
    ASSUME NEW S \in SUBSET Nat, S # {}, NEW b \in Nat, \A x \in S : x <= b
    PROVE  Max(S) \in S /\ \A y \in S : y <= Max(S)
<1>1. PICK m \in {b - x : x \in S} : \A y \in {b - x : x \in S} : m <= y
  <2>1. {b - x : x \in S} \in SUBSET Nat /\ {b - x : x \in S} # {}
    <3>1. \A x \in S : b - x \in Nat
      OBVIOUS
    <3> QED BY <3>1
  <2> QED BY <2>1, SmallestExists
<1>2. PICK x \in S : m = b - x
  OBVIOUS
<1>3. \A y \in S : x >= y
  <2> TAKE y \in S
  <2>1. b - x <= b - y
    BY <1>1, <1>2
  <2> QED BY <2>1
<1>4. \E z \in S : \A y \in S : z >= y
  BY <1>3
<1>5. Max(S) \in S /\ \A y \in S : Max(S) >= y
  BY <1>4 DEF Max
<1> QED BY <1>5

LEMMA MaxUnique ==
    ASSUME NEW S \in SUBSET Nat, NEW m \in S, \A y \in S : y <= m
    PROVE  Max(S) = m
<1>1. Max(S) \in S /\ \A y \in S : y <= Max(S)
  BY MaxIs
<1>2. m <= Max(S) /\ Max(S) <= m /\ m \in Nat /\ Max(S) \in Nat
  BY <1>1
<1> QED BY <1>2

LEMMA SeqElements ==
    ASSUME NEW S, NEW s \in Seq(S)
    PROVE  Len(s) \in Nat /\ DOMAIN s = 1..Len(s) /\ \A i \in 1..Len(s) : s[i] \in S
OBVIOUS

LEMMA QueueFacts ==
    ASSUME NEW q \in Seq(Requests)
    PROVE  /\ Len(q) \in Nat /\ DOMAIN q = 1..Len(q)
           /\ \A i \in DOMAIN q : q[i] \in Requests /\ q[i].caller \in Proc \cup {NULL} /\ q[i].len \in 0..MaxLen
           /\ ToSet(q) = {q[i] : i \in DOMAIN q}
           /\ \A x : (\E y \in ToSet(q) : y.caller = x) <=> InQueue(q, x)
<1>1. Len(q) \in Nat /\ DOMAIN q = 1..Len(q) /\ \A i \in DOMAIN q : q[i] \in Requests
  OBVIOUS
<1>2. \A i \in DOMAIN q : q[i].caller \in Proc \cup {NULL} /\ q[i].len \in 0..MaxLen
  BY <1>1 DEF Requests
<1>3. ToSet(q) = {q[i] : i \in DOMAIN q}
  BY DEF ToSet
<1> QED BY <1>1, <1>2, <1>3 DEF InQueue

\* postqueue_ringreadall takes no more than there is, and no more than the
\* longest request wants.
LEMMA TakenIs ==
    ASSUME NEW q \in Seq(Requests), NEW r \in Seq(1..MaxBytes)
    PROVE  /\ taken(q, r) \in 0..Len(r)
           /\ taken(q, r) > 0 => \E i \in DOMAIN q : q[i].len >= taken(q, r)
<1>1. /\ \A i \in DOMAIN q : q[i].len \in 0..MaxLen
      /\ ToSet(q) = {q[i] : i \in DOMAIN q} /\ MaxLen \in Nat /\ TmpLen \in Nat
  BY QueueFacts, DriversConstants
<1>2. PICK M : M = {r2.len : r2 \in ToSet(q)} \cup {0}
  OBVIOUS
<1>3. M \in SUBSET Nat /\ M # {} /\ (\A x \in M : x <= MaxLen) /\ \A x \in M : x = 0 \/ \E i \in DOMAIN q : q[i].len = x
  BY <1>1, <1>2
<1>4. PICK mx \in Nat : mx = Max(M) /\ (mx = 0 \/ \E i \in DOMAIN q : q[i].len = mx)
  BY <1>1, <1>3, MaxIs
<1>5. taken(q, r) = Min({mx, TmpLen, Len(r)})
  BY <1>2, <1>4 DEF taken
<1>6. Len(r) \in Nat
  OBVIOUS
<1>7. taken(q, r) \in Nat /\ taken(q, r) <= mx /\ taken(q, r) <= Len(r)
  BY <1>1, <1>4, <1>5, <1>6, MinThree
<1>8. taken(q, r) > 0 => \E i \in DOMAIN q : q[i].len >= taken(q, r)
  BY <1>1, <1>4, <1>7
<1> QED BY <1>6, <1>7, <1>8

\* The bytes that the requests of p in q get, of those in tmp.
got(q, tmp, p) ==
    UNION {{tmp[i] : i \in 1..Min({x.len, Len(tmp)})} : x \in {y \in ToSet(q) : y.caller = p}}

Prefix(q, r, t, tmp) == t = taken(q, r) /\ tmp = SubSeq(r, 1, t)
Gives(q, r, t, tmp, p) ==
    /\ tmp \in Seq(1..MaxBytes) /\ Len(tmp) = t /\ (\A i \in 1..t : tmp[i] = r[i])
    /\ \A b \in got(q, tmp, p) : \E i \in 1..t : b = tmp[i]
    /\ (\A i \in DOMAIN q : q[i].caller = p) => \A i \in 1..t : tmp[i] \in got(q, tmp, p)

LEMMA GotIs ==
    ASSUME NEW q \in Seq(Requests), NEW r \in Seq(1..MaxBytes), NEW t, NEW tmp, Prefix(q, r, t, tmp), NEW p
    PROVE  Gives(q, r, t, tmp, p)
<1>1. t \in Nat /\ t <= Len(r) /\ (t > 0 => \E i \in DOMAIN q : q[i].len >= t)
  BY TakenIs DEF Prefix
<1>2. /\ tmp \in Seq(1..MaxBytes) /\ Len(tmp) = t /\ \A i \in 1..t : tmp[i] = r[i]
  <2>0. Len(r) \in Nat /\ \A i \in 1..Len(r) : r[i] \in 1..MaxBytes
    BY SeqElements
  <2>1. \A i \in 1..t : r[i] \in 1..MaxBytes
    <3>1. \A i \in 1..t : i \in 1..Len(r)
      BY <1>1, <2>0
    <3> QED BY <2>0, <3>1
  <2>2. /\ SubSeq(r, 1, t) \in Seq(1..MaxBytes) /\ Len(SubSeq(r, 1, t)) = (IF 1 <= t THEN t - 1 + 1 ELSE 0)
        /\ \A i \in 1..(t - 1 + 1) : SubSeq(r, 1, t)[i] = r[1 + i - 1]
    BY <1>1, <2>1, SubSeqProperties
  <2>3. tmp = SubSeq(r, 1, t)
    BY DEF Prefix
  <2> QED BY <1>1, <2>2, <2>3
<1>3. /\ \A i \in DOMAIN q : q[i].len \in Nat
      /\ ToSet(q) = {q[i] : i \in DOMAIN q}
  BY QueueFacts
<1>4. \A x \in ToSet(q) : x.len \in Nat /\ 1..Min({x.len, Len(tmp)}) \subseteq 1..t
  <2> TAKE x \in ToSet(q)
  <2>1. x.len \in Nat
    BY <1>3
  <2>2. Min({x.len, t}) = IF x.len <= t THEN x.len ELSE t
    BY <1>1, <2>1, MinTwo
  <2>3. Min({x.len, t}) \in Nat /\ Min({x.len, t}) <= t
    BY <1>1, <2>1, <2>2
  <2>4. \A i \in 1..Min({x.len, t}) : i \in 1..t
    BY <1>1, <2>3
  <2> QED BY <1>2, <2>1, <2>4
<1>5. ASSUME NEW b \in got(q, tmp, p) PROVE \E i \in 1..t : b = tmp[i]
  <2>1. PICK x \in ToSet(q) : \E i \in 1..Min({x.len, Len(tmp)}) : b = tmp[i]
    BY DEF got
  <2> QED BY <1>2, <1>4, <2>1
<1>6. ASSUME \A i \in DOMAIN q : q[i].caller = p, NEW k \in 1..t PROVE tmp[k] \in got(q, tmp, p)
  <2>1. PICK i \in DOMAIN q : q[i].len >= t
    <3>1. t > 0
      BY <1>1
    <3> QED BY <1>1, <3>1
  <2>2. PICK x \in ToSet(q) : x = q[i] /\ x.caller = p /\ x.len >= t
    BY <1>3, <1>6, <2>1
  <2>3. Min({x.len, t}) = t
    <3>1. x.len \in Nat
      BY <1>4
    <3>2. Min({x.len, t}) = IF x.len <= t THEN x.len ELSE t
      BY <1>1, <3>1, MinTwo
    <3> QED BY <1>1, <2>2, <3>1, <3>2
  <2>4. tmp[k] \in {tmp[j] : j \in 1..Min({x.len, Len(tmp)})}
    BY <1>2, <2>3
  <2> QED BY <2>2, <2>4 DEF got
<1> QED BY <1>2, <1>5, <1>6 DEF Gives

\* What Ringreadall does, in terms of the number t of bytes that it takes.
Left(q, r)  == IF q = <<>> \/ r = <<>> THEN q ELSE <<>>
Serving(d, q, r, t) ==
    /\ t \in 0..Len(r) /\ (q = <<>> \/ r = <<>> => t = 0 /\ last' = last)
    /\ queue' = [queue EXCEPT ![d] = Left(q, r)]
    /\ ring' = [ring EXCEPT ![d] = SubSeq(r, t + 1, Len(r))]
    /\ last' \in [Dev -> [Proc -> 0..MaxBytes]] /\ (\A c \in Dev \ {d} : last'[c] = last[c])
    /\ panic' \in {panic, "freed"} /\ (panic' # panic => InQueue(q, NULL))
    /\ r # <<>> /\ InQueue(q, NULL) => panic' = "freed"
    /\ \A p \in Proc : (\A i \in DOMAIN q : q[i].caller = p) /\ (\A i \in 1..Len(r) : r[i] = last[d][p] + i)
                          => last'[d][p] = last[d][p] + t

LEMMA RingreadallIs ==
    ASSUME DrvType, NEW d \in Dev, NEW q \in Seq(Requests), NEW r \in Seq(1..MaxBytes), Ringreadall(d, q, r)
    PROVE  \E t : Serving(d, q, r, t)
<1>1. last \in [Dev -> [Proc -> 0..MaxBytes]] /\ ring \in [Dev -> Seq(1..MaxBytes)] /\ MaxBytes \in Nat
  BY DriversConstants DEF DrvType
<1>2. CASE q = <<>> \/ r = <<>>
  <2>1. /\ queue' = [queue EXCEPT ![d] = q] /\ ring' = [ring EXCEPT ![d] = r] /\ last' = last /\ panic' = panic
    BY <1>2 DEF Ringreadall
  <2>2. SubSeq(r, 0 + 1, Len(r)) = r
    BY SubSeqProperties
  <2>3. r # <<>> => ~InQueue(q, NULL)
    BY <1>2 DEF InQueue
  <2>4. 0 \in 0..Len(r)
    OBVIOUS
  <2>5. \A p \in Proc : last'[d][p] = last[d][p] + 0
    BY <1>1, <2>1
  <2>6. Left(q, r) = q
    BY <1>2 DEF Left
  <2>7. Serving(d, q, r, 0)
    BY <1>1, <2>1, <2>2, <2>3, <2>4, <2>5, <2>6 DEF Serving
  <2> QED BY <2>7
<1>3. CASE ~(q = <<>> \/ r = <<>>)
  <2>1. PICK t, tmp : Prefix(q, r, t, tmp)
    BY DEF Prefix
  <2>2. /\ ring' = [ring EXCEPT ![d] = SubSeq(r, Len(tmp) + 1, Len(r))]
        /\ queue' = [queue EXCEPT ![d] = <<>>]
        /\ last' = [last EXCEPT ![d] = [p \in Proc |-> Max(got(q, tmp, p) \cup {last[d][p]})]]
        /\ panic' = IF \E x \in ToSet(q) : x.caller = NULL THEN "freed" ELSE panic
    <3>1. /\ ring' = [ring EXCEPT ![d] = SubSeq(r, Len(SubSeq(r, 1, taken(q, r))) + 1, Len(r))]
          /\ queue' = [queue EXCEPT ![d] = <<>>]
          /\ panic' = IF \E x \in ToSet(q) : x.caller = NULL THEN "freed" ELSE panic
      BY <1>3 DEF Ringreadall, queue_left
    <3>2. last' = [last EXCEPT ![d] = [p \in Proc |-> Max(got(q, SubSeq(r, 1, taken(q, r)), p) \cup {@[p]})]]
      BY <1>3 DEF Ringreadall, got
    <3>3. last' = [last EXCEPT ![d] = [p \in Proc |-> Max(got(q, tmp, p) \cup {@[p]})]]
      BY <2>1, <3>2 DEF Prefix
    <3>4. tmp = SubSeq(r, 1, taken(q, r))
      BY <2>1 DEF Prefix
    <3> QED BY <1>1, <3>1, <3>3, <3>4
  <2>3. t \in 0..Len(r) /\ t = Len(tmp)
    <3>1. t \in 0..Len(r)
      BY <2>1, TakenIs DEF Prefix
    <3>2. Gives(q, r, t, tmp, NULL)
      BY <2>1, GotIs
    <3> QED BY <3>1, <3>2 DEF Gives
  <2>4. ASSUME NEW p \in Proc
        PROVE  /\ Max(got(q, tmp, p) \cup {last[d][p]}) \in 0..MaxBytes
               /\ (\A i \in DOMAIN q : q[i].caller = p) /\ (\A i \in 1..Len(r) : r[i] = last[d][p] + i)
                     => Max(got(q, tmp, p) \cup {last[d][p]}) = last[d][p] + t
    <3>0. Gives(q, r, t, tmp, p)
      BY <2>1, GotIs
    <3>1. /\ tmp \in Seq(1..MaxBytes) /\ (\A i \in 1..t : tmp[i] = r[i])
          /\ (\A b \in got(q, tmp, p) : \E i \in 1..t : b = tmp[i])
          /\ (\A i \in DOMAIN q : q[i].caller = p) => \A i \in 1..t : tmp[i] \in got(q, tmp, p)
      BY <3>0 DEF Gives
    <3>2. PICK l \in 0..MaxBytes : l = last[d][p]
      BY <1>1
    <3>3. \A i \in 1..t : tmp[i] \in 1..MaxBytes
      <4>1. t = Len(tmp)
        BY <2>3
      <4> QED BY <3>1, <4>1, SeqElements
    <3>4. \A x \in got(q, tmp, p) \cup {l} : x \in Nat /\ x <= MaxBytes
      <4>1. \A x \in got(q, tmp, p) : x \in 1..MaxBytes
        BY <3>1, <3>3
      <4> QED BY <1>1, <3>2, <4>1
    <3>5. Max(got(q, tmp, p) \cup {l}) \in 0..MaxBytes
      <4>1. PICK G : G = got(q, tmp, p) \cup {l}
        OBVIOUS
      <4>2. G \in SUBSET Nat /\ G # {} /\ \A x \in G : x <= MaxBytes
        BY <3>4, <4>1
      <4>3. Max(G) \in G
        BY <1>1, <4>2, MaxIs
      <4> QED BY <3>4, <4>1, <4>3
    <3>6. ASSUME \A i \in DOMAIN q : q[i].caller = p, \A i \in 1..Len(r) : r[i] = l + i
          PROVE  Max(got(q, tmp, p) \cup {l}) = l + t
      <4>1. \A i \in 1..t : tmp[i] = l + i
        BY <2>3, <3>1, <3>6
      <4>2. \A i \in 1..t : tmp[i] \in got(q, tmp, p)
        BY <3>1, <3>6
      <4>3. \A x \in got(q, tmp, p) \cup {l} : x <= l + t
        <5>1. \A x \in got(q, tmp, p) : \E i \in 1..t : x = l + i
          BY <3>1, <4>1
        <5> QED BY <2>3, <3>2, <5>1
      <4>4. l + t \in got(q, tmp, p) \cup {l}
        <5>1. CASE t = 0
          BY <3>2, <5>1
        <5>2. CASE t # 0
          <6>1. t \in 1..t
            BY <2>3, <5>2
          <6> QED BY <4>1, <4>2, <6>1
        <5> QED BY <5>1, <5>2
      <4> QED BY <3>4, <4>3, <4>4, MaxUnique
    <3> QED BY <3>2, <3>5, <3>6
  <2>5. /\ last' \in [Dev -> [Proc -> 0..MaxBytes]] /\ (\A c \in Dev \ {d} : last'[c] = last[c])
        /\ \A p \in Proc : last'[d][p] = Max(got(q, tmp, p) \cup {last[d][p]})
    BY <1>1, <2>2, <2>4
  <2>6. (\E x \in ToSet(q) : x.caller = NULL) <=> InQueue(q, NULL)
    BY QueueFacts
  <2>7. panic' \in {panic, "freed"} /\ (panic' # panic => InQueue(q, NULL)) /\ (InQueue(q, NULL) => panic' = "freed")
    BY <2>2, <2>6
  <2>8. \A p \in Proc : (\A i \in DOMAIN q : q[i].caller = p) /\ (\A i \in 1..Len(r) : r[i] = last[d][p] + i)
                          => last'[d][p] = last[d][p] + t
    BY <2>4, <2>5
  <2>9. Left(q, r) = <<>>
    BY <1>3 DEF Left
  <2>10. Serving(d, q, r, t)
    BY <1>3, <2>2, <2>3, <2>5, <2>7, <2>8, <2>9 DEF Serving
  <2> QED BY <2>10
<1> QED BY <1>2, <1>3

\* A device after its readers have been served: R are its readers and n the
\* bytes that were ever stored.
LEMMA ServedChar ==
    ASSUME DriversInv, panic = "none", NEW d \in Dev, NEW q \in Seq(Requests), NEW r \in Seq(1..MaxBytes), NEW t,
           Serving(d, q, r, t), NEW n \in 0..MaxBytes, NEW R \in SUBSET Proc, Len(r) <= Room,
           nin' = [nin EXCEPT ![d] = n], readers' = [readers EXCEPT ![d] = R],
           Numbered(r, n), Alone(R, last[d], r, n), \A i \in DOMAIN q : q[i].caller \in R \cup {NULL}
    PROVE  /\ ring' \in [Dev -> Seq(1..MaxBytes)] /\ (\A c \in Dev : Len(ring'[c]) <= Room)
           /\ nin' \in [Dev -> 0..MaxBytes] /\ readers' \in [Dev -> SUBSET Proc]
           /\ \A c \in Dev : CharOK(queue'[c], ring'[c], nin'[c], last'[c], readers'[c], panic')
<1>1. /\ ring \in [Dev -> Seq(1..MaxBytes)] /\ (\A c \in Dev : Len(ring[c]) <= Room)
      /\ nin \in [Dev -> 0..MaxBytes] /\ readers \in [Dev -> SUBSET Proc] /\ queue \in [Queues -> Seq(Requests)]
      /\ last \in [Dev -> [Proc -> 0..MaxBytes]] /\ Dev \subseteq Queues
      /\ \A c \in Dev : CharOK(queue[c], ring[c], nin[c], last[c], readers[c], panic)
  BY DriversConstants DEF DriversInv, DrvType
<1>2. PICK r2 : r2 = SubSeq(r, t + 1, Len(r))
  OBVIOUS
<1>3. /\ t \in 0..Len(r) /\ (q = <<>> \/ r = <<>> => t = 0 /\ last' = last)
      /\ queue' = [queue EXCEPT ![d] = Left(q, r)] /\ ring' = [ring EXCEPT ![d] = r2]
      /\ (\A c \in Dev \ {d} : last'[c] = last[c])
      /\ (r # <<>> /\ InQueue(q, NULL) => panic' = "freed")
  BY <1>2 DEF Serving
<1>4. \A p \in Proc : (\A i \in DOMAIN q : q[i].caller = p) /\ (\A i \in 1..Len(r) : r[i] = last[d][p] + i)
                          => last'[d][p] = last[d][p] + t
  BY DEF Serving
<1>5. Len(r) \in Nat /\ t \in Nat /\ t <= Len(r) /\ n \in Nat /\ \A i \in 1..Len(r) : r[i] \in 1..MaxBytes
  <2>1. Len(r) \in Nat /\ \A i \in 1..Len(r) : r[i] \in 1..MaxBytes
    BY SeqElements
  <2>2. t \in 0..Len(r)
    BY <1>3
  <2> QED BY <2>1, <2>2
<1>6. /\ r2 \in Seq(1..MaxBytes) /\ Len(r2) = Len(r) - t
      /\ \A i \in 1..(Len(r) - t) : r2[i] = r[t + i]
  <2>1. \A i \in (t + 1)..Len(r) : r[i] \in 1..MaxBytes
    BY <1>5
  <2>2. t + 1 \in Int /\ Len(r) \in Int
    BY <1>5
  <2>3. /\ SubSeq(r, t + 1, Len(r)) \in Seq(1..MaxBytes)
        /\ Len(SubSeq(r, t + 1, Len(r))) = (IF t + 1 <= Len(r) THEN Len(r) - (t + 1) + 1 ELSE 0)
        /\ \A i \in 1..(Len(r) - (t + 1) + 1) : SubSeq(r, t + 1, Len(r))[i] = r[t + 1 + i - 1]
    BY <2>1, <2>2, SubSeqProperties
  <2>4. (IF t + 1 <= Len(r) THEN Len(r) - (t + 1) + 1 ELSE 0) = Len(r) - t /\ Len(r) - (t + 1) + 1 = Len(r) - t
    BY <1>5
  <2>5. \A i \in 1..(Len(r) - t) : t + 1 + i - 1 = t + i
    BY <1>5
  <2> QED BY <1>2, <2>3, <2>4, <2>5
<1>7. /\ queue'[d] = Left(q, r) /\ ring'[d] = r2 /\ nin'[d] = n /\ readers'[d] = R
      /\ ring' \in [Dev -> Seq(1..MaxBytes)] /\ nin' \in [Dev -> 0..MaxBytes] /\ readers' \in [Dev -> SUBSET Proc]
      /\ \A c \in Dev : c # d => /\ queue'[c] = queue[c] /\ ring'[c] = ring[c] /\ nin'[c] = nin[c]
                                 /\ readers'[c] = readers[c] /\ last'[c] = last[c]
  BY <1>1, <1>3, <1>6
<1>8. \A c \in Dev : Len(ring'[c]) <= Room
  <2>1. Len(r2) <= Room
    BY <1>5, <1>6, DriversConstants
  <2> QED BY <1>1, <1>7, <2>1
<1>9. CharOK(Left(q, r), r2, n, last'[d], R, panic')
  <2>1. Numbered(r2, n)
    <3>1. Len(r) <= n /\ \A i \in 1..Len(r) : r[i] = n - Len(r) + i
      BY DEF Numbered
    <3>2. Len(r2) <= n
      BY <1>5, <1>6, <3>1
    <3>3. ASSUME NEW i \in 1..Len(r2) PROVE r2[i] = n - Len(r2) + i
      <4>1. t + i \in 1..Len(r) /\ r2[i] = r[t + i]
        BY <1>5, <1>6
      <4>2. r[t + i] = n - Len(r) + (t + i)
        BY <3>1, <4>1
      <4> QED BY <1>5, <1>6, <4>1, <4>2
    <3> QED BY <3>2, <3>3 DEF Numbered
  <2>2. Left(q, r) = <<>> \/ r2 = <<>>
    <3>1. CASE r = <<>>
      <4>1. Len(r2) = 0
        BY <1>5, <1>6, <3>1
      <4> QED BY <1>6, <4>1, EmptySeq
    <3>2. CASE r # <<>>
      BY <3>2 DEF Left
    <3> QED BY <3>1, <3>2
  <2>3. \A i \in DOMAIN Left(q, r) : Left(q, r)[i].caller \in R \cup {NULL}
    BY DEF Left
  <2>4. ASSUME panic' = "none", NEW p \in Proc, R \subseteq {p} PROVE last'[d][p] + Len(r2) = n
    <3>1. last[d][p] + Len(r) = n /\ last[d][p] \in Nat
      BY <1>1, <2>4 DEF Alone
    <3>2. last'[d][p] = last[d][p] + t
      <4>1. CASE q = <<>> \/ r = <<>>
        BY <1>3, <3>1, <4>1
      <4>2. CASE ~(q = <<>> \/ r = <<>>)
        <5>1. ~InQueue(q, NULL)
          BY <1>3, <2>4, <4>2
        <5>2. \A i \in DOMAIN q : q[i].caller = p
          BY <2>4, <5>1 DEF InQueue
        <5>3. \A i \in 1..Len(r) : r[i] = last[d][p] + i
          <6>1. \A i \in 1..Len(r) : r[i] = n - Len(r) + i
            BY <1>5 DEF Numbered
          <6>2. PICK a \in Nat, m \in Nat : a = last[d][p] /\ m = Len(r) /\ a + m = n
            BY <1>5, <3>1
          <6>3. n - m = a
            BY <6>2
          <6> QED BY <6>1, <6>2, <6>3
        <5> QED BY <1>4, <5>2, <5>3
      <4> QED BY <4>1, <4>2
    <3> QED BY <1>5, <1>6, <3>1, <3>2
  <2> QED BY <2>1, <2>2, <2>3, <2>4 DEF CharOK, Alone
<1>10. ASSUME NEW c \in Dev, c # d PROVE CharOK(queue'[c], ring'[c], nin'[c], last'[c], readers'[c], panic')
  <2>1. CharOK(queue'[c], ring'[c], nin'[c], last'[c], readers'[c], "none")
    BY <1>1, <1>7, <1>10
  <2> QED BY <2>1 DEF CharOK
<1>11. ASSUME NEW c \in Dev PROVE CharOK(queue'[c], ring'[c], nin'[c], last'[c], readers'[c], panic')
  BY <1>7, <1>9, <1>10
<1> QED BY <1>7, <1>8, <1>11

\* Who waits after they have been served; st is proc with the new reader.
QueueType == [Queues -> Seq(Requests)]
ProcType  == [Proc -> {"run", "dead", "eth"} \cup Dev]
Wakes(Q, st, d, r, W, Q2, st2) ==
    /\ W = Woken(Q[d], r) /\ Q2 = [Q EXCEPT ![d] = Left(Q[d], r)]
    /\ st2 = [x \in Proc |-> IF x \in W THEN "run" ELSE st[x]]

LEMMA ServedWaiting ==
    ASSUME NEW d \in Queues, NEW Q \in QueueType, NEW st \in ProcType,
           Waiting(Q, st), NEW r, NEW W, NEW Q2, NEW st2, Wakes(Q, st, d, r, W, Q2, st2)
    PROVE  /\ Q2 \in QueueType /\ st2 \in ProcType
           /\ Waiting(Q2, st2)
           /\ InQueue(Q[d], NULL) => \E p \in Proc : st2[p] = "dead"
<1>1. /\ Q2 = [Q EXCEPT ![d] = Left(Q[d], r)]
      /\ st2 = [x \in Proc |-> IF x \in W THEN "run" ELSE st[x]]
      /\ W = Woken(Q[d], r)
  BY DEF Wakes
<1>2. "run" \notin Queues /\ "dead" \notin Queues /\ "run" # "dead"
  BY DriversConstants
<1>3. /\ Q2 \in [Queues -> Seq(Requests)] /\ st2 \in [Proc -> {"run", "dead", "eth"} \cup Dev]
      /\ Q2[d] = Left(Q[d], r) /\ \A c \in Queues : c # d => Q2[c] = Q[c]
  BY <1>1 DEF Left, QueueType, ProcType
<1>4. \A x \in Proc : st2[x] = IF x \in W THEN "run" ELSE st[x]
  BY <1>1
<1>5. \A x \in Proc : x \in W <=> r # <<>> /\ InQueue(Q[d], x)
  <2>1. W = IF r = <<>> THEN {} ELSE {y.caller : y \in ToSet(Q[d])}
    BY <1>1 DEF Woken
  <2>2. \A x : (\E y \in ToSet(Q[d]) : y.caller = x) <=> InQueue(Q[d], x)
    BY QueueFacts DEF QueueType
  <2> QED BY <2>1, <2>2
<1>6. /\ \A c \in Queues, p \in Proc : InQueue(Q[c], p) <=> st[p] = c
      /\ \A c \in Queues : CallerOnce(Q[c])
      /\ \A c \in Queues : InQueue(Q[c], NULL) => \E p \in Proc : st[p] = "dead"
  BY DEF Waiting
<1>7. \A x \in Proc : st[x] = "dead" => st2[x] = "dead"
  BY <1>2, <1>4, <1>5, <1>6
<1>8. ASSUME NEW c \in Queues, NEW p \in Proc PROVE InQueue(Q2[c], p) <=> st2[p] = c
  <2>1. CASE c # d
    BY <1>2, <1>3, <1>4, <1>5, <1>6, <2>1
  <2>2. CASE c = d /\ r = <<>>
    BY <1>3, <1>4, <1>5, <1>6, <2>2 DEF Left
  <2>3. CASE c = d /\ r # <<>>
    <3>1. Q2[c] = <<>>
      BY <1>3, <2>3 DEF Left
    <3>2. ~InQueue(Q2[c], p)
      BY <3>1 DEF InQueue
    <3> QED BY <1>2, <1>4, <1>5, <1>6, <2>3, <3>2
  <2> QED BY <2>1, <2>2, <2>3
<1>9. ASSUME NEW c \in Queues PROVE CallerOnce(Q2[c]) /\ (InQueue(Q2[c], NULL) => InQueue(Q[c], NULL))
  <2>1. CallerOnce(<<>>) /\ ~InQueue(<<>>, NULL)
    BY DEF CallerOnce, InQueue
  <2>2. Q2[c] = <<>> \/ Q2[c] = Q[c]
    BY <1>3 DEF Left
  <2> QED BY <1>6, <2>1, <2>2
<1>10. Waiting(Q2, st2)
  BY <1>6, <1>7, <1>8, <1>9 DEF Waiting
<1> QED BY <1>1, <1>3, <1>6, <1>7, <1>10 DEF QueueType, ProcType

\* postqueue_join of a request of a running process.
LEMMA JoinedWaiting ==
    ASSUME NEW d \in Queues, NEW Q \in [Queues -> Seq(Requests)], NEW st \in [Proc -> {"run", "dead", "eth"} \cup Dev],
           Waiting(Q, st), NEW p \in Proc, st[p] = "run", NEW len \in 0..MaxLen
    PROVE  LET q2  == Append(Q[d], [caller |-> p, len |-> len])
               Q2  == [Q EXCEPT ![d] = q2]
               st2 == [st EXCEPT ![p] = d]
           IN  /\ q2 \in Seq(Requests) /\ Q2 \in [Queues -> Seq(Requests)] /\ q2 # <<>>
               /\ st2 \in [Proc -> {"run", "dead", "eth"} \cup Dev] /\ Waiting(Q2, st2)
               /\ \A i \in DOMAIN q2 : q2[i].caller = p \/ InQueue(Q[d], q2[i].caller)
<1>1. PICK q, x, q2 : q = Q[d] /\ x = [caller |-> p, len |-> len] /\ q2 = Append(q, x)
  OBVIOUS
<1>2. PICK Q2, st2 : Q2 = [Q EXCEPT ![d] = q2] /\ st2 = [st EXCEPT ![p] = d]
  OBVIOUS
<1>3. x \in Requests /\ x.caller = p /\ q \in Seq(Requests)
  BY <1>1 DEF Requests
<1>4. /\ q2 \in Seq(Requests) /\ Len(q2) = Len(q) + 1 /\ Len(q) \in Nat /\ q2 # <<>> /\ DOMAIN q = 1..Len(q)
      /\ DOMAIN q2 = 1..(Len(q) + 1) /\ (\A i \in 1..Len(q) : q2[i] = q[i]) /\ q2[Len(q) + 1] = x
  BY <1>1, <1>3, AppendProperties
<1>5. /\ "run" \notin Queues /\ "dead" \notin Queues /\ "run" # "dead" /\ NULL \notin Proc
      /\ {"run", "dead", "eth"} \cup Dev = {"run", "dead"} \cup Queues
  BY DriversConstants DEF Queues
<1>6. /\ \A c \in Queues, y \in Proc : InQueue(Q[c], y) <=> st[y] = c
      /\ \A c \in Queues : CallerOnce(Q[c])
      /\ \A c \in Queues : InQueue(Q[c], NULL) => \E y \in Proc : st[y] = "dead"
  BY DEF Waiting
<1>7. /\ Q2 \in [Queues -> Seq(Requests)] /\ st2 \in [Proc -> {"run", "dead", "eth"} \cup Dev]
      /\ Q2[d] = q2 /\ (\A c \in Queues : c # d => Q2[c] = Q[c])
      /\ st2[p] = d /\ \A y \in Proc : y # p => st2[y] = st[y]
  BY <1>2, <1>4, <1>5
<1>8. \A y : InQueue(q2, y) <=> y = p \/ InQueue(q, y)
  <2> TAKE y
  <2>1. ASSUME InQueue(q, y) PROVE InQueue(q2, y)
    BY <1>4, <2>1 DEF InQueue
  <2>2. InQueue(q2, p)
    <3>1. Len(q) + 1 \in DOMAIN q2
      BY <1>4
    <3> QED BY <1>3, <1>4, <3>1 DEF InQueue
  <2>3. ASSUME InQueue(q2, y), y # p PROVE InQueue(q, y)
    <3>1. PICK i \in 1..(Len(q) + 1) : q2[i].caller = y
      BY <1>4, <2>3 DEF InQueue
    <3>2. i \in 1..Len(q)
      BY <1>3, <1>4, <2>3, <3>1
    <3> QED BY <1>4, <3>1, <3>2 DEF InQueue
  <2> QED BY <2>1, <2>2, <2>3
<1>9. ~InQueue(q, p)
  BY <1>1, <1>5, <1>6
<1>10. CallerOnce(q2)
  <2> SUFFICES ASSUME NEW i \in DOMAIN q2, NEW j \in DOMAIN q2, q2[i].caller = q2[j].caller, q2[i].caller # NULL
               PROVE  i = j
    BY DEF CallerOnce
  <2>1. \A k \in 1..Len(q) : q2[k].caller # p
    BY <1>4, <1>9 DEF InQueue
  <2>2. CASE i \in 1..Len(q) /\ j \in 1..Len(q)
    BY <1>1, <1>4, <1>6, <2>2 DEF CallerOnce
  <2>3. CASE ~(i \in 1..Len(q) /\ j \in 1..Len(q))
    <3>1. i = Len(q) + 1 \/ j = Len(q) + 1
      BY <1>4, <2>3
    <3>2. q2[i].caller = p
      BY <1>3, <1>4, <3>1
    <3>3. i \notin 1..Len(q) /\ j \notin 1..Len(q)
      BY <2>1, <3>2
    <3> QED BY <1>4, <3>3
  <2> QED BY <2>2, <2>3
<1>11. Waiting(Q2, st2)
  <2>1. ASSUME NEW c \in Queues, NEW y \in Proc PROVE InQueue(Q2[c], y) <=> st2[y] = c
    <3>1. CASE c = d /\ y = p
      BY <1>7, <1>8, <3>1
    <3>2. CASE c = d /\ y # p
      <4>1. InQueue(q, y) <=> st[y] = d
        BY <1>1, <1>6
      <4> QED BY <1>7, <1>8, <3>2, <4>1
    <3>3. CASE c # d /\ y = p
      BY <1>5, <1>6, <1>7, <3>3
    <3>4. CASE c # d /\ y # p
      BY <1>6, <1>7, <3>4
    <3> QED BY <3>1, <3>2, <3>3, <3>4
  <2>2. \A c \in Queues : CallerOnce(Q2[c])
    BY <1>6, <1>7, <1>10
  <2>3. \A y \in Proc : st[y] = "dead" => st2[y] = "dead"
    BY <1>5, <1>7
  <2>4. \A c \in Queues : InQueue(Q2[c], NULL) => InQueue(Q[c], NULL)
    BY <1>1, <1>5, <1>7, <1>8
  <2> QED BY <1>6, <2>1, <2>2, <2>3, <2>4 DEF Waiting
<1>12. \A i \in DOMAIN q2 : q2[i].caller = p \/ InQueue(q, q2[i].caller)
  BY <1>8 DEF InQueue
<1> QED BY <1>1, <1>2, <1>4, <1>7, <1>11, <1>12

\* The parts of the invariant, to put it together again.
LEMMA DriversParts ==
    ASSUME DriversInv
    PROVE  /\ DrvType /\ Waiting(queue, proc) /\ InTurn(busy, desc)
           /\ queue \in [Queues -> Seq(Requests)] /\ proc \in [Proc -> {"run", "dead", "eth"} \cup Dev]
           /\ ring \in [Dev -> Seq(1..MaxBytes)] /\ (\A c \in Dev : Len(ring[c]) <= Room)
           /\ nin \in [Dev -> 0..MaxBytes] /\ readers \in [Dev -> SUBSET Proc]
           /\ last \in [Dev -> [Proc -> 0..MaxBytes]]
           /\ \A c \in Dev : CharOK(queue[c], ring[c], nin[c], last[c], readers[c], panic)
BY DEF DriversInv, DrvType

\* A step of a character device.
LEMMA CharStep ==
    ASSUME DriversInv, panic = "none", UNCHANGED card,
           queue' \in [Queues -> Seq(Requests)], proc' \in [Proc -> {"run", "dead", "eth"} \cup Dev],
           ring' \in [Dev -> Seq(1..MaxBytes)], \A c \in Dev : Len(ring'[c]) <= Room,
           nin' \in [Dev -> 0..MaxBytes], readers' \in [Dev -> SUBSET Proc],
           last' \in [Dev -> [Proc -> 0..MaxBytes]], panic' \in {"none", "freed"},
           Waiting(queue', proc'), queue'["eth"] = queue["eth"],
           \A c \in Dev : CharOK(queue'[c], ring'[c], nin'[c], last'[c], readers'[c], panic'),
           panic' = "freed" => \E p \in Proc : proc'[p] = "dead"
    PROVE  DriversInv'
<1>1. UNCHANGED <<use, rx, status, mask, irq, desc, busy>>
  BY DEF card
<1>2. DrvType'
  BY <1>1 DEF DriversInv, DrvType
<1>3. InTurn(busy', desc') /\ (queue'["eth"] # <<>> => mask')
  BY <1>1 DEF DriversInv
<1>4. panic' # "tx"
  OBVIOUS
<1> QED BY <1>2, <1>3, <1>4 DEF DriversInv

LEMMA ReadCharKeeps ==
    ASSUME DriversInv, NEW p \in Proc, NEW d \in Dev, NEW len \in 0..MaxLen, ReadChar(p, d, len)
    PROVE  DriversInv'
<1>1. panic = "none" /\ proc[p] = "run" /\ UNCHANGED <<nin, card>>
  BY DEF ReadChar, Up
<1>2. PICK q, st : q = Append(queue[d], [caller |-> p, len |-> len]) /\ st = [proc EXCEPT ![p] = d]
  OBVIOUS
<1>3. PICK r, R : r = ring[d] /\ R = readers[d] \cup {p}
  OBVIOUS
<1>4. PICK W : W = Woken(q, r)
  OBVIOUS
<1>5. /\ readers' = [readers EXCEPT ![d] = R] /\ Ringreadall(d, q, r)
      /\ proc' = [x \in Proc |-> IF x \in W THEN "run" ELSE IF x = p THEN d ELSE proc[x]]
  BY <1>2, <1>3, <1>4, DriversParts DEF ReadChar, postqueue_join
<1>6. PICK Q : Q = [queue EXCEPT ![d] = q]
  OBVIOUS
<1>7. d \in Queues /\ d # "eth" /\ Dev \subseteq Queues /\ NULL \notin Proc
  BY DriversConstants
<1>8. /\ q \in Seq(Requests) /\ Q \in [Queues -> Seq(Requests)]
      /\ st \in [Proc -> {"run", "dead", "eth"} \cup Dev] /\ Waiting(Q, st)
      /\ \A i \in DOMAIN q : q[i].caller = p \/ InQueue(queue[d], q[i].caller)
  BY <1>1, <1>2, <1>6, <1>7, DriversParts, JoinedWaiting
<1>9. Q[d] = q /\ \A c \in Queues : c # d => Q[c] = queue[c]
  BY <1>6, <1>7, <1>8, DriversParts
<1>10. \A i \in DOMAIN q : q[i].caller \in R \cup {NULL}
  <2>1. CharOK(queue[d], ring[d], nin[d], last[d], readers[d], panic)
    BY DriversParts
  <2> QED BY <1>3, <1>8, <2>1 DEF CharOK, InQueue
<1>11. PICK t : Serving(d, q, r, t)
  BY <1>3, <1>5, <1>8, DriversParts, RingreadallIs
<1>12. /\ Numbered(r, nin[d]) /\ Alone(R, last[d], r, nin[d]) /\ r \in Seq(1..MaxBytes) /\ Len(r) <= Room
       /\ nin[d] \in 0..MaxBytes /\ R \in SUBSET Proc /\ nin' = [nin EXCEPT ![d] = nin[d]]
  <2>1. CharOK(queue[d], ring[d], nin[d], last[d], readers[d], panic)
    BY DriversParts
  <2>2. Numbered(r, nin[d]) /\ Alone(readers[d], last[d], r, nin[d])
    BY <1>1, <1>3, <2>1 DEF CharOK
  <2>3. Alone(R, last[d], r, nin[d])
    BY <1>3, <2>2 DEF Alone
  <2> QED BY <1>1, <1>3, <2>2, <2>3, DriversParts
<1>13. /\ ring' \in [Dev -> Seq(1..MaxBytes)] /\ (\A c \in Dev : Len(ring'[c]) <= Room)
       /\ nin' \in [Dev -> 0..MaxBytes] /\ readers' \in [Dev -> SUBSET Proc]
       /\ \A c \in Dev : CharOK(queue'[c], ring'[c], nin'[c], last'[c], readers'[c], panic')
  BY <1>1, <1>5, <1>8, <1>10, <1>11, <1>12, ServedChar
<1>14. /\ queue' = [Q EXCEPT ![d] = Left(Q[d], r)]
       /\ proc' = [x \in Proc |-> IF x \in W THEN "run" ELSE st[x]]
  <2>1. queue' = [queue EXCEPT ![d] = Left(q, r)]
    BY <1>11 DEF Serving
  <2>2. queue' = [Q EXCEPT ![d] = Left(Q[d], r)]
    BY <1>6, <1>7, <1>9, <2>1, DriversParts
  <2>3. \A x \in Proc : (IF x = p THEN d ELSE proc[x]) = st[x]
    BY <1>2, DriversParts
  <2> QED BY <1>5, <2>2, <2>3
<1>15. /\ queue' \in [Queues -> Seq(Requests)] /\ proc' \in [Proc -> {"run", "dead", "eth"} \cup Dev]
       /\ Waiting(queue', proc') /\ (InQueue(q, NULL) => \E x \in Proc : proc'[x] = "dead")
  <2>1. Wakes(Q, st, d, r, W, queue', proc')
    BY <1>4, <1>9, <1>14 DEF Wakes
  <2>2. Q \in QueueType /\ st \in ProcType /\ Waiting(Q, st) /\ d \in Queues
    BY <1>7, <1>8 DEF QueueType, ProcType
  <2>3. /\ queue' \in QueueType /\ proc' \in ProcType
        /\ Waiting(queue', proc') /\ (InQueue(Q[d], NULL) => \E x \in Proc : proc'[x] = "dead")
    BY <2>1, <2>2, ServedWaiting
  <2> QED BY <1>9, <2>3 DEF QueueType, ProcType
<1>16. /\ last' \in [Dev -> [Proc -> 0..MaxBytes]] /\ panic' \in {"none", "freed"}
       /\ (panic' = "freed" => InQueue(q, NULL))
  BY <1>1, <1>11 DEF Serving
<1>17. queue'["eth"] = queue["eth"]
  BY <1>7, <1>9, <1>14, DriversConstants
<1> QED BY <1>1, <1>13, <1>15, <1>16, <1>17, CharStep

LEMMA IrqCharKeeps ==
    ASSUME DriversInv, NEW d \in Dev, IrqChar(d)
    PROVE  DriversInv'
<1>1. panic = "none" /\ nin[d] < MaxBytes /\ UNCHANGED <<readers, card>>
  BY DEF IrqChar, CpuIdle
<1>2. PICK r, W : r = ring_put1b(ring[d], nin[d] + 1) /\ W = Woken(queue[d], r)
  OBVIOUS
<1>3. PICK n : n = IF r = ring[d] THEN nin[d] ELSE nin[d] + 1
  OBVIOUS
<1>4. /\ nin' = [nin EXCEPT ![d] = n] /\ Ringreadall(d, queue[d], r)
      /\ proc' = [x \in Proc |-> IF x \in W THEN "run" ELSE proc[x]]
  BY <1>2, <1>3 DEF IrqChar
<1>5. d \in Queues /\ d # "eth" /\ Dev \subseteq Queues /\ MaxBytes \in Nat /\ Room \in Nat
  BY DriversConstants
<1>6. CharOK(queue[d], ring[d], nin[d], last[d], readers[d], panic)
  BY DriversParts
<1>7. Numbered(ring[d], nin[d]) /\ Alone(readers[d], last[d], ring[d], nin[d])
  BY <1>1, <1>6 DEF CharOK
<1>8. ring[d] \in Seq(1..MaxBytes) /\ Len(ring[d]) <= Room /\ nin[d] \in Nat
  BY DriversParts
<1>9. /\ Numbered(r, n) /\ Alone(readers[d], last[d], r, n) /\ r \in Seq(1..MaxBytes) /\ Len(r) <= Room
      /\ n \in 0..MaxBytes
  <2>1. CASE Len(ring[d]) < Room
    <3>1. nin[d] + 1 \in 1..MaxBytes
      BY <1>1, <1>5, <1>8
    <3>2. r = Append(ring[d], nin[d] + 1)
      BY <1>2, <2>1 DEF ring_put1b
    <3>3. /\ r \in Seq(1..MaxBytes) /\ Len(r) = Len(ring[d]) + 1 /\ Len(ring[d]) \in Nat
          /\ r[Len(ring[d]) + 1] = nin[d] + 1 /\ \A i \in 1..Len(ring[d]) : r[i] = ring[d][i]
      BY <1>8, <3>1, <3>2, AppendProperties
    <3>4. n = nin[d] + 1
      BY <1>3, <3>3
    <3>5. Numbered(r, n)
      <4>1. Len(ring[d]) <= nin[d] /\ \A i \in 1..Len(ring[d]) : ring[d][i] = nin[d] - Len(ring[d]) + i
        BY <1>7 DEF Numbered
      <4>2. Len(r) <= n
        BY <1>8, <3>3, <3>4, <4>1
      <4>3. ASSUME NEW i \in 1..Len(r) PROVE r[i] = n - Len(r) + i
        <5>1. CASE i = Len(ring[d]) + 1
          BY <1>8, <3>3, <3>4, <5>1
        <5>2. CASE i # Len(ring[d]) + 1
          <6>1. i \in 1..Len(ring[d])
            BY <3>3, <5>2
          <6> QED BY <1>8, <3>3, <3>4, <4>1, <6>1
        <5> QED BY <5>1, <5>2
      <4> QED BY <4>2, <4>3 DEF Numbered
    <3>6. Alone(readers[d], last[d], r, n)
      <4>1. \A p \in Proc : last[d][p] \in Nat
        BY DriversParts
      <4>2. ASSUME NEW p \in Proc, readers[d] \subseteq {p} PROVE last[d][p] + Len(r) = n
        <5>1. last[d][p] + Len(ring[d]) = nin[d]
          BY <1>7, <4>2 DEF Alone
        <5>2. last[d][p] \in Nat /\ Len(ring[d]) \in Nat
          BY <3>3, <4>1
        <5>3. last[d][p] + (Len(ring[d]) + 1) = nin[d] + 1
          BY <5>1, <5>2
        <5> QED BY <3>3, <3>4, <5>3
      <4> QED BY <4>2 DEF Alone
    <3> QED BY <1>5, <1>8, <2>1, <3>1, <3>3, <3>4, <3>5, <3>6
  <2>2. CASE ~(Len(ring[d]) < Room)
    <3>1. r = ring[d] /\ n = nin[d]
      BY <1>2, <1>3, <2>2 DEF ring_put1b
    <3> QED BY <1>7, <1>8, <3>1, DriversParts
  <2> QED BY <2>1, <2>2
<1>10. PICK t : Serving(d, queue[d], r, t)
  BY <1>4, <1>5, <1>9, DriversParts, RingreadallIs
<1>11. readers[d] \in SUBSET Proc /\ readers' = [readers EXCEPT ![d] = readers[d]] /\ queue[d] \in Seq(Requests)
  BY <1>1, <1>5, DriversParts
<1>12. \A i \in DOMAIN queue[d] : queue[d][i].caller \in readers[d] \cup {NULL}
  BY <1>6 DEF CharOK
<1>13. /\ ring' \in [Dev -> Seq(1..MaxBytes)] /\ (\A c \in Dev : Len(ring'[c]) <= Room)
       /\ nin' \in [Dev -> 0..MaxBytes] /\ readers' \in [Dev -> SUBSET Proc]
       /\ \A c \in Dev : CharOK(queue'[c], ring'[c], nin'[c], last'[c], readers'[c], panic')
  BY <1>1, <1>4, <1>9, <1>10, <1>11, <1>12, ServedChar
<1>14. queue' = [queue EXCEPT ![d] = Left(queue[d], r)]
  BY <1>10 DEF Serving
<1>15. /\ queue' \in [Queues -> Seq(Requests)] /\ proc' \in [Proc -> {"run", "dead", "eth"} \cup Dev]
       /\ Waiting(queue', proc') /\ (InQueue(queue[d], NULL) => \E x \in Proc : proc'[x] = "dead")
  <2>1. Wakes(queue, proc, d, r, W, queue', proc')
    BY <1>2, <1>4, <1>14 DEF Wakes
  <2>2. queue \in QueueType /\ proc \in ProcType /\ Waiting(queue, proc) /\ d \in Queues
    BY <1>5, DriversParts DEF QueueType, ProcType
  <2>3. /\ queue' \in QueueType /\ proc' \in ProcType
        /\ Waiting(queue', proc') /\ (InQueue(queue[d], NULL) => \E x \in Proc : proc'[x] = "dead")
    BY <2>1, <2>2, ServedWaiting
  <2> QED BY <2>3 DEF QueueType, ProcType
<1>16. /\ last' \in [Dev -> [Proc -> 0..MaxBytes]] /\ panic' \in {"none", "freed"}
       /\ (panic' = "freed" => InQueue(queue[d], NULL))
  BY <1>1, <1>10 DEF Serving
<1>17. queue'["eth"] = queue["eth"]
  BY <1>5, <1>14, DriversConstants, DriversParts
<1> QED BY <1>1, <1>13, <1>15, <1>16, <1>17, CharStep

\* A step that leaves the character devices alone, but for the callers that
\* are killed.
LEMMA CardStep ==
    ASSUME DriversInv, panic = "none", UNCHANGED <<chars, use>>,
           queue' \in [Queues -> Seq(Requests)], proc' \in [Proc -> {"run", "dead", "eth"} \cup Dev],
           Waiting(queue', proc'), queue'["eth"] # <<>> => mask',
           rx' \in 0..RxRoom, status' \in BOOLEAN, mask' \in BOOLEAN, irq' \in {"out", "loop", "ack"},
           desc' \in Descs, busy' \in Seq(Descs), InTurn(busy', desc'),
           panic' \in {"none", "tx"}, panic' = "tx" => Len(busy') = NDesc,
           \A d \in Dev : /\ queue[d] = <<>> => queue'[d] = <<>>
                          /\ \A i \in DOMAIN queue'[d] : queue'[d][i].caller \in readers[d] \cup {NULL}
    PROVE  DriversInv'
<1>1. UNCHANGED <<ring, nin, last, readers, use>>
  BY DEF chars
<1>2. DrvType'
  BY <1>1 DEF DriversInv, DrvType
<1>3. ASSUME NEW d \in Dev PROVE CharOK(queue'[d], ring'[d], nin'[d], last'[d], readers'[d], panic')
  <2>1. CharOK(queue[d], ring[d], nin[d], last[d], readers[d], panic)
    BY DriversParts
  <2>2. Numbered(ring'[d], nin'[d]) /\ Alone(readers'[d], last'[d], ring'[d], nin'[d])
    BY <1>1, <2>1 DEF CharOK
  <2>3. queue'[d] = <<>> \/ ring'[d] = <<>>
    BY <1>1, <2>1 DEF CharOK
  <2> QED BY <1>1, <2>2, <2>3 DEF CharOK
<1>4. panic' # "freed"
  OBVIOUS
<1> QED BY <1>2, <1>3, <1>4 DEF DriversInv

\* The queues of the character devices, as they are.
LEMMA CallersAre ==
    ASSUME DriversInv, NEW d \in Dev
    PROVE  \A i \in DOMAIN queue[d] : queue[d][i].caller \in readers[d] \cup {NULL}
<1>1. CharOK(queue[d], ring[d], nin[d], last[d], readers[d], panic)
  BY DriversParts
<1> QED BY <1>1 DEF CharOK

LEMMA CardParts ==
    ASSUME DriversInv
    PROVE  /\ rx \in 0..RxRoom /\ status \in BOOLEAN /\ mask \in BOOLEAN /\ irq \in {"out", "loop", "ack"}
           /\ desc \in Descs /\ busy \in Seq(Descs) /\ InTurn(busy, desc) /\ RxRoom \in Nat
           /\ (queue["eth"] # <<>> => mask) /\ panic \in {"none", "freed", "tx"}
           /\ (panic = "tx" => Len(busy) = NDesc)
BY DriversConstants DEF DriversInv, DrvType

\* Neither the queues nor the processes change.
LEMMA QuietStep ==
    ASSUME DriversInv, panic = "none", UNCHANGED <<chars, use, queue, proc>>, mask => mask',
           rx' \in 0..RxRoom, status' \in BOOLEAN, mask' \in BOOLEAN, irq' \in {"out", "loop", "ack"},
           desc' \in Descs, busy' \in Seq(Descs), InTurn(busy', desc'),
           panic' \in {"none", "tx"}, panic' = "tx" => Len(busy') = NDesc
    PROVE  DriversInv'
<1>1. UNCHANGED <<chars, use>> /\ queue' = queue /\ proc' = proc
  OBVIOUS
<1>2. /\ queue' \in [Queues -> Seq(Requests)] /\ proc' \in [Proc -> {"run", "dead", "eth"} \cup Dev]
      /\ Waiting(queue', proc')
  BY <1>1, DriversParts
<1>3. queue'["eth"] # <<>> => mask'
  BY <1>1, CardParts
<1>4. \A d \in Dev : /\ queue[d] = <<>> => queue'[d] = <<>>
                     /\ \A i \in DOMAIN queue'[d] : queue'[d][i].caller \in readers[d] \cup {NULL}
  BY <1>1, CallersAre
<1> QED BY <1>1, <1>2, <1>3, <1>4, CardStep

LEMMA ArriveKeeps == ASSUME DriversInv, Arrive PROVE DriversInv'
<1>1. /\ panic = "none" /\ UNCHANGED <<use, proc, queue, chars, mask, irq, desc, busy, panic>>
      /\ IF rx < RxRoom THEN rx' = rx + 1 /\ status' = TRUE ELSE rx' = rx /\ status' = status
  BY DEF Arrive
<1>2. rx' \in 0..RxRoom /\ status' \in BOOLEAN
  <2>1. CASE rx < RxRoom
    BY <1>1, <2>1, CardParts
  <2>2. CASE ~(rx < RxRoom)
    BY <1>1, <2>2, CardParts
  <2> QED BY <2>1, <2>2
<1> QED BY <1>1, <1>2, CardParts, QuietStep

LEMMA IrqEnterKeeps == ASSUME DriversInv, IrqEnter PROVE DriversInv'
<1>1. panic = "none" /\ irq' = "loop" /\ UNCHANGED <<use, proc, queue, chars, rx, status, mask, desc, busy, panic>>
  BY DEF IrqEnter, CpuIdle
<1> QED BY <1>1, CardParts, QuietStep

LEMMA IrqAckKeeps == ASSUME DriversInv, IrqAck PROVE DriversInv'
<1>1. /\ panic = "none" /\ irq' = "out" /\ status' = FALSE
      /\ UNCHANGED <<use, proc, queue, chars, rx, mask, desc, busy, panic>>
  BY DEF IrqAck
<1> QED BY <1>1, CardParts, QuietStep

LEMMA TransmittedKeeps == ASSUME DriversInv, Transmitted PROVE DriversInv'
<1>1. /\ panic = "none" /\ busy # <<>> /\ busy' = Tail(busy)
      /\ UNCHANGED <<use, proc, queue, chars, rx, status, mask, irq, desc, panic>>
  BY DEF Transmitted
<1>2. busy \in Seq(Descs) /\ InTurn(busy, desc) /\ desc \in Nat /\ NDesc \in Nat
  BY CardParts, DriversConstants DEF Descs
<1>3. PICK b : b = Tail(busy)
  OBVIOUS
<1>4. /\ b \in Seq(Descs) /\ Len(busy) \in Nat /\ Len(busy) > 0 /\ Len(b) = Len(busy) - 1
      /\ \A i \in 1..Len(b) : b[i] = busy[i + 1]
  BY <1>1, <1>2, <1>3, HeadTailProperties
<1>5. InTurn(b, desc)
  <2>1. Len(b) <= NDesc
    BY <1>2, <1>4 DEF InTurn
  <2>2. ASSUME NEW i \in 1..Len(b)
        PROVE  b[i] = IF desc + i - 1 >= Len(b) THEN desc + i - 1 - Len(b) ELSE desc + i - 1 - Len(b) + NDesc
    <3>1. i + 1 \in 1..Len(busy) /\ b[i] = busy[i + 1]
      BY <1>4
    <3>2. busy[i + 1] = IF desc + (i + 1) - 1 >= Len(busy) THEN desc + (i + 1) - 1 - Len(busy)
                                                           ELSE desc + (i + 1) - 1 - Len(busy) + NDesc
      BY <1>2, <3>1 DEF InTurn
    <3> QED BY <1>2, <1>4, <3>1, <3>2
  <2> QED BY <2>1, <2>2 DEF InTurn
<1> QED BY <1>1, <1>3, <1>4, <1>5, CardParts, QuietStep

\* try_tx finds the descriptor whose turn it is in use only if all are.
LEMMA WriteEthKeeps == ASSUME DriversInv, NEW p \in Proc, panic = "none", WriteEth(p) PROVE DriversInv'
<1>1. /\ UNCHANGED <<use, proc, queue, chars, rx, status, mask, irq>>
      /\ IF desc \in ToSet(busy)
         THEN panic' = "tx" /\ UNCHANGED <<busy, desc>>
         ELSE busy' = Append(busy, desc) /\ desc' = next_desc(desc) /\ UNCHANGED panic
  BY DEF WriteEth
<1>2. /\ busy \in Seq(Descs) /\ InTurn(busy, desc) /\ desc \in Nat /\ NDesc \in Nat /\ desc < NDesc
      /\ desc \in Descs /\ NDesc > 0
  BY CardParts, DriversConstants DEF Descs
<1>3. /\ Len(busy) \in Nat /\ DOMAIN busy = 1..Len(busy) /\ Len(busy) <= NDesc
      /\ \A i \in 1..Len(busy) : busy[i] = IF desc + i - 1 >= Len(busy) THEN desc + i - 1 - Len(busy)
                                                                        ELSE desc + i - 1 - Len(busy) + NDesc
  BY <1>2 DEF InTurn
<1>4. CASE desc \in ToSet(busy)
  <2>1. PICK i \in 1..Len(busy) : busy[i] = desc
    BY <1>3, <1>4 DEF ToSet
  <2>2. Len(busy) = NDesc
    <3>1. i \in Nat /\ 1 <= i /\ i <= Len(busy)
      BY <1>3
    <3>2. desc = IF desc + i - 1 >= Len(busy) THEN desc + i - 1 - Len(busy) ELSE desc + i - 1 - Len(busy) + NDesc
      BY <1>3, <2>1
    <3>3. PICK b \in Nat : b = Len(busy) /\ b <= NDesc
      BY <1>3
    <3>4. desc = IF desc + i - 1 >= b THEN desc + i - 1 - b ELSE desc + i - 1 - b + NDesc
      BY <3>2, <3>3
    <3>5. 1 <= i /\ i <= b
      BY <3>1, <3>3
    <3>6. b = NDesc
      BY <1>2, <3>1, <3>3, <3>4, <3>5
    <3> QED BY <3>3, <3>6
  <2>3. panic' = "tx" /\ busy' = busy /\ desc' = desc
    BY <1>1, <1>4
  <2> QED BY <1>1, <2>2, <2>3, CardParts, QuietStep
<1>5. CASE desc \notin ToSet(busy)
  <2>1. PICK b, d : b = Append(busy, desc) /\ d = next_desc(desc)
    OBVIOUS
  <2>2. b = busy' /\ d = desc' /\ panic' = panic
    BY <1>1, <1>5, <2>1
  <2>3. d = IF desc + 1 = NDesc THEN 0 ELSE desc + 1
    <3>1. (desc + 1) % NDesc = IF desc + 1 = NDesc THEN 0 ELSE desc + 1
      <4>1. CASE desc + 1 = NDesc
        <5>1. NDesc % NDesc = 0
          BY <1>2
        <5> QED BY <4>1, <5>1
      <4>2. CASE desc + 1 # NDesc
        <5>1. desc + 1 \in Nat /\ desc + 1 < NDesc
          BY <1>2, <4>2
        <5> QED BY <1>2, <4>2, <5>1, ModSmall
      <4> QED BY <4>1, <4>2
    <3> QED BY <2>1, <3>1 DEF next_desc
  <2>4. d \in Descs /\ d \in Nat
    BY <1>2, <2>3 DEF Descs
  <2>5. /\ b \in Seq(Descs) /\ Len(b) = Len(busy) + 1
        /\ b[Len(busy) + 1] = desc /\ \A i \in 1..Len(busy) : b[i] = busy[i]
    BY <1>2, <2>1, AppendProperties
  <2>6. Len(busy) < NDesc
    <3>1. PICK k \in Nat : k = Len(busy) /\ k <= NDesc
      BY <1>3
    <3>2. ASSUME k = NDesc PROVE FALSE
      <4>1. 1 \in 1..Len(busy)
        BY <1>2, <3>1, <3>2
      <4>2. busy[1] = IF desc + 1 - 1 >= k THEN desc + 1 - 1 - k ELSE desc + 1 - 1 - k + NDesc
        BY <1>3, <3>1, <4>1
      <4>3. busy[1] = desc
        BY <1>2, <3>2, <4>2
      <4> QED BY <1>3, <1>5, <4>1, <4>3 DEF ToSet
    <3> QED BY <1>2, <3>1, <3>2
  <2>7. InTurn(b, d)
    <3>1. Len(b) <= NDesc
      BY <1>2, <1>3, <2>5, <2>6
    <3>2. ASSUME NEW i \in 1..Len(b)
          PROVE  b[i] = IF d + i - 1 >= Len(b) THEN d + i - 1 - Len(b) ELSE d + i - 1 - Len(b) + NDesc
      <4>1. CASE i = Len(busy) + 1
        BY <1>2, <1>3, <2>3, <2>5, <4>1
      <4>2. CASE i # Len(busy) + 1
        <5>1. i \in 1..Len(busy)
          BY <1>3, <2>5, <4>2
        <5>2. b[i] = IF desc + i - 1 >= Len(busy) THEN desc + i - 1 - Len(busy)
                                                  ELSE desc + i - 1 - Len(busy) + NDesc
          BY <1>3, <2>5, <5>1
        <5> QED BY <1>2, <1>3, <2>3, <2>5, <2>6, <5>1, <5>2
      <4> QED BY <4>1, <4>2
    <3> QED BY <3>1, <3>2 DEF InTurn
  <2> QED BY <1>1, <2>2, <2>4, <2>5, <2>7, CardParts, QuietStep
<1> QED BY <1>4, <1>5

LEMMA ReadEthKeeps == ASSUME DriversInv, NEW p \in Proc, panic = "none", proc[p] = "run", ReadEth(p) PROVE DriversInv'
<1>1. UNCHANGED <<use, chars, status, irq, desc, busy, panic>>
  BY DEF ReadEth
<1>2. CASE rx > 0
  <2>1. rx' = rx - 1 /\ UNCHANGED <<proc, queue, mask>>
    BY <1>2 DEF ReadEth
  <2>2. rx' \in 0..RxRoom
    BY <1>2, <2>1, CardParts
  <2> QED BY <1>1, <2>1, <2>2, CardParts, QuietStep
<1>3. CASE ~(rx > 0)
  <2>1. PICK q, Q, st : /\ q = Append(queue["eth"], [caller |-> p, len |-> 1])
                        /\ Q = [queue EXCEPT !["eth"] = q] /\ st = [proc EXCEPT ![p] = "eth"]
    OBVIOUS
  <2>2. queue' = Q /\ proc' = st /\ mask' = TRUE /\ rx' = rx
    BY <1>3, <2>1 DEF ReadEth, postqueue_join, rx_irq_enabled
  <2>3. "eth" \in Queues /\ "eth" \notin Dev /\ Dev \subseteq Queues
    BY DriversConstants
  <2>4. PICK Q0 \in [Queues -> Seq(Requests)], st0 \in [Proc -> {"run", "dead", "eth"} \cup Dev] :
            Q0 = queue /\ st0 = proc /\ Waiting(Q0, st0) /\ st0[p] = "run"
    BY DriversParts
  <2>5. 1 \in 0..MaxLen
    BY DriversConstants
  <2>6. Q \in [Queues -> Seq(Requests)] /\ st \in [Proc -> {"run", "dead", "eth"} \cup Dev] /\ Waiting(Q, st)
    BY <2>1, <2>3, <2>4, <2>5, JoinedWaiting
  <2>7. \A d \in Dev : Q[d] = queue[d]
    BY <2>1, <2>3, <2>4
  <2>8. \A d \in Dev : /\ queue[d] = <<>> => queue'[d] = <<>>
                       /\ \A i \in DOMAIN queue'[d] : queue'[d][i].caller \in readers[d] \cup {NULL}
    BY <2>2, <2>7, CallersAre
  <2> QED BY <1>1, <2>2, <2>6, <2>8, CardParts, CardStep
<1> QED BY <1>2, <1>3

LEMMA IrqLoopKeeps == ASSUME DriversInv, IrqLoop PROVE DriversInv'
<1>1. panic = "none" /\ UNCHANGED <<use, chars, status, desc, busy, panic>>
  BY DEF IrqLoop
<1>2. PICK q : q = queue["eth"]
  OBVIOUS
<1>3. \/ rx = 0 /\ irq' = "ack" /\ UNCHANGED <<rx, mask, proc, queue>>
      \/ rx > 0 /\ q = <<>> /\ mask' = FALSE /\ irq' = "ack" /\ UNCHANGED <<rx, proc, queue>>
      \/ /\ rx > 0 /\ q # <<>> /\ queue' = [queue EXCEPT !["eth"] = Tail(q)]
         /\ rx' = IF Head(q).caller = NULL THEN rx ELSE rx - 1
         /\ proc' = [x \in Proc |-> IF x = Head(q).caller THEN "run" ELSE proc[x]]
         /\ UNCHANGED <<irq, mask>>
  BY <1>2 DEF IrqLoop
<1>4. CASE rx = 0 /\ irq' = "ack" /\ UNCHANGED <<rx, mask, proc, queue>>
  BY <1>1, <1>4, CardParts, QuietStep
<1>5. CASE rx > 0 /\ q = <<>> /\ mask' = FALSE /\ irq' = "ack" /\ UNCHANGED <<rx, proc, queue>>
  <2>1. queue' = queue /\ proc' = proc /\ queue'["eth"] = <<>>
    BY <1>2, <1>5
  <2>2. /\ queue' \in [Queues -> Seq(Requests)] /\ proc' \in [Proc -> {"run", "dead", "eth"} \cup Dev]
        /\ Waiting(queue', proc')
    BY <2>1, DriversParts
  <2>3. \A d \in Dev : /\ queue[d] = <<>> => queue'[d] = <<>>
                       /\ \A i \in DOMAIN queue'[d] : queue'[d][i].caller \in readers[d] \cup {NULL}
    BY <2>1, CallersAre
  <2> QED BY <1>1, <1>5, <2>1, <2>2, <2>3, CardParts, CardStep
<1>6. CASE /\ rx > 0 /\ q # <<>> /\ queue' = [queue EXCEPT !["eth"] = Tail(q)]
           /\ rx' = IF Head(q).caller = NULL THEN rx ELSE rx - 1
           /\ proc' = [x \in Proc |-> IF x = Head(q).caller THEN "run" ELSE proc[x]]
           /\ UNCHANGED <<irq, mask>>
  <2>1. PICK q2, h, Q, st : /\ q2 = Tail(q) /\ h = Head(q).caller /\ Q = [queue EXCEPT !["eth"] = q2]
                            /\ st = [x \in Proc |-> IF x = h THEN "run" ELSE proc[x]]
    OBVIOUS
  <2>2. queue' = Q /\ proc' = st /\ irq' = irq /\ mask' = mask
    BY <1>6, <2>1
  <2>3. rx' \in 0..RxRoom
    BY <1>6, CardParts
  <2>4. /\ "eth" \in Queues /\ "eth" \notin Dev /\ Dev \subseteq Queues /\ "run" \notin Queues /\ "dead" # "eth"
        /\ NULL \notin Proc /\ "dead" # "run"
    BY DriversConstants
  <2>5. /\ queue \in [Queues -> Seq(Requests)] /\ proc \in [Proc -> {"run", "dead", "eth"} \cup Dev]
    BY DriversParts
  <2>6. /\ \A c \in Queues, y \in Proc : InQueue(queue[c], y) <=> proc[y] = c
        /\ \A c \in Queues : CallerOnce(queue[c])
        /\ \A c \in Queues : InQueue(queue[c], NULL) => \E y \in Proc : proc[y] = "dead"
    BY DriversParts DEF Waiting
  <2>7. /\ q \in Seq(Requests) /\ q2 \in Seq(Requests) /\ Len(q) \in Nat /\ Len(q) > 0 /\ Len(q2) = Len(q) - 1
        /\ DOMAIN q = 1..Len(q) /\ DOMAIN q2 = 1..Len(q2) /\ h = q[1].caller
        /\ \A i \in 1..Len(q2) : q2[i] = q[i + 1]
    BY <1>2, <1>6, <2>1, <2>4, <2>5, HeadTailProperties
  <2>8. /\ Q \in [Queues -> Seq(Requests)] /\ Q["eth"] = q2 /\ (\A c \in Queues : c # "eth" => Q[c] = queue[c])
        /\ st \in [Proc -> {"run", "dead", "eth"} \cup Dev]
        /\ \A x \in Proc : st[x] = IF x = h THEN "run" ELSE proc[x]
    BY <2>1, <2>4, <2>5, <2>7
  <2>9. InQueue(q, h)
    <3>1. 1 \in DOMAIN q
      BY <2>7
    <3> QED BY <2>7, <3>1 DEF InQueue
  <2>10. CallerOnce(q)
    BY <1>2, <2>4, <2>6
  <2>11. \A i \in 1..Len(q2) : i + 1 \in DOMAIN q /\ q2[i].caller = q[i + 1].caller /\ i + 1 # 1
    BY <2>7
  <2>12. \A y : InQueue(q2, y) => InQueue(q, y)
    BY <2>7, <2>11 DEF InQueue
  <2>13. \A y \in Proc : y # h /\ InQueue(q, y) => InQueue(q2, y)
    <3> SUFFICES ASSUME NEW y \in Proc, y # h, NEW i \in DOMAIN q, q[i].caller = y PROVE InQueue(q2, y)
      BY DEF InQueue
    <3>1. i - 1 \in 1..Len(q2) /\ (i - 1) + 1 = i
      BY <2>7
    <3>2. q2[i - 1].caller = y
      BY <2>11, <3>1
    <3> QED BY <2>7, <3>1, <3>2 DEF InQueue
  <2>14. h \in Proc => ~InQueue(q2, h)
    <3> SUFFICES ASSUME h \in Proc, NEW i \in 1..Len(q2), q2[i].caller = h PROVE FALSE
      BY <2>7 DEF InQueue
    <3>1. 1 \in DOMAIN q /\ i + 1 \in DOMAIN q /\ q[i + 1].caller = q[1].caller /\ q[1].caller # NULL /\ i + 1 # 1
      BY <2>4, <2>7, <2>11
    <3> QED BY <2>10, <3>1 DEF CallerOnce
  <2>15. CallerOnce(q2)
    <3> SUFFICES ASSUME NEW i \in DOMAIN q2, NEW j \in DOMAIN q2, q2[i].caller = q2[j].caller, q2[i].caller # NULL
                 PROVE  i = j
      BY DEF CallerOnce
    <3>1. i + 1 = j + 1
      BY <2>7, <2>10, <2>11 DEF CallerOnce
    <3> QED BY <2>7, <3>1
  <2>16. \A y \in Proc : InQueue(q, y) <=> proc[y] = "eth"
    BY <1>2, <2>4, <2>6
  <2>17. ASSUME NEW c \in Queues, NEW y \in Proc PROVE InQueue(Q[c], y) <=> st[y] = c
    <3>1. CASE c = "eth" /\ y = h
      BY <2>4, <2>8, <2>14, <3>1
    <3>2. CASE c = "eth" /\ y # h
      BY <2>8, <2>12, <2>13, <2>16, <3>2
    <3>3. CASE c # "eth" /\ y = h
      <4>1. proc[y] = "eth"
        BY <2>9, <2>16, <3>3
      <4>2. ~InQueue(Q[c], y)
        BY <2>6, <2>8, <3>3, <4>1
      <4> QED BY <2>4, <2>8, <3>3, <4>2
    <3>4. CASE c # "eth" /\ y # h
      BY <2>6, <2>8, <3>4
    <3> QED BY <3>1, <3>2, <3>3, <3>4
  <2>18. \A y \in Proc : proc[y] = "dead" => st[y] = "dead"
    BY <2>4, <2>8, <2>9, <2>16
  <2>19. \A c \in Queues : CallerOnce(Q[c]) /\ (InQueue(Q[c], NULL) => InQueue(queue[c], NULL))
    BY <1>2, <2>6, <2>8, <2>12, <2>15
  <2>20. Waiting(Q, st)
    BY <2>6, <2>17, <2>18, <2>19 DEF Waiting
  <2>21. queue["eth"] # <<>> => mask
    BY CardParts
  <2>22. \A d \in Dev : /\ queue[d] = <<>> => queue'[d] = <<>>
                        /\ \A i \in DOMAIN queue'[d] : queue'[d][i].caller \in readers[d] \cup {NULL}
    <3>1. \A d \in Dev : queue'[d] = queue[d]
      BY <2>2, <2>4, <2>8
    <3> QED BY <3>1, CallersAre
  <2>23. mask' /\ mask' \in BOOLEAN
    BY <1>2, <1>6, <2>2, <2>21, CardParts
  <2> QED BY <1>1, <2>2, <2>3, <2>8, <2>20, <2>22, <2>23, CardParts, CardStep
<1> QED BY <1>3, <1>4, <1>5, <1>6

LEMMA OrphanedIs ==
    ASSUME NEW q \in Seq(Requests), NEW p \in Proc, NEW q2, q2 = orphaned(q, p)
    PROVE  /\ q2 \in Seq(Requests) /\ DOMAIN q2 = DOMAIN q /\ (q = <<>> => q2 = <<>>)
           /\ \A i \in DOMAIN q : q2[i].caller = IF q[i].caller = p THEN NULL ELSE q[i].caller
<1>1. Len(q) \in Nat /\ DOMAIN q = 1..Len(q) /\ \A i \in DOMAIN q : q[i] \in Requests
  BY QueueFacts
<1>2. q2 = [i \in 1..Len(q) |-> IF q[i].caller = p THEN [q[i] EXCEPT !.caller = NULL] ELSE q[i]]
  BY <1>1 DEF orphaned
<1>3. ASSUME NEW i \in 1..Len(q)
      PROVE  q2[i] \in Requests /\ q2[i].caller = IF q[i].caller = p THEN NULL ELSE q[i].caller
  <2>1. CASE q[i].caller = p
    <3>1. q2[i] = [q[i] EXCEPT !.caller = NULL]
      BY <1>2, <2>1
    <3> QED BY <1>1, <2>1, <3>1 DEF Requests
  <2>2. CASE q[i].caller # p
    BY <1>1, <1>2, <2>2
  <2> QED BY <2>1, <2>2
<1>4. q2 \in [1..Len(q) -> Requests]
  BY <1>2, <1>3
<1>5. q2 \in Seq(Requests)
  BY <1>1, <1>4, SeqDef
<1>6. q = <<>> => q2 = <<>>
  BY <1>1, <1>2, <1>5
<1> QED BY <1>1, <1>2, <1>3, <1>5, <1>6

LEMMA KillKeeps == ASSUME DriversInv, NEW p \in Proc, NEW k \in Proc, Kill(p, k) PROVE DriversInv'
<1>1. /\ panic = "none" /\ proc' = [proc EXCEPT ![p] = "dead"] /\ UNCHANGED <<chars, card, panic>>
      /\ queue' = [d \in DOMAIN queue |-> orphaned(queue[d], p)]
  BY DEF Kill, Up
<1>2. UNCHANGED <<use, rx, status, mask, irq, desc, busy>>
  BY <1>1 DEF card
<1>3. PICK Q, st : Q = queue' /\ st = proc'
  OBVIOUS
<1>4. queue \in [Queues -> Seq(Requests)] /\ proc \in [Proc -> {"run", "dead", "eth"} \cup Dev]
  BY DriversParts
<1>5. \A c \in Queues : Q[c] = orphaned(queue[c], p)
  BY <1>1, <1>3, <1>4
<1>6. ASSUME NEW c \in Queues
      PROVE  /\ Q[c] \in Seq(Requests) /\ DOMAIN Q[c] = DOMAIN queue[c] /\ (queue[c] = <<>> => Q[c] = <<>>)
             /\ \A i \in DOMAIN queue[c] : Q[c][i].caller = IF queue[c][i].caller = p THEN NULL ELSE queue[c][i].caller
  BY <1>4, <1>5, OrphanedIs
<1>7. Q = [d \in Queues |-> orphaned(queue[d], p)]
  BY <1>1, <1>3, <1>4
<1>8. Q \in [Queues -> Seq(Requests)]
  BY <1>5, <1>6, <1>7
<1>9. /\ st \in [Proc -> {"run", "dead", "eth"} \cup Dev] /\ st[p] = "dead" /\ \A x \in Proc : x # p => st[x] = proc[x]
  BY <1>1, <1>3, <1>4
<1>10. NULL \notin Proc /\ "dead" \notin Queues /\ "eth" \in Queues /\ Dev \subseteq Queues
  BY DriversConstants
<1>11. /\ \A c \in Queues, y \in Proc : InQueue(queue[c], y) <=> proc[y] = c
       /\ \A c \in Queues : CallerOnce(queue[c])
  BY DriversParts DEF Waiting
<1>12. Waiting(Q, st)
  <2>1. ASSUME NEW c \in Queues, NEW y \in Proc PROVE InQueue(Q[c], y) <=> st[y] = c
    <3>1. CASE y = p
      <4>1. ~InQueue(Q[c], y)
        BY <1>6, <1>10, <3>1 DEF InQueue
      <4> QED BY <1>9, <1>10, <3>1, <4>1
    <3>2. CASE y # p
      <4>1. InQueue(Q[c], y) <=> InQueue(queue[c], y)
        BY <1>6, <1>10, <3>2 DEF InQueue
      <4> QED BY <1>9, <1>11, <3>2, <4>1
    <3> QED BY <3>1, <3>2
  <2>2. ASSUME NEW c \in Queues PROVE CallerOnce(Q[c])
    <3> SUFFICES ASSUME NEW i \in DOMAIN Q[c], NEW j \in DOMAIN Q[c],
                        Q[c][i].caller = Q[c][j].caller, Q[c][i].caller # NULL
                 PROVE  i = j
      BY DEF CallerOnce
    <3>1. queue[c][i].caller = queue[c][j].caller /\ queue[c][i].caller # NULL
      BY <1>6
    <3> QED BY <1>6, <1>11, <3>1 DEF CallerOnce
  <2>3. \E y \in Proc : st[y] = "dead"
    BY <1>9
  <2> QED BY <2>1, <2>2, <2>3 DEF Waiting
<1>13. queue'["eth"] # <<>> => mask'
  BY <1>2, <1>3, <1>6, <1>10, CardParts
<1>14. \A d \in Dev : /\ queue[d] = <<>> => queue'[d] = <<>>
                      /\ \A i \in DOMAIN queue'[d] : queue'[d][i].caller \in readers[d] \cup {NULL}
  <2> TAKE d \in Dev
  <2>1. \A i \in DOMAIN queue[d] : queue[d][i].caller \in readers[d] \cup {NULL}
    BY CallersAre
  <2>2. d \in Queues
    BY <1>10
  <2> QED BY <1>3, <1>6, <2>1, <2>2
<1>15. UNCHANGED <<chars, use>> /\ panic' = "none"
  BY <1>1, <1>2
<1> QED BY <1>1, <1>2, <1>3, <1>8, <1>9, <1>12, <1>13, <1>14, <1>15, CardParts, CardStep

LEMMA DriversInitInv == DriversInit => DriversInv
<1> SUFFICES ASSUME DriversInit PROVE DriversInv
  OBVIOUS
<1>1. /\ use \in Uses /\ proc = [p \in Proc |-> "run"] /\ queue = [d \in Queues |-> <<>>]
      /\ ring = [d \in Dev |-> <<>>] /\ nin = [d \in Dev |-> 0]
      /\ last = [d \in Dev |-> [p \in Proc |-> 0]] /\ readers = [d \in Dev |-> {}]
      /\ rx = 0 /\ status = FALSE /\ mask = FALSE /\ irq = "out"
      /\ desc = 0 /\ busy = <<>> /\ panic = "none"
  BY DEF DriversInit, Queues
<1>2. /\ Room \in Nat /\ MaxBytes \in Nat /\ RxRoom \in Nat /\ NDesc \in Nat /\ NDesc > 0
      /\ "run" \notin Queues /\ Dev \subseteq Queues /\ "eth" \in Queues
  BY DriversConstants
<1>3. DrvType
  <2>1. desc \in Descs /\ busy \in Seq(Descs) /\ rx \in 0..RxRoom /\ status \in BOOLEAN /\ mask \in BOOLEAN
    <3>1. 0 \in 0..(NDesc - 1) /\ 0 \in 0..RxRoom
      BY <1>2
    <3>2. <<>> \in Seq(Descs)
      OBVIOUS
    <3> QED BY <1>1, <3>1, <3>2 DEF Descs
  <2>2. ring \in [Dev -> Seq(1..MaxBytes)] /\ \A d \in Dev : Len(ring[d]) <= Room
    BY <1>1, <1>2
  <2>3. nin \in [Dev -> 0..MaxBytes] /\ last \in [Dev -> [Proc -> 0..MaxBytes]] /\ readers \in [Dev -> SUBSET Proc]
    BY <1>1, <1>2
  <2>4. queue \in [Queues -> Seq(Requests)] /\ proc \in [Proc -> {"run", "dead", "eth"} \cup Dev]
    BY <1>1
  <2> QED BY <1>1, <2>1, <2>2, <2>3, <2>4 DEF DrvType
<1>4. Waiting(queue, proc)
  <2>1. \A d \in Queues : queue[d] = <<>>
    BY <1>1
  <2>2. CallerOnce(<<>>) /\ \A x : ~InQueue(<<>>, x)
    BY DEF CallerOnce, InQueue
  <2>3. \A p \in Proc : proc[p] = "run"
    BY <1>1
  <2> QED BY <1>2, <2>1, <2>2, <2>3 DEF Waiting
<1>5. ASSUME NEW d \in Dev PROVE CharOK(queue[d], ring[d], nin[d], last[d], readers[d], panic)
  <2>1. /\ queue[d] = <<>> /\ ring[d] = <<>> /\ nin[d] = 0 /\ Len(ring[d]) = 0 /\ \A p \in Proc : last[d][p] = 0
    BY <1>1, <1>2
  <2>2. Numbered(ring[d], nin[d])
    <3>1. 1..Len(ring[d]) = {}
      BY <2>1
    <3> QED BY <2>1, <3>1 DEF Numbered
  <2>3. Alone(readers[d], last[d], ring[d], nin[d])
    <3>1. \A p \in Proc : last[d][p] + Len(ring[d]) = 0
      BY <2>1
    <3> QED BY <2>1, <3>1 DEF Alone
  <2>4. DOMAIN queue[d] = {}
    BY <2>1
  <2> QED BY <2>1, <2>2, <2>3, <2>4 DEF CharOK
<1>6. InTurn(busy, desc)
  BY <1>1, <1>2 DEF InTurn
<1>7. queue["eth"] = <<>>
  BY <1>1, <1>2
<1>8. panic # "tx" /\ panic # "freed"
  BY <1>1
<1> QED BY <1>3, <1>4, <1>5, <1>6, <1>7, <1>8 DEF DriversInv

LEMMA DriversStep == DriversInv /\ [DriversNext]_drivers_vars => DriversInv'
<1> SUFFICES ASSUME DriversInv, [DriversNext]_drivers_vars PROVE DriversInv'
  OBVIOUS
<1>1. "com1" \in use => "com1" \in Dev
  BY DriversParts, DriversAssumption DEF DrvType
<1>2. \A d \in {"kb", "mouse"} \cap use : d \in Dev
  BY DriversParts, DriversAssumption DEF DrvType
<1>3. ASSUME NEW p \in Proc, NEW len \in 0..MaxLen, SerialAccept(p, len) \/ Ps2Accept(p, len) PROVE DriversInv'
  BY <1>1, <1>2, <1>3, ReadCharKeeps DEF SerialAccept, Ps2Accept
<1>4. ASSUME NEW p \in Proc, EthAccept(p) PROVE DriversInv'
  BY <1>4, ReadEthKeeps, WriteEthKeeps DEF EthAccept, Up
<1>5. ASSUME NEW p \in Proc, NEW k \in Proc, Kill(p, k) PROVE DriversInv'
  BY <1>5, KillKeeps
<1>6. ASSUME SerialIrq \/ Ps2Irq PROVE DriversInv'
  BY <1>1, <1>2, <1>6, IrqCharKeeps DEF SerialIrq, Ps2Irq
<1>7. ASSUME Arrive \/ Irq \/ Transmitted PROVE DriversInv'
  BY <1>7, ArriveKeeps, IrqEnterKeeps, IrqLoopKeeps, IrqAckKeeps, TransmittedKeeps DEF Irq
<1>8. CASE UNCHANGED drivers_vars
  <2>1. UNCHANGED <<use, proc, queue, ring, nin, last, readers, rx, status, mask, irq, desc, busy, panic>>
    BY <1>8 DEF drivers_vars
  <2>2. DrvType'
    BY <2>1, DriversParts DEF DrvType
  <2> QED BY <2>1, <2>2 DEF DriversInv
<1> QED BY <1>3, <1>4, <1>5, <1>6, <1>7, <1>8 DEF DriversNext

LEMMA DriversInvAlways == DriversSpec => []DriversInv
<1> QED BY DriversInitInv, DriversStep, PTL DEF DriversSpec

LEMMA DriversInvGives == DriversInv => DriversSound
<1> SUFFICES ASSUME DriversInv PROVE DriversSound
  OBVIOUS
<1>1. DriversTypeOK
  BY DriversParts, CardParts DEF DriversTypeOK, Queues, Descs
<1>2. ASSUME NEW d \in Dev PROVE CharOK(queue[d], ring[d], nin[d], last[d], readers[d], panic)
  BY DriversParts
<1>3. NoMissedByte
  BY <1>2 DEF NoMissedByte, CharOK
<1>4. SoleReaderGapless
  BY <1>2 DEF SoleReaderGapless, CharOK, Alone
<1>5. WaitersQueued
  <2>1. ASSUME NEW d \in Queues, NEW p \in Proc
        PROVE  Cardinality({i \in DOMAIN queue[d] : queue[d][i].caller = p}) = IF proc[p] = d THEN 1 ELSE 0
    <3>1. (InQueue(queue[d], p) <=> proc[p] = d) /\ CallerOnce(queue[d])
      BY DriversParts DEF Waiting
    <3>2. PICK S : S = {i \in DOMAIN queue[d] : queue[d][i].caller = p}
      OBVIOUS
    <3>3. CASE proc[p] = d
      <4>1. PICK i \in DOMAIN queue[d] : queue[d][i].caller = p
        BY <3>1, <3>3 DEF InQueue
      <4>2. S = {i}
        BY <3>1, <3>2, <4>1, DriversConstants DEF CallerOnce
      <4>3. Cardinality({i}) = 1
        BY FS_Singleton
      <4> QED BY <3>2, <3>3, <4>2, <4>3
    <3>4. CASE proc[p] # d
      <4>1. S = {}
        BY <3>1, <3>2, <3>4 DEF InQueue
      <4>2. Cardinality({}) = 0
        BY FS_EmptySet
      <4> QED BY <3>2, <3>4, <4>1, <4>2
    <3> QED BY <3>3, <3>4
  <2> QED BY <2>1 DEF WaitersQueued, Queues
<1>6. IrqArmed
  BY CardParts DEF IrqArmed
<1>7. KnownPanics
  BY CardParts DEF KnownPanics, DriversInv
<1> QED BY <1>1, <1>3, <1>4, <1>5, <1>6, <1>7 DEF DriversSound

\* serial.c, ps2.c and rtl8139.c, with driver/util.c: for any number of
\* processes, devices and descriptors, whatever is read, stored, transmitted
\* and killed in whatever order, no reader sleeps while its device has bytes, a
\* reader that is alone misses no byte, exactly the processes that wait are in
\* the queues, the card interrupts while a read waits, and try_tx fails only if
\* the card has all the descriptors.
THEOREM DriversAlwaysSound == DriversSpec => []DriversSound
<1> QED BY DriversInvAlways, DriversInvGives, PTL

-----------------------------------------------------------------------------
(* Reassembly, src/cmd/netstack/ipv4.c. *)

\* What is known of a piece of packet p, however it was cut.
Piece(p, g) ==
    /\ g.pkt = p /\ g.offset \in Nat /\ g.len \in Nat \ {0} /\ g.last \in BOOLEAN
    /\ g.offset + g.len <= PayloadLen[p] /\ (g.last <=> g.offset + g.len = PayloadLen[p])

\* A list of pieces of one packet, in order of offset.
PiecesOf(p, l) ==
    /\ l \in Seq(OnTheWire) /\ \A i \in 1..Len(l) : Piece(p, l[i])
    /\ \A i, j \in 1..Len(l) : i < j => l[i].offset < l[j].offset

\* Unit k of the payload is in none of them.
Hole(p, l, k) == k \in 0..(PayloadLen[p] - 1) /\ \A i \in 1..Len(l) : ~(l[i].offset <= k /\ k < end(l[i]))

Ipv4Inv ==
    /\ next_id \in 0..Len(PayloadLen) /\ running \in BOOLEAN /\ DOMAIN fragmenteds = Id
    /\ \A d \in Id : fragmenteds[d] = <<>>
            \/ \E p \in Packet : p % IdMod = d /\ PiecesOf(p, fragmenteds[d]) /\ \E k \in Nat : Hole(p, fragmenteds[d], k)
    /\ PayloadIntact

LEMMA PacketIs ==
    ASSUME next_id \in 0..Len(PayloadLen), NEW p \in Packet
    PROVE  p \in Nat \ {0} /\ p <= IdMod /\ PayloadLen[p] \in Nat \ {0} /\ IdMod \in Nat \ {0}
<1>1. Len(PayloadLen) \in Nat /\ Len(PayloadLen) <= IdMod /\ PayloadLen \in Seq(Nat \ {0})
  BY Ipv4Assumption, LenProperties
<1>2. p \in 1..Len(PayloadLen)
  BY <1>1 DEF Packet
<1>3. PayloadLen[p] \in Nat \ {0}
  BY <1>1, <1>2, ElementOfSeq
<1> QED BY <1>1, <1>2, <1>3, Ipv4Assumption

\* The pieces that ipv4_send and the network make.
LEMMA FragmentIsPiece ==
    ASSUME next_id \in 0..Len(PayloadLen), NEW p \in Packet, NEW g \in fragments(p)
    PROVE  Piece(p, g) /\ g = [pkt |-> p, offset |-> g.offset, len |-> g.len, last |-> g.last]
<1>1. PICK n \in Nat \ {0} : n = PayloadLen[p]
  BY PacketIs
<1>2. PICK i \in Nat : i * FragMax < n
             /\ g = LET off == i * FragMax
                        m == IF FragMax > n - off THEN n - off ELSE FragMax
                    IN [pkt |-> p, offset |-> off, len |-> m, last |-> final(off, m, n)]
  BY <1>1 DEF fragments
<1>3. PICK off \in Nat : off = i * FragMax
  BY Ipv4Assumption
<1>4. off < n /\ off \in Nat
  BY <1>2, <1>3
<1>5. PICK m \in Nat \ {0} : m = (IF FragMax > n - off THEN n - off ELSE FragMax) /\ off + m <= n
  <2>1. FragMax \in Nat /\ FragMax > 0
    BY Ipv4Assumption
  <2>2. n - off \in Nat \ {0} /\ off + (n - off) = n
    BY <1>4
  <2>3. ~(FragMax > n - off) => off + FragMax <= n
    BY <1>4, <2>1
  <2>4. CASE FragMax > n - off
    BY <2>2, <2>4
  <2>5. CASE ~(FragMax > n - off)
    BY <2>1, <2>3, <2>5
  <2> QED BY <2>4, <2>5
<1>6. g = [pkt |-> p, offset |-> off, len |-> m, last |-> final(off, m, n)]
  BY <1>2, <1>3, <1>5
<1>7. final(off, m, n) \in BOOLEAN /\ (final(off, m, n) <=> off + m = n)
  BY <1>4, <1>5 DEF final
<1> QED BY <1>1, <1>4, <1>5, <1>6, <1>7 DEF Piece

LEMMA CutIsPiece ==
    ASSUME next_id \in 0..Len(PayloadLen), NEW p \in Packet, NEW e \in fragments(p), NEW g \in cut(e)
    PROVE  Piece(p, g)
<1>1. Piece(p, e) /\ e = [pkt |-> p, offset |-> e.offset, len |-> e.len, last |-> e.last]
  BY FragmentIsPiece
<1>2. PICK n \in Nat \ {0} : n = PayloadLen[p]
  BY PacketIs
<1>3. PICK o \in Nat, m \in Nat \ {0}, z \in BOOLEAN : o = e.offset /\ m = e.len /\ z = e.last
  BY <1>1 DEF Piece
<1>4. e = [pkt |-> p, offset |-> o, len |-> m, last |-> z] /\ o + m <= n /\ (z <=> o + m = n)
  BY <1>1, <1>2, <1>3 DEF Piece
<1>5. CASE g \in {[e EXCEPT !.len = k, !.last = FALSE] : k \in 1..(e.len - 1)}
  <2>0. PICK k \in 1..(m - 1) : g = [e EXCEPT !.len = k, !.last = FALSE]
    BY <1>3, <1>5
  <2>1. g = [pkt |-> p, offset |-> o, len |-> k, last |-> FALSE]
    BY <1>4, <2>0
  <2> QED BY <1>2, <1>4, <2>1 DEF Piece
<1>6. CASE g \in {[e EXCEPT !.offset = e.offset + k, !.len = e.len - k] : k \in 1..(e.len - 1)}
  <2>0. PICK k \in 1..(m - 1) : g = [e EXCEPT !.offset = o + k, !.len = m - k]
    BY <1>3, <1>6
  <2>1. g = [pkt |-> p, offset |-> o + k, len |-> m - k, last |-> z]
    BY <1>4, <2>0
  <2> QED BY <1>2, <1>4, <2>1 DEF Piece
<1> QED BY <1>5, <1>6 DEF cut

LEMMA WirePiece ==
    ASSUME next_id \in 0..Len(PayloadLen), NEW g \in OnTheWire
    PROVE  g.pkt \in Packet /\ Piece(g.pkt, g)
<1>1. PICK p \in Packet : g \in fragments(p) \cup UNION {cut(e) : e \in fragments(p)}
  BY DEF OnTheWire
<1>2. Piece(p, g)
  BY <1>1, FragmentIsPiece, CutIsPiece
<1> QED BY <1>2 DEF Piece

\* What is on the wire stays there.
LEMMA WireGrows ==
    ASSUME next_id \in Nat, next_id' \in Nat, next_id <= next_id'
    PROVE  Packet \subseteq Packet' /\ OnTheWire \subseteq OnTheWire'
BY DEF OnTheWire, Packet

-----------------------------------------------------------------------------
(* A list of pieces of one packet. *)

\* The scan of fragmented_tryfinish sees all gaps and overlaps.
LEMMA CompleteIsContiguous ==
    ASSUME NEW p, NEW l, PiecesOf(p, l), ~incomplete(l), ~overlap(l)
    PROVE  l[1].offset = 0 /\ \A i \in 1..(Len(l) - 1) : end(l[i]) = l[i + 1].offset
<1>1. PICK n \in Nat : n = Len(l)
  BY LenProperties DEF PiecesOf
<1>2. l[1].offset = 0
  BY DEF incomplete
<1> DEFINE Bad == {i \in 1..(n - 1) : end(l[i]) # l[i + 1].offset}
<1>3. ASSUME Bad # {} PROVE FALSE
  <2>0. Bad \in SUBSET Nat
    OBVIOUS
  <2>1. PICK i \in Bad : \A j \in Bad : i <= j
    <3> HIDE DEF Bad
    <3> QED BY <1>3, <2>0, SmallestExists
  <2>2. i \in 1..(n - 1) /\ end(l[i]) # l[i + 1].offset
    OBVIOUS
  <2>3. \A j \in 1..(i - 1) : end(l[j]) = l[j + 1].offset
    BY <2>1, <2>2
  <2>4. end(l[i]) \in Nat /\ l[i + 1].offset \in Nat
    BY <1>1, <2>2 DEF PiecesOf, Piece, end
  <2>5. ~(end(l[i]) > l[i + 1].offset)
    BY <1>1, <2>2 DEF overlap
  <2> QED BY <1>1, <2>2, <2>3, <2>4, <2>5 DEF incomplete
<1> QED BY <1>1, <1>2, <1>3

\* Pieces that follow each other hold every unit up to the end of the last.
LEMMA ContiguousCovers ==
    ASSUME NEW p, NEW l, PiecesOf(p, l), l # <<>>, l[1].offset = 0,
           \A i \in 1..(Len(l) - 1) : end(l[i]) = l[i + 1].offset,
           NEW k \in Nat \ {0}, k <= end(l[Len(l)])
    PROVE  \E i \in 1..Len(l) : l[i].offset < k /\ k <= end(l[i])
<1>1. PICK n \in Nat \ {0} : n = Len(l)
  BY LenProperties, EmptySeq DEF PiecesOf
<1>2. \A i \in 1..n : end(l[i]) \in Nat /\ l[i].offset \in Nat
  BY <1>1 DEF PiecesOf, Piece, end
<1> DEFINE S == {i \in 1..n : k <= end(l[i])}
<1>3. PICK i \in S : \A j \in S : i <= j
  <2>1. n \in S
    BY <1>1
  <2>2. S \in SUBSET Nat
    OBVIOUS
  <2> HIDE DEF S
  <2> QED BY <2>1, <2>2, SmallestExists
<1>4. CASE i = 1
  BY <1>1, <1>3, <1>4
<1>5. CASE i # 1
  <2>1. i - 1 \in 1..(n - 1) /\ i - 1 \notin S
    BY <1>3, <1>5
  <2>2. end(l[i - 1]) < k /\ end(l[i - 1]) = l[i].offset
    BY <1>1, <1>2, <2>1
  <2> QED BY <1>1, <1>3, <2>2
<1> QED BY <1>4, <1>5

\* What is handed on is the payload.
LEMMA AssembledIsPayload ==
    ASSUME next_id \in 0..Len(PayloadLen), NEW p \in Packet, NEW l, PiecesOf(p, l), l # <<>>, l[1].offset = 0,
           \A i \in 1..(Len(l) - 1) : end(l[i]) = l[i + 1].offset, Last(l).last
    PROVE  assembled(l) = Payload(p)
<1>1. PICK n \in Nat \ {0} : n = Len(l)
  BY LenProperties, EmptySeq DEF PiecesOf
<1>2. PICK m \in Nat \ {0} : m = PayloadLen[p]
  BY PacketIs
<1>3. end(Last(l)) = m /\ end(l[n]) = m
  <2>1. Piece(p, l[n]) /\ Last(l) = l[n]
    BY <1>1 DEF PiecesOf, Last
  <2> QED BY <1>2, <2>1 DEF Piece, end
<1> DEFINE F(k) == {g \in Range(l) : g.offset < k /\ k <= end(g)}
<1>4. \A k \in 1..m : F(k) # {} /\ \A g \in F(k) : g.pkt = p
  <2> SUFFICES ASSUME NEW k \in 1..m PROVE F(k) # {} /\ \A g \in F(k) : g.pkt = p
    OBVIOUS
  <2>1. DOMAIN l = 1..n /\ Range(l) = {l[i] : i \in 1..n}
    BY <1>1, LenProperties DEF PiecesOf, Range
  <2>2. \A i \in 1..n : l[i].pkt = p
    BY <1>1 DEF PiecesOf, Piece
  <2>3. \E i \in 1..n : l[i].offset < k /\ k <= end(l[i])
    <3>1. k \in Nat \ {0} /\ k <= end(l[Len(l)])
      BY <1>1, <1>3
    <3> QED BY <1>1, <3>1, ContiguousCovers
  <2> QED BY <2>1, <2>2, <2>3
<1>5. assembled(l) = [k \in 1..m |-> IF F(k) = {} THEN Unit(0, 0) ELSE Unit((CHOOSE g \in F(k) : TRUE).pkt, k - 1)]
  BY <1>3 DEF assembled
<1>6. \A k \in 1..m : (CHOOSE g \in F(k) : TRUE).pkt = p
  <2> SUFFICES ASSUME NEW k \in 1..m PROVE (CHOOSE g \in F(k) : TRUE).pkt = p
    OBVIOUS
  <2>1. PICK S : S = F(k)
    OBVIOUS
  <2>2. S # {} /\ \A g \in S : g.pkt = p
    BY <1>4, <2>1
  <2>3. (CHOOSE g \in S : TRUE) \in S
    BY <2>2
  <2> QED BY <2>1, <2>2, <2>3
<1> HIDE DEF F
<1> QED BY <1>2, <1>4, <1>5, <1>6 DEF Payload

\* A list that is not complete has a hole.
LEMMA GapIsHole ==
    ASSUME next_id \in 0..Len(PayloadLen), NEW p \in Packet, NEW l, PiecesOf(p, l), l # <<>>,
           incomplete(l) \/ (~overlap(l) /\ ~Last(l).last)
    PROVE  \E k \in Nat : Hole(p, l, k)
<1>1. PICK n \in Nat \ {0} : n = Len(l)
  BY LenProperties, EmptySeq DEF PiecesOf
<1>2. PICK m \in Nat \ {0} : m = PayloadLen[p]
  BY PacketIs
<1>3. \A i \in 1..n : /\ l[i].offset \in Nat /\ end(l[i]) \in Nat /\ l[i].offset < end(l[i])
                      /\ end(l[i]) <= m /\ (l[i].last <=> end(l[i]) = m)
  BY <1>1, <1>2 DEF PiecesOf, Piece, end
<1>4. \A i, j \in 1..n : i < j => l[i].offset < l[j].offset
  BY <1>1 DEF PiecesOf
<1>5. ASSUME NEW i \in 1..n, \A j \in 1..(i - 1) : end(l[j]) = l[j + 1].offset,
             end(l[i]) < m, i < n => end(l[i]) < l[i + 1].offset
      PROVE  Hole(p, l, end(l[i]))
  <2>1. end(l[i]) \in 0..(m - 1)
    BY <1>3, <1>5
  <2> SUFFICES ASSUME NEW j \in 1..n PROVE ~(l[j].offset <= end(l[i]) /\ end(l[i]) < end(l[j]))
    BY <1>1, <1>2, <2>1 DEF Hole
  <2>2. CASE j < i
    <3>1. end(l[j]) = l[j + 1].offset
      BY <1>5, <2>2
    <3>2. l[j + 1].offset <= l[i].offset
      <4>1. CASE j + 1 = i
        BY <1>3, <4>1
      <4>2. CASE j + 1 < i
        BY <1>3, <1>4, <4>2
      <4> QED BY <2>2, <4>1, <4>2
    <3> QED BY <1>3, <2>2, <3>1, <3>2
  <2>3. CASE j = i
    BY <1>3, <2>3
  <2>4. CASE j > i
    <3>1. end(l[i]) < l[i + 1].offset
      BY <1>5, <2>4
    <3>2. l[i + 1].offset <= l[j].offset
      <4>1. CASE i + 1 = j
        BY <1>3, <4>1
      <4>2. CASE i + 1 < j
        BY <1>3, <1>4, <4>2
      <4> QED BY <2>4, <4>1, <4>2
    <3> QED BY <1>3, <2>4, <3>1, <3>2
  <2> QED BY <2>2, <2>3, <2>4
<1>6. CASE l[1].offset # 0
  <2>1. \A i \in 1..n : l[i].offset > 0
    <3> SUFFICES ASSUME NEW i \in 1..n PROVE l[i].offset > 0
      OBVIOUS
    <3>1. l[1].offset > 0 /\ (1 < i => l[1].offset < l[i].offset)
      BY <1>3, <1>4, <1>6
    <3> QED BY <1>3, <3>1
  <2>2. Hole(p, l, 0)
    BY <1>1, <1>2, <1>3, <2>1 DEF Hole
  <2> QED BY <2>2
<1>7. CASE \E i \in 1..(n - 1) : end(l[i]) < l[i + 1].offset /\ \A j \in 1..(i - 1) : end(l[j]) = l[j + 1].offset
  <2>1. PICK i \in 1..(n - 1) : end(l[i]) < l[i + 1].offset /\ \A j \in 1..(i - 1) : end(l[j]) = l[j + 1].offset
    BY <1>7
  <2>2. end(l[i]) < m /\ end(l[i]) \in Nat
    <3>1. l[i + 1].offset < m /\ l[i + 1].offset \in Nat /\ end(l[i]) \in Nat
      BY <1>3
    <3> QED BY <2>1, <3>1
  <2> QED BY <1>5, <2>1, <2>2
<1>8. CASE ~incomplete(l)
  <2>1. ~overlap(l) /\ ~Last(l).last
    BY <1>8
  <2>2. \A i \in 1..(n - 1) : end(l[i]) = l[i + 1].offset
    BY <1>1, <1>8, <2>1, CompleteIsContiguous
  <2>3. end(l[n]) < m /\ end(l[n]) \in Nat
    BY <1>1, <1>3, <2>1 DEF Last
  <2> QED BY <1>5, <2>2, <2>3
<1> QED BY <1>1, <1>6, <1>7, <1>8 DEF incomplete

\* fragmented_tryinsert keeps the order, and has an effect unless it returns the
\* list itself.
LEMMA InsertedIs ==
    ASSUME next_id \in 0..Len(PayloadLen), NEW g \in OnTheWire, NEW l, PiecesOf(g.pkt, l)
    PROVE  inserted(l, g) = l \/ (PiecesOf(g.pkt, inserted(l, g)) /\ inserted(l, g) # <<>>)
<1>1. PICK n \in Nat : n = Len(l)
  BY LenProperties DEF PiecesOf
<1>2. Piece(g.pkt, g) /\ l \in Seq(OnTheWire)
  BY WirePiece DEF PiecesOf
<1>3. /\ \A i \in 1..n : Piece(g.pkt, l[i]) /\ l[i].offset \in Nat
      /\ \A i, j \in 1..n : i < j => l[i].offset < l[j].offset
      /\ g.offset \in Nat
  BY <1>1, <1>2 DEF PiecesOf, Piece
<1> DEFINE S == {i \in 1..n : l[i].offset >= g.offset}
<1>4. PICK at : at = (IF S # {} THEN Min(S) ELSE 0)
  OBVIOUS
<1>5. inserted(l, g) = IF at = 0 THEN Append(l, g)
                       ELSE IF l[at].offset = g.offset \/ g.last THEN l ELSE InsertAt(l, at, g)
  BY <1>1, <1>4 DEF inserted, SelectInSeq
<1>6. S # {} => at \in S /\ \A j \in S : at <= j
  <2> SUFFICES ASSUME S # {} PROVE at \in S /\ \A j \in S : at <= j
    OBVIOUS
  <2>1. S \in SUBSET Nat
    OBVIOUS
  <2>2. at = CHOOSE x \in S : \A y \in S : x <= y
    BY <1>4 DEF Min
  <2> HIDE DEF S
  <2> QED BY <2>1, <2>2, SmallestExists
<1>7. CASE S = {}
  <2>1. \A i \in 1..n : l[i].offset < g.offset
    BY <1>3, <1>7
  <2>2. PICK t : t = Append(l, g)
    OBVIOUS
  <2>3. t \in Seq(OnTheWire) /\ Len(t) = n + 1 /\ \A i \in 1..n : t[i] = l[i]
    BY <1>1, <1>2, <2>2, AppendProperties
  <2>4. t[n + 1] = g
    BY <1>1, <1>2, <2>2, AppendProperties
  <2>5. PiecesOf(g.pkt, t)
    <3>1. \A i \in 1..(n + 1) : Piece(g.pkt, t[i])
      BY <1>2, <1>3, <2>3, <2>4
    <3>2. \A i, j \in 1..(n + 1) : i < j => t[i].offset < t[j].offset
      <4> SUFFICES ASSUME NEW i \in 1..(n + 1), NEW j \in 1..(n + 1), i < j PROVE t[i].offset < t[j].offset
        OBVIOUS
      <4>1. i \in 1..n /\ t[i] = l[i]
        BY <2>3
      <4>2. CASE j = n + 1
        BY <2>1, <2>4, <4>1, <4>2
      <4>3. CASE j # n + 1
        <5>1. j \in 1..n /\ t[j] = l[j]
          BY <2>3, <4>3
        <5> QED BY <1>3, <4>1, <5>1
      <4> QED BY <4>2, <4>3
    <3> QED BY <2>3, <3>1, <3>2 DEF PiecesOf
  <2>6. inserted(l, g) = t /\ t # <<>>
    BY <1>4, <1>5, <1>7, <2>2, <2>3
  <2> QED BY <2>5, <2>6
<1>8. CASE S # {} /\ ~(l[at].offset = g.offset \/ g.last)
  <2>1. at \in 1..n /\ l[at].offset > g.offset /\ \A i \in 1..(at - 1) : l[i].offset < g.offset
    <3>1. at \in S /\ \A j \in S : at <= j
      BY <1>6, <1>8
    <3>2. at \in 1..n /\ l[at].offset >= g.offset
      BY <3>1
    <3>3. \A i \in 1..(at - 1) : i \in 1..n /\ i \notin S
      BY <3>1, <3>2
    <3> QED BY <1>3, <1>8, <3>2, <3>3
  <2>2. PICK a : a = SubSeq(l, 1, at - 1)
    OBVIOUS
  <2>3. PICK b : b = SubSeq(l, at, n)
    OBVIOUS
  <2>4. a \in Seq(OnTheWire) /\ Len(a) = at - 1 /\ \A i \in 1..(at - 1) : a[i] = l[i]
    BY <1>1, <1>2, <2>1, <2>2, SubSeqProperties
  <2>5. b \in Seq(OnTheWire) /\ Len(b) = n - at + 1 /\ \A i \in 1..(n - at + 1) : b[i] = l[at + i - 1]
    BY <1>1, <1>2, <2>1, <2>3, SubSeqProperties
  <2>6. PICK t : t = a \o <<g>> \o b
    OBVIOUS
  <2>7. <<g>> \in Seq(OnTheWire) /\ Len(<<g>>) = 1 /\ <<g>>[1] = g
    OBVIOUS
  <2>8. PICK u : u = a \o <<g>>
    OBVIOUS
  <2>9. u \in Seq(OnTheWire) /\ Len(u) = at /\ (\A i \in 1..(at - 1) : u[i] = l[i]) /\ u[at] = g
    BY <2>1, <2>4, <2>7, <2>8, ConcatProperties
  <2>10. t = u \o b
    BY <2>6, <2>8
  <2>11. t \in Seq(OnTheWire) /\ Len(t) = n + 1 /\ \A i \in 1..(n + 1) : t[i] = IF i <= at THEN u[i] ELSE b[i - at]
    <3>1. /\ t \in Seq(OnTheWire) /\ Len(t) = Len(u) + Len(b)
          /\ \A i \in 1..(Len(u) + Len(b)) : t[i] = IF i <= Len(u) THEN u[i] ELSE b[i - Len(u)]
      BY <2>5, <2>9, <2>10, ConcatProperties
    <3>2. Len(u) = at /\ Len(u) + Len(b) = n + 1
      BY <2>1, <2>5, <2>9
    <3> QED BY <3>1, <3>2
  <2>12. \A i \in 1..(n + 1) : t[i] = IF i < at THEN l[i] ELSE IF i = at THEN g ELSE l[i - 1]
    <3> SUFFICES ASSUME NEW i \in 1..(n + 1) PROVE t[i] = IF i < at THEN l[i] ELSE IF i = at THEN g ELSE l[i - 1]
      OBVIOUS
    <3>1. CASE i <= at
      BY <2>1, <2>9, <2>11, <3>1
    <3>2. CASE i > at
      <4>1. i - at \in 1..(n - at + 1) /\ at + (i - at) - 1 = i - 1
        BY <2>1, <3>2
      <4>2. t[i] = b[i - at]
        BY <2>1, <2>11, <3>2
      <4> QED BY <2>1, <2>5, <3>2, <4>1, <4>2
    <3> QED BY <2>1, <3>1, <3>2
  <2>13. PiecesOf(g.pkt, t)
    <3>1. \A i \in 1..(n + 1) : Piece(g.pkt, t[i])
      BY <1>2, <1>3, <2>1, <2>12
    <3>2. \A i \in at..n : l[i].offset > g.offset
      BY <1>3, <2>1
    <3>3. ASSUME NEW i \in 1..(n + 1), NEW j \in 1..(n + 1), i < j PROVE t[i].offset < t[j].offset
      <4>1. CASE j < at
        <5>1. t[i] = l[i] /\ t[j] = l[j] /\ i \in 1..n /\ j \in 1..n
          BY <2>1, <2>12, <3>3, <4>1
        <5> QED BY <1>3, <3>3, <5>1
      <4>2. CASE j = at
        <5>1. t[i] = l[i] /\ t[j] = g /\ i \in 1..(at - 1)
          BY <2>1, <2>12, <3>3, <4>2
        <5> QED BY <2>1, <5>1
      <4>3. CASE j > at
        <5>1. t[j] = l[j - 1] /\ j - 1 \in at..n
          BY <2>1, <2>12, <4>3
        <5>2. CASE i < at
          <6>1. t[i] = l[i] /\ i < j - 1 /\ i \in 1..n /\ j - 1 \in 1..n
            BY <2>1, <2>12, <4>3, <5>2
          <6> QED BY <1>3, <5>1, <6>1
        <5>3. CASE i = at
          BY <2>1, <2>12, <3>2, <5>1, <5>3
        <5>4. CASE i > at
          <6>1. t[i] = l[i - 1] /\ i - 1 < j - 1 /\ i - 1 \in 1..n /\ j - 1 \in 1..n
            BY <2>1, <2>12, <3>3, <4>3, <5>4
          <6> QED BY <1>3, <5>1, <6>1
        <5> QED BY <2>1, <5>2, <5>3, <5>4
      <4> QED BY <2>1, <4>1, <4>2, <4>3
    <3> QED BY <2>11, <3>1, <3>3 DEF PiecesOf
  <2>14. inserted(l, g) = t /\ t # <<>>
    <3>1. at # 0
      BY <2>1
    <3>2. inserted(l, g) = InsertAt(l, at, g)
      BY <1>5, <1>8, <3>1
    <3> QED BY <1>1, <2>2, <2>3, <2>6, <2>11, <3>2 DEF InsertAt
  <2> QED BY <2>13, <2>14
<1>9. CASE S # {} /\ (l[at].offset = g.offset \/ g.last)
  <2>1. at # 0
    BY <1>6, <1>9
  <2> QED BY <1>5, <1>9, <2>1
<1> QED BY <1>7, <1>8, <1>9

-----------------------------------------------------------------------------
(* The steps. *)

LEMMA Ipv4Starts == Ipv4Init => Ipv4Inv
<1>1. Len(PayloadLen) \in Nat
  BY Ipv4Assumption, LenProperties
<1> QED BY <1>1 DEF Ipv4Init, Ipv4Inv, PayloadIntact

LEMMA Ipv4Stays == ASSUME Ipv4Inv, UNCHANGED ipv4_vars PROVE Ipv4Inv'
<1>1. UNCHANGED <<next_id, fragmenteds, up, running>>
  BY DEF ipv4_vars
<1>2. Packet' = Packet /\ OnTheWire' = OnTheWire /\ Id' = Id
  BY <1>1 DEF Packet, OnTheWire, Id
<1> QED BY <1>1, <1>2 DEF Ipv4Inv, PayloadIntact, PiecesOf, Piece, Hole

\* The lists and what was handed on stay sound when a packet is sent.
LEMMA SendKeeps == ASSUME Ipv4Inv, ipv4_send PROVE Ipv4Inv'
<1>1. next_id \in Nat /\ next_id' = next_id + 1 /\ next_id' \in 0..Len(PayloadLen) /\ next_id \in 0..Len(PayloadLen)
  <2>1. Len(PayloadLen) \in Nat
    BY Ipv4Assumption, LenProperties
  <2> QED BY <2>1 DEF ipv4_send, Ipv4Inv
<1>2. Packet \subseteq Packet' /\ OnTheWire \subseteq OnTheWire'
  BY <1>1, WireGrows
<1>3. UNCHANGED <<fragmenteds, up, running>>
  BY DEF ipv4_send
<1>4. ASSUME NEW p, NEW l, PiecesOf(p, l) PROVE PiecesOf(p, l)'
  <2>1. l \in Seq(OnTheWire')
    BY <1>2, <1>4, SeqMonotonic DEF PiecesOf
  <2> QED BY <1>4, <2>1 DEF PiecesOf, Piece
<1>5. ASSUME NEW d \in Id
      PROVE  fragmenteds[d] = <<>> \/ \E p \in Packet' : p % IdMod = d /\ PiecesOf(p, fragmenteds[d])'
                                                       /\ \E k \in Nat : Hole(p, fragmenteds[d], k)
  BY <1>2, <1>3, <1>4 DEF Ipv4Inv
<1>6. PayloadIntact'
  BY <1>2, <1>3 DEF Ipv4Inv, PayloadIntact
<1> QED BY <1>1, <1>3, <1>5, <1>6 DEF Ipv4Inv, Hole, Id

\* A packet in one piece.
LEMMA WholeKeeps ==
    ASSUME Ipv4Inv, NEW g \in OnTheWire, g.last, g.offset = 0, ParseWhole(g)
    PROVE  Ipv4Inv'
<1>1. next_id \in 0..Len(PayloadLen) /\ UNCHANGED <<next_id, fragmenteds, running>>
  BY DEF Ipv4Inv, ParseWhole
<1>2. g.pkt \in Packet /\ Piece(g.pkt, g)
  BY <1>1, WirePiece
<1>3. PICK l : l = <<g>>
  OBVIOUS
<1>4. l \in Seq(OnTheWire) /\ Len(l) = 1 /\ l[1] = g
  BY <1>3
<1>5. PiecesOf(g.pkt, l) /\ l # <<>> /\ Last(l).last
  <2>1. \A i \in 1..Len(l) : i = 1
    BY <1>4
  <2>2. \A i, j \in 1..Len(l) : ~(i < j)
    BY <1>4
  <2>3. \A i \in 1..Len(l) : Piece(g.pkt, l[i])
    BY <1>2, <1>4, <2>1
  <2>4. PiecesOf(g.pkt, l)
    <3>1. l \in Seq(OnTheWire)
      BY <1>4
    <3> QED BY <2>2, <2>3, <3>1 DEF PiecesOf
  <2>5. l # <<>>
    <3>1. Len(<<>>) = 0
      OBVIOUS
    <3>2. Len(l) = 1
      BY <1>4
    <3> QED BY <3>1, <3>2
  <2>6. Last(l) = g
    BY <1>4 DEF Last
  <2> QED BY <2>4, <2>5, <2>6
<1>6. assembled(l) = Payload(g.pkt)
  BY <1>1, <1>2, <1>4, <1>5, AssembledIsPayload
<1>7. up' \subseteq {Payload(p) : p \in Packet}
  BY <1>2, <1>3, <1>6 DEF ParseWhole, Ipv4Inv, PayloadIntact
<1>8. Packet' = Packet /\ OnTheWire' = OnTheWire /\ Id' = Id
  BY <1>1 DEF Packet, OnTheWire, Id
<1>9. \A d \in Id : fragmenteds'[d] = <<>>
            \/ \E p \in Packet : p % IdMod = d /\ PiecesOf(p, fragmenteds'[d]) /\ \E k \in Nat : Hole(p, fragmenteds'[d], k)
  BY <1>1 DEF Ipv4Inv
<1> QED BY <1>1, <1>7, <1>8, <1>9 DEF Ipv4Inv, PayloadIntact, PiecesOf, Piece, Hole

\* Packets that were sent have different identifications.
LEMMA SameId ==
    ASSUME next_id \in 0..Len(PayloadLen), NEW p \in Packet, NEW q \in Packet, p % IdMod = q % IdMod
    PROVE  p = q
<1>1. PICK m \in Nat \ {0} : m = IdMod
  BY Ipv4Assumption
<1>2. p \in 1..m /\ q \in 1..m
  BY <1>1, PacketIs
<1> QED BY <1>1, <1>2

LEMMA FragmentKeeps ==
    ASSUME Ipv4Inv, NEW g \in OnTheWire, ParseFragment(g)
    PROVE  Ipv4Inv'
<1>1. next_id \in 0..Len(PayloadLen) /\ next_id' = next_id /\ DOMAIN fragmenteds = Id /\ running \in BOOLEAN
  BY DEF Ipv4Inv, ParseFragment
<1>2. PICK p \in Packet : p = g.pkt /\ Piece(p, g)
  BY <1>1, WirePiece
<1>3. PICK d \in Id : d = fragmented_find(g) /\ d = p % IdMod
  <2>1. p \in Nat /\ IdMod \in Nat \ {0}
    BY <1>1, PacketIs
  <2> QED BY <1>2, <2>1 DEF fragmented_find, Id
<1>4. PiecesOf(p, fragmenteds[d])
  <2>1. CASE fragmenteds[d] = <<>>
    BY <2>1 DEF PiecesOf
  <2>2. CASE fragmenteds[d] # <<>>
    <3>1. PICK q \in Packet : q % IdMod = d /\ PiecesOf(q, fragmenteds[d])
      BY <2>2 DEF Ipv4Inv
    <3>2. q = p
      BY <1>1, <1>3, <3>1, SameId
    <3> QED BY <3>1, <3>2
  <2> QED BY <2>1, <2>2
<1>5. PICK l : l = inserted(fragmenteds[d], g)
  OBVIOUS
<1>6. CASE l = fragmenteds[d]
  <2>1. UNCHANGED <<fragmenteds, up, running>>
    BY <1>3, <1>5, <1>6 DEF ParseFragment
  <2> QED BY <1>1, <2>1, Ipv4Stays DEF ipv4_vars
<1>7. CASE l # fragmenteds[d]
  <2>1. PiecesOf(p, l) /\ l # <<>>
    BY <1>1, <1>2, <1>4, <1>5, <1>7, InsertedIs
  <2>2. PICK z : z = (~incomplete(l) /\ ~overlap(l) /\ Last(l).last)
    OBVIOUS
  <2>3. PICK e : e = IF ~incomplete(l) /\ (overlap(l) \/ z) THEN <<>> ELSE l
    OBVIOUS
  <2>4. /\ fragmenteds' = [fragmenteds EXCEPT ![d] = e]
        /\ up' = (IF z THEN up \cup {assembled(l)} ELSE up)
        /\ running' \in BOOLEAN
    BY <1>3, <1>5, <1>7, <2>2, <2>3 DEF ParseFragment
  <2>5. e = <<>> \/ (e = l /\ \E k \in Nat : Hole(p, l, k))
    <3> SUFFICES ASSUME incomplete(l) \/ ~(overlap(l) \/ z) PROVE \E k \in Nat : Hole(p, l, k)
      BY <2>3
    <3>1. incomplete(l) \/ (~overlap(l) /\ ~Last(l).last)
      BY <2>2
    <3> QED BY <1>1, <2>1, <3>1, GapIsHole
  <2>6. up' \subseteq {Payload(q) : q \in Packet}
    <3>1. CASE z
      <4>1. ~incomplete(l) /\ ~overlap(l) /\ Last(l).last
        BY <2>2, <3>1
      <4>2. assembled(l) = Payload(p)
        BY <1>1, <2>1, <4>1, CompleteIsContiguous, AssembledIsPayload
      <4> QED BY <2>4, <3>1, <4>2 DEF Ipv4Inv, PayloadIntact
    <3>2. CASE ~z
      BY <2>4, <3>2 DEF Ipv4Inv, PayloadIntact
    <3> QED BY <3>1, <3>2
  <2>7. DOMAIN fragmenteds' = Id /\ fragmenteds'[d] = e /\ \A i \in Id \ {d} : fragmenteds'[i] = fragmenteds[i]
    BY <1>1, <2>4
  <2>8. ASSUME NEW i \in Id
        PROVE  fragmenteds'[i] = <<>>
               \/ \E q \in Packet : q % IdMod = i /\ PiecesOf(q, fragmenteds'[i]) /\ \E k \in Nat : Hole(q, fragmenteds'[i], k)
    <3>1. CASE i = d
      BY <1>3, <2>1, <2>5, <2>7, <3>1
    <3>2. CASE i # d
      BY <2>7, <3>2 DEF Ipv4Inv
    <3> QED BY <3>1, <3>2
  <2>9. Packet' = Packet /\ OnTheWire' = OnTheWire /\ Id' = Id
    BY <1>1 DEF Packet, OnTheWire, Id
  <2> QED BY <1>1, <2>4, <2>6, <2>7, <2>8, <2>9 DEF Ipv4Inv, PayloadIntact, PiecesOf, Piece, Hole
<1> QED BY <1>6, <1>7

LEMMA Ipv4Step == Ipv4Inv /\ [Ipv4Next]_ipv4_vars => Ipv4Inv'
<1> SUFFICES ASSUME Ipv4Inv, [Ipv4Next]_ipv4_vars PROVE Ipv4Inv'
  OBVIOUS
<1>1. CASE ipv4_send
  BY <1>1, SendKeeps
<1>2. CASE ipv4_parse
  BY <1>2, WholeKeeps, FragmentKeeps DEF ipv4_parse
<1>3. CASE UNCHANGED ipv4_vars
  BY <1>3, Ipv4Stays
<1> QED BY <1>1, <1>2, <1>3 DEF Ipv4Next

\* Whatever the network does to the fragments of packets of any length, what
\* ipv4_dispatch gets is a payload that was sent, and a list that is kept lacks
\* some of it.
THEOREM Ipv4AlwaysSound == Ipv4Spec => []Ipv4Sound
<1>1. Ipv4Inv => Ipv4Sound
  <2> SUFFICES ASSUME Ipv4Inv PROVE Ipv4Sound
    OBVIOUS
  <2>1. ASSUME NEW d \in Id
        PROVE  /\ Range(fragmenteds[d]) \subseteq OnTheWire
               /\ \A k \in 1..(Len(fragmenteds[d]) - 1) : fragmenteds[d][k].offset < fragmenteds[d][k + 1].offset
               /\ fragmenteds[d] # <<>> =>
                    {k \in 0..(PayloadLen[fragmenteds[d][1].pkt] - 1) :
                        \A e \in Range(fragmenteds[d]) : k \notin e.offset..(end(e) - 1)} # {}
    <3>1. PICK l : l = fragmenteds[d]
      OBVIOUS
    <3>2. CASE l = <<>>
      BY <3>1, <3>2 DEF Range
    <3>3. CASE l # <<>>
      <4>1. PICK p \in Packet, k \in Nat : PiecesOf(p, l) /\ Hole(p, l, k)
        BY <3>1, <3>3 DEF Ipv4Inv
      <4>2. PICK n \in Nat \ {0} : n = Len(l)
        BY <3>3, <4>1, LenProperties, EmptySeq DEF PiecesOf
      <4>3. DOMAIN l = 1..n /\ Range(l) = {l[i] : i \in 1..n}
        BY <4>1, <4>2, LenProperties DEF PiecesOf, Range
      <4>4. Range(l) \subseteq OnTheWire
        BY <4>1, <4>2, <4>3, ElementOfSeq DEF PiecesOf
      <4>5. \A i \in 1..(n - 1) : l[i].offset < l[i + 1].offset
        BY <4>1, <4>2 DEF PiecesOf
      <4>6. l[1].pkt = p /\ k \in 0..(PayloadLen[p] - 1)
        BY <4>1, <4>2 DEF PiecesOf, Piece, Hole
      <4>7. \A e \in Range(l) : k \notin e.offset..(end(e) - 1)
        <5> SUFFICES ASSUME NEW i \in 1..n PROVE k \notin l[i].offset..(end(l[i]) - 1)
          BY <4>3
        <5>1. l[i].offset \in Nat /\ end(l[i]) \in Nat
          BY <4>1, <4>2 DEF PiecesOf, Piece, end
        <5>2. ~(l[i].offset <= k /\ k < end(l[i]))
          BY <4>1, <4>2 DEF Hole
        <5> QED BY <5>1, <5>2
      <4> QED BY <3>1, <4>2, <4>4, <4>5, <4>6, <4>7
    <3> QED BY <3>2, <3>3
  <2> QED BY <2>1 DEF Ipv4Sound, Ipv4TypeOK, NoneForgotten, Ipv4Inv
<1> QED BY <1>1, Ipv4Starts, Ipv4Step, PTL DEF Ipv4Spec

-----------------------------------------------------------------------------
(* The file system of the network stack, src/cmd/netstack/fs.c.  In what    *)
(* follows g is a handle, r, a and l are what it received, what arrived for *)
(* it and how much was lost, x is its queue, and q are connections.         *)

ConnType == [f : File, lport : Port, rip : Ip \cup {NoMac}, listening : BOOLEAN]
HandleType(n) == [state : {"none", "opening", "open", "freed"}, type : {"none", "ETHER", "UDP", "ARP"},
                  reqh : -1..1, rx : Seq(1..n), damaged : BOOLEAN]
Entry == [ip : Ip, mac : Mac]
NetTypes ==
    /\ nh \in [File -> HandleType(ndgrams)] /\ conns \in Seq(ConnType) /\ lost \in [File -> Nat]
    /\ received \in [File -> Seq(Nat)] /\ arrived \in [File -> Seq(Nat)]
    /\ ndgrams \in Nat /\ frames \in Nat /\ ndgrams <= frames /\ frames <= MaxFrames /\ ether_queue \in 0..MaxRaw
    /\ heard \in [Ip -> Seq(Mac)] /\ arpcache \in Seq(Entry)

\* Reads have returned r, and x is what follows in what arrived.
Flows(r, x, a, l) ==
    /\ l \in Nat /\ l <= Len(a) /\ l + Len(r) + Len(x) = Len(a)
    /\ \A i \in 1..Len(r) : r[i] = a[l + i]
    /\ \A i \in 1..Len(x) : x[i] = a[l + Len(r) + i]

HandleInv(g, r, a, l) ==
    /\ g.state \in {"none", "opening"} => r = <<>> /\ a = <<>> /\ l = 0 /\ g.rx = <<>> /\ ~g.damaged
    /\ g.state \in {"none", "freed"} => g.type = "none"
    /\ g.state = "open" /\ ~g.damaged => Flows(r, g.rx, a, l) /\ l <= 1
    /\ g.state = "open" /\ g.reqh >= 0 => g.rx = <<>>
    /\ g.state = "open" /\ g.reqh = 0 => r = <<>> /\ a = <<>> /\ l = 0 /\ ~g.damaged

\* One connection for every handle of a UDP connection.
ConnsInv(q, w) ==
    /\ \A j, k \in 1..Len(q) : q[j].f = q[k].f => j = k
    /\ \A k \in 1..Len(q) : w[q[k].f].type = "UDP"
    /\ \A e \in File : w[e].type = "UDP" => \E k \in 1..Len(q) : q[k].f = e /\ (w[e].state = "opening" => q[k].listening)
    /\ \A e \in File : w[e].state = "opening" => w[e].type = "UDP"

\* Every entry of the cache was announced, and a newer one later.
ArpInv(q, w) ==
    /\ \A b \in 1..Len(q) : \E k \in 1..Len(w[q[b].ip]) : w[q[b].ip][k] = q[b].mac
    /\ \A b \in 1..Len(q) : \A z \in 1..(b - 1) : q[z].ip = q[b].ip =>
            \E k, n \in 1..Len(w[q[b].ip]) : k < n /\ w[q[b].ip][k] = q[b].mac /\ w[q[b].ip][n] = q[z].mac

\* A datagram d, the n-th but one, for the handle g: o is g once it is open.
Receives(n, g, r, a, l, d, o, r2, l2) ==
    /\ n \in Nat /\ d = n + 1 /\ g \in HandleType(n) /\ r \in Seq(Nat) /\ a \in Seq(Nat) /\ l \in Nat
    /\ HandleInv(g, r, a, l) /\ g.type = "UDP" /\ ~g.damaged
    /\ o = (IF g.state = "opening" THEN udp_listen_callback(g) ELSE g)
    /\ r2 = (IF o.reqh = 1 THEN Append(r, d) ELSE r) /\ l2 = (IF o.reqh = 0 THEN l + 1 ELSE l)

NetfsInv ==
    /\ NetTypes /\ ConnsInv(conns, nh) /\ ArpInv(arpcache, heard) /\ ArpCurrent
    /\ \A e \in File : HandleInv(nh[e], received[e], arrived[e], lost[e])

-----------------------------------------------------------------------------
(* Queues. *)

LEMMA FlowEnqueue ==
    ASSUME NEW r \in Seq(Nat), NEW x \in Seq(Nat), NEW a \in Seq(Nat), NEW l \in Nat, NEW d \in Nat, Flows(r, x, a, l)
    PROVE  Flows(r, Append(x, d), Append(a, d), l)
<1>1. PICK b \in Nat, y \in Nat, m \in Nat : b = Len(a) /\ y = Len(x) /\ m = Len(r)
  BY LenProperties
<1>2. PICK t : t = Append(a, d)
  OBVIOUS
<1>3. PICK u : u = Append(x, d)
  OBVIOUS
<1>4. Len(t) = b + 1 /\ t[b + 1] = d /\ \A i \in 1..b : t[i] = a[i]
  BY <1>1, <1>2, AppendProperties
<1>5. Len(u) = y + 1 /\ u[y + 1] = d /\ \A i \in 1..y : u[i] = x[i]
  BY <1>1, <1>3, AppendProperties
<1>6. l + m + y = b /\ (\A i \in 1..m : r[i] = a[l + i]) /\ \A i \in 1..y : x[i] = a[l + m + i]
  BY <1>1 DEF Flows
<1>10. l + m + y = b
  BY <1>6
<1>7. \A i \in 1..m : l + i \in 1..b /\ r[i] = t[l + i]
  BY <1>4, <1>6
<1>8. \A i \in 1..(y + 1) : u[i] = t[l + m + i]
  <2> SUFFICES ASSUME NEW i \in 1..(y + 1) PROVE u[i] = t[l + m + i]
    OBVIOUS
  <2>1. CASE i = y + 1
    <3>1. l + m + i = b + 1
      BY <1>10, <2>1
    <3> QED BY <1>4, <1>5, <2>1, <3>1
  <2>2. CASE i # y + 1
    <3>1. i \in 1..y /\ l + m + i \in 1..b
      BY <1>10, <2>2
    <3> QED BY <1>4, <1>5, <1>6, <3>1
  <2> QED BY <2>1, <2>2
<1>9. l <= b + 1 /\ l + m + (y + 1) = b + 1
  BY <1>10
<1> QED BY <1>1, <1>2, <1>3, <1>4, <1>5, <1>7, <1>8, <1>9 DEF Flows

LEMMA FlowDeliver ==
    ASSUME NEW r \in Seq(Nat), NEW a \in Seq(Nat), NEW l \in Nat, NEW d \in Nat, Flows(r, <<>>, a, l)
    PROVE  Flows(Append(r, d), <<>>, Append(a, d), l)
<1>1. PICK b \in Nat, m \in Nat : b = Len(a) /\ m = Len(r)
  BY LenProperties
<1>2. PICK t : t = Append(a, d)
  OBVIOUS
<1>3. PICK u : u = Append(r, d)
  OBVIOUS
<1>4. Len(t) = b + 1 /\ t[b + 1] = d /\ \A i \in 1..b : t[i] = a[i]
  BY <1>1, <1>2, AppendProperties
<1>5. Len(u) = m + 1 /\ u[m + 1] = d /\ \A i \in 1..m : u[i] = r[i]
  BY <1>1, <1>3, AppendProperties
<1>6. l + m = b /\ (\A i \in 1..m : r[i] = a[l + i]) /\ Len(<<>>) = 0
  BY <1>1 DEF Flows
<1>8. \A i \in 1..(m + 1) : u[i] = t[l + i]
  <2> SUFFICES ASSUME NEW i \in 1..(m + 1) PROVE u[i] = t[l + i]
    OBVIOUS
  <2>1. CASE i = m + 1
    <3>1. l + i = b + 1
      BY <1>6, <2>1
    <3> QED BY <1>4, <1>5, <2>1, <3>1
  <2>2. CASE i # m + 1
    <3>1. i \in 1..m /\ l + i \in 1..b
      BY <1>6, <2>2
    <3> QED BY <1>4, <1>5, <1>6, <3>1
  <2> QED BY <2>1, <2>2
<1>9. l <= b + 1 /\ l + (m + 1) + 0 = b + 1
  <2>1. l + m = b
    BY <1>6
  <2> QED BY <2>1
<1>10. \A i \in 1..Len(<<>>) : FALSE
  BY <1>6
<1> QED BY <1>2, <1>3, <1>4, <1>5, <1>6, <1>8, <1>9, <1>10 DEF Flows

LEMMA FlowRead ==
    ASSUME NEW r \in Seq(Nat), NEW x \in Seq(Nat), NEW a \in Seq(Nat), NEW l \in Nat, x # <<>>, Flows(r, x, a, l)
    PROVE  Flows(Append(r, Head(x)), Tail(x), a, l) /\ Append(r, Head(x)) \in Seq(Nat) /\ Tail(x) \in Seq(Nat)
<1>1. PICK b \in Nat, y \in Nat \ {0}, m \in Nat : b = Len(a) /\ y = Len(x) /\ m = Len(r)
  BY LenProperties, EmptySeq
<1>2. PICK t : t = Tail(x)
  OBVIOUS
<1>3. PICK u : u = Append(r, x[1])
  OBVIOUS
<1>4. t \in Seq(Nat) /\ Len(t) = y - 1 /\ \A i \in 1..(y - 1) : t[i] = x[i + 1]
  BY <1>1, <1>2, HeadTailProperties
<1>5. x[1] \in Nat /\ Head(x) = x[1]
  BY <1>1, ElementOfSeq
<1>6. u \in Seq(Nat) /\ Len(u) = m + 1 /\ u[m + 1] = x[1] /\ \A i \in 1..m : u[i] = r[i]
  BY <1>1, <1>3, <1>5, AppendProperties
<1>7. l <= b /\ l + m + y = b /\ (\A i \in 1..m : r[i] = a[l + i]) /\ \A i \in 1..y : x[i] = a[l + m + i]
  BY <1>1 DEF Flows
<1>8. \A i \in 1..(m + 1) : u[i] = a[l + i]
  <2> SUFFICES ASSUME NEW i \in 1..(m + 1) PROVE u[i] = a[l + i]
    OBVIOUS
  <2>1. CASE i = m + 1
    <3>1. x[1] = a[l + m + 1] /\ l + m + 1 = l + i
      BY <1>7, <2>1
    <3> QED BY <1>6, <2>1, <3>1
  <2>2. CASE i # m + 1
    BY <1>6, <1>7, <2>2
  <2> QED BY <2>1, <2>2
<1>9. \A i \in 1..(y - 1) : t[i] = a[l + (m + 1) + i]
  <2> SUFFICES ASSUME NEW i \in 1..(y - 1) PROVE t[i] = a[l + (m + 1) + i]
    OBVIOUS
  <2>1. i + 1 \in 1..y /\ l + m + (i + 1) = l + (m + 1) + i
    OBVIOUS
  <2> QED BY <1>4, <1>7, <2>1
<1>10. l + (m + 1) + (y - 1) = b
  BY <1>7
<1>11. l <= b
  BY <1>7
<1>12. Len(t) = y - 1 /\ Len(u) = m + 1 /\ u = Append(r, Head(x))
  BY <1>3, <1>4, <1>5, <1>6
<1>13. Flows(u, t, a, l)
  BY <1>1, <1>8, <1>9, <1>10, <1>11, <1>12 DEF Flows
<1> QED BY <1>2, <1>4, <1>6, <1>12, <1>13

LEMMA FlowIs ==
    ASSUME NEW r \in Seq(Nat), NEW x \in Seq(Nat), NEW a \in Seq(Nat), NEW l \in Nat, Flows(r, x, a, l)
    PROVE  r \o x = SubSeq(a, l + 1, Len(a))
<1>1. PICK b \in Nat, y \in Nat, m \in Nat : b = Len(a) /\ y = Len(x) /\ m = Len(r)
  BY LenProperties
<1>2. PICK t : t = r \o x
  OBVIOUS
<1>3. t \in Seq(Nat) /\ Len(t) = m + y /\ \A i \in 1..(m + y) : t[i] = IF i <= m THEN r[i] ELSE x[i - m]
  BY <1>1, <1>2, ConcatProperties
<1>4. PICK u : u = SubSeq(a, l + 1, b)
  OBVIOUS
<1>5. l + m + y = b /\ (\A i \in 1..m : r[i] = a[l + i]) /\ \A i \in 1..y : x[i] = a[l + m + i]
  BY <1>1 DEF Flows
<1>6. u \in Seq(Nat) /\ Len(u) = m + y /\ \A i \in 1..(m + y) : u[i] = a[l + i]
  <2>1. CASE m + y = 0
    <3>1. u = <<>>
      BY <1>1, <1>4, <1>5, <2>1, SubSeqEmpty
    <3> QED BY <2>1, <3>1
  <2>2. CASE m + y # 0
    <3>1. l + 1 \in 1..(Len(a) + 1) /\ b \in (l + 1 - 1)..Len(a)
      BY <1>1, <1>5, <2>2
    <3>2. u \in Seq(Nat) /\ Len(u) = b - (l + 1) + 1 /\ \A i \in 1..(b - (l + 1) + 1) : u[i] = a[l + 1 + i - 1]
      <4>1. /\ SubSeq(a, l + 1, b) \in Seq(Nat) /\ Len(SubSeq(a, l + 1, b)) = b - (l + 1) + 1
            /\ \A i \in 1..(b - (l + 1) + 1) : SubSeq(a, l + 1, b)[i] = a[l + 1 + i - 1]
        BY <3>1, SubSeqProperties
      <4> QED BY <1>4, <4>1
    <3>3. b - (l + 1) + 1 = m + y /\ \A i \in 1..(m + y) : l + 1 + i - 1 = l + i
      BY <1>5
    <3> QED BY <3>2, <3>3
  <2> QED BY <2>1, <2>2
<1>7. \A i \in 1..(m + y) : t[i] = u[i]
  <2> SUFFICES ASSUME NEW i \in 1..(m + y) PROVE t[i] = u[i]
    OBVIOUS
  <2>1. CASE i <= m
    <3>1. i \in 1..m /\ t[i] = r[i]
      BY <1>3, <2>1
    <3> QED BY <1>5, <1>6, <3>1
  <2>2. CASE ~(i <= m)
    <3>1. i - m \in 1..y /\ l + m + (i - m) = l + i
      BY <2>2
    <3>2. t[i] = x[i - m]
      BY <1>3, <2>2
    <3> QED BY <1>5, <1>6, <3>1, <3>2
  <2> QED BY <2>1, <2>2
<1>8. t = u
  BY <1>3, <1>6, <1>7, SeqEqual
<1> QED BY <1>1, <1>2, <1>4, <1>8

\* The steps of a handle.
LEMMA NothingFlows == Flows(<<>>, <<>>, <<>>, 0)
  BY DEF Flows
LEMMA FirstIsLost == ASSUME NEW d \in Nat PROVE Flows(<<>>, <<>>, <<d>>, 1)
  BY DEF Flows

-----------------------------------------------------------------------------
(* Lists. *)

LEMMA MinIs ==
    ASSUME NEW S \in SUBSET Nat, S # {}
    PROVE  Min(S) \in S /\ \A y \in S : Min(S) <= y
BY SmallestExists DEF Min

LEMMA ConsIs ==
    ASSUME NEW T, NEW s \in Seq(T), NEW e \in T
    PROVE  /\ <<e>> \o s \in Seq(T) /\ Len(<<e>> \o s) = Len(s) + 1 /\ (<<e>> \o s)[1] = e
           /\ \A i \in 2..(Len(s) + 1) : (<<e>> \o s)[i] = s[i - 1]
<1>1. PICK n \in Nat : n = Len(s)
  BY LenProperties
<1>2. PICK o : o = <<e>>
  OBVIOUS
<1>3. o \in Seq(T) /\ Len(o) = 1 /\ o[1] = e
  BY <1>2
<1>4. PICK t : t = o \o s
  OBVIOUS
<1>5. /\ t \in Seq(T) /\ Len(t) = Len(o) + Len(s)
      /\ \A i \in 1..(Len(o) + Len(s)) : t[i] = IF i <= Len(o) THEN o[i] ELSE s[i - Len(o)]
  BY <1>3, <1>4, ConcatProperties
<1>6. \A i \in 1..(1 + n) : t[i] = IF i <= 1 THEN o[i] ELSE s[i - 1]
  BY <1>1, <1>3, <1>5
<1>7. t[1] = e /\ \A i \in 2..(n + 1) : t[i] = s[i - 1]
  BY <1>3, <1>6
<1> QED BY <1>1, <1>2, <1>3, <1>4, <1>5, <1>7

LEMMA RemoveIs ==
    ASSUME NEW T, NEW s \in Seq(T), NEW k \in 1..Len(s)
    PROVE  /\ RemoveAt(s, k) \in Seq(T) /\ Len(RemoveAt(s, k)) = Len(s) - 1
           /\ \A i \in 1..(Len(s) - 1) : RemoveAt(s, k)[i] = IF i < k THEN s[i] ELSE s[i + 1]
<1>1. PICK n \in Nat : n = Len(s) /\ k \in 1..n
  BY LenProperties
<1>2. PICK a : a = SubSeq(s, 1, k - 1)
  OBVIOUS
<1>3. PICK b : b = SubSeq(s, k + 1, n)
  OBVIOUS
<1>4. a \in Seq(T) /\ Len(a) = k - 1 /\ \A i \in 1..(k - 1) : a[i] = s[i]
  BY <1>1, <1>2, SubSeqProperties
<1>5. b \in Seq(T) /\ Len(b) = n - k /\ \A i \in 1..(n - k) : b[i] = s[k + i]
  BY <1>1, <1>3, SubSeqProperties
<1>6. PICK t : t = a \o b
  OBVIOUS
<1>7. /\ t \in Seq(T) /\ Len(t) = Len(a) + Len(b)
      /\ \A i \in 1..(Len(a) + Len(b)) : t[i] = IF i <= Len(a) THEN a[i] ELSE b[i - Len(a)]
  BY <1>4, <1>5, <1>6, ConcatProperties
<1>8. Len(a) + Len(b) = n - 1
  BY <1>1, <1>4, <1>5
<1>9. \A i \in 1..(n - 1) : t[i] = IF i < k THEN s[i] ELSE s[i + 1]
  <2> SUFFICES ASSUME NEW i \in 1..(n - 1) PROVE t[i] = IF i < k THEN s[i] ELSE s[i + 1]
    OBVIOUS
  <2>1. CASE i < k
    <3>1. i \in 1..(k - 1) /\ i <= Len(a) /\ i \in 1..(Len(a) + Len(b))
      BY <1>1, <1>4, <1>8, <2>1
    <3> QED BY <1>4, <1>7, <2>1, <3>1
  <2>2. CASE ~(i < k)
    <3>1. i - (k - 1) \in 1..(n - k) /\ ~(i <= Len(a)) /\ i \in 1..(Len(a) + Len(b)) /\ k + (i - (k - 1)) = i + 1
      BY <1>1, <1>4, <1>8, <2>2
    <3> QED BY <1>4, <1>5, <1>7, <2>2, <3>1
  <2> QED BY <2>1, <2>2
<1> QED BY <1>1, <1>2, <1>3, <1>6, <1>7, <1>8, <1>9 DEF RemoveAt

-----------------------------------------------------------------------------
(* The ARP cache. *)

Found(q, i, v) ==
    IF \E k \in 1..Len(q) : q[k].ip = i
    THEN \E k \in 1..Len(q) : q[k].ip = i /\ (\A j \in 1..(k - 1) : q[j].ip # i) /\ v = q[k].mac
    ELSE v = NoMac

LEMMA CacheGives ==
    ASSUME NEW q \in Seq(Entry), NEW i
    PROVE  Found(q, i, LET k == IF {j \in 1..Len(q) : q[j].ip = i} # {} THEN Min({j \in 1..Len(q) : q[j].ip = i}) ELSE 0
                     IN IF k = 0 THEN NoMac ELSE q[k].mac)
<1>1. PICK n \in Nat : n = Len(q)
  BY LenProperties
<1>2. PICK S : S = {j \in 1..n : q[j].ip = i}
  OBVIOUS
<1>3. S \in SUBSET Nat
  BY <1>2
<1>4. CASE S = {}
  <2>1. ~ \E k \in 1..n : q[k].ip = i
    BY <1>2, <1>4
  <2> QED BY <1>1, <1>2, <1>4, <2>1 DEF Found
<1>5. CASE S # {}
  <2>1. PICK k : k = Min(S)
    OBVIOUS
  <2>2. k \in S /\ \A y \in S : k <= y
    BY <1>3, <1>5, <2>1, MinIs
  <2>3. k \in 1..n /\ q[k].ip = i /\ \A j \in 1..(k - 1) : q[j].ip # i
    BY <1>2, <2>2
  <2>4. k # 0
    BY <2>3
  <2> QED BY <1>1, <1>2, <1>5, <2>1, <2>3, <2>4 DEF Found
<1> QED BY <1>4, <1>5

LEMMA GetIs ==
    ASSUME arpcache \in Seq(Entry), NEW i
    PROVE  Found(arpcache, i, arpcache_get(i))
BY CacheGives DEF arpcache_get, SelectInSeq
LEMMA GetIsNext ==
    ASSUME arpcache' \in Seq(Entry), NEW i
    PROVE  Found(arpcache', i, arpcache_get(i)')
BY CacheGives DEF arpcache_get, SelectInSeq

LEMMA CorrectIs ==
    ASSUME arpcache \in Seq(Entry), NEW i, NEW m, correct(i, m)
    PROVE  \E b \in 1..Len(arpcache) : arpcache[b].mac = m /\ arpcache[b].ip = i
<1>1. PICK n \in Nat : n = Len(arpcache)
  BY LenProperties
<1>2. PICK S : S = {j \in 1..n : arpcache[j].mac = m}
  OBVIOUS
<1>3. S \in SUBSET Nat
  BY <1>2
<1>4. PICK k : k = (IF S # {} THEN Min(S) ELSE 0) /\ k # 0 /\ arpcache[k].ip = i
  BY <1>1, <1>2 DEF correct, SelectInSeq
<1>5. k \in S
  BY <1>3, <1>4, MinIs
<1> QED BY <1>1, <1>2, <1>4, <1>5

\* An announcement.
LEMMA HeardIs ==
    ASSUME NetTypes, NEW i \in Ip, NEW m \in Mac, heard' = [heard EXCEPT ![i] = Append(@, m)]
    PROVE  /\ heard' \in [Ip -> Seq(Mac)] /\ Len(heard'[i]) = Len(heard[i]) + 1 /\ heard'[i][Len(heard[i]) + 1] = m
           /\ \A k \in 1..Len(heard[i]) : heard'[i][k] = heard[i][k]
           /\ \A j \in Ip \ {i} : heard'[j] = heard[j]
           /\ Last(heard'[i]) = m
<1>1. heard \in [Ip -> Seq(Mac)] /\ heard[i] \in Seq(Mac)
  BY DEF NetTypes
<1>2. PICK t : t = Append(heard[i], m)
  OBVIOUS
<1>3. t \in Seq(Mac) /\ Len(t) = Len(heard[i]) + 1 /\ t[Len(heard[i]) + 1] = m /\ \A k \in 1..Len(heard[i]) : t[k] = heard[i][k]
  BY <1>1, <1>2, AppendProperties
<1>4. heard'[i] = t /\ heard' \in [Ip -> Seq(Mac)] /\ \A j \in Ip \ {i} : heard'[j] = heard[j]
  BY <1>1, <1>2, <1>3
<1>5. Last(t) = m
  BY <1>3 DEF Last
<1> QED BY <1>3, <1>4, <1>5

LEMMA ArpInvKept ==
    ASSUME NetTypes, ArpInv(arpcache, heard), NEW i \in Ip, NEW m \in Mac,
           heard' = [heard EXCEPT ![i] = Append(@, m)]
    PROVE  ArpInv(arpcache, heard')
<1>1. PICK n \in Nat : n = Len(heard[i])
  BY LenProperties DEF NetTypes
<1>2. /\ Len(heard'[i]) = n + 1 /\ \A k \in 1..n : heard'[i][k] = heard[i][k]
      /\ \A j \in Ip \ {i} : heard'[j] = heard[j]
  BY <1>1, HeardIs
<1> \A k \in 1..n : k \in 1..(n + 1)
  BY <1>1
<1>3. ASSUME NEW b \in 1..Len(arpcache) PROVE arpcache[b].ip \in Ip
  <2>1. arpcache \in Seq(Entry)
    BY DEF NetTypes
  <2>2. arpcache[b] \in Entry
    BY <2>1, ElementOfSeq
  <2> QED BY <2>2 DEF Entry
<1>4. ASSUME NEW b \in 1..Len(arpcache)
      PROVE  \E k \in 1..Len(heard'[arpcache[b].ip]) : heard'[arpcache[b].ip][k] = arpcache[b].mac
  <2>1. PICK k \in 1..Len(heard[arpcache[b].ip]) : heard[arpcache[b].ip][k] = arpcache[b].mac
    BY DEF ArpInv
  <2>2. CASE arpcache[b].ip = i
    BY <1>1, <1>2, <2>1, <2>2
  <2>3. CASE arpcache[b].ip # i
    BY <1>2, <1>3, <2>1, <2>3
  <2> QED BY <2>2, <2>3
<1>5. ASSUME NEW b \in 1..Len(arpcache), NEW z \in 1..(b - 1), arpcache[z].ip = arpcache[b].ip
      PROVE  \E k, o \in 1..Len(heard'[arpcache[b].ip]) :
                k < o /\ heard'[arpcache[b].ip][k] = arpcache[b].mac /\ heard'[arpcache[b].ip][o] = arpcache[z].mac
  <2>1. PICK k \in 1..Len(heard[arpcache[b].ip]), o \in 1..Len(heard[arpcache[b].ip]) :
            k < o /\ heard[arpcache[b].ip][k] = arpcache[b].mac /\ heard[arpcache[b].ip][o] = arpcache[z].mac
    BY <1>5 DEF ArpInv
  <2>2. CASE arpcache[b].ip = i
    <3>1. k \in 1..n /\ o \in 1..n
      BY <1>1, <2>1, <2>2
    <3>2. k \in 1..(n + 1) /\ o \in 1..(n + 1) /\ heard'[i][k] = heard[i][k] /\ heard'[i][o] = heard[i][o]
      BY <1>2, <3>1
    <3>3. heard'[i][k] = arpcache[b].mac /\ heard'[i][o] = arpcache[z].mac /\ k < o
      BY <2>1, <2>2, <3>2
    <3>4. Len(heard'[i]) = n + 1
      BY <1>2
    <3>5. \E x, y \in 1..Len(heard'[i]) : x < y /\ heard'[i][x] = arpcache[b].mac /\ heard'[i][y] = arpcache[z].mac
      BY <3>2, <3>3, <3>4
    <3> QED BY <2>2, <3>5
  <2>3. CASE arpcache[b].ip # i
    BY <1>2, <1>3, <2>1, <2>3
  <2> QED BY <2>2, <2>3
<1> QED BY <1>4, <1>5 DEF ArpInv

\* A new entry is the newest, and its host is heard last.
LEMMA ArpInvGrows ==
    ASSUME NetTypes, NEW i \in Ip, NEW m \in Mac, ArpInv(arpcache, heard'), ArpInv(arpcache, heard),
           heard' = [heard EXCEPT ![i] = Append(@, m)], arpcache' = <<[ip |-> i, mac |-> m]>> \o arpcache
    PROVE  ArpInv(arpcache', heard') /\ arpcache' \in Seq(Entry)
<1>1. PICK n \in Nat : n = Len(arpcache)
  BY LenProperties DEF NetTypes
<1>2. PICK o \in Nat : o = Len(heard[i])
  BY LenProperties DEF NetTypes
<1>3. Len(heard'[i]) = o + 1 /\ heard'[i][o + 1] = m /\ \A k \in 1..o : heard'[i][k] = heard[i][k]
  BY <1>2, HeardIs
<1>4. PICK e \in Entry : e = [ip |-> i, mac |-> m] /\ e.ip = i /\ e.mac = m
  BY DEF Entry
<1>5. PICK q : q = arpcache'
  OBVIOUS
<1>6. q \in Seq(Entry) /\ Len(q) = n + 1 /\ q[1] = e /\ \A k \in 2..(n + 1) : q[k] = arpcache[k - 1]
  BY <1>1, <1>4, <1>5, ConsIs DEF NetTypes
<1>9. \A b \in 1..n : \E k \in 1..Len(heard'[arpcache[b].ip]) : heard'[arpcache[b].ip][k] = arpcache[b].mac
  BY <1>1 DEF ArpInv
<1>10. \A b \in 1..n : \E k \in 1..Len(heard[arpcache[b].ip]) : heard[arpcache[b].ip][k] = arpcache[b].mac
  BY <1>1 DEF ArpInv
<1>11. \A b \in 1..n : \A z \in 1..(b - 1) : arpcache[z].ip = arpcache[b].ip =>
            \E k, y \in 1..Len(heard'[arpcache[b].ip]) :
                k < y /\ heard'[arpcache[b].ip][k] = arpcache[b].mac /\ heard'[arpcache[b].ip][y] = arpcache[z].mac
  BY <1>1 DEF ArpInv
<1>7. ASSUME NEW b \in 1..(n + 1)
      PROVE  \E k \in 1..Len(heard'[q[b].ip]) : heard'[q[b].ip][k] = q[b].mac
  <2>1. CASE b = 1
    <3>1. q[b].ip = i /\ q[b].mac = m /\ o + 1 \in 1..(o + 1)
      BY <1>4, <1>6, <2>1
    <3> QED BY <1>3, <3>1
  <2>2. CASE b # 1
    <3>1. b - 1 \in 1..n /\ q[b] = arpcache[b - 1]
      BY <1>6, <2>2
    <3> QED BY <1>9, <3>1
  <2> QED BY <2>1, <2>2
<1>8. ASSUME NEW b \in 1..(n + 1), NEW z \in 1..(b - 1), q[z].ip = q[b].ip
      PROVE  \E k, y \in 1..Len(heard'[q[b].ip]) : k < y /\ heard'[q[b].ip][k] = q[b].mac /\ heard'[q[b].ip][y] = q[z].mac
  <2>1. b - 1 \in 1..n /\ q[b] = arpcache[b - 1]
    BY <1>6
  <2>2. CASE z = 1
    <3>1. q[b].ip = i /\ q[z].mac = m
      BY <1>4, <1>6, <1>8, <2>2
    <3>2. PICK k \in 1..o : heard[i][k] = q[b].mac
      <4>1. PICK k \in 1..Len(heard[arpcache[b - 1].ip]) : heard[arpcache[b - 1].ip][k] = arpcache[b - 1].mac
        BY <1>10, <2>1
      <4> QED BY <1>2, <2>1, <3>1, <4>1
    <3>3. k \in 1..(o + 1) /\ o + 1 \in 1..(o + 1) /\ k < o + 1 /\ heard'[i][k] = q[b].mac
      <4>1. heard'[i][k] = heard[i][k]
        BY <1>3
      <4>2. k \in 1..(o + 1) /\ o + 1 \in 1..(o + 1) /\ k < o + 1
        OBVIOUS
      <4> QED BY <3>2, <4>1, <4>2
    <3> QED BY <1>3, <3>1, <3>3
  <2>3. CASE z # 1
    <3>1. z - 1 \in 1..(b - 1 - 1) /\ q[z] = arpcache[z - 1]
      BY <1>6, <2>3
    <3>2. arpcache[z - 1].ip = arpcache[b - 1].ip
      BY <1>8, <2>1, <3>1
    <3>3. PICK bb, zz : bb = b - 1 /\ zz = z - 1
      OBVIOUS
    <3>4. bb \in 1..n /\ zz \in 1..(bb - 1) /\ arpcache[zz].ip = arpcache[bb].ip
      BY <2>1, <3>1, <3>2, <3>3
    <3>5. \E k, y \in 1..Len(heard'[arpcache[bb].ip]) :
                k < y /\ heard'[arpcache[bb].ip][k] = arpcache[bb].mac /\ heard'[arpcache[bb].ip][y] = arpcache[zz].mac
      BY <1>11, <3>4
    <3> QED BY <2>1, <3>1, <3>3, <3>5
  <2> QED BY <2>2, <2>3
<1>12. Len(q) = n + 1
  BY <1>6
<1>13. ArpInv(q, heard')
  <2>1. \A b \in 1..Len(q) : \E k \in 1..Len(heard'[q[b].ip]) : heard'[q[b].ip][k] = q[b].mac
    BY <1>7, <1>12
  <2>2. \A b \in 1..Len(q) : \A z \in 1..(b - 1) : q[z].ip = q[b].ip =>
            \E k, y \in 1..Len(heard'[q[b].ip]) : k < y /\ heard'[q[b].ip][k] = q[b].mac /\ heard'[q[b].ip][y] = q[z].mac
    <3> SUFFICES ASSUME NEW b \in 1..Len(q), NEW z \in 1..(b - 1), q[z].ip = q[b].ip
                 PROVE  \E k, y \in 1..Len(heard'[q[b].ip]) :
                            k < y /\ heard'[q[b].ip][k] = q[b].mac /\ heard'[q[b].ip][y] = q[z].mac
      OBVIOUS
    <3>1. b \in 1..(n + 1)
      BY <1>12
    <3> QED BY <1>8, <3>1
  <2> QED BY <2>1, <2>2 DEF ArpInv
<1> QED BY <1>5, <1>6, <1>13

LEMMA ArpCurrentKept ==
    ASSUME NetTypes, ArpInv(arpcache, heard), ArpCurrent, NEW i \in Ip, NEW m \in Mac,
           heard' = [heard EXCEPT ![i] = Append(@, m)],
           arpcache' = IF correct(i, m) THEN arpcache ELSE <<[ip |-> i, mac |-> m]>> \o arpcache
    PROVE  ArpCurrent'
<1>1. PICK n \in Nat : n = Len(arpcache)
  BY LenProperties DEF NetTypes
<1>2. PICK o \in Nat : o = Len(heard[i])
  BY LenProperties DEF NetTypes
<1>3. /\ heard' \in [Ip -> Seq(Mac)] /\ Len(heard'[i]) = o + 1 /\ heard'[i][o + 1] = m /\ Last(heard'[i]) = m
      /\ \A k \in 1..o : heard'[i][k] = heard[i][k]
      /\ \A j \in Ip \ {i} : heard'[j] = heard[j]
  BY <1>2, HeardIs
<1>4. DOMAIN heard'[i] = 1..(o + 1)
  BY <1>3, LenProperties
<1>5. arpcache \in Seq(Entry)
  BY DEF NetTypes
<1>6. CASE correct(i, m)
  <2>1. arpcache' = arpcache
    BY <1>6
  <2>2. \A j : arpcache_get(j)' = arpcache_get(j)
    BY <2>1 DEF arpcache_get, SelectInSeq
  <2>3. PICK b \in 1..n : arpcache[b].mac = m /\ arpcache[b].ip = i
    BY <1>1, <1>5, <1>6, CorrectIs
  <2>4. PICK k \in 1..n : arpcache[k].ip = i /\ (\A j \in 1..(k - 1) : arpcache[j].ip # i) /\ arpcache_get(i) = arpcache[k].mac
    BY <1>1, <1>5, <2>3, GetIs DEF Found
  <2>5. CASE arpcache[k].mac = m
    BY <1>3, <2>2, <2>4, <2>5 DEF ArpCurrent
  <2>6. CASE arpcache[k].mac # m
    <3>1. k \in 1..(b - 1)
      <4>1. ~(b < k)
        BY <2>3, <2>4
      <4>2. b # k
        BY <2>3, <2>6
      <4> QED BY <4>1, <4>2
    <3>2. PICK y \in 1..o, w \in 1..o : y < w /\ heard[i][y] = m /\ heard[i][w] = arpcache[k].mac
      <4>1. \A d \in 1..n : \A z \in 1..(d - 1) : arpcache[z].ip = arpcache[d].ip =>
            \E y, w \in 1..Len(heard[arpcache[d].ip]) :
                y < w /\ heard[arpcache[d].ip][y] = arpcache[d].mac /\ heard[arpcache[d].ip][w] = arpcache[z].mac
        BY <1>1 DEF ArpInv
      <4>2. \E y, w \in 1..Len(heard[arpcache[b].ip]) :
                y < w /\ heard[arpcache[b].ip][y] = arpcache[b].mac /\ heard[arpcache[b].ip][w] = arpcache[k].mac
        <5>1. arpcache[k].ip = arpcache[b].ip
          BY <2>3, <2>4
        <5> QED BY <3>1, <4>1, <5>1
      <4> QED BY <1>2, <2>3, <4>2
    <3>3. y \in DOMAIN heard'[i] /\ w \in DOMAIN heard'[i] /\ heard'[i][y] = m /\ heard'[i][w] # m
      BY <1>3, <1>4, <2>6, <3>2
    <3> QED BY <1>3, <2>2, <3>2, <3>3 DEF ArpCurrent
  <2> QED BY <2>5, <2>6
<1>7. CASE ~correct(i, m)
  <2>1. PICK e \in Entry : e = [ip |-> i, mac |-> m] /\ e.ip = i /\ e.mac = m
    BY DEF Entry
  <2>2. PICK q : q = arpcache'
    OBVIOUS
  <2>3. q \in Seq(Entry) /\ Len(q) = n + 1 /\ q[1] = e /\ \A k \in 2..(n + 1) : q[k] = arpcache[k - 1]
    BY <1>1, <1>5, <1>7, <2>1, <2>2, ConsIs
  <2>4. arpcache_get(i)' = m
    <3>1. Found(q, i, arpcache_get(i)')
      BY <2>2, <2>3, GetIsNext
    <3>2. PICK k \in 1..(n + 1) : q[k].ip = i /\ (\A j \in 1..(k - 1) : q[j].ip # i) /\ arpcache_get(i)' = q[k].mac
      <4>1. 1 \in 1..Len(q) /\ q[1].ip = i
        BY <2>1, <2>3
      <4> QED BY <2>3, <3>1, <4>1 DEF Found
    <3>3. k = 1
      BY <2>1, <2>3, <3>2
    <3> QED BY <2>1, <2>3, <3>2, <3>3
  <2>5. ASSUME NEW j \in Ip \ {i} PROVE arpcache_get(j)' = arpcache_get(j)
    <3>1. Found(q, j, arpcache_get(j)') /\ Found(arpcache, j, arpcache_get(j))
      BY <1>5, <2>2, <2>3, GetIs, GetIsNext
    <3>2. CASE \E k \in 1..n : arpcache[k].ip = j
      <4>1. PICK k \in 1..n : arpcache[k].ip = j /\ (\A y \in 1..(k - 1) : arpcache[y].ip # j) /\ arpcache_get(j) = arpcache[k].mac
        BY <1>1, <3>1, <3>2 DEF Found
      <4>2. k + 1 \in 1..(n + 1) /\ q[k + 1] = arpcache[k]
        BY <2>3
      <4>3. PICK y \in 1..(n + 1) : q[y].ip = j /\ (\A w \in 1..(y - 1) : q[w].ip # j) /\ arpcache_get(j)' = q[y].mac
        BY <2>3, <3>1, <4>1, <4>2 DEF Found
      <4>4. y # 1
        BY <2>1, <2>3, <2>5, <4>3
      <4>5. y - 1 \in 1..n /\ q[y] = arpcache[y - 1]
        BY <2>3, <4>4
      <4>6. ~(y - 1 < k)
        BY <4>1, <4>3, <4>5
      <4>7. ~(k + 1 < y)
        BY <4>1, <4>2, <4>3
      <4>8. y - 1 = k
        BY <4>5, <4>6, <4>7
      <4> QED BY <4>1, <4>3, <4>5, <4>8
    <3>3. CASE ~ \E k \in 1..n : arpcache[k].ip = j
      <4>1. ~ \E k \in 1..(n + 1) : q[k].ip = j
        <5> SUFFICES ASSUME NEW k \in 1..(n + 1), q[k].ip = j PROVE FALSE
          OBVIOUS
        <5>1. k # 1
          BY <2>1, <2>3, <2>5
        <5>2. k - 1 \in 1..n /\ q[k] = arpcache[k - 1]
          BY <2>3, <5>1
        <5> QED BY <3>3, <5>2
      <4> QED BY <1>1, <2>3, <3>1, <3>3, <4>1 DEF Found
    <3> QED BY <3>2, <3>3
  <2> QED BY <1>3, <2>4, <2>5 DEF ArpCurrent
<1> QED BY <1>6, <1>7

-----------------------------------------------------------------------------
(* The handles. *)

LEMMA SeqGrows ==
    ASSUME NEW n \in Nat, NEW x \in Seq(1..n)
    PROVE  x \in Seq(Nat) /\ x \in Seq(1..(n + 1))
<1>1. \A i \in 1..Len(x) : x[i] \in 1..n
  BY ElementOfSeq
<1>2. \A i \in 1..Len(x) : x[i] \in Nat /\ x[i] \in 1..(n + 1)
  BY <1>1
<1>3. Len(x) \in Nat /\ x = [i \in 1..Len(x) |-> x[i]]
  BY LenProperties
<1>4. x \in Seq(Nat)
  BY <1>2, <1>3, IsASeq
<1>5. x \in Seq(1..(n + 1))
  BY <1>2, <1>3, IsASeq
<1> QED BY <1>4, <1>5

LEMMA HandleGrows ==
    ASSUME NEW n \in Nat, NEW g \in HandleType(n)
    PROVE  g \in HandleType(n + 1) /\ g.rx \in Seq(Nat)
<1>1. g.rx \in Seq(1..n)
  BY DEF HandleType
<1>2. g.rx \in Seq(Nat) /\ g.rx \in Seq(1..(n + 1))
  BY <1>1, SeqGrows
<1> QED BY <1>2 DEF HandleType

LEMMA SetReqh ==
    ASSUME NEW n \in Nat, NEW g \in HandleType(n), NEW v \in -1..1, NEW h, h = [g EXCEPT !.reqh = v]
    PROVE  h \in HandleType(n) /\ h.state = g.state /\ h.type = g.type /\ h.reqh = v /\ h.rx = g.rx /\ h.damaged = g.damaged
<1>1. h.state = g.state /\ h.type = g.type /\ h.reqh = v /\ h.rx = g.rx /\ h.damaged = g.damaged
  BY DEF HandleType
<1>2. h \in HandleType(n)
  BY DEF HandleType
<1> QED BY <1>1, <1>2

\* A datagram for a handle: a listener is opened, a read is answered, the first
\* of a handle made by connect is lost, and any other is queued.
LEMMA HandleReceives ==
    ASSUME NEW n, NEW g, NEW r, NEW a, NEW l, NEW d, NEW o, NEW r2, NEW l2, Receives(n, g, r, a, l, d, o, r2, l2)
    PROVE  /\ udp_recv_callback(o, d) \in HandleType(n + 1)
           /\ udp_recv_callback(o, d).type = "UDP" /\ udp_recv_callback(o, d).state = "open"
           /\ HandleInv(udp_recv_callback(o, d), r2, Append(a, d), l2)
           /\ r2 \in Seq(Nat) /\ l2 \in Nat
<1> /\ n \in Nat /\ d = n + 1 /\ d \in Nat /\ g \in HandleType(n) /\ r \in Seq(Nat) /\ a \in Seq(Nat) /\ l \in Nat
    /\ HandleInv(g, r, a, l) /\ g.type = "UDP" /\ ~g.damaged
    /\ o = (IF g.state = "opening" THEN udp_listen_callback(g) ELSE g)
    /\ r2 = (IF o.reqh = 1 THEN Append(r, d) ELSE r) /\ l2 = (IF o.reqh = 0 THEN l + 1 ELSE l)
  BY DEF Receives
<1>1. g \in HandleType(n + 1) /\ g.rx \in Seq(Nat) /\ g.rx \in Seq(1..(n + 1)) /\ g.reqh \in -1..1
  BY HandleGrows DEF HandleType
<1>2. g.state \in {"opening", "open"}
  BY DEF HandleInv, HandleType
<1>3. d \in 1..(n + 1) /\ Append(r, d) \in Seq(Nat) /\ Append(g.rx, d) \in Seq(1..(n + 1))
  BY <1>1, AppendProperties
<1>4. r2 \in Seq(Nat) /\ l2 \in Nat
  BY <1>3
<1>5. CASE g.state = "opening"
  <2>1. r = <<>> /\ a = <<>> /\ l = 0 /\ g.rx = <<>>
    BY <1>5 DEF HandleInv
  <2>2. o = [g EXCEPT !.state = "open", !.reqh = -1]
    BY <1>5 DEF udp_listen_callback
  <2>3. o.reqh = -1 /\ o.rx = <<>> /\ o.state = "open" /\ o.type = "UDP" /\ o \in HandleType(n + 1)
    <3>1. n + 1 \in Nat /\ g \in HandleType(n + 1)
      BY <1>1
    <3>2. PICK m \in Nat : m = n + 1 /\ g \in HandleType(m)
      BY <3>1
    <3>3. o.state = "open" /\ o.type = g.type /\ o.reqh = -1 /\ o.rx = g.rx
      BY <2>2, <3>2 DEF HandleType
    <3>4. -1 \in -1..1
      OBVIOUS
    <3>5. o \in HandleType(m)
      BY <2>2, <3>2, <3>4 DEF HandleType
    <3> QED BY <2>1, <3>2, <3>3, <3>5
  <2>4. PICK h : h = udp_recv_callback(o, d)
    OBVIOUS
  <2>5. h = [o EXCEPT !.rx = Append(o.rx, d)]
    <3>1. ~(o.reqh >= 0)
      BY <2>3
    <3> QED BY <2>4, <3>1 DEF udp_recv_callback, enqueued
  <2>6. h.rx = Append(<<>>, d) /\ h.state = "open" /\ h.type = "UDP" /\ h.reqh = -1 /\ h \in HandleType(n + 1)
    BY <1>3, <2>1, <2>3, <2>5 DEF HandleType
  <2>7. r2 = <<>> /\ l2 = 0
    BY <2>1, <2>3
  <2>8. Flows(r2, h.rx, Append(a, d), l2)
    <3>1. <<>> \in Seq(Nat) /\ 0 \in Nat
      OBVIOUS
    <3> QED BY <2>1, <2>6, <2>7, <3>1, NothingFlows, FlowEnqueue
  <2>9. HandleInv(h, r2, Append(a, d), l2)
    BY <2>6, <2>7, <2>8 DEF HandleInv
  <2> QED BY <1>4, <2>4, <2>6, <2>9
<1>6. CASE g.state = "open" /\ g.reqh = 1
  <2>1. o = g /\ g.rx = <<>> /\ Flows(r, <<>>, a, l) /\ l <= 1
    <3>1. g.rx = <<>> /\ Flows(r, g.rx, a, l) /\ l <= 1
      BY <1>6 DEF HandleInv
    <3> QED BY <1>6, <3>1
  <2>4. PICK h : h = udp_recv_callback(o, d)
    OBVIOUS
  <2>5. h = [g EXCEPT !.reqh = -1]
    BY <1>6, <2>1, <2>4 DEF udp_recv_callback
  <2>6. h.rx = <<>> /\ h.state = "open" /\ h.type = "UDP" /\ h.reqh = -1 /\ h \in HandleType(n + 1)
    <3>1. -1 \in -1..1
      OBVIOUS
    <3> QED BY <1>1, <1>6, <2>1, <2>5, <3>1, SetReqh
  <2>7. r2 = Append(r, d) /\ l2 = l
    BY <1>6, <2>1
  <2>8. Flows(r2, h.rx, Append(a, d), l2)
    BY <2>1, <2>6, <2>7, FlowDeliver
  <2>9. HandleInv(h, r2, Append(a, d), l2)
    BY <2>1, <2>6, <2>7, <2>8 DEF HandleInv
  <2> QED BY <1>4, <2>4, <2>6, <2>9
<1>7. CASE g.state = "open" /\ g.reqh = 0
  <2>1. o = g /\ g.rx = <<>> /\ r = <<>> /\ a = <<>> /\ l = 0
    BY <1>7 DEF HandleInv
  <2>4. PICK h : h = udp_recv_callback(o, d)
    OBVIOUS
  <2>5. h = [g EXCEPT !.reqh = -1]
    BY <1>7, <2>1, <2>4 DEF udp_recv_callback
  <2>6. h.rx = <<>> /\ h.state = "open" /\ h.type = "UDP" /\ h.reqh = -1 /\ h \in HandleType(n + 1)
    BY <1>1, <1>7, <2>1, <2>5 DEF HandleType
  <2>7. r2 = <<>> /\ l2 = 1 /\ Append(a, d) = <<d>>
    BY <1>7, <2>1
  <2>8. Flows(r2, h.rx, Append(a, d), l2)
    BY <2>6, <2>7, FirstIsLost
  <2>9. HandleInv(h, r2, Append(a, d), l2)
    BY <2>6, <2>7, <2>8 DEF HandleInv
  <2> QED BY <1>4, <2>4, <2>6, <2>9
<1>8. CASE g.state = "open" /\ g.reqh = -1
  <2>1. o = g /\ Flows(r, g.rx, a, l) /\ l <= 1
    BY <1>8 DEF HandleInv
  <2>4. PICK h : h = udp_recv_callback(o, d)
    OBVIOUS
  <2>5. h = [g EXCEPT !.rx = Append(g.rx, d)]
    BY <1>8, <2>1, <2>4 DEF udp_recv_callback, enqueued
  <2>6. h.rx = Append(g.rx, d) /\ h.state = "open" /\ h.type = "UDP" /\ h.reqh = -1 /\ h \in HandleType(n + 1)
    BY <1>1, <1>3, <1>8, <2>5 DEF HandleType
  <2>7. r2 = r /\ l2 = l
    BY <1>8, <2>1
  <2>8. Flows(r2, h.rx, Append(a, d), l2)
    BY <1>1, <2>1, <2>6, <2>7, FlowEnqueue
  <2>9. HandleInv(h, r2, Append(a, d), l2)
    BY <2>1, <2>6, <2>7, <2>8 DEF HandleInv
  <2> QED BY <1>4, <2>4, <2>6, <2>9
<1>9. g.reqh \in {-1, 0, 1}
  BY <1>1
<1> QED BY <1>2, <1>5, <1>6, <1>7, <1>8, <1>9

\* A read: the handle either waits, or gives its first datagram.
LEMMA HandleReads ==
    ASSUME NEW n \in Nat, NEW g \in HandleType(n), NEW r \in Seq(Nat), NEW a \in Seq(Nat), NEW l \in Nat,
           HandleInv(g, r, a, l), g.state = "open", ~g.damaged, g.rx # <<>>,
           NEW h, h = [g EXCEPT !.rx = Tail(g.rx), !.damaged = Tail(g.rx) # <<>>]
    PROVE  /\ h \in HandleType(n) /\ h.type = g.type /\ h.state = "open"
           /\ HandleInv(h, Append(r, Head(g.rx)), a, l) /\ Append(r, Head(g.rx)) \in Seq(Nat)
<1>1. g.rx \in Seq(Nat) /\ g.rx \in Seq(1..n) /\ g.reqh \in -1..1
  BY HandleGrows DEF HandleType
<1>2. Flows(r, g.rx, a, l) /\ l <= 1 /\ ~(g.reqh >= 0)
  BY DEF HandleInv
<1>3. Flows(Append(r, Head(g.rx)), Tail(g.rx), a, l) /\ Append(r, Head(g.rx)) \in Seq(Nat)
  BY <1>1, <1>2, FlowRead
<1>4. Tail(g.rx) \in Seq(1..n)
  BY <1>1, HeadTailProperties
<1>5. h.rx = Tail(g.rx) /\ h.state = "open" /\ h.type = g.type /\ h.reqh = g.reqh /\ h \in HandleType(n)
  BY <1>4 DEF HandleType
<1>6. ~(h.reqh >= 0) /\ h.reqh # 0
  BY <1>1, <1>2, <1>5
<1> QED BY <1>2, <1>3, <1>5, <1>6 DEF HandleInv

LEMMA HandleWaits ==
    ASSUME NEW n \in Nat, NEW g \in HandleType(n), NEW r \in Seq(Nat), NEW a \in Seq(Nat), NEW l \in Nat,
           HandleInv(g, r, a, l), g.state = "open", ~g.damaged, g.rx = <<>>, NEW h, h = [g EXCEPT !.reqh = 1]
    PROVE  h \in HandleType(n) /\ h.type = g.type /\ h.state = "open" /\ HandleInv(h, r, a, l)
<1>1. h.rx = <<>> /\ h.state = "open" /\ h.type = g.type /\ h.reqh = 1 /\ h.damaged = g.damaged /\ h \in HandleType(n)
  BY SetReqh
<1> QED BY <1>1 DEF HandleInv

-----------------------------------------------------------------------------
(* The connections. *)

\* A step that leaves the list, and no handle starts to listen.
LEMMA ConnsSame ==
    ASSUME NEW q, NEW w, NEW v, ConnsInv(q, w), \A k \in 1..Len(q) : q[k].f \in File,
           \A e \in File : (v[e].type = "UDP" <=> w[e].type = "UDP") /\ (v[e].state = "opening" => w[e].state = "opening")
    PROVE  ConnsInv(q, v)
<1>1. \A j, k \in 1..Len(q) : q[j].f = q[k].f => j = k
  BY DEF ConnsInv
<1>2. \A k \in 1..Len(q) : v[q[k].f].type = "UDP"
  BY DEF ConnsInv
<1>3. \A e \in File : w[e].type = "UDP" => \E k \in 1..Len(q) : q[k].f = e /\ (w[e].state = "opening" => q[k].listening)
  BY DEF ConnsInv
<1>4. \A e \in File : v[e].type = "UDP" => \E k \in 1..Len(q) : q[k].f = e /\ (v[e].state = "opening" => q[k].listening)
  BY <1>3
<1>5. \A e \in File : v[e].state = "opening" => v[e].type = "UDP"
  BY DEF ConnsInv
<1> QED BY <1>1, <1>2, <1>4, <1>5 DEF ConnsInv

\* A new connection.
LEMMA ConnsCons ==
    ASSUME NEW e \in File, NEW n \in Nat, ConnsInv(conns, nh), n = Len(conns),
           \A k \in 1..n : conns[k].f \in File,
           nh[e].type # "UDP", nh'[e].type = "UDP", \A d \in File \ {e} : nh'[d] = nh[d],
           Len(conns') = n + 1, conns'[1].f = e, nh'[e].state = "opening" => conns'[1].listening, \A k \in 2..(n + 1) : conns'[k] = conns[k - 1]
    PROVE  ConnsInv(conns', nh')
<1>1. \A j, k \in 1..n : conns[j].f = conns[k].f => j = k
  BY DEF ConnsInv
<1>2. \A k \in 1..n : nh[conns[k].f].type = "UDP" /\ conns[k].f # e
  BY DEF ConnsInv
<1>3. ASSUME NEW k \in 1..(n + 1), k # 1
      PROVE  k - 1 \in 1..n /\ conns'[k] = conns[k - 1] /\ conns'[k].f # e /\ conns'[k].f \in File /\ nh[conns'[k].f].type = "UDP"
  <2>1. k - 1 \in 1..n /\ conns'[k] = conns[k - 1]
    BY <1>3
  <2> QED BY <1>2, <2>1
<1>4. ASSUME NEW j \in 1..(n + 1), NEW k \in 1..(n + 1), conns'[j].f = conns'[k].f
      PROVE  j = k
  <2>1. CASE j = 1
    BY <1>3, <1>4, <2>1
  <2>2. CASE k = 1
    BY <1>3, <1>4, <2>2
  <2>3. CASE j # 1 /\ k # 1
    <3>1. j - 1 \in 1..n /\ k - 1 \in 1..n /\ conns[j - 1].f = conns[k - 1].f
      BY <1>3, <1>4, <2>3
    <3>2. j - 1 = k - 1
      BY <1>1, <3>1
    <3> QED BY <3>2
  <2> QED BY <2>1, <2>2, <2>3
<1>5. ASSUME NEW k \in 1..(n + 1)
      PROVE  nh'[conns'[k].f].type = "UDP"
  <2>1. CASE k = 1
    BY <2>1
  <2>2. CASE k # 1
    BY <1>3, <2>2
  <2> QED BY <2>1, <2>2
<1>6. ASSUME NEW d \in File, nh'[d].type = "UDP"
      PROVE  \E k \in 1..(n + 1) : conns'[k].f = d /\ (nh'[d].state = "opening" => conns'[k].listening)
  <2>1. CASE d = e
    BY <2>1
  <2>2. CASE d # e
    <3>1. PICK k \in 1..n : conns[k].f = d /\ (nh[d].state = "opening" => conns[k].listening)
      BY <1>6, <2>2 DEF ConnsInv
    <3>2. k + 1 \in 1..(n + 1) /\ conns'[k + 1] = conns[k]
      OBVIOUS
    <3> QED BY <2>2, <3>1, <3>2
  <2> QED BY <2>1, <2>2
<1>7. \A d \in File : nh'[d].state = "opening" => nh'[d].type = "UDP"
  BY DEF ConnsInv
<1> QED BY <1>4, <1>5, <1>6, <1>7 DEF ConnsInv

\* The connection of e is gone, and e with it.
LEMMA ConnsRemove ==
    ASSUME NEW q, NEW w, NEW v, NEW u, NEW e \in File, NEW n \in Nat, ConnsInv(q, w), n = Len(q),
           \A k \in 1..n : q[k].f \in File,
           v[e].type # "UDP", v[e].state # "opening", \A d \in File \ {e} : v[d] = w[d],
           NEW x \in 1..n, q[x].f = e,
           Len(u) = n - 1, \A k \in 1..(n - 1) : u[k] = IF k < x THEN q[k] ELSE q[k + 1]
    PROVE  ConnsInv(u, v)
<1>1. \A j, k \in 1..n : q[j].f = q[k].f => j = k
  BY DEF ConnsInv
<1>2. ASSUME NEW k \in 1..(n - 1)
      PROVE  \E o \in 1..n : o = (IF k < x THEN k ELSE k + 1) /\ u[k] = q[o] /\ q[o].f # e
  <2>1. PICK o \in 1..n : o = (IF k < x THEN k ELSE k + 1)
    OBVIOUS
  <2>2. o # x
    BY <2>1
  <2>3. u[k] = q[o]
    BY <2>1
  <2> QED BY <1>1, <2>1, <2>2, <2>3
<1>3. ASSUME NEW j \in 1..(n - 1), NEW k \in 1..(n - 1), u[j].f = u[k].f
      PROVE  j = k
  <2>1. PICK o \in 1..n : o = (IF j < x THEN j ELSE j + 1) /\ u[j] = q[o]
    BY <1>2
  <2>2. PICK p \in 1..n : p = (IF k < x THEN k ELSE k + 1) /\ u[k] = q[p]
    BY <1>2
  <2>3. o = p
    BY <1>1, <1>3, <2>1, <2>2
  <2> QED BY <2>1, <2>2, <2>3
<1>4. ASSUME NEW k \in 1..(n - 1)
      PROVE  v[u[k].f].type = "UDP"
  <2>1. PICK o \in 1..n : u[k] = q[o] /\ q[o].f # e
    BY <1>2
  <2>2. w[q[o].f].type = "UDP"
    BY DEF ConnsInv
  <2> QED BY <2>1, <2>2
<1>5. ASSUME NEW d \in File, v[d].type = "UDP"
      PROVE  \E k \in 1..(n - 1) : u[k].f = d /\ (v[d].state = "opening" => u[k].listening)
  <2>1. d # e
    BY <1>5
  <2>2. PICK o \in 1..n : q[o].f = d /\ (w[d].state = "opening" => q[o].listening)
    BY <1>5, <2>1 DEF ConnsInv
  <2>3. o # x
    BY <2>1, <2>2
  <2>4. CASE o < x
    <3>1. o \in 1..(n - 1) /\ u[o] = q[o]
      BY <2>4
    <3> QED BY <2>1, <2>2, <3>1
  <2>5. CASE ~(o < x)
    <3>1. o - 1 \in 1..(n - 1) /\ ~(o - 1 < x) /\ (o - 1) + 1 = o
      BY <2>3, <2>5
    <3>2. u[o - 1] = q[o]
      BY <3>1
    <3> QED BY <2>1, <2>2, <3>1, <3>2
  <2> QED BY <2>4, <2>5
<1>6. \A d \in File : v[d].state = "opening" => v[d].type = "UDP"
  BY DEF ConnsInv
<1> QED BY <1>3, <1>4, <1>5, <1>6 DEF ConnsInv

\* A datagram opens the handles of the connections that it matches.
LEMMA ConnsMatch ==
    ASSUME NEW q, NEW w, NEW v, NEW u, NEW n \in Nat, ConnsInv(q, w), n = Len(q), Len(u) = n,
           \A k \in 1..n : q[k].f \in File, \A k \in 1..n : u[k].f = q[k].f,
           \A e \in File : v[e].type = w[e].type /\ (v[e].state = "opening" => w[e].state = "opening"),
           \A k \in 1..n : v[q[k].f].state = "opening" => u[k] = q[k]
    PROVE  ConnsInv(u, v)
<1>1. \A j, k \in 1..n : u[j].f = u[k].f => j = k
  BY DEF ConnsInv
<1>2. \A k \in 1..n : v[u[k].f].type = "UDP"
  BY DEF ConnsInv
<1>3. ASSUME NEW d \in File, v[d].type = "UDP"
      PROVE  \E k \in 1..n : u[k].f = d /\ (v[d].state = "opening" => u[k].listening)
  <2>1. PICK o \in 1..n : q[o].f = d /\ (w[d].state = "opening" => q[o].listening)
    BY <1>3 DEF ConnsInv
  <2> QED BY <2>1
<1>4. \A d \in File : v[d].state = "opening" => v[d].type = "UDP"
  BY DEF ConnsInv
<1> QED BY <1>1, <1>2, <1>3, <1>4 DEF ConnsInv

-----------------------------------------------------------------------------
(* The steps. *)

LEMMA ConnFiles ==
    ASSUME NetTypes
    PROVE  /\ Len(conns) \in Nat /\ DOMAIN conns = 1..Len(conns)
           /\ \A k \in 1..Len(conns) : conns[k] \in ConnType /\ conns[k].f \in File
<1>1. conns \in Seq(ConnType)
  BY DEF NetTypes
<1>2. \A k \in 1..Len(conns) : conns[k] \in ConnType
  BY <1>1, ElementOfSeq
<1>3. \A k \in 1..Len(conns) : conns[k].f \in File
  BY <1>2 DEF ConnType
<1> QED BY <1>1, <1>2, <1>3, LenProperties

LEMMA ArpStays ==
    ASSUME ArpCurrent, UNCHANGED <<arpcache, heard>>
    PROVE  ArpCurrent'
<1>1. \A i : arpcache_get(i)' = arpcache_get(i)
  BY DEF arpcache_get, SelectInSeq
<1> QED BY <1>1 DEF ArpCurrent

LEMMA FrameArpKeeps ==
    ASSUME NetfsInv, NEW i \in Ip, NEW m \in Mac, FrameArp(i, m)
    PROVE  NetfsInv'
<1> USE DEF NetfsInv
<1>1. ArpInv(arpcache, heard') /\ ArpCurrent' /\ heard' \in [Ip -> Seq(Mac)]
  BY ArpInvKept, ArpCurrentKept, HeardIs DEF FrameArp
<1>2. ArpInv(arpcache', heard') /\ arpcache' \in Seq(Entry)
  <2>1. CASE correct(i, m)
    BY <1>1, <2>1 DEF FrameArp, NetTypes
  <2>2. CASE ~correct(i, m)
    BY <1>1, <2>2, ArpInvGrows DEF FrameArp
  <2> QED BY <2>1, <2>2
<1>3. UNCHANGED <<conns, nh, received, arrived, lost, ndgrams>>
  BY DEF FrameArp
<1>4. frames' \in Nat /\ ndgrams' <= frames' /\ frames' <= MaxFrames /\ ether_queue' \in 0..MaxRaw
  BY <1>3, NetfsAssumption DEF FrameArp, ether_parse, NetTypes
<1>5. NetTypes'
  BY <1>1, <1>2, <1>3, <1>4 DEF NetTypes
<1> QED BY <1>1, <1>2, <1>3, <1>5

LEMMA FrameUdpKeeps ==
    ASSUME NetfsInv, NEW i \in Ip, NEW port \in Port, FrameUdp(i, port)
    PROVE  NetfsInv'
<1> DEFINE d == ndgrams + 1
           M == matching(i, port)
           F == {conns[k].f : k \in M}
           opened(e) == IF nh[e].state = "opening" THEN udp_listen_callback(nh[e]) ELSE nh[e]
<1>1. PICK n \in Nat : n = Len(conns)
  BY ConnFiles DEF NetfsInv
<1>2. DOMAIN conns = 1..n /\ \A k \in 1..n : conns[k] \in ConnType /\ conns[k].f \in File
  BY <1>1, ConnFiles DEF NetfsInv
<1>3. M \subseteq 1..n
  BY <1>2 DEF matching
<1>4. F \subseteq File
  BY <1>2, <1>3
<1>5. d \in Nat /\ ndgrams' = d /\ ndgrams \in Nat
  <2>1. ndgrams \in Nat
    BY DEF NetfsInv, NetTypes
  <2>2. ndgrams' = ndgrams + 1
    BY DEF FrameUdp
  <2> QED BY <2>1, <2>2
<1>6. \A e \in F : ~nh[e].damaged
  BY DEF FrameUdp
<1>7. \A e \in F : nh[e].type = "UDP"
  BY <1>1, <1>3 DEF NetfsInv, ConnsInv
<1>8. conns' = [k \in DOMAIN conns |-> IF k \in M THEN [conns[k] EXCEPT !.listening = FALSE, !.rip = i] ELSE conns[k]]
  BY DEF FrameUdp
<1>9. /\ nh' = [e \in File |-> IF e \in F THEN udp_recv_callback(opened(e), d) ELSE nh[e]]
      /\ received' = [e \in File |-> IF e \in F /\ opened(e).reqh = 1 THEN Append(received[e], d) ELSE received[e]]
      /\ lost' = [e \in File |-> IF e \in F /\ opened(e).reqh = 0 THEN lost[e] + 1 ELSE lost[e]]
      /\ arrived' = [e \in File |-> IF e \in F THEN Append(arrived[e], d) ELSE arrived[e]]
  <2>1. /\ nh' = [e \in File |-> IF e \in F THEN udp_recv_callback([g \in F |-> opened(g)][e], d) ELSE nh[e]]
        /\ received' = [e \in File |-> IF e \in F /\ [g \in F |-> opened(g)][e].reqh = 1 THEN Append(received[e], d) ELSE received[e]]
        /\ lost' = [e \in File |-> IF e \in F /\ [g \in F |-> opened(g)][e].reqh = 0 THEN lost[e] + 1 ELSE lost[e]]
        /\ arrived' = [e \in File |-> IF e \in F THEN Append(arrived[e], d) ELSE arrived[e]]
    BY DEF FrameUdp
  <2>2. \A e \in F : [g \in F |-> opened(g)][e] = opened(e)
    OBVIOUS
  <2> HIDE DEF opened, F, d
  <2> QED BY <2>1, <2>2
<1>10. ether_queue' = 0 /\ frames' = frames + 1 /\ frames < MaxFrames /\ UNCHANGED <<arpcache, heard>>
  BY DEF FrameUdp, ether_parse
<1> HIDE DEF d, M, F, opened
<1>11. \A e \in File : /\ nh[e] \in HandleType(ndgrams) /\ received[e] \in Seq(Nat) /\ arrived[e] \in Seq(Nat)
                        /\ lost[e] \in Nat /\ HandleInv(nh[e], received[e], arrived[e], lost[e])
  BY DEF NetfsInv, NetTypes
<1>12. ASSUME NEW e \in File
       PROVE  /\ nh'[e] \in HandleType(d) /\ nh'[e].type = nh[e].type
              /\ e \in F => nh'[e].state = "open"
              /\ e \notin F => nh'[e] = nh[e]
              /\ received'[e] \in Seq(Nat) /\ arrived'[e] \in Seq(Nat) /\ lost'[e] \in Nat
              /\ HandleInv(nh'[e], received'[e], arrived'[e], lost'[e])
  <2>1. CASE e \in F
    <3>1. PICK g, r, a, l, o : g = nh[e] /\ r = received[e] /\ a = arrived[e] /\ l = lost[e] /\ o = opened(e)
      OBVIOUS
    <3>2. /\ nh'[e] = udp_recv_callback(o, d)
          /\ received'[e] = (IF o.reqh = 1 THEN Append(r, d) ELSE r)
          /\ lost'[e] = (IF o.reqh = 0 THEN l + 1 ELSE l)
          /\ arrived'[e] = Append(a, d)
      BY <1>9, <2>1, <3>1
    <3>3. o = (IF g.state = "opening" THEN udp_listen_callback(g) ELSE g)
      BY <3>1 DEF opened
    <3>4. d = ndgrams + 1
      BY DEF d
    <3>5. g.type = "UDP" /\ ~g.damaged
      BY <1>6, <1>7, <2>1, <3>1
    <3>6. /\ g \in HandleType(ndgrams) /\ r \in Seq(Nat) /\ a \in Seq(Nat)
          /\ l \in Nat /\ HandleInv(g, r, a, l)
      BY <1>11, <3>1
    <3>7. PICK r2, l2 : r2 = received'[e] /\ l2 = lost'[e]
      OBVIOUS
    <3>8. r2 = (IF o.reqh = 1 THEN Append(r, d) ELSE r) /\ l2 = (IF o.reqh = 0 THEN l + 1 ELSE l)
      BY <3>2, <3>7
    <3>9. /\ udp_recv_callback(o, d) \in HandleType(ndgrams + 1)
          /\ udp_recv_callback(o, d).type = "UDP" /\ udp_recv_callback(o, d).state = "open"
          /\ HandleInv(udp_recv_callback(o, d), r2, Append(a, d), l2)
          /\ r2 \in Seq(Nat) /\ l2 \in Nat
      <4>1. Receives(ndgrams, g, r, a, l, d, o, r2, l2)
        BY <1>5, <3>3, <3>4, <3>5, <3>6, <3>8 DEF Receives
      <4> QED BY <4>1, HandleReceives
    <3>10. Append(a, d) \in Seq(Nat)
      BY <1>5, <3>6, AppendProperties
    <3> QED BY <2>1, <3>1, <3>2, <3>4, <3>5, <3>7, <3>9, <3>10
  <2>2. CASE e \notin F
    <3>1. nh'[e] = nh[e] /\ received'[e] = received[e] /\ lost'[e] = lost[e] /\ arrived'[e] = arrived[e]
      BY <1>9, <2>2
    <3>2. nh[e] \in HandleType(d)
      BY <1>5, <1>11, HandleGrows DEF d
    <3> QED BY <1>11, <2>2, <3>1, <3>2
  <2> QED BY <2>1, <2>2
<1>13. nh' \in [File -> HandleType(d)] /\ received' \in [File -> Seq(Nat)] /\ arrived' \in [File -> Seq(Nat)] /\ lost' \in [File -> Nat]
  BY <1>9, <1>12
<1>14. ASSUME NEW k \in 1..n
       PROVE  /\ conns'[k] \in ConnType /\ conns'[k].f = conns[k].f
              /\ nh'[conns[k].f].state = "opening" => conns'[k] = conns[k]
  <2>1. CASE k \in M
    <3>1. conns[k] \in ConnType
      BY <1>2
    <3>2. conns'[k] = [conns[k] EXCEPT !.listening = FALSE, !.rip = i]
      BY <1>2, <1>8, <2>1
    <3>3. conns'[k] \in ConnType
      BY <3>1, <3>2 DEF ConnType
    <3>4. conns'[k].f = conns[k].f
      BY <3>1, <3>2 DEF ConnType
    <3>5. nh'[conns[k].f].state = "open"
      BY <1>4, <1>12, <2>1 DEF F
    <3> QED BY <3>3, <3>4, <3>5
  <2>2. CASE k \notin M
    BY <1>2, <1>8, <2>2
  <2> QED BY <2>1, <2>2
<1>15. conns' \in Seq(ConnType) /\ Len(conns') = n
  <2>1. conns' = [k \in 1..n |-> conns'[k]]
    BY <1>2, <1>8
  <2>2. conns' \in Seq(ConnType)
    BY <1>14, <2>1, IsASeq
  <2>3. Len(conns') = n
    <3>1. DOMAIN conns' = 1..n
      BY <1>2, <1>8
    <3>2. DOMAIN conns' = 1..Len(conns') /\ Len(conns') \in Nat
      BY <2>2, LenProperties
    <3> QED BY <1>1, <3>1, <3>2
  <2> QED BY <2>2, <2>3
<1>16. ConnsInv(conns', nh')
  <2>1. ConnsInv(conns, nh)
    BY DEF NetfsInv
  <2>2. \A e \in File : nh'[e].type = nh[e].type /\ (nh'[e].state = "opening" => nh[e].state = "opening")
    BY <1>12
  <2> QED BY <1>1, <1>2, <1>14, <1>15, <2>1, <2>2, ConnsMatch
<1>17. NetTypes'
  <2>1. frames \in Nat /\ ndgrams <= frames /\ ether_queue' \in 0..MaxRaw
    BY <1>10, NetfsAssumption DEF NetfsInv, NetTypes
  <2>2. frames' \in Nat /\ ndgrams' <= frames' /\ frames' <= MaxFrames
    BY <1>5, <1>10, <2>1, NetfsAssumption DEF d
  <2> QED BY <1>5, <1>10, <1>13, <1>15, <2>1, <2>2 DEF NetfsInv, NetTypes
<1>18. ArpInv(arpcache', heard') /\ ArpCurrent'
  BY <1>10, ArpStays DEF NetfsInv
<1> QED BY <1>12, <1>16, <1>17, <1>18 DEF NetfsInv

\* A step of one handle that neither receives nor parses a frame.
LEMMA OneHandle ==
    ASSUME NetfsInv, NEW e \in File, NEW g \in HandleType(ndgrams), nh' = [nh EXCEPT ![e] = g],
           conns' \in Seq(ConnType), ConnsInv(conns', nh'), received' \in [File -> Seq(Nat)],
           \A d \in File \ {e} : received'[d] = received[d], HandleInv(g, received'[e], arrived[e], lost[e]),
           ether_queue' \in 0..MaxRaw, UNCHANGED <<arpcache, arrived, lost, ndgrams, frames, heard>>
    PROVE  NetfsInv'
<1>1. NetTypes'
  BY DEF NetfsInv, NetTypes
<1>2. ArpInv(arpcache', heard') /\ ArpCurrent'
  BY ArpStays DEF NetfsInv
<1>3. ASSUME NEW d \in File
      PROVE  HandleInv(nh'[d], received'[d], arrived'[d], lost'[d])
  <2>1. CASE d = e
    BY <2>1 DEF NetfsInv, NetTypes
  <2>2. CASE d # e
    BY <2>2 DEF NetfsInv, NetTypes
  <2> QED BY <2>1, <2>2
<1> QED BY <1>1, <1>2, <1>3 DEF NetfsInv

LEMMA NewHandle ==
    ASSUME NetfsInv, NEW e \in File, nh[e].state = "none", NEW t \in {"ETHER", "ARP", "UDP"},
           NEW s \in {"opening", "open"}, NEW r \in 0..1, s = "open" => r = 0, NEW cs, New(e, t, s, r, cs)
    PROVE  /\ ConnsInv(conns', nh') /\ conns' \in Seq(ConnType) => NetfsInv'
           /\ nh[e].type = "none" /\ nh'[e].type = t /\ nh'[e].state = s /\ \A d \in File \ {e} : nh'[d] = nh[d]
<1>1. PICK g : g = [NoFile EXCEPT !.type = t, !.state = s, !.reqh = r]
  OBVIOUS
<1>2. g = [state |-> s, type |-> t, reqh |-> r, rx |-> <<>>, damaged |-> FALSE]
  BY <1>1 DEF NoFile
<1>3. g \in HandleType(ndgrams)
  <2>1. r \in -1..1 /\ <<>> \in Seq(1..ndgrams)
    OBVIOUS
  <2> QED BY <1>2, <2>1 DEF HandleType
<1>4. g.state = s /\ g.type = t /\ g.reqh = r /\ g.rx = <<>> /\ g.damaged = FALSE
  BY <1>2
<1>5. nh' = [nh EXCEPT ![e] = g] /\ UNCHANGED <<arpcache, ether_queue, received, arrived, lost, ndgrams, frames, heard>>
  BY <1>1 DEF New
<1>6. nh \in [File -> HandleType(ndgrams)] /\ received \in [File -> Seq(Nat)] /\ ether_queue \in 0..MaxRaw
  BY DEF NetfsInv, NetTypes
<1>7. HandleInv(nh[e], received[e], arrived[e], lost[e])
  BY DEF NetfsInv
<1>8. received[e] = <<>> /\ arrived[e] = <<>> /\ lost[e] = 0 /\ nh[e].type = "none"
  BY <1>7 DEF HandleInv
<1>9. HandleInv(g, received[e], arrived[e], lost[e])
  <2>1. ~g.damaged /\ g.state \notin {"none", "freed"}
    BY <1>4
  <2>2. 0 <= 1
    OBVIOUS
  <2> QED BY <1>4, <1>8, <2>1, <2>2, NothingFlows DEF HandleInv
<1>10. nh'[e] = g /\ \A d \in File \ {e} : nh'[d] = nh[d]
  BY <1>5, <1>6
<1>11. ASSUME ConnsInv(conns', nh'), conns' \in Seq(ConnType) PROVE NetfsInv'
  BY <1>3, <1>5, <1>6, <1>9, <1>11, OneHandle
<1> QED BY <1>4, <1>8, <1>10, <1>11

LEMMA OpenKeeps ==
    ASSUME NetfsInv, NEW e \in File, OpenRaw(e) \/ OpenArp(e)
    PROVE  NetfsInv'
<1>1. PICK t \in {"ETHER", "ARP"} : nh[e].state = "none" /\ New(e, t, "open", 0, conns)
  BY DEF OpenRaw, OpenArp
<1>2. /\ ConnsInv(conns', nh') /\ conns' \in Seq(ConnType) => NetfsInv'
      /\ nh[e].type = "none" /\ nh'[e].type = t /\ nh'[e].state = "open" /\ \A d \in File \ {e} : nh'[d] = nh[d]
  <2>1. 0 \in 0..1 /\ "open" \in {"opening", "open"} /\ t \in {"ETHER", "ARP", "UDP"}
    OBVIOUS
  <2> QED BY <1>1, <2>1, NewHandle
<1>3. conns' = conns /\ conns \in Seq(ConnType) /\ ConnsInv(conns, nh)
  BY <1>1 DEF New, NetfsInv, NetTypes
<1>4. \A d \in File : (nh'[d].type = "UDP" <=> nh[d].type = "UDP") /\ (nh'[d].state = "opening" => nh[d].state = "opening")
  BY <1>2
<1>5. ConnsInv(conns, nh')
  BY <1>3, <1>4, ConnFiles, ConnsSame DEF NetfsInv
<1> QED BY <1>2, <1>3, <1>5

LEMMA OpenUdpKeeps ==
    ASSUME NetfsInv, NEW e \in File, NEW port \in Port,
           OpenUdpListen(e, port) \/ \E i \in Ip : OpenUdpConnect(e, i, port)
    PROVE  NetfsInv'
<1>1. PICK x \in ConnType, s \in {"opening", "open"}, r \in 0..1 :
        /\ x.f = e /\ (s = "open" => r = 0) /\ (s = "opening" => x.listening)
        /\ nh[e].state = "none" /\ New(e, "UDP", s, r, <<x>> \o conns)
  <2>1. CASE OpenUdpListen(e, port)
    <3>1. PICK x : x = [f |-> e, lport |-> port, rip |-> NoMac, listening |-> TRUE]
      OBVIOUS
    <3>2. x \in ConnType /\ x.f = e
      BY <3>1 DEF ConnType
    <3>3. x.listening
      BY <3>1
    <3>4. nh[e].state = "none" /\ New(e, "UDP", "opening", 1, <<x>> \o conns)
      BY <2>1, <3>1 DEF OpenUdpListen, udp_listen
    <3>5. 1 \in 0..1 /\ "opening" # "open"
      OBVIOUS
    <3> QED BY <3>2, <3>3, <3>4, <3>5
  <2>2. CASE \E i \in Ip : OpenUdpConnect(e, i, port)
    <3>1. PICK i \in Ip : OpenUdpConnect(e, i, port)
      BY <2>2
    <3>2. PICK x : x = [f |-> e, lport |-> port, rip |-> i, listening |-> FALSE]
      OBVIOUS
    <3>3. x \in ConnType /\ x.f = e
      BY <3>2 DEF ConnType
    <3>4. nh[e].state = "none" /\ New(e, "UDP", "open", 0, <<x>> \o conns)
      BY <3>1, <3>2 DEF OpenUdpConnect, udpc_new
    <3>5. 0 \in 0..1 /\ "open" # "opening"
      OBVIOUS
    <3> QED BY <3>3, <3>4, <3>5
  <2> QED BY <2>1, <2>2
<1>2. /\ ConnsInv(conns', nh') /\ conns' \in Seq(ConnType) => NetfsInv'
      /\ nh[e].type = "none" /\ nh'[e].type = "UDP" /\ nh'[e].state = s /\ \A d \in File \ {e} : nh'[d] = nh[d]
  BY <1>1, NewHandle
<1>3. conns' = <<x>> \o conns /\ conns \in Seq(ConnType) /\ ConnsInv(conns, nh)
  BY <1>1 DEF New, NetfsInv, NetTypes
<1>4. PICK n \in Nat : n = Len(conns) /\ \A k \in 1..n : conns[k].f \in File
  BY ConnFiles DEF NetfsInv
<1>6. conns' \in Seq(ConnType) /\ Len(conns') = n + 1 /\ conns'[1] = x /\ \A k \in 2..(n + 1) : conns'[k] = conns[k - 1]
  BY <1>3, <1>4, ConsIs
<1>7. conns'[1].f = e /\ (nh'[e].state = "opening" => conns'[1].listening)
  BY <1>1, <1>2, <1>6
<1>8. ConnsInv(conns', nh')
  BY <1>2, <1>3, <1>4, <1>6, <1>7, ConnsCons
<1> QED BY <1>2, <1>6, <1>8

LEMMA ReadRawKeeps ==
    ASSUME NetfsInv, NEW e \in File, ReadRaw(e)
    PROVE  NetfsInv'
<1>1. UNCHANGED <<arpcache, conns, nh, received, arrived, lost, ndgrams, frames, heard>> /\ ether_queue' \in 0..MaxRaw
  BY NetfsAssumption DEF ReadRaw, NetfsInv, NetTypes
<1>2. NetTypes'
  BY <1>1 DEF NetfsInv, NetTypes
<1>3. ArpCurrent'
  BY <1>1, ArpStays DEF NetfsInv
<1> QED BY <1>1, <1>2, <1>3 DEF NetfsInv

LEMMA NetfsStays ==
    ASSUME NetfsInv, UNCHANGED netfs_vars
    PROVE  NetfsInv'
<1>1. UNCHANGED <<arpcache, ether_queue, conns, nh, received, arrived, lost, ndgrams, frames, heard>>
  BY DEF netfs_vars
<1>2. NetTypes'
  BY <1>1 DEF NetfsInv, NetTypes
<1>3. ArpCurrent'
  BY <1>1, ArpStays DEF NetfsInv
<1> QED BY <1>1, <1>2, <1>3 DEF NetfsInv

LEMMA ReadUdpKeeps ==
    ASSUME NetfsInv, NEW e \in File, ReadUdp(e)
    PROVE  NetfsInv'
<1>1. PICK g, r, a, l : g = nh[e] /\ r = received[e] /\ a = arrived[e] /\ l = lost[e]
  OBVIOUS
<1>2. /\ nh \in [File -> HandleType(ndgrams)] /\ received \in [File -> Seq(Nat)] /\ ether_queue \in 0..MaxRaw
      /\ g \in HandleType(ndgrams) /\ r \in Seq(Nat) /\ a \in Seq(Nat) /\ l \in Nat /\ ndgrams \in Nat
      /\ HandleInv(g, r, a, l)
  BY <1>1 DEF NetfsInv, NetTypes
<1>3. g.state = "open" /\ g.type = "UDP" /\ ~g.damaged
  BY <1>1 DEF ReadUdp
<1>4. UNCHANGED <<arpcache, ether_queue, conns, arrived, lost, ndgrams, frames, heard>>
  BY DEF ReadUdp
<1>5. conns \in Seq(ConnType) /\ ConnsInv(conns, nh) /\ \A k \in 1..Len(conns) : conns[k].f \in File
  BY ConnFiles DEF NetfsInv, NetTypes
<1>6. ASSUME NEW h, nh' = [nh EXCEPT ![e] = h], h.type = g.type, h.state = "open" PROVE ConnsInv(conns', nh')
  <2>1. \A d \in File : (nh'[d].type = "UDP" <=> nh[d].type = "UDP") /\ (nh'[d].state = "opening" => nh[d].state = "opening")
    BY <1>1, <1>2, <1>3, <1>6
  <2> QED BY <1>4, <1>5, <2>1, ConnsSame
<1>7. CASE g.reqh > 0
  <2>1. UNCHANGED <<nh, received>>
    BY <1>1, <1>7 DEF ReadUdp
  <2> QED BY <1>4, <2>1, NetfsStays DEF netfs_vars
<1>8. CASE ~(g.reqh > 0) /\ ready(g)
  <2>1. /\ received' = [received EXCEPT ![e] = Append(r, Head(g.rx))]
        /\ nh' = [nh EXCEPT ![e].rx = Tail(g.rx), ![e].damaged = Tail(g.rx) # <<>>]
    BY <1>1, <1>8 DEF ReadUdp
  <2>2. PICK h : h = [g EXCEPT !.rx = Tail(g.rx), !.damaged = Tail(g.rx) # <<>>]
    OBVIOUS
  <2>3. nh' = [nh EXCEPT ![e] = h]
    BY <1>1, <1>2, <2>1, <2>2
  <2>4. /\ h \in HandleType(ndgrams) /\ h.type = g.type /\ h.state = "open"
        /\ HandleInv(h, Append(r, Head(g.rx)), a, l) /\ Append(r, Head(g.rx)) \in Seq(Nat)
    BY <1>2, <1>3, <1>8, <2>2, HandleReads DEF ready
  <2>5. /\ received' \in [File -> Seq(Nat)] /\ received'[e] = Append(r, Head(g.rx))
        /\ \A d \in File \ {e} : received'[d] = received[d]
    BY <1>2, <2>1, <2>4
  <2>6. HandleInv(h, received'[e], arrived[e], lost[e])
    BY <1>1, <2>4, <2>5
  <2>7. ConnsInv(conns', nh')
    BY <1>6, <2>3, <2>4
  <2> QED BY <1>2, <1>4, <1>5, <2>3, <2>4, <2>5, <2>6, <2>7, OneHandle
<1>9. CASE ~(g.reqh > 0) /\ ~ready(g)
  <2>1. nh' = [nh EXCEPT ![e].reqh = 1] /\ UNCHANGED received
    BY <1>1, <1>9 DEF ReadUdp
  <2>2. PICK h : h = [g EXCEPT !.reqh = 1]
    OBVIOUS
  <2>3. nh' = [nh EXCEPT ![e] = h]
    BY <1>1, <1>2, <2>1, <2>2
  <2>4. h \in HandleType(ndgrams) /\ h.type = g.type /\ h.state = "open" /\ HandleInv(h, r, a, l)
    BY <1>2, <1>3, <1>9, <2>2, HandleWaits DEF ready
  <2>6. HandleInv(h, received'[e], arrived[e], lost[e])
    BY <1>1, <2>1, <2>4
  <2>7. ConnsInv(conns', nh')
    BY <1>6, <2>3, <2>4
  <2> QED BY <1>2, <1>4, <1>5, <2>1, <2>3, <2>4, <2>6, <2>7, OneHandle
<1> QED BY <1>7, <1>8, <1>9

LEMMA CloseKeeps ==
    ASSUME NetfsInv, NEW e \in File, CloseFile(e)
    PROVE  NetfsInv'
<1>1. PICK g : g = [NoFile EXCEPT !.state = "freed"]
  OBVIOUS
<1>2. g = [state |-> "freed", type |-> "none", reqh |-> 0, rx |-> <<>>, damaged |-> FALSE]
  BY <1>1 DEF NoFile
<1>3. g \in HandleType(ndgrams)
  <2>1. 0 \in -1..1 /\ <<>> \in Seq(1..ndgrams)
    OBVIOUS
  <2> QED BY <1>2, <2>1 DEF HandleType
<1>4. g.state = "freed" /\ g.type = "none"
  BY <1>2
<1>5. /\ nh' = [nh EXCEPT ![e] = g] /\ conns' = udpc_close(e) /\ nh[e].state = "open"
      /\ UNCHANGED <<arpcache, ether_queue, received, arrived, lost, ndgrams, frames, heard>>
  BY <1>1 DEF CloseFile
<1>6. nh \in [File -> HandleType(ndgrams)] /\ received \in [File -> Seq(Nat)] /\ ether_queue \in 0..MaxRaw
  BY DEF NetfsInv, NetTypes
<1>7. HandleInv(g, received[e], arrived[e], lost[e])
  BY <1>4 DEF HandleInv
<1>8. nh'[e] = g /\ \A d \in File \ {e} : nh'[d] = nh[d]
  BY <1>5, <1>6
<1>9. conns \in Seq(ConnType) /\ ConnsInv(conns, nh)
  BY DEF NetfsInv, NetTypes
<1>10. PICK n \in Nat : n = Len(conns) /\ \A k \in 1..n : conns[k].f \in File
  BY ConnFiles DEF NetfsInv
<1>11. conns' \in Seq(ConnType) /\ ConnsInv(conns', nh')
  <2>1. CASE \E k \in 1..n : conns[k].f = e
    <3>1. PICK S : S = {k \in 1..n : conns[k].f = e}
      OBVIOUS
    <3>2. S \in SUBSET Nat /\ S # {}
      BY <2>1, <3>1
    <3>3. PICK x : x = Min(S)
      OBVIOUS
    <3>4. x \in S
      BY <3>2, <3>3, MinIs
    <3>5. x \in 1..n /\ conns[x].f = e
      BY <3>1, <3>4
    <3>6. conns' = RemoveAt(conns, x)
      BY <1>5, <1>10, <2>1, <3>1, <3>2, <3>3 DEF udpc_close, RemoveFirstMatch, SelectInSeq
    <3>7. PICK u : u = conns'
      OBVIOUS
    <3>8. /\ u \in Seq(ConnType) /\ Len(u) = n - 1
          /\ \A k \in 1..(n - 1) : u[k] = IF k < x THEN conns[k] ELSE conns[k + 1]
      BY <1>9, <1>10, <3>5, <3>6, <3>7, RemoveIs
    <3>9. ConnsInv(u, nh')
      BY <1>4, <1>8, <1>9, <1>10, <3>5, <3>8, ConnsRemove
    <3> QED BY <3>7, <3>8, <3>9
  <2>2. CASE ~ \E k \in 1..n : conns[k].f = e
    <3>1. conns' = conns
      BY <1>5, <1>10, <2>2 DEF udpc_close, RemoveFirstMatch
    <3>2. nh[e].type # "UDP"
      BY <1>9, <1>10, <2>2 DEF ConnsInv
    <3>3. \A d \in File : (nh'[d].type = "UDP" <=> nh[d].type = "UDP") /\ (nh'[d].state = "opening" => nh[d].state = "opening")
      BY <1>4, <1>8, <3>2
    <3>4. ConnsInv(conns, nh')
      BY <1>9, <1>10, <3>3, ConnsSame
    <3> QED BY <1>9, <3>1, <3>4
  <2> QED BY <2>1, <2>2
<1> QED BY <1>3, <1>5, <1>6, <1>7, <1>11, OneHandle

LEMMA NetfsStarts ==
    ASSUME NetfsInit
    PROVE  NetfsInv
<1>1. NoFile \in HandleType(0) /\ NoFile.state = "none" /\ NoFile.type = "none" /\ NoFile.rx = <<>> /\ NoFile.damaged = FALSE
  BY DEF NoFile, HandleType
<1>2. NetTypes
  BY <1>1, NetfsAssumption DEF NetfsInit, NetTypes
<1>3. \A e \in File : nh[e] = NoFile /\ received[e] = <<>> /\ arrived[e] = <<>> /\ lost[e] = 0
  BY DEF NetfsInit
<1>4. \A e \in File : HandleInv(nh[e], received[e], arrived[e], lost[e])
  BY <1>1, <1>3 DEF HandleInv
<1>5. Len(conns) = 0 /\ Len(arpcache) = 0
  BY DEF NetfsInit
<1>6. ConnsInv(conns, nh) /\ ArpInv(arpcache, heard)
  BY <1>1, <1>3, <1>5 DEF ConnsInv, ArpInv
<1>7. ArpCurrent
  BY DEF NetfsInit, ArpCurrent
<1> QED BY <1>2, <1>4, <1>6, <1>7 DEF NetfsInv

LEMMA NetfsStep ==
    ASSUME NetfsInv, [NetfsNext]_netfs_vars
    PROVE  NetfsInv'
<1>1. CASE \E i \in Ip, m \in Mac : FrameArp(i, m)
  BY <1>1, FrameArpKeeps
<1>2. CASE \E i \in Ip, port \in Port : FrameUdp(i, port)
  BY <1>2, FrameUdpKeeps
<1>3. ASSUME NEW e \in File, OpenRaw(e) \/ OpenArp(e) \/ ReadRaw(e) \/ ReadUdp(e) \/ CloseFile(e) PROVE NetfsInv'
  BY <1>3, OpenKeeps, ReadRawKeeps, ReadUdpKeeps, CloseKeeps
<1>4. ASSUME NEW e \in File, NEW port \in Port, OpenUdpListen(e, port) \/ \E i \in Ip : OpenUdpConnect(e, i, port) PROVE NetfsInv'
  BY <1>4, OpenUdpKeeps
<1>5. CASE UNCHANGED netfs_vars
  BY <1>5, NetfsStays
<1> QED BY <1>1, <1>2, <1>3, <1>4, <1>5 DEF NetfsNext

LEMMA NetfsInvIsSound ==
    ASSUME NetfsInv
    PROVE  NetfsSound
<1>1. \A e \in File : /\ nh[e] \in HandleType(ndgrams) /\ received[e] \in Seq(Nat) /\ arrived[e] \in Seq(Nat)
                       /\ lost[e] \in Nat /\ HandleInv(nh[e], received[e], arrived[e], lost[e])
  BY DEF NetfsInv, NetTypes
<1>2. DOMAIN conns = 1..Len(conns) /\ \A k \in 1..Len(conns) : conns[k] \in ConnType /\ conns[k].f \in File
  BY ConnFiles DEF NetfsInv
<1>3. ndgrams \in Nat /\ ndgrams \in 0..MaxFrames
  BY NetfsAssumption DEF NetfsInv, NetTypes
<1>4. NetfsTypeOK
  <2>1. \A e \in File : /\ nh[e].state \in {"none", "opening", "open", "freed"}
                         /\ nh[e].type \in {"none", "ETHER", "UDP", "ARP"}
                         /\ nh[e].reqh \in -1..1 /\ nh[e].rx \in Seq(1..ndgrams)
    BY <1>1 DEF HandleType
  <2>2. \A k \in DOMAIN conns : conns[k].f \in File /\ conns[k].lport \in Port
    BY <1>2 DEF ConnType
  <2>3. ASSUME NEW e \in File, nh[e].state = "opening" PROVE \E k \in DOMAIN conns : conns[k].f = e /\ conns[k].listening
    <3>1. nh[e].type = "UDP"
      BY <2>3 DEF NetfsInv, ConnsInv
    <3> QED BY <1>2, <2>3, <3>1 DEF NetfsInv, ConnsInv
  <2> QED BY <1>3, <2>1, <2>2, <2>3 DEF NetfsTypeOK, NetfsInv, NetTypes
<1>5. UdpInOrder
  <2> SUFFICES ASSUME NEW e \in File, nh[e].state = "open", ~nh[e].damaged
               PROVE  /\ received[e] \o nh[e].rx = SubSeq(arrived[e], lost[e] + 1, Len(arrived[e]))
                      /\ lost[e] <= 1
    BY DEF UdpInOrder
  <2>1. Flows(received[e], nh[e].rx, arrived[e], lost[e]) /\ lost[e] <= 1
    BY <1>1 DEF HandleInv
  <2>2. nh[e].rx \in Seq(Nat)
    BY <1>1, <1>3, HandleGrows
  <2>3. received[e] \in Seq(Nat) /\ arrived[e] \in Seq(Nat) /\ lost[e] \in Nat
    BY <1>1
  <2>4. PICK r, x, a, l : r = received[e] /\ x = nh[e].rx /\ a = arrived[e] /\ l = lost[e]
    OBVIOUS
  <2>5. r \in Seq(Nat) /\ x \in Seq(Nat) /\ a \in Seq(Nat) /\ l \in Nat /\ Flows(r, x, a, l) /\ l <= 1
    BY <2>1, <2>2, <2>3, <2>4
  <2>6. r \o x = SubSeq(a, l + 1, Len(a))
    BY <2>5, FlowIs
  <2> QED BY <2>4, <2>5, <2>6
<1>6. NoReadWaits
  BY <1>1 DEF NoReadWaits, HandleInv
<1>7. CallbacksLive
  <2>1. ASSUME NEW k \in DOMAIN conns PROVE conns[k].f \in File /\ nh[conns[k].f].type = "UDP"
    BY <1>2 DEF NetfsInv, ConnsInv
  <2>2. ASSUME NEW e \in File, nh[e].type = "UDP" PROVE \E k \in DOMAIN conns : conns[k].f = e
    BY <1>2, <2>2 DEF NetfsInv, ConnsInv
  <2> QED BY <2>1, <2>2 DEF CallbacksLive
<1> QED BY <1>4, <1>5, <1>6, <1>7 DEF NetfsSound, NetfsInv

\* The network file system: reads of UDP return the datagrams in order, each
\* once, no read waits next to one, udp_parse calls back the handles that are
\* open and no other, and the ARP cache gives what a host announced last unless
\* it came back to an older address.  fs.c, udp.c and arp.c of src/cmd/netstack.
THEOREM NetfsAlwaysSound == NetfsSpec => []NetfsSound
<1>1. NetfsInit => NetfsInv
  BY NetfsStarts
<1>2. NetfsInv /\ [NetfsNext]_netfs_vars => NetfsInv'
  BY NetfsStep
<1>3. NetfsInv => NetfsSound
  BY NetfsInvIsSound
<1> QED BY <1>1, <1>2, <1>3, PTL DEF NetfsSpec

=============================================================================
