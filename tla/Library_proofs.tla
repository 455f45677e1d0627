--------------------------- MODULE Library_proofs ---------------------------
(***************************************************************************)
(* Proofs about the helpers of kernel and C library and about servers that *)
(* programs run, for all sizes and any number of threads, processes, files *)
(* and nodes.                                                              *)
(*                                                                         *)
(* RingIsAFifo: ring.c implements a queue; that head and tail are cells is *)
(* all that has to be known of a state.                                    *)
(* EsemAlwaysSound: the semaphore of esemaphore.c loses and invents no     *)
(* token; the count of tokens is inductive with its types.                 *)
(* CopiesAlwaysSound: virt_cpy is exact; the invariant says how far each   *)
(* of the two iterators has come (Follows), and what has been moved        *)
(* up to there (Copied).                                                   *)
(* ProcfsAlwaysSound, InterruptsStayInside: what procfs.c keeps alive and  *)
(* whom it interrupts; a globalid is given once (Numbered), the owner is   *)
(* in the tree while it is needed (OwnerThere), and each use of the        *)
(* backend is counted (Counted).                                           *)
(* TermcookAlwaysSound: the line editor delivers what was typed and fits;  *)
(* the invariant says where in the keys each delivered one is (Placed),    *)
(* where the line began (Started) and what the screen ends in (Shows).     *)
(* TmpfsAlwaysSound: the tree of a tmpfs; child and sibling link the nodes *)
(* to lists that share no node (ListsInv), and every live node is in one.  *)
(***************************************************************************)
EXTENDS Ring, Esem, Pcpy, Procfs, Termcook, Tmpfs,
        SequenceTheorems, FiniteSetTheorems, NaturalsInduction, WellFoundedInduction, TLAPS

-----------------------------------------------------------------------------
(* The ring buffer.  The only thing to know of a state is its type: head    *)
(* and tail are cells.                                                      *)

Value    == Byte \cup {Junk}
RingType == [buf : [Cell -> Value], head : Cell, tail : Cell]

\* Where the i-th byte of the ring is.
place(r, i) == IF r.tail + i - 1 < Capacity THEN r.tail + i - 1 ELSE r.tail + i - 1 - Capacity

LEMMA RingFacts ==
    ASSUME NEW r \in RingType
    PROVE  /\ Capacity \in Nat \ {0} /\ r.buf \in [Cell -> Value] /\ r.head \in Cell /\ r.tail \in Cell
           /\ r.head \in Nat /\ r.tail \in Nat /\ r.head < Capacity /\ r.tail < Capacity
           /\ ring_used(r) \in Nat /\ ring_used(r) <= Capacity - 1
           /\ \A i \in 1..ring_used(r) : place(r, i) \in Cell
<1>1. Capacity \in Nat \ {0}
  BY RingAssumption
<1>2. /\ r.buf \in [Cell -> Value] /\ r.head \in Cell /\ r.tail \in Cell
      /\ r.head \in Nat /\ r.tail \in Nat /\ r.head < Capacity /\ r.tail < Capacity
  BY <1>1 DEF RingType, Cell
<1>3. ring_used(r) \in Nat /\ ring_used(r) <= Capacity - 1
  BY <1>1, <1>2 DEF ring_used
<1>4. ASSUME NEW i \in 1..ring_used(r) PROVE place(r, i) \in Cell
  BY <1>1, <1>2, <1>3, <1>4 DEF place, Cell
<1> QED BY <1>1, <1>2, <1>3, <1>4

LEMMA ContentsIs ==
    ASSUME NEW r \in RingType
    PROVE  /\ Contents(r) \in Seq(Value) /\ Len(Contents(r)) = ring_used(r)
           /\ \A i \in 1..ring_used(r) : Contents(r)[i] = r.buf[place(r, i)]
<1>1. /\ ring_used(r) \in Nat /\ r.buf \in [Cell -> Value]
      /\ \A i \in 1..ring_used(r) : place(r, i) \in Cell
  BY RingFacts
<1>2. Contents(r) = [i \in 1..ring_used(r) |-> r.buf[place(r, i)]]
  BY DEF Contents, place
<1>3. Contents(r) \in [1..ring_used(r) -> Value]
  BY <1>1, <1>2
<1>4. Contents(r) \in Seq(Value)
  BY <1>1, <1>3, SeqDef
<1>5. DOMAIN Contents(r) = 1..ring_used(r)
  BY <1>2
<1>6. Len(Contents(r)) = ring_used(r)
  BY <1>1, <1>2
<1> QED BY <1>2, <1>4, <1>6

\* ring_put1b appends a byte, unless the ring is full.
LEMMA Put1bIs ==
    ASSUME NEW r \in RingType, NEW b \in Value
    PROVE  /\ ring_put1b(r, b) \in RingType
           /\ ring_used(r) = Capacity - 1 => Contents(ring_put1b(r, b)) = Contents(r)
           /\ ring_used(r) < Capacity - 1 => Contents(ring_put1b(r, b)) = Append(Contents(r), b)
<1>1. /\ Capacity \in Nat \ {0} /\ r.buf \in [Cell -> Value] /\ r.head \in Cell /\ r.tail \in Cell
      /\ r.head \in Nat /\ r.tail \in Nat /\ r.head < Capacity /\ r.tail < Capacity
      /\ ring_used(r) \in Nat /\ ring_used(r) <= Capacity - 1
      /\ \A i \in 1..ring_used(r) : place(r, i) \in Cell
  BY RingFacts
<1>2. at_end(r) <=> ring_used(r) = Capacity - 1
  BY <1>1 DEF at_end, ring_used
<1>3. CASE at_end(r)
  BY <1>1, <1>2, <1>3 DEF ring_put1b
<1>4. CASE ~at_end(r)
  <2>1. PICK q : q = ring_put1b(r, b)
    OBVIOUS
  <2>2. q = [r EXCEPT !.buf[r.head] = b, !.head = wrap(r.head + 1)]
    BY <1>4, <2>1 DEF ring_put1b
  <2>3. q.buf = [r.buf EXCEPT ![r.head] = b] /\ q.head = wrap(r.head + 1) /\ q.tail = r.tail
    BY <2>2 DEF RingType
  <2>4. wrap(r.head + 1) \in Cell /\ wrap(r.head + 1) = IF r.head + 1 = Capacity THEN 0 ELSE r.head + 1
    BY <1>1 DEF wrap, Cell
  <2>5. q \in RingType
    BY <1>1, <2>2, <2>4 DEF RingType
  <2>6. ring_used(q) = ring_used(r) + 1
    BY <1>1, <1>4, <2>3, <2>4 DEF ring_used, at_end
  <2>7. \A i \in 1..ring_used(r) : place(q, i) = place(r, i) /\ place(r, i) # r.head
    BY <1>1, <2>3 DEF place, ring_used
  <2>8. place(q, ring_used(r) + 1) = r.head
    BY <1>1, <2>3 DEF place, ring_used
  <2>9. /\ Contents(r) \in Seq(Value) /\ Len(Contents(r)) = ring_used(r)
        /\ \A i \in 1..ring_used(r) : Contents(r)[i] = r.buf[place(r, i)]
    BY ContentsIs
  <2>10. /\ Contents(q) \in Seq(Value) /\ Len(Contents(q)) = ring_used(q)
         /\ \A i \in 1..ring_used(q) : Contents(q)[i] = q.buf[place(q, i)]
    BY <2>5, ContentsIs
  <2>11. PICK C, D : C = Contents(r) /\ D = Contents(q)
    OBVIOUS
  <2>12. /\ Append(C, b) \in Seq(Value) /\ Len(Append(C, b)) = ring_used(r) + 1
         /\ \A i \in 1..ring_used(r) : Append(C, b)[i] = C[i]
         /\ Append(C, b)[ring_used(r) + 1] = b
    BY <2>9, <2>11, AppendProperties
  <2>13. \A i \in 1..ring_used(r) : D[i] = C[i]
    <3> TAKE i \in 1..ring_used(r)
    <3>1. i \in 1..ring_used(q)
      BY <1>1, <2>6
    <3> QED BY <1>1, <2>3, <2>7, <2>9, <2>10, <2>11, <3>1
  <2>14. D[ring_used(r) + 1] = b
    <3>1. ring_used(r) + 1 \in 1..ring_used(q)
      BY <1>1, <2>6
    <3> QED BY <1>1, <2>3, <2>8, <2>10, <2>11, <3>1
  <2>15. D = Append(C, b)
    <3>1. \A i \in 1..Len(D) : D[i] = Append(C, b)[i]
      <4> TAKE i \in 1..Len(D)
      <4>1. i \in 1..ring_used(r) \/ i = ring_used(r) + 1
        BY <1>1, <2>6, <2>10, <2>11
      <4> QED BY <2>12, <2>13, <2>14, <4>1
    <3>2. D \in Seq(Value) /\ Append(C, b) \in Seq(Value) /\ Len(D) = Len(Append(C, b))
      BY <2>6, <2>10, <2>11, <2>12
    <3> QED BY <3>1, <3>2, SeqEqual
  <2> QED BY <1>2, <1>4, <2>1, <2>5, <2>11, <2>15
<1> QED BY <1>3, <1>4

-----------------------------------------------------------------------------
(* The loop of ring_put. *)

\* A set of natural numbers that is not empty has a smallest element.
LEMMA SmallestExists ==
    ASSUME NEW S \in SUBSET Nat, S # {}
    PROVE  \E x \in S : \A y \in S : x <= y
<1> DEFINE R == OpToRel(<, Nat)
<1>1. IsWellFoundedOn(R, Nat)
  BY NatLessThanWellFounded
<1>2. PICK x \in S : \A y \in S : <<y, x>> \notin R
  <2> HIDE DEF R
  <2> QED BY <1>1, WFMin
<1>3. \A y \in S : ~(y < x)
  BY <1>2 DEF OpToRel
<1> QED BY <1>3

\* f is the rings that the loop of ring_put(r, s) goes through, up to the n-th.
Puts(r, s, n, f) == f = [i \in 0..n |-> IF i = 0 THEN r ELSE ring_put1b(f[i - 1], s[i])]

LEMMA PutsExist ==
    ASSUME NEW r, NEW s, NEW n \in Nat
    PROVE  \E f : Puts(r, s, n, f)
<1> DEFINE Bad == {k \in Nat : ~ \E f : Puts(r, s, k, f)}
<1> SUFFICES ASSUME Bad # {} PROVE FALSE
  OBVIOUS
<1>1. PICK k \in Bad : \A j \in Bad : k <= j
  <2>1. Bad \in SUBSET Nat
    OBVIOUS
  <2> HIDE DEF Bad
  <2> QED BY <2>1, SmallestExists
<1>2. k \in Nat /\ ~ \E f : Puts(r, s, k, f)
  BY <1>1
<1>3. k # 0
  <2> SUFFICES ASSUME k = 0 PROVE FALSE
    OBVIOUS
  <2> DEFINE z == [i \in 0..0 |-> r]
  <2>1. \A i \in 0..0 : i = 0
    OBVIOUS
  <2>2. z = [i \in 0..0 |-> IF i = 0 THEN r ELSE ring_put1b(z[i - 1], s[i])]
    BY <2>1
  <2> QED BY <1>2, <2>2 DEF Puts
<1>4. k - 1 \in Nat /\ k - 1 \notin Bad
  <2>1. k - 1 \in Nat /\ ~(k <= k - 1)
    BY <1>2, <1>3
  <2> HIDE DEF Bad
  <2> QED BY <1>1, <2>1
<1>5. PICK f : Puts(r, s, k - 1, f)
  BY <1>4
<1> DEFINE g == [i \in 0..k |-> IF i = 0 THEN r ELSE ring_put1b(f[i - 1], s[i])]
<1>6. \A i \in 0..(k - 1) : g[i] = f[i]
  BY <1>2, <1>5 DEF Puts
<1>7. \A i \in 0..k : g[i] = IF i = 0 THEN r ELSE ring_put1b(g[i - 1], s[i])
  <2> TAKE i \in 0..k
  <2>1. g[i] = IF i = 0 THEN r ELSE ring_put1b(f[i - 1], s[i])
    OBVIOUS
  <2>2. i # 0 => i - 1 \in 0..(k - 1)
    BY <1>2
  <2> HIDE DEF g
  <2> QED BY <1>6, <2>1, <2>2
<1>8. g = [i \in 0..k |-> g[i]]
  OBVIOUS
<1> HIDE DEF g
<1>9. Puts(r, s, k, g)
  BY <1>7, <1>8 DEF Puts
<1> QED BY <1>2, <1>9

\* How many of i bytes fit into the ring.
Fits(r, i) == IF i < Capacity - 1 - ring_used(r) THEN i ELSE Capacity - 1 - ring_used(r)

\* After i bytes of s, the ring has stored those that fit.
Stored(r, s, f, i) == f[i] \in RingType /\ Contents(f[i]) = Contents(r) \o SubSeq(s, 1, Fits(r, i))

LEMMA PutsStore ==
    ASSUME NEW r \in RingType, NEW s \in Seq(Value), NEW f, Puts(r, s, Len(s), f)
    PROVE  \A i \in 0..Len(s) : Stored(r, s, f, i)
<1>1. Capacity \in Nat \ {0} /\ ring_used(r) \in Nat /\ ring_used(r) <= Capacity - 1
  BY RingFacts
<1>2. Len(s) \in Nat /\ s \in [1..Len(s) -> Value] /\ Contents(r) \in Seq(Value) /\ Len(Contents(r)) = ring_used(r)
  BY LenProperties, ContentsIs
<1>3. f[0] = r /\ \A i \in 1..Len(s) : f[i] = ring_put1b(f[i - 1], s[i])
  <2>1. \A i \in 0..Len(s) : f[i] = IF i = 0 THEN r ELSE ring_put1b(f[i - 1], s[i])
    BY DEF Puts
  <2> QED BY <1>2, <2>1
<1> DEFINE Bad == {i \in 0..Len(s) : ~Stored(r, s, f, i)}
<1> SUFFICES ASSUME Bad # {} PROVE FALSE
  OBVIOUS
<1>4. PICK k \in Bad : \A j \in Bad : k <= j
  <2>1. Bad \in SUBSET Nat
    OBVIOUS
  <2> HIDE DEF Bad
  <2> QED BY <2>1, SmallestExists
<1>5. k \in 0..Len(s) /\ ~Stored(r, s, f, k)
  BY <1>4
<1>6. k # 0
  <2> SUFFICES ASSUME k = 0 PROVE FALSE
    OBVIOUS
  <2>1. Fits(r, 0) = 0
    BY <1>1 DEF Fits
  <2>2. SubSeq(s, 1, 0) = <<>>
    BY SubSeqEmpty
  <2>3. Contents(r) \o <<>> = Contents(r)
    BY <1>2, ConcatEmptySeq
  <2> QED BY <1>3, <1>5, <2>1, <2>2, <2>3 DEF Stored
<1>7. PICK m : m = k - 1
  OBVIOUS
<1>8. m \in Nat /\ m + 1 = k /\ m \in 0..Len(s) /\ k \in 1..Len(s) /\ m < k
  BY <1>2, <1>5, <1>6, <1>7
<1>9. Stored(r, s, f, m)
  BY <1>4, <1>8
<1>10. PICK q, C, n : q = f[m] /\ C = Contents(r) /\ n = Fits(r, m)
  OBVIOUS
<1>11. q \in RingType /\ Contents(q) = C \o SubSeq(s, 1, n) /\ C \in Seq(Value) /\ Len(C) = ring_used(r)
  BY <1>2, <1>9, <1>10 DEF Stored
<1>12. n \in Nat /\ n <= m /\ n <= Len(s) /\ n = IF m < Capacity - 1 - ring_used(r) THEN m ELSE Capacity - 1 - ring_used(r)
  BY <1>1, <1>2, <1>8, <1>10 DEF Fits
<1>13. SubSeq(s, 1, n) \in Seq(Value) /\ Len(SubSeq(s, 1, n)) = n
  <2>1. \A i \in 1..n : s[i] \in Value
    BY <1>2, <1>12
  <2> QED BY <1>12, <2>1, SubSeqProperties
<1>14. ring_used(q) = ring_used(r) + n
  <2>1. Len(C \o SubSeq(s, 1, n)) = Len(C) + Len(SubSeq(s, 1, n))
    BY <1>11, <1>13, ConcatProperties
  <2>2. Len(Contents(q)) = ring_used(q)
    BY <1>11, ContentsIs
  <2> QED BY <1>11, <1>13, <2>1, <2>2
<1>15. s[k] \in Value /\ f[k] = ring_put1b(q, s[k])
  BY <1>2, <1>3, <1>7, <1>8, <1>10
<1>16. CASE m < Capacity - 1 - ring_used(r)
  <2>1. n = m /\ Fits(r, k) = k /\ ring_used(q) < Capacity - 1
    BY <1>1, <1>8, <1>12, <1>14, <1>16 DEF Fits
  <2>2. f[k] \in RingType /\ Contents(f[k]) = Append(C \o SubSeq(s, 1, m), s[k])
    <3>1. f[k] \in RingType /\ Contents(f[k]) = Append(Contents(q), s[k])
      <4>1. q \in RingType /\ ring_used(q) < Capacity - 1
        BY <1>11, <2>1
      <4> QED BY <1>15, <4>1, Put1bIs
    <3> QED BY <1>11, <2>1, <3>1
  <2>3. PICK t, u, v : t = SubSeq(s, 1, m) /\ u = SubSeq(s, 1, k) /\ v = C \o t
    OBVIOUS
  <2>4. t \in Seq(Value) /\ Len(t) = m /\ \A i \in 1..m : t[i] = s[i]
    <3>1. \A i \in 1..m : s[i] \in Value
      BY <1>2, <1>12, <2>1
    <3>2. \A i \in 1..(m - 1 + 1) : t[i] = s[1 + i - 1]
      BY <1>8, <2>3, <3>1, SubSeqProperties
    <3> QED BY <1>8, <1>13, <2>1, <2>3, <3>2
  <2>5. u \in Seq(Value) /\ Len(u) = k /\ \A i \in 1..k : u[i] = s[i]
    <3>1. \A i \in 1..k : s[i] \in Value
      BY <1>2, <1>8
    <3>2. /\ u \in Seq(Value) /\ Len(u) = IF 1 <= k THEN k - 1 + 1 ELSE 0
          /\ \A i \in 1..(k - 1 + 1) : u[i] = s[1 + i - 1]
      BY <1>8, <2>3, <3>1, SubSeqProperties
    <3> QED BY <1>8, <3>2
  <2>6. PICK c : c = ring_used(r)
    OBVIOUS
  <2>7. /\ v \in Seq(Value) /\ Len(v) = c + m
        /\ \A i \in 1..(c + m) : v[i] = IF i <= c THEN C[i] ELSE t[i - c]
    <3>1. C \in Seq(Value) /\ Len(C) = c /\ t \in Seq(Value) /\ Len(t) = m /\ v = C \o t
      BY <1>11, <2>3, <2>4, <2>6
    <3> QED BY <3>1, ConcatProperties
  <2>8. PICK a, b : a = Append(v, s[k]) /\ b = C \o u
    OBVIOUS
  <2>9. /\ b \in Seq(Value) /\ Len(b) = c + k
        /\ \A i \in 1..(c + k) : b[i] = IF i <= c THEN C[i] ELSE u[i - c]
    <3>1. C \in Seq(Value) /\ Len(C) = c /\ u \in Seq(Value) /\ Len(u) = k /\ b = C \o u
      BY <1>11, <2>5, <2>6, <2>8
    <3> QED BY <3>1, ConcatProperties
  <2>10. /\ a \in Seq(Value) /\ Len(a) = c + m + 1 /\ a[c + m + 1] = s[k]
         /\ \A i \in 1..(c + m) : a[i] = v[i]
    BY <1>15, <2>7, <2>8, AppendProperties
  <2>11. \A i \in 1..Len(a) : a[i] = b[i]
    <3> TAKE i \in 1..Len(a)
    <3>0. c \in Nat /\ Len(a) = c + m + 1
      BY <1>1, <2>6, <2>10
    <3>1. i \in 1..(c + k) /\ (i \in 1..(c + m) \/ i = c + k) /\ c \in Nat
      BY <1>8, <3>0
    <3>2. CASE i = c + k
      <4>1. ~(i <= c) /\ i - c = k /\ k \in 1..k /\ i = c + m + 1
        BY <1>8, <3>1, <3>2
      <4>2. b[i] = u[k] /\ u[k] = s[k]
        BY <2>5, <2>9, <3>1, <4>1
      <4> QED BY <2>10, <4>1, <4>2
    <3>3. CASE i \in 1..(c + m) /\ i <= c
      <4>1. a[i] = v[i] /\ v[i] = C[i]
        BY <2>7, <2>10, <3>3
      <4>2. b[i] = C[i]
        BY <2>9, <3>1, <3>3
      <4> QED BY <4>1, <4>2
    <3>4. CASE i \in 1..(c + m) /\ ~(i <= c)
      <4>1. i - c \in 1..m /\ i - c \in 1..k
        BY <1>8, <3>1, <3>4
      <4>2. a[i] = v[i] /\ v[i] = t[i - c]
        BY <2>7, <2>10, <3>4
      <4>3. b[i] = u[i - c]
        BY <2>9, <3>1, <3>4
      <4>4. t[i - c] = s[i - c] /\ u[i - c] = s[i - c]
        BY <2>4, <2>5, <4>1
      <4> QED BY <4>2, <4>3, <4>4
    <3> QED BY <3>1, <3>2, <3>3, <3>4
  <2>12. a = b
    <3>1. Len(a) = Len(b)
      BY <1>1, <1>8, <2>6, <2>9, <2>10
    <3> QED BY <2>9, <2>10, <2>11, <3>1, SeqEqual
  <2> QED BY <1>5, <1>10, <2>1, <2>2, <2>3, <2>8, <2>12 DEF Stored
<1>17. CASE ~(m < Capacity - 1 - ring_used(r))
  <2>1. Fits(r, k) = n /\ ring_used(q) = Capacity - 1
    BY <1>1, <1>8, <1>12, <1>14, <1>17 DEF Fits
  <2>2. f[k] \in RingType /\ Contents(f[k]) = Contents(q)
    BY <1>11, <1>15, <2>1, Put1bIs
  <2> QED BY <1>5, <1>10, <1>11, <2>1, <2>2 DEF Stored
<1> QED BY <1>16, <1>17

\* ring_put stores the bytes that fit, in order.
LEMMA PutIs ==
    ASSUME NEW r \in RingType, NEW s \in Seq(Value)
    PROVE  /\ ring_put(r, s) \in RingType
           /\ Contents(ring_put(r, s)) = Contents(r) \o SubSeq(s, 1, Fits(r, Len(s)))
<1> DEFINE F(f) == [i \in 0..Len(s) |-> IF i = 0 THEN r ELSE ring_put1b(f[i - 1], s[i])]
           put  == CHOOSE f : f = F(f)
<1>1. \A f : f = F(f) <=> Puts(r, s, Len(s), f)
  BY DEF Puts
<1>2. Len(s) \in Nat
  BY LenProperties
<1>3. Puts(r, s, Len(s), put)
  <2>1. \E f : Puts(r, s, Len(s), f)
    BY <1>2, PutsExist
  <2> HIDE DEF F
  <2> QED BY <1>1, <2>1
<1>4. ring_put(r, s) = put[Len(s)]
  BY DEF ring_put
<1> HIDE DEF put
<1>5. Len(s) \in 0..Len(s)
  BY <1>2
<1>6. Stored(r, s, put, Len(s))
  BY <1>3, <1>5, PutsStore
<1> QED BY <1>4, <1>6 DEF Stored

-----------------------------------------------------------------------------
(* ring_contig and ring_get. *)

\* t is s without its first n elements.
LEMMA Dropped ==
    ASSUME NEW S, NEW s \in Seq(S), NEW n \in 0..Len(s), NEW t \in Seq(S), Len(t) = Len(s) - n,
           \A i \in 1..(Len(s) - n) : t[i] = s[n + i]
    PROVE  t = SubSeq(s, n + 1, Len(s))
<1>1. Len(s) \in Nat /\ s \in [1..Len(s) -> S] /\ n \in Nat
  BY LenProperties
<1>2. \A i \in (n + 1)..Len(s) : s[i] \in S
  BY <1>1
<1>3. PICK u : u = SubSeq(s, n + 1, Len(s))
  OBVIOUS
<1>4. /\ u \in Seq(S) /\ Len(u) = Len(s) - n
      /\ \A i \in 1..(Len(s) - n) : u[i] = s[n + i]
  <2>1. /\ u \in Seq(S)
        /\ Len(u) = IF n + 1 <= Len(s) THEN Len(s) - (n + 1) + 1 ELSE 0
        /\ \A i \in 1..(Len(s) - (n + 1) + 1) : u[i] = s[(n + 1) + i - 1]
    <3>1. n + 1 \in Int /\ Len(s) \in Int
      BY <1>1
    <3> QED BY <1>2, <1>3, <3>1, SubSeqProperties
  <2>3. Len(u) = Len(s) - n
    BY <1>1, <2>1
  <2>4. ASSUME NEW i \in 1..(Len(s) - n) PROVE u[i] = s[n + i]
    <3>1. (n + 1) + i - 1 = n + i /\ i \in 1..(Len(s) - (n + 1) + 1)
      BY <1>1, <2>4
    <3> QED BY <2>1, <3>1
  <2> QED BY <2>1, <2>3, <2>4
<1>5. \A i \in 1..Len(t) : t[i] = u[i]
  BY <1>4
<1> QED BY <1>3, <1>4, <1>5, SeqEqual

\* t is the first n elements of s.
LEMMA FirstOnes ==
    ASSUME NEW S, NEW s \in Seq(S), NEW n \in 0..Len(s), NEW t \in Seq(S), Len(t) = n,
           \A i \in 1..n : t[i] = s[i]
    PROVE  t = SubSeq(s, 1, n)
<1>1. Len(s) \in Nat /\ s \in [1..Len(s) -> S] /\ n \in Nat
  BY LenProperties
<1>2. \A i \in 1..n : s[i] \in S
  BY <1>1
<1>3. PICK u : u = SubSeq(s, 1, n)
  OBVIOUS
<1>4. u \in Seq(S) /\ Len(u) = n /\ \A i \in 1..n : u[i] = s[i]
  <2>1. /\ u \in Seq(S) /\ Len(u) = IF 1 <= n THEN n - 1 + 1 ELSE 0
        /\ \A i \in 1..(n - 1 + 1) : u[i] = s[1 + i - 1]
    BY <1>1, <1>2, <1>3, SubSeqProperties
  <2> QED BY <1>1, <2>1
<1>5. \A i \in 1..Len(t) : t[i] = u[i]
  BY <1>4
<1> QED BY <1>3, <1>4, <1>5, SeqEqual

\* The bytes, and the ring q, are what is taken and left when the n oldest bytes
\* of r are taken.
Takes(r, n, bytes, q) ==
    /\ n \in 0..ring_used(r) /\ q \in RingType /\ ring_used(q) = ring_used(r) - n
    /\ bytes \in Seq(Value) /\ Len(bytes) = n /\ \A i \in 1..n : bytes[i] = Contents(r)[i]
    /\ \A i \in 1..(ring_used(r) - n) : Contents(q)[i] = Contents(r)[n + i]

LEMMA TakesIs ==
    ASSUME NEW r \in RingType, NEW n, NEW B, NEW q, Takes(r, n, B, q)
    PROVE  /\ B = SubSeq(Contents(r), 1, n)
           /\ Contents(q) = SubSeq(Contents(r), n + 1, Len(Contents(r)))
<1>1. PICK C, D : C = Contents(r) /\ D = Contents(q)
  OBVIOUS
<1>2. /\ n \in 0..ring_used(r) /\ q \in RingType /\ ring_used(q) = ring_used(r) - n
      /\ B \in Seq(Value) /\ Len(B) = n /\ \A i \in 1..n : B[i] = C[i]
      /\ \A i \in 1..(ring_used(r) - n) : D[i] = C[n + i]
  BY <1>1 DEF Takes
<1>3. C \in Seq(Value) /\ Len(C) = ring_used(r) /\ D \in Seq(Value) /\ Len(D) = ring_used(q)
  BY <1>1, <1>2, ContentsIs
<1>4. B = SubSeq(C, 1, n)
  BY <1>2, <1>3, FirstOnes
<1>5. D = SubSeq(C, n + 1, Len(C))
  BY <1>2, <1>3, Dropped
<1> QED BY <1>1, <1>4, <1>5

LEMMA ContigIs ==
    ASSUME NEW r \in RingType, NEW len \in Nat
    PROVE  /\ contig_len(r, len) \in 0..len
           /\ contig_len(r, len) = 0 => len = 0 \/ ring_used(r) = 0
           /\ contig_len(r, len) < len =>
                \/ contig_len(r, len) = ring_used(r)
                \/ ring_contig(r, len).tail = 0
           /\ r.tail = 0 => contig_len(r, len) \in {len, ring_used(r)}
           /\ Takes(r, contig_len(r, len), contig_bytes(r, len), ring_contig(r, len))
<1>1. /\ Capacity \in Nat \ {0} /\ r.buf \in [Cell -> Value] /\ r.head \in Cell /\ r.tail \in Cell
      /\ r.head \in Nat /\ r.tail \in Nat /\ r.head < Capacity /\ r.tail < Capacity
      /\ ring_used(r) \in Nat /\ ring_used(r) <= Capacity - 1
  BY RingFacts
<1>2. PICK n, B, q : n = contig_len(r, len) /\ B = contig_bytes(r, len) /\ q = ring_contig(r, len)
  OBVIOUS
<1>3. /\ n \in Nat /\ n <= len /\ n <= ring_used(r) /\ r.tail + n <= Capacity
      /\ n < len => n = IF r.head >= r.tail THEN ring_used(r) ELSE Capacity - r.tail
      /\ n = 0 => len = 0 \/ ring_used(r) = 0
      /\ r.head >= r.tail => r.tail + n <= r.head
  BY <1>1, <1>2 DEF contig_len, ring_used
<1>4. /\ q.buf = r.buf /\ q.head = r.head /\ q.tail = wrap(r.tail + n) /\ q = [r EXCEPT !.tail = wrap(r.tail + n)]
  BY <1>2 DEF ring_contig, RingType
<1>5. wrap(r.tail + n) = IF r.tail + n = Capacity THEN 0 ELSE r.tail + n
  BY <1>1, <1>3 DEF wrap
<1>6. wrap(r.tail + n) \in Cell
  BY <1>1, <1>3, <1>5 DEF Cell
<1>7. q \in RingType
  BY <1>1, <1>4, <1>6 DEF RingType
<1>8. ring_used(q) = ring_used(r) - n
  BY <1>1, <1>3, <1>4, <1>5 DEF ring_used
<1>9. n < len => n = ring_used(r) \/ q.tail = 0
  BY <1>1, <1>3, <1>4, <1>5
<1>10. /\ Contents(r) \in Seq(Value) /\ Len(Contents(r)) = ring_used(r)
       /\ \A i \in 1..ring_used(r) : Contents(r)[i] = r.buf[place(r, i)]
  BY ContentsIs
<1>11. /\ Contents(q) \in Seq(Value) /\ Len(Contents(q)) = ring_used(q)
       /\ \A i \in 1..ring_used(q) : Contents(q)[i] = q.buf[place(q, i)]
  BY <1>7, ContentsIs
<1>12. B = [i \in 1..n |-> r.buf[r.tail + i - 1]]
  BY <1>2 DEF contig_bytes
<1>13. \A i \in 1..n : /\ i \in 1..ring_used(r) /\ place(r, i) = r.tail + i - 1 /\ r.tail + i - 1 \in Cell
                       /\ r.buf[r.tail + i - 1] \in Value
  <2> TAKE i \in 1..n
  <2>1. i \in 1..ring_used(r) /\ place(r, i) = r.tail + i - 1 /\ r.tail + i - 1 \in Cell
    BY <1>1, <1>3 DEF place, Cell
  <2> QED BY <1>1, <2>1
<1>14. B \in Seq(Value) /\ Len(B) = n /\ \A i \in 1..n : B[i] = Contents(r)[i]
  <2>1. B \in [1..n -> Value]
    BY <1>12, <1>13
  <2>2. B \in Seq(Value)
    BY <1>3, <2>1, SeqDef
  <2>3. Len(B) = n
    BY <1>3, <1>12
  <2> QED BY <1>10, <1>12, <1>13, <2>2, <2>3
<1>17. \A i \in 1..(ring_used(r) - n) : Contents(q)[i] = Contents(r)[n + i]
  <2> TAKE i \in 1..(ring_used(r) - n)
  <2>1. i \in 1..ring_used(q) /\ n + i \in 1..ring_used(r)
    BY <1>1, <1>3, <1>8
  <2>2. place(q, i) = place(r, n + i)
    BY <1>1, <1>3, <1>4, <1>5 DEF place
  <2> QED BY <1>4, <1>10, <1>11, <2>1, <2>2
<1>18. Takes(r, n, B, q)
  BY <1>1, <1>3, <1>7, <1>8, <1>14, <1>17 DEF Takes
<1>19. r.tail = 0 => n \in {len, ring_used(r)}
  BY <1>1, <1>3
<1> QED BY <1>2, <1>3, <1>9, <1>18, <1>19

\* ring_get takes all the bytes that it is asked for, or all there are, in two
\* pieces.
LEMMA GetIs ==
    ASSUME NEW r \in RingType, NEW len \in Nat
    PROVE  Takes(r, IF len < ring_used(r) THEN len ELSE ring_used(r), get_bytes(r, len), ring_get(r, len))
<1>1. PICK n, B, q : n = contig_len(r, len) /\ B = contig_bytes(r, len) /\ q = ring_contig(r, len)
  OBVIOUS
<1>2. /\ n \in 0..len /\ Takes(r, n, B, q)
      /\ n < len => n = ring_used(r) \/ q.tail = 0
  BY <1>1, ContigIs
<1>3. q \in RingType /\ n \in 0..ring_used(r) /\ ring_used(q) = ring_used(r) - n /\ ring_used(r) \in Nat
  BY <1>2, RingFacts DEF Takes
<1>4. PICK l : l = len - n
  OBVIOUS
<1>5. l \in Nat
  BY <1>2, <1>4
<1>6. PICK m, E, p : m = contig_len(q, l) /\ E = contig_bytes(q, l) /\ p = ring_contig(q, l)
  OBVIOUS
<1>7. m \in 0..l /\ Takes(q, m, E, p) /\ (q.tail = 0 => m \in {l, ring_used(q)})
  BY <1>3, <1>5, <1>6, ContigIs
<1>8. p \in RingType /\ m \in 0..ring_used(q) /\ ring_used(p) = ring_used(q) - m
  BY <1>7 DEF Takes
<1>9. n + m = IF len < ring_used(r) THEN len ELSE ring_used(r)
  BY <1>2, <1>3, <1>4, <1>5, <1>7, <1>8
<1>10. get_bytes(r, len) = B \o E /\ ring_get(r, len) = p
  BY <1>1, <1>4, <1>6 DEF get_bytes, ring_get
<1>11. PICK C, D, F : C = Contents(r) /\ D = Contents(q) /\ F = Contents(p)
  OBVIOUS
<1>12. /\ B \in Seq(Value) /\ Len(B) = n /\ \A i \in 1..n : B[i] = C[i]
       /\ \A i \in 1..(ring_used(r) - n) : D[i] = C[n + i]
  BY <1>2, <1>11 DEF Takes
<1>13. /\ E \in Seq(Value) /\ Len(E) = m /\ \A i \in 1..m : E[i] = D[i]
       /\ \A i \in 1..(ring_used(q) - m) : F[i] = D[m + i]
  BY <1>7, <1>11 DEF Takes
<1>14. PICK G : G = B \o E
  OBVIOUS
<1>15. /\ G \in Seq(Value) /\ Len(G) = n + m
       /\ \A i \in 1..(n + m) : G[i] = IF i <= n THEN B[i] ELSE E[i - n]
  BY <1>12, <1>13, <1>14, ConcatProperties
<1>16. ASSUME NEW i \in 1..(n + m) PROVE G[i] = C[i]
  <2>1. CASE i <= n
    <3>1. i \in 1..n
      BY <1>3, <1>8, <1>16, <2>1
    <3> QED BY <1>12, <1>15, <1>16, <2>1, <3>1
  <2>2. CASE ~(i <= n)
    <3>1. i - n \in 1..m /\ i - n \in 1..(ring_used(r) - n) /\ n + (i - n) = i
      BY <1>3, <1>8, <1>16, <2>2
    <3>2. PICK j : j = i - n
      OBVIOUS
    <3>3. D[j] = C[n + j] /\ E[j] = D[j] /\ n + j = i
      BY <1>12, <1>13, <3>1, <3>2
    <3> QED BY <1>15, <1>16, <2>2, <3>2, <3>3
  <2> QED BY <2>1, <2>2
<1>17. ASSUME NEW i \in 1..(ring_used(r) - (n + m)) PROVE F[i] = C[(n + m) + i]
  <2>1. i \in 1..(ring_used(q) - m) /\ m + i \in 1..(ring_used(r) - n)
    BY <1>3, <1>8, <1>17
  <2>2. PICK j : j = m + i
    OBVIOUS
  <2>3. F[i] = D[j] /\ D[j] = C[n + j]
    BY <1>12, <1>13, <2>1, <2>2
  <2>4. n + j = (n + m) + i
    BY <1>3, <1>8, <1>17, <2>2
  <2> QED BY <2>3, <2>4
<1>18. n + m \in 0..ring_used(r) /\ ring_used(p) = ring_used(r) - (n + m)
  BY <1>3, <1>8
<1>19. Takes(r, n + m, G, p)
  BY <1>8, <1>11, <1>15, <1>16, <1>17, <1>18 DEF Takes
<1> QED BY <1>9, <1>10, <1>14, <1>19

-----------------------------------------------------------------------------
(* Every operation of the ring is one of the queue. *)

LEMMA RingStep ==
    ASSUME TypeOK, [Next]_vars
    PROVE  TypeOK' /\ [AbstractFifo!Next]_(AbstractFifo!vars)
<1>1. PICK r : r = ring
  OBVIOUS
<1>2. r \in RingType /\ r = [buf |-> buf, head |-> head, tail |-> tail]
  BY <1>1 DEF TypeOK, RingType, ring, Value
<1>3. PICK C : C = Contents(r)
  OBVIOUS
<1>4. C \in Seq(Value) /\ Len(C) = ring_used(r) /\ ring_used(r) \in Nat /\ ring_used(r) <= Capacity - 1 /\ Capacity \in Nat \ {0}
  BY <1>2, <1>3, ContentsIs, RingFacts
<1>5. ASSUME NEW q \in RingType, Set(q) PROVE TypeOK' /\ Contents(ring)' = Contents(q)
  <2>1. ring' = q
    BY <1>5 DEF Set, RingType, ring
  <2>2. TypeOK'
    BY <1>5 DEF Set, RingType, TypeOK, Value
  <2> QED BY <2>1, <2>2 DEF Contents, ring_used
<1>6. MaxLen \in Nat /\ Byte \subseteq Value
  BY RingAssumption DEF Value
<1>7. CASE Put1b
  <2>1. PICK b \in Byte : Set(ring_put1b(r, b)) /\ got' = <<>> /\ call' = <<"put", 1>>
    BY <1>1, <1>7 DEF Put1b
  <2>2. /\ ring_put1b(r, b) \in RingType
        /\ ring_used(r) = Capacity - 1 => Contents(ring_put1b(r, b)) = C
        /\ ring_used(r) < Capacity - 1 => Contents(ring_put1b(r, b)) = Append(C, b)
    BY <1>2, <1>3, <1>6, Put1bIs
  <2>3. TypeOK' /\ Contents(ring)' = Contents(ring_put1b(r, b))
    BY <1>5, <2>1, <2>2
  <2>4. <<b>> \in Strings /\ Len(<<b>>) = 1
    <3>1. <<b>> \in [1..1 -> Byte] /\ 1 \in 0..(MaxLen + 1)
      BY <1>6
    <3> QED BY <3>1 DEF Strings
  <2>5. Contents(ring)' = C \o SubSeq(<<b>>, 1, AbstractFifo!Min(1, (Capacity - 1) - Len(C)))
    <3>1. CASE ring_used(r) = Capacity - 1
      <4>1. AbstractFifo!Min(1, (Capacity - 1) - Len(C)) = 0
        BY <1>4, <3>1 DEF AbstractFifo!Min
      <4>2. SubSeq(<<b>>, 1, 0) = <<>> /\ C \o <<>> = C
        BY <1>4, SubSeqEmpty, ConcatEmptySeq
      <4> QED BY <2>2, <2>3, <3>1, <4>1, <4>2
    <3>2. CASE ring_used(r) < Capacity - 1
      <4>1. AbstractFifo!Min(1, (Capacity - 1) - Len(C)) = 1
        BY <1>4, <3>2 DEF AbstractFifo!Min
      <4>2. <<b>> \in Seq(Value) /\ SubSeq(<<b>>, 1, 1) = <<b>>
        <5>1. <<b>> \in Seq(Value)
          BY <1>6
        <5>2. SubSeq(<<b>>, 1, Len(<<b>>)) = <<b>>
          BY <5>1, SubSeqFull
        <5> QED BY <2>4, <5>1, <5>2
      <4>3. Append(C, b) = C \o <<b>>
        BY <1>4, <1>6, AppendIsConcat
      <4> QED BY <2>2, <2>3, <3>2, <4>1, <4>2, <4>3
    <3>3. ring_used(r) = Capacity - 1 \/ ring_used(r) < Capacity - 1
      BY <1>4
    <3> QED BY <3>1, <3>2, <3>3
  <2>6. AbstractFifo!Put(<<b>>)
    BY <1>1, <1>3, <2>1, <2>4, <2>5 DEF AbstractFifo!Put
  <2> QED BY <2>3, <2>4, <2>6 DEF AbstractFifo!Next
<1>8. CASE Put
  <2>1. PICK s \in Strings : Set(ring_put(r, s)) /\ got' = <<>> /\ call' = <<"put", Len(s)>>
    BY <1>1, <1>8 DEF Put
  <2>2. s \in Seq(Value) /\ Len(s) \in Nat
    <3>1. PICK n \in 0..(MaxLen + 1) : s \in [1..n -> Byte]
      BY DEF Strings
    <3>2. s \in [1..n -> Value] /\ n \in Nat
      BY <1>6, <3>1
    <3>3. s \in Seq(Value)
      BY <3>2, SeqDef
    <3> QED BY <3>3, LenProperties
  <2>3. ring_put(r, s) \in RingType /\ Contents(ring_put(r, s)) = C \o SubSeq(s, 1, Fits(r, Len(s)))
    BY <1>2, <1>3, <2>2, PutIs
  <2>4. TypeOK' /\ Contents(ring)' = C \o SubSeq(s, 1, Fits(r, Len(s)))
    BY <1>5, <2>1, <2>3
  <2>5. Fits(r, Len(s)) = AbstractFifo!Min(Len(s), (Capacity - 1) - Len(C))
    BY <1>4 DEF Fits, AbstractFifo!Min
  <2>6. AbstractFifo!Put(s)
    BY <1>1, <1>3, <2>1, <2>4, <2>5 DEF AbstractFifo!Put
  <2> QED BY <2>4, <2>6 DEF AbstractFifo!Next
<1>9. ASSUME NEW n, NEW B, NEW q, Takes(r, n, B, q), Set(q), got' = B
      PROVE  TypeOK' /\ AbstractFifo!Take(n) /\ n \in 0..Len(C)
  <2>1. q \in RingType /\ n \in 0..Len(C)
    BY <1>4, <1>9 DEF Takes
  <2>2. B = SubSeq(C, 1, n) /\ Contents(q) = SubSeq(C, n + 1, Len(C))
    BY <1>2, <1>3, <1>9, TakesIs
  <2>3. TypeOK' /\ Contents(ring)' = Contents(q)
    BY <1>5, <1>9, <2>1
  <2>4. AbstractFifo!Take(n)
    BY <1>1, <1>3, <1>9, <2>2, <2>3 DEF AbstractFifo!Take
  <2> QED BY <2>1, <2>3, <2>4
<1>10. CASE Get
  <2>1. PICK n \in 0..MaxLen : Set(ring_get(r, n)) /\ got' = get_bytes(r, n) /\ call' = <<"get", n>>
    BY <1>1, <1>10 DEF Get
  <2>2. Takes(r, IF n < ring_used(r) THEN n ELSE ring_used(r), get_bytes(r, n), ring_get(r, n))
    BY <1>2, GetIs
  <2>3. AbstractFifo!Min(n, Len(C)) = IF n < ring_used(r) THEN n ELSE ring_used(r)
    BY <1>4 DEF AbstractFifo!Min
  <2>4. TypeOK' /\ AbstractFifo!Take(AbstractFifo!Min(n, Len(C)))
    BY <1>9, <2>1, <2>2, <2>3
  <2>5. AbstractFifo!Get(n)
    BY <1>1, <1>3, <2>1, <2>4 DEF AbstractFifo!Get
  <2> QED BY <2>4, <2>5 DEF AbstractFifo!Next
<1>11. CASE Contig
  <2>1. PICK n \in 0..MaxLen : Set(ring_contig(r, n)) /\ got' = contig_bytes(r, n) /\ call' = <<"contig", n>>
    BY <1>1, <1>11 DEF Contig
  <2>2. PICK m : m = contig_len(r, n)
    OBVIOUS
  <2>3. m \in 0..n /\ (m = 0 => n = 0 \/ ring_used(r) = 0) /\ Takes(r, m, contig_bytes(r, n), ring_contig(r, n))
    BY <1>2, <2>2, ContigIs
  <2>4. TypeOK' /\ AbstractFifo!Take(m) /\ m \in 0..Len(C)
    BY <1>9, <2>1, <2>3
  <2>5. m \in 0..AbstractFifo!Min(n, Len(C)) /\ (m = 0 => AbstractFifo!Min(n, Len(C)) = 0)
    BY <1>4, <2>3, <2>4 DEF AbstractFifo!Min
  <2>6. AbstractFifo!Contig(n)
    BY <1>1, <1>3, <2>1, <2>4, <2>5 DEF AbstractFifo!Contig
  <2> QED BY <2>4, <2>6 DEF AbstractFifo!Next
<1>12. CASE UNCHANGED vars
  <2>1. TypeOK' /\ Contents(ring)' = Contents(ring) /\ got' = got /\ call' = call
    BY <1>12 DEF vars, TypeOK, Contents, ring, ring_used
  <2> QED BY <2>1 DEF AbstractFifo!vars
<1> QED BY <1>7, <1>8, <1>10, <1>11, <1>12 DEF Next

\* The ring buffer implements the queue, for every capacity and every string:
\* ring_put stores what fits in order, ring_get and ring_contig take the oldest
\* bytes, wherever head and tail are.
THEOREM RingIsAFifo == Spec => FifoSpec
<1>1. Init => TypeOK /\ AbstractFifo!Init
  <2> SUFFICES ASSUME Init PROVE TypeOK /\ AbstractFifo!Init
    OBVIOUS
  <2>1. TypeOK
    BY RingAssumption DEF Init, TypeOK, Cell
  <2>2. ring_used(ring) = 0
    BY DEF Init, ring, ring_used
  <2>3. Contents(ring) = <<>>
    <3>1. 1..0 = {}
      OBVIOUS
    <3> QED BY <2>2, <3>1 DEF Contents
  <2> QED BY <2>1, <2>3 DEF Init, AbstractFifo!Init
<1>2. TypeOK /\ [Next]_vars => TypeOK' /\ [AbstractFifo!Next]_(AbstractFifo!vars)
  BY RingStep
<1> QED BY <1>1, <1>2, PTL DEF Spec, FifoSpec, AbstractFifo!Spec

-----------------------------------------------------------------------------
(* The semaphore. *)

\* The threads with a signal that the server has not read.
Signalling == In("signal") \cup In("init")

\* The inductive invariant: TokensKept counts, and needs numbers to count with.
EsemInv ==
    /\ EsemTypeOK /\ TokensKept
    /\ value \in Nat /\ first \in Nat /\ signals \in Nat /\ waits \in Nat

LEMMA EsemFinite ==
    ASSUME EsemTypeOK
    PROVE  /\ IsFiniteSet(Signalling) /\ Cardinality(Signalling) \in Nat
           /\ IsFiniteSet(posters) /\ Cardinality(posters) \in Nat
<1>1. Signalling \subseteq User /\ posters \subseteq Poster
  BY DEF Signalling, In, EsemTypeOK
<1>2. IsFiniteSet(Signalling) /\ IsFiniteSet(posters)
  BY <1>1, EsemAssumption, FS_Subset
<1> QED BY <1>2, FS_CardinalityType

\* A step in which nobody begins or ends a signal.
LEMMA SameSignals ==
    ASSUME EsemTypeOK, NEW u \in User, NEW s, doing' = [doing EXCEPT ![u] = s],
           s \notin {"signal", "init"}, doing[u] \notin {"signal", "init"}
    PROVE  Signalling' = Signalling
<1>1. \A v \in User : doing'[v] = IF v = u THEN s ELSE doing[v]
  BY DEF EsemTypeOK
<1> QED BY <1>1 DEF Signalling, In

\* A step in which u begins one, ...
LEMMA SignalBegins ==
    ASSUME EsemTypeOK, NEW u \in User, NEW s \in {"signal", "init"}, doing' = [doing EXCEPT ![u] = s],
           doing[u] \notin {"signal", "init"}
    PROVE  Cardinality(Signalling') = Cardinality(Signalling) + 1
<1>1. \A v \in User : doing'[v] = IF v = u THEN s ELSE doing[v]
  BY DEF EsemTypeOK
<1>2. Signalling' = Signalling \cup {u} /\ u \notin Signalling
  BY <1>1 DEF Signalling, In
<1> QED BY <1>2, EsemFinite, FS_AddElement

\* ... or in which the server reads it.
LEMMA SignalEnds ==
    ASSUME EsemTypeOK, NEW u \in User, NEW s, doing' = [doing EXCEPT ![u] = s],
           s \notin {"signal", "init"}, doing[u] \in {"signal", "init"}
    PROVE  Cardinality(Signalling') = Cardinality(Signalling) - 1
<1>1. \A v \in User : doing'[v] = IF v = u THEN s ELSE doing[v]
  BY DEF EsemTypeOK
<1>2. Signalling' = Signalling \ {u} /\ u \in Signalling
  BY <1>1 DEF Signalling, In
<1> QED BY <1>2, EsemFinite, FS_RemoveElement

LEMMA EsemStep == ASSUME EsemInv, [EsemNext]_esem_vars PROVE EsemInv'
<1>1. /\ doing \in [User -> {"new", "init", "run", "signal", "wait"}]
      /\ server \in {"read", "fork", "gone"} /\ posters \subseteq Poster /\ freed \in BOOLEAN
      /\ server = "gone" => freed
      /\ value \in Nat /\ first \in Nat /\ signals \in Nat /\ waits \in Nat /\ EsemTypeOK
  BY DEF EsemInv, EsemTypeOK
<1>2. PICK S, P : S = Cardinality(Signalling) /\ P = Cardinality(posters)
  OBVIOUS
<1>3. S \in Nat /\ P \in Nat /\ first + signals = waits + value + S + P + (IF server = "fork" THEN 1 ELSE 0)
  BY <1>1, <1>2, EsemFinite DEF EsemInv, TokensKept, Signalling
<1>4. SUFFICES /\ EsemTypeOK' /\ value' \in Nat /\ first' \in Nat /\ signals' \in Nat /\ waits' \in Nat
               /\ first' + signals' = waits' + value' + Cardinality(Signalling') + Cardinality(posters')
                                      + (IF server' = "fork" THEN 1 ELSE 0)
  BY DEF EsemInv, TokensKept, Signalling
<1>5. CASE esem_new
  <2>0. Creator \in User /\ doing[Creator] = "new" /\ UNCHANGED <<server, posters, freed, first, signals, waits>>
    BY <1>5, EsemAssumption DEF esem_new
  <2>1. CASE value = 0
    <3>1. doing' = [doing EXCEPT ![Creator] = "run"] /\ value' = value
      BY <1>5, <2>1 DEF esem_new
    <3>2. Signalling' = Signalling
      BY <1>1, <2>0, <3>1, SameSignals
    <3>3. EsemTypeOK'
      BY <1>1, <2>0, <3>1 DEF EsemTypeOK
    <3> QED BY <1>1, <1>2, <1>3, <2>0, <3>1, <3>2, <3>3
  <2>2. CASE value # 0
    <3>1. doing' = [doing EXCEPT ![Creator] = "init"] /\ value' = value - 1
      BY <1>5, <2>2 DEF esem_new
    <3>2. Cardinality(Signalling') = S + 1
      BY <1>1, <1>2, <2>0, <3>1, SignalBegins
    <3>3. EsemTypeOK'
      BY <1>1, <2>0, <3>1 DEF EsemTypeOK
    <3> QED BY <1>1, <1>2, <1>3, <2>0, <2>2, <3>1, <3>2, <3>3
  <2> QED BY <2>1, <2>2
<1>6. ASSUME NEW u \in User, esem_signal(u) PROVE EsemInv'
  <2>1. /\ doing[u] = "run" /\ doing' = [doing EXCEPT ![u] = "signal"] /\ signals' = signals + 1
        /\ UNCHANGED <<value, server, posters, freed, first, waits>>
    BY <1>6 DEF esem_signal
  <2>2. Cardinality(Signalling') = S + 1
    BY <1>1, <1>2, <2>1, SignalBegins
  <2>3. EsemTypeOK'
    BY <1>1, <2>1 DEF EsemTypeOK
  <2> QED BY <1>1, <1>2, <1>3, <2>1, <2>2, <2>3 DEF EsemInv, TokensKept, Signalling
<1>7. ASSUME NEW u \in User, esem_wait(u) PROVE EsemInv'
  <2>1. /\ doing[u] = "run" /\ doing' = [doing EXCEPT ![u] = "wait"]
        /\ UNCHANGED <<value, server, posters, freed, first, signals, waits>>
    BY <1>7 DEF esem_wait
  <2>2. Signalling' = Signalling
    BY <1>1, <2>1, SameSignals
  <2>3. EsemTypeOK'
    BY <1>1, <2>1 DEF EsemTypeOK
  <2> QED BY <1>1, <1>2, <1>3, <2>1, <2>2, <2>3 DEF EsemInv, TokensKept, Signalling
<1>8. ASSUME NEW u \in User, ServerReads(u) PROVE EsemInv'
  <2>1. /\ server = "read" /\ server' = "fork" /\ doing[u] \in {"init", "signal"}
        /\ doing' = [doing EXCEPT ![u] = IF doing[u] = "init" THEN "new" ELSE "run"]
        /\ UNCHANGED <<value, posters, freed, first, signals, waits>>
    BY <1>8 DEF ServerReads
  <2>2. Cardinality(Signalling') = S - 1
    <3>1. PICK s : s = IF doing[u] = "init" THEN "new" ELSE "run"
      OBVIOUS
    <3>2. s \notin {"signal", "init"} /\ doing' = [doing EXCEPT ![u] = s] /\ doing[u] \in {"signal", "init"}
      BY <2>1, <3>1
    <3> QED BY <1>1, <1>2, <3>2, SignalEnds
  <2>3. EsemTypeOK'
    BY <1>1, <2>1 DEF EsemTypeOK
  <2> QED BY <1>1, <1>2, <1>3, <2>1, <2>2, <2>3 DEF EsemInv, TokensKept, Signalling
<1>9. ASSUME NEW p \in Poster, ServerForks(p) PROVE EsemInv'
  <2>1. /\ server = "fork" /\ server' = "read" /\ p \notin posters /\ posters' = posters \cup {p}
        /\ UNCHANGED <<doing, value, freed, first, signals, waits>>
    BY <1>9 DEF ServerForks, forked
  <2>2. Cardinality(posters') = P + 1
    BY <1>1, <1>2, <2>1, EsemFinite, FS_AddElement
  <2>3. Signalling' = Signalling
    BY <2>1 DEF Signalling, In
  <2>4. EsemTypeOK'
    BY <1>1, <2>1 DEF EsemTypeOK
  <2>5. /\ value' \in Nat /\ first' \in Nat /\ signals' \in Nat /\ waits' \in Nat
        /\ first' + signals' = waits' + value' + Cardinality(Signalling') + Cardinality(posters')
                               + (IF server' = "fork" THEN 1 ELSE 0)
    BY <1>1, <1>2, <1>3, <2>1, <2>2, <2>3
  <2> QED BY <2>4, <2>5 DEF EsemInv, TokensKept, Signalling
<1>10. ASSUME NEW u \in User, NEW p \in Poster, WaitReturns(u, p) PROVE EsemInv'
  <2>1. /\ doing[u] = "wait" /\ p \in posters /\ doing' = [doing EXCEPT ![u] = "run"] /\ waits' = waits + 1
        /\ posters' = posters \ {p} /\ UNCHANGED <<value, server, freed, first, signals>>
    BY <1>10 DEF WaitReturns
  <2>2. Cardinality(posters') = P - 1
    BY <1>1, <1>2, <2>1, EsemFinite, FS_RemoveElement
  <2>3. Signalling' = Signalling
    BY <1>1, <2>1, SameSignals
  <2>4. EsemTypeOK'
    BY <1>1, <2>1 DEF EsemTypeOK
  <2>5. /\ value' \in Nat /\ first' \in Nat /\ signals' \in Nat /\ waits' \in Nat
        /\ first' + signals' = waits' + value' + Cardinality(Signalling') + Cardinality(posters')
                               + (IF server' = "fork" THEN 1 ELSE 0)
    BY <1>1, <1>2, <1>3, <2>1, <2>2, <2>3
  <2> QED BY <2>4, <2>5 DEF EsemInv, TokensKept, Signalling
<1>11. CASE ServerExits \/ esem_free \/ UNCHANGED esem_vars
  <2>1. /\ UNCHANGED <<doing, value, posters, first, signals, waits>>
        /\ \/ UNCHANGED <<server, freed>>
           \/ server = "read" /\ server' = "gone" /\ freed /\ freed' = freed
           \/ server' = server /\ freed' = TRUE
    BY <1>11 DEF ServerExits, esem_free, esem_vars
  <2>2. Signalling' = Signalling
    BY <2>1 DEF Signalling, In
  <2>3. EsemTypeOK'
    BY <1>1, <2>1 DEF EsemTypeOK
  <2>4. server' = "fork" <=> server = "fork"
    BY <2>1
  <2> QED BY <1>1, <1>2, <1>3, <2>1, <2>2, <2>3, <2>4
<1> QED BY <1>5, <1>6, <1>7, <1>8, <1>9, <1>10, <1>11 DEF EsemNext, ServerStep, WaitStep, EsemInv, TokensKept, Signalling

\* For any number of threads, a semaphore hands out exactly the tokens of
\* esem_new and of the calls of esem_signal: none is lost or made up between the
\* two pipes, the forks of the server and the writes of the posters; and the
\* server goes only after esem_free.
THEOREM EsemAlwaysSound == EsemSpec => []EsemSound
<1>1. EsemInit => EsemInv
  <2> SUFFICES ASSUME EsemInit PROVE EsemInv
    OBVIOUS
  <2>1. EsemTypeOK /\ value \in Nat /\ first \in Nat /\ signals \in Nat /\ waits \in Nat
    <3>1. value \in 0..MaxValue /\ first = value /\ signals = 0 /\ waits = 0 /\ MaxValue \in Nat
      BY EsemAssumption DEF EsemInit
    <3>2. value \in Nat /\ first \in Nat /\ signals \in Nat /\ waits \in Nat
      BY <3>1
    <3>3. doing \in [User -> {"new", "init", "run", "signal", "wait"}]
      BY DEF EsemInit
    <3>4. server = "read" /\ posters = {} /\ freed = FALSE
      BY DEF EsemInit
    <3> QED BY <3>2, <3>3, <3>4 DEF EsemTypeOK
  <2>2. In("signal") \cup In("init") = {}
    BY DEF EsemInit, In
  <2>3. Cardinality({}) = 0
    BY FS_EmptySet
  <2>4. first = value /\ signals = 0 /\ waits = 0 /\ server = "read" /\ posters = {}
    BY DEF EsemInit
  <2>5. TokensKept
    <3>1. Cardinality(In("signal") \cup In("init")) = 0 /\ Cardinality(posters) = 0
      BY <2>2, <2>3, <2>4
    <3>2. value \in Nat /\ first \in Nat
      BY <2>1
    <3> QED BY <2>4, <3>1, <3>2 DEF TokensKept
  <2> QED BY <2>1, <2>5 DEF EsemInv
<1>2. EsemInv /\ [EsemNext]_esem_vars => EsemInv'
  BY EsemStep
<1>3. EsemInv => EsemSound
  BY DEF EsemInv, EsemSound
<1> QED BY <1>1, <1>2, <1>3, PTL DEF EsemSpec

-----------------------------------------------------------------------------
(* Copies between address spaces, src/kernel/pcpy.c.                        *)

Iterator == [virt : Nat, remaining : Nat, frag : Nat, frag_len : Nat, more : BOOLEAN, error : BOOLEAN]

\* What a copy is about, which does not change.
CopyShape ==
    /\ space \in [dst : [0..(VPages - 1) -> DstFrame \cup {0}], src : [0..(VPages - 1) -> SrcFrame \cup {0}]]
    /\ \A p, q \in 0..(VPages - 1) : p # q /\ space.dst[p] # 0 => space.dst[p] # space.dst[q]
    /\ pages \in [Side -> {"user", "physical", "dead"}]
    /\ copy \in [dst : Nat, src : Nat, len : Nat]
    /\ \A s \in Side : copy[s] + copy.len <= VPages * PageSize /\ (pages[s] # "user" => copy[s] = 0)

\* The iterator i of side s after t bytes: its piece is what comes next, and
\* all up to its end exists.
Follows(s, t, i) ==
    /\ i \in Iterator /\ ~i.error
    /\ i.virt + i.remaining = copy[s] + copy.len
    /\ i.virt = copy[s] + t + i.frag_len
    /\ \A k \in 0..(i.frag_len - 1) : At(s, t + k) = i.frag + k
    /\ \A k \in 0..(t + i.frag_len - 1) : At(s, k) # 0

\* t bytes have been copied, and no others.
Copied(t, m) ==
    /\ \A a \in Addr, k \in 0..(t - 1) : At("dst", k) = a => m[a] = At("src", k)
    /\ \A a \in Addr : (\A k \in 0..(t - 1) : At("dst", k) # a) => m[a] = 0
    /\ \A s \in Side, k \in 0..(t - 1) : At(s, k) # 0

\* The first byte that does not exist ends the copy.
Stopped ==
    \/ total = copy.len /\ ~iter["dst"].error /\ ~iter["src"].error
    \/ total < copy.len /\ \E s \in Side : iter[s].error /\ At(s, total) = 0

PcpyInv ==
    /\ CopyShape
    /\ total \in 0..copy.len /\ mem \in [Addr -> Addr \cup {0}] /\ pc \in {"copy", "done"}
    /\ iter \in [Side -> Iterator]
    /\ \A s \in Side : iter[s].virt + iter[s].remaining = copy[s] + copy.len
    /\ IF "dead" \in {pages.dst, pages.src} THEN pc = "done" /\ total = 0
       ELSE /\ Copied(total, mem)
            /\ pc = "copy" => \A s \in Side : Follows(s, total, iter[s])
            /\ pc = "done" => Stopped

LEMMA SidesAre == ASSUME NEW s \in Side PROVE s = "dst" \/ s = "src"
BY DEF Side

LEMMA FirstFrame ==
    ASSUME NEW S \in SUBSET (Nat \ {0}),
           \E f \in S : (\A g \in S : f <= g) /\ f..(f + VPages - 1) \subseteq S
    PROVE  Min(S) \in Nat \ {0} /\ Min(S)..(Min(S) + VPages - 1) \subseteq S
<1>1. PICK f \in S : (\A g \in S : f <= g) /\ f..(f + VPages - 1) \subseteq S
  OBVIOUS
<1>2. ASSUME NEW x \in S, \A g \in S : x <= g PROVE x = f
  BY <1>1, <1>2
<1>3. Min(S) = f
  BY <1>1, <1>2 DEF Min
<1> QED BY <1>1, <1>3

LEMMA BaseIs ==
    ASSUME NEW s \in Side
    PROVE  /\ Base(s) \in Nat \ {0}
           /\ \E f \in Nat \ {0} : Base(s) = f * PageSize /\ f..(f + VPages - 1) \subseteq DstFrame \cup SrcFrame
<1>0. PageSize \in Nat \ {0}
  BY PcpyAssumption
<1>1. ASSUME NEW S \in {DstFrame, SrcFrame} PROVE Min(S) \in Nat \ {0} /\ Min(S)..(Min(S) + VPages - 1) \subseteq S
  <2>1. S \in SUBSET (Nat \ {0}) /\ \E f \in S : (\A g \in S : f <= g) /\ f..(f + VPages - 1) \subseteq S
    BY PcpyAssumption
  <2> QED BY <2>1, FirstFrame
<1>2. PICK S \in {DstFrame, SrcFrame} : Base(s) = Min(S) * PageSize
  BY DEF Base
<1>3. Min(S) \in Nat \ {0} /\ Min(S)..(Min(S) + VPages - 1) \subseteq DstFrame \cup SrcFrame
  BY <1>1
<1>4. \A m \in Nat \ {0} : m * PageSize \in Nat \ {0}
  BY <1>0
<1> QED BY <1>2, <1>3, <1>4

\* Bytes of one page.
LEMMA SamePage ==
    ASSUME NEW v \in Nat, NEW k \in Nat, k < PageSize - (v % PageSize)
    PROVE  (v + k) \div PageSize = v \div PageSize /\ (v + k) % PageSize = (v % PageSize) + k
BY PcpyAssumption, SMT

\* An address determines its frame and its place in it.
LEMMA FrameOfAddr ==
    ASSUME NEW f \in Nat, NEW g \in Nat, NEW o \in 0..(PageSize - 1), NEW p \in 0..(PageSize - 1),
           f * PageSize + o = g * PageSize + p
    PROVE  f = g /\ o = p
<1>0. PageSize \in Nat \ {0}
  BY PcpyAssumption
<1>1. (f * PageSize + o) \div PageSize = f /\ (g * PageSize + p) \div PageSize = g
  BY <1>0
<1> QED BY <1>0, <1>1

\* Where a byte is: nowhere, or at an address.
LEMMA AtIs ==
    ASSUME CopyShape, NEW s \in Side, NEW k \in 0..(copy.len - 1), pages[s] # "dead"
    PROVE  /\ At(s, k) \in Addr \cup {0} /\ At(s, k) \in Nat
           /\ pages[s] = "physical" => At(s, k) = Base(s) + k /\ At(s, k) # 0
           /\ pages[s] = "user" /\ At(s, k) # 0 =>
                 LET a == copy[s] + k IN
                 /\ a \div PageSize \in 0..(VPages - 1)
                 /\ space[s][a \div PageSize] \in Nat \ {0}
                 /\ At(s, k) = space[s][a \div PageSize] * PageSize + (a % PageSize)
<1>0. /\ PageSize \in Nat \ {0} /\ VPages \in Nat \ {0}
      /\ DstFrame \subseteq Nat \ {0} /\ SrcFrame \subseteq Nat \ {0}
  BY PcpyAssumption
<1>1. /\ copy[s] \in Nat /\ copy.len \in Nat /\ copy[s] + copy.len <= VPages * PageSize
      /\ pages[s] \in {"user", "physical"} /\ (pages[s] # "user" => copy[s] = 0)
  BY SidesAre DEF CopyShape
<1>2. CASE pages[s] = "physical"
  <2>1. copy[s] = 0 /\ k \in Nat
    BY <1>1, <1>2
  <2>2. PICK f \in Nat \ {0} : Base(s) = f * PageSize /\ f..(f + VPages - 1) \subseteq DstFrame \cup SrcFrame
    BY BaseIs
  <2>3. At(s, k) = Base(s) + k
    BY <1>2, <2>1, <2>2, <1>0 DEF At
  <2>4. k < VPages * PageSize
    BY <1>0, <1>1, <2>1
  <2>5. k \div PageSize \in 0..(VPages - 1) /\ k % PageSize \in 0..(PageSize - 1)
    BY <1>0, <2>1, <2>4
  <2>6. f * PageSize + k = (f + (k \div PageSize)) * PageSize + (k % PageSize)
    BY <1>0, <2>1
  <2>7. f + (k \div PageSize) \in f..(f + VPages - 1)
    BY <2>5, <1>0
  <2>8. At(s, k) \in Addr
    BY <2>2, <2>3, <2>5, <2>6, <2>7 DEF Addr
  <2> QED BY <1>2, <2>1, <2>3, <2>8, BaseIs
<1>3. CASE pages[s] = "user"
  <2> DEFINE a == copy[s] + k
  <2>1. a \in Nat /\ a < VPages * PageSize
    BY <1>0, <1>1
  <2>2. a \div PageSize \in 0..(VPages - 1) /\ a % PageSize \in 0..(PageSize - 1)
    BY <2>1, <1>0
  <2> DEFINE f == space[s][a \div PageSize]
  <2>3. f \in DstFrame \cup SrcFrame \cup {0}
    <3>1. space["dst"] \in [0..(VPages - 1) -> DstFrame \cup {0}] /\ space["src"] \in [0..(VPages - 1) -> SrcFrame \cup {0}]
      BY DEF CopyShape
    <3> QED BY <3>1, <2>2, SidesAre
  <2>4. At(s, k) = IF f = 0 THEN 0 ELSE f * PageSize + (a % PageSize)
    BY <1>3 DEF At, virt2phys
  <2>5. CASE f = 0
    BY <2>4, <2>5, <1>3
  <2>6. CASE f # 0
    <3>1. f \in DstFrame \cup SrcFrame /\ f \in Nat \ {0}
      BY <2>3, <2>6, <1>0
    <3>2. At(s, k) = f * PageSize + (a % PageSize)
      BY <2>4, <2>6
    <3>3. At(s, k) \in Addr
      BY <3>1, <3>2, <2>2 DEF Addr
    <3>4. At(s, k) \in Nat
      BY <3>1, <3>2, <2>2, <1>0
    <3> QED BY <3>1, <3>2, <3>3, <3>4, <2>2, <1>3
  <2> QED BY <2>5, <2>6
<1> QED BY <1>1, <1>2, <1>3

\* No two bytes of the destination are at the same address.
LEMMA AtOnce ==
    ASSUME CopyShape, pages["dst"] # "dead", NEW j \in 0..(copy.len - 1), NEW k \in 0..(copy.len - 1),
           At("dst", j) = At("dst", k), At("dst", j) # 0
    PROVE  j = k
<1>0. PageSize \in Nat \ {0} /\ "dst" \in Side /\ pages["dst"] \in {"user", "physical"} /\ copy["dst"] \in Nat /\ copy.len \in Nat
  BY PcpyAssumption DEF CopyShape, Side
<1>1. CASE pages["dst"] = "physical"
  <2>1. At("dst", j) = Base("dst") + j /\ At("dst", k) = Base("dst") + k
    BY <1>0, <1>1, AtIs
  <2> QED BY <2>1, <1>0, BaseIs
<1>2. CASE pages["dst"] = "user"
  <2>1. PICK a, b : a = copy["dst"] + j /\ b = copy["dst"] + k
    OBVIOUS
  <2>2. a \in Nat /\ b \in Nat
    BY <1>0, <2>1
  <2>3. /\ a \div PageSize \in 0..(VPages - 1)
        /\ space["dst"][a \div PageSize] \in Nat \ {0}
        /\ At("dst", j) = space["dst"][a \div PageSize] * PageSize + (a % PageSize)
    BY <1>0, <1>2, <2>1, AtIs
  <2>4. /\ b \div PageSize \in 0..(VPages - 1)
        /\ space["dst"][b \div PageSize] \in Nat \ {0}
        /\ At("dst", k) = space["dst"][b \div PageSize] * PageSize + (b % PageSize)
    BY <1>0, <1>2, <2>1, AtIs
  <2>5. a % PageSize \in 0..(PageSize - 1) /\ b % PageSize \in 0..(PageSize - 1)
    BY <1>0, <2>2
  <2>6. space["dst"][a \div PageSize] = space["dst"][b \div PageSize] /\ a % PageSize = b % PageSize
    BY <2>3, <2>4, <2>5, FrameOfAddr
  <2>7. a \div PageSize = b \div PageSize
    BY <2>3, <2>4, <2>6 DEF CopyShape
  <2>8. a = b
    BY <1>0, <2>2, <2>6, <2>7
  <2> QED BY <1>0, <2>1, <2>8
<1> QED BY <1>0, <1>1, <1>2

\* virt_iter_next finds the next piece, or why there is none.
LEMMA NextPiece ==
    ASSUME CopyShape, NEW s \in Side, pages[s] # "dead", NEW t \in 0..copy.len, Follows(s, t, iter[s]),
           NEW d, d = virt_iter_next(s)
    PROVE  /\ d \in Iterator /\ d.virt + d.remaining = copy[s] + copy.len
           /\ d.more => Follows(s, t, d) /\ d.frag_len > 0
           /\ ~d.more => \/ t = copy.len /\ ~d.error
                         \/ t < copy.len /\ d.error /\ At(s, t) = 0
<1> DEFINE i == iter[s]
<1>0. PageSize \in Nat \ {0} /\ copy[s] \in Nat /\ copy.len \in Nat /\ pages[s] \in {"user", "physical"} /\ t \in Nat /\ t <= copy.len
  BY PcpyAssumption, SidesAre DEF CopyShape
<1>1. /\ i \in Iterator /\ ~i.error
      /\ i.virt + i.remaining = copy[s] + copy.len
      /\ i.virt = copy[s] + t + i.frag_len
      /\ \A k \in 0..(i.frag_len - 1) : At(s, t + k) = i.frag + k
      /\ \A k \in 0..(t + i.frag_len - 1) : At(s, k) # 0
  BY DEF Follows
<1>2. i.virt \in Nat /\ i.remaining \in Nat /\ i.frag_len \in Nat /\ i.frag \in Nat
  BY <1>1 DEF Iterator
<1>3. CASE i.frag_len > 0
  <2>1. d = [i EXCEPT !.more = TRUE]
    BY <1>3 DEF virt_iter_next
  <2>2. d \in Iterator /\ d.more /\ d.virt = i.virt /\ d.remaining = i.remaining /\ d.frag = i.frag
        /\ d.frag_len = i.frag_len /\ d.error = i.error
    BY <1>1, <2>1 DEF Iterator
  <2> QED BY <1>1, <1>3, <2>2 DEF Follows
<1>4. CASE i.frag_len = 0 /\ i.remaining = 0
  <2>1. d = [i EXCEPT !.more = FALSE]
    BY <1>4, <1>2 DEF virt_iter_next
  <2>2. d \in Iterator /\ ~d.more /\ d.virt = i.virt /\ d.remaining = i.remaining /\ d.error = i.error
    BY <1>1, <2>1 DEF Iterator
  <2>3. t = copy.len
    BY <1>0, <1>1, <1>2, <1>4
  <2> QED BY <1>1, <2>2, <2>3
<1>5. CASE i.frag_len = 0 /\ i.remaining > 0
  <2>1. t < copy.len /\ i.virt = copy[s] + t
    BY <1>0, <1>1, <1>2, <1>5
  <2>2. t \in 0..(copy.len - 1)
    BY <1>0, <2>1
  <2>3. frag(s) = At(s, t)
    <3>1. CASE pages[s] = "physical"
      <4>1. frag(s) = Base(s) + i.virt
        BY <3>1 DEF frag
      <4>2. At(s, t) = Base(s) + copy[s] + t
        BY <3>1 DEF At
      <4> QED BY <4>1, <4>2, <2>1, <1>0, BaseIs
    <3>2. CASE pages[s] = "user"
      BY <3>2, <2>1 DEF frag, At
    <3> QED BY <3>1, <3>2, <1>0
  <2>4. CASE frag(s) = 0
    <3>1. d = [i EXCEPT !.more = FALSE, !.error = TRUE]
      BY <1>5, <1>2, <2>4 DEF virt_iter_next
    <3>2. d \in Iterator /\ ~d.more /\ d.virt = i.virt /\ d.remaining = i.remaining /\ d.error
      BY <1>1, <3>1 DEF Iterator
    <3> QED BY <1>1, <2>1, <2>3, <2>4, <3>2
  <2>5. CASE frag(s) # 0
    <3> DEFINE n == partial(s)
    <3>1. /\ n \in Nat /\ 0 < n /\ n <= i.remaining
          /\ pages[s] = "user" => n <= PageSize - (i.virt % PageSize)
      <4>1. i.virt % PageSize \in 0..(PageSize - 1)
        BY <1>0, <1>2
      <4> QED BY <4>1, <1>0, <1>2, <1>5 DEF partial, length_min
    <3>2. d = [i EXCEPT !.more = TRUE, !.frag = frag(s), !.frag_len = n, !.remaining = @ - n, !.virt = @ + n]
      BY <1>5, <1>2, <2>5 DEF virt_iter_next
    <3>3. frag(s) \in Nat
      BY <2>2, <2>3, AtIs
    <3>4. i.remaining - n \in Nat /\ i.virt + n \in Nat
      BY <3>1, <1>2
    <3>5. d \in Iterator /\ d.more /\ d.virt = i.virt + n /\ d.remaining = i.remaining - n /\ d.frag = frag(s)
          /\ d.frag_len = n /\ d.error = i.error
      <4> HIDE DEF n
      <4> QED BY <1>1, <3>1, <3>2, <3>3, <3>4 DEF Iterator
    <3>6. ASSUME NEW k \in 0..(n - 1) PROVE At(s, t + k) = frag(s) + k /\ At(s, t + k) # 0
      <4>1. t + k \in 0..(copy.len - 1) /\ k \in Nat /\ k < n
        BY <1>0, <1>1, <1>2, <2>1, <3>1
      <4>2. CASE pages[s] = "physical"
        <5>1. At(s, t + k) = Base(s) + (t + k) /\ At(s, t + k) # 0 /\ At(s, t) = Base(s) + t
          BY <4>1, <4>2, <2>2, AtIs
        <5> QED BY <5>1, <4>1, <1>0, <2>3, BaseIs
      <4>3. CASE pages[s] = "user"
        <5>1. PICK v : v = copy[s] + t
          OBVIOUS
        <5>2. v \in Nat /\ i.virt = v /\ copy[s] + (t + k) = v + k
          BY <5>1, <1>0, <2>1, <4>1
        <5>3. (v + k) \div PageSize = v \div PageSize /\ (v + k) % PageSize = (v % PageSize) + k
          <6>1. k < PageSize - (v % PageSize)
            BY <1>0, <3>1, <4>1, <4>3, <5>2
          <6> QED BY <6>1, <5>2, <4>1, SamePage
        <5>4. PICK f : f = space[s][v \div PageSize]
          OBVIOUS
        <5>5. f \in Nat \ {0} /\ At(s, t) = f * PageSize + (v % PageSize)
          BY <2>2, <2>3, <2>5, <4>3, <5>1, <5>4, AtIs
        <5>6. At(s, t + k) = IF f = 0 THEN 0 ELSE f * PageSize + ((v + k) % PageSize)
          BY <4>3, <5>2, <5>3, <5>4 DEF At, virt2phys
        <5>7. At(s, t + k) = f * PageSize + ((v % PageSize) + k)
          BY <5>3, <5>5, <5>6
        <5>8. v % PageSize \in Nat
          BY <5>2, <1>0
        <5>9. f * PageSize \in Nat /\ f * PageSize > 0
          BY <5>5, <1>0
        <5> QED BY <5>5, <5>7, <5>8, <5>9, <4>1, <2>3
      <4> QED BY <4>2, <4>3, <1>0
    <3>7. ASSUME NEW k \in 0..(t + n - 1) PROVE At(s, k) # 0
      <4>1. CASE k < t
        BY <4>1, <1>0, <1>1, <1>5, <3>1
      <4>2. CASE k >= t
        <5>1. k - t \in 0..(n - 1) /\ t + (k - t) = k
          BY <4>2, <1>0, <3>1
        <5> QED BY <5>1, <3>6
      <4> QED BY <4>1, <4>2, <1>0, <3>1
    <3>8. d.virt + d.remaining = copy[s] + copy.len /\ d.virt = copy[s] + t + d.frag_len
      BY <1>0, <1>1, <1>2, <2>1, <3>1, <3>5
    <3> HIDE DEF n
    <3> QED BY <1>1, <3>1, <3>5, <3>6, <3>7, <3>8 DEF Follows
  <2> QED BY <2>4, <2>5
<1> QED BY <1>2, <1>3, <1>4, <1>5

\* The iterator goes on by n bytes of its piece.
LEMMA Advances ==
    ASSUME CopyShape, NEW s \in Side, NEW t \in Nat, NEW i, Follows(s, t, i), NEW n \in Nat, n <= i.frag_len
    PROVE  Follows(s, t + n, advanced(i, n))
<1>1. /\ i \in Iterator /\ ~i.error
      /\ i.virt + i.remaining = copy[s] + copy.len
      /\ i.virt = copy[s] + t + i.frag_len
      /\ \A k \in 0..(i.frag_len - 1) : At(s, t + k) = i.frag + k
      /\ \A k \in 0..(t + i.frag_len - 1) : At(s, k) # 0
  BY DEF Follows
<1>2. i.virt \in Nat /\ i.remaining \in Nat /\ i.frag_len \in Nat /\ i.frag \in Nat /\ copy[s] \in Nat
  BY <1>1, SidesAre DEF Iterator, CopyShape
<1>3. PICK j : j = advanced(i, n)
  OBVIOUS
<1>4. i.frag_len - n \in Nat /\ i.frag + n \in Nat
  BY <1>2
<1>5. j \in Iterator /\ j.error = i.error /\ j.virt = i.virt /\ j.remaining = i.remaining
      /\ j.frag_len = i.frag_len - n /\ j.frag = i.frag + n
  BY <1>1, <1>3, <1>4 DEF Iterator, advanced
<1>6. ASSUME NEW k \in 0..(j.frag_len - 1) PROVE At(s, t + n + k) = j.frag + k
  <2>1. n + k \in 0..(i.frag_len - 1) /\ t + n + k = t + (n + k)
    BY <1>2, <1>5
  <2>2. At(s, t + (n + k)) = i.frag + (n + k)
    BY <1>1, <2>1
  <2> QED BY <2>1, <2>2, <1>2, <1>5
<1>7. \A k \in 0..(t + n + j.frag_len - 1) : At(s, k) # 0
  BY <1>1, <1>2, <1>5
<1>8. j.virt + j.remaining = copy[s] + copy.len /\ j.virt = copy[s] + (t + n) + j.frag_len
  BY <1>1, <1>2, <1>5
<1> QED BY <1>1, <1>3, <1>5, <1>6, <1>7, <1>8 DEF Follows

\* What a piece of n bytes adds.
LEMMA PieceIsCopied ==
    ASSUME CopyShape, \A s \in Side : pages[s] # "dead",
           NEW t \in Nat, NEW n \in Nat, t + n <= copy.len,
           NEW d, Follows("dst", t, d), NEW s, Follows("src", t, s), n <= d.frag_len, n <= s.frag_len,
           NEW m \in [Addr -> Addr \cup {0}], Copied(t, m),
           NEW new, new = [a \in Addr |-> IF a >= d.frag /\ a < d.frag + n THEN s.frag + (a - d.frag) ELSE m[a]]
    PROVE  new \in [Addr -> Addr \cup {0}] /\ Copied(t + n, new)
<1>0. "dst" \in Side /\ "src" \in Side /\ copy.len \in Nat
  BY DEF Side, CopyShape
<1>1. /\ d.frag \in Nat /\ d.frag_len \in Nat /\ s.frag \in Nat /\ s.frag_len \in Nat
      /\ \A k \in 0..(d.frag_len - 1) : At("dst", t + k) = d.frag + k
      /\ \A k \in 0..(s.frag_len - 1) : At("src", t + k) = s.frag + k
      /\ \A k \in 0..(t + d.frag_len - 1) : At("dst", k) # 0
      /\ \A k \in 0..(t + s.frag_len - 1) : At("src", k) # 0
  BY DEF Follows, Iterator
<1>2. ASSUME NEW a \in Addr PROVE a \in Nat
  BY PcpyAssumption DEF Addr
\* The piece: the bytes from t on.
<1>3. ASSUME NEW a \in Addr, a >= d.frag, a < d.frag + n
      PROVE  \E k \in 0..(n - 1) : a = At("dst", t + k) /\ s.frag + (a - d.frag) = At("src", t + k)
  <2>1. a - d.frag \in 0..(n - 1) /\ a - d.frag \in 0..(d.frag_len - 1) /\ a - d.frag \in 0..(s.frag_len - 1)
    BY <1>1, <1>2, <1>3
  <2>2. At("dst", t + (a - d.frag)) = d.frag + (a - d.frag) /\ At("src", t + (a - d.frag)) = s.frag + (a - d.frag)
    BY <1>1, <2>1
  <2>3. d.frag + (a - d.frag) = a
    BY <1>1, <1>2
  <2> QED BY <2>1, <2>2, <2>3
<1>4. ASSUME NEW k \in 0..(n - 1)
      PROVE  /\ At("dst", t + k) >= d.frag /\ At("dst", t + k) < d.frag + n
             /\ t + k \in 0..(copy.len - 1)
             /\ s.frag + (At("dst", t + k) - d.frag) = At("src", t + k)
  <2>1. k \in 0..(d.frag_len - 1) /\ k \in 0..(s.frag_len - 1) /\ k \in Nat
    BY <1>1
  <2>2. At("dst", t + k) = d.frag + k /\ At("src", t + k) = s.frag + k
    BY <1>1, <2>1
  <2> QED BY <1>0, <1>1, <2>1, <2>2
<1>5. ASSUME NEW k \in 0..(t + n - 1) PROVE k \in 0..(copy.len - 1) /\ At("dst", k) # 0 /\ At("src", k) # 0
  BY <1>0, <1>1
<1>6. new \in [Addr -> Addr \cup {0}]
  <2>1. ASSUME NEW a \in Addr PROVE new[a] \in Addr \cup {0}
    <3>1. CASE a >= d.frag /\ a < d.frag + n
      <4>1. PICK k \in 0..(n - 1) : s.frag + (a - d.frag) = At("src", t + k)
        BY <1>3, <3>1
      <4>2. new[a] = At("src", t + k)
        BY <3>1, <4>1
      <4>3. At("src", t + k) \in Addr \cup {0}
        BY <1>0, <1>4, AtIs
      <4> QED BY <4>2, <4>3
    <3>2. CASE ~(a >= d.frag /\ a < d.frag + n)
      BY <3>2
    <3> QED BY <3>1, <3>2
  <2> QED BY <2>1
<1>7. ASSUME NEW a \in Addr, NEW k \in 0..(t + n - 1), At("dst", k) = a PROVE new[a] = At("src", k)
  <2>1. CASE a >= d.frag /\ a < d.frag + n
    <3>1. PICK j \in 0..(n - 1) : a = At("dst", t + j) /\ s.frag + (a - d.frag) = At("src", t + j)
      BY <1>3, <2>1
    <3>2. t + j = k
      BY <1>0, <1>4, <1>5, <1>7, <3>1, AtOnce
    <3> QED BY <2>1, <3>1, <3>2
  <2>2. CASE ~(a >= d.frag /\ a < d.frag + n)
    <3>1. k < t
      <4>1. SUFFICES ASSUME k >= t PROVE FALSE
        BY <1>0
      <4>2. k - t \in 0..(n - 1) /\ t + (k - t) = k
        BY <4>1
      <4> QED BY <4>2, <1>4, <1>7, <2>2
    <3>2. k \in 0..(t - 1)
      BY <3>1
    <3>3. m[a] = At("src", k)
      BY <3>2, <1>7 DEF Copied
    <3> QED BY <2>2, <3>3
  <2> QED BY <2>1, <2>2
<1>8. ASSUME NEW a \in Addr, \A k \in 0..(t + n - 1) : At("dst", k) # a PROVE new[a] = 0
  <2>1. ~(a >= d.frag /\ a < d.frag + n)
    <3>1. \A k \in 0..(n - 1) : t + k \in 0..(t + n - 1)
      OBVIOUS
    <3> QED BY <1>3, <1>8, <3>1
  <2>2. \A k \in 0..(t - 1) : At("dst", k) # a
    BY <1>8
  <2>3. m[a] = 0
    BY <2>2 DEF Copied
  <2> QED BY <2>1, <2>3
<1>9. \A r \in Side, k \in 0..(t + n - 1) : At(r, k) # 0
  BY <1>5, SidesAre
<1> QED BY <1>6, <1>7, <1>8, <1>9 DEF Copied

LEMMA PcpyStep == ASSUME PcpyInv, [PcpyNext]_pcpy_vars PROVE PcpyInv'
<1>0. "dst" \in Side /\ "src" \in Side /\ pages["dst"] = pages.dst /\ pages["src"] = pages.src
  BY DEF Side
<1>1. CASE UNCHANGED pcpy_vars
  <2>1. UNCHANGED <<space, pages, copy, iter, total, mem, pc>>
    BY <1>1 DEF pcpy_vars
  <2>2. \A s, k : At(s, k)' = At(s, k)
    BY <2>1 DEF At, virt2phys, Base
  <2> QED BY <2>1, <2>2 DEF PcpyInv, CopyShape, Copied, Follows, Stopped
<1>2. CASE CopyPiece \/ CopyEnd
  <2>0. UNCHANGED <<space, pages, copy>> /\ pc = "copy"
    BY <1>2 DEF CopyPiece, CopyEnd
  <2>1. /\ CopyShape /\ total \in 0..copy.len /\ mem \in [Addr -> Addr \cup {0}]
        /\ Copied(total, mem) /\ \A s \in Side : Follows(s, total, iter[s])
        /\ iter \in [Side -> Iterator]
        /\ \A s \in Side : iter[s].virt + iter[s].remaining = copy[s] + copy.len
        /\ \A s \in Side : pages[s] # "dead"
        /\ "dead" \notin {pages.dst, pages.src}
    <3>1. "dead" \notin {pages.dst, pages.src}
      BY <2>0 DEF PcpyInv
    <3>2. \A s \in Side : pages[s] # "dead"
      BY <3>1, <1>0, SidesAre
    <3> QED BY <3>1, <3>2, <2>0 DEF PcpyInv
  <2>2. \A s, k : At(s, k)' = At(s, k)
    BY <2>0 DEF At, virt2phys, Base
  <2>3. CopyShape'
    BY <2>0, <2>1 DEF CopyShape
  <2>4. copy.len \in Nat /\ total \in Nat /\ total <= copy.len
    BY <2>1 DEF CopyShape
  <2>5. PICK d : d = virt_iter_next("dst")
    OBVIOUS
  <2>6. /\ d \in Iterator /\ d.virt + d.remaining = copy["dst"] + copy.len
        /\ d.more => Follows("dst", total, d) /\ d.frag_len > 0
        /\ ~d.more => \/ total = copy.len /\ ~d.error
                      \/ total < copy.len /\ d.error /\ At("dst", total) = 0
    BY <1>0, <2>1, <2>5, NextPiece
  <2>7. PICK s : s = virt_iter_next("src")
    OBVIOUS
  <2>8. /\ s \in Iterator /\ s.virt + s.remaining = copy["src"] + copy.len
        /\ s.more => Follows("src", total, s) /\ s.frag_len > 0
        /\ ~s.more => \/ total = copy.len /\ ~s.error
                      \/ total < copy.len /\ s.error /\ At("src", total) = 0
    BY <1>0, <2>1, <2>7, NextPiece
  <2>9. CASE CopyPiece
    <3>1. PICK n : n = length_min(d.frag_len, s.frag_len)
      OBVIOUS
    <3>2. d.more
      BY <2>9, <2>5 DEF CopyPiece
    <3>3. /\ s.more
          /\ mem' = [a \in Addr |-> IF a >= d.frag /\ a < d.frag + n THEN s.frag + (a - d.frag) ELSE mem[a]]
          /\ iter' = [dst |-> advanced(d, n), src |-> advanced(s, n)]
          /\ total' = total + n /\ pc' = pc
      BY <2>9, <2>5, <2>7, <3>1, <3>2 DEF CopyPiece
    <3>4. d.frag_len \in Nat /\ s.frag_len \in Nat /\ d.remaining \in Nat /\ d.virt \in Nat /\ copy["dst"] \in Nat
      BY <2>6, <2>8, <2>1 DEF Iterator, CopyShape
    <3>5. n \in Nat /\ n <= d.frag_len /\ n <= s.frag_len
      BY <3>1, <3>4 DEF length_min
    <3>6. Follows("dst", total, d) /\ Follows("src", total, s)
      BY <2>6, <2>8, <3>2, <3>3
    <3>7. total + n <= copy.len
      <4>1. d.virt = copy["dst"] + total + d.frag_len
        BY <3>6 DEF Follows
      <4> QED BY <4>1, <2>6, <2>4, <3>4, <3>5
    <3>8. mem' \in [Addr -> Addr \cup {0}] /\ Copied(total + n, mem')
      BY <2>1, <2>4, <3>3, <3>5, <3>6, <3>7, PieceIsCopied
    <3>9. Follows("dst", total + n, advanced(d, n)) /\ Follows("src", total + n, advanced(s, n))
      BY <1>0, <2>1, <2>4, <3>5, <3>6, Advances
    <3>10. iter'["dst"] = advanced(d, n) /\ iter'["src"] = advanced(s, n)
      BY <3>3
    <3>11. \A r \in Side : Follows(r, total', iter'[r])
      BY <3>3, <3>9, <3>10, SidesAre
    <3>12. iter' \in [Side -> Iterator] /\ \A r \in Side : iter'[r].virt + iter'[r].remaining = copy[r] + copy.len
      <4>1. \A r \in Side : iter'[r] \in Iterator /\ iter'[r].virt + iter'[r].remaining = copy[r] + copy.len
        BY <3>11 DEF Follows
      <4>2. advanced(d, n) \in Iterator /\ advanced(s, n) \in Iterator
        BY <1>0, <3>10, <4>1
      <4>3. iter' \in [Side -> Iterator]
        BY <3>3, <4>2 DEF Side
      <4> QED BY <4>1, <4>3
    <3>13. ASSUME NEW r \in Side PROVE Follows(r, total, iter[r])'
      <4>1. Follows(r, total', iter'[r])
        BY <3>11
      <4> QED BY <4>1, <2>2, <2>0 DEF Follows
    <3>14. Copied(total, mem)'
      <4>1. Copied(total', mem')
        BY <3>3, <3>8
      <4> QED BY <4>1, <2>2, <2>0 DEF Copied, Addr
    <3>15. total' \in 0..copy.len
      BY <3>3, <3>5, <3>7, <2>4
    <3> QED BY <2>0, <2>1, <2>3, <3>3, <3>8, <3>12, <3>13, <3>14, <3>15 DEF PcpyInv, Side
  <2>10. CASE CopyEnd
    <3>1. PICK e : e = IF d.more THEN s ELSE [iter["src"] EXCEPT !.more = TRUE]
      OBVIOUS
    <3>2. ~(d.more /\ e.more) /\ iter' = [dst |-> d, src |-> e] /\ pc' = "done" /\ UNCHANGED <<total, mem>>
      BY <2>10, <2>5, <2>7, <3>1 DEF CopyEnd
    <3>3. iter["src"] \in Iterator /\ ~iter["src"].error
          /\ iter["src"].virt + iter["src"].remaining = copy["src"] + copy.len
      BY <1>0, <2>1 DEF Follows
    <3>4. e \in Iterator /\ e.virt + e.remaining = copy["src"] + copy.len
      BY <3>1, <3>3, <2>8 DEF Iterator
    <3>5. iter' \in [Side -> Iterator] /\ \A r \in Side : iter'[r].virt + iter'[r].remaining = copy[r] + copy.len
      <4>1. iter' \in [Side -> Iterator] /\ iter'["dst"] = d /\ iter'["src"] = e
        BY <3>2, <3>4, <2>6 DEF Side
      <4> QED BY <4>1, <3>4, <2>6, SidesAre
    <3>6. \/ total = copy.len /\ ~iter'["dst"].error /\ ~iter'["src"].error
          \/ total < copy.len /\ \E r \in Side : iter'[r].error /\ At(r, total) = 0
      <4>1. iter'["dst"] = d /\ iter'["src"] = e
        BY <3>2
      <4>2. CASE ~d.more
        <5>1. e = [iter["src"] EXCEPT !.more = TRUE]
          BY <3>1, <4>2
        <5>2. e.error = iter["src"].error
          BY <5>1, <3>3 DEF Iterator
        <5> QED BY <4>1, <4>2, <5>2, <3>3, <2>6, <1>0
      <4>3. CASE d.more
        <5>1. e = s /\ ~s.more
          BY <3>1, <3>2, <4>3
        <5>2. ~d.error
          BY <4>3, <2>6 DEF Follows
        <5> QED BY <4>1, <5>1, <5>2, <2>8, <1>0
      <4> QED BY <4>2, <4>3
    <3>7. Stopped'
      BY <3>6, <3>2, <2>2, <2>0 DEF Stopped
    <3>8. Copied(total, mem)'
      BY <2>1, <3>2, <2>2, <2>0 DEF Copied, Addr
    <3> QED BY <2>0, <2>1, <2>3, <3>2, <3>5, <3>7, <3>8 DEF PcpyInv
  <2> QED BY <1>2, <2>9, <2>10
<1> QED BY <1>1, <1>2 DEF PcpyNext

\* All that is needed of the end of a copy.
LEMMA PcpySoundFrom == ASSUME PcpyInv PROVE CopySound
<1>0. "dst" \in Side /\ "src" \in Side /\ pages["dst"] = pages.dst /\ pages["src"] = pages.src
  BY DEF Side
<1>1. CopyShape /\ copy.len \in Nat /\ total \in 0..copy.len /\ total \in Nat /\ total <= copy.len
  BY DEF PcpyInv, CopyShape
<1>2. PcpyTypeOK
  <2>1. ASSUME NEW s \in Side, pc # "done" PROVE iter[s].virt - iter[s].frag_len = copy[s] + total
    <3>1. Follows(s, total, iter[s])
      BY <2>1 DEF PcpyInv
    <3>2. iter[s].virt = copy[s] + total + iter[s].frag_len /\ iter[s].frag_len \in Nat
      BY <3>1 DEF Follows, Iterator
    <3>3. copy[s] \in Nat
      BY <1>1, SidesAre DEF CopyShape
    <3> QED BY <1>1, <3>2, <3>3
  <2> QED BY <2>1 DEF PcpyInv, PcpyTypeOK
<1>3. CopyExact
  <2> SUFFICES ASSUME "dead" \notin {pages.dst, pages.src}, NEW a \in Addr
               PROVE  mem[a] = IF \E k \in 0..(total - 1) : At("dst", k) = a
                                 THEN At("src", CHOOSE k \in 0..(total - 1) : At("dst", k) = a) ELSE 0
    BY DEF CopyExact
  <2>1. Copied(total, mem) /\ pages["dst"] # "dead"
    BY <1>0 DEF PcpyInv
  <2>2. CASE \E k \in 0..(total - 1) : At("dst", k) = a
    <3>1. PICK k : k = CHOOSE j \in 0..(total - 1) : At("dst", j) = a
      OBVIOUS
    <3>2. k \in 0..(total - 1) /\ At("dst", k) = a
      BY <2>2, <3>1
    <3>3. mem[a] = At("src", k)
      BY <2>1, <3>2 DEF Copied
    <3> QED BY <2>2, <3>1, <3>3
  <2>3. CASE \A k \in 0..(total - 1) : At("dst", k) # a
    BY <2>1, <2>3 DEF Copied
  <2> QED BY <2>2, <2>3
<1>4. CopyLongest
  <2> SUFFICES ASSUME pc = "done"
               PROVE  IF "dead" \in {pages.dst, pages.src} THEN total = 0
                      ELSE /\ total = length_min(Mapped("dst"), Mapped("src"))
                           /\ (iter.dst.error \/ iter.src.error) = (total # copy.len)
    BY DEF CopyLongest
  <2>1. CASE "dead" \in {pages.dst, pages.src}
    BY <2>1 DEF PcpyInv
  <2>2. CASE "dead" \notin {pages.dst, pages.src}
    <3>1. Copied(total, mem) /\ Stopped
      BY <2>2 DEF PcpyInv
    <3>2. \A s \in Side, k \in 0..(total - 1) : At(s, k) # 0
      BY <3>1 DEF Copied
    \* As much as was copied exists.
    <3>3. ASSUME NEW s \in Side
          PROVE  /\ Mapped(s) \in Nat /\ Mapped(s) >= total /\ Mapped(s) <= copy.len
                 /\ (total < copy.len /\ At(s, total) = 0) => Mapped(s) = total
      <4> DEFINE S == {copy.len} \cup {k \in 0..(copy.len - 1) : At(s, k) = 0}
      <4>1. S \in SUBSET Nat /\ copy.len \in S
        BY <1>1
      <4>2. \E m \in S : \A j \in S : m <= j
        <5> HIDE DEF S
        <5> QED BY <4>1, SmallestExists
      <4>3. Mapped(s) \in S /\ \A j \in S : Mapped(s) <= j
        BY <4>2 DEF Mapped, Min
      <4>4. ASSUME NEW k \in S PROVE k >= total
        BY <1>1, <3>2
      <4>5. (total < copy.len /\ At(s, total) = 0) => total \in S
        BY <1>1
      <4> HIDE DEF S
      <4>6. Mapped(s) \in Nat /\ Mapped(s) >= total /\ Mapped(s) <= copy.len
        BY <4>1, <4>3, <4>4
      <4>7. ASSUME total < copy.len, At(s, total) = 0 PROVE Mapped(s) = total
        <5>1. Mapped(s) <= total
          BY <4>3, <4>5, <4>7
        <5> QED BY <5>1, <4>6, <1>1
      <4> QED BY <4>6, <4>7
    <3>4. total = length_min(Mapped("dst"), Mapped("src"))
      <4>1. CASE total = copy.len
        BY <4>1, <1>0, <1>1, <3>3 DEF length_min
      <4>2. CASE total < copy.len
        <5>1. PICK s \in Side : At(s, total) = 0
          BY <3>1, <4>2, <1>1 DEF Stopped
        <5>2. Mapped(s) = total
          BY <5>1, <4>2, <3>3
        <5> QED BY <5>2, <1>0, <1>1, <3>3, SidesAre DEF length_min
      <4> QED BY <4>1, <4>2, <1>1
    <3>5. (iter["dst"].error \/ iter["src"].error) <=> (total # copy.len)
      BY <1>1, <3>1, SidesAre DEF Stopped
    <3>6. (iter.dst.error \/ iter.src.error) = (total # copy.len)
      <4>1. iter["dst"].error \in BOOLEAN /\ iter["src"].error \in BOOLEAN
        BY <1>0 DEF PcpyInv, Iterator
      <4>2. (iter["dst"].error \/ iter["src"].error) \in BOOLEAN /\ (total # copy.len) \in BOOLEAN
        OBVIOUS
      <4> QED BY <3>5, <4>1, <4>2, Zenon
    <3> QED BY <2>2, <3>4, <3>6
  <2> QED BY <2>1, <2>2
<1> QED BY <1>2, <1>3, <1>4 DEF CopySound

\* Whatever the sizes of pages and buffers, and wherever the pages lie, virt_cpy
\* moves the longest prefix that exists on both sides, byte by byte, touches no
\* other byte, and its assertions about total and length hold.
THEOREM CopiesAlwaysSound == PcpySpec => []CopySound
<1>1. PcpyInit => PcpyInv
  <2> SUFFICES ASSUME PcpyInit PROVE PcpyInv
    OBVIOUS
  <2>0. "dst" \in Side /\ "src" \in Side /\ PageSize \in Nat \ {0} /\ VPages \in Nat \ {0} /\ MaxCopy \in Nat
    BY PcpyAssumption DEF Side
  <2>1. copy \in [dst : Nat, src : Nat, len : Nat]
    <3>1. copy \in [dst : 0..(VPages * PageSize - 1), src : 0..(VPages * PageSize - 1), len : 0..MaxCopy]
      BY DEF PcpyInit
    <3>2. 0..(VPages * PageSize - 1) \subseteq Nat /\ 0..MaxCopy \subseteq Nat
      BY <2>0
    <3> QED BY <3>1, <3>2
  <2>2. CopyShape
    BY <2>1 DEF PcpyInit, CopyShape
  <2>3. \A s \in Side : copy[s] \in Nat
    BY <2>1, SidesAre
  <2>4. /\ iter = [s \in Side |-> [virt |-> copy[s], remaining |-> copy.len, frag |-> 0, frag_len |-> 0,
                                   more |-> TRUE, error |-> FALSE]]
        /\ total = 0 /\ mem = [a \in Addr |-> 0]
        /\ pc = IF "dead" \in {pages.dst, pages.src} THEN "done" ELSE "copy"
    BY DEF PcpyInit
  <2>5. iter \in [Side -> Iterator]
    BY <2>1, <2>3, <2>4 DEF Iterator
  <2>6. ASSUME NEW s \in Side PROVE Follows(s, 0, iter[s])
    <3>1. /\ iter[s].virt = copy[s] /\ iter[s].remaining = copy.len /\ iter[s].frag_len = 0 /\ ~iter[s].error
          /\ iter[s] \in Iterator
      BY <2>4, <2>5
    <3>2. copy[s] \in Nat
      BY <2>3
    <3> QED BY <3>1, <3>2 DEF Follows
  <2>7. \A s \in Side : iter[s].virt + iter[s].remaining = copy[s] + copy.len
    BY <2>6 DEF Follows
  <2>8. Copied(0, mem)
    BY <2>4 DEF Copied
  <2>9. total \in 0..copy.len /\ mem \in [Addr -> Addr \cup {0}] /\ pc \in {"copy", "done"}
    BY <2>1, <2>4
  <2> QED BY <2>2, <2>4, <2>5, <2>6, <2>7, <2>8, <2>9 DEF PcpyInv
<1>2. PcpyInv /\ [PcpyNext]_pcpy_vars => PcpyInv'
  BY PcpyStep
<1>3. PcpyInv => CopySound
  BY PcpySoundFrom
<1> QED BY <1>1, <1>2, <1>3, PTL DEF PcpySpec

-----------------------------------------------------------------------------
(* procfs, src/kernel/vfs/procfs.c.                                         *)

ProcfsVarTypes ==
    /\ alive \in [PProc -> BOOLEAN] /\ par \in [PProc -> PProc \cup {None}] /\ gid \in [PProc -> 0..MaxGid]
    /\ nextgid \in Nat /\ owner \in PProc \cup {None} /\ front \in SUBSET PProc
    /\ pfile \in [FileId -> [type : {"none", "root", "intr", "intrdown"}, gid : 0..MaxGid, held : SUBSET PProc]]

\* The processes in the tree are those with a globalid, which names one of
\* them; the files of processes have one too.
Numbered ==
    /\ alive[Boot]
    /\ \A p \in PProc : (InTree(p) <=> gid[p] # 0) /\ gid[p] < nextgid
    /\ \A p, q \in PProc : gid[p] = gid[q] /\ gid[p] # 0 => p = q
    /\ \A f \in FileId : pfile[f].type \in {"intr", "intrdown"} => pfile[f].gid # 0

Held ==
    /\ \A p \in PProc : alive[p] => InTree(p)
    /\ \A p \in front : alive[p]
    /\ \A f \in FileId : (pfile[f].held = {} <=> pfile[f] = Unheld) /\ \A p \in pfile[f].held : alive[p]

\* The files that are open, and the uses of the backend.
Used(pf) == {f \in FileId : pf[f].held # {}}
Uses(fr, pf) == (IF fr = {} THEN 0 ELSE 1) + Cardinality(Used(pf))

Counted ==
    /\ refcount = (IF owner = None THEN 0 ELSE 1)
    /\ use = Uses(front, pfile)
    /\ owner # None <=> use > 0

OwnerThere ==
    /\ fault # "other"
    /\ fault = "none" /\ owner # None => InTree(owner)

ProcfsInv == ProcfsVarTypes /\ Numbered /\ Held /\ Counted /\ OwnerThere

\* g is the levels of the subtree of p.
Levels(p, n, g) == g = [k \in 0..n |-> IF k = 0 THEN {p} ELSE LET prev == g[k - 1] IN prev \cup {q \in PProc : par[q] \in prev}]

LEMMA LevelsExist ==
    ASSUME NEW p, NEW n \in Nat
    PROVE  \E g : Levels(p, n, g)
<1> DEFINE Bad == {k \in Nat : ~ \E g : Levels(p, k, g)}
<1> SUFFICES ASSUME Bad # {} PROVE FALSE
  OBVIOUS
<1>1. PICK k \in Bad : \A j \in Bad : k <= j
  <2>1. Bad \in SUBSET Nat
    OBVIOUS
  <2> HIDE DEF Bad
  <2> QED BY <2>1, SmallestExists
<1>2. k \in Nat /\ ~ \E g : Levels(p, k, g)
  BY <1>1
<1> DEFINE next(prev) == prev \cup {q \in PProc : par[q] \in prev}
<1>3. k # 0
  <2> SUFFICES ASSUME k = 0 PROVE FALSE
    OBVIOUS
  <2> DEFINE z == [i \in 0..0 |-> {p}]
  <2>1. \A i \in 0..0 : i = 0
    OBVIOUS
  <2>2. z = [i \in 0..0 |-> IF i = 0 THEN {p} ELSE next(z[i - 1])]
    BY <2>1
  <2> QED BY <1>2, <2>2 DEF Levels
<1>4. k - 1 \in Nat /\ k - 1 \notin Bad
  <2>1. k - 1 \in Nat /\ ~(k <= k - 1)
    BY <1>2, <1>3
  <2> HIDE DEF Bad
  <2> QED BY <1>1, <2>1
<1>5. PICK f : Levels(p, k - 1, f)
  BY <1>4
<1> DEFINE g == [i \in 0..k |-> IF i = 0 THEN {p} ELSE next(f[i - 1])]
<1>6. \A i \in 0..(k - 1) : g[i] = f[i]
  <2> TAKE i \in 0..(k - 1)
  <2>1. f[i] = IF i = 0 THEN {p} ELSE next(f[i - 1])
    BY <1>5 DEF Levels
  <2>2. i \in 0..k
    BY <1>2
  <2> QED BY <2>1, <2>2
<1>7. \A i \in 0..k : g[i] = IF i = 0 THEN {p} ELSE next(g[i - 1])
  <2> TAKE i \in 0..k
  <2>1. g[i] = IF i = 0 THEN {p} ELSE next(f[i - 1])
    OBVIOUS
  <2>2. i # 0 => i - 1 \in 0..(k - 1)
    BY <1>2
  <2> HIDE DEF g
  <2> QED BY <1>6, <2>1, <2>2
<1>8. g = [i \in 0..k |-> g[i]]
  OBVIOUS
<1> HIDE DEF g
<1>9. Levels(p, k, g)
  BY <1>7, <1>8 DEF Levels
<1> QED BY <1>2, <1>9

\* What a level of the subtree of p has: p, and processes with a parent.
LevelOK(p, S) == p \in S /\ S \subseteq PProc /\ (\A q \in S : q = p \/ par[q] # None) /\ (Leaf(p) => S = {p})

LEMMA BelowIs ==
    ASSUME NEW p \in PProc
    PROVE  LevelOK(p, Below(p))
<1>1. Cardinality(PProc) \in Nat /\ None \notin PProc
  BY ProcfsAssumption, FS_CardinalityType
<1> DEFINE n == Cardinality(PProc)
           g == CHOOSE h : Levels(p, n, h)
<1>2. Levels(p, n, g)
  <2> HIDE DEF n
  <2> QED BY <1>1, LevelsExist DEF n
<1>3. Below(p) = g[n]
  BY DEF Below, Levels
<1> HIDE DEF g, n
<1>4. n \in Nat
  BY <1>1 DEF n
<1> DEFINE Bad == {k \in 0..n : ~LevelOK(p, g[k])}
<1>5. Bad = {}
  <2> SUFFICES ASSUME Bad # {} PROVE FALSE
    OBVIOUS
  <2>1. PICK k \in Bad : \A j \in Bad : k <= j
    <3>1. Bad \in SUBSET Nat
      BY <1>4
    <3> HIDE DEF Bad
    <3> QED BY <3>1, SmallestExists
  <2>2. k \in 0..n /\ ~LevelOK(p, g[k])
    BY <2>1
  <2>3. k # 0
    <3> SUFFICES ASSUME k = 0 PROVE FALSE
      OBVIOUS
    <3>1. g[k] = {p}
      BY <1>2, <1>4, <2>2 DEF Levels
    <3> QED BY <3>1, <2>2 DEF LevelOK
  <2>4. k - 1 \in 0..n /\ LevelOK(p, g[k - 1])
    <3>1. k - 1 \in 0..n /\ ~(k <= k - 1)
      BY <1>4, <2>2, <2>3
    <3>2. k - 1 \notin Bad
      <4> HIDE DEF Bad
      <4> QED BY <2>1, <3>1
    <3> QED BY <3>1, <3>2
  <2>5. g[k] = g[k - 1] \cup {q \in PProc : par[q] \in g[k - 1]}
    BY <1>2, <2>2, <2>3 DEF Levels
  <2>6. \A q \in PProc : par[q] \in g[k - 1] => par[q] # None
    BY <1>1, <2>4 DEF LevelOK
  <2>7. Leaf(p) => g[k] = {p}
    BY <2>4, <2>5 DEF LevelOK, Leaf
  <2> QED BY <2>2, <2>4, <2>5, <2>6, <2>7 DEF LevelOK
<1> QED BY <1>3, <1>4, <1>5

LEMMA UsedFinite ==
    ASSUME NEW pf
    PROVE  IsFiniteSet(Used(pf)) /\ Cardinality(Used(pf)) \in Nat
<1>1. Used(pf) \in SUBSET FileId
  BY DEF Used
<1>2. IsFiniteSet(Used(pf))
  BY <1>1, ProcfsAssumption, FS_Subset
<1> QED BY <1>2, FS_CardinalityType

\* Somebody holds something exactly if there are uses.
LEMMA UsesAre ==
    ASSUME NEW fr, NEW pf
    PROVE  /\ Uses(fr, pf) \in Nat
           /\ Uses(fr, pf) > 0 <=> (fr # {} \/ \E f \in FileId : pf[f].held # {})
<1>1. IsFiniteSet(Used(pf)) /\ Cardinality(Used(pf)) \in Nat
  BY UsedFinite
<1>2. Cardinality(Used(pf)) = 0 <=> Used(pf) = {}
  BY <1>1, FS_EmptySet
<1>3. Used(pf) = {} <=> ~ \E f \in FileId : pf[f].held # {}
  BY DEF Used
<1> QED BY <1>1, <1>2, <1>3 DEF Uses

\* vfs_backend_refdown and procfs_cleanup, to u uses.
LEMMA CleanupIs ==
    ASSUME Counted, owner \in PProc \cup {None}, use \in Nat, NEW u \in 0..use, procfs_cleanup(u)
    PROVE  /\ use' = u /\ owner' \in {owner, None} /\ refcount' = (IF owner' = None THEN 0 ELSE 1)
           /\ owner' # None <=> u > 0
           /\ u > 0 => owner' = owner
<1>1. use' = u /\ IF use > 0 /\ u = 0 THEN owner' = None /\ refcount' = refcount - 1 ELSE UNCHANGED <<owner, refcount>>
  BY DEF procfs_cleanup
<1>2. refcount = (IF owner = None THEN 0 ELSE 1) /\ (owner # None <=> use > 0)
  BY DEF Counted
<1> QED BY <1>1, <1>2

\* If the owner has no children, whoever else holds something has escaped.
LEMMA HolderEscaped ==
    ASSUME ProcfsInv, owner # None, Leaf(owner), NEW q \in PProc, q # owner,
           q \in front \/ \E f \in FileId : q \in pfile[f].held
    PROVE  Why = "escaped"
<1>1. owner \in PProc
  BY DEF ProcfsInv, ProcfsVarTypes
<1>2. Below(owner) = {owner}
  BY <1>1, BelowIs DEF LevelOK
<1>3. q \in front \cup UNION {pfile[f].held : f \in FileId}
  OBVIOUS
<1>4. Escaped
  BY <1>2, <1>3 DEF Escaped
<1> QED BY <1>4 DEF Why

\* The parts of the invariant that are about the tree and its numbers are kept
\* when a process without children, and not alive after the step, is taken out.
LEMMA RemovedKeeps ==
    ASSUME ProcfsVarTypes, Numbered, NEW p \in PProc, p # Boot, Removed(p)
    PROVE  /\ par' \in [PProc -> PProc \cup {None}] /\ gid' \in [PProc -> 0..MaxGid]
           /\ \A q \in PProc : q # p => par'[q] = par[q] /\ gid'[q] = gid[q]
           /\ par'[p] = None /\ gid'[p] = 0
BY ProcfsAssumption DEF ProcfsVarTypes, Removed

\* Fewer uses after a death.
LEMMA DeathUses ==
    ASSUME ProcfsInv, NEW p \in PProc
    PROVE  /\ Freed({p}) \in Nat
           /\ Uses(front \ {p}, without({p})) = use - Freed({p})
           /\ Uses(front \ {p}, without({p})) \in Nat
           /\ \A f \in FileId : /\ without({p})[f].held = pfile[f].held \ {p}
                                /\ without({p})[f].held = {} <=> without({p})[f] = Unheld
                                /\ without({p})[f] = Unheld \/ (without({p})[f].type = pfile[f].type /\ without({p})[f].gid = pfile[f].gid)
           /\ without({p}) \in [FileId -> [type : {"none", "root", "intr", "intrdown"}, gid : 0..MaxGid, held : SUBSET PProc]]
<1> DEFINE pf == without({p})
           PF == [type : {"none", "root", "intr", "intrdown"}, gid : 0..MaxGid, held : SUBSET PProc]
<1>0. pfile \in [FileId -> PF] /\ use = Uses(front, pfile) /\ front \in SUBSET PProc /\ MaxGid \in Nat
  BY ProcfsAssumption DEF ProcfsInv, ProcfsVarTypes, Counted
<1>1. ASSUME NEW f \in FileId
      PROVE  /\ pf[f] \in PF /\ pf[f].held = pfile[f].held \ {p}
             /\ pf[f].held = {} <=> pf[f] = Unheld
             /\ pf[f] = Unheld \/ (pf[f].type = pfile[f].type /\ pf[f].gid = pfile[f].gid)
  <2>1. pf[f] = IF pfile[f].held \subseteq {p} THEN Unheld ELSE [pfile[f] EXCEPT !.held = @ \ {p}]
    BY DEF without
  <2>2. pfile[f] \in PF
    BY <1>0
  <2>3. Unheld \in PF /\ Unheld.held = {}
    BY <1>0 DEF Unheld
  <2>4. CASE pfile[f].held \subseteq {p}
    BY <2>1, <2>3, <2>4
  <2>5. CASE ~(pfile[f].held \subseteq {p})
    <3>1. pf[f] = [pfile[f] EXCEPT !.held = @ \ {p}]
      BY <2>1, <2>5
    <3>2. pf[f] \in PF /\ pf[f].held = pfile[f].held \ {p} /\ pf[f].type = pfile[f].type /\ pf[f].gid = pfile[f].gid
      BY <2>2, <3>1
    <3>3. pf[f].held # {}
      BY <2>5, <3>2
    <3> QED BY <2>3, <3>2, <3>3
  <2> QED BY <2>4, <2>5
<1>2. pf \in [FileId -> PF]
  <2>1. pf = [f \in FileId |-> pf[f]]
    BY DEF without
  <2> HIDE DEF pf, PF
  <2> QED BY <1>1, <2>1
<1> DEFINE F == {f \in FileId : pfile[f].held # {} /\ pfile[f].held \subseteq {p}}
<1>3. Used(pf) = Used(pfile) \ F /\ Used(pfile) \cap F = F
  <2> HIDE DEF pf
  <2> QED BY <1>1 DEF Used
<1>4. IsFiniteSet(Used(pfile)) /\ Cardinality(Used(pfile)) \in Nat
  BY UsedFinite
<1>5. IsFiniteSet(F) /\ Cardinality(F) \in Nat /\ Cardinality(Used(pf)) = Cardinality(Used(pfile)) - Cardinality(F)
  <2>1. IsFiniteSet(F)
    <3>1. F \in SUBSET FileId
      OBVIOUS
    <3> QED BY <3>1, ProcfsAssumption, FS_Subset
  <2>2. Cardinality(Used(pfile) \ F) = Cardinality(Used(pfile)) - Cardinality(Used(pfile) \cap F)
    BY <1>4, FS_Difference
  <2> QED BY <1>3, <2>1, <2>2, FS_CardinalityType
<1>6. Freed({p}) = (IF front # {} /\ front \subseteq {p} THEN 1 ELSE 0) + Cardinality(F)
  BY DEF Freed
<1>7. (IF front \ {p} = {} THEN 0 ELSE 1) = (IF front = {} THEN 0 ELSE 1) - (IF front # {} /\ front \subseteq {p} THEN 1 ELSE 0)
  OBVIOUS
<1>8. Uses(front \ {p}, pf) = use - Freed({p})
  <2> HIDE DEF F, pf
  <2>1. Uses(front, pfile) = (IF front = {} THEN 0 ELSE 1) + Cardinality(Used(pfile))
    BY DEF Uses
  <2>2. Uses(front \ {p}, pf) = (IF front \ {p} = {} THEN 0 ELSE 1) + Cardinality(Used(pf))
    BY DEF Uses
  <2> QED BY <1>0, <1>4, <1>5, <1>6, <1>7, <2>1, <2>2
<1>9. Freed({p}) \in Nat
  <2> HIDE DEF F
  <2> QED BY <1>5, <1>6
<1> HIDE DEF pf, F
<1>10. Uses(front \ {p}, pf) \in Nat
  BY UsesAre
<1>11. pf = without({p})
  BY DEF pf
<1> QED BY <1>1, <1>2, <1>8, <1>9, <1>10, <1>11

\* proc_kill, if the assertion in proc_tryreap fails only for a known reason.
LEMMA DieKeeps ==
    ASSUME ProcfsInv, fault = "none", NEW p \in PProc, NEW waited, NEW busy \in {0, 1}, NEW why, why # "none",
           Die(p, waited, busy, why),
           p = owner /\ Leaf(p) /\ use - Freed({p}) + busy > 0 => why # "other"
    PROVE  ProcfsInv'
<1>1. PICK u : u = use - Freed({p})
  OBVIOUS
<1>2. /\ alive[p] /\ p # Boot /\ alive' = [alive EXCEPT ![p] = FALSE]
      /\ front' = front \ {p} /\ pfile' = without({p}) /\ procfs_cleanup(u) /\ nextgid' = nextgid
      /\ IF waited /\ Leaf(p) THEN tryreap_assert(p, u + busy, why) /\ Removed(p) ELSE UNCHANGED <<par, gid, fault>>
  BY <1>1 DEF Die
<1>3. ProcfsVarTypes /\ Numbered /\ Held /\ Counted /\ OwnerThere
  BY DEF ProcfsInv
<1>4. /\ Freed({p}) \in Nat /\ Uses(front', pfile') = u /\ u \in Nat
      /\ pfile' \in [FileId -> [type : {"none", "root", "intr", "intrdown"}, gid : 0..MaxGid, held : SUBSET PProc]]
      /\ \A f \in FileId : /\ pfile'[f].held = pfile[f].held \ {p}
                           /\ pfile'[f].held = {} <=> pfile'[f] = Unheld
                           /\ pfile'[f] = Unheld \/ (pfile'[f].type = pfile[f].type /\ pfile'[f].gid = pfile[f].gid)
  <2>1. front' = front \ {p} /\ pfile' = without({p})
    BY <1>2
  <2>2. /\ Freed({p}) \in Nat
        /\ Uses(front \ {p}, without({p})) = use - Freed({p})
        /\ Uses(front \ {p}, without({p})) \in Nat
        /\ without({p}) \in [FileId -> [type : {"none", "root", "intr", "intrdown"}, gid : 0..MaxGid, held : SUBSET PProc]]
    BY DeathUses
  <2>3. \A f \in FileId : /\ without({p})[f].held = pfile[f].held \ {p}
                          /\ without({p})[f].held = {} <=> without({p})[f] = Unheld
                          /\ without({p})[f] = Unheld \/ (without({p})[f].type = pfile[f].type /\ without({p})[f].gid = pfile[f].gid)
    BY DeathUses
  <2>4. Freed({p}) \in Nat /\ Uses(front', pfile') = u /\ u \in Nat
    BY <1>1, <2>1, <2>2
  <2> QED BY <2>1, <2>2, <2>3, <2>4
<1>5. use \in Nat /\ u \in 0..use
  <2>1. use \in Nat
    BY <1>3, UsesAre DEF Counted
  <2> QED BY <2>1, <1>1, <1>4
<1>6. owner \in PProc \cup {None}
  BY <1>3 DEF ProcfsVarTypes
<1>7. /\ use' = u /\ owner' \in {owner, None} /\ refcount' = (IF owner' = None THEN 0 ELSE 1)
      /\ owner' # None <=> u > 0
  BY <1>2, <1>3, <1>5, <1>6, CleanupIs
<1>8. Counted'
  <2>1. use' = Uses(front', pfile')
    BY <1>4, <1>7
  <2> QED BY <1>7, <2>1 DEF Counted
<1>9. \/ UNCHANGED <<par, gid, fault>>
      \/ /\ Leaf(p) /\ Removed(p)
         /\ fault' = IF fault = "none" /\ p = owner /\ u + busy > 0 THEN why ELSE fault
  BY <1>2 DEF tryreap_assert
<1>10. /\ par' \in [PProc -> PProc \cup {None}] /\ gid' \in [PProc -> 0..MaxGid]
       /\ \A q \in PProc : q # p => par'[q] = par[q] /\ gid'[q] = gid[q]
       /\ (par'[p] = None /\ gid'[p] = 0) \/ (par'[p] = par[p] /\ gid'[p] = gid[p])
  <2>1. CASE UNCHANGED <<par, gid, fault>>
    BY <2>1, <1>3 DEF ProcfsVarTypes
  <2>2. CASE Removed(p)
    BY <2>2, <1>2, <1>3, RemovedKeeps
  <2> QED BY <1>9, <2>1, <2>2
<1>11. alive' \in [PProc -> BOOLEAN] /\ ~alive'[p] /\ \A q \in PProc : q # p => alive'[q] = alive[q]
  BY <1>2, <1>3 DEF ProcfsVarTypes
<1>12. ProcfsVarTypes'
  BY <1>2, <1>3, <1>4, <1>6, <1>7, <1>10, <1>11 DEF ProcfsVarTypes
<1>13. Numbered'
  <2>1. alive'[Boot]
    BY <1>2, <1>3, <1>11, ProcfsAssumption DEF Numbered
  <2>2. ASSUME NEW q \in PProc PROVE (InTree(q)' <=> gid'[q] # 0) /\ gid'[q] < nextgid'
    <3>1. (InTree(q) <=> gid[q] # 0) /\ gid[q] < nextgid /\ gid[q] \in Nat /\ nextgid \in Nat
      BY <1>3 DEF Numbered, ProcfsVarTypes
    <3>2. CASE q # p
      BY <3>1, <3>2, <1>2, <1>10 DEF InTree
    <3>3. CASE q = p
      <4>3. InTree(p) /\ gid[p] # 0
        BY <1>2, <1>3, <3>1, <3>3 DEF Held
      <4>4. InTree(p)' <=> par'[p] # None
        BY <1>2 DEF InTree
      <4>5. par[p] # None
        BY <1>2, <4>3 DEF InTree
      <4> QED BY <3>1, <3>3, <1>2, <1>10, <4>3, <4>4, <4>5
    <3> QED BY <3>2, <3>3
  <2>3. ASSUME NEW q \in PProc, NEW r \in PProc, gid'[q] = gid'[r], gid'[q] # 0 PROVE q = r
    BY <2>3, <1>3, <1>10 DEF Numbered
  <2>4. ASSUME NEW f \in FileId, pfile'[f].type \in {"intr", "intrdown"} PROVE pfile'[f].gid # 0
    <3>1. pfile'[f] # Unheld
      BY <2>4 DEF Unheld
    <3> QED BY <3>1, <2>4, <1>3, <1>4 DEF Numbered
  <2> QED BY <2>1, <2>2, <2>3, <2>4 DEF Numbered
<1>14. Held'
  <2>1. ASSUME NEW q \in PProc, alive'[q] PROVE InTree(q)'
    <3>1. q # p /\ alive[q]
      BY <2>1, <1>11
    <3> QED BY <3>1, <1>3, <1>10 DEF Held, InTree
  <2>2. ASSUME NEW q \in front' PROVE alive'[q]
    <3>1. q \in front /\ q # p /\ q \in PProc
      BY <1>2, <1>3 DEF ProcfsVarTypes
    <3> QED BY <3>1, <1>3, <1>11 DEF Held
  <2>3. ASSUME NEW f \in FileId, NEW q \in pfile'[f].held PROVE alive'[q]
    <3>1. q \in pfile[f].held /\ q # p /\ q \in PProc
      BY <1>3, <1>4 DEF ProcfsVarTypes
    <3> QED BY <3>1, <1>3, <1>11 DEF Held
  <2>4. \A f \in FileId : pfile'[f].held = {} <=> pfile'[f] = Unheld
    BY <1>4
  <2> QED BY <2>1, <2>2, <2>3, <2>4 DEF Held, Unheld
<1>15. OwnerThere'
  <2>1. CASE UNCHANGED <<par, gid, fault>>
    <3>1. owner' # None => InTree(owner)'
      BY <2>1, <1>3, <1>7 DEF OwnerThere, InTree
    <3> QED BY <2>1, <3>1, <1>3 DEF OwnerThere
  <2>2. CASE Leaf(p) /\ Removed(p) /\ fault' = IF fault = "none" /\ p = owner /\ u + busy > 0 THEN why ELSE fault
    <3>1. fault' # "other"
      BY <2>2, <1>1
    <3>2. ASSUME fault' = "none", owner' # None PROVE InTree(owner)'
      <4>1. owner' = owner /\ u > 0 /\ owner \in PProc
        BY <3>2, <1>6, <1>7
      <4>2. p # owner
        <5>1. u + busy > 0
          BY <4>1, <1>4
        <5> QED BY <5>1, <2>2, <3>2
      <4>3. InTree(owner)
        BY <4>1, <3>2, <1>3 DEF OwnerThere
      <4> QED BY <4>1, <4>2, <4>3, <1>10 DEF InTree
    <3> QED BY <3>1, <3>2 DEF OwnerThere
  <2> QED BY <1>9, <2>1, <2>2
<1> QED BY <1>8, <1>12, <1>13, <1>14, <1>15 DEF ProcfsInv

LEMMA WhyIs == Why \in {"escaped", "other"}
BY DEF Why

\* Someone who is left after a death.
LEMMA SomeoneLeft ==
    ASSUME ProcfsInv, NEW p \in PProc, use - Freed({p}) > 0
    PROVE  \E q \in PProc : q # p /\ (q \in front \/ \E f \in FileId : q \in pfile[f].held)
<1>1. /\ Uses(front \ {p}, without({p})) > 0
      /\ \A f \in FileId : without({p})[f].held = pfile[f].held \ {p}
  BY DeathUses
<1>2. front \ {p} # {} \/ \E f \in FileId : without({p})[f].held # {}
  BY <1>1, UsesAre
<1>3. front \in SUBSET PProc /\ \A f \in FileId : pfile[f].held \in SUBSET PProc
  BY DEF ProcfsInv, ProcfsVarTypes
<1> QED BY <1>1, <1>2, <1>3

LEMMA ExitKeeps ==
    ASSUME ProcfsInv, fault = "none", NEW p \in PProc, NEW w, ExitProc(p, w)
    PROVE  ProcfsInv'
<1>1. Die(p, w, 0, Why)
  BY DEF ExitProc
<1>2. ASSUME p = owner, Leaf(p), use - Freed({p}) + 0 > 0 PROVE Why # "other"
  <2>1. use - Freed({p}) > 0
    <3>1. use \in Nat /\ Freed({p}) \in Nat
      BY DeathUses, UsesAre DEF ProcfsInv, Counted
    <3> QED BY <1>2, <3>1
  <2>2. PICK q \in PProc : q # p /\ (q \in front \/ \E f \in FileId : q \in pfile[f].held)
    BY <2>1, SomeoneLeft
  <2>3. owner # None
    BY <1>2, ProcfsAssumption
  <2>4. Why = "escaped"
    BY <1>2, <2>2, <2>3, HolderEscaped
  <2> QED BY <2>4
<1> QED BY <1>1, <1>2, WhyIs, DieKeeps

LEMMA WriteKillKeeps ==
    ASSUME ProcfsInv, fault = "none", NEW p \in PProc, NEW f \in FileId, NEW w, WriteKill(p, f, w)
    PROVE  ProcfsInv'
<1>1. p \in pfile[f].held
  BY DEF WriteKill
<1>2. PICK q \in findgid(pfile[f].gid) : Die(q, w, 1, IF q = p THEN "self" ELSE Why)
  BY DEF WriteKill
<1>3. q \in PProc
  <2>1. owner # None
    <3>1. Uses(front, pfile) > 0
      BY <1>1, UsesAre
    <3> QED BY <3>1 DEF ProcfsInv, Counted
  <2>2. owner \in PProc
    BY <2>1 DEF ProcfsInv, ProcfsVarTypes
  <2> QED BY <1>2, <2>2, BelowIs DEF findgid, LevelOK
<1>4. PICK why : why = IF q = p THEN "self" ELSE Why
  OBVIOUS
<1>5. why # "none"
  BY <1>4, WhyIs
<1>6. ASSUME q = owner, Leaf(q) PROVE why # "other"
  <2>1. CASE q = p
    BY <1>4, <2>1
  <2>2. CASE q # p
    <3>1. owner # None
      BY <1>3, <1>6, ProcfsAssumption
    <3>2. Why = "escaped"
      BY <1>1, <1>6, <2>2, <3>1, HolderEscaped
    <3> QED BY <1>4, <2>2, <3>2
  <2> QED BY <2>1, <2>2
<1> QED BY <1>2, <1>3, <1>4, <1>5, <1>6, DieKeeps

LEMMA ReapKeeps ==
    ASSUME ProcfsInv, fault = "none", NEW p \in PProc, Reap(p)
    PROVE  ProcfsInv'
<1>1. /\ InTree(p) /\ ~alive[p] /\ Leaf(p) /\ Removed(p)
      /\ fault' = IF fault = "none" /\ p = owner /\ use > 0 THEN Why ELSE fault
      /\ UNCHANGED <<alive, nextgid, owner, refcount, use, front, pfile>>
  BY DEF Reap, tryreap_assert
<1>2. ProcfsVarTypes /\ Numbered /\ Held /\ Counted /\ OwnerThere
  BY DEF ProcfsInv
<1>3. p # Boot
  BY <1>1, <1>2 DEF Numbered
<1>4. /\ par' \in [PProc -> PProc \cup {None}] /\ gid' \in [PProc -> 0..MaxGid]
      /\ \A q \in PProc : q # p => par'[q] = par[q] /\ gid'[q] = gid[q]
      /\ par'[p] = None /\ gid'[p] = 0
  BY <1>1, <1>2, <1>3, RemovedKeeps
<1>5. ProcfsVarTypes' /\ Counted'
  <2>1. Uses(front', pfile') = Uses(front, pfile)
    BY <1>1
  <2> QED BY <1>1, <1>2, <1>4, <2>1 DEF ProcfsVarTypes, Counted
<1>6. Numbered'
  <2>2. ASSUME NEW q \in PProc PROVE (InTree(q)' <=> gid'[q] # 0) /\ gid'[q] < nextgid'
    <3>1. (InTree(q) <=> gid[q] # 0) /\ gid[q] < nextgid /\ gid[q] \in Nat /\ nextgid \in Nat
      BY <1>2 DEF Numbered, ProcfsVarTypes
    <3> QED BY <3>1, <1>1, <1>3, <1>4 DEF InTree
  <2>3. ASSUME NEW q \in PProc, NEW r \in PProc, gid'[q] = gid'[r], gid'[q] # 0 PROVE q = r
    BY <2>3, <1>2, <1>4 DEF Numbered
  <2> QED BY <1>1, <1>2, <2>2, <2>3 DEF Numbered
<1>7. Held'
  <2>1. ASSUME NEW q \in PProc, alive'[q] PROVE InTree(q)'
    <3>1. q # p /\ alive[q]
      BY <2>1, <1>1
    <3> QED BY <3>1, <1>2, <1>4 DEF Held, InTree
  <2> QED BY <1>1, <1>2, <2>1 DEF Held, Unheld
<1>8. OwnerThere'
  <2>1. CASE p = owner /\ use > 0
    <3>1. owner # None
      BY <2>1, ProcfsAssumption
    <3>2. front # {} \/ \E f \in FileId : pfile[f].held # {}
      BY <2>1, <1>2, UsesAre DEF Counted
    <3>3. PICK q : q \in front \/ \E f \in FileId : q \in pfile[f].held
      BY <3>2
    <3>4. q \in PProc /\ alive[q]
      BY <3>3, <1>2 DEF Held, ProcfsVarTypes
    <3>5. Why = "escaped"
      BY <1>1, <2>1, <3>1, <3>3, <3>4, HolderEscaped
    <3> QED BY <1>1, <2>1, <3>5 DEF OwnerThere
  <2>2. CASE ~(p = owner /\ use > 0)
    <3>1. owner' # None => owner # p /\ owner \in PProc /\ owner' = owner
      BY <1>1, <1>2, <2>2 DEF Counted, ProcfsVarTypes
    <3>2. fault' = fault
      BY <1>1, <2>2
    <3>3. owner' # None => InTree(owner)'
      BY <3>1, <3>2, <1>2, <1>4 DEF OwnerThere, InTree
    <3> QED BY <3>2, <3>3, <1>2 DEF OwnerThere
  <2> QED BY <2>1, <2>2
<1> QED BY <1>5, <1>6, <1>7, <1>8 DEF ProcfsInv

PFile == [type : {"none", "root", "intr", "intrdown"}, gid : 0..MaxGid, held : SUBSET PProc]

\* What is to be shown of a step that leaves the tree alone.
LEMMA TreeKept ==
    ASSUME ProcfsInv, UNCHANGED <<alive, par, gid, nextgid, fault>>,
           front' \in SUBSET PProc, \A p \in front' : alive[p],
           pfile' \in [FileId -> PFile],
           \A f \in FileId : /\ pfile'[f].held = {} <=> pfile'[f] = Unheld
                             /\ \A p \in pfile'[f].held : alive[p]
                             /\ pfile'[f].type \in {"intr", "intrdown"} => pfile'[f].gid # 0,
           owner' \in PProc \cup {None}, owner' # None => InTree(owner'),
           Counted'
    PROVE  ProcfsInv'
<1>1. ProcfsVarTypes' /\ Numbered' /\ Held'
  BY DEF ProcfsInv, ProcfsVarTypes, Numbered, Held, InTree, PFile, Unheld
<1>2. OwnerThere'
  <2>1. owner' # None => InTree(owner)'
    BY DEF InTree
  <2> QED BY <2>1 DEF ProcfsInv, OwnerThere
<1> QED BY <1>1, <1>2 DEF ProcfsInv

LEMMA UsesMore ==
    ASSUME NEW fr, NEW pf, NEW pf2, NEW f \in FileId, Used(pf2) = Used(pf) \cup {f}, f \notin Used(pf)
    PROVE  Uses(fr, pf2) = Uses(fr, pf) + 1
<1>1. IsFiniteSet(Used(pf)) /\ Cardinality(Used(pf)) \in Nat
  BY UsedFinite
<1>2. Cardinality(Used(pf2)) = Cardinality(Used(pf)) + 1
  BY <1>1, FS_AddElement
<1> QED BY <1>1, <1>2 DEF Uses

LEMMA UsesLess ==
    ASSUME NEW fr, NEW pf, NEW pf2, NEW f \in Used(pf), Used(pf2) = Used(pf) \ {f}
    PROVE  Uses(fr, pf2) = Uses(fr, pf) - 1
<1>1. IsFiniteSet(Used(pf)) /\ Cardinality(Used(pf)) \in Nat
  BY UsedFinite
<1>2. Cardinality(Used(pf2)) = Cardinality(Used(pf)) - 1
  BY <1>1, FS_RemoveElement
<1> QED BY <1>1, <1>2 DEF Uses

LEMMA InvFacts ==
    ASSUME ProcfsInv
    PROVE  /\ alive \in [PProc -> BOOLEAN] /\ owner \in PProc \cup {None} /\ front \in SUBSET PProc
           /\ pfile \in [FileId -> PFile] /\ gid \in [PProc -> 0..MaxGid]
           /\ \A p \in front : alive[p]
           /\ \A f \in FileId : /\ pfile[f].held = {} <=> pfile[f] = Unheld
                                /\ \A p \in pfile[f].held : alive[p]
                                /\ pfile[f].type \in {"intr", "intrdown"} => pfile[f].gid # 0
           /\ use \in Nat /\ use = Uses(front, pfile) /\ (owner # None <=> use > 0) /\ Counted
           /\ fault = "none" /\ owner # None => InTree(owner)
<1>1. use \in Nat
  BY UsesAre DEF ProcfsInv, Counted
<1> QED BY <1>1 DEF ProcfsInv, ProcfsVarTypes, Numbered, Held, Counted, OwnerThere, PFile

LEMMA BackendKeeps ==
    ASSUME ProcfsInv, fault = "none", NEW p \in PProc, procfs_backend(p)
    PROVE  ProcfsInv'
<1>1. /\ alive[p] /\ owner = None /\ owner' = p /\ refcount' = 1 /\ use' = 1 /\ front' = {p}
      /\ UNCHANGED <<alive, par, gid, nextgid, pfile, fault>>
  BY DEF procfs_backend, tree_vars
<1>2. front = {} /\ \A f \in FileId : pfile[f].held = {}
  <2>1. use = 0
    BY <1>1, InvFacts
  <2> QED BY <2>1, InvFacts, UsesAre
<1>3. Uses({p}, pfile) = 1
  <2>1. Used(pfile) = {}
    BY <1>2 DEF Used
  <2> QED BY <2>1, FS_EmptySet DEF Uses
<1>4. Counted'
  BY <1>1, <1>3, ProcfsAssumption DEF Counted
<1>5. InTree(p)
  BY <1>1 DEF ProcfsInv, Held
<1> QED BY <1>1, <1>4, <1>5, InvFacts, TreeKept

LEMMA OpenKeeps ==
    ASSUME ProcfsInv, fault = "none", NEW p \in PProc, NEW f \in FileId, NEW type \in {"root", "intr", "intrdown"},
           NEW q \in PProc, openpath(p, f, type, q)
    PROVE  ProcfsInv'
<1>1. PICK x : x = [type |-> type, gid |-> IF type = "root" THEN 0 ELSE gid[q], held |-> {p}]
  OBVIOUS
<1>2. /\ p \in front /\ pfile[f] = Unheld /\ q \in Below(owner)
      /\ pfile' = [pfile EXCEPT ![f] = x] /\ use' = use + 1
      /\ UNCHANGED <<alive, par, gid, nextgid, owner, refcount, front, fault>>
  BY <1>1 DEF openpath, tree_vars
<1>3. owner # None /\ owner \in PProc
  BY <1>2, InvFacts, UsesAre
<1>4. gid[q] # 0
  <2>1. q = owner \/ par[q] # None
    BY <1>2, <1>3, BelowIs DEF LevelOK
  <2>2. InTree(q)
    BY <2>1, <1>3, InvFacts DEF InTree
  <2> QED BY <2>2 DEF ProcfsInv, Numbered
<1>5. x \in PFile /\ x.held = {p} /\ x # Unheld /\ (x.type \in {"intr", "intrdown"} => x.gid # 0)
  <2>1. gid[q] \in 0..MaxGid /\ 0 \in 0..MaxGid
    BY InvFacts, ProcfsAssumption
  <2>2. x \in PFile /\ x.held = {p} /\ x.type = type /\ x.gid = IF type = "root" THEN 0 ELSE gid[q]
    BY <1>1, <2>1 DEF PFile
  <2>3. Unheld.held = {}
    BY DEF Unheld
  <2> QED BY <1>4, <2>2, <2>3
<1>6. /\ pfile' \in [FileId -> PFile] /\ pfile'[f] = x
      /\ \A g \in FileId : g # f => pfile'[g] = pfile[g]
  BY <1>2, <1>5, InvFacts
<1>7. alive[p]
  BY <1>2, InvFacts
<1>8. ASSUME NEW g \in FileId
      PROVE  /\ pfile'[g].held = {} <=> pfile'[g] = Unheld
             /\ \A r \in pfile'[g].held : alive[r]
             /\ pfile'[g].type \in {"intr", "intrdown"} => pfile'[g].gid # 0
  <2>1. CASE g = f
    BY <2>1, <1>5, <1>6, <1>7
  <2>2. CASE g # f
    BY <2>2, <1>6, InvFacts
  <2> QED BY <2>1, <2>2
<1>9. Uses(front, pfile') = Uses(front, pfile) + 1
  <2>1. pfile[f].held = {}
    BY <1>2 DEF Unheld
  <2>2. Used(pfile') = Used(pfile) \cup {f} /\ f \notin Used(pfile)
    BY <1>5, <1>6, <2>1 DEF Used
  <2> QED BY <2>2, UsesMore
<1>10. Counted'
  <2>1. use \in Nat /\ use = Uses(front, pfile) /\ refcount = (IF owner = None THEN 0 ELSE 1)
    BY InvFacts DEF Counted
  <2>2. front' = front /\ owner' = owner /\ refcount' = refcount /\ use' = use + 1
    BY <1>2
  <2> QED BY <2>1, <2>2, <1>3, <1>9 DEF Counted
<1> QED BY <1>2, <1>3, <1>6, <1>8, <1>10, InvFacts, TreeKept

LEMMA DelegateKeeps ==
    ASSUME ProcfsInv, fault = "none", NEW p \in PProc, NEW f \in FileId, NEW q \in PProc, Delegate(p, f, q)
    PROVE  ProcfsInv'
<1>1. /\ p \in pfile[f].held /\ alive[q]
      /\ pfile' = [pfile EXCEPT ![f].held = (@ \ {p}) \cup {q}]
      /\ UNCHANGED <<alive, par, gid, nextgid, owner, refcount, use, front, fault>>
  BY DEF Delegate, tree_vars
<1>2. PICK x : x = [pfile[f] EXCEPT !.held = (pfile[f].held \ {p}) \cup {q}]
  OBVIOUS
<1>3. pfile[f] \in PFile
  BY InvFacts
<1>4. /\ x \in PFile /\ x.held = (pfile[f].held \ {p}) \cup {q} /\ x.type = pfile[f].type /\ x.gid = pfile[f].gid
      /\ x.held # {} /\ x # Unheld
  <2>1. x \in PFile /\ x.held = (pfile[f].held \ {p}) \cup {q} /\ x.type = pfile[f].type /\ x.gid = pfile[f].gid
    BY <1>2, <1>3 DEF PFile
  <2>2. Unheld.held = {}
    BY DEF Unheld
  <2> QED BY <2>1, <2>2
<1>5. pfile' = [pfile EXCEPT ![f] = x]
  BY <1>1, <1>2, InvFacts
<1>6. /\ pfile' \in [FileId -> PFile] /\ pfile'[f] = x
      /\ \A g \in FileId : g # f => pfile'[g] = pfile[g]
  BY <1>4, <1>5, InvFacts
<1>7. ASSUME NEW g \in FileId
      PROVE  /\ pfile'[g].held = {} <=> pfile'[g] = Unheld
             /\ \A r \in pfile'[g].held : alive[r]
             /\ pfile'[g].type \in {"intr", "intrdown"} => pfile'[g].gid # 0
  <2>1. CASE g = f
    BY <2>1, <1>1, <1>4, <1>6, InvFacts
  <2>2. CASE g # f
    BY <2>2, <1>6, InvFacts
  <2> QED BY <2>1, <2>2
<1>8. Uses(front', pfile') = Uses(front, pfile)
  <2>1. Used(pfile') = Used(pfile)
    BY <1>1, <1>4, <1>6 DEF Used
  <2> QED BY <2>1, <1>1 DEF Uses
<1>9. Counted'
  BY <1>1, <1>8, InvFacts DEF Counted
<1> QED BY <1>1, <1>6, <1>7, <1>9, InvFacts, TreeKept

LEMMA CloseFileKeeps ==
    ASSUME ProcfsInv, fault = "none", NEW p \in PProc, NEW f \in FileId, CloseFile(p, f)
    PROVE  ProcfsInv'
<1>1. PICK held : held = pfile[f].held \ {p}
  OBVIOUS
<1>2. PICK x : x = IF held = {} THEN Unheld ELSE [pfile[f] EXCEPT !.held = held]
  OBVIOUS
<1>3. PICK u : u = IF held = {} THEN use - 1 ELSE use
  OBVIOUS
<1>4. /\ p \in pfile[f].held /\ pfile' = [pfile EXCEPT ![f] = x] /\ procfs_cleanup(u)
      /\ UNCHANGED <<alive, par, gid, nextgid, front, fault>>
  BY <1>1, <1>2, <1>3, InvFacts DEF CloseFile, tree_vars
<1>5. /\ x \in PFile /\ x.held = held /\ (x.held = {} <=> x = Unheld)
      /\ (x = Unheld \/ (x.type = pfile[f].type /\ x.gid = pfile[f].gid))
  <2>1. pfile[f] \in PFile /\ held \in SUBSET PProc /\ 0 \in 0..MaxGid
    BY <1>1, InvFacts, ProcfsAssumption DEF PFile
  <2>2. Unheld \in PFile /\ Unheld.held = {}
    BY <2>1 DEF Unheld, PFile
  <2>3. CASE held = {}
    BY <1>2, <2>2, <2>3
  <2>4. CASE held # {}
    <3>1. x \in PFile /\ x.held = held /\ x.type = pfile[f].type /\ x.gid = pfile[f].gid
      BY <1>2, <2>1, <2>4 DEF PFile
    <3> QED BY <3>1, <2>2, <2>4
  <2> QED BY <2>3, <2>4
<1>6. /\ pfile' \in [FileId -> PFile] /\ pfile'[f] = x
      /\ \A g \in FileId : g # f => pfile'[g] = pfile[g]
  BY <1>4, <1>5, InvFacts
<1>7. ASSUME NEW g \in FileId
      PROVE  /\ pfile'[g].held = {} <=> pfile'[g] = Unheld
             /\ \A r \in pfile'[g].held : alive[r]
             /\ pfile'[g].type \in {"intr", "intrdown"} => pfile'[g].gid # 0
  <2>1. CASE g = f
    <3>1. Unheld.type = "none"
      BY DEF Unheld
    <3> QED BY <2>1, <3>1, <1>1, <1>5, <1>6, InvFacts
  <2>2. CASE g # f
    BY <2>2, <1>6, InvFacts
  <2> QED BY <2>1, <2>2
<1>8. use \in Nat /\ u \in 0..use /\ Uses(front', pfile') = u
  <2>1. use \in Nat /\ use = Uses(front, pfile) /\ front' = front
    BY <1>4, InvFacts
  <2>2. f \in Used(pfile) /\ use > 0
    <3>1. f \in Used(pfile)
      BY <1>4 DEF Used
    <3> QED BY <3>1, <2>1, UsesAre DEF Used
  <2>3. CASE held = {}
    <3>1. Used(pfile') = Used(pfile) \ {f}
      BY <1>5, <1>6, <2>3 DEF Used
    <3>2. Uses(front, pfile') = use - 1
      BY <3>1, <2>1, <2>2, UsesLess
    <3> QED BY <3>2, <2>1, <2>2, <2>3, <1>3
  <2>4. CASE held # {}
    <3>1. Used(pfile') = Used(pfile)
      BY <1>4, <1>5, <1>6, <2>4 DEF Used
    <3>2. Uses(front, pfile') = use
      BY <3>1, <2>1 DEF Uses
    <3> QED BY <3>2, <2>1, <2>4, <1>3
  <2> QED BY <2>3, <2>4
<1>9. /\ use' = u /\ owner' \in {owner, None} /\ refcount' = (IF owner' = None THEN 0 ELSE 1)
      /\ owner' # None <=> u > 0
  BY <1>4, <1>8, InvFacts, CleanupIs
<1>10. Counted'
  <2>1. use' = Uses(front', pfile')
    BY <1>8, <1>9
  <2> QED BY <1>9, <2>1 DEF Counted
<1> QED BY <1>4, <1>6, <1>7, <1>9, <1>10, InvFacts, TreeKept

LEMMA CloseFrontKeeps ==
    ASSUME ProcfsInv, fault = "none", NEW p \in PProc, CloseFront(p)
    PROVE  ProcfsInv'
<1>1. PICK u : u = IF front = {p} THEN use - 1 ELSE use
  OBVIOUS
<1>2. /\ p \in front /\ front' = front \ {p} /\ procfs_cleanup(u)
      /\ UNCHANGED <<alive, par, gid, nextgid, pfile, fault>>
  BY <1>1 DEF CloseFront, tree_vars
<1>3. use \in Nat /\ u \in 0..use /\ Uses(front', pfile') = u
  <2>1. use \in Nat /\ use = Uses(front, pfile) /\ Cardinality(Used(pfile)) \in Nat
    BY InvFacts, UsedFinite
  <2>2. use = 1 + Cardinality(Used(pfile))
    BY <2>1, <1>2 DEF Uses
  <2>3. Uses(front', pfile') = (IF front = {p} THEN 0 ELSE 1) + Cardinality(Used(pfile))
    <3>1. front \ {p} = {} <=> front = {p}
      BY <1>2
    <3> QED BY <3>1, <1>2 DEF Uses
  <2> QED BY <1>1, <2>1, <2>2, <2>3
<1>4. /\ use' = u /\ owner' \in {owner, None} /\ refcount' = (IF owner' = None THEN 0 ELSE 1)
      /\ owner' # None <=> u > 0
  BY <1>2, <1>3, InvFacts, CleanupIs
<1>5. Counted'
  <2>1. use' = Uses(front', pfile')
    BY <1>3, <1>4
  <2> QED BY <1>4, <2>1 DEF Counted
<1> QED BY <1>2, <1>4, <1>5, InvFacts, TreeKept

LEMMA ForkKeeps ==
    ASSUME ProcfsInv, fault = "none", NEW p \in PProc, NEW q \in PProc, ForkProc(p, q)
    PROVE  ProcfsInv'
<1>1. /\ alive[p] /\ ~InTree(q) /\ nextgid <= MaxGid
      /\ alive' = [alive EXCEPT ![q] = TRUE] /\ par' = [par EXCEPT ![q] = p]
      /\ gid' = [gid EXCEPT ![q] = nextgid] /\ nextgid' = nextgid + 1
      /\ front' = IF p \in front THEN front \cup {q} ELSE front
      /\ pfile' = [f \in FileId |-> IF p \in pfile[f].held THEN [pfile[f] EXCEPT !.held = @ \cup {q}] ELSE pfile[f]]
      /\ UNCHANGED <<owner, refcount, use, fault>>
  BY DEF ForkProc
<1>2. ProcfsVarTypes /\ Numbered /\ Held /\ Counted /\ OwnerThere
  BY DEF ProcfsInv
<1>3. q # Boot /\ q # p /\ MaxGid \in Nat /\ Boot \in PProc /\ None \notin PProc
  BY <1>1, <1>2, ProcfsAssumption DEF InTree, Held
<1>4. alive' \in [PProc -> BOOLEAN] /\ alive'[q] /\ \A r \in PProc : alive[r] => alive'[r]
  BY <1>1, <1>2 DEF ProcfsVarTypes
<1>5. par' \in [PProc -> PProc \cup {None}] /\ par'[q] = p /\ \A r \in PProc : r # q => par'[r] = par[r]
  BY <1>1, <1>2 DEF ProcfsVarTypes
<1>6. nextgid \in Nat \ {0} /\ nextgid \in 0..MaxGid /\ nextgid' \in Nat
  <2>1. nextgid \in Nat /\ gid[Boot] < nextgid /\ gid[Boot] \in Nat
    BY <1>2, <1>3 DEF ProcfsVarTypes, Numbered
  <2> QED BY <2>1, <1>1, <1>3
<1>7. gid' \in [PProc -> 0..MaxGid] /\ gid'[q] = nextgid /\ \A r \in PProc : r # q => gid'[r] = gid[r]
  BY <1>1, <1>2, <1>6 DEF ProcfsVarTypes
<1>8. ASSUME NEW f \in FileId
      PROVE  /\ pfile'[f] \in PFile /\ pfile'[f].type = pfile[f].type /\ pfile'[f].gid = pfile[f].gid
             /\ pfile'[f].held = IF p \in pfile[f].held THEN pfile[f].held \cup {q} ELSE pfile[f].held
             /\ pfile'[f] = pfile[f] \/ pfile'[f].held # {}
  <2>1. pfile'[f] = IF p \in pfile[f].held THEN [pfile[f] EXCEPT !.held = @ \cup {q}] ELSE pfile[f]
    BY <1>1
  <2>2. pfile[f] \in PFile
    BY InvFacts
  <2>3. CASE p \in pfile[f].held
    BY <2>1, <2>2, <2>3 DEF PFile
  <2>4. CASE p \notin pfile[f].held
    BY <2>1, <2>2, <2>4
  <2> QED BY <2>3, <2>4
<1>9. pfile' \in [FileId -> PFile]
  <2>1. pfile' = [f \in FileId |-> pfile'[f]]
    BY <1>1
  <2> QED BY <1>8, <2>1
<1>10. front' \in SUBSET PProc /\ (front' = {} <=> front = {})
  BY <1>1, <1>2 DEF ProcfsVarTypes
<1>11. ProcfsVarTypes'
  BY <1>1, <1>2, <1>4, <1>5, <1>6, <1>7, <1>9, <1>10 DEF ProcfsVarTypes, PFile
<1>12. Numbered'
  <2>1. alive'[Boot]
    BY <1>2, <1>3, <1>4 DEF Numbered
  <2>2. ASSUME NEW r \in PProc PROVE (InTree(r)' <=> gid'[r] # 0) /\ gid'[r] < nextgid'
    <3>1. CASE r = q
      <4>1. InTree(r)'
        BY <3>1, <1>3, <1>5 DEF InTree
      <4> QED BY <3>1, <4>1, <1>1, <1>6, <1>7
    <3>2. CASE r # q
      <4>1. (InTree(r) <=> gid[r] # 0) /\ gid[r] < nextgid /\ gid[r] \in Nat
        BY <1>2 DEF Numbered, ProcfsVarTypes
      <4>2. InTree(r)' <=> InTree(r)
        BY <3>2, <1>5 DEF InTree
      <4> QED BY <3>2, <4>1, <4>2, <1>1, <1>6, <1>7
    <3> QED BY <3>1, <3>2
  <2>3. ASSUME NEW r \in PProc, NEW s \in PProc, gid'[r] = gid'[s], gid'[r] # 0 PROVE r = s
    <3>1. \A z \in PProc : gid[z] < nextgid /\ gid[z] \in Nat
      BY <1>2 DEF Numbered, ProcfsVarTypes
    <3>2. CASE r = q \/ s = q
      BY <3>1, <3>2, <2>3, <1>6, <1>7
    <3>3. CASE r # q /\ s # q
      BY <3>3, <2>3, <1>2, <1>7 DEF Numbered
    <3> QED BY <3>2, <3>3
  <2>4. ASSUME NEW f \in FileId, pfile'[f].type \in {"intr", "intrdown"} PROVE pfile'[f].gid # 0
    BY <2>4, <1>2, <1>8 DEF Numbered
  <2> QED BY <2>1, <2>2, <2>3, <2>4 DEF Numbered
<1>13. Held'
  <2>1. ASSUME NEW r \in PProc, alive'[r] PROVE InTree(r)'
    <3>1. CASE r = q
      BY <3>1, <1>3, <1>5 DEF InTree
    <3>2. CASE r # q
      <4>1. alive[r]
        BY <2>1, <3>2, <1>1, <1>2 DEF ProcfsVarTypes
      <4> QED BY <4>1, <3>2, <1>2, <1>5 DEF Held, InTree
    <3> QED BY <3>1, <3>2
  <2>2. ASSUME NEW r \in front' PROVE alive'[r]
    <3>1. r = q \/ r \in front
      BY <1>1
    <3>2. r \in front => alive[r] /\ r \in PProc
      BY <1>2 DEF Held, ProcfsVarTypes
    <3> QED BY <3>1, <3>2, <1>4
  <2>3. ASSUME NEW f \in FileId
        PROVE  (pfile'[f].held = {} <=> pfile'[f] = Unheld) /\ \A r \in pfile'[f].held : alive'[r]
    <3>1. (pfile[f].held = {} <=> pfile[f] = Unheld) /\ \A r \in pfile[f].held : alive[r] /\ r \in PProc
      BY InvFacts DEF PFile
    <3>2. Unheld.held = {}
      BY DEF Unheld
    <3>3. pfile'[f].held = {} <=> pfile'[f] = Unheld
      BY <3>1, <3>2, <1>8
    <3>4. \A r \in pfile'[f].held : r = q \/ r \in pfile[f].held
      BY <1>8
    <3> QED BY <3>1, <3>3, <3>4, <1>4
  <2> QED BY <2>1, <2>2, <2>3 DEF Held, Unheld
<1>14. Counted'
  <2>1. Used(pfile') = Used(pfile)
    BY <1>8 DEF Used
  <2>2. Uses(front', pfile') = Uses(front, pfile)
    BY <2>1, <1>10 DEF Uses
  <2> QED BY <1>1, <1>2, <2>2 DEF Counted
<1>15. OwnerThere'
  <2>0. owner' = owner /\ (owner # None => InTree(owner) /\ owner \in PProc)
    BY <1>1, <1>2 DEF OwnerThere, ProcfsVarTypes
  <2>1. owner # None => InTree(owner)'
    BY <1>3, <1>5, <2>0 DEF InTree
  <2> QED BY <1>1, <1>2, <2>1 DEF OwnerThere
<1> QED BY <1>11, <1>12, <1>13, <1>14, <1>15 DEF ProcfsInv

LEMMA NothingMoves ==
    ASSUME ProcfsInv, UNCHANGED <<alive, par, gid, nextgid, owner, refcount, use, front, pfile, fault>>
    PROVE  ProcfsInv'
<1>1. Counted'
  <2>1. Uses(front', pfile') = Uses(front, pfile)
    OBVIOUS
  <2> QED BY <2>1 DEF ProcfsInv, Counted
<1> QED BY <1>1, TreeKept, InvFacts DEF OwnerThere, ProcfsInv, ProcfsVarTypes, Numbered, Held, InTree, Unheld

LEMMA ProcfsStep == ASSUME ProcfsInv, [ProcfsNext]_procfs_vars PROVE ProcfsInv'
<1>1. CASE UNCHANGED procfs_vars
  <2>1. UNCHANGED <<alive, par, gid, nextgid, owner, refcount, use, front, pfile, fault>>
    BY <1>1 DEF procfs_vars
  <2> QED BY <2>1, NothingMoves
<1>2. CASE ProcfsNext
  <2>0. fault = "none"
    BY <1>2 DEF ProcfsNext
  <2>1. PICK p \in PProc :
        \/ procfs_backend(p) \/ CloseFront(p) \/ Reap(p)
        \/ \E w \in BOOLEAN : ExitProc(p, w) \/ \E f \in FileId : WriteKill(p, f, w)
        \/ \E f \in FileId : CloseFile(p, f) \/ WriteIntr(p, f)
        \/ \E q \in PProc : ForkProc(p, q) \/ \E f \in FileId :
                \/ Delegate(p, f, q)
                \/ \E type \in {"root", "intr", "intrdown"} : openpath(p, f, type, q)
    BY <1>2 DEF ProcfsNext
  <2>2. CASE procfs_backend(p)
    BY <2>0, <2>2, BackendKeeps
  <2>3. CASE CloseFront(p)
    BY <2>0, <2>3, CloseFrontKeeps
  <2>4. CASE Reap(p)
    BY <2>0, <2>4, ReapKeeps
  <2>5. CASE \E w \in BOOLEAN : ExitProc(p, w)
    BY <2>0, <2>5, ExitKeeps
  <2>6. CASE \E w \in BOOLEAN : \E f \in FileId : WriteKill(p, f, w)
    BY <2>0, <2>6, WriteKillKeeps
  <2>7. CASE \E f \in FileId : CloseFile(p, f)
    BY <2>0, <2>7, CloseFileKeeps
  <2>8. CASE \E f \in FileId : WriteIntr(p, f)
    <3>1. UNCHANGED <<alive, par, gid, nextgid, owner, refcount, use, front, pfile, fault>>
      BY <2>8 DEF WriteIntr, tree_vars
    <3> QED BY <3>1, NothingMoves
  <2>9. CASE \E q \in PProc : ForkProc(p, q)
    BY <2>0, <2>9, ForkKeeps
  <2>10. CASE \E q \in PProc, f \in FileId : Delegate(p, f, q)
    BY <2>0, <2>10, DelegateKeeps
  <2>11. CASE \E q \in PProc, f \in FileId, type \in {"root", "intr", "intrdown"} : openpath(p, f, type, q)
    BY <2>0, <2>11, OpenKeeps
  <2> QED BY <2>1, <2>2, <2>3, <2>4, <2>5, <2>6, <2>7, <2>8, <2>9, <2>10, <2>11
<1> QED BY <1>1, <1>2

LEMMA ProcfsBegins == ProcfsInit => ProcfsInv
<1> SUFFICES ASSUME ProcfsInit PROVE ProcfsInv
  OBVIOUS
<1>0. Boot \in PProc /\ None \notin PProc /\ MaxGid \in Nat \ {0}
  BY ProcfsAssumption
<1>1. /\ alive = [p \in PProc |-> p = Boot] /\ par = [p \in PProc |-> None]
      /\ gid = [p \in PProc |-> IF p = Boot THEN 1 ELSE 0] /\ nextgid = 2
      /\ owner = None /\ refcount = 0 /\ use = 0 /\ front = {}
      /\ pfile = [f \in FileId |-> Unheld] /\ fault = "none"
  BY DEF ProcfsInit
<1>2. \A f \in FileId : pfile[f] = Unheld
  BY <1>1
<1>3. Unheld \in PFile /\ Unheld.held = {} /\ Unheld.type = "none"
  BY <1>0 DEF Unheld, PFile
<1>4. ProcfsVarTypes
  <2>1. pfile \in [FileId -> PFile]
    BY <1>1, <1>3
  <2> QED BY <1>0, <1>1, <2>1 DEF ProcfsVarTypes, PFile
<1>5. Numbered
  <2>1. \A p \in PProc : (InTree(p) <=> gid[p] # 0) /\ gid[p] < nextgid
    BY <1>0, <1>1 DEF InTree
  <2>2. \A p, q \in PProc : gid[p] = gid[q] /\ gid[p] # 0 => p = q
    BY <1>1
  <2>3. alive[Boot] /\ \A f \in FileId : pfile[f].type = "none"
    BY <1>0, <1>1, <1>2, <1>3
  <2> QED BY <2>1, <2>2, <2>3 DEF Numbered
<1>6. Held
  BY <1>0, <1>1, <1>2, <1>3 DEF Held, InTree
<1>7. Counted
  <2>1. Used(pfile) = {}
    BY <1>2, <1>3 DEF Used
  <2>2. Uses(front, pfile) = 0
    BY <1>1, <2>1, FS_EmptySet DEF Uses
  <2> QED BY <1>1, <2>2 DEF Counted
<1>8. OwnerThere
  BY <1>1 DEF OwnerThere
<1> QED BY <1>4, <1>5, <1>6, <1>7, <1>8 DEF ProcfsInv

\* The owner of a namespace is counted exactly as long as somebody uses its
\* procfs and stays in the tree, and the assertion on its count in proc_tryreap
\* fails only for a handle that left its subtree or when it kills itself; for
\* any number of processes and files.
THEOREM ProcfsAlwaysSound == ProcfsSpec => []ProcfsSound
<1>1. ProcfsInv => ProcfsSound
  <2> SUFFICES ASSUME ProcfsInv PROVE ProcfsSound
    OBVIOUS
  <2>1. ProcfsTypeOK
    <3>1. par \in [PProc -> PProc \cup {None}] /\ gid \in [PProc -> 0..MaxGid] /\ refcount \in 0..1
      BY DEF ProcfsInv, ProcfsVarTypes, Counted
    <3>2. \A p \in PProc : alive[p] => InTree(p)
      BY DEF ProcfsInv, Held
    <3>3. front \cup UNION {pfile[f].held : f \in FileId} \subseteq {p \in PProc : alive[p]}
      BY InvFacts DEF PFile
    <3>4. \A f \in FileId : pfile[f].held = {} <=> pfile[f] = Unheld
      BY InvFacts
    <3> QED BY <3>1, <3>2, <3>3, <3>4 DEF ProcfsTypeOK
  <2>2. OwnerKept
    BY InvFacts DEF OwnerKept, Counted, Uses, Used
  <2>3. AssertOnlyIf
    BY DEF ProcfsInv, OwnerThere, AssertOnlyIf
  <2> QED BY <2>1, <2>2, <2>3 DEF ProcfsSound
<1> QED BY <1>1, ProcfsBegins, ProcfsStep, PTL DEF ProcfsSpec

\* What IntrInside says of a step.
HitsInside ==
    hit' # {} => \E f \in FileId : \E t \in Below(owner) :
            gid[t] = pfile[f].gid /\ hit' \subseteq Below(t) /\ (pfile[f].type = "intrdown" => t \notin hit')

LEMMA HitsStep == ASSUME ProcfsInv, ProcfsNext PROVE HitsInside
<1>0. fault = "none"
  BY DEF ProcfsNext
<1>1. \/ hit' = {}
      \/ \E p \in PProc, f \in FileId, w \in BOOLEAN : WriteKill(p, f, w)
      \/ \E p \in PProc, f \in FileId : WriteIntr(p, f)
  BY DEF ProcfsNext, procfs_backend, CloseFront, Reap, ExitProc, CloseFile, ForkProc, Delegate, openpath
<1>2. ASSUME NEW p \in PProc, NEW f \in FileId, p \in pfile[f].held PROVE owner # None /\ owner \in PProc /\ InTree(owner)
  BY <1>0, <1>2, InvFacts, UsesAre
<1>3. CASE \E p \in PProc, f \in FileId, w \in BOOLEAN : WriteKill(p, f, w)
  <2>0. PICK p \in PProc, f \in FileId :
            p \in pfile[f].held /\ pfile[f].type = "intr" /\ \E q \in findgid(pfile[f].gid) : hit' = {q}
    BY <1>3 DEF WriteKill
  <2>1. PICK q \in findgid(pfile[f].gid) : p \in pfile[f].held /\ pfile[f].type = "intr" /\ hit' = {q}
    BY <2>0
  <2>2. owner \in PProc
    BY <1>2, <2>1
  <2>3. q \in Below(owner) /\ gid[q] = pfile[f].gid /\ q \in PProc
    BY <2>1, <2>2, BelowIs DEF findgid, LevelOK
  <2>4. hit' \subseteq Below(q)
    BY <2>1, <2>3, BelowIs DEF LevelOK
  <2> QED BY <2>1, <2>3, <2>4 DEF HitsInside
<1>4. CASE \E p \in PProc, f \in FileId : WriteIntr(p, f)
  <2>1. PICK p \in PProc, f \in FileId :
            /\ p \in pfile[f].held /\ pfile[f].type \in {"intr", "intrdown"}
            /\ hit' = UNION {IF pfile[f].type = "intr" THEN {q} ELSE Intrdown(q) : q \in findgid(pfile[f].gid)}
    BY <1>4 DEF WriteIntr
  <2>2. owner \in PProc /\ pfile[f].gid # 0
    BY <1>2, <2>1, InvFacts
  <2>3. ASSUME NEW q \in findgid(pfile[f].gid) PROVE q \in Below(owner) /\ q \in PProc /\ gid[q] = pfile[f].gid
    BY <2>2, BelowIs DEF findgid, LevelOK
  <2>4. SUFFICES ASSUME hit' # {} PROVE \E t \in Below(owner) :
            gid[t] = pfile[f].gid /\ hit' \subseteq Below(t) /\ (pfile[f].type = "intrdown" => t \notin hit')
    BY DEF HitsInside
  <2>5. PICK t : t \in findgid(pfile[f].gid)
    BY <2>1, <2>4
  <2>6. \A q \in findgid(pfile[f].gid) : q = t
    BY <2>2, <2>3, <2>5 DEF ProcfsInv, Numbered
  <2>7. hit' = IF pfile[f].type = "intr" THEN {t} ELSE Intrdown(t)
    BY <2>1, <2>5, <2>6
  <2>8. t \in PProc /\ t \in Below(t)
    BY <2>3, <2>5, BelowIs DEF LevelOK
  <2>9. hit' \subseteq Below(t) /\ (pfile[f].type = "intrdown" => t \notin hit')
    BY <2>7, <2>8 DEF Intrdown
  <2> QED BY <2>3, <2>5, <2>9
<1> QED BY <1>1, <1>3, <1>4 DEF HitsInside

\* A write to intr or intrdown interrupts the process that the file was opened
\* for, or those below it, all in the namespace; never a process that has taken
\* the place of another in memory, as no globalid is given twice.
THEOREM InterruptsStayInside == ProcfsSpec => IntrInside
<1>1. ProcfsInv /\ [ProcfsNext]_procfs_vars => [HitsInside]_procfs_vars
  BY HitsStep
<1>2. [][HitsInside]_procfs_vars => IntrInside
  BY PTL DEF HitsInside, IntrInside
<1> QED BY <1>1, <1>2, ProcfsBegins, ProcfsStep, PTL DEF ProcfsSpec

-----------------------------------------------------------------------------
(* The line editor, src/cmd/init/driver/termcook.c.  In what follows l is   *)
(* the line, s the screen, t the keys that were typed and m a length of the *)
(* line.                                                                    *)

Sent == Printed \cup {"nl", "EOF"}
TermTypes ==
    /\ linebuf \in Seq(Printed) /\ Len(linebuf) <= LineCap /\ screen \in Seq(Printed) /\ typed \in Seq(Key)
    /\ sending \in Seq(Sent) /\ Len(sending) <= LineCap /\ taken \in Seq(Sent)
    /\ tstate \in {"Normal", "Esc", "CSI", "Exited"} /\ reader \in BOOLEAN

Only(t, S) == \A i \in 1..Len(t) : t[i] \in S
Lacks(t, m, x) == \A i \in 1..m : t[i] # x

\* s ends in l.
Shows(s, l) == Len(l) <= Len(s) /\ \A i \in 1..Len(l) : l[i] = s[Len(s) - Len(l) + i]

\* a is what fits of t.
Fit(t, i) == i <= LineCap \/ \E j \in (i - LineCap)..(i - 1) : t[j] = "nl"
Placed(a, t) ==
    \E at \in [1..Len(a) -> 1..Len(t)] :
        /\ \A i \in 1..Len(t) : Fit(t, i) <=> \E k \in 1..Len(a) : at[k] = i
        /\ \A k, m \in 1..Len(a) : k < m => at[k] < at[m]
        /\ \A k \in 1..Len(a) : a[k] = t[at[k]]
\* The line that is edited started at b, and m keys of it fit.
Started(t, m) ==
    \E b \in 0..Len(t) : /\ b = 0 \/ t[b] = "nl"
                         /\ \A j \in (b + 1)..Len(t) : t[j] # "nl"
                         /\ m = IF Len(t) - b <= LineCap THEN Len(t) - b ELSE LineCap

EscInv(t, st, m) ==
    LET n == Len(t) IN
    /\ Lacks(t, n, "esc") => st \in {"Normal", "Exited"}
    /\ n >= 1 /\ t[n] = "esc" /\ Lacks(t, n - 1, "esc") => st = "Esc"
    /\ n >= 2 /\ t[n - 1] = "esc" /\ t[n] = "[" /\ Lacks(t, n - 2, "esc") => st = "CSI"
    /\ Only(t, {"esc", "[", "x"}) =>
        /\ st = "Normal" /\ Lacks(t, n, "esc") => m <= n
        /\ st = "Normal" /\ ~Lacks(t, n, "esc") => m + 2 <= n
        /\ st = "Esc" => m + 1 <= n
        /\ st = "CSI" => m + 2 <= n

TermInv ==
    /\ TermTypes /\ Shows(screen, linebuf) /\ (Lacks(typed, Len(typed), "eot") => linebuf = screen)
    /\ EscInv(typed, tstate, Len(linebuf))
    /\ reader /\ Only(typed, Printed \cup {"nl"}) =>
            Placed(taken \o sending \o linebuf, typed) /\ Started(typed, Len(linebuf)) /\ tstate = "Normal"

-----------------------------------------------------------------------------
(* Sequences. *)

LEMMA AppendIs ==
    ASSUME NEW T, NEW t \in Seq(T), NEW x \in T
    PROVE  /\ Append(t, x) \in Seq(T) /\ Len(Append(t, x)) = Len(t) + 1 /\ Append(t, x)[Len(t) + 1] = x
           /\ \A i \in 1..Len(t) : Append(t, x)[i] = t[i]
BY AppendProperties

LEMMA FrontIs ==
    ASSUME NEW T, NEW t \in Seq(T), t # <<>>
    PROVE  /\ Front(t) \in Seq(T) /\ Len(Front(t)) = Len(t) - 1 /\ Len(t) \in Nat \ {0}
           /\ \A i \in 1..(Len(t) - 1) : Front(t)[i] = t[i]
<1>1. PICK n \in Nat \ {0} : n = Len(t)
  BY LenProperties, EmptySeq
<1>2. PICK u : u = SubSeq(t, 1, n - 1)
  OBVIOUS
<1>3. u \in Seq(T) /\ Len(u) = n - 1 /\ \A i \in 1..(n - 1) : u[i] = t[i]
  BY <1>1, <1>2, SubSeqProperties
<1> QED BY <1>1, <1>2, <1>3 DEF Front

\* What has been said of all keys.
LEMMA OnlyAppend ==
    ASSUME NEW t \in Seq(Key), NEW x \in Key, NEW S
    PROVE  Only(Append(t, x), S) <=> Only(t, S) /\ x \in S
<1>1. PICK n \in Nat, u \in Seq(Key) : n = Len(t) /\ u = Append(t, x)
  BY LenProperties, AppendIs
<1>2. Len(u) = n + 1 /\ u[n + 1] = x /\ \A i \in 1..n : u[i] = t[i]
  BY <1>1, AppendIs
<1>3. ASSUME Only(u, S) PROVE Only(t, S) /\ x \in S
  <2>1. \A i \in 1..(n + 1) : u[i] \in S
    BY <1>2, <1>3 DEF Only
  <2>2. n + 1 \in 1..(n + 1) /\ \A i \in 1..n : i \in 1..(n + 1)
    OBVIOUS
  <2> QED BY <1>1, <1>2, <2>1, <2>2 DEF Only
<1>4. ASSUME Only(t, S), x \in S PROVE Only(u, S)
  <2>1. \A i \in 1..n : t[i] \in S
    BY <1>1, <1>4 DEF Only
  <2>2. \A i \in 1..(n + 1) : i \in 1..n \/ i = n + 1
    OBVIOUS
  <2>3. \A i \in 1..(n + 1) : u[i] \in S
    BY <1>2, <1>4, <2>1, <2>2
  <2> QED BY <1>2, <2>3 DEF Only
<1> QED BY <1>1, <1>3, <1>4

LEMMA LacksAppend ==
    ASSUME NEW t \in Seq(Key), NEW x \in Key, NEW y
    PROVE  /\ Lacks(Append(t, x), Len(t) + 1, y) <=> Lacks(t, Len(t), y) /\ x # y
           /\ \A m \in 0..Len(t) : Lacks(Append(t, x), m, y) <=> Lacks(t, m, y)
<1>1. PICK n \in Nat, u \in Seq(Key) : n = Len(t) /\ u = Append(t, x)
  BY LenProperties, AppendIs
<1>2. Len(u) = n + 1 /\ u[n + 1] = x /\ \A i \in 1..n : u[i] = t[i]
  BY <1>1, AppendIs
<1>3. ASSUME NEW m \in 0..n PROVE Lacks(u, m, y) <=> Lacks(t, m, y)
  <2>1. \A i \in 1..m : u[i] = t[i]
    BY <1>2
  <2> QED BY <2>1 DEF Lacks
<1>4. Lacks(u, n + 1, y) <=> Lacks(t, n, y) /\ x # y
  <2>1. \A i \in 1..(n + 1) : i \in 1..n \/ i = n + 1
    OBVIOUS
  <2>2. n + 1 \in 1..(n + 1) /\ \A i \in 1..n : i \in 1..(n + 1)
    OBVIOUS
  <2> QED BY <1>2, <2>1, <2>2 DEF Lacks
<1> QED BY <1>1, <1>3, <1>4

-----------------------------------------------------------------------------
(* Escape sequences. *)

\* What a key does to the state and to the length of the line.
Edits(st, x, m, st2, m2) ==
    \/ st = "Normal" /\ st2 = (IF x = "esc" THEN "Esc" ELSE IF x = "etx" THEN "Exited" ELSE "Normal")
                     /\ m2 <= (IF x \in Printed THEN m + 1 ELSE m)
    \/ st = "Esc" /\ st2 = after_esc(x) /\ m2 = m
    \/ st = "CSI" /\ st2 = (IF x \in Printed THEN "Normal" ELSE "CSI") /\ m2 = m

LEMMA EscStep ==
    ASSUME NEW t \in Seq(Key), NEW x \in Key, NEW st \in {"Normal", "Esc", "CSI", "Exited"}, NEW m \in Nat,
           EscInv(t, st, m), NEW st2, NEW m2 \in Nat, Edits(st, x, m, st2, m2)
    PROVE  EscInv(Append(t, x), st2, m2)
<1>1. PICK n \in Nat, u \in Seq(Key) : n = Len(t) /\ u = Append(t, x)
  BY LenProperties, AppendIs
<1>2. Len(u) = n + 1 /\ u[n + 1] = x /\ \A i \in 1..n : u[i] = t[i]
  BY <1>1, AppendIs
<1>3. PICK E \in BOOLEAN : E = Lacks(t, n, "esc")
  BY DEF Lacks
<1>4. (Lacks(u, n + 1, "esc") <=> E /\ x # "esc") /\ (Lacks(u, n, "esc") <=> E)
  BY <1>1, <1>3, LacksAppend
<1>5. E => st \in {"Normal", "Exited"}
  BY <1>1, <1>3 DEF EscInv
<1>6. st # "Exited"
  BY DEF Edits
<1>7. ASSUME E, x # "esc" PROVE st2 \in {"Normal", "Exited"}
  BY <1>5, <1>6, <1>7 DEF Edits
<1>8. ASSUME x = "esc", E PROVE st2 = "Esc"
  BY <1>5, <1>6, <1>8 DEF Edits
<1>9. ASSUME n + 1 >= 2, u[n] = "esc", x = "[", Lacks(u, n - 1, "esc") PROVE st2 = "CSI"
  <2>1. n \in 1..n /\ n - 1 \in 0..n /\ n >= 1
    BY <1>9
  <2>2. t[n] = "esc" /\ Lacks(t, n - 1, "esc")
    BY <1>1, <1>2, <1>9, <2>1, LacksAppend
  <2>3. st = "Esc"
    BY <1>1, <2>1, <2>2 DEF EscInv
  <2> QED BY <1>9, <2>3 DEF Edits, after_esc
<1>10. ASSUME Only(u, {"esc", "[", "x"})
       PROVE  /\ st2 = "Normal" /\ (E /\ x # "esc") => m2 <= n + 1
              /\ st2 = "Normal" /\ ~(E /\ x # "esc") => m2 + 2 <= n + 1
              /\ st2 = "Esc" => m2 + 1 <= n + 1
              /\ st2 = "CSI" => m2 + 2 <= n + 1
  <2>1. Only(t, {"esc", "[", "x"}) /\ x \in {"esc", "[", "x"}
    BY <1>1, <1>10, OnlyAppend
  <2>2. /\ st = "Normal" /\ E => m <= n
        /\ st = "Normal" /\ ~E => m + 2 <= n
        /\ st = "Esc" => m + 1 <= n
        /\ st = "CSI" => m + 2 <= n
    BY <1>1, <1>3, <2>1 DEF EscInv
  <2>3. CASE st = "Normal"
    <3>1. st2 = (IF x = "esc" THEN "Esc" ELSE "Normal") /\ m2 <= (IF x \in Printed THEN m + 1 ELSE m)
      BY <2>1, <2>3 DEF Edits
    <3>2. CASE x = "esc"
      <4>1. m2 <= m /\ st2 = "Esc"
        BY <3>1, <3>2 DEF Printed
      <4> QED BY <2>2, <2>3, <4>1
    <3>3. CASE x # "esc"
      <4>1. m2 <= m + 1 /\ st2 = "Normal"
        BY <3>1, <3>3
      <4> QED BY <2>2, <2>3, <3>3, <4>1
    <3> QED BY <3>2, <3>3
  <2>4. CASE st = "Esc"
    <3>1. st2 \in {"CSI", "Normal"} /\ m2 = m
      BY <2>4 DEF Edits, after_esc
    <3> QED BY <2>2, <2>4, <3>1
  <2>5. CASE st = "CSI"
    <3>1. st2 \in {"CSI", "Normal"} /\ m2 = m
      BY <2>5 DEF Edits
    <3> QED BY <2>2, <2>5, <3>1
  <2> QED BY <1>6, <2>3, <2>4, <2>5
<1>11. n + 1 - 1 = n /\ n + 1 - 2 = n - 1
  OBVIOUS
<1>12. EscInv(u, st2, m2)
  BY <1>2, <1>4, <1>7, <1>8, <1>9, <1>10, <1>11 DEF EscInv
<1> QED BY <1>1, <1>12

-----------------------------------------------------------------------------
(* Lines. *)

LEMMA FitAppend ==
    ASSUME NEW t \in Seq(Key), NEW x \in Key, NEW i \in 1..Len(t)
    PROVE  Fit(Append(t, x), i) <=> Fit(t, i)
<1>1. PICK n \in Nat, u \in Seq(Key) : n = Len(t) /\ u = Append(t, x)
  BY LenProperties, AppendIs
<1>2. \A j \in 1..n : u[j] = t[j]
  BY <1>1, AppendIs
<1>3. CASE i <= LineCap
  BY <1>3 DEF Fit
<1>4. CASE ~(i <= LineCap)
  <2>1. \A j \in (i - LineCap)..(i - 1) : j \in 1..n
    BY <1>1, <1>4, TermcookAssumption
  <2>2. \A j \in (i - LineCap)..(i - 1) : u[j] = t[j]
    BY <1>2, <2>1
  <2> QED BY <1>1, <2>2 DEF Fit
<1> QED BY <1>3, <1>4

\* The next key fits if the line is not full.
LEMMA FitNext ==
    ASSUME NEW t \in Seq(Key), NEW x \in Key, NEW m \in Nat, Started(t, m)
    PROVE  /\ Fit(Append(t, x), Len(t) + 1) <=> m < LineCap
           /\ x # "nl" => Started(Append(t, x), IF m < LineCap THEN m + 1 ELSE m)
           /\ x = "nl" => Started(Append(t, x), 0)
<1>1. PICK n \in Nat, u \in Seq(Key) : n = Len(t) /\ u = Append(t, x)
  BY LenProperties, AppendIs
<1>2. Len(u) = n + 1 /\ u[n + 1] = x /\ \A i \in 1..n : u[i] = t[i]
  BY <1>1, AppendIs
<1>3. PICK b \in 0..n : /\ b = 0 \/ t[b] = "nl"
                        /\ \A j \in (b + 1)..n : t[j] # "nl"
                        /\ m = IF n - b <= LineCap THEN n - b ELSE LineCap
  BY <1>1 DEF Started
<1>4. LineCap \in Nat \ {0}
  BY TermcookAssumption
<1>5. m < LineCap <=> n + 1 - b <= LineCap
  BY <1>3, <1>4
<1>9. PICK q \in Nat : q = n + 1
  OBVIOUS
<1>10. Fit(u, q) <=> q <= LineCap \/ \E j \in (q - LineCap)..(q - 1) : u[j] = "nl"
  BY DEF Fit
<1>6. Fit(u, q) <=> m < LineCap
  <2>1. ASSUME m < LineCap PROVE Fit(u, q)
    <3>1. CASE b = 0
      BY <1>4, <1>5, <1>9, <1>10, <2>1, <3>1
    <3>2. CASE b # 0
      <4>1. b \in 1..n /\ u[b] = "nl"
        BY <1>2, <1>3, <3>2
      <4>2. b \in (q - LineCap)..(q - 1)
        BY <1>4, <1>5, <1>9, <2>1, <4>1
      <4> QED BY <1>9, <1>10, <4>1, <4>2
    <3> QED BY <3>1, <3>2
  <2>2. ASSUME Fit(u, q) PROVE m < LineCap
    <3>1. CASE q <= LineCap
      BY <1>4, <1>5, <1>9, <3>1
    <3>2. CASE ~(q <= LineCap)
      <4>1. PICK j \in (q - LineCap)..(q - 1) : u[j] = "nl"
        BY <1>9, <1>10, <2>2, <3>2
      <4>2. j \in 1..n /\ t[j] = "nl"
        BY <1>2, <1>4, <1>9, <3>2, <4>1
      <4>3. j <= b
        BY <1>3, <4>2
      <4> QED BY <1>4, <1>5, <1>9, <4>1, <4>3
    <3> QED BY <3>1, <3>2
  <2> QED BY <2>1, <2>2
<1>7. ASSUME x # "nl" PROVE Started(u, IF m < LineCap THEN m + 1 ELSE m)
  <2>1. b \in 0..(n + 1) /\ (b = 0 \/ u[b] = "nl")
    BY <1>2, <1>3
  <2>2. ASSUME NEW j \in (b + 1)..(n + 1) PROVE u[j] # "nl"
    <3>1. CASE j = n + 1
      BY <1>2, <1>7, <3>1
    <3>2. CASE j # n + 1
      <4>1. j \in (b + 1)..n /\ j \in 1..n
        BY <3>2
      <4> QED BY <1>2, <1>3, <4>1
    <3> QED BY <3>1, <3>2
  <2>3. (IF m < LineCap THEN m + 1 ELSE m) = IF n + 1 - b <= LineCap THEN n + 1 - b ELSE LineCap
    <3>1. m = IF n - b <= LineCap THEN n - b ELSE LineCap
      BY <1>3
    <3> QED BY <1>4, <3>1
  <2> QED BY <1>2, <2>1, <2>2, <2>3 DEF Started
<1>8. ASSUME x = "nl" PROVE Started(u, 0)
  <2>1. n + 1 \in 0..(n + 1) /\ u[n + 1] = "nl" /\ (\A j \in (n + 1 + 1)..(n + 1) : FALSE)
    BY <1>2, <1>8
  <2>2. 0 = IF n + 1 - (n + 1) <= LineCap THEN n + 1 - (n + 1) ELSE LineCap
    BY <1>4
  <2> QED BY <1>2, <2>1, <2>2 DEF Started
<1> QED BY <1>1, <1>6, <1>7, <1>8, <1>9

LEMMA PlacedAppend ==
    ASSUME NEW t \in Seq(Key), NEW x \in Key, NEW a \in Seq(Sent), Placed(a, t)
    PROVE  /\ Fit(Append(t, x), Len(t) + 1) /\ x \in Sent => Placed(Append(a, x), Append(t, x))
           /\ ~Fit(Append(t, x), Len(t) + 1) => Placed(a, Append(t, x))
<1>1. PICK n \in Nat, w \in Nat, u \in Seq(Key) : n = Len(t) /\ u = Append(t, x) /\ w = Len(a)
  BY LenProperties, AppendIs
<1>2. Len(u) = n + 1 /\ u[n + 1] = x /\ \A i \in 1..n : u[i] = t[i]
  BY <1>1, AppendIs
<1>3. PICK at \in [1..w -> 1..n] :
        /\ \A i \in 1..n : Fit(t, i) <=> \E k \in 1..w : at[k] = i
        /\ \A k, m \in 1..w : k < m => at[k] < at[m]
        /\ \A k \in 1..w : a[k] = t[at[k]]
  BY <1>1 DEF Placed
<1>4. \A i \in 1..n : Fit(u, i) <=> \E k \in 1..w : at[k] = i
  BY <1>1, <1>3, FitAppend
<1>5. \A k \in 1..w : at[k] \in 1..n
  BY <1>3
<1>6. \A i \in 1..(n + 1) : i \in 1..n \/ i = n + 1
  OBVIOUS
<1>7. ASSUME ~Fit(u, n + 1) PROVE Placed(a, u)
  <2>1. at \in [1..w -> 1..(n + 1)] /\ \A k \in 1..w : at[k] # n + 1
    <3>1. \A k \in 1..w : at[k] \in 1..(n + 1) /\ at[k] # n + 1
      BY <1>5
    <3> QED BY <1>3, <3>1
  <2>2. \A i \in 1..(n + 1) : Fit(u, i) <=> \E k \in 1..w : at[k] = i
    BY <1>4, <1>6, <1>7, <2>1
  <2>3. \A k \in 1..w : a[k] = u[at[k]]
    BY <1>2, <1>3, <1>5
  <2>4. \E y \in [1..w -> 1..(n + 1)] :
        /\ \A i \in 1..(n + 1) : Fit(u, i) <=> \E k \in 1..w : y[k] = i
        /\ \A k, m \in 1..w : k < m => y[k] < y[m]
        /\ \A k \in 1..w : a[k] = u[y[k]]
    BY <1>3, <2>1, <2>2, <2>3
  <2>5. w = Len(a) /\ n + 1 = Len(u)
    BY <1>1, <1>2
  <2>6. PICK y \in [1..w -> 1..(n + 1)] :
        /\ \A i \in 1..(n + 1) : Fit(u, i) <=> \E k \in 1..w : y[k] = i
        /\ \A k, m \in 1..w : k < m => y[k] < y[m]
        /\ \A k \in 1..w : a[k] = u[y[k]]
    BY <2>4
  <2>7. /\ y \in [1..Len(a) -> 1..Len(u)]
        /\ \A i \in 1..Len(u) : Fit(u, i) <=> \E k \in 1..Len(a) : y[k] = i
        /\ \A k, m \in 1..Len(a) : k < m => y[k] < y[m]
        /\ \A k \in 1..Len(a) : a[k] = u[y[k]]
    BY <2>5, <2>6
  <2> QED BY <2>7 DEF Placed
<1>8. ASSUME Fit(u, n + 1), x \in Sent PROVE Placed(Append(a, x), u)
  <2>1. PICK v : v = Append(a, x)
    OBVIOUS
  <2>2. Len(v) = w + 1 /\ v[w + 1] = x /\ \A k \in 1..w : v[k] = a[k]
    BY <1>1, <1>8, <2>1, AppendIs
  <2>3. PICK y : y = [k \in 1..(w + 1) |-> IF k = w + 1 THEN n + 1 ELSE at[k]]
    OBVIOUS
  <2>4. \A k \in 1..(w + 1) : k \in 1..w \/ k = w + 1
    OBVIOUS
  <2>5. (\A k \in 1..w : k # w + 1 /\ k \in 1..(w + 1)) /\ w + 1 \in 1..(w + 1)
    OBVIOUS
  <2>6. y[w + 1] = n + 1 /\ \A k \in 1..w : y[k] = at[k]
    BY <2>3, <2>5
  <2>7. y \in [1..(w + 1) -> 1..(n + 1)]
    <3>1. \A k \in 1..(w + 1) : (IF k = w + 1 THEN n + 1 ELSE at[k]) \in 1..(n + 1)
      BY <1>5, <2>4
    <3> QED BY <2>3, <3>1
  <2>8. ASSUME NEW i \in 1..(n + 1) PROVE Fit(u, i) <=> \E k \in 1..(w + 1) : y[k] = i
    <3>1. CASE i = n + 1
      BY <1>8, <2>5, <2>6, <3>1
    <3>2. CASE i # n + 1
      <4>1. i \in 1..n
        BY <3>2
      <4>2. (\E k \in 1..(w + 1) : y[k] = i) <=> \E k \in 1..w : at[k] = i
        BY <2>4, <2>5, <2>6, <3>2
      <4> QED BY <1>4, <4>1, <4>2
    <3> QED BY <3>1, <3>2
  <2>9. ASSUME NEW k \in 1..(w + 1), NEW m \in 1..(w + 1), k < m PROVE y[k] < y[m]
    <3>1. k \in 1..w
      BY <2>9
    <3>2. CASE m = w + 1
      <4>1. at[k] \in 1..n
        BY <1>5, <3>1
      <4>2. at[k] < n + 1
        BY <4>1
      <4> QED BY <2>6, <3>1, <3>2, <4>2
    <3>3. CASE m # w + 1
      <4>1. m \in 1..w
        BY <3>3
      <4> QED BY <1>3, <2>6, <2>9, <3>1, <4>1
    <3> QED BY <3>2, <3>3
  <2>10. ASSUME NEW k \in 1..(w + 1) PROVE v[k] = u[y[k]]
    <3>1. CASE k = w + 1
      BY <1>2, <2>2, <2>6, <3>1
    <3>2. CASE k # w + 1
      <4>1. k \in 1..w
        BY <2>4, <3>2
      <4>2. v[k] = a[k] /\ y[k] = at[k] /\ at[k] \in 1..n /\ a[k] = t[at[k]]
        BY <1>3, <1>5, <2>2, <2>6, <4>1
      <4> QED BY <1>2, <4>2
    <3> QED BY <3>1, <3>2
  <2>11. \E z \in [1..(w + 1) -> 1..(n + 1)] :
        /\ \A i \in 1..(n + 1) : Fit(u, i) <=> \E k \in 1..(w + 1) : z[k] = i
        /\ \A k, m \in 1..(w + 1) : k < m => z[k] < z[m]
        /\ \A k \in 1..(w + 1) : v[k] = u[z[k]]
    BY <2>7, <2>8, <2>9, <2>10
  <2>12. Placed(v, u)
    <3>1. w + 1 = Len(v) /\ n + 1 = Len(u)
      BY <1>2, <2>2
    <3>2. \E z \in [1..Len(v) -> 1..Len(u)] :
        /\ \A i \in 1..Len(u) : Fit(u, i) <=> \E k \in 1..Len(v) : z[k] = i
        /\ \A k, m \in 1..Len(v) : k < m => z[k] < z[m]
        /\ \A k \in 1..Len(v) : v[k] = u[z[k]]
      BY <2>11, <3>1, Zenon
    <3> QED BY <3>2 DEF Placed
  <2> QED BY <2>1, <2>12
<1> QED BY <1>1, <1>7, <1>8

-----------------------------------------------------------------------------
(* The screen. *)

LEMMA ShowsAppend ==
    ASSUME NEW s \in Seq(Printed), NEW l \in Seq(Printed), NEW x \in Printed, Shows(s, l)
    PROVE  Shows(Append(s, x), Append(l, x))
<1>1. PICK n \in Nat, m \in Nat : n = Len(s) /\ m = Len(l)
  BY LenProperties
<1>2. PICK u, v : u = Append(s, x) /\ v = Append(l, x)
  OBVIOUS
<1>3. Len(u) = n + 1 /\ u[n + 1] = x /\ \A i \in 1..n : u[i] = s[i]
  BY <1>1, <1>2, AppendIs
<1>4. Len(v) = m + 1 /\ v[m + 1] = x /\ \A i \in 1..m : v[i] = l[i]
  BY <1>1, <1>2, AppendIs
<1>5. m <= n /\ \A i \in 1..m : l[i] = s[n - m + i]
  BY <1>1 DEF Shows
<1>6. ASSUME NEW i \in 1..(m + 1) PROVE v[i] = u[n + 1 - (m + 1) + i]
  <2>1. CASE i = m + 1
    <3>1. n + 1 - (m + 1) + i = n + 1
      BY <2>1
    <3> QED BY <1>3, <1>4, <2>1, <3>1
  <2>2. CASE i # m + 1
    <3>1. m <= n
      BY <1>5
    <3>2. i \in 1..m /\ n + 1 - (m + 1) + i = n - m + i /\ n - m + i \in 1..n
      BY <2>2, <3>1
    <3> QED BY <1>3, <1>4, <1>5, <3>2
  <2> QED BY <2>1, <2>2
<1>7. m + 1 <= n + 1
  BY <1>5
<1>8. Len(u) = n + 1 /\ Len(v) = m + 1
  BY <1>3, <1>4
<1>9. Shows(u, v)
  <2>1. Len(v) <= Len(u)
    BY <1>7, <1>8
  <2>2. ASSUME NEW i \in 1..Len(v) PROVE v[i] = u[Len(u) - Len(v) + i]
    <3>1. i \in 1..(m + 1)
      BY <1>8
    <3>2. v[i] = u[n + 1 - (m + 1) + i]
      BY <1>6, <3>1
    <3> QED BY <1>8, <3>2
  <2> QED BY <2>1, <2>2 DEF Shows
<1> QED BY <1>2, <1>9

LEMMA ShowsFront ==
    ASSUME NEW s \in Seq(Printed), NEW l \in Seq(Printed), l # <<>>, Shows(s, l)
    PROVE  Shows(Front(s), Front(l)) /\ Front(s) \in Seq(Printed) /\ Front(l) \in Seq(Printed) /\ Len(Front(l)) = Len(l) - 1
<1>1. PICK n \in Nat, m \in Nat : n = Len(s) /\ m = Len(l)
  BY LenProperties
<1>2. m # 0
  BY <1>1, EmptySeq
<1>3. m <= n /\ \A i \in 1..m : l[i] = s[n - m + i]
  BY <1>1 DEF Shows
<1>4. s # <<>>
  BY <1>1, <1>2, <1>3, EmptySeq
<1>5. PICK u, v : u = Front(s) /\ v = Front(l)
  OBVIOUS
<1>6. u \in Seq(Printed) /\ Len(u) = n - 1 /\ \A i \in 1..(n - 1) : u[i] = s[i]
  BY <1>1, <1>4, <1>5, FrontIs
<1>7. v \in Seq(Printed) /\ Len(v) = m - 1 /\ \A i \in 1..(m - 1) : v[i] = l[i]
  BY <1>1, <1>5, FrontIs
<1>8. m <= n
  BY <1>3
<1>9. ASSUME NEW i \in 1..(m - 1) PROVE v[i] = u[n - 1 - (m - 1) + i]
  <2>1. i \in 1..m /\ n - 1 - (m - 1) + i = n - m + i /\ n - m + i \in 1..(n - 1)
    BY <1>8
  <2> QED BY <1>3, <1>6, <1>7, <2>1
<1>10. m - 1 <= n - 1
  BY <1>8
<1>11. Shows(u, v)
  BY <1>6, <1>7, <1>9, <1>10 DEF Shows
<1> QED BY <1>1, <1>5, <1>6, <1>7, <1>11

LEMMA ShowsNothing ==
    ASSUME NEW s \in Seq(Printed)
    PROVE  Shows(s, <<>>)
<1>1. Len(s) \in Nat /\ Len(<<>>) = 0
  BY LenProperties
<1> QED BY <1>1 DEF Shows

LEMMA ShowsIs ==
    ASSUME NEW s \in Seq(Printed), NEW l \in Seq(Printed), Shows(s, l)
    PROVE  IsSuffix(l, s)
<1>1. PICK n \in Nat, m \in Nat : n = Len(s) /\ m = Len(l)
  BY LenProperties
<1>2. m <= n /\ \A i \in 1..m : l[i] = s[n - m + i]
  BY <1>1 DEF Shows
<1>3. PICK u, v : u = Reverse(l) /\ v = Reverse(s)
  OBVIOUS
<1>4. u = [i \in 1..m |-> l[(m - i) + 1]] /\ v = [i \in 1..n |-> s[(n - i) + 1]]
  BY <1>1, <1>3 DEF Reverse
<1>5. u \in Seq(Printed) /\ Len(u) = m
  <2>1. ASSUME NEW i \in 1..m PROVE l[(m - i) + 1] \in Printed
    <3>1. (m - i) + 1 \in 1..m
      OBVIOUS
    <3> QED BY <1>1, <3>1, ElementOfSeq
  <2>2. u \in Seq(Printed)
    BY <1>4, <2>1, IsASeq
  <2>3. DOMAIN u = 1..m
    BY <1>4
  <2> QED BY <1>1, <2>2, <2>3, LenProperties
<1>6. v \in Seq(Printed) /\ Len(v) = n
  <2>1. ASSUME NEW i \in 1..n PROVE s[(n - i) + 1] \in Printed
    <3>1. (n - i) + 1 \in 1..n
      OBVIOUS
    <3> QED BY <1>1, <3>1, ElementOfSeq
  <2>2. v \in Seq(Printed)
    BY <1>4, <2>1, IsASeq
  <2>3. DOMAIN v = 1..n
    BY <1>4
  <2> QED BY <1>1, <2>2, <2>3, LenProperties
<1>7. m <= n
  BY <1>2
<1>8. ASSUME NEW i \in 1..m PROVE u[i] = v[i]
  <2>1. i \in 1..n /\ (m - i) + 1 \in 1..m /\ n - m + ((m - i) + 1) = (n - i) + 1
    BY <1>7
  <2>2. u[i] = l[(m - i) + 1] /\ v[i] = s[(n - i) + 1]
    BY <1>4, <2>1
  <2>3. l[(m - i) + 1] = s[n - m + ((m - i) + 1)]
    BY <1>2, <2>1
  <2> QED BY <2>1, <2>2, <2>3
<1>9. PICK w, z : w = SubSeq(u, 1, m) /\ z = SubSeq(v, 1, m)
  OBVIOUS
<1>10. w \in Seq(Printed) /\ Len(w) = m /\ \A i \in 1..m : w[i] = u[i]
  <2>1. \A i \in 1..m : u[i] \in Printed
    BY <1>5, ElementOfSeq
  <2> QED BY <1>9, <2>1, SubSeqProperties
<1>11. z \in Seq(Printed) /\ Len(z) = m /\ \A i \in 1..m : z[i] = v[i]
  <2>1. \A i \in 1..m : v[i] \in Printed
    BY <1>6, <1>7, ElementOfSeq
  <2> QED BY <1>9, <2>1, SubSeqProperties
<1>12. w = z
  <2>1. \A i \in 1..m : w[i] = z[i]
    BY <1>8, <1>10, <1>11
  <2> QED BY <1>10, <1>11, <2>1, SeqEqual
<1> QED BY <1>3, <1>5, <1>6, <1>7, <1>9, <1>12 DEF IsSuffix, IsPrefix

LEMMA FlowJoins ==
    ASSUME NEW a \in Seq(Sent), NEW l \in Seq(Sent), NEW x \in Sent
    PROVE  /\ a \o l \in Seq(Sent) /\ (a \o <<>>) \o l = a \o l /\ (a \o l) \o <<>> = a \o l
           /\ a \o Append(l, x) = Append(a \o l, x)
<1>1. a \o l \in Seq(Sent)
  BY ConcatProperties
<1>2. a \o <<>> = a /\ (a \o l) \o <<>> = a \o l
  BY <1>1, ConcatEmptySeq
<1>3. <<x>> \in Seq(Sent)
  OBVIOUS
<1>4. Append(l, x) = l \o <<x>> /\ Append(a \o l, x) = (a \o l) \o <<x>>
  BY <1>1, AppendIsConcat
<1>5. (a \o l) \o <<x>> = a \o (l \o <<x>>)
  BY <1>3, ConcatAssociative
<1> QED BY <1>1, <1>2, <1>4, <1>5

LEMMA LineIsSent ==
    ASSUME NEW l \in Seq(Printed)
    PROVE  l \in Seq(Sent)
BY SeqMonotonic DEF Sent

-----------------------------------------------------------------------------
(* The steps. *)

\* A key, by what it must do to the line, the screen and what is sent.
LEMMA PressIs ==
    ASSUME TermInv, NEW x \in Key, Press(x),
           linebuf' \in Seq(Printed), Len(linebuf') <= LineCap, screen' \in Seq(Printed),
           sending' \in Seq(Sent), Len(sending') <= LineCap, Edits(tstate, x, Len(linebuf), tstate', Len(linebuf')),
           tstate' \in {"Normal", "Esc", "CSI", "Exited"},
           Shows(screen', linebuf'), x # "eot" /\ linebuf = screen => linebuf' = screen',
           /\ tstate = "Normal" /\ reader /\ x \in Printed \cup {"nl"} => tstate' = "Normal" /\
                /\ x # "nl" => Len(linebuf') = (IF Len(linebuf) < LineCap THEN Len(linebuf) + 1 ELSE Len(linebuf))
                /\ x = "nl" => Len(linebuf') = 0
                /\ taken \o sending' \o linebuf' =
                        IF Len(linebuf) < LineCap THEN Append(taken \o linebuf, x) ELSE taken \o linebuf
    PROVE  TermInv'
<1>1. TermTypes /\ EscInv(typed, tstate, Len(linebuf))
  BY DEF TermInv
<1>2. typed' = Append(typed, x) /\ UNCHANGED <<taken, reader>> /\ sending = <<>>
  BY DEF Press, Typed
<1>3. typed \in Seq(Key) /\ Len(typed) \in Nat /\ linebuf \in Seq(Printed) /\ Len(linebuf) \in Nat /\ Len(linebuf') \in Nat
      /\ tstate \in {"Normal", "Esc", "CSI", "Exited"} /\ taken \in Seq(Sent)
  BY <1>1, LenProperties DEF TermTypes
<1>4. typed' \in Seq(Key) /\ Len(typed') = Len(typed) + 1
  BY <1>2, <1>3, AppendIs
<1>5. TermTypes'
  BY <1>1, <1>2, <1>4 DEF TermTypes
<1>6. EscInv(typed', tstate', Len(linebuf'))
  BY <1>1, <1>2, <1>3, EscStep
<1>7. ASSUME Lacks(typed', Len(typed'), "eot") PROVE linebuf' = screen'
  <2>1. Lacks(typed, Len(typed), "eot") /\ x # "eot"
    BY <1>2, <1>3, <1>4, <1>7, LacksAppend
  <2> QED BY <2>1 DEF TermInv
<1>8. ASSUME reader', Only(typed', Printed \cup {"nl"})
      PROVE  Placed(taken' \o sending' \o linebuf', typed') /\ Started(typed', Len(linebuf')) /\ tstate' = "Normal"
  <2>1. reader /\ Only(typed, Printed \cup {"nl"}) /\ x \in Printed \cup {"nl"}
    BY <1>2, <1>3, <1>8, OnlyAppend
  <2>2. Placed(taken \o sending \o linebuf, typed) /\ Started(typed, Len(linebuf)) /\ tstate = "Normal"
    BY <2>1 DEF TermInv
  <2>3. PICK a : a = taken \o linebuf
    OBVIOUS
  <2>4. linebuf \in Seq(Sent) /\ x \in Sent
    BY <1>3, <2>1, LineIsSent DEF Sent
  <2>5. a \in Seq(Sent) /\ taken \o sending \o linebuf = a
    BY <1>2, <1>3, <2>3, <2>4, FlowJoins
  <2>6. /\ Fit(typed', Len(typed) + 1) <=> Len(linebuf) < LineCap
        /\ x # "nl" => Started(typed', IF Len(linebuf) < LineCap THEN Len(linebuf) + 1 ELSE Len(linebuf))
        /\ x = "nl" => Started(typed', 0)
    BY <1>2, <1>3, <2>2, FitNext
  <2>7. /\ Fit(typed', Len(typed) + 1) => Placed(Append(a, x), typed')
        /\ ~Fit(typed', Len(typed) + 1) => Placed(a, typed')
    BY <1>2, <1>3, <2>2, <2>4, <2>5, PlacedAppend
  <2>8. taken' \o sending' \o linebuf' = IF Len(linebuf) < LineCap THEN Append(a, x) ELSE a
    BY <1>2, <2>1, <2>2, <2>3
  <2>9. Placed(taken' \o sending' \o linebuf', typed')
    BY <2>6, <2>7, <2>8
  <2>10. Started(typed', Len(linebuf')) /\ tstate' = "Normal"
    BY <2>1, <2>2, <2>6
  <2> QED BY <2>9, <2>10
<1> QED BY <1>5, <1>6, <1>7, <1>8 DEF TermInv

LEMMA PressKeeps ==
    ASSUME TermInv, NEW x \in Key, Press(x)
    PROVE  TermInv'
<1>1. /\ linebuf \in Seq(Printed) /\ Len(linebuf) <= LineCap /\ screen \in Seq(Printed) /\ taken \in Seq(Sent)
      /\ tstate \in {"Normal", "Esc", "CSI", "Exited"} /\ reader \in BOOLEAN
  BY DEF TermInv, TermTypes
<1>2. Len(linebuf) \in Nat /\ LineCap \in Nat \ {0} /\ linebuf \in Seq(Sent)
  BY <1>1, LenProperties, LineIsSent, TermcookAssumption
<1>3. sending = <<>> /\ <<>> \in Seq(Sent) /\ <<>> \in Seq(Printed) /\ Len(<<>>) = 0 /\ (KeyNormal(x) \/ KeyEscaped(x))
  BY DEF Press
<1>4. Shows(screen, linebuf)
  BY DEF TermInv
<1>5. CASE KeyEscaped(x)
  <2>1. /\ UNCHANGED <<linebuf, sending, screen>> /\ tstate \in {"Esc", "CSI"} /\ tstate' \in {"Normal", "CSI"}
        /\ Edits(tstate, x, Len(linebuf), tstate', Len(linebuf'))
    BY <1>5 DEF KeyEscaped, Edits, after_esc
  <2> QED BY <1>1, <1>2, <1>3, <1>4, <2>1, PressIs
<1>6. CASE KeyNormal(x)
  <2>1. tstate = "Normal"
    BY <1>6 DEF KeyNormal
  <2>2. CASE x = "bs"
    <3>1. /\ linebuf' = (IF linebuf = <<>> THEN <<>> ELSE Front(linebuf))
          /\ screen' = (IF linebuf = <<>> THEN screen ELSE Front(screen)) /\ UNCHANGED <<tstate, sending>>
      BY <1>6, <2>2 DEF KeyNormal, Printed
    <3>2. x \notin Printed /\ x # "nl" /\ x # "esc" /\ x # "etx"
      BY <2>2 DEF Printed
    <3>3. linebuf' \in Seq(Printed) /\ screen' \in Seq(Printed) /\ Shows(screen', linebuf') /\ Len(linebuf') <= Len(linebuf)
      <4>1. CASE linebuf = <<>>
        BY <1>1, <1>2, <1>3, <1>4, <3>1, <4>1
      <4>2. CASE linebuf # <<>>
        <5>1. /\ Shows(Front(screen), Front(linebuf)) /\ Front(screen) \in Seq(Printed)
              /\ Front(linebuf) \in Seq(Printed) /\ Len(Front(linebuf)) = Len(linebuf) - 1
          BY <1>1, <1>4, <4>2, ShowsFront
        <5> QED BY <1>2, <3>1, <4>2, <5>1
      <4> QED BY <4>1, <4>2
    <3>4. Len(linebuf') \in Nat
      BY <3>3, LenProperties
    <3>5. Edits(tstate, x, Len(linebuf), tstate', Len(linebuf')) /\ Len(linebuf') <= LineCap /\ Len(sending') <= LineCap
      BY <1>1, <1>2, <1>3, <2>1, <3>1, <3>2, <3>3, <3>4 DEF Edits
    <3>6. linebuf = screen => linebuf' = screen'
      BY <3>1
    <3> QED BY <1>3, <2>1, <3>1, <3>2, <3>3, <3>5, <3>6, PressIs
  <2>3. CASE x = "eot"
    <3>1. Output(IF linebuf = <<>> THEN <<"EOF">> ELSE linebuf) /\ linebuf' = <<>> /\ UNCHANGED <<tstate, screen>>
      BY <1>6, <2>3 DEF KeyNormal, Printed
    <3>2. x \notin Printed /\ x # "nl" /\ x # "esc" /\ x # "etx"
      BY <2>3 DEF Printed
    <3>3. sending' \in Seq(Sent) /\ Len(sending') <= LineCap
      <4>1. <<"EOF">> \in Seq(Sent) /\ Len(<<"EOF">>) = 1
        BY DEF Sent
      <4>2. sending' \in {<<>>, <<"EOF">>, linebuf}
        BY <3>1 DEF Output
      <4>3. CASE sending' = <<>>
        BY <1>2, <1>3, <4>3
      <4>4. CASE sending' = <<"EOF">>
        BY <1>2, <4>1, <4>4
      <4>5. CASE sending' = linebuf
        BY <1>1, <1>2, <4>5
      <4> QED BY <4>2, <4>3, <4>4, <4>5
    <3>4. Shows(screen', linebuf') /\ screen' \in Seq(Printed)
      BY <1>1, <3>1, ShowsNothing
    <3>5. Edits(tstate, x, Len(linebuf), tstate', Len(linebuf')) /\ Len(linebuf') <= LineCap
      BY <1>2, <1>3, <2>1, <3>1, <3>2 DEF Edits
    <3> QED BY <1>3, <2>1, <2>3, <3>1, <3>2, <3>3, <3>4, <3>5, PressIs
  <2>4. CASE x = "nl"
    <3>1. Output(ended(linebuf)) /\ linebuf' = <<>> /\ screen' = <<>> /\ UNCHANGED tstate
      BY <1>6, <2>4 DEF KeyNormal, Printed
    <3>2. x \notin Printed /\ x # "esc" /\ x # "etx" /\ x \in Sent
      BY <2>4 DEF Printed, Sent
    <3>3. PICK e : e = ended(linebuf)
      OBVIOUS
    <3>4. e = (IF Len(linebuf) < LineCap THEN Append(linebuf, x) ELSE linebuf)
      BY <2>4, <3>3 DEF ended
    <3>5. e \in Seq(Sent) /\ Len(e) <= LineCap
      <4>1. Append(linebuf, x) \in Seq(Sent) /\ Len(Append(linebuf, x)) = Len(linebuf) + 1
        BY <1>2, <3>2, AppendIs
      <4> QED BY <1>1, <1>2, <3>4, <4>1
    <3>6. sending' \in {<<>>, e} /\ (reader => sending' = e)
      BY <3>1, <3>3 DEF Output
    <3>7. sending' \in Seq(Sent) /\ Len(sending') <= LineCap
      <4>1. CASE sending' = <<>>
        BY <1>2, <1>3, <4>1
      <4>2. CASE sending' = e
        BY <3>5, <4>2
      <4> QED BY <3>6, <4>1, <4>2
    <3>8. taken \o e \o <<>> = IF Len(linebuf) < LineCap THEN Append(taken \o linebuf, x) ELSE taken \o linebuf
      <4>1. taken \o e \o <<>> = taken \o e
        BY <1>1, <3>2, <3>5, FlowJoins
      <4>2. taken \o Append(linebuf, x) = Append(taken \o linebuf, x)
        BY <1>1, <1>2, <3>2, FlowJoins
      <4> QED BY <3>4, <4>1, <4>2
    <3>9. Shows(screen', linebuf') /\ screen' \in Seq(Printed)
      BY <1>3, <3>1, ShowsNothing
    <3>10. Edits(tstate, x, Len(linebuf), tstate', Len(linebuf')) /\ Len(linebuf') <= LineCap
      BY <1>2, <1>3, <2>1, <3>1, <3>2 DEF Edits
    <3> QED BY <1>3, <2>1, <2>4, <3>1, <3>6, <3>7, <3>8, <3>9, <3>10, PressIs
  <2>5. CASE x \in {"etx", "esc", "tab"}
    <3>1. UNCHANGED <<linebuf, sending, screen>> /\ tstate' = (IF x = "esc" THEN "Esc" ELSE IF x = "etx" THEN "Exited" ELSE "Normal")
      BY <1>6, <2>1, <2>5 DEF KeyNormal, Printed
    <3>2. x \notin Printed \cup {"nl"}
      BY <2>5 DEF Printed
    <3>3. Edits(tstate, x, Len(linebuf), tstate', Len(linebuf'))
      BY <1>2, <2>1, <3>1, <3>2 DEF Edits
    <3>4. Len(sending') <= LineCap /\ sending' \in Seq(Sent)
      BY <1>2, <1>3, <3>1
    <3> QED BY <1>1, <1>4, <3>1, <3>2, <3>3, <3>4, PressIs
  <2>6. CASE x \in Printed
    <3>1. linebuf' = stored(x) /\ screen' = echo(x) /\ UNCHANGED <<tstate, sending>>
      BY <1>6, <2>6 DEF KeyNormal, Printed
    <3>2. x # "nl" /\ x # "esc" /\ x # "etx" /\ x # "eot" /\ x \in Sent
      BY <2>6 DEF Printed, Sent
    <3>3. Len(sending') <= LineCap /\ sending' \in Seq(Sent)
      BY <1>2, <1>3, <3>1
    <3>4. taken \o sending' \o linebuf' = taken \o linebuf'
      <4>1. linebuf' \in Seq(Sent)
        <5>1. linebuf' \in {linebuf, Append(linebuf, x)}
          BY <3>1 DEF stored
        <5>2. Append(linebuf, x) \in Seq(Sent)
          BY <1>2, <3>2, AppendIs
        <5> QED BY <1>2, <5>1, <5>2
      <4> QED BY <1>1, <1>3, <3>1, <3>2, <4>1, FlowJoins
    <3>5. CASE Len(linebuf) < LineCap
      <4>1. linebuf' = Append(linebuf, x) /\ screen' = Append(screen, x)
        BY <3>1, <3>5 DEF stored, echo
      <4>2. linebuf' \in Seq(Printed) /\ Len(linebuf') = Len(linebuf) + 1 /\ screen' \in Seq(Printed) /\ Len(linebuf') <= LineCap
        BY <1>1, <1>2, <2>6, <3>5, <4>1, AppendIs
      <4>3. Shows(screen', linebuf')
        BY <1>1, <1>4, <2>6, <4>1, ShowsAppend
      <4>4. Edits(tstate, x, Len(linebuf), tstate', Len(linebuf'))
        BY <1>2, <2>1, <2>6, <3>1, <3>2, <4>2 DEF Edits
      <4>5. taken \o linebuf' = Append(taken \o linebuf, x)
        BY <1>1, <1>2, <3>2, <4>1, FlowJoins
      <4>6. linebuf = screen => linebuf' = screen'
        BY <4>1
      <4> QED BY <1>2, <2>1, <3>1, <3>2, <3>3, <3>4, <3>5, <4>2, <4>3, <4>4, <4>5, <4>6, PressIs
    <3>6. CASE ~(Len(linebuf) < LineCap)
      <4>1. linebuf' = linebuf /\ screen' = screen
        BY <3>1, <3>6 DEF stored, echo
      <4>2. Edits(tstate, x, Len(linebuf), tstate', Len(linebuf'))
        BY <1>2, <2>1, <2>6, <3>1, <3>2, <4>1 DEF Edits
      <4> QED BY <1>1, <1>2, <1>4, <2>1, <3>1, <3>2, <3>3, <3>4, <3>6, <4>1, <4>2, PressIs
    <3> QED BY <3>5, <3>6
  <2>7. x \in {"bs", "eot", "nl", "etx", "esc", "tab"} \cup Printed
    BY DEF Key, Printed
  <2> QED BY <2>2, <2>3, <2>4, <2>5, <2>6, <2>7
<1> QED BY <1>3, <1>5, <1>6

LEMMA ReaderTakesKeeps ==
    ASSUME TermInv, NEW n \in Nat, ReaderTakes(n)
    PROVE  TermInv'
<1>1. TermTypes
  BY DEF TermInv
<1>2. n \in 1..Len(sending) /\ UNCHANGED <<linebuf, tstate, typed, screen, reader>>
  BY DEF ReaderTakes
<1>3. PICK k \in Nat : k = Len(sending) /\ n \in 1..k /\ k <= LineCap
  BY <1>1, <1>2, LenProperties DEF TermTypes
<1>4. PICK a, b : a = SubSeq(sending, 1, n) /\ b = SubSeq(sending, n + 1, k)
  OBVIOUS
<1>5. taken' = taken \o a /\ sending' = b
  BY <1>3, <1>4 DEF ReaderTakes, w_output
<1>6. sending \in Seq(Sent) /\ taken \in Seq(Sent)
  BY <1>1 DEF TermTypes
<1>7. a \in Seq(Sent) /\ b \in Seq(Sent) /\ Len(b) = k - n
  <2>1. \A i \in 1..k : sending[i] \in Sent
    BY <1>3, <1>6, ElementOfSeq
  <2>2. a \in Seq(Sent)
    BY <1>3, <1>4, <2>1, SubSeqProperties
  <2>3. \A i \in (n + 1)..k : sending[i] \in Sent
    BY <1>3, <2>1
  <2>4. b \in Seq(Sent) /\ Len(b) = IF n + 1 <= k THEN k - (n + 1) + 1 ELSE 0
    BY <1>3, <1>4, <2>3, SubSeqProperties
  <2> QED BY <1>3, <2>2, <2>4
<1>8. a \o b = sending
  <2>1. SubSeq(sending, 1, n) \o SubSeq(sending, n + 1, k) = SubSeq(sending, 1, k)
    BY <1>3, <1>6, ConcatAdjacentSubSeq
  <2> QED BY <1>3, <1>4, <1>6, <2>1, SubSeqFull
<1>9. taken' \o sending' = taken \o sending
  <2>1. (taken \o a) \o b = taken \o (a \o b)
    <3>1. taken \in Seq(Sent) /\ a \in Seq(Sent) /\ b \in Seq(Sent)
      BY <1>6, <1>7
    <3> QED BY <3>1, ConcatAssociative
  <2> QED BY <1>5, <1>8, <2>1
<1>10. TermTypes'
  <2>1. taken' \in Seq(Sent)
    BY <1>5, <1>6, <1>7, ConcatProperties
  <2>2. Len(sending') <= LineCap
    BY <1>3, <1>5, <1>7, TermcookAssumption
  <2> QED BY <1>1, <1>2, <1>5, <1>7, <2>1, <2>2 DEF TermTypes
<1> QED BY <1>2, <1>9, <1>10 DEF TermInv

LEMMA ReaderClosesKeeps ==
    ASSUME TermInv, ReaderCloses
    PROVE  TermInv'
<1>1. reader' = FALSE /\ sending' = <<>> /\ UNCHANGED <<linebuf, tstate, typed, screen, taken>>
  BY DEF ReaderCloses
<1>2. TermTypes'
  <2>1. <<>> \in Seq(Sent) /\ Len(<<>>) = 0 /\ 0 <= LineCap
    BY TermcookAssumption
  <2>2. sending' \in Seq(Sent) /\ Len(sending') <= LineCap
    BY <1>1, <2>1
  <2> QED BY <1>1, <2>2 DEF TermInv, TermTypes
<1> QED BY <1>1, <1>2 DEF TermInv

LEMMA TermStays ==
    ASSUME TermInv, UNCHANGED termcook_vars
    PROVE  TermInv'
<1>1. UNCHANGED <<linebuf, tstate, sending, typed, screen, taken, reader>>
  BY DEF termcook_vars
<1>2. TermTypes'
  BY <1>1 DEF TermInv, TermTypes
<1> QED BY <1>1, <1>2 DEF TermInv

LEMMA TermStarts ==
    ASSUME TermcookInit
    PROVE  TermInv
<1>1. /\ linebuf = <<>> /\ tstate = "Normal" /\ sending = <<>> /\ typed = <<>>
      /\ screen = <<>> /\ taken = <<>> /\ reader = TRUE
  BY DEF TermcookInit
<1>2. Len(<<>>) = 0 /\ <<>> \in Seq(Printed) /\ <<>> \in Seq(Key) /\ <<>> \in Seq(Sent) /\ LineCap \in Nat
  BY TermcookAssumption
<1>3. TermTypes
  BY <1>1, <1>2 DEF TermTypes
<1>4. Shows(screen, linebuf)
  BY <1>1, <1>2, ShowsNothing
<1>5. EscInv(typed, tstate, Len(linebuf))
  BY <1>1, <1>2 DEF EscInv, Lacks
<1>6. Started(typed, Len(linebuf))
  BY <1>1, <1>2 DEF Started
<1>7. Placed(taken \o sending \o linebuf, typed)
  <2>1. taken \o sending \o linebuf = <<>>
    BY <1>1, <1>2, ConcatEmptySeq
  <2>2. Placed(<<>>, <<>>)
    <3>1. <<>> \in [1..Len(<<>>) -> 1..Len(<<>>)]
      BY <1>2
    <3>2. \A i \in 1..Len(<<>>) : FALSE
      BY <1>2
    <3> QED BY <3>1, <3>2 DEF Placed
  <2> QED BY <1>1, <2>1, <2>2
<1> QED BY <1>1, <1>3, <1>4, <1>5, <1>6, <1>7 DEF TermInv

LEMMA TermStep ==
    ASSUME TermInv, [TermcookNext]_termcook_vars
    PROVE  TermInv'
<1>1. CASE \E x \in Key : Press(x)
  BY <1>1, PressKeeps
<1>2. CASE \E n \in 1..(LineCap + 1) : ReaderTakes(n)
  <2>1. PICK n \in 1..(LineCap + 1) : ReaderTakes(n)
    BY <1>2
  <2>2. n \in Nat
    BY TermcookAssumption
  <2> QED BY <2>1, <2>2, ReaderTakesKeeps
<1>3. CASE ReaderCloses
  BY <1>3, ReaderClosesKeeps
<1>4. CASE UNCHANGED termcook_vars
  BY <1>4, TermStays
<1> QED BY <1>1, <1>2, <1>3, <1>4 DEF TermcookNext

LEMMA TermInvIsSound ==
    ASSUME TermInv
    PROVE  TermcookSound
<1>1. TermTypes
  BY DEF TermInv
<1>2. PICK n \in Nat : n = Len(typed) /\ DOMAIN typed = 1..n
  BY <1>1, LenProperties DEF TermTypes
<1>3. \A x : x \in Range(typed) <=> \E i \in 1..n : typed[i] = x
  BY <1>2 DEF Range
<1>4. TermcookTypeOK
  <2>1. Range(linebuf) \subseteq Printed
    <3>1. linebuf \in Seq(Printed)
      BY <1>1 DEF TermTypes
    <3>2. \A i \in DOMAIN linebuf : linebuf[i] \in Printed
      BY <3>1
    <3> QED BY <3>2 DEF Range
  <2>2. \A i \in DOMAIN sending : sending[i] \in Printed \cup {"nl", "EOF"}
    BY <1>1 DEF TermTypes, Sent
  <2> QED BY <1>1, <2>1, <2>2 DEF TermcookTypeOK, TermTypes
<1>5. EchoTrue
  <2>1. "eot" \notin Range(typed) => Lacks(typed, Len(typed), "eot")
    BY <1>2, <1>3 DEF Lacks
  <2>2. IsSuffix(linebuf, screen)
    BY <1>1, ShowsIs DEF TermInv, TermTypes
  <2> QED BY <2>1, <2>2 DEF EchoTrue, TermInv
<1>6. LinesDelivered
  <2> SUFFICES ASSUME reader, Range(typed) \subseteq Printed \cup {"nl"}, NEW all, all = taken \o sending \o linebuf
               PROVE  \E at \in [1..Len(all) -> {i \in DOMAIN typed : fits(i)}] :
                        /\ Range(at) = {i \in DOMAIN typed : fits(i)}
                        /\ \A k, m \in 1..Len(all) : k < m => at[k] < at[m]
                        /\ \A k \in 1..Len(all) : all[k] = typed[at[k]]
    BY DEF LinesDelivered
  <2>1. Only(typed, Printed \cup {"nl"})
    BY <1>2, <1>3 DEF Only
  <2>2. Placed(all, typed)
    BY <2>1 DEF TermInv
  <2>3. PICK at \in [1..Len(all) -> 1..n] :
        /\ \A i \in 1..n : Fit(typed, i) <=> \E k \in 1..Len(all) : at[k] = i
        /\ \A k, m \in 1..Len(all) : k < m => at[k] < at[m]
        /\ \A k \in 1..Len(all) : all[k] = typed[at[k]]
    BY <1>2, <2>2 DEF Placed
  <2>4. \A i \in 1..n : fits(i) <=> Fit(typed, i)
    BY DEF fits, Fit
  <2>5. PICK F : F = {i \in DOMAIN typed : fits(i)}
    OBVIOUS
  <2>6. \A i : i \in F <=> i \in 1..n /\ \E k \in 1..Len(all) : at[k] = i
    BY <1>2, <2>3, <2>4, <2>5
  <2>7. at \in [1..Len(all) -> F] /\ Range(at) = F
    <3>1. \A k \in 1..Len(all) : at[k] \in F
      BY <2>3, <2>6
    <3>2. at \in [1..Len(all) -> F]
      BY <2>3, <3>1
    <3>3. Range(at) = F
      BY <2>3, <2>6, <3>1 DEF Range
    <3> QED BY <3>2, <3>3
  <2> QED BY <2>3, <2>5, <2>7
<1>7. EscapesVanish
  <2>1. EscInv(typed, tstate, Len(linebuf))
    BY DEF TermInv
  <2>2. ASSUME n >= 2, typed[n - 1] = "esc", typed[n] = "[", "esc" \notin Range(SubSeq(typed, 1, n - 2)) PROVE tstate = "CSI"
    <3>1. PICK u : u = SubSeq(typed, 1, n - 2)
      OBVIOUS
    <3>2. n - 2 \in Nat /\ \A i \in 1..(n - 2) : i \in 1..n
      BY <2>2
    <3>3. \A i \in 1..(n - 2) : typed[i] \in Key
      BY <1>1, <1>2, <3>2, ElementOfSeq DEF TermTypes
    <3>4. u \in Seq(Key) /\ Len(u) = n - 2 /\ \A i \in 1..(n - 2) : u[i] = typed[i]
      BY <3>1, <3>2, <3>3, SubSeqProperties
    <3>5. DOMAIN u = 1..(n - 2)
      BY <3>4, LenProperties
    <3>6. Lacks(typed, n - 2, "esc")
      BY <2>2, <3>1, <3>4, <3>5 DEF Range, Lacks
    <3> QED BY <1>2, <2>1, <2>2, <3>6 DEF EscInv
  <2>3. ASSUME tstate = "Normal", "esc" \in Range(typed), Range(typed) \subseteq {"esc", "[", "x"} PROVE Len(linebuf) + 2 <= n
    <3>1. Only(typed, {"esc", "[", "x"})
      BY <1>2, <1>3, <2>3 DEF Only
    <3>2. ~Lacks(typed, n, "esc")
      BY <1>3, <2>3 DEF Lacks
    <3> QED BY <1>2, <2>1, <2>3, <3>1, <3>2 DEF EscInv
  <2> QED BY <1>2, <2>2, <2>3 DEF EscapesVanish
<1> QED BY <1>4, <1>5, <1>6, <1>7 DEF TermcookSound

\* termcook.c: for a line buffer of any size and keys in any order, the screen
\* shows the line that will be sent, a reader that takes it in pieces gets
\* the keys in order, of every line as many as fit, and escape sequences leave
\* no trace.
THEOREM TermcookAlwaysSound == TermcookSpec => []TermcookSound
<1>1. TermcookInit => TermInv
  BY TermStarts
<1>2. TermInv /\ [TermcookNext]_termcook_vars => TermInv'
  BY TermStep
<1>3. TermInv => TermcookSound
  BY TermInvIsSound
<1> QED BY <1>1, <1>2, <1>3, PTL DEF TermcookSpec

-----------------------------------------------------------------------------
(* The tree of tmpfs.                                                       *)

\* node_remove counts down once for itself, and the kernel's close counts down
\* again; and it leaves the ref of the node that follows as it was.  Neither
\* does harm where the caller has the only handle of the file and the field
\* that ref names is the one that leads to the file.
RemovesCleanly(h) ==
    LET n == hid[h] IN
    n # Root /\ node[n].ref # <<>> /\ node[n].child = Nil =>
        /\ \A g \in Hid : hid[g] = n => g = h
        /\ IF node[n].ref[1] = "child" THEN node[node[n].ref[2]].child = n
                                       ELSE node[node[n].ref[2]].sibling = n

TmpfsCareful == \A h \in Hid : RemoveFile(h) => RemovesCleanly(h)

\* The k-th of a list, or the NULL that ends it.
Follow(s, k) == IF k \in 1..Len(s) THEN s[k] ELSE Nil

ListsLinked(kids) ==
    /\ \A d \in Node : node[d].child = Follow(kids[d], 1)
    /\ \A d \in Node : \A k \in 1..Len(kids[d]) : node[kids[d][k]].sibling = Follow(kids[d], k + 1)

Entries(s) == {s[k] : k \in 1..Len(s)}
NoRepeat(s) == \A j, k \in 1..Len(s) : s[j] = s[k] => j = k

\* A node is in one list, once.
ListsApart(kids) ==
    /\ \A d \in Node : NoRepeat(kids[d])
    /\ \A c, d \in Node : \A q : q \in Entries(kids[c]) /\ q \in Entries(kids[d]) => c = d

ListsLive(kids) ==
    /\ \A d \in Node : \A q \in Entries(kids[d]) : q # Root /\ node[q].live /\ node[q].ref # <<>> /\ node[q].name \in Name
    /\ \A d \in Node : Entries(kids[d]) # {} => node[d].live /\ (d = Root \/ node[d].name \in DirName)
    /\ \A q \in Node : node[q].live /\ q # Root => \E d \in Node : q \in Entries(kids[d])

ListsNamed(kids) == \A d \in Node : \A p, q \in Entries(kids[d]) : node[p].name = node[q].name => p = q

NodeType == [live : BOOLEAN, name : Name \cup {Nil}, open : Nat, sibling : Node \cup {Nil}, child : Node \cup {Nil},
             ref : {<<>>} \cup ({"child", "sibling"} \X Node)]

NodesInv ==
    /\ node \in [Node -> NodeType] /\ hid \in [Hid -> Node \cup {Nil}] /\ removes \in Nat
    /\ node[Root].live /\ node[Root].open = 0 /\ node[Root].sibling = Nil
    /\ \A n \in Node : ~node[n].live => node[n] = Free
    /\ \A n \in Node \ {Root} : node[n].open = Cardinality({h \in Hid : hid[h] = n})

ListsInv(kids) ==
    kids \in [Node -> Seq(Node)] /\ ListsLinked(kids) /\ ListsApart(kids) /\ ListsLive(kids) /\ ListsNamed(kids)

TmpfsInv == NodesInv /\ KeptWhileOpen /\ \E kids \in [Node -> Seq(Node)] : ListsInv(kids)

-----------------------------------------------------------------------------
(* The lists are what node_getchild follows. *)

LEMMA FollowIs ==
    ASSUME NEW s \in Seq(Node), NEW k \in Nat \ {0}
    PROVE  /\ k <= Len(s) => Follow(s, k) = s[k] /\ s[k] \in Node /\ Follow(s, k) # Nil
           /\ k > Len(s) => Follow(s, k) = Nil
<1>1. Len(s) \in Nat /\ \A i \in 1..Len(s) : s[i] \in Node
  BY LenProperties, ElementOfSeq
<1>2. Nil \notin Node
  BY TmpfsAssumption
<1> QED BY <1>1, <1>2 DEF Follow

\* A list without repetition is no longer than there are nodes.
LEMMA ListFits ==
    ASSUME NEW s \in Seq(Node), \A j, k \in 1..Len(s) : s[j] = s[k] => j = k
    PROVE  Len(s) \in Nat /\ Cardinality(Node) \in Nat /\ Len(s) <= Cardinality(Node) /\ Cardinality(1..Len(s)) = Len(s)
<1>1. IsFiniteSet(Node) /\ Cardinality(Node) \in Nat
  BY TmpfsAssumption, FS_CardinalityType
<1>2. Len(s) \in Nat /\ s \in [1..Len(s) -> Node]
  BY LenProperties
<1>3. s \in Injection(1..Len(s), Node)
  BY <1>2 DEF Injection, IsInjective
<1>4. Cardinality(1..Len(s)) <= Cardinality(Node)
  BY <1>1, <1>3, FS_Injection
<1>5. Cardinality(1..Len(s)) = Len(s)
  BY <1>2, FS_Interval
<1> QED BY <1>1, <1>2, <1>4, <1>5

\* Where a list is followed to, one step after the other.
Steps(t, d, n, f) ==
    f = [k \in 1..n |-> IF k = 1 THEN t[d].child ELSE IF f[k - 1] = Nil THEN Nil ELSE t[f[k - 1]].sibling]

LEMMA StepsAre ==
    ASSUME NEW t, NEW d, NEW s \in Seq(Node), NEW n \in Nat, t[d].child = Follow(s, 1),
           \A k \in 1..Len(s) : t[s[k]].sibling = Follow(s, k + 1)
    PROVE  LET g == [k \in 1..n |-> Follow(s, k)] IN Steps(t, d, n, g) /\ \A f : Steps(t, d, n, f) => f = g
<1> DEFINE g == [k \in 1..n |-> Follow(s, k)]
<1>0. Len(s) \in Nat
  BY LenProperties
<1>1. ASSUME NEW k \in 1..n, k # 1
      PROVE  Follow(s, k) = IF Follow(s, k - 1) = Nil THEN Nil ELSE t[Follow(s, k - 1)].sibling
  <2>1. k - 1 \in Nat \ {0} /\ k \in Nat \ {0} /\ (k - 1) + 1 = k
    BY <1>1
  <2>2. CASE k - 1 <= Len(s)
    <3>1. Follow(s, k - 1) = s[k - 1] /\ Follow(s, k - 1) # Nil
      BY <2>1, <2>2, FollowIs
    <3>2. t[s[k - 1]].sibling = Follow(s, k)
      BY <1>0, <2>1, <2>2
    <3> QED BY <3>1, <3>2
  <2>3. CASE k - 1 > Len(s)
    BY <1>0, <2>1, <2>3, FollowIs
  <2> QED BY <1>0, <2>1, <2>2, <2>3
<1>2. Steps(t, d, n, g)
  <2>1. ASSUME NEW k \in 1..n
        PROVE g[k] = IF k = 1 THEN t[d].child ELSE IF g[k - 1] = Nil THEN Nil ELSE t[g[k - 1]].sibling
    <3>1. CASE k = 1
      BY <3>1
    <3>2. CASE k # 1
      <4>1. k - 1 \in 1..n
        BY <3>2
      <4>2. g[k] = Follow(s, k) /\ g[k - 1] = Follow(s, k - 1)
        BY <4>1
      <4> HIDE DEF g
      <4> QED BY <1>1, <3>2, <4>2
    <3> QED BY <3>1, <3>2
  <2> QED BY <2>1 DEF Steps
<1>3. ASSUME NEW f, Steps(t, d, n, f) PROVE f = g
  <2> DEFINE Bad == {k \in 1..n : f[k] # g[k]}
  <2>0. f = [k \in 1..n |-> IF k = 1 THEN t[d].child ELSE IF f[k - 1] = Nil THEN Nil ELSE t[f[k - 1]].sibling]
    BY <1>3 DEF Steps
  <2>1. CASE Bad = {}
    <3>1. \A k \in 1..n : f[k] = g[k]
      BY <2>1
    <3>2. f = [k \in 1..n |-> f[k]]
      BY <2>0
    <3> QED BY <3>1, <3>2
  <2>2. CASE Bad # {}
    <3>1. Bad \in SUBSET Nat
      OBVIOUS
    <3>2. PICK k \in Bad : \A j \in Bad : k <= j
      <4> HIDE DEF Bad
      <4> QED BY <2>2, <3>1, SmallestExists
    <3>3. k \in 1..n /\ f[k] # g[k] /\ g[k] = Follow(s, k)
      BY <3>2
    <3>4. f[k] = IF k = 1 THEN t[d].child ELSE IF f[k - 1] = Nil THEN Nil ELSE t[f[k - 1]].sibling
      BY <2>0, <3>3
    <3>5. CASE k = 1
      BY <3>3, <3>4, <3>5
    <3>6. CASE k # 1
      <4>1. k - 1 \in 1..n /\ k - 1 < k
        BY <3>3, <3>6
      <4>2. f[k - 1] = g[k - 1]
        BY <3>2, <3>3, <4>1
      <4>3. g[k - 1] = Follow(s, k - 1)
        BY <4>1
      <4> HIDE DEF g, Bad
      <4>4. f[k] = Follow(s, k)
        BY <1>1, <3>3, <3>4, <3>6, <4>2, <4>3
      <4> QED BY <3>3, <4>4
    <3> QED BY <3>5, <3>6
  <2> QED BY <2>1, <2>2
<1> QED BY <1>2, <1>3

LEMMA childrenAre ==
    ASSUME NEW kids \in [Node -> Seq(Node)], ListsLinked(kids), ListsApart(kids), NEW d \in Node
    PROVE  children(d) = kids[d]
<1> DEFINE F(f, n) == [k \in 1..n |-> IF k = 1 THEN node[d].child
                                      ELSE LET prev == f[k - 1] IN IF prev = Nil THEN Nil ELSE node[prev].sibling]
<1>1. PICK s \in Seq(Node) : s = kids[d]
  OBVIOUS
<1>2. PICK n \in Nat : n = Cardinality(Node) /\ Len(s) \in Nat /\ Len(s) <= n /\ Cardinality(1..Len(s)) = Len(s)
  <2>1. \A j, k \in 1..Len(s) : s[j] = s[k] => j = k
    BY <1>1 DEF ListsApart, NoRepeat
  <2> QED BY <2>1, ListFits
<1>3. node[d].child = Follow(s, 1) /\ \A k \in 1..Len(s) : node[s[k]].sibling = Follow(s, k + 1)
  BY <1>1 DEF ListsLinked
<1>4. PICK g : g = [k \in 1..n |-> Follow(s, k)] /\ Steps(node, d, n, g) /\ \A f : Steps(node, d, n, f) => f = g
  BY <1>3, StepsAre
<1>5. \A f : Steps(node, d, n, f) <=> f = F(f, n)
  BY DEF Steps
<1> DEFINE at == CHOOSE f : f = F(f, Cardinality(Node))
<1>6. children(d) = [k \in 1..Cardinality({k \in 1..Cardinality(Node) : at[k] # Nil}) |-> at[k]]
  BY DEF children
<1> HIDE DEF F
<1>7. at = F(at, n)
  BY <1>2, <1>4, <1>5
<1> HIDE DEF at
<1>8. at = g
  BY <1>4, <1>5, <1>7
<1>9. {k \in 1..n : at[k] # Nil} = 1..Len(s)
  <2>1. ASSUME NEW k \in 1..n PROVE g[k] # Nil <=> k <= Len(s)
    BY <1>2, <1>4, FollowIs
  <2> QED BY <1>2, <1>8, <2>1
<1>11. children(d) = [k \in 1..Cardinality({k \in 1..n : at[k] # Nil}) |-> at[k]]
  BY <1>2, <1>6
<1>12. children(d) = [k \in 1..Len(s) |-> at[k]]
  BY <1>2, <1>9, <1>11
<1>13. \A k \in 1..Len(s) : at[k] = s[k]
  BY <1>2, <1>4, <1>8, FollowIs
<1>14. s = [k \in 1..Len(s) |-> s[k]]
  BY LenProperties
<1> QED BY <1>1, <1>12, <1>13, <1>14

-----------------------------------------------------------------------------
(* What the invariant says of a state, and that it holds at the start. *)

LEMMA CountsFit ==
    ASSUME NEW f \in [Hid -> Node \cup {Nil}], NEW n
    PROVE  LET S == {h \in Hid : f[h] = n} IN
           IsFiniteSet(S) /\ Cardinality(S) \in Nat /\ Cardinality(S) < SizeMod /\ SizeMod \in Nat
<1> DEFINE S == {h \in Hid : f[h] = n}
<1>1. IsFiniteSet(Hid) /\ Cardinality(Hid) < SizeMod /\ SizeMod \in Nat
  BY TmpfsAssumption
<1>2. S \in SUBSET Hid
  OBVIOUS
<1> HIDE DEF S
<1>3. IsFiniteSet(S) /\ Cardinality(S) <= Cardinality(Hid)
  BY <1>1, <1>2, FS_Subset
<1>4. Cardinality(S) \in Nat /\ Cardinality(Hid) \in Nat
  BY <1>1, <1>3, FS_CardinalityType
<1> QED BY <1>1, <1>3, <1>4 DEF S

LEMMA NodeHas ==
    ASSUME NodesInv, NEW n \in Node
    PROVE  /\ node[n] \in NodeType /\ node[n].live \in BOOLEAN /\ node[n].name \in Name \cup {Nil}
           /\ node[n].open \in Nat /\ node[n].sibling \in Node \cup {Nil} /\ node[n].child \in Node \cup {Nil}
           /\ node[n].ref \in {<<>>} \cup ({"child", "sibling"} \X Node)
<1>1. node[n] \in NodeType
  BY DEF NodesInv
<1> QED BY <1>1 DEF NodeType

LEMMA SoundFromInv ==
    ASSUME TmpfsInv
    PROVE  TmpfsSound
<1>1. NodesInv /\ KeptWhileOpen
  BY DEF TmpfsInv
<1>2. PICK kids \in [Node -> Seq(Node)] : ListsInv(kids)
  BY DEF TmpfsInv
<1>3. ListsLinked(kids) /\ ListsApart(kids) /\ ListsLive(kids) /\ ListsNamed(kids)
  BY <1>2 DEF ListsInv
<1>4. \A d \in Node : children(d) = kids[d]
  BY <1>3, childrenAre
<1>5. \A d \in Node : Len(kids[d]) \in Nat /\ DOMAIN kids[d] = 1..Len(kids[d])
  <2> SUFFICES ASSUME NEW d \in Node PROVE Len(kids[d]) \in Nat /\ DOMAIN kids[d] = 1..Len(kids[d])
    OBVIOUS
  <2>1. kids[d] \in Seq(Node)
    OBVIOUS
  <2> QED BY <2>1, LenProperties
<1>6. \A d \in Node : \A q \in Entries(kids[d]) : q # Root /\ node[q].live /\ node[q].ref # <<>>
  BY <1>3 DEF ListsLive
<1>7. \A d \in Node : Entries(kids[d]) # {} => node[d].live /\ (d = Root \/ node[d].name \in DirName)
  BY <1>3 DEF ListsLive
<1>8. \A q \in Node : node[q].live /\ q # Root => \E d \in Node : q \in Entries(kids[d])
  BY <1>3 DEF ListsLive
<1>9. hid \in [Hid -> Node \cup {Nil}]
  BY <1>1 DEF NodesInv
<1>10. \A n \in Node \ {Root} : node[n].open = Cardinality({h \in Hid : hid[h] = n})
  BY <1>1 DEF NodesInv
<1>11. TmpfsTypeOK
  <2>1. ASSUME NEW n \in Node PROVE node[n].open \in 0..(SizeMod - 1)
    <3>1. CASE n = Root
      <4>1. node[n].open = 0
        BY <1>1, <3>1 DEF NodesInv
      <4>2. PICK c : c = Cardinality({h \in Hid : hid[h] = n})
        OBVIOUS
      <4>3. c \in Nat /\ c < SizeMod /\ SizeMod \in Nat
        BY <1>9, <4>2, CountsFit
      <4> QED BY <4>1, <4>3
    <3>2. CASE n # Root
      <4>1. PICK c : c = Cardinality({h \in Hid : hid[h] = n})
        OBVIOUS
      <4>2. c \in Nat /\ c < SizeMod /\ SizeMod \in Nat
        BY <1>9, <4>1, CountsFit
      <4>3. node[n].open = c
        BY <1>10, <3>2, <4>1
      <4> QED BY <4>2, <4>3
    <3> QED BY <3>1, <3>2
  <2>2. ASSUME NEW n \in Node, node[n].child # Nil PROVE n = Root \/ node[n].name \in DirName
    <3>1. node[n].child = Follow(kids[n], 1)
      BY <1>3 DEF ListsLinked
    <3>2. 1 \in 1..Len(kids[n])
      BY <2>2, <3>1 DEF Follow
    <3>3. Entries(kids[n]) # {}
      BY <3>2 DEF Entries
    <3> QED BY <1>7, <3>3
  <2> QED BY <1>1, <1>9, <2>1, <2>2, NodeHas DEF TmpfsTypeOK
<1>12. NamesUnique
  <2> SUFFICES ASSUME NEW d \in Node, NEW i \in 1..Len(kids[d]), NEW j \in 1..Len(kids[d]),
                      node[kids[d][i]].name = node[kids[d][j]].name
               PROVE  i = j
    BY <1>4, <1>5 DEF NamesUnique
  <2>1. kids[d][i] \in Entries(kids[d]) /\ kids[d][j] \in Entries(kids[d])
    BY DEF Entries
  <2>2. kids[d][i] = kids[d][j]
    BY <1>3, <2>1 DEF ListsNamed
  <2> QED BY <1>3, <2>2 DEF ListsApart, NoRepeat
<1>13. CountsExact
  BY <1>10 DEF CountsExact
<1>14. RemovedGone
  <2> DEFINE found == UNION {Range(children(d)) : d \in {n \in Node : node[n].live}}
  <2>1. \A n : n \in found <=> \E d \in Node : node[d].live /\ n \in Entries(kids[d])
    <3>1. \A d \in Node : Range(children(d)) = Entries(kids[d])
      BY <1>4, <1>5 DEF Range, Entries
    <3>2. \A n : n \in found <=> \E d \in Node : node[d].live /\ n \in Range(children(d))
      OBVIOUS
    <3> HIDE DEF found
    <3> QED BY <3>1, <3>2
  <2>2. ASSUME NEW n \in Node \ {Root}
        PROVE  /\ node[n].ref = <<>> => n \notin found
               /\ n \in found => node[n].live
               /\ node[n].live => n \in found \/ \E h \in Hid : hid[h] = n
    <3> HIDE DEF found
    <3>1. n \in found => node[n].ref # <<>> /\ node[n].live
      BY <1>6, <2>1
    <3>2. node[n].live => n \in found
      <4> SUFFICES ASSUME node[n].live PROVE n \in found
        OBVIOUS
      <4>1. PICK d \in Node : n \in Entries(kids[d])
        BY <1>8
      <4>2. node[d].live
        BY <1>7, <4>1
      <4> QED BY <2>1, <4>1, <4>2
    <3> QED BY <3>1, <3>2
  <2> QED BY <2>2 DEF RemovedGone
<1> QED BY <1>11, <1>12, <1>13, <1>14 DEF TmpfsSound

LEMMA FreeIs == Free \in NodeType /\ [Free EXCEPT !.live = TRUE] \in NodeType
BY DEF Free, NodeType

LEMMA InvAtFirst == TmpfsInit => TmpfsInv
<1> SUFFICES ASSUME TmpfsInit PROVE TmpfsInv
  OBVIOUS
<1>1. PICK kids : kids = [d \in Node |-> <<>>]
  OBVIOUS
<1>2. kids \in [Node -> Seq(Node)]
  BY <1>1
<1>3. \A d \in Node : kids[d] = <<>> /\ Len(kids[d]) = 0
  BY <1>1
<1>4. Root \in Node /\ Nil \notin Node
  BY TmpfsAssumption
<1>5. /\ node = [n \in Node |-> IF n = Root THEN [Free EXCEPT !.live = TRUE] ELSE Free]
      /\ hid = [h \in Hid |-> Nil] /\ removes = 0
  BY DEF TmpfsInit
<1>6. /\ \A n \in Node : node[n].child = Nil /\ node[n].sibling = Nil /\ node[n].open = 0
      /\ node[Root].live /\ \A n \in Node \ {Root} : node[n] = Free /\ ~node[n].live
  BY <1>4, <1>5 DEF Free
<1>7. node \in [Node -> NodeType]
  BY <1>5, FreeIs
<1>8. ASSUME NEW n \in Node PROVE Cardinality({h \in Hid : hid[h] = n}) = 0
  <2>1. {h \in Hid : hid[h] = n} = {}
    BY <1>4, <1>5, <1>8
  <2> QED BY <2>1, FS_EmptySet
<1>9. NodesInv
  BY <1>4, <1>5, <1>6, <1>7, <1>8 DEF NodesInv
<1>10. KeptWhileOpen
  BY <1>5 DEF KeptWhileOpen
<1>11. ListsLinked(kids)
  BY <1>3, <1>6 DEF ListsLinked, Follow
<1>12. ListsApart(kids) /\ ListsNamed(kids) /\ ListsLive(kids)
  <2>1. \A d \in Node : Entries(kids[d]) = {}
    BY <1>3 DEF Entries
  <2>2. ListsApart(kids)
    BY <1>3, <2>1 DEF ListsApart, NoRepeat
  <2>3. ListsNamed(kids) /\ ListsLive(kids)
    BY <1>6, <2>1 DEF ListsNamed, ListsLive
  <2> QED BY <2>2, <2>3
<1> QED BY <1>2, <1>9, <1>10, <1>11, <1>12 DEF TmpfsInv, ListsInv

-----------------------------------------------------------------------------
(* Lists that grow at the front, and that lose an entry. *)

LEMMA ListGrows ==
    ASSUME NEW s \in Seq(Node), NEW n \in Node
    PROVE  \E t \in Seq(Node) : /\ Len(t) = Len(s) + 1 /\ Len(s) \in Nat /\ t[1] = n
                                /\ \A k \in 1..Len(s) : t[k + 1] = s[k]
                                /\ Follow(t, 1) = n /\ \A k \in Nat \ {0} : Follow(t, k + 1) = Follow(s, k)
                                /\ Entries(t) = Entries(s) \cup {n}
                                /\ NoRepeat(s) /\ n \notin Entries(s) => NoRepeat(t)
<1>1. PICK l \in Nat : l = Len(s)
  BY LenProperties
<1>2. PICK t : t = [k \in 1..(l + 1) |-> IF k = 1 THEN n ELSE s[k - 1]]
  OBVIOUS
<1>3. \A k \in 1..l : s[k] \in Node
  BY <1>1, ElementOfSeq
<1>4. \A k \in 1..(l + 1) : t[k] \in Node
  BY <1>1, <1>2, <1>3
<1>5. t \in Seq(Node) /\ Len(t) = l + 1
  <2>1. t \in [1..(l + 1) -> Node]
    BY <1>2, <1>4
  <2>2. l + 1 \in Nat
    BY <1>1
  <2> QED BY <2>1, <2>2, LenProperties
<1>6. t[1] = n /\ \A k \in 1..l : t[k + 1] = s[k]
  BY <1>1, <1>2
<1>7. Follow(t, 1) = n
  BY <1>1, <1>5, <1>6 DEF Follow
<1>8. ASSUME NEW k \in Nat \ {0} PROVE Follow(t, k + 1) = Follow(s, k)
  BY <1>1, <1>5, <1>6 DEF Follow
<1>9. \A k \in 1..(l + 1) : k # 1 => k - 1 \in 1..l /\ t[k] = s[k - 1]
  BY <1>1, <1>2
<1>10. Entries(t) = Entries(s) \cup {n}
  <2>1. \A k \in 1..l : k + 1 \in 1..(l + 1)
    BY <1>1
  <2>2. \A k \in 1..(l + 1) : t[k] \in Entries(s) \cup {n}
    BY <1>1, <1>6, <1>9 DEF Entries
  <2>3. \A k \in 1..l : s[k] \in Entries(t)
    BY <1>1, <1>5, <1>6, <2>1 DEF Entries
  <2>4. 1 \in 1..(l + 1)
    BY <1>1
  <2>5. n \in Entries(t)
    BY <1>5, <1>6, <2>4 DEF Entries
  <2> QED BY <1>1, <1>5, <2>2, <2>3, <2>5 DEF Entries
<1>11. ASSUME NoRepeat(s), n \notin Entries(s) PROVE NoRepeat(t)
  <2>1. \A k \in 1..l : s[k] # n
    BY <1>1, <1>11 DEF Entries
  <2>2. \A j, k \in 1..l : s[j] = s[k] => j = k
    BY <1>1, <1>11 DEF NoRepeat
  <2>3. ASSUME NEW j \in 1..(l + 1), NEW k \in 1..(l + 1), t[j] = t[k] PROVE j = k
    <3>1. j = k \/ j - 1 = k - 1
      BY <1>6, <1>9, <2>1, <2>2, <2>3
    <3> QED BY <1>1, <3>1
  <2> QED BY <1>5, <2>3 DEF NoRepeat
<1> QED BY <1>1, <1>5, <1>6, <1>7, <1>8, <1>10, <1>11

\* Where the entries of a list are after the p-th is gone.
Skip(p, k) == IF k < p THEN k ELSE k + 1

LeftOver(t, s, p) ==
    /\ Len(s) \in Nat /\ Len(t) \in Nat /\ Len(t) + 1 = Len(s)
    /\ \A k \in 1..Len(t) : t[k] = s[Skip(p, k)] /\ Skip(p, k) \in 1..Len(s) /\ Skip(p, k) # p
    /\ \A j \in 1..Len(s) : j # p => \E k \in 1..Len(t) : t[k] = s[j]
    /\ \A j, k \in 1..Len(t) : Skip(p, j) = Skip(p, k) => j = k
    /\ \A k \in Nat \ {0} : Follow(t, k) = Follow(s, Skip(p, k))

LEMMA ListDrops ==
    ASSUME NEW s \in Seq(Node), NEW p \in 1..Len(s)
    PROVE  \E t \in Seq(Node) : LeftOver(t, s, p) /\ (NoRepeat(s) => NoRepeat(t) /\ Entries(t) = Entries(s) \ {s[p]})
<1>1. PICK l \in Nat : l = Len(s)
  BY LenProperties
<1>2. l # 0 /\ p \in 1..l
  BY <1>1
<1>3. PICK t : t = [k \in 1..(l - 1) |-> s[Skip(p, k)]]
  OBVIOUS
<1>4. \A k \in 1..l : s[k] \in Node
  BY <1>1, ElementOfSeq
<1>5. \A k \in 1..(l - 1) : Skip(p, k) \in 1..l /\ Skip(p, k) # p
  BY <1>1, <1>2 DEF Skip
<1>6. \A k \in 1..(l - 1) : t[k] = s[Skip(p, k)] /\ t[k] \in Node
  BY <1>3, <1>4, <1>5
<1>7. t \in Seq(Node) /\ Len(t) = l - 1
  <2>1. t \in [1..(l - 1) -> Node]
    BY <1>3, <1>6
  <2>2. l - 1 \in Nat
    BY <1>1, <1>2
  <2> QED BY <2>1, <2>2, LenProperties
<1>8. ASSUME NEW j \in 1..l, j # p PROVE \E k \in 1..(l - 1) : t[k] = s[j]
  <2>1. CASE j < p
    <3>1. j \in 1..(l - 1) /\ Skip(p, j) = j
      BY <1>2, <2>1 DEF Skip
    <3> QED BY <1>6, <3>1
  <2>2. CASE j > p
    <3>1. j - 1 \in 1..(l - 1) /\ Skip(p, j - 1) = j
      BY <1>2, <2>2 DEF Skip
    <3> QED BY <1>6, <3>1
  <2> QED BY <1>2, <1>8, <2>1, <2>2
<1>9. \A j, k \in 1..(l - 1) : Skip(p, j) = Skip(p, k) => j = k
  BY <1>2 DEF Skip
<1>10. ASSUME NEW k \in Nat \ {0} PROVE Follow(t, k) = Follow(s, Skip(p, k))
  <2>1. k \in 1..(l - 1) <=> Skip(p, k) \in 1..l
    BY <1>1, <1>2 DEF Skip
  <2>2. CASE k \in 1..(l - 1)
    BY <1>1, <1>6, <1>7, <2>1, <2>2 DEF Follow
  <2>3. CASE k \notin 1..(l - 1)
    BY <1>1, <1>7, <2>1, <2>3 DEF Follow
  <2> QED BY <2>2, <2>3
<1>11. l - 1 \in Nat /\ (l - 1) + 1 = l
  BY <1>1, <1>2
<1>12. LeftOver(t, s, p)
  BY <1>1, <1>5, <1>6, <1>7, <1>8, <1>9, <1>10, <1>11 DEF LeftOver
<1>13. ASSUME NoRepeat(s) PROVE NoRepeat(t) /\ Entries(t) = Entries(s) \ {s[p]}
  <2>1. \A j, k \in 1..l : s[j] = s[k] => j = k
    BY <1>1, <1>13 DEF NoRepeat
  <2>2. \A j, k \in 1..(l - 1) : t[j] = t[k] => j = k
    BY <1>5, <1>6, <1>9, <2>1
  <2>3. \A k \in 1..(l - 1) : t[k] \in Entries(s) \ {s[p]}
    BY <1>1, <1>2, <1>5, <1>6, <2>1 DEF Entries
  <2>4. \A j \in 1..l : s[j] # s[p] => s[j] \in Entries(t)
    BY <1>7, <1>8 DEF Entries
  <2>5. Entries(s) = {s[j] : j \in 1..l} /\ Entries(t) = {t[k] : k \in 1..(l - 1)}
    BY <1>1, <1>7 DEF Entries
  <2>6. NoRepeat(t)
    BY <1>7, <2>2 DEF NoRepeat
  <2>7. Entries(t) \subseteq Entries(s) \ {s[p]}
    BY <2>3, <2>5
  <2>8. ASSUME NEW q \in Entries(s) \ {s[p]} PROVE q \in Entries(t)
    BY <2>4, <2>5, <2>8
  <2> QED BY <2>6, <2>7, <2>8
<1> QED BY <1>7, <1>12, <1>13

-----------------------------------------------------------------------------
(* The handles. *)

LEMMA HandleOpens ==
    ASSUME NodesInv, NEW h \in Hid, hid[h] = Nil, NEW n \in Node, hid' = [hid EXCEPT ![h] = n]
    PROVE  /\ hid' \in [Hid -> Node \cup {Nil}]
           /\ LET c == Cardinality({g \in Hid : hid[g] = n}) IN
              c \in Nat /\ c + 1 < SizeMod /\ SizeMod \in Nat /\ Cardinality({g \in Hid : hid'[g] = n}) = c + 1
           /\ \A m \in Node \ {n} : {g \in Hid : hid'[g] = m} = {g \in Hid : hid[g] = m}
<1>1. hid \in [Hid -> Node \cup {Nil}] /\ Nil \notin Node
  BY TmpfsAssumption DEF NodesInv
<1>2. hid' \in [Hid -> Node \cup {Nil}]
  BY <1>1
<1>3. PICK S, T : S = {g \in Hid : hid[g] = n} /\ T = {g \in Hid : hid'[g] = n}
  OBVIOUS
<1>4. h \notin S /\ T = S \cup {h}
  BY <1>1, <1>3
<1>5. IsFiniteSet(S) /\ Cardinality(S) \in Nat
  BY <1>1, <1>3, CountsFit
<1>6. Cardinality(T) = Cardinality(S) + 1
  BY <1>4, <1>5, FS_AddElement
<1>7. Cardinality(T) < SizeMod /\ SizeMod \in Nat
  BY <1>2, <1>3, CountsFit
<1>8. \A m \in Node \ {n} : {g \in Hid : hid'[g] = m} = {g \in Hid : hid[g] = m}
  BY <1>1
<1> QED BY <1>2, <1>3, <1>5, <1>6, <1>7, <1>8

LEMMA HandleCloses ==
    ASSUME NodesInv, NEW h \in Hid, NEW n \in Node, hid[h] = n, hid' = [hid EXCEPT ![h] = Nil]
    PROVE  /\ hid' \in [Hid -> Node \cup {Nil}]
           /\ LET c == Cardinality({g \in Hid : hid[g] = n}) IN
              c \in Nat \ {0} /\ c < SizeMod /\ SizeMod \in Nat /\ Cardinality({g \in Hid : hid'[g] = n}) = c - 1
           /\ \A m \in Node \ {n} : {g \in Hid : hid'[g] = m} = {g \in Hid : hid[g] = m}
<1>1. hid \in [Hid -> Node \cup {Nil}] /\ Nil \notin Node
  BY TmpfsAssumption DEF NodesInv
<1>2. hid' \in [Hid -> Node \cup {Nil}]
  BY <1>1
<1>3. PICK S, T : S = {g \in Hid : hid[g] = n} /\ T = {g \in Hid : hid'[g] = n}
  OBVIOUS
<1>4. h \in S /\ T = S \ {h}
  BY <1>1, <1>3
<1>5. IsFiniteSet(S) /\ Cardinality(S) \in Nat /\ Cardinality(S) < SizeMod /\ SizeMod \in Nat
  BY <1>1, <1>3, CountsFit
<1>6. Cardinality(T) = Cardinality(S) - 1
  BY <1>4, <1>5, FS_RemoveElement
<1>7. Cardinality(S) # 0
  BY <1>4, <1>5, FS_EmptySet
<1>8. \A m \in Node \ {n} : {g \in Hid : hid'[g] = m} = {g \in Hid : hid[g] = m}
  BY <1>1
<1> QED BY <1>2, <1>3, <1>5, <1>6, <1>7, <1>8

-----------------------------------------------------------------------------
(* What a step does to the lists. *)

\* Only counts change.
SameTree == \A n \in Node : /\ node'[n].live = node[n].live /\ node'[n].name = node[n].name
                            /\ node'[n].sibling = node[n].sibling /\ node'[n].child = node[n].child
                            /\ node'[n].ref = node[n].ref

LEMMA ElementsAre ==
    ASSUME NEW kids \in [Node -> Seq(Node)], NEW d \in Node
    PROVE  /\ kids[d] \in Seq(Node) /\ Len(kids[d]) \in Nat /\ \A k \in 1..Len(kids[d]) : kids[d][k] \in Node
           /\ Entries(kids[d]) \subseteq Node
<1>1. kids[d] \in Seq(Node)
  OBVIOUS
<1>2. Len(kids[d]) \in Nat /\ \A k \in 1..Len(kids[d]) : kids[d][k] \in Node
  BY <1>1, LenProperties, ElementOfSeq
<1> QED BY <1>1, <1>2 DEF Entries

LEMMA ListsStay ==
    ASSUME NEW kids \in [Node -> Seq(Node)], ListsInv(kids), SameTree
    PROVE  ListsInv(kids)'
<1>1. ListsLinked(kids) /\ ListsApart(kids) /\ ListsLive(kids) /\ ListsNamed(kids)
  BY DEF ListsInv
<1>2. ListsLinked(kids)'
  BY <1>1, ElementsAre DEF ListsLinked, SameTree
<1>3. ListsApart(kids)'
  BY <1>1 DEF ListsApart
<1>0. \A d \in Node : \A q \in Entries(kids[d]) : q \in Node
  BY ElementsAre
<1>4. ListsLive(kids)'
  <2>1. (\A d \in Node : \A q \in Entries(kids[d]) : q # Root /\ node[q].live /\ node[q].ref # <<>> /\ node[q].name \in Name)'
    BY <1>0, <1>1 DEF ListsLive, SameTree
  <2>2. (\A d \in Node : Entries(kids[d]) # {} => node[d].live /\ (d = Root \/ node[d].name \in DirName))'
    BY <1>1 DEF ListsLive, SameTree
  <2>3. (\A q \in Node : node[q].live /\ q # Root => \E d \in Node : q \in Entries(kids[d]))'
    BY <1>1 DEF ListsLive, SameTree
  <2> QED BY <2>1, <2>2, <2>3 DEF ListsLive
<1>5. ListsNamed(kids)'
  BY <1>0, <1>1 DEF ListsNamed, SameTree
<1> QED BY <1>2, <1>3, <1>4, <1>5 DEF ListsInv

\* A new node n of d comes first.
Grown(d, n, x) ==
    /\ n # Root /\ ~node[n].live
    /\ \A q \in Node \ {n} : /\ node'[q].live = node[q].live /\ node'[q].name = node[q].name
                             /\ node'[q].sibling = node[q].sibling /\ (node[q].ref # <<>> => node'[q].ref # <<>>)
                             /\ node'[q].child = IF q = d THEN n ELSE node[q].child
    /\ node'[n].live /\ node'[n].name = x /\ node'[n].sibling = node[d].child /\ node'[n].child = Nil
    /\ node'[n].ref # <<>>

\* Of all nodes, n alone may join a list or leave it.
Move(kids, new, n) ==
    /\ \A c \in Node : NoRepeat(new[c]) /\ Entries(new[c]) \ {n} = Entries(kids[c]) \ {n}
    /\ \A b, c \in Node : n \in Entries(new[b]) /\ n \in Entries(new[c]) => b = c
    /\ \A q \in Node \ {n} : /\ node'[q].live = node[q].live /\ node'[q].name = node[q].name
                             /\ node[q].ref # <<>> => node'[q].ref # <<>>
    /\ \A c \in Node : n \in Entries(new[c]) =>
         /\ n # Root /\ node'[n].live /\ node'[n].ref # <<>> /\ node'[n].name \in Name
         /\ \A q \in Entries(kids[c]) : node[q].name # node'[n].name
    /\ node'[n].live /\ n # Root => \E c \in Node : n \in Entries(new[c])
    /\ \A c \in Node : Entries(new[c]) # {} => node'[c].live /\ (c = Root \/ node'[c].name \in DirName)

LEMMA ListsMove ==
    ASSUME NEW kids \in [Node -> Seq(Node)], NEW new \in [Node -> Seq(Node)], NEW n \in Node,
           ListsInv(kids), ListsLinked(new)', Move(kids, new, n)
    PROVE  ListsInv(new)'
<1>1. ListsApart(kids) /\ ListsLive(kids) /\ ListsNamed(kids)
  BY DEF ListsInv
<1>2. \A c \in Node : \A q \in Entries(new[c]) : q = n \/ q \in Entries(kids[c])
  BY DEF Move
<1>3. \A c \in Node : \A q \in Entries(kids[c]) : q = n \/ q \in Entries(new[c])
  BY DEF Move
<1>4. /\ \A c \in Node : NoRepeat(new[c])
      /\ \A b, c \in Node : n \in Entries(new[b]) /\ n \in Entries(new[c]) => b = c
      /\ node'[n].live /\ n # Root => \E c \in Node : n \in Entries(new[c])
  BY DEF Move
<1>5. \A q \in Node \ {n} : /\ node'[q].live = node[q].live /\ node'[q].name = node[q].name
                            /\ node[q].ref # <<>> => node'[q].ref # <<>>
  BY DEF Move
<1>6. \A c \in Node : n \in Entries(new[c]) =>
        /\ n # Root /\ node'[n].live /\ node'[n].ref # <<>> /\ node'[n].name \in Name
        /\ \A q \in Entries(kids[c]) : node[q].name # node'[n].name
  BY DEF Move
<1>7. \A c \in Node : \A q \in Entries(new[c]) : q \in Node
  BY ElementsAre
<1>8. ListsApart(new)'
  <2>1. ASSUME NEW b \in Node, NEW c \in Node, NEW q, q \in Entries(new[b]) /\ q \in Entries(new[c]) PROVE b = c
    <3>1. CASE q = n
      BY <1>4, <2>1, <3>1
    <3>2. CASE q # n
      BY <1>1, <1>2, <2>1, <3>2 DEF ListsApart
    <3> QED BY <3>1, <3>2
  <2> QED BY <1>4, <2>1 DEF ListsApart
<1>9. ListsLive(new)'
  <2>1. ASSUME NEW c \in Node, NEW q \in Entries(new[c])
        PROVE  q # Root /\ node'[q].live /\ node'[q].ref # <<>> /\ node'[q].name \in Name
    <3>1. CASE q = n
      BY <1>6, <2>1, <3>1
    <3>2. CASE q # n
      <4>1. q # Root /\ node[q].live /\ node[q].ref # <<>> /\ node[q].name \in Name
        BY <1>1, <1>2, <2>1, <3>2 DEF ListsLive
      <4> QED BY <1>5, <1>7, <2>1, <3>2, <4>1
    <3> QED BY <3>1, <3>2
  <2>2. \A c \in Node : Entries(new[c]) # {} => node'[c].live /\ (c = Root \/ node'[c].name \in DirName)
    BY DEF Move
  <2>3. ASSUME NEW q \in Node, node'[q].live /\ q # Root PROVE \E c \in Node : q \in Entries(new[c])
    <3>1. CASE q = n
      BY <1>4, <2>3, <3>1
    <3>2. CASE q # n
      <4>1. node[q].live
        BY <1>5, <2>3, <3>2
      <4>2. PICK c \in Node : q \in Entries(kids[c])
        BY <1>1, <2>3, <4>1 DEF ListsLive
      <4> QED BY <1>3, <3>2, <4>2
    <3> QED BY <3>1, <3>2
  <2> QED BY <2>1, <2>2, <2>3 DEF ListsLive
<1>10. ListsNamed(new)'
  <2>1. ASSUME NEW c \in Node, NEW p \in Entries(new[c]), NEW q \in Entries(new[c]), node'[p].name = node'[q].name
        PROVE  p = q
    <3>1. CASE p = n /\ q # n
      <4>1. q \in Entries(kids[c]) /\ node'[q].name = node[q].name
        BY <1>2, <1>5, <1>7, <2>1, <3>1
      <4> QED BY <1>6, <2>1, <3>1, <4>1
    <3>2. CASE q = n /\ p # n
      <4>1. p \in Entries(kids[c]) /\ node'[p].name = node[p].name
        BY <1>2, <1>5, <1>7, <2>1, <3>2
      <4> QED BY <1>6, <2>1, <3>2, <4>1
    <3>3. CASE q # n /\ p # n
      <4>1. /\ p \in Entries(kids[c]) /\ node'[p].name = node[p].name
            /\ q \in Entries(kids[c]) /\ node'[q].name = node[q].name
        BY <1>2, <1>5, <1>7, <2>1, <3>3
      <4> QED BY <1>1, <2>1, <4>1 DEF ListsNamed
    <3> QED BY <3>1, <3>2, <3>3
  <2> QED BY <2>1 DEF ListsNamed
<1> QED BY <1>8, <1>9, <1>10 DEF ListsInv

\* A node without life has no list.
LEMMA NoList ==
    ASSUME NEW kids \in [Node -> Seq(Node)], ListsInv(kids), NEW n \in Node, node[n].child = Nil
    PROVE  Entries(kids[n]) = {} /\ Len(kids[n]) = 0
<1>1. node[n].child = Follow(kids[n], 1) /\ kids[n] \in Seq(Node) /\ Len(kids[n]) \in Nat
  BY ElementsAre DEF ListsInv, ListsLinked
<1>2. ~(1 <= Len(kids[n]))
  <2> SUFFICES ASSUME 1 <= Len(kids[n]) PROVE FALSE
    OBVIOUS
  <2>1. 1 \in 1..Len(kids[n])
    BY <1>1
  <2>2. node[n].child = kids[n][1]
    BY <1>1, <2>1 DEF Follow
  <2>3. kids[n][1] \in Node
    BY <2>1, ElementsAre
  <2> QED BY <2>2, <2>3, TmpfsAssumption
<1>3. Len(kids[n]) = 0
  BY <1>1, <1>2
<1> QED BY <1>3 DEF Entries

LEMMA ListsGrow ==
    ASSUME NodesInv, NEW kids \in [Node -> Seq(Node)], ListsInv(kids), NEW d \in Node, NEW n \in Node, NEW x \in Name,
           node[d].live, d = Root \/ node[d].name \in DirName, \A q \in Entries(kids[d]) : node[q].name # x,
           Grown(d, n, x)
    PROVE  \E new \in [Node -> Seq(Node)] : ListsInv(new)'
<1>1. ListsLinked(kids) /\ ListsApart(kids) /\ ListsLive(kids)
  BY DEF ListsInv
<1>2. PICK s \in Seq(Node) : s = kids[d]
  OBVIOUS
<1>3. PICK t \in Seq(Node) : /\ Len(t) = Len(s) + 1 /\ Len(s) \in Nat /\ t[1] = n
                             /\ \A k \in 1..Len(s) : t[k + 1] = s[k]
                             /\ Follow(t, 1) = n /\ \A k \in Nat \ {0} : Follow(t, k + 1) = Follow(s, k)
                             /\ Entries(t) = Entries(s) \cup {n}
                             /\ NoRepeat(s) /\ n \notin Entries(s) => NoRepeat(t)
  BY ListGrows
<1>4. PICK new : new = [kids EXCEPT ![d] = t]
  OBVIOUS
<1>5. new \in [Node -> Seq(Node)] /\ new[d] = t /\ \A c \in Node \ {d} : new[c] = kids[c]
  BY <1>4
<1>6. d # n /\ ~node[n].live /\ node[n] = Free /\ node[n].child = Nil
  <2>1. d # n /\ ~node[n].live
    BY DEF Grown
  <2>2. node[n] = Free
    BY <2>1 DEF NodesInv
  <2> QED BY <2>1, <2>2 DEF Free
<1>7. \A c \in Node : n \notin Entries(kids[c])
  BY <1>1, <1>6 DEF ListsLive
<1>8. \A c \in Node : \A k \in 1..Len(kids[c]) : kids[c][k] \in Node /\ kids[c][k] # n
  BY <1>7, ElementsAre DEF Entries
<1>9. /\ node'[n].live /\ node'[n].name = x /\ node'[n].sibling = node[d].child /\ node'[n].child = Nil
      /\ node'[n].ref # <<>> /\ n # Root
  BY DEF Grown
<1>10. \A q \in Node \ {n} : /\ node'[q].live = node[q].live /\ node'[q].name = node[q].name
                             /\ node'[q].sibling = node[q].sibling /\ (node[q].ref # <<>> => node'[q].ref # <<>>)
                             /\ node'[q].child = IF q = d THEN n ELSE node[q].child
  BY DEF Grown
<1>11. /\ \A c \in Node : node[c].child = Follow(kids[c], 1)
       /\ \A c \in Node : \A k \in 1..Len(kids[c]) : node[kids[c][k]].sibling = Follow(kids[c], k + 1)
  BY <1>1 DEF ListsLinked
<1>12. Entries(kids[n]) = {} /\ Len(kids[n]) = 0
  BY <1>6, NoList
<1>13. ListsLinked(new)'
  <2>1. ASSUME NEW c \in Node PROVE node'[c].child = Follow(new[c], 1)
    <3>1. CASE c = d
      BY <1>3, <1>5, <1>6, <1>10, <3>1
    <3>2. CASE c = n
      <4>1. Follow(new[c], 1) = Nil
        BY <1>5, <1>6, <1>12, <3>2 DEF Follow
      <4> QED BY <1>9, <3>2, <4>1
    <3>3. CASE c # d /\ c # n
      BY <1>5, <1>10, <1>11, <3>3
    <3> QED BY <3>1, <3>2, <3>3
  <2>2. ASSUME NEW c \in Node, NEW k \in 1..Len(new[c])
        PROVE  node'[new[c][k]].sibling = Follow(new[c], k + 1)
    <3>1. CASE c # d
      <4>1. new[c] = kids[c] /\ k \in 1..Len(kids[c])
        BY <1>5, <2>2, <3>1
      <4>2. kids[c][k] \in Node \ {n}
        BY <1>8, <4>1
      <4>3. node'[kids[c][k]].sibling = node[kids[c][k]].sibling
        BY <1>10, <4>2
      <4>4. node[kids[c][k]].sibling = Follow(kids[c], k + 1)
        BY <1>11, <4>1
      <4> QED BY <4>1, <4>3, <4>4
    <3>2. CASE c = d /\ k = 1
      <4>1. Follow(t, 1 + 1) = Follow(s, 1)
        BY <1>3
      <4>2. new[c][k] = n /\ new[c] = t
        BY <1>3, <1>5, <3>2
      <4> QED BY <1>2, <1>9, <1>11, <3>2, <4>1, <4>2
    <3>3. CASE c = d /\ k # 1
      <4>1. new[c] = t /\ k \in 1..(Len(s) + 1)
        BY <1>3, <1>5, <2>2, <3>3
      <4>2. PICK j \in 1..Len(s) : k = j + 1
        <5>1. k - 1 \in 1..Len(s) /\ k = (k - 1) + 1
          BY <1>3, <3>3, <4>1
        <5> QED BY <5>1
      <4>3. t[k] = s[j]
        BY <1>3, <4>2
      <4>4. j + 1 \in Nat \ {0} /\ k \in Nat \ {0}
        BY <1>3, <4>2
      <4>5. Follow(t, k + 1) = Follow(s, j + 1)
        BY <1>3, <4>2, <4>4
      <4>6. s[j] \in Node \ {n} /\ node[s[j]].sibling = Follow(s, j + 1)
        BY <1>2, <1>8, <1>11
      <4>7. node'[s[j]].sibling = node[s[j]].sibling
        BY <1>10, <4>6
      <4> QED BY <4>1, <4>3, <4>5, <4>6, <4>7
    <3> QED BY <3>1, <3>2, <3>3
  <2> QED BY <2>1, <2>2 DEF ListsLinked
<1>14. Move(kids, new, n)
  <2>1. ASSUME NEW c \in Node PROVE NoRepeat(new[c]) /\ Entries(new[c]) \ {n} = Entries(kids[c]) \ {n}
    <3>1. NoRepeat(kids[c])
      BY <1>1 DEF ListsApart
    <3>2. CASE c = d
      BY <1>2, <1>3, <1>5, <1>7, <3>1, <3>2
    <3>3. CASE c # d
      BY <1>5, <3>1, <3>3
    <3> QED BY <3>2, <3>3
  <2>2. \A c \in Node : n \in Entries(new[c]) <=> c = d
    <3>1. n \in Entries(new[d])
      BY <1>3, <1>5
    <3> QED BY <1>5, <1>7, <3>1
  <2>3. ASSUME NEW c \in Node, Entries(new[c]) # {} PROVE node'[c].live /\ (c = Root \/ node'[c].name \in DirName)
    <3>1. CASE c = d
      BY <1>6, <1>10, <3>1
    <3>2. CASE c # d
      <4>1. Entries(kids[c]) # {} /\ c # n
        BY <1>5, <1>12, <2>3, <3>2
      <4>2. node[c].live /\ (c = Root \/ node[c].name \in DirName)
        BY <1>1, <4>1 DEF ListsLive
      <4> QED BY <1>10, <4>1, <4>2
    <3> QED BY <3>1, <3>2
  <2> QED BY <1>9, <1>10, <2>1, <2>2, <2>3 DEF Move
<1>15. ListsInv(new)'
  BY <1>5, <1>13, <1>14, ListsMove
<1> QED BY <1>5, <1>15

LEMMA PlaceBefore ==
    ASSUME NEW l \in Nat, NEW p \in 1..l, p # 1
    PROVE  p - 1 \in 1..l
OBVIOUS

\* What comes after the k-th that is left: the next, or the one behind the gap.
LEMMA SkipNext ==
    ASSUME NEW p \in Nat \ {0}, NEW k \in Nat \ {0}, NEW j \in Nat, j = Skip(p, k)
    PROVE  /\ j + 1 = p => p # 1 /\ j = p - 1 /\ Skip(p, k + 1) = p + 1
           /\ j + 1 # p => Skip(p, k + 1) = j + 1 /\ p - 1 # j
<1>1. CASE k < p
  <2>1. j = k
    BY <1>1 DEF Skip
  <2> QED BY <1>1, <2>1 DEF Skip
<1>2. CASE k >= p
  <2>1. j = k + 1
    BY <1>2 DEF Skip
  <2> QED BY <1>2, <2>1 DEF Skip
<1> QED BY <1>1, <1>2

\* n, which was the p-th of d, is unlinked and freed.
Shrunk(kids, d, p, n) ==
    /\ n # Root /\ node[n].child = Nil /\ node'[n] = Free
    /\ \A q \in Node \ {n} : /\ node'[q].live = node[q].live /\ node'[q].name = node[q].name /\ node'[q].ref = node[q].ref
                             /\ node'[q].child = IF q = d /\ p = 1 THEN node[n].sibling ELSE node[q].child
                             /\ node'[q].sibling = IF p # 1 /\ q = kids[d][p - 1] THEN node[n].sibling ELSE node[q].sibling

LEMMA ListsShrink ==
    ASSUME NodesInv, NEW kids \in [Node -> Seq(Node)], ListsInv(kids), NEW d \in Node, NEW p \in 1..Len(kids[d]),
           NEW n \in Node, n = kids[d][p], Shrunk(kids, d, p, n)
    PROVE  \E new \in [Node -> Seq(Node)] : ListsInv(new)'
<1>1. ListsLinked(kids) /\ ListsApart(kids) /\ ListsLive(kids)
  BY DEF ListsInv
<1>2. PICK s \in Seq(Node) : s = kids[d]
  OBVIOUS
<1>3. NoRepeat(s) /\ p \in 1..Len(s) /\ n = s[p] /\ p \in Nat \ {0} /\ Len(s) \in Nat
  BY <1>1, <1>2, LenProperties DEF ListsApart
<1>4. PICK t \in Seq(Node) : LeftOver(t, s, p) /\ NoRepeat(t) /\ Entries(t) = Entries(s) \ {n}
  BY <1>3, ListDrops
<1>5. PICK new : new = [kids EXCEPT ![d] = t]
  OBVIOUS
<1>6. new \in [Node -> Seq(Node)] /\ new[d] = t /\ \A c \in Node \ {d} : new[c] = kids[c]
  BY <1>5
<1>7. Entries(kids[n]) = {} /\ Len(kids[n]) = 0
  BY NoList DEF Shrunk
<1>8. n \in Entries(kids[d]) /\ d # n
  BY <1>2, <1>3, <1>7 DEF Entries
<1>9. n # Root /\ node'[n] = Free /\ node'[n].live = FALSE /\ node'[n].child = Nil
  BY DEF Shrunk, Free
<1>10. \A q \in Node \ {n} :
          /\ node'[q].live = node[q].live /\ node'[q].name = node[q].name /\ node'[q].ref = node[q].ref
          /\ node'[q].child = IF q = d /\ p = 1 THEN node[n].sibling ELSE node[q].child
          /\ node'[q].sibling = IF p # 1 /\ q = kids[d][p - 1] THEN node[n].sibling ELSE node[q].sibling
  BY DEF Shrunk
<1>11. /\ \A c \in Node : node[c].child = Follow(kids[c], 1)
       /\ \A c \in Node : \A k \in 1..Len(kids[c]) : node[kids[c][k]].sibling = Follow(kids[c], k + 1)
  BY <1>1 DEF ListsLinked
<1>12. node[n].sibling = Follow(s, p + 1)
  BY <1>2, <1>3, <1>11
<1>13. /\ Len(t) \in Nat
       /\ \A k \in 1..Len(t) : t[k] = s[Skip(p, k)] /\ Skip(p, k) \in 1..Len(s) /\ Skip(p, k) # p
  BY <1>4 DEF LeftOver
<1>17. \A k \in Nat \ {0} : Follow(t, k) = Follow(s, Skip(p, k))
  BY <1>4 DEF LeftOver
<1>14. ListsLinked(new)'
  <2>1. ASSUME NEW c \in Node PROVE node'[c].child = Follow(new[c], 1)
    <3>1. CASE c = d
      <4>1. Follow(t, 1) = Follow(s, Skip(p, 1))
        <5>1. 1 \in Nat \ {0}
          OBVIOUS
        <5> QED BY <1>17, <5>1, Zenon
      <4>2. CASE p = 1
        <5>1. Skip(p, 1) = p + 1
          BY <4>2 DEF Skip
        <5> QED BY <1>6, <1>8, <1>10, <1>12, <3>1, <4>1, <4>2, <5>1
      <4>3. CASE p # 1
        <5>1. Skip(p, 1) = 1
          BY <1>3, <4>3 DEF Skip
        <5> QED BY <1>2, <1>6, <1>8, <1>10, <1>11, <3>1, <4>1, <4>3, <5>1
      <4> QED BY <4>2, <4>3
    <3>2. CASE c = n
      <4>1. Follow(new[c], 1) = Nil
        BY <1>6, <1>7, <1>8, <3>2 DEF Follow
      <4> QED BY <1>9, <3>2, <4>1
    <3>3. CASE c # d /\ c # n
      BY <1>6, <1>10, <1>11, <3>3
    <3> QED BY <3>1, <3>2, <3>3
  <2>2. ASSUME NEW c \in Node, NEW k \in 1..Len(new[c])
        PROVE  node'[new[c][k]].sibling = Follow(new[c], k + 1)
    <3>1. CASE c # d
      <4>1. new[c] = kids[c] /\ k \in 1..Len(kids[c])
        BY <1>6, <2>2, <3>1
      <4>2. kids[c][k] \in Node /\ kids[c][k] \in Entries(kids[c])
        BY <4>1, ElementsAre DEF Entries
      <4>3. kids[c][k] \notin Entries(kids[d])
        BY <1>1, <3>1, <4>2 DEF ListsApart
      <4>4. p # 1 => kids[d][p - 1] \in Entries(kids[d])
        <5>1. p # 1 => p - 1 \in 1..Len(kids[d])
          BY <1>2, <1>3, PlaceBefore
        <5> QED BY <5>1 DEF Entries
      <4>5. node'[kids[c][k]].sibling = node[kids[c][k]].sibling
        BY <1>8, <1>10, <4>2, <4>3, <4>4
      <4> QED BY <1>11, <4>1, <4>5
    <3>2. CASE c = d
      <4>1. new[c] = t /\ k \in 1..Len(t) /\ k \in Nat \ {0} /\ k + 1 \in Nat \ {0}
        <5>1. new[c] = t /\ k \in 1..Len(t)
          BY <1>6, <2>2, <3>2
        <5>2. Len(t) \in Nat
          BY <1>13
        <5>3. k \in Nat \ {0} /\ k + 1 \in Nat \ {0}
          BY <5>1, <5>2
        <5> QED BY <5>1, <5>3
      <4>2. PICK j \in 1..Len(s) : j = Skip(p, k) /\ j # p /\ t[k] = s[j]
        BY <1>13, <4>1
      <4>3. \A i \in 1..Len(s) : s[i] = s[j] => i = j
        BY <1>3 DEF NoRepeat
      <4>4. s[j] \in Node \ {n} /\ node[s[j]].sibling = Follow(s, j + 1)
        BY <1>2, <1>3, <1>11, <4>2, <4>3, ElementsAre
      <4>5. Follow(t, k + 1) = Follow(s, Skip(p, k + 1))
        BY <1>17, <4>1
      <4>8. /\ j + 1 = p => p # 1 /\ j = p - 1 /\ Skip(p, k + 1) = p + 1
            /\ j + 1 # p => Skip(p, k + 1) = j + 1 /\ p - 1 # j
        <5>1. p \in Nat \ {0} /\ j \in Nat
          BY <1>3, <4>2
        <5>2. k \in Nat \ {0} /\ j = Skip(p, k)
          BY <4>1, <4>2
        <5> QED BY <5>1, <5>2, SkipNext
      <4>6. CASE j + 1 = p
        <5>1. p # 1 /\ j = p - 1 /\ Skip(p, k + 1) = p + 1
          BY <4>6, <4>8
        <5>2. node'[s[j]].sibling = node[n].sibling
          BY <1>2, <1>10, <4>4, <5>1
        <5> QED BY <1>12, <4>1, <4>2, <4>5, <5>1, <5>2
      <4>7. CASE j + 1 # p
        <5>1. Skip(p, k + 1) = j + 1 /\ p - 1 # j
          BY <4>7, <4>8
        <5>2. p # 1 => p - 1 \in 1..Len(s)
          BY <1>3, PlaceBefore
        <5>3. ~(p # 1 /\ s[j] = s[p - 1])
          BY <4>3, <5>1, <5>2
        <5>4. node'[s[j]].sibling = node[s[j]].sibling
          BY <1>2, <1>10, <4>4, <5>3
        <5> QED BY <4>1, <4>2, <4>4, <4>5, <5>1, <5>4
      <4> QED BY <4>6, <4>7
    <3> QED BY <3>1, <3>2
  <2> QED BY <2>1, <2>2 DEF ListsLinked
<1>15. Move(kids, new, n)
  <2>1. ASSUME NEW c \in Node PROVE NoRepeat(new[c]) /\ Entries(new[c]) \ {n} = Entries(kids[c]) \ {n}
    <3>1. NoRepeat(kids[c])
      BY <1>1 DEF ListsApart
    <3>2. CASE c = d
      BY <1>2, <1>4, <1>6, <3>2
    <3>3. CASE c # d
      BY <1>6, <3>1, <3>3
    <3> QED BY <3>2, <3>3
  <2>2. \A c \in Node : n \notin Entries(new[c])
    <3>1. \A c \in Node \ {d} : n \notin Entries(kids[c])
      BY <1>1, <1>8 DEF ListsApart
    <3> QED BY <1>4, <1>6, <3>1
  <2>3. ASSUME NEW c \in Node, Entries(new[c]) # {} PROVE node'[c].live /\ (c = Root \/ node'[c].name \in DirName)
    <3>1. Entries(kids[c]) # {} /\ c # n
      BY <1>2, <1>4, <1>6, <1>7, <1>8, <2>3
    <3>2. node[c].live /\ (c = Root \/ node[c].name \in DirName)
      BY <1>1, <3>1 DEF ListsLive
    <3> QED BY <1>10, <3>1, <3>2
  <2> QED BY <1>9, <1>10, <2>1, <2>2, <2>3 DEF Move
<1>16. ListsInv(new)'
  BY <1>6, <1>14, <1>15, ListsMove
<1> QED BY <1>6, <1>16

-----------------------------------------------------------------------------
(* Steps that leave the lists as they are. *)

LEMMA SetOpen ==
    ASSUME NEW r \in NodeType, NEW v \in Nat
    PROVE  LET e == [r EXCEPT !.open = v] IN
           /\ e \in NodeType /\ e.open = v /\ e.live = r.live /\ e.name = r.name /\ e.sibling = r.sibling
           /\ e.child = r.child /\ e.ref = r.ref
BY DEF NodeType

LEMMA SetChild ==
    ASSUME NEW r \in NodeType, NEW v \in Node \cup {Nil}
    PROVE  LET e == [r EXCEPT !.child = v] IN
           /\ e \in NodeType /\ e.open = r.open /\ e.live = r.live /\ e.name = r.name /\ e.sibling = r.sibling
           /\ e.child = v /\ e.ref = r.ref
BY DEF NodeType

LEMMA SetSibling ==
    ASSUME NEW r \in NodeType, NEW v \in Node \cup {Nil}
    PROVE  LET e == [r EXCEPT !.sibling = v] IN
           /\ e \in NodeType /\ e.open = r.open /\ e.live = r.live /\ e.name = r.name /\ e.sibling = v
           /\ e.child = r.child /\ e.ref = r.ref
BY DEF NodeType

LEMMA SetRef ==
    ASSUME NEW r \in NodeType, NEW v \in {<<>>} \cup ({"child", "sibling"} \X Node)
    PROVE  LET e == [r EXCEPT !.ref = v] IN
           /\ e \in NodeType /\ e.open = r.open /\ e.live = r.live /\ e.name = r.name /\ e.sibling = r.sibling
           /\ e.child = r.child /\ e.ref = v
BY DEF NodeType

LEMMA openedIs ==
    ASSUME NEW t \in [Node -> NodeType], NEW n \in Node
    PROVE  LET u == opened(t, n) IN
           /\ u \in [Node -> NodeType] /\ \A q \in Node \ {n} : u[q] = t[q]
           /\ u[n].open = (t[n].open + 1) % SizeMod
           /\ u[n].live = t[n].live /\ u[n].name = t[n].name /\ u[n].sibling = t[n].sibling
           /\ u[n].child = t[n].child /\ u[n].ref = t[n].ref
<1>1. t[n] \in NodeType
  OBVIOUS
<1>2. t[n].open \in Nat
  BY <1>1 DEF NodeType
<1>3. SizeMod \in Nat /\ 0 < SizeMod
  BY TmpfsAssumption, FS_CardinalityType
<1>4. PICK v \in Nat : v = (t[n].open + 1) % SizeMod
  BY <1>2, <1>3
<1>5. PICK e : e = [t[n] EXCEPT !.open = v]
  OBVIOUS
<1>6. /\ e \in NodeType /\ e.open = v /\ e.live = t[n].live /\ e.name = t[n].name /\ e.sibling = t[n].sibling
      /\ e.child = t[n].child /\ e.ref = t[n].ref
  BY <1>1, <1>5, SetOpen
<1>7. opened(t, n) = [t EXCEPT ![n] = e]
  BY <1>4, <1>5 DEF opened
<1> QED BY <1>4, <1>6, <1>7

\* Whatever it was that was opened, its count is exact.
LEMMA CountedOpen ==
    ASSUME NodesInv, NEW h \in Hid, hid[h] = Nil, NEW n \in Node \ {Root}, hid' = [hid EXCEPT ![h] = n],
           removes' \in Nat, node' \in [Node -> NodeType],
           \A q \in Node \ {n} : node'[q].open = node[q].open, node'[n].open = (node[n].open + 1) % SizeMod,
           node'[Root].live, node'[Root].sibling = Nil, \A q \in Node : ~node'[q].live => node'[q] = Free
    PROVE  NodesInv'
<1>1. Root \in Node
  BY TmpfsAssumption
<1>2. /\ hid' \in [Hid -> Node \cup {Nil}]
      /\ \A m \in Node \ {n} : {g \in Hid : hid'[g] = m} = {g \in Hid : hid[g] = m}
  BY HandleOpens
<1>3. PICK c : c = Cardinality({g \in Hid : hid[g] = n})
  OBVIOUS
<1>4. c \in Nat /\ c + 1 < SizeMod /\ SizeMod \in Nat /\ Cardinality({g \in Hid : hid'[g] = n}) = c + 1
  BY <1>3, HandleOpens
<1>5. \A q \in Node \ {Root} : node[q].open = Cardinality({g \in Hid : hid[g] = q})
  BY DEF NodesInv
<1>6. node[n].open = c
  BY <1>3, <1>5
<1>7. (c + 1) % SizeMod = c + 1
  BY <1>4
<1>8. ASSUME NEW q \in Node \ {Root} PROVE node'[q].open = Cardinality({g \in Hid : hid'[g] = q})
  <2>1. CASE q = n
    BY <1>4, <1>6, <1>7, <2>1
  <2>2. CASE q # n
    BY <1>2, <1>5, <2>2
  <2> QED BY <2>1, <2>2
<1>9. node'[Root].open = 0
  BY <1>1 DEF NodesInv
<1> QED BY <1>2, <1>8, <1>9 DEF NodesInv

LEMMA RootOpens ==
    ASSUME TmpfsInv, NEW h \in Hid, OpenRoot(h)
    PROVE  TmpfsInv'
<1>1. NodesInv /\ KeptWhileOpen
  BY DEF TmpfsInv
<1>2. PICK kids \in [Node -> Seq(Node)] : ListsInv(kids)
  BY DEF TmpfsInv
<1>3. Root \in Node /\ Nil \notin Node
  BY TmpfsAssumption
<1>4. hid[h] = Nil /\ hid' = [hid EXCEPT ![h] = Root] /\ node' = node /\ removes' = removes
  BY DEF OpenRoot
<1>5. /\ hid' \in [Hid -> Node \cup {Nil}]
      /\ \A m \in Node \ {Root} : {g \in Hid : hid'[g] = m} = {g \in Hid : hid[g] = m}
  BY <1>1, <1>3, <1>4, HandleOpens
<1>6. NodesInv'
  BY <1>1, <1>4, <1>5 DEF NodesInv
<1>7. KeptWhileOpen'
  BY <1>1, <1>3, <1>4 DEF KeptWhileOpen, NodesInv
<1>8. ListsInv(kids)'
  BY <1>2, <1>4, ListsStay DEF SameTree
<1> QED BY <1>2, <1>6, <1>7, <1>8 DEF TmpfsInv

\* A live node that is not the root is in a list, and so its ref is not NULL.
LEMMA LiveIsLinked ==
    ASSUME NEW kids \in [Node -> Seq(Node)], ListsInv(kids), NEW n \in Node \ {Root}, node[n].live
    PROVE  node[n].ref # <<>> /\ \E d \in Node : n \in Entries(kids[d])
<1>1. \E d \in Node : n \in Entries(kids[d])
  BY DEF ListsInv, ListsLive
<1> QED BY <1>1 DEF ListsInv, ListsLive

LEMMA CountDown ==
    ASSUME NEW c \in Nat \ {0}, NEW m \in Nat, c < m
    PROVE  (c + m - 1) % m = c - 1 /\ c - 1 \in Nat
<1>1. PICK x \in Nat : x = c + m - 1
  OBVIOUS
<1>2. m <= x /\ x < 2 * m
  BY <1>1
<1>3. x % m = x - m
  BY <1>2
<1> QED BY <1>1, <1>3

\* A handle is closed whose node stays.
LEMMA HandleDrops ==
    ASSUME TmpfsInv, NEW h \in Hid, hid[h] # Nil, node' = node_close(node, hid[h]), hid' = [hid EXCEPT ![h] = Nil],
           removes' \in Nat
    PROVE  TmpfsInv'
<1>1. NodesInv /\ KeptWhileOpen
  BY DEF TmpfsInv
<1>2. PICK kids \in [Node -> Seq(Node)] : ListsInv(kids)
  BY DEF TmpfsInv
<1>3. Root \in Node /\ Nil \notin Node
  BY TmpfsAssumption
<1>4. PICK n \in Node : n = hid[h]
  BY <1>1 DEF NodesInv
<1>5. node[n].live
  BY <1>1, <1>4 DEF KeptWhileOpen
<1>6. PICK c : c = Cardinality({g \in Hid : hid[g] = n})
  OBVIOUS
<1>7. /\ hid' \in [Hid -> Node \cup {Nil}]
      /\ c \in Nat \ {0} /\ c < SizeMod /\ SizeMod \in Nat /\ Cardinality({g \in Hid : hid'[g] = n}) = c - 1
      /\ \A m \in Node \ {n} : {g \in Hid : hid'[g] = m} = {g \in Hid : hid[g] = m}
  BY <1>1, <1>4, <1>6, HandleCloses
<1>8. node \in [Node -> NodeType] /\ hid \in [Hid -> Node \cup {Nil}]
  BY <1>1 DEF NodesInv
<1>9. CASE n = Root
  <2>1. node' = node
    BY <1>4, <1>9 DEF node_close
  <2>2. NodesInv'
    BY <1>1, <1>7, <1>9, <2>1 DEF NodesInv
  <2>3. KeptWhileOpen'
    BY <1>1, <1>8, <2>1 DEF KeptWhileOpen
  <2>4. ListsInv(kids)'
    BY <1>2, <2>1, ListsStay DEF SameTree
  <2> QED BY <1>2, <2>2, <2>3, <2>4 DEF TmpfsInv
<1>10. CASE n # Root
  <2>1. node[n].ref # <<>>
    BY <1>2, <1>5, <1>10, LiveIsLinked
  <2>2. node[n].open = c
    BY <1>1, <1>6, <1>10 DEF NodesInv
  <2>3. node' = [node EXCEPT ![n].open = (node[n].open + SizeMod - 1) % SizeMod]
    BY <1>4, <1>5, <1>10, <2>1 DEF node_close
  <2>4. (c + SizeMod - 1) % SizeMod = c - 1 /\ c - 1 \in Nat
    BY <1>7, CountDown
  <2>5. PICK e : e = [node[n] EXCEPT !.open = c - 1]
    OBVIOUS
  <2>6. /\ e \in NodeType /\ e.open = c - 1 /\ e.live = node[n].live /\ e.name = node[n].name
        /\ e.sibling = node[n].sibling /\ e.child = node[n].child /\ e.ref = node[n].ref
    BY <1>8, <2>4, <2>5, SetOpen
  <2>7. node' = [node EXCEPT ![n] = e]
    BY <2>2, <2>3, <2>4, <2>5
  <2>8. node'[n] = e /\ \A q \in Node \ {n} : node'[q] = node[q]
    BY <1>8, <2>7
  <2>9. node' \in [Node -> NodeType]
    BY <1>8, <2>6, <2>7
  <2>10. SameTree
    BY <2>6, <2>8 DEF SameTree
  <2>11. NodesInv'
    <3>1. \A q \in Node : ~node'[q].live => node'[q] = Free
      BY <1>1, <1>5, <2>6, <2>8 DEF NodesInv
    <3>2. node'[Root].live /\ node'[Root].open = 0 /\ node'[Root].sibling = Nil
      BY <1>1, <1>3, <1>10, <2>8 DEF NodesInv
    <3>3. \A q \in Node \ {Root} : node'[q].open = Cardinality({g \in Hid : hid'[g] = q})
      <4>1. \A q \in Node \ {Root} : node[q].open = Cardinality({g \in Hid : hid[g] = q})
        BY <1>1 DEF NodesInv
      <4>2. ASSUME NEW q \in Node \ {Root} PROVE node'[q].open = Cardinality({g \in Hid : hid'[g] = q})
        <5>1. CASE q = n
          BY <1>7, <2>6, <2>8, <5>1
        <5>2. CASE q # n
          BY <1>7, <2>8, <4>1, <5>2
        <5> QED BY <5>1, <5>2
      <4> QED BY <4>2
    <3> QED BY <1>7, <2>9, <3>1, <3>2, <3>3 DEF NodesInv
  <2>12. KeptWhileOpen'
    <3>1. ASSUME NEW g \in Hid, hid'[g] # Nil PROVE node'[hid'[g]].live
      <4>1. hid'[g] = hid[g] /\ hid[g] \in Node
        BY <1>8, <3>1
      <4> QED BY <1>1, <2>10, <3>1, <4>1 DEF KeptWhileOpen, SameTree
    <3> QED BY <3>1 DEF KeptWhileOpen
  <2>13. ListsInv(kids)'
    BY <1>2, <2>10, ListsStay
  <2> QED BY <1>2, <2>11, <2>12, <2>13 DEF TmpfsInv
<1> QED BY <1>9, <1>10

-----------------------------------------------------------------------------
(* tmpfs_open. *)

\* node_getchild finds the entry of a name, if there is one.
LEMMA getchildIs ==
    ASSUME NEW kids \in [Node -> Seq(Node)], ListsInv(kids), NEW d \in Node, NEW x
    PROVE  \/ node_getchild(d, x) = Nil /\ \A q \in Entries(kids[d]) : node[q].name # x
           \/ /\ node_getchild(d, x) \in Node \ {Root} /\ node[node_getchild(d, x)].live
              /\ node[node_getchild(d, x)].name = x
<1>1. ListsLinked(kids) /\ ListsApart(kids) /\ ListsLive(kids)
  BY DEF ListsInv
<1>2. PICK s \in Seq(Node) : s = kids[d] /\ s = children(d)
  BY <1>1, childrenAre
<1>3. PICK n \in Nat : n = Len(s) /\ Entries(s) = {s[i] : i \in 1..n}
  BY LenProperties DEF Entries
<1>4. PICK S : S = {i \in 1..n : node[s[i]].name = x}
  OBVIOUS
<1>5. PICK k : k = (IF S # {} THEN Min(S) ELSE 0)
  OBVIOUS
<1>6. node_getchild(d, x) = IF k = 0 THEN Nil ELSE s[k]
  BY <1>2, <1>3, <1>4, <1>5 DEF node_getchild, SelectInSeq
<1>7. CASE S = {}
  <2>1. node_getchild(d, x) = Nil
    BY <1>5, <1>6, <1>7
  <2>2. \A i \in 1..n : node[s[i]].name # x
    BY <1>4, <1>7
  <2> QED BY <1>2, <1>3, <2>1, <2>2
<1>8. CASE S # {}
  <2>1. S \in SUBSET Nat
    BY <1>4
  <2>2. \E y \in S : \A z \in S : y <= z
    BY <1>8, <2>1, SmallestExists
  <2>3. k = CHOOSE y \in S : \A z \in S : y <= z
    BY <1>5, <1>8 DEF Min
  <2>4. k \in S
    BY <2>2, <2>3
  <2>5. k \in 1..n /\ k # 0 /\ node[s[k]].name = x
    BY <1>4, <2>4
  <2>6. node_getchild(d, x) = s[k] /\ s[k] \in Entries(s)
    BY <1>3, <1>6, <2>5
  <2>7. s[k] \in Node /\ s[k] # Root /\ node[s[k]].live
    BY <1>1, <1>2, <2>6, ElementsAre DEF ListsLive
  <2> QED BY <2>5, <2>6, <2>7
<1> QED BY <1>7, <1>8

LEMMA FileOpens ==
    ASSUME TmpfsInv, NEW h \in Hid, hid[h] = Nil, removes' = removes, NEW n \in Node \ {Root}, node[n].live,
           node' = opened(node, n), hid' = [hid EXCEPT ![h] = n]
    PROVE  TmpfsInv'
<1>1. NodesInv /\ KeptWhileOpen
  BY DEF TmpfsInv
<1>2. PICK kids \in [Node -> Seq(Node)] : ListsInv(kids)
  BY DEF TmpfsInv
<1>3. Root \in Node /\ Nil \notin Node
  BY TmpfsAssumption
<1>4. node \in [Node -> NodeType] /\ hid \in [Hid -> Node \cup {Nil}] /\ removes \in Nat
  BY <1>1 DEF NodesInv
<1>5. /\ node' \in [Node -> NodeType] /\ \A q \in Node \ {n} : node'[q] = node[q]
      /\ node'[n].open = (node[n].open + 1) % SizeMod
      /\ node'[n].live = node[n].live /\ node'[n].name = node[n].name /\ node'[n].sibling = node[n].sibling
      /\ node'[n].child = node[n].child /\ node'[n].ref = node[n].ref
  BY <1>4, openedIs
<1>6. SameTree
  BY <1>5 DEF SameTree
<1>7. NodesInv'
  <2>1. node'[Root].live /\ node'[Root].sibling = Nil
    BY <1>1, <1>3, <1>6 DEF SameTree, NodesInv
  <2>2. \A q \in Node : ~node'[q].live => node'[q] = Free
    BY <1>1, <1>5 DEF NodesInv
  <2> QED BY <1>1, <1>4, <1>5, <2>1, <2>2, CountedOpen
<1>8. KeptWhileOpen'
  BY <1>1, <1>4, <1>6 DEF KeptWhileOpen, SameTree
<1>9. ListsInv(kids)'
  BY <1>2, <1>6, ListsStay
<1> QED BY <1>2, <1>7, <1>8, <1>9 DEF TmpfsInv

LEMMA FirstIsLive ==
    ASSUME NEW kids \in [Node -> Seq(Node)], ListsInv(kids), NEW d \in Node, node[d].child # Nil
    PROVE  node[d].child \in Entries(kids[d]) /\ node[d].child \in Node /\ node[node[d].child].live
<1>1. node[d].child = Follow(kids[d], 1)
  BY DEF ListsInv, ListsLinked
<1>2. 1 \in 1..Len(kids[d]) /\ node[d].child = kids[d][1]
  BY <1>1 DEF Follow
<1>3. node[d].child \in Entries(kids[d])
  BY <1>2 DEF Entries
<1> QED BY <1>3, ElementsAre DEF ListsInv, ListsLive

\* What a new node n changes.
Created(d, x, n) ==
    LET old == node[d].child
        new == [Free EXCEPT !.live = TRUE, !.name = x, !.sibling = old, !.ref = <<"child", d>>]
        linked == [node EXCEPT ![n] = new, ![d].child = n]
    IN node' = opened(IF old = Nil THEN linked ELSE [linked EXCEPT ![old].ref = <<"sibling", n>>], n)

LEMMA FileCreated ==
    ASSUME TmpfsInv, NEW h \in Hid, hid[h] = Nil, removes' = removes, NEW d \in Node, node[d].live,
           d = Root \/ node[d].name \in DirName, NEW x \in Name, node_getchild(d, x) = Nil,
           NEW n \in Node, ~node[n].live, Created(d, x, n), hid' = [hid EXCEPT ![h] = n]
    PROVE  TmpfsInv'
<1>1. NodesInv /\ KeptWhileOpen
  BY DEF TmpfsInv
<1>2. PICK kids \in [Node -> Seq(Node)] : ListsInv(kids)
  BY DEF TmpfsInv
<1>3. Root \in Node /\ Nil \notin Node
  BY TmpfsAssumption
<1>4. node \in [Node -> NodeType] /\ hid \in [Hid -> Node \cup {Nil}] /\ removes \in Nat
  BY <1>1 DEF NodesInv
<1>5. n \in Node /\ n # Root /\ n # d /\ node[n] = Free /\ node[n].open = 0 /\ ~node[n].live
  <2>1. n \in Node /\ n # Root /\ n # d /\ node[n] = Free /\ ~node[n].live
    BY <1>1 DEF NodesInv
  <2> QED BY <2>1 DEF Free
<1>6. PICK old \in Node \cup {Nil} : old = node[d].child
  BY <1>1, NodeHas
<1>7. PICK new : new = [Free EXCEPT !.live = TRUE, !.name = x, !.sibling = old, !.ref = <<"child", d>>]
  OBVIOUS
<1>8. /\ new.live = TRUE /\ new.name = x /\ new.open = 0 /\ new.sibling = old /\ new.child = Nil
      /\ new.ref = <<"child", d>>
  BY <1>7 DEF Free
<1>9. new \in NodeType
  BY <1>7 DEF Free, NodeType
<1>10. PICK e : e = [node[d] EXCEPT !.child = n]
  OBVIOUS
<1>11. /\ e \in NodeType /\ e.open = node[d].open /\ e.live = node[d].live /\ e.name = node[d].name
       /\ e.sibling = node[d].sibling /\ e.child = n /\ e.ref = node[d].ref
  <2>1. node[d] \in NodeType /\ n \in Node \cup {Nil}
    BY <1>4
  <2> QED BY <1>10, <2>1, SetChild
<1>12. PICK linked : linked = [node EXCEPT ![n] = new, ![d].child = n]
  OBVIOUS
<1>13. linked = [node EXCEPT ![n] = new, ![d] = e]
  BY <1>4, <1>5, <1>10, <1>12
<1>14. /\ linked \in [Node -> NodeType] /\ linked[n] = new /\ linked[d] = e
       /\ \A q \in Node : q # n /\ q # d => linked[q] = node[q]
  BY <1>4, <1>5, <1>9, <1>11, <1>13
<1>15. old # Nil => old \in Node \ {n} /\ node[old].live
  BY <1>2, <1>5, <1>6, FirstIsLive
<1>16. PICK t : t = IF old = Nil THEN linked ELSE [linked EXCEPT ![old].ref = <<"sibling", n>>]
  OBVIOUS
<1>17. /\ t \in [Node -> NodeType] /\ t[n] = new
       /\ \A q \in Node \ {n} : /\ t[q].live = linked[q].live /\ t[q].name = linked[q].name
                                /\ t[q].sibling = linked[q].sibling /\ t[q].child = linked[q].child
                                /\ t[q].open = linked[q].open /\ (linked[q].ref # <<>> => t[q].ref # <<>>)
  <2>1. CASE old = Nil
    BY <1>14, <1>16, <2>1
  <2>2. CASE old # Nil
    <3>1. linked[old] \in NodeType /\ <<"sibling", n>> \in {"child", "sibling"} \X Node /\ <<"sibling", n>> # <<>>
      BY <1>5, <1>14, <1>15, <2>2
    <3>2. PICK v : v = <<"sibling", n>> /\ v \in {<<>>} \cup ({"child", "sibling"} \X Node) /\ v # <<>>
      BY <3>1
    <3>3. PICK f : f = [linked[old] EXCEPT !.ref = v]
      OBVIOUS
    <3>4. /\ f \in NodeType /\ f.open = linked[old].open /\ f.live = linked[old].live /\ f.name = linked[old].name
          /\ f.sibling = linked[old].sibling /\ f.child = linked[old].child /\ f.ref = v
      BY <3>1, <3>2, <3>3, SetRef
    <3>5. t = [linked EXCEPT ![old] = f]
      BY <1>16, <2>2, <3>2, <3>3
    <3>6. t[old] = f /\ \A q \in Node : q # old => t[q] = linked[q]
      BY <1>14, <1>15, <2>2, <3>5
    <3>7. t \in [Node -> NodeType]
      BY <1>14, <3>4, <3>5
    <3>8. ASSUME NEW q \in Node \ {n}
          PROVE  /\ t[q].live = linked[q].live /\ t[q].name = linked[q].name
                 /\ t[q].sibling = linked[q].sibling /\ t[q].child = linked[q].child
                 /\ t[q].open = linked[q].open /\ (linked[q].ref # <<>> => t[q].ref # <<>>)
      <4>1. CASE q = old
        BY <3>2, <3>4, <3>6, <4>1
      <4>2. CASE q # old
        BY <3>6, <4>2
      <4> QED BY <4>1, <4>2
    <3>9. t[n] = new
      BY <1>5, <1>14, <1>15, <2>2, <3>6
    <3> QED BY <3>7, <3>8, <3>9
  <2> QED BY <2>1, <2>2
<1>18. node' = opened(t, n)
  BY <1>6, <1>7, <1>12, <1>16 DEF Created
<1>19. /\ node' \in [Node -> NodeType] /\ \A q \in Node \ {n} : node'[q] = t[q]
       /\ node'[n].open = (t[n].open + 1) % SizeMod
       /\ node'[n].live = t[n].live /\ node'[n].name = t[n].name /\ node'[n].sibling = t[n].sibling
       /\ node'[n].child = t[n].child /\ node'[n].ref = t[n].ref
  BY <1>5, <1>17, <1>18, openedIs
<1>20. ASSUME NEW q \in Node \ {n}
       PROVE  /\ node'[q].live = node[q].live /\ node'[q].name = node[q].name
              /\ node'[q].sibling = node[q].sibling /\ (node[q].ref # <<>> => node'[q].ref # <<>>)
              /\ node'[q].child = IF q = d THEN n ELSE node[q].child
              /\ node'[q].open = node[q].open
  <2>1. /\ node'[q].live = linked[q].live /\ node'[q].name = linked[q].name
        /\ node'[q].sibling = linked[q].sibling /\ node'[q].child = linked[q].child
        /\ node'[q].open = linked[q].open /\ (linked[q].ref # <<>> => node'[q].ref # <<>>)
    BY <1>17, <1>19
  <2>2. CASE q = d
    BY <1>11, <1>14, <2>1, <2>2
  <2>3. CASE q # d
    BY <1>14, <2>1, <2>3
  <2> QED BY <2>2, <2>3
<1>21. /\ node'[n].live /\ node'[n].name = x /\ node'[n].sibling = node[d].child /\ node'[n].child = Nil
       /\ node'[n].ref # <<>> /\ node'[n].open = (node[n].open + 1) % SizeMod
  BY <1>5, <1>6, <1>8, <1>17, <1>19
<1>22. Grown(d, n, x)
  BY <1>5, <1>20, <1>21 DEF Grown
<1>23. \A q \in Entries(kids[d]) : node[q].name # x
  <2>1. \/ node_getchild(d, x) = Nil /\ \A q \in Entries(kids[d]) : node[q].name # x
        \/ node_getchild(d, x) \in Node \ {Root}
    BY <1>2, getchildIs
  <2> QED BY <1>3, <2>1
<1>24. \E k \in [Node -> Seq(Node)] : ListsInv(k)'
  BY <1>1, <1>2, <1>5, <1>22, <1>23, ListsGrow
<1>25. NodesInv'
  <2>1. node'[Root].live /\ node'[Root].sibling = Nil
    BY <1>1, <1>3, <1>5, <1>20 DEF NodesInv
  <2>2. ASSUME NEW q \in Node, ~node'[q].live PROVE node'[q] = Free
    <3>1. q # n /\ q # d /\ ~node[q].live
      BY <1>20, <1>21, <2>2
    <3>3. t[q] = linked[q]
      <4>1. CASE old = Nil
        BY <1>16, <4>1
      <4>2. CASE old # Nil
        BY <1>14, <1>15, <1>16, <3>1, <4>2
      <4> QED BY <4>1, <4>2
    <3>4. node'[q] = node[q]
      BY <1>14, <1>19, <3>1, <3>3
    <3> QED BY <1>1, <3>1, <3>4 DEF NodesInv
  <2>3. node' \in [Node -> NodeType] /\ removes' \in Nat /\ n \in Node \ {Root}
    BY <1>4, <1>5, <1>19
  <2>4. \A q \in Node \ {n} : node'[q].open = node[q].open
    BY <1>20
  <2>5. node'[n].open = (node[n].open + 1) % SizeMod
    BY <1>21
  <2> QED BY <1>1, <2>1, <2>2, <2>3, <2>4, <2>5, CountedOpen
<1>26. KeptWhileOpen'
  <2>1. ASSUME NEW g \in Hid, hid'[g] # Nil PROVE node'[hid'[g]].live
    <3>1. CASE g = h
      BY <1>4, <1>21, <3>1
    <3>2. CASE g # h
      <4>1. hid'[g] = hid[g] /\ hid[g] \in Node /\ node[hid[g]].live
        BY <1>1, <1>4, <2>1, <3>2 DEF KeptWhileOpen
      <4> QED BY <1>5, <1>20, <4>1
    <3> QED BY <3>1, <3>2
  <2> QED BY <2>1 DEF KeptWhileOpen
<1> QED BY <1>24, <1>25, <1>26 DEF TmpfsInv

LEMMA PathOpens ==
    ASSUME TmpfsInv, NEW h \in Hid, NEW x \in Name, NEW create \in BOOLEAN,
           NEW dirs \in {<<>>} \cup {<<d>> : d \in DirName}, OpenPath(h, dirs, x, create)
    PROVE  TmpfsInv'
<1>1. NodesInv
  BY DEF TmpfsInv
<1>2. PICK kids \in [Node -> Seq(Node)] : ListsInv(kids)
  BY DEF TmpfsInv
<1>3. Root \in Node /\ Nil \notin Node /\ node[Root].live
  BY <1>1, TmpfsAssumption DEF NodesInv
<1>4. PICK at : at = IF dirs = <<>> THEN Root ELSE node_getchild(Root, dirs[1])
  OBVIOUS
<1>5. hid[h] = Nil /\ at # Nil /\ tmpfs_open(h, at, x, create) /\ removes' = removes
  BY <1>4 DEF OpenPath
<1>6. at \in Node /\ node[at].live /\ (at = Root \/ node[at].name \in DirName)
  <2>1. CASE dirs = <<>>
    BY <1>3, <1>4, <2>1
  <2>2. CASE dirs # <<>>
    <3>1. PICK y \in DirName : dirs = <<y>>
      BY <2>2
    <3>2. at = node_getchild(Root, y)
      BY <1>4, <2>2, <3>1
    <3>3. at \in Node \ {Root} /\ node[at].live /\ node[at].name = y
      BY <1>2, <1>3, <1>5, <3>2, getchildIs
    <3> QED BY <3>3
  <2> QED BY <2>1, <2>2
<1>7. PICK found : found = node_getchild(at, x)
  OBVIOUS
<1>8. CASE found # Nil /\ node' = opened(node, found) /\ hid' = [hid EXCEPT ![h] = found]
  <2>1. found \in Node \ {Root} /\ node[found].live
    BY <1>2, <1>6, <1>7, <1>8, getchildIs
  <2> QED BY <1>5, <1>8, <2>1, FileOpens
<1>9. CASE found = Nil /\ \E n \in {k \in Node : ~node[k].live} : Created(at, x, n) /\ hid' = [hid EXCEPT ![h] = n]
  <2>1. PICK n \in {k \in Node : ~node[k].live} : Created(at, x, n) /\ hid' = [hid EXCEPT ![h] = n]
    BY <1>9
  <2>2. n \in Node /\ ~node[n].live
    OBVIOUS
  <2> QED BY <1>5, <1>6, <1>7, <1>9, <2>1, <2>2, FileCreated
<1>10. \/ found # Nil /\ node' = opened(node, found) /\ hid' = [hid EXCEPT ![h] = found]
       \/ found = Nil /\ \E n \in {k \in Node : ~node[k].live} : Created(at, x, n) /\ hid' = [hid EXCEPT ![h] = n]
  BY <1>5, <1>7, Zenon DEF tmpfs_open, Created
<1> QED BY <1>8, <1>9, <1>10

-----------------------------------------------------------------------------
(* node_remove. *)

\* The node m that ref names is the directory or the node before.
Unlinked(n, m) ==
    \/ /\ node[n].ref[1] = "child" /\ node[m].child = n
       /\ node' = [[node EXCEPT ![m].child = node[n].sibling] EXCEPT ![n] = Free]
    \/ /\ node[n].ref[1] = "sibling" /\ node[m].sibling = n
       /\ node' = [[node EXCEPT ![m].sibling = node[n].sibling] EXCEPT ![n] = Free]

LEMMA RemoveUnlinks ==
    ASSUME TmpfsInv, NEW h \in Hid, NEW n \in Node \ {Root}, hid[h] = n, RemoveFile(h), RemovesCleanly(h),
           node[n].ref # <<>>, node[n].child = Nil
    PROVE  /\ hid' = [hid EXCEPT ![h] = Nil] /\ removes' = removes + 1 /\ \A g \in Hid : hid[g] = n => g = h
           /\ \E m \in Node : Unlinked(n, m)
<1>1. NodesInv /\ KeptWhileOpen
  BY DEF TmpfsInv
<1>2. node \in [Node -> NodeType] /\ hid \in [Hid -> Node \cup {Nil}] /\ Nil \notin Node
  BY <1>1, TmpfsAssumption DEF NodesInv
<1>3. node[n].live
  BY <1>1, <1>2 DEF KeptWhileOpen
<1>4. \A g \in Hid : hid[g] = n => g = h
  BY DEF RemovesCleanly
<1>5. node[n].open = 1
  <2>1. {g \in Hid : hid[g] = n} = {h}
    BY <1>4
  <2>2. Cardinality({h}) = 1
    BY FS_Singleton
  <2>3. node[n].open = Cardinality({g \in Hid : hid[g] = n})
    BY <1>1 DEF NodesInv
  <2> QED BY <2>1, <2>2, <2>3
<1>6. PICK by : by = node[n].ref /\ by \in {"child", "sibling"} \X Node
  BY <1>1, NodeHas
<1>7. PICK m \in Node : m = by[2] /\ by[1] \in {"child", "sibling"}
  BY <1>6
<1>8. PICK t : t = IF by[1] = "child" THEN [node EXCEPT ![m].child = node[n].sibling]
                                      ELSE [node EXCEPT ![m].sibling = node[n].sibling]
  OBVIOUS
<1>9. unlinked(node, n) = [t EXCEPT ![n].ref = <<>>]
  BY <1>6, <1>7, <1>8 DEF unlinked
<1>10. t \in [Node -> NodeType] /\ t[n].open = 1 /\ t[n].live
  <2>1. node[n].sibling \in Node \cup {Nil} /\ node[m] \in NodeType
    BY <1>1, NodeHas
  <2>2. CASE by[1] = "child"
    <3>1. PICK e : e = [node[m] EXCEPT !.child = node[n].sibling]
      OBVIOUS
    <3>2. e \in NodeType /\ e.open = node[m].open /\ e.live = node[m].live
      BY <2>1, <3>1, SetChild
    <3>3. t = [node EXCEPT ![m] = e]
      BY <1>8, <2>2, <3>1
    <3> QED BY <1>2, <1>3, <1>5, <3>2, <3>3
  <2>3. CASE by[1] # "child"
    <3>1. PICK e : e = [node[m] EXCEPT !.sibling = node[n].sibling]
      OBVIOUS
    <3>2. e \in NodeType /\ e.open = node[m].open /\ e.live = node[m].live
      BY <2>1, <3>1, SetSibling
    <3>3. t = [node EXCEPT ![m] = e]
      BY <1>8, <2>3, <3>1
    <3> QED BY <1>2, <1>3, <1>5, <3>2, <3>3
  <2> QED BY <2>2, <2>3
<1>11. PICK u : u = unlinked(node, n)
  OBVIOUS
<1>12. u = [t EXCEPT ![n] = [t[n] EXCEPT !.ref = <<>>]] /\ t[n] \in NodeType
  BY <1>9, <1>10, <1>11
<1>13. u[n].ref = <<>> /\ u[n].open = 1 /\ u[n].live
  <2>1. PICK e : e = [t[n] EXCEPT !.ref = <<>>]
    OBVIOUS
  <2>2. e.ref = <<>> /\ e.open = t[n].open /\ e.live = t[n].live
    BY <1>12, <2>1, SetRef
  <2> QED BY <1>10, <1>12, <2>1, <2>2
<1>14. node_close(u, n) = [u EXCEPT ![n] = Free]
  BY <1>13 DEF node_close
<1>15. [u EXCEPT ![n] = Free] = [t EXCEPT ![n] = Free]
  BY <1>10, <1>12
<1>16. PICK w : w = [t EXCEPT ![n] = Free]
  OBVIOUS
<1>17. node_close(w, n) = w
  <2>1. ~w[n].live
    BY <1>10, <1>16 DEF Free
  <2> QED BY <2>1 DEF node_close
<1>18. /\ node' = node_close(node_close(u, n), n) /\ removes' = removes + 1 /\ hid' = [hid EXCEPT ![h] = Nil]
  BY <1>3, <1>11 DEF RemoveFile
<1>19. node' = [t EXCEPT ![n] = Free]
  BY <1>14, <1>15, <1>16, <1>17, <1>18
<1>20. Unlinked(n, m)
  <2>1. IF by[1] = "child" THEN node[m].child = n ELSE node[m].sibling = n
    BY <1>6, <1>7 DEF RemovesCleanly
  <2> QED BY <1>6, <1>7, <1>8, <1>19, <2>1 DEF Unlinked
<1> QED BY <1>4, <1>18, <1>20

LEMMA RemoveShrinks ==
    ASSUME TmpfsInv, NEW kids \in [Node -> Seq(Node)], ListsInv(kids), NEW n \in Node \ {Root}, node[n].live,
           node[n].child = Nil, NEW m \in Node, Unlinked(n, m)
    PROVE  /\ \E d \in Node : \E p \in 1..Len(kids[d]) : n = kids[d][p] /\ Shrunk(kids, d, p, n)
           /\ \A q \in Node \ {n} : node'[q].open = node[q].open /\ (~node[q].live => node'[q] = node[q])
           /\ node' \in [Node -> NodeType] /\ node'[Root].sibling = Nil
<1>1. NodesInv
  BY DEF TmpfsInv
<1>2. node \in [Node -> NodeType] /\ Root \in Node /\ Nil \notin Node
  BY <1>1, TmpfsAssumption DEF NodesInv
<1>3. /\ \A c \in Node : node[c].child = Follow(kids[c], 1)
      /\ \A c \in Node : \A k \in 1..Len(kids[c]) : node[kids[c][k]].sibling = Follow(kids[c], k + 1)
  BY DEF ListsInv, ListsLinked
<1>4. /\ \A c \in Node : NoRepeat(kids[c])
      /\ \A c, d \in Node : \A q : q \in Entries(kids[c]) /\ q \in Entries(kids[d]) => c = d
  BY DEF ListsInv, ListsApart
<1>5. node[n].sibling \in Node \cup {Nil} /\ node[m] \in NodeType
  BY <1>1, NodeHas
<1>6. \A q \in Node : ~node[q].live => node[q] = Free
  BY <1>1 DEF NodesInv
<1>7. CASE /\ node[n].ref[1] = "child" /\ node[m].child = n
           /\ node' = [[node EXCEPT ![m].child = node[n].sibling] EXCEPT ![n] = Free]
  <2>1. 1 \in 1..Len(kids[m]) /\ kids[m][1] = n
    BY <1>2, <1>3, <1>7 DEF Follow
  <2>2. m # n
    BY <1>2, <1>7
  <2>3. PICK e : e = [node[m] EXCEPT !.child = node[n].sibling]
    OBVIOUS
  <2>4. /\ e \in NodeType /\ e.open = node[m].open /\ e.live = node[m].live /\ e.name = node[m].name
        /\ e.sibling = node[m].sibling /\ e.child = node[n].sibling /\ e.ref = node[m].ref
    BY <1>5, <2>3, SetChild
  <2>5. node' = [node EXCEPT ![m] = e, ![n] = Free]
    BY <1>7, <2>3
  <2>6. node'[n] = Free /\ node'[m] = e /\ \A q \in Node : q # n /\ q # m => node'[q] = node[q]
    BY <1>2, <2>2, <2>5
  <2>7. node' \in [Node -> NodeType]
    BY <1>2, <2>4, <2>5, FreeIs
  <2>8. Shrunk(kids, m, 1, n)
    BY <2>2, <2>4, <2>6 DEF Shrunk
  <2>9. node[m].live
    BY <1>2, <1>6, <1>7 DEF Free
  <2>10. node'[Root].sibling = Nil
    BY <1>1, <1>2, <2>4, <2>6 DEF NodesInv
  <2> QED BY <2>1, <2>4, <2>6, <2>7, <2>8, <2>9, <2>10
<1>8. CASE /\ node[n].ref[1] = "sibling" /\ node[m].sibling = n
           /\ node' = [[node EXCEPT ![m].sibling = node[n].sibling] EXCEPT ![n] = Free]
  <2>1. node[m].live /\ m # Root
    BY <1>1, <1>2, <1>6, <1>8 DEF Free, NodesInv
  <2>2. PICK d \in Node : m \in Entries(kids[d])
    BY <2>1, LiveIsLinked
  <2>3. PICK j \in 1..Len(kids[d]) : m = kids[d][j]
    BY <2>2 DEF Entries
  <2>4. n = Follow(kids[d], j + 1)
    BY <1>3, <1>8, <2>3
  <2>5. j + 1 \in 1..Len(kids[d]) /\ n = kids[d][j + 1]
    BY <1>2, <2>4 DEF Follow
  <2>6. PICK p \in 1..Len(kids[d]) : p = j + 1
    BY <2>5
  <2>7. p # 1 /\ p - 1 = j /\ p # j
    BY <2>6, ElementsAre
  <2>8. m # n
    BY <1>4, <2>3, <2>5, <2>6, <2>7 DEF NoRepeat
  <2>9. PICK e : e = [node[m] EXCEPT !.sibling = node[n].sibling]
    OBVIOUS
  <2>10. /\ e \in NodeType /\ e.open = node[m].open /\ e.live = node[m].live /\ e.name = node[m].name
         /\ e.sibling = node[n].sibling /\ e.child = node[m].child /\ e.ref = node[m].ref
    BY <1>5, <2>9, SetSibling
  <2>11. node' = [node EXCEPT ![m] = e, ![n] = Free]
    BY <1>8, <2>9
  <2>12. node'[n] = Free /\ node'[m] = e /\ \A q \in Node : q # n /\ q # m => node'[q] = node[q]
    BY <1>2, <2>8, <2>11
  <2>13. node' \in [Node -> NodeType]
    BY <1>2, <2>10, <2>11, FreeIs
  <2>14. Shrunk(kids, d, p, n)
    BY <2>3, <2>7, <2>8, <2>10, <2>12 DEF Shrunk
  <2>15. node'[Root].sibling = Nil
    BY <1>1, <1>2, <2>1, <2>12 DEF NodesInv
  <2> QED BY <2>1, <2>5, <2>6, <2>10, <2>12, <2>13, <2>14, <2>15
<1> QED BY <1>7, <1>8 DEF Unlinked

LEMMA FileRemoved ==
    ASSUME TmpfsInv, NEW h \in Hid, RemoveFile(h), RemovesCleanly(h)
    PROVE  TmpfsInv'
<1>1. NodesInv /\ KeptWhileOpen
  BY DEF TmpfsInv
<1>2. PICK kids \in [Node -> Seq(Node)] : ListsInv(kids)
  BY DEF TmpfsInv
<1>3. /\ node \in [Node -> NodeType] /\ hid \in [Hid -> Node \cup {Nil}] /\ removes \in Nat
      /\ Root \in Node /\ Nil \notin Node
  BY <1>1, TmpfsAssumption DEF NodesInv
<1>4. PICK n \in Node : n = hid[h]
  BY <1>3 DEF RemoveFile
<1>5. node[n].live
  BY <1>1, <1>3, <1>4 DEF KeptWhileOpen
<1>6. CASE ~(n # Root /\ node[n].ref # <<>> /\ node[n].child = Nil)
  <2>1. node' = node_close(node, n) /\ removes' = removes /\ hid' = [hid EXCEPT ![h] = Nil]
    BY <1>4, <1>6 DEF RemoveFile
  <2> QED BY <1>3, <1>4, <2>1, HandleDrops
<1>7. CASE n # Root /\ node[n].ref # <<>> /\ node[n].child = Nil
  <2>1. /\ hid' = [hid EXCEPT ![h] = Nil] /\ removes' = removes + 1 /\ \A g \in Hid : hid[g] = n => g = h
        /\ \E m \in Node : Unlinked(n, m)
    BY <1>4, <1>7, RemoveUnlinks
  <2>2. /\ \E d \in Node : \E p \in 1..Len(kids[d]) : n = kids[d][p] /\ Shrunk(kids, d, p, n)
        /\ \A q \in Node \ {n} : node'[q].open = node[q].open /\ (~node[q].live => node'[q] = node[q])
        /\ node' \in [Node -> NodeType] /\ node'[Root].sibling = Nil
    BY <1>2, <1>5, <1>7, <2>1, RemoveShrinks
  <2>3. PICK d \in Node : \E p \in 1..Len(kids[d]) : n = kids[d][p] /\ Shrunk(kids, d, p, n)
    BY <2>2
  <2>4. PICK p \in 1..Len(kids[d]) : n = kids[d][p] /\ Shrunk(kids, d, p, n)
    BY <2>3
  <2>5. \E k \in [Node -> Seq(Node)] : ListsInv(k)'
    BY <1>1, <1>2, <2>4, ListsShrink
  <2>6. node'[n] = Free /\ Free.open = 0 /\ \A q \in Node \ {n} : node'[q].live = node[q].live
    BY <2>4 DEF Shrunk, Free
  <2>7. /\ hid' \in [Hid -> Node \cup {Nil}]
        /\ \A m \in Node \ {n} : {g \in Hid : hid'[g] = m} = {g \in Hid : hid[g] = m}
    BY <1>1, <1>4, <2>1, HandleCloses
  <2>8. \A g \in Hid : hid'[g] # n
    BY <1>3, <2>1
  <2>9. ASSUME NEW q \in Node \ {Root} PROVE node'[q].open = Cardinality({g \in Hid : hid'[g] = q})
    <3>1. CASE q = n
      <4>1. {g \in Hid : hid'[g] = q} = {}
        BY <2>8, <3>1
      <4> QED BY <2>6, <3>1, <4>1, FS_EmptySet
    <3>2. CASE q # n
      <4>1. node'[q].open = node[q].open /\ {g \in Hid : hid'[g] = q} = {g \in Hid : hid[g] = q}
        BY <2>2, <2>7, <3>2
      <4>2. node[q].open = Cardinality({g \in Hid : hid[g] = q})
        BY <1>1 DEF NodesInv
      <4> QED BY <4>1, <4>2
    <3> QED BY <3>1, <3>2
  <2>10. NodesInv'
    <3>1. \A q \in Node : ~node'[q].live => node'[q] = Free
      BY <1>1, <2>2, <2>6 DEF NodesInv
    <3>2. node'[Root].live /\ node'[Root].open = 0
      BY <1>1, <1>3, <1>7, <2>2, <2>6 DEF NodesInv
    <3>3. removes' \in Nat /\ node' \in [Node -> NodeType] /\ node'[Root].sibling = Nil
      BY <1>3, <2>1, <2>2
    <3> QED BY <2>7, <2>9, <3>1, <3>2, <3>3 DEF NodesInv
  <2>11. KeptWhileOpen'
    BY <1>1, <1>3, <2>1, <2>6, <2>8 DEF KeptWhileOpen
  <2> QED BY <2>5, <2>10, <2>11 DEF TmpfsInv
<1> QED BY <1>6, <1>7

LEMMA TmpfsSteps == TmpfsInv /\ [TmpfsNext]_tmpfs_vars /\ [TmpfsCareful]_tmpfs_vars => TmpfsInv'
<1> SUFFICES ASSUME TmpfsInv, [TmpfsNext]_tmpfs_vars, [TmpfsCareful]_tmpfs_vars PROVE TmpfsInv'
  OBVIOUS
<1>1. CASE UNCHANGED tmpfs_vars
  <2>1. node' = node /\ hid' = hid /\ removes' = removes
    BY <1>1 DEF tmpfs_vars
  <2>2. PICK kids \in [Node -> Seq(Node)] : ListsInv(kids)
    BY DEF TmpfsInv
  <2>3. ListsInv(kids)'
    BY <2>1, <2>2, ListsStay DEF SameTree
  <2>4. NodesInv' /\ KeptWhileOpen'
    BY <2>1 DEF TmpfsInv, NodesInv, KeptWhileOpen
  <2> QED BY <2>2, <2>3, <2>4 DEF TmpfsInv
<1>2. CASE TmpfsNext /\ ~UNCHANGED tmpfs_vars
  <2>1. ASSUME NEW h \in Hid, OpenRoot(h) PROVE TmpfsInv'
    BY <2>1, RootOpens
  <2>2. ASSUME NEW h \in Hid, CloseHandle(h) PROVE TmpfsInv'
    <3>1. removes \in Nat
      BY DEF TmpfsInv, NodesInv
    <3>2. hid[h] # Nil /\ node' = node_close(node, hid[h]) /\ hid' = [hid EXCEPT ![h] = Nil] /\ removes' = removes
      BY <2>2 DEF CloseHandle
    <3> QED BY <3>1, <3>2, HandleDrops
  <2>3. ASSUME NEW h \in Hid, RemoveFile(h) PROVE TmpfsInv'
    <3>1. RemovesCleanly(h)
      BY <1>2, <2>3 DEF TmpfsCareful
    <3> QED BY <2>3, <3>1, FileRemoved
  <2>4. ASSUME NEW h \in Hid, NEW x \in Name, NEW create \in BOOLEAN, NEW dirs \in {<<>>} \cup {<<d>> : d \in DirName},
               OpenPath(h, dirs, x, create)
        PROVE  TmpfsInv'
    BY <2>4, PathOpens
  <2> QED BY <1>2, <2>1, <2>2, <2>3, <2>4 DEF TmpfsNext
<1> QED BY <1>1, <1>2

\* The tree of a tmpfs is sound, whatever number of files are created, opened,
\* closed and removed, and no file goes while a handle has it open: provided
\* that node_remove runs where its two defects do not bite.
THEOREM TmpfsAlwaysSound ==
    TmpfsSpec /\ [][TmpfsCareful]_tmpfs_vars => [](TmpfsSound /\ KeptWhileOpen)
<1>1. TmpfsInit => TmpfsInv
  BY InvAtFirst
<1>2. TmpfsInv /\ [TmpfsNext]_tmpfs_vars /\ [TmpfsCareful]_tmpfs_vars => TmpfsInv'
  BY TmpfsSteps
<1>3. TmpfsInv => TmpfsSound /\ KeptWhileOpen
  BY SoundFromInv DEF TmpfsInv
<1> QED BY <1>1, <1>2, <1>3, PTL DEF TmpfsSpec

=============================================================================
