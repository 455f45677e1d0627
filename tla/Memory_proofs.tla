--------------------------- MODULE Memory_proofs ---------------------------
(***************************************************************************)
(* Proofs about memory, for any number of pages, frames, tables and        *)
(* processes, and any sizes.                                               *)
(*                                                                         *)
(* HeapAlwaysSound: page_alloc and kmalloc hand out blocks that do not     *)
(* overlap.  The invariant gives the list of blocks explicitly, as a       *)
(* sequence that the pointers of the headers follow (ListInv).             *)
(* FramesAlwaysSound, SpacesArePrivate: pagedir.c gives each address space *)
(* frames of its own.  The invariant says that each frame in use is in one *)
(* entry of one directory (FramesOf), and the directories are those of     *)
(* the processes (DirsLive); it makes every step one of AddressSpace.      *)
(***************************************************************************)
EXTENDS Malloc, Pagedir, FiniteSetTheorems, WellFoundedInduction, TLAPS

\* The blocks of kmalloc.
Kmallocs == {a \in Page : held[a].kind = "kmalloc"}

\* A list of n blocks, the newest first, as the headers h link it.
Linked(h, last, n, s) ==
    /\ n = 0 => last = NULL
    /\ n > 0 => last = s[1] /\ h[s[1]].next = NULL /\ h[s[n]].prev = NULL
    /\ \A i \in 1..n : i < n => h[s[i]].prev = s[i + 1] /\ h[s[i + 1]].next = s[i]

\* s is a list of the blocks in K, once each.
Lists(K, n, s) ==
    /\ s \in [1..n -> K]
    /\ \A i, j \in 1..n : s[i] = s[j] => i = j
    /\ \A a \in K : \E i \in 1..n : s[i] = a

ListInv == \E n \in Nat : \E s : Lists(Kmallocs, n, s) /\ Linked(hdr, malloc_last, n, s)

\* What the kernel holds are blocks within the memory, not the reserved page,
\* and the headers of kmalloc say how long they are.
BlocksInv ==
    \A a \in Blocks :
        /\ a > 0 /\ held[a].pages > 0 /\ a + held[a].pages <= Pages
        /\ held[a].kind = "kmalloc" => hdr[a].magic /\ hdr[a].page_amt = held[a].pages

HeapInv ==
    /\ TypeOK /\ NoOverlap /\ panic \in {"none", "oom"}
    /\ BlocksInv /\ ListInv

-----------------------------------------------------------------------------
\* A set of natural numbers that is not empty has a smallest element.
LEMMA SmallestExists ==
    ASSUME NEW S \in SUBSET Nat, S # {}
    PROVE  \E x \in S : \A y \in S : x <= y
<1> DEFINE R == OpToRel(<, Nat)
<1>1. IsWellFoundedOn(R, Nat)
  BY NatLessThanWellFounded
<1>2. PICK x \in S : \A y \in S : <<y, x>> \notin R
  <2> HIDE DEF R
  <2> QED BY <1>1, WFMin
<1>3. \A y \in S : ~(y < x)
  BY <1>2 DEF OpToRel
<1> QED BY <1>3

\* page_alloc finds a hole: pages that are free, within the memory.
LEMMA FitOK ==
    ASSUME TypeOK, NEW n \in Nat \ {0}, Holes(firstfree, n) # {}
    PROVE  /\ Fit(n) \in Page /\ Fit(n) + n <= Pages
           /\ \A j \in Span(Fit(n), n) : j \in Page /\ ~bitmap[j]
<1>1. Holes(firstfree, n) \in SUBSET Nat
  BY MallocAssumption DEF Holes, Page
<1>2. \E i \in Holes(firstfree, n) : \A j \in Holes(firstfree, n) : i <= j
  BY <1>1, SmallestExists
<1>3. Fit(n) \in Holes(firstfree, n)
  BY <1>2 DEF Fit
<1> QED BY <1>3, MallocAssumption DEF Holes, Span, Page

\* A block occupies its first page, and the pages of a block are marked.
LEMMA BlockPages ==
    ASSUME TypeOK, NoOverlap, BlocksInv, NEW a \in Blocks
    PROVE  /\ a \in Page /\ a \in Nat /\ held[a].pages \in Nat
           /\ a \in Span(a, held[a].pages) /\ bitmap[a]
           /\ \A i \in Span(a, held[a].pages) : i \in Page /\ bitmap[i] /\ i # 0
<1>1. a \in Page /\ a \in Nat /\ held[a].pages \in Nat
  <2>1. a \in Page
    BY DEF Blocks
  <2>2. held[a].pages \in 0..Pages
    BY <2>1 DEF TypeOK
  <2> QED BY <2>1, <2>2, MallocAssumption DEF Page
<1>2. a > 0 /\ held[a].pages > 0 /\ a + held[a].pages <= Pages
  BY DEF BlocksInv
<1>3. \A i \in Span(a, held[a].pages) : i \in Page /\ i # 0
  BY <1>1, <1>2, MallocAssumption DEF Span, Page
<1>4. a \in Span(a, held[a].pages)
  BY <1>1, <1>2 DEF Span
<1>5. \A i \in Span(a, held[a].pages) : bitmap[i]
  BY <1>3 DEF NoOverlap
<1> QED BY <1>1, <1>3, <1>4, <1>5

-----------------------------------------------------------------------------
(* page_alloc and page_free, whoever calls them. *)

LEMMA AllocBlocks ==
    ASSUME TypeOK, NoOverlap, BlocksInv, NEW n \in Nat \ {0}, Holes(firstfree, n) # {},
           page_alloc(n), NEW kind \in {"kmalloc", "pages"},
           held' = [held EXCEPT ![Fit(n)] = [kind |-> kind, pages |-> n]]
    PROVE  /\ NoOverlap'
           /\ bitmap' \in [Page -> BOOLEAN] /\ firstfree' \in Page
           /\ held' \in [Page -> [kind : {"none", "kmalloc", "pages"}, pages : 0..Pages]]
           /\ Blocks' = Blocks \cup {Fit(n)} /\ Fit(n) \notin Blocks
           /\ Fit(n) \in Page /\ Fit(n) > 0 /\ Fit(n) + n <= Pages
           /\ held'[Fit(n)] = [kind |-> kind, pages |-> n]
           /\ \A b \in Page \ {Fit(n)} : held'[b] = held[b]
           /\ \A b \in Blocks : b \notin Span(Fit(n), n)
<1>1. PICK a \in Page : a = Fit(n) /\ a + n <= Pages /\ \A j \in Span(a, n) : j \in Page /\ ~bitmap[j]
  BY FitOK
<1>2. a \in Nat /\ a \in Span(a, n)
  BY <1>1, MallocAssumption DEF Page, Span
<1>3. bitmap \in [Page -> BOOLEAN] /\ held \in [Page -> [kind : {"none", "kmalloc", "pages"}, pages : 0..Pages]]
  BY DEF TypeOK
<1>4. bitmap[0]
  <2>1. 0 \in Page
    BY MallocAssumption DEF Page
  <2> QED BY <2>1 DEF NoOverlap
<1>5. a # 0
  BY <1>1, <1>2, <1>4
<1>6. a \notin Blocks
  BY <1>1, <1>2, BlockPages
<1>7. /\ held'[a] = [kind |-> kind, pages |-> n]
      /\ \A b \in Page \ {a} : held'[b] = held[b]
  BY <1>1, <1>3
<1>8. Blocks' = Blocks \cup {a}
  BY <1>1, <1>7 DEF Blocks
<1>9. n \in 0..Pages
  BY <1>1, <1>2, MallocAssumption
<1>10. held' \in [Page -> [kind : {"none", "kmalloc", "pages"}, pages : 0..Pages]]
  BY <1>1, <1>3, <1>9
<1>11. bitmap' \in [Page -> BOOLEAN] /\ \A i \in Page : bitmap'[i] <=> bitmap[i] \/ i \in Span(a, n)
  BY <1>1, <1>3, Zenon DEF page_alloc
<1>12. firstfree' \in Page
  BY <1>1, <1>2, MallocAssumption DEF page_alloc, Page
<1>13. \A b \in Blocks : /\ held'[b].pages = held[b].pages /\ b # a /\ b \in Page
                         /\ \A i \in Span(b, held[b].pages) : i \in Page /\ bitmap[i]
  BY <1>6, <1>7, BlockPages
<1>14. \A b \in Blocks : Span(b, held[b].pages) \cap Span(a, n) = {} /\ b \notin Span(a, n)
  BY <1>1, <1>13, BlockPages
<1>15. NoOverlap'
  <2>1. ASSUME NEW b \in Blocks', NEW c \in Blocks', b # c
        PROVE  Span(b, held'[b].pages) \cap Span(c, held'[c].pages) = {}
    <3>1. CASE b \in Blocks /\ c \in Blocks
      BY <2>1, <3>1, <1>13 DEF NoOverlap
    <3>2. CASE b = a
      <4>1. c \in Blocks
        BY <2>1, <3>2, <1>8
      <4>2. held'[b].pages = n
        BY <1>7, <3>2
      <4> QED BY <3>2, <4>1, <4>2, <1>13, <1>14
    <3>3. CASE c = a
      <4>1. b \in Blocks
        BY <2>1, <3>3, <1>8
      <4>2. held'[c].pages = n
        BY <1>7, <3>3
      <4> QED BY <3>3, <4>1, <4>2, <1>13, <1>14
    <3> QED BY <2>1, <3>1, <3>2, <3>3, <1>8
  <2>2. ASSUME NEW i \in Page
        PROVE  bitmap'[i] <=> i = 0 \/ \E b \in Blocks' : i \in Span(b, held'[b].pages)
    <3>1. bitmap[i] <=> i = 0 \/ \E b \in Blocks : i \in Span(b, held[b].pages)
      BY DEF NoOverlap
    <3>2. (\E b \in Blocks' : i \in Span(b, held'[b].pages))
            <=> i \in Span(a, n) \/ \E b \in Blocks : i \in Span(b, held[b].pages)
      <4>1. held'[a].pages = n
        BY <1>7
      <4> QED BY <1>8, <1>13, <4>1
    <3> QED BY <1>11, <3>1, <3>2
  <2> QED BY <2>1, <2>2 DEF NoOverlap
<1> QED BY <1>1, <1>2, <1>5, <1>6, <1>7, <1>8, <1>10, <1>11, <1>12, <1>14, <1>15

LEMMA FreeBlocks ==
    ASSUME TypeOK, NoOverlap, BlocksInv, panic = "none", NEW a \in Blocks, page_free(a, held[a].pages),
           held' = [held EXCEPT ![a] = Free]
    PROVE  /\ NoOverlap' /\ panic' = "none"
           /\ bitmap' \in [Page -> BOOLEAN] /\ firstfree' \in Page
           /\ held' \in [Page -> [kind : {"none", "kmalloc", "pages"}, pages : 0..Pages]]
           /\ Blocks' = Blocks \ {a}
           /\ held'[a] = Free /\ \A b \in Page \ {a} : held'[b] = held[b]
           /\ \A b \in Blocks \ {a} : b \notin Span(a, held[a].pages)
<1>1. /\ a \in Page /\ a \in Nat /\ held[a].pages \in Nat
      /\ a \in Span(a, held[a].pages) /\ bitmap[a]
      /\ \A i \in Span(a, held[a].pages) : i \in Page /\ bitmap[i] /\ i # 0
  BY BlockPages
<1>2. panic' = "none"
  BY <1>1 DEF page_free
<1>3. bitmap \in [Page -> BOOLEAN] /\ held \in [Page -> [kind : {"none", "kmalloc", "pages"}, pages : 0..Pages]]
      /\ firstfree \in Page
  BY DEF TypeOK
<1>4. /\ held'[a] = Free /\ \A b \in Page \ {a} : held'[b] = held[b]
      /\ held' \in [Page -> [kind : {"none", "kmalloc", "pages"}, pages : 0..Pages]]
  BY <1>1, <1>3, MallocAssumption DEF Free
<1>5. Blocks' = Blocks \ {a}
  BY <1>1, <1>4 DEF Blocks, Free
<1>6. bitmap' \in [Page -> BOOLEAN] /\ \A i \in Page : bitmap'[i] <=> bitmap[i] /\ i \notin Span(a, held[a].pages)
  BY <1>3, Zenon DEF page_free
<1>7. firstfree' \in Page
  BY <1>1, <1>3 DEF page_free
<1>8. \A b \in Blocks \ {a} : /\ held'[b].pages = held[b].pages /\ b \in Page
                              /\ b \in Span(b, held[b].pages)
                              /\ Span(b, held[b].pages) \cap Span(a, held[a].pages) = {}
  <2> TAKE b \in Blocks \ {a}
  <2>1. b \in Page /\ b \in Span(b, held[b].pages)
    BY BlockPages
  <2>2. Span(b, held[b].pages) \cap Span(a, held[a].pages) = {}
    BY DEF NoOverlap
  <2> QED BY <1>4, <2>1, <2>2
<1>9. NoOverlap'
  <2>1. ASSUME NEW b \in Blocks', NEW c \in Blocks', b # c
        PROVE  Span(b, held'[b].pages) \cap Span(c, held'[c].pages) = {}
    <3>1. b \in Blocks /\ c \in Blocks /\ held'[b].pages = held[b].pages /\ held'[c].pages = held[c].pages
      BY <1>5, <1>8
    <3> QED BY <2>1, <3>1 DEF NoOverlap
  <2>2. ASSUME NEW i \in Page
        PROVE  bitmap'[i] <=> i = 0 \/ \E b \in Blocks' : i \in Span(b, held'[b].pages)
    <3>1. bitmap[i] <=> i = 0 \/ \E b \in Blocks : i \in Span(b, held[b].pages)
      BY DEF NoOverlap
    <3>2. CASE i \in Span(a, held[a].pages)
      <4>1. i # 0 /\ ~bitmap'[i]
        BY <1>1, <1>6, <3>2
      <4>2. \A b \in Blocks' : i \notin Span(b, held'[b].pages)
        BY <1>5, <1>8, <3>2
      <4> QED BY <4>1, <4>2
    <3>3. CASE i \notin Span(a, held[a].pages)
      <4>1. bitmap'[i] <=> bitmap[i]
        BY <1>6, <3>3
      <4>2. (\E b \in Blocks : i \in Span(b, held[b].pages)) <=> \E b \in Blocks' : i \in Span(b, held'[b].pages)
        BY <1>5, <1>8, <3>3
      <4> QED BY <3>1, <4>1, <4>2
    <3> QED BY <3>2, <3>3
  <2> QED BY <2>1, <2>2 DEF NoOverlap
<1> QED BY <1>2, <1>4, <1>5, <1>6, <1>7, <1>8, <1>9

-----------------------------------------------------------------------------
(* The list of blocks. *)

LEMMA KeepList ==
    ASSUME ListInv, Kmallocs' = Kmallocs, \A a \in Kmallocs : hdr'[a] = hdr[a],
           malloc_last' = malloc_last
    PROVE  ListInv'
<1>1a. PICK n \in Nat : \E s : Lists(Kmallocs, n, s) /\ Linked(hdr, malloc_last, n, s)
  BY DEF ListInv
<1>1. PICK s : Lists(Kmallocs, n, s) /\ Linked(hdr, malloc_last, n, s)
  BY <1>1a
<1>2. \A i \in 1..n : s[i] \in Kmallocs
  BY <1>1 DEF Lists
<1>3. Linked(hdr', malloc_last', n, s)
  <2>1. n > 0 => 1 \in 1..n /\ n \in 1..n
    OBVIOUS
  <2>2. \A i \in 1..n : i < n => i + 1 \in 1..n
    OBVIOUS
  <2> QED BY <1>1, <1>2, <2>1, <2>2 DEF Linked
<1> QED BY <1>1, <1>3 DEF ListInv

\* kmalloc puts a block in front of the list.
LEMMA AddList ==
    ASSUME NEW K, NULL \notin K, NEW n \in Nat, NEW s, NEW h, NEW last, Lists(K, n, s), Linked(h, last, n, s),
           NEW a, a \notin K, NEW g, g[a].next = NULL, g[a].prev = last,
           \A b \in K : g[b].prev = h[b].prev /\ g[b].next = IF b = last THEN a ELSE h[b].next
    PROVE  \E m \in Nat : \E t : Lists(K \cup {a}, m, t) /\ Linked(g, a, m, t)
<1> DEFINE m == n + 1
           t == [i \in 1..m |-> IF i = 1 THEN a ELSE s[i - 1]]
<1>1. /\ s \in [1..n -> K] /\ \A i, j \in 1..n : s[i] = s[j] => i = j
      /\ \A b \in K : \E i \in 1..n : s[i] = b
  BY DEF Lists
<1>2. m \in Nat /\ t[1] = a /\ \A i \in 2..m : t[i] = s[i - 1] /\ i - 1 \in 1..n /\ t[i] \in K
  BY <1>1
<1>3. t \in [1..m -> K \cup {a}]
  BY <1>1
<1> HIDE DEF t
<1>4. Lists(K \cup {a}, m, t)
  <2>1. ASSUME NEW i \in 1..m, NEW j \in 1..m, t[i] = t[j] PROVE i = j
    <3>1. CASE i = 1 \/ j = 1
      BY <1>2, <2>1, <3>1
    <3>2. CASE i # 1 /\ j # 1
      <4>1. i \in 2..m /\ j \in 2..m
        BY <3>2
      <4>2. s[i - 1] = s[j - 1] /\ i - 1 \in 1..n /\ j - 1 \in 1..n
        BY <1>2, <2>1, <4>1
      <4>3. i - 1 = j - 1
        BY <1>1, <4>2
      <4> QED BY <4>3
    <3> QED BY <3>1, <3>2
  <2>2. ASSUME NEW b \in K PROVE \E i \in 1..m : t[i] = b
    <3>1. PICK i \in 1..n : s[i] = b
      BY <1>1
    <3>2. i + 1 \in 2..m /\ i + 1 \in 1..m /\ (i + 1) - 1 = i
      OBVIOUS
    <3>3. t[i + 1] = b
      BY <1>2, <3>1, <3>2
    <3> QED BY <3>2, <3>3
  <2>3. 1 \in 1..m
    OBVIOUS
  <2> QED BY <1>2, <1>3, <2>1, <2>2, <2>3 DEF Lists
<1>5. Linked(g, a, m, t)
  <2>1. m > 0 /\ a = t[1] /\ g[t[1]].next = NULL
    BY <1>2
  <2>2. CASE n = 0
    <3>1. last = NULL /\ m = 1
      BY <2>2 DEF Linked
    <3>2. g[t[m]].prev = NULL
      BY <1>2, <3>1
    <3> QED BY <2>1, <3>1, <3>2 DEF Linked
  <2>3. CASE n > 0
    <3>1. last = s[1] /\ h[s[1]].next = NULL /\ h[s[n]].prev = NULL /\ 1 \in 1..n /\ n \in 1..n
      BY <2>3 DEF Linked
    <3>2. t[m] = s[n] /\ t[2] = s[1] /\ s[n] \in K /\ s[1] \in K
      BY <1>1, <1>2, <2>3
    <3>3. g[t[m]].prev = NULL
      BY <3>1, <3>2
    <3>4. ASSUME NEW i \in 1..m, i < m PROVE g[t[i]].prev = t[i + 1] /\ g[t[i + 1]].next = t[i]
      <4>1. CASE i = 1
        BY <1>2, <3>1, <3>2, <4>1
      <4>2. CASE i # 1
        <5>1. i - 1 \in 1..n /\ i \in 1..n /\ i - 1 < n /\ (i - 1) + 1 = i /\ i # 1
          BY <3>4, <4>2
        <5>2. t[i] = s[i - 1] /\ t[i + 1] = s[i] /\ s[i - 1] \in K /\ s[i] \in K
          BY <1>1, <1>2, <5>1
        <5>3. h[s[i - 1]].prev = s[i] /\ h[s[i]].next = s[i - 1]
          BY <5>1 DEF Linked
        <5>4. s[i] # last
          BY <1>1, <3>1, <5>1
        <5> QED BY <5>2, <5>3, <5>4
      <4> QED BY <4>1, <4>2
    <3> QED BY <2>1, <3>3, <3>4 DEF Linked
  <2> QED BY <2>2, <2>3
<1> HIDE DEF m
<1> QED BY <1>2, <1>4, <1>5

\* kfree takes a block out of the list.
LEMMA DropList ==
    ASSUME NEW K, NULL \notin K, NEW n \in Nat, NEW s, NEW h, NEW last, Lists(K, n, s), Linked(h, last, n, s),
           NEW a \in K, NEW g,
           \A b \in K \ {a} : /\ g[b].prev = IF b = h[a].next THEN h[a].prev ELSE h[b].prev
                              /\ g[b].next = IF b = h[a].prev THEN h[a].next ELSE h[b].next
    PROVE  \E m \in Nat : \E t : /\ Lists(K \ {a}, m, t)
                                 /\ Linked(g, IF last = a THEN h[a].prev ELSE last, m, t)
<1>1. /\ s \in [1..n -> K] /\ \A i, j \in 1..n : s[i] = s[j] => i = j
      /\ \A b \in K : \E i \in 1..n : s[i] = b
  BY DEF Lists
<1>2. PICK j \in 1..n : s[j] = a
  BY <1>1
<1> DEFINE m == n - 1
           t == [i \in 1..m |-> IF i < j THEN s[i] ELSE s[i + 1]]
           top == IF last = a THEN h[a].prev ELSE last
<1>3. /\ m \in Nat /\ n > 0 /\ last = s[1] /\ h[s[1]].next = NULL /\ h[s[n]].prev = NULL
      /\ 1 \in 1..n /\ n \in 1..n
  BY DEF Linked
<1>4. \A i \in 1..m : /\ i < j => t[i] = s[i] /\ i \in 1..n
                      /\ ~(i < j) => t[i] = s[i + 1] /\ i + 1 \in 1..n
                      /\ t[i] \in K \ {a}
  <2> TAKE i \in 1..m
  <2>1. i \in 1..n /\ i + 1 \in 1..n
    OBVIOUS
  <2>2. CASE i < j
    <3>1. t[i] = s[i] /\ s[i] \in K /\ s[i] # a
      BY <1>1, <1>2, <2>1, <2>2
    <3> QED BY <2>1, <2>2, <3>1
  <2>3. CASE ~(i < j)
    <3>1. t[i] = s[i + 1] /\ s[i + 1] \in K /\ s[i + 1] # a
      BY <1>1, <1>2, <2>1, <2>3
    <3> QED BY <2>1, <2>3, <3>1
  <2> QED BY <2>2, <2>3
<1>5. t \in [1..m -> K \ {a}]
  <2>1. t = [i \in 1..m |-> t[i]]
    OBVIOUS
  <2> HIDE DEF t
  <2> QED BY <1>4, <2>1
<1> HIDE DEF t
<1>6. Lists(K \ {a}, m, t)
  <2>1. ASSUME NEW i \in 1..m, NEW l \in 1..m, t[i] = t[l] PROVE i = l
    <3>1. CASE i < j /\ l < j
      BY <1>1, <1>4, <2>1, <3>1
    <3>2. CASE i < j /\ ~(l < j)
      <4>1. s[i] = s[l + 1] /\ i \in 1..n /\ l + 1 \in 1..n
        BY <1>4, <2>1, <3>2
      <4>2. i = l + 1
        BY <1>1, <4>1
      <4> QED BY <3>2, <4>2
    <3>3. CASE ~(i < j) /\ l < j
      <4>1. s[i + 1] = s[l] /\ i + 1 \in 1..n /\ l \in 1..n
        BY <1>4, <2>1, <3>3
      <4>2. i + 1 = l
        BY <1>1, <4>1
      <4> QED BY <3>3, <4>2
    <3>4. CASE ~(i < j) /\ ~(l < j)
      <4>1. s[i + 1] = s[l + 1] /\ i + 1 \in 1..n /\ l + 1 \in 1..n
        BY <1>4, <2>1, <3>4
      <4>2. i + 1 = l + 1
        BY <1>1, <4>1
      <4> QED BY <4>2
    <3> QED BY <3>1, <3>2, <3>3, <3>4
  <2>2. ASSUME NEW b \in K \ {a} PROVE \E i \in 1..m : t[i] = b
    <3>1. PICK i \in 1..n : s[i] = b
      BY <1>1
    <3>2. i # j
      BY <1>2, <3>1
    <3>3. CASE i < j
      <4>1. i \in 1..m
        BY <3>3
      <4> QED BY <1>4, <3>1, <3>3, <4>1
    <3>4. CASE i > j
      <4>1. i - 1 \in 1..m /\ ~(i - 1 < j) /\ (i - 1) + 1 = i
        BY <3>4
      <4>2. t[i - 1] = s[i]
        BY <1>4, <4>1
      <4> QED BY <3>1, <4>1, <4>2
    <3> QED BY <3>2, <3>3, <3>4
  <2> QED BY <1>5, <2>1, <2>2 DEF Lists
<1>7. \A i \in 1..n : i < n => h[s[i]].prev = s[i + 1] /\ h[s[i + 1]].next = s[i] /\ i + 1 \in 1..n
  BY DEF Linked
<1>8. j > 1 => h[a].next = s[j - 1] /\ j - 1 \in 1..n
  <2> SUFFICES ASSUME j > 1 PROVE h[a].next = s[j - 1] /\ j - 1 \in 1..n
    OBVIOUS
  <2>1. j - 1 \in 1..n /\ j - 1 < n /\ (j - 1) + 1 = j
    OBVIOUS
  <2> QED BY <1>2, <1>7, <2>1
<1>9. j < n => h[a].prev = s[j + 1] /\ j + 1 \in 1..n
  BY <1>2, <1>7
<1>10. (j = 1 => h[a].next = NULL) /\ (j = n => h[a].prev = NULL)
  BY <1>2, <1>3
<1>11. \A i \in 1..n : s[i] # NULL
  BY <1>1
<1>12. CASE m = 0
  <2>1. n = 1 /\ j = 1
    BY <1>12
  <2>2. last = a /\ h[a].prev = NULL
    BY <1>2, <1>3, <1>10, <2>1
  <2>3. Linked(g, top, m, t)
    BY <1>12, <2>2 DEF Linked
  <2> HIDE DEF m
  <2> QED BY <1>3, <1>6, <2>3
<1>13. CASE m > 0
  <2>1. 1 \in 1..m /\ m \in 1..m /\ m + 1 = n
    BY <1>13
  <2>2. top = t[1]
    <3>1. CASE j = 1
      <4>1. t[1] = s[2] /\ last = a /\ j < n
        BY <1>2, <1>3, <1>4, <2>1, <3>1
      <4> QED BY <1>9, <3>1, <4>1
    <3>2. CASE j > 1
      <4>1. t[1] = s[1] /\ s[1] # a
        BY <1>1, <1>2, <1>3, <1>4, <2>1, <3>2
      <4> QED BY <1>3, <4>1
    <3> QED BY <3>1, <3>2
  <2>3. g[t[1]].next = NULL
    <3>1. CASE j = 1
      <4>1. t[1] = s[2] /\ t[1] \in K \ {a} /\ j < n
        BY <1>4, <2>1, <3>1
      <4>2. h[a].prev = s[2] /\ h[a].next = NULL
        BY <1>9, <1>10, <3>1, <4>1
      <4> QED BY <4>1, <4>2
    <3>2. CASE j > 1
      <4>1. t[1] = s[1] /\ t[1] \in K \ {a}
        BY <1>4, <2>1, <3>2
      <4>2. s[1] # h[a].prev
        <5>1. CASE j < n
          <6>1. h[a].prev = s[j + 1] /\ j + 1 \in 1..n /\ j + 1 # 1
            BY <1>9, <5>1
          <6> QED BY <1>1, <1>3, <6>1
        <5>2. CASE j = n
          BY <1>10, <1>11, <1>3, <5>2
        <5> QED BY <5>1, <5>2
      <4> QED BY <1>3, <4>1, <4>2
    <3> QED BY <3>1, <3>2
  <2>4. g[t[m]].prev = NULL
    <3>1. CASE j = n
      <4>1. t[m] = s[m] /\ t[m] \in K \ {a} /\ j > 1 /\ j - 1 = m
        BY <1>4, <2>1, <3>1
      <4>2. h[a].next = s[m] /\ h[a].prev = NULL
        BY <1>8, <1>10, <3>1, <4>1
      <4> QED BY <4>1, <4>2
    <3>2. CASE j < n
      <4>1. t[m] = s[n] /\ t[m] \in K \ {a}
        BY <1>4, <2>1, <3>2
      <4>2. s[n] # h[a].next
        <5>1. CASE j > 1
          <6>1. h[a].next = s[j - 1] /\ j - 1 \in 1..n /\ j - 1 # n
            BY <1>8, <5>1
          <6> QED BY <1>1, <1>3, <6>1
        <5>2. CASE j = 1
          BY <1>10, <1>11, <1>3, <5>2
        <5> QED BY <5>1, <5>2
      <4> QED BY <1>3, <4>1, <4>2
    <3> QED BY <3>1, <3>2
  <2>5. ASSUME NEW i \in 1..m, i < m PROVE g[t[i]].prev = t[i + 1] /\ g[t[i + 1]].next = t[i]
    <3>0. i + 1 \in 1..m /\ i \in 1..n /\ i < n /\ i + 1 \in 1..n /\ i + 1 < n
      BY <2>5
    <3>1. t[i] \in K \ {a} /\ t[i + 1] \in K \ {a}
      BY <1>4, <3>0
    <3>2. CASE i + 1 < j
      <4>1. t[i] = s[i] /\ t[i + 1] = s[i + 1]
        BY <1>4, <3>0, <3>2
      <4>2. h[s[i]].prev = s[i + 1] /\ h[s[i + 1]].next = s[i]
        BY <1>7, <3>0
      <4>3. h[a].next # s[i]
        <5>1. h[a].next = s[j - 1] /\ j - 1 \in 1..n /\ j - 1 # i
          BY <1>8, <3>2
        <5> QED BY <1>1, <3>0, <5>1
      <4>4. h[a].prev # s[i + 1]
        <5>1. CASE j < n
          <6>1. h[a].prev = s[j + 1] /\ j + 1 \in 1..n /\ j + 1 # i + 1
            BY <1>9, <3>2, <5>1
          <6> QED BY <1>1, <3>0, <6>1
        <5>2. CASE j = n
          BY <1>10, <1>11, <3>0, <5>2
        <5> QED BY <5>1, <5>2
      <4> QED BY <3>1, <4>1, <4>2, <4>3, <4>4
    <3>3. CASE i + 1 = j
      <4>1. t[i] = s[i] /\ t[i + 1] = s[i + 2] /\ i + 2 = j + 1 /\ i = j - 1 /\ j > 1 /\ j < n
        BY <1>4, <3>0, <3>3
      <4>2. h[a].next = s[i] /\ h[a].prev = s[i + 2]
        BY <1>8, <1>9, <4>1
      <4> QED BY <3>1, <4>1, <4>2
    <3>4. CASE i + 1 > j
      <4>1. t[i] = s[i + 1] /\ t[i + 1] = s[i + 2]
        BY <1>4, <3>0, <3>4
      <4>2. h[s[i + 1]].prev = s[i + 2] /\ h[s[i + 2]].next = s[i + 1] /\ i + 2 \in 1..n
        BY <1>7, <3>0
      <4>3. h[a].prev # s[i + 2]
        <5>1. j < n
          BY <3>0, <3>4
        <5>2. h[a].prev = s[j + 1] /\ j + 1 \in 1..n /\ j + 1 # i + 2
          BY <1>9, <3>4, <5>1
        <5> QED BY <1>1, <4>2, <5>2
      <4>4. h[a].next # s[i + 1]
        <5>1. CASE j > 1
          <6>1. h[a].next = s[j - 1] /\ j - 1 \in 1..n /\ j - 1 # i + 1
            BY <1>8, <3>4, <5>1
          <6> QED BY <1>1, <3>0, <6>1
        <5>2. CASE j = 1
          BY <1>10, <1>11, <3>0, <5>2
        <5> QED BY <5>1, <5>2
      <4> QED BY <3>1, <4>1, <4>2, <4>3, <4>4
    <3> QED BY <3>2, <3>3, <3>4
  <2>6. Linked(g, top, m, t)
    BY <1>13, <2>2, <2>3, <2>4, <2>5 DEF Linked
  <2> HIDE DEF m
  <2> QED BY <1>3, <1>6, <2>6
<1>14. m = 0 \/ m > 0
  BY <1>3
<1> QED BY <1>12, <1>13, <1>14, Zenon

-----------------------------------------------------------------------------
(* The steps. *)

LEMMA KmallocsOK == Kmallocs \subseteq Blocks /\ Kmallocs \subseteq Page /\ NULL \notin Kmallocs /\ NULL \notin Page
  BY MallocAssumption DEF Kmallocs, Blocks, Page

LEMMA HdrType ==
    ASSUME TypeOK
    PROVE  hdr \in [Page -> [magic : BOOLEAN, page_amt : 0..Pages, next : Page \cup {NULL}, prev : Page \cup {NULL}]]
  BY DEF TypeOK

\* The kernel stops when it is out of memory.
LEMMA StopInd ==
    ASSUME HeapInv, panic' \in {"none", "oom"}, UNCHANGED <<bitmap, firstfree, hdr, malloc_last, held>>
    PROVE  HeapInv'
<1>1. Kmallocs' = Kmallocs /\ Blocks' = Blocks
  BY DEF Kmallocs, Blocks
<1>2. TypeOK'
  BY DEF HeapInv, TypeOK
<1>3. NoOverlap'
  BY <1>1 DEF HeapInv, NoOverlap
<1>4. BlocksInv'
  BY <1>1 DEF HeapInv, BlocksInv
<1>5. ListInv'
  BY <1>1, KeepList DEF HeapInv
<1> QED BY <1>2, <1>3, <1>4, <1>5 DEF HeapInv

LEMMA PageAllocInd == ASSUME HeapInv, PageAlloc PROVE HeapInv'
<1>1. PICK n \in Counts :
        \/ OutOfMemory(n)
        \/ /\ Holes(firstfree, n) # {}
           /\ page_alloc(n)
           /\ held' = [held EXCEPT ![Fit(n)] = [kind |-> "pages", pages |-> n]]
           /\ hdr' = [i \in Page |-> IF i \in Span(Fit(n), n) THEN NoHdr ELSE hdr[i]]
           /\ UNCHANGED <<malloc_last, panic>>
  BY DEF PageAlloc
<1>2. CASE OutOfMemory(n)
  BY <1>2, StopInd DEF OutOfMemory
<1>3. ASSUME /\ Holes(firstfree, n) # {}
             /\ page_alloc(n)
             /\ held' = [held EXCEPT ![Fit(n)] = [kind |-> "pages", pages |-> n]]
             /\ hdr' = [i \in Page |-> IF i \in Span(Fit(n), n) THEN NoHdr ELSE hdr[i]]
             /\ UNCHANGED <<malloc_last, panic>>
      PROVE  HeapInv'
  <2>1. TypeOK /\ NoOverlap /\ BlocksInv /\ ListInv /\ panic \in {"none", "oom"}
    BY DEF HeapInv
  <2>2. n \in Nat \ {0} /\ "pages" \in {"kmalloc", "pages"}
    BY MallocAssumption
  <2>3. PICK a : a = Fit(n)
    OBVIOUS
  <2>4. /\ NoOverlap'
        /\ bitmap' \in [Page -> BOOLEAN] /\ firstfree' \in Page
        /\ held' \in [Page -> [kind : {"none", "kmalloc", "pages"}, pages : 0..Pages]]
        /\ Blocks' = Blocks \cup {a} /\ a \notin Blocks
        /\ a \in Page /\ a > 0 /\ a + n <= Pages
        /\ held'[a] = [kind |-> "pages", pages |-> n]
        /\ \A b \in Page \ {a} : held'[b] = held[b]
        /\ \A b \in Blocks : b \notin Span(a, n)
    BY <1>3, <2>1, <2>2, <2>3, AllocBlocks
  <2>5. hdr' = [i \in Page |-> IF i \in Span(a, n) THEN NoHdr ELSE hdr[i]]
    BY <1>3, <2>3
  <2>6. hdr' \in [Page -> [magic : BOOLEAN, page_amt : 0..Pages, next : Page \cup {NULL}, prev : Page \cup {NULL}]]
    BY <2>1, <2>5, HdrType, MallocAssumption DEF NoHdr
  <2>7. \A b \in Blocks : hdr'[b] = hdr[b] /\ held'[b] = held[b] /\ b \in Page
    BY <2>4, <2>5 DEF Blocks
  <2>8. TypeOK'
    BY <1>3, <2>1, <2>4, <2>6 DEF TypeOK
  <2>9. Kmallocs' = Kmallocs
    <3>1. held'[a].kind = "pages" /\ held[a].kind = "none"
      BY <2>4 DEF Blocks
    <3>2. \A b \in Page : held'[b].kind = "kmalloc" <=> held[b].kind = "kmalloc"
      BY <2>4, <3>1
    <3> QED BY <3>2 DEF Kmallocs
  <2>10. ListInv'
    BY <1>3, <2>1, <2>7, <2>9, KeepList, KmallocsOK
  <2>11. BlocksInv'
    <3>1. held'[a].kind = "pages" /\ held'[a].pages = n
      BY <2>4
    <3> QED BY <2>1, <2>2, <2>4, <2>7, <3>1 DEF BlocksInv
  <2> QED BY <1>3, <2>1, <2>4, <2>8, <2>10, <2>11 DEF HeapInv
<1> QED BY <1>1, <1>2, <1>3

LEMMA PageFreeInd == ASSUME HeapInv, PageFree PROVE HeapInv'
<1>1. PICK a \in Page : /\ held[a].kind = "pages"
                        /\ page_free(a, held[a].pages)
                        /\ held' = [held EXCEPT ![a] = Free]
  BY DEF PageFree
<1>2. panic = "none" /\ hdr' = hdr /\ malloc_last' = malloc_last
  BY DEF PageFree
<1>3. TypeOK /\ NoOverlap /\ BlocksInv /\ ListInv
  BY DEF HeapInv
<1>4. a \in Blocks
  BY <1>1 DEF Blocks
<1>5. /\ NoOverlap' /\ panic' = "none"
      /\ bitmap' \in [Page -> BOOLEAN] /\ firstfree' \in Page
      /\ held' \in [Page -> [kind : {"none", "kmalloc", "pages"}, pages : 0..Pages]]
      /\ Blocks' = Blocks \ {a}
      /\ held'[a] = Free /\ \A b \in Page \ {a} : held'[b] = held[b]
  BY <1>1, <1>2, <1>3, <1>4, FreeBlocks
<1>6. TypeOK'
  BY <1>2, <1>3, <1>5 DEF TypeOK
<1>7. Kmallocs' = Kmallocs
  BY <1>1, <1>5 DEF Kmallocs, Free
<1>8. ListInv'
  BY <1>2, <1>3, <1>7, KeepList
<1>9. BlocksInv'
  <2>1. \A b \in Blocks' : b \in Blocks /\ held'[b] = held[b]
    BY <1>5 DEF Blocks
  <2> QED BY <1>2, <1>3, <2>1 DEF BlocksInv
<1> QED BY <1>5, <1>6, <1>8, <1>9 DEF HeapInv

\* The number of pages of a block.
LEMMA PageAmtType == ASSUME NEW arg \in Lens PROVE arg + HDR \in Nat /\ PageAmt(arg + HDR) \in Nat \ {0}
<1>1. PICK len \in Nat : len = arg + HDR
  BY MallocAssumption
<1>2. len \div PAGE_SIZE \in Nat
  BY MallocAssumption
<1> QED BY <1>1, <1>2 DEF PageAmt

\* No block of these sizes is filled beyond its last page.
FillInside == \A arg \in Lens : ~Overrun(arg + HDR)

LEMMA KmallocInd == ASSUME FillInside, HeapInv, Kmalloc PROVE HeapInv'
<1>1. PICK arg \in Lens :
        \/ OutOfMemory(PageAmt(arg + HDR))
        \/ /\ Holes(firstfree, PageAmt(arg + HDR)) # {}
           /\ page_alloc(PageAmt(arg + HDR))
           /\ hdr' = link(Fit(PageAmt(arg + HDR)), PageAmt(arg + HDR), arg + HDR)
           /\ malloc_last' = Fit(PageAmt(arg + HDR))
           /\ held' = [held EXCEPT ![Fit(PageAmt(arg + HDR))] = [kind |-> "kmalloc", pages |-> PageAmt(arg + HDR)]]
           /\ panic' = IF \/ malloc_last # NULL /\ hdr[malloc_last].next # NULL
                          \/ ~kmalloc_sanity(link(Fit(PageAmt(arg + HDR)), PageAmt(arg + HDR), arg + HDR),
                                             Fit(PageAmt(arg + HDR)))
                       THEN "sanity" ELSE panic
  BY DEF Kmalloc
<1>2. PICK len \in Nat : len = arg + HDR /\ ~Overrun(len)
  BY PageAmtType DEF FillInside
<1>3. PICK n \in Nat \ {0} : n = PageAmt(len)
  BY <1>2, PageAmtType
<1>4. CASE OutOfMemory(n)
  BY <1>4, StopInd DEF OutOfMemory
<1>5. CASE ~OutOfMemory(n)
  <2>1. TypeOK /\ NoOverlap /\ BlocksInv /\ ListInv /\ panic = "none"
    BY DEF HeapInv, Kmalloc
  <2>2. PICK a : a = Fit(n)
    OBVIOUS
  <2>3. /\ Holes(firstfree, n) # {}
        /\ page_alloc(n)
        /\ hdr' = link(a, n, len)
        /\ malloc_last' = a
        /\ held' = [held EXCEPT ![a] = [kind |-> "kmalloc", pages |-> n]]
        /\ panic' = IF \/ malloc_last # NULL /\ hdr[malloc_last].next # NULL
                       \/ ~kmalloc_sanity(link(a, n, len), a)
                    THEN "sanity" ELSE panic
    BY <1>1, <1>2, <1>3, <1>5, <2>2
  <2>4. /\ NoOverlap'
        /\ bitmap' \in [Page -> BOOLEAN] /\ firstfree' \in Page
        /\ held' \in [Page -> [kind : {"none", "kmalloc", "pages"}, pages : 0..Pages]]
        /\ Blocks' = Blocks \cup {a} /\ a \notin Blocks
        /\ a \in Page /\ a > 0 /\ a + n <= Pages
        /\ held'[a] = [kind |-> "kmalloc", pages |-> n]
        /\ \A b \in Page \ {a} : held'[b] = held[b]
        /\ \A b \in Blocks : b \notin Span(a, n)
    BY <2>1, <2>2, <2>3, AllocBlocks
  <2>5. hdr \in [Page -> [magic : BOOLEAN, page_amt : 0..Pages, next : Page \cup {NULL}, prev : Page \cup {NULL}]]
    BY <2>1, HdrType
  <2>6. malloc_last \in Page \cup {NULL}
    BY <2>1 DEF TypeOK
  <2>7a. PICK m \in Nat : \E s : Lists(Kmallocs, m, s) /\ Linked(hdr, malloc_last, m, s)
    BY <2>1 DEF ListInv
  <2>7. PICK s : Lists(Kmallocs, m, s) /\ Linked(hdr, malloc_last, m, s)
    BY <2>7a
  <2>8. malloc_last # NULL => malloc_last \in Kmallocs /\ malloc_last \in Blocks /\ hdr[malloc_last].next = NULL
    <3>1. malloc_last # NULL => m > 0
      BY <2>7 DEF Linked
    <3>2. m > 0 => malloc_last = s[1] /\ hdr[s[1]].next = NULL /\ 1 \in 1..m
      BY <2>7 DEF Linked
    <3>3. \A i \in 1..m : s[i] \in Kmallocs
      BY <2>7 DEF Lists
    <3> QED BY <3>1, <3>2, <3>3, KmallocsOK
  <2>9. /\ hdr'[a] = [magic |-> TRUE, page_amt |-> n, next |-> NULL, prev |-> malloc_last]
        /\ \A b \in Blocks : hdr'[b] = IF b = malloc_last THEN [hdr[b] EXCEPT !.next = a] ELSE hdr[b]
    <3>1. hdr' = [i \in Page |->
                    IF i = a THEN [magic |-> TRUE, page_amt |-> n, next |-> NULL, prev |-> malloc_last]
                    ELSE IF i \in Span(a, n) THEN NoHdr
                    ELSE IF i = malloc_last THEN [hdr[i] EXCEPT !.next = a]
                    ELSE hdr[i]]
      BY <1>2, <2>3 DEF link
    <3>2. \A b \in Blocks : b \in Page /\ b # a /\ b \notin Span(a, n)
      BY <2>4 DEF Blocks
    <3> QED BY <2>4, <3>1, <3>2
  <2>10. hdr' \in [Page -> [magic : BOOLEAN, page_amt : 0..Pages, next : Page \cup {NULL}, prev : Page \cup {NULL}]]
    <3>1. n \in 0..Pages
      BY <2>4, MallocAssumption DEF Page
    <3>2. [magic |-> TRUE, page_amt |-> n, next |-> NULL, prev |-> malloc_last]
            \in [magic : BOOLEAN, page_amt : 0..Pages, next : Page \cup {NULL}, prev : Page \cup {NULL}]
      BY <2>6, <3>1
    <3>3. NoHdr \in [magic : BOOLEAN, page_amt : 0..Pages, next : Page \cup {NULL}, prev : Page \cup {NULL}]
      BY MallocAssumption DEF NoHdr
    <3>4. \A i \in Page : [hdr[i] EXCEPT !.next = a]
            \in [magic : BOOLEAN, page_amt : 0..Pages, next : Page \cup {NULL}, prev : Page \cup {NULL}]
      BY <2>4, <2>5
    <3> QED BY <2>3, <2>5, <3>2, <3>3, <3>4 DEF link
  <2>11. /\ hdr'[a].magic /\ hdr'[a].page_amt = n /\ hdr'[a].next = NULL /\ hdr'[a].prev = malloc_last
         /\ \A b \in Blocks : /\ hdr'[b].magic = hdr[b].magic /\ hdr'[b].page_amt = hdr[b].page_amt
                              /\ hdr'[b].prev = hdr[b].prev
                              /\ hdr'[b].next = IF b = malloc_last THEN a ELSE hdr[b].next
    <3>1. \A b \in Blocks : hdr[b] \in [magic : BOOLEAN, page_amt : 0..Pages,
                                        next : Page \cup {NULL}, prev : Page \cup {NULL}]
      BY <2>5 DEF Blocks
    <3>2. hdr'[a].magic /\ hdr'[a].page_amt = n /\ hdr'[a].next = NULL /\ hdr'[a].prev = malloc_last
      BY <2>9
    <3>3. ASSUME NEW b \in Blocks
          PROVE  /\ hdr'[b].magic = hdr[b].magic /\ hdr'[b].page_amt = hdr[b].page_amt
                 /\ hdr'[b].prev = hdr[b].prev
                 /\ hdr'[b].next = IF b = malloc_last THEN a ELSE hdr[b].next
      <4>1. CASE b = malloc_last
        <5>1. hdr'[b] = [hdr[b] EXCEPT !.next = a]
          BY <2>9, <4>1
        <5> QED BY <3>1, <4>1, <5>1
      <4>2. CASE b # malloc_last
        <5>1. hdr'[b] = hdr[b]
          BY <2>9, <4>2
        <5> QED BY <4>2, <5>1
      <4> QED BY <4>1, <4>2
    <3> QED BY <3>2, <3>3
  <2>12. kmalloc_sanity(link(a, n, len), a)
    BY <2>3, <2>8, <2>11 DEF kmalloc_sanity
  <2>13. panic' = "none"
    BY <2>1, <2>3, <2>8, <2>12
  <2>14. TypeOK'
    BY <2>3, <2>4, <2>10, <2>13 DEF TypeOK
  <2>15. Kmallocs' = Kmallocs \cup {a} /\ a \notin Kmallocs
    <3>1. held'[a].kind = "kmalloc"
      BY <2>4
    <3> QED BY <2>4, <3>1, KmallocsOK DEF Kmallocs
  <2>16. ListInv'
    <3>1. \A b \in Kmallocs : hdr'[b].prev = hdr[b].prev /\ hdr'[b].next = IF b = malloc_last THEN a ELSE hdr[b].next
      BY <2>11, KmallocsOK
    <3>2. PICK g : g = hdr'
      OBVIOUS
    <3>3. /\ g[a].next = NULL /\ g[a].prev = malloc_last
          /\ \A b \in Kmallocs : g[b].prev = hdr[b].prev /\ g[b].next = IF b = malloc_last THEN a ELSE hdr[b].next
      BY <2>11, <3>1, <3>2
    <3>4. \E i \in Nat : \E t : Lists(Kmallocs \cup {a}, i, t) /\ Linked(g, a, i, t)
      BY <2>7, <2>15, <3>3, AddList, KmallocsOK
    <3> QED BY <2>3, <2>15, <3>2, <3>4 DEF ListInv
  <2>17. BlocksInv'
    <3>1. held'[a].kind = "kmalloc" /\ held'[a].pages = n
      BY <2>4
    <3>2. \A b \in Blocks : held'[b] = held[b]
      BY <2>4 DEF Blocks
    <3> QED BY <2>1, <2>4, <2>11, <3>1, <3>2 DEF BlocksInv
  <2> QED BY <2>4, <2>13, <2>14, <2>16, <2>17 DEF HeapInv
<1> QED BY <1>4, <1>5

LEMMA KfreeInd == ASSUME HeapInv, Kfree PROVE HeapInv'
<1>1. PICK a \in Page :
        /\ held[a].kind = "kmalloc"
        /\ IF kmalloc_sanity(hdr, a)
           THEN /\ hdr' = unlink(a)
                /\ malloc_last' = IF malloc_last = a THEN hdr[a].prev ELSE malloc_last
                /\ page_free(a, hdr[a].page_amt)
                /\ held' = [held EXCEPT ![a] = Free]
           ELSE panic' = "sanity" /\ UNCHANGED <<hdr, malloc_last, bitmap, firstfree, held>>
  BY DEF Kfree
<1>2. TypeOK /\ NoOverlap /\ BlocksInv /\ ListInv /\ panic = "none"
  BY DEF HeapInv, Kfree
<1>3. a \in Blocks /\ a \in Kmallocs
  BY <1>1 DEF Blocks, Kmallocs
<1>4a. PICK n \in Nat : \E s : Lists(Kmallocs, n, s) /\ Linked(hdr, malloc_last, n, s)
  BY <1>2 DEF ListInv
<1>4. PICK s : Lists(Kmallocs, n, s) /\ Linked(hdr, malloc_last, n, s)
  BY <1>4a
<1>5. hdr[a].magic /\ hdr[a].page_amt = held[a].pages
  BY <1>1, <1>2, <1>3 DEF BlocksInv
<1>6. hdr \in [Page -> [magic : BOOLEAN, page_amt : 0..Pages, next : Page \cup {NULL}, prev : Page \cup {NULL}]]
  BY <1>2, HdrType
<1>7. kmalloc_sanity(hdr, a)
  <2>1. PICK j \in 1..n : s[j] = a
    BY <1>3, <1>4 DEF Lists
  <2>2. n > 0 /\ hdr[s[1]].next = NULL /\ hdr[s[n]].prev = NULL
    BY <1>4 DEF Linked
  <2>3. \A i \in 1..n : i < n => hdr[s[i]].prev = s[i + 1] /\ hdr[s[i + 1]].next = s[i]
    BY <1>4 DEF Linked
  <2>4. hdr[a].next # NULL => hdr[hdr[a].next].prev = a
    <3>1. CASE j = 1
      BY <2>1, <2>2, <3>1
    <3>2. CASE j > 1
      <4>1. j - 1 \in 1..n /\ j - 1 < n /\ (j - 1) + 1 = j
        BY <3>2
      <4> QED BY <2>1, <2>3, <4>1
    <3> QED BY <3>1, <3>2
  <2>5. hdr[a].prev # NULL => hdr[hdr[a].prev].next = a
    <3>1. CASE j = n
      BY <2>1, <2>2, <3>1
    <3>2. CASE j < n
      BY <2>1, <2>3, <3>2
    <3> QED BY <3>1, <3>2
  <2> QED BY <1>5, <2>4, <2>5 DEF kmalloc_sanity
<1>8. /\ hdr' = unlink(a)
      /\ malloc_last' = IF malloc_last = a THEN hdr[a].prev ELSE malloc_last
      /\ page_free(a, held[a].pages)
      /\ held' = [held EXCEPT ![a] = Free]
  BY <1>1, <1>5, <1>7
<1>9. /\ NoOverlap' /\ panic' = "none"
      /\ bitmap' \in [Page -> BOOLEAN] /\ firstfree' \in Page
      /\ held' \in [Page -> [kind : {"none", "kmalloc", "pages"}, pages : 0..Pages]]
      /\ Blocks' = Blocks \ {a}
      /\ held'[a] = Free /\ \A b \in Page \ {a} : held'[b] = held[b]
      /\ \A b \in Blocks \ {a} : b \notin Span(a, held[a].pages)
  BY <1>2, <1>3, <1>8, FreeBlocks
<1>10. \A b \in Page : hdr'[b] =
            IF b \in Span(a, held[a].pages) THEN NoHdr
            ELSE [hdr[b] EXCEPT !.prev = IF b = hdr[a].next THEN hdr[a].prev ELSE hdr[b].prev,
                                !.next = IF b = hdr[a].prev THEN hdr[a].next ELSE hdr[b].next]
  BY <1>5, <1>6, <1>8 DEF unlink
<1>11. hdr[a].prev \in Page \cup {NULL} /\ hdr[a].next \in Page \cup {NULL}
  BY <1>1, <1>6
<1>12. \A b \in Page : hdr[b] \in [magic : BOOLEAN, page_amt : 0..Pages, next : Page \cup {NULL}, prev : Page \cup {NULL}]
  BY <1>6
<1>13. \A b \in Page : hdr'[b] \in [magic : BOOLEAN, page_amt : 0..Pages, next : Page \cup {NULL}, prev : Page \cup {NULL}]
  <2>1. NoHdr \in [magic : BOOLEAN, page_amt : 0..Pages, next : Page \cup {NULL}, prev : Page \cup {NULL}]
    BY MallocAssumption DEF NoHdr
  <2> TAKE b \in Page
  <2>2. CASE b \in Span(a, held[a].pages)
    BY <1>10, <2>1, <2>2
  <2>3. CASE b \notin Span(a, held[a].pages)
    <3>1. PICK p : p = IF b = hdr[a].next THEN hdr[a].prev ELSE hdr[b].prev
      OBVIOUS
    <3>2. PICK q : q = IF b = hdr[a].prev THEN hdr[a].next ELSE hdr[b].next
      OBVIOUS
    <3>3. hdr'[b] = [hdr[b] EXCEPT !.prev = p, !.next = q]
      BY <1>10, <2>3, <3>1, <3>2
    <3>4. p \in Page \cup {NULL} /\ q \in Page \cup {NULL}
      BY <1>11, <1>12, <3>1, <3>2
    <3>5. hdr[b] \in [magic : BOOLEAN, page_amt : 0..Pages, next : Page \cup {NULL}, prev : Page \cup {NULL}]
      BY <1>12
    <3> QED BY <3>3, <3>4, <3>5
  <2> QED BY <2>2, <2>3
<1>14. hdr' \in [Page -> [magic : BOOLEAN, page_amt : 0..Pages, next : Page \cup {NULL}, prev : Page \cup {NULL}]]
  <2>1. hdr' = [i \in Page |-> hdr'[i]]
    BY <1>8 DEF unlink
  <2> QED BY <1>13, <2>1
<1>15. \A b \in Blocks \ {a} :
            /\ hdr'[b].magic = hdr[b].magic /\ hdr'[b].page_amt = hdr[b].page_amt
            /\ hdr'[b].prev = IF b = hdr[a].next THEN hdr[a].prev ELSE hdr[b].prev
            /\ hdr'[b].next = IF b = hdr[a].prev THEN hdr[a].next ELSE hdr[b].next
  <2> TAKE b \in Blocks \ {a}
  <2>1. b \in Page /\ b \notin Span(a, held[a].pages)
    BY <1>9 DEF Blocks
  <2>2. PICK p : p = IF b = hdr[a].next THEN hdr[a].prev ELSE hdr[b].prev
    OBVIOUS
  <2>3. PICK q : q = IF b = hdr[a].prev THEN hdr[a].next ELSE hdr[b].next
    OBVIOUS
  <2>4. hdr'[b] = [hdr[b] EXCEPT !.prev = p, !.next = q]
    BY <1>10, <2>1, <2>2, <2>3
  <2>5. hdr'[b].magic = hdr[b].magic /\ hdr'[b].page_amt = hdr[b].page_amt /\ hdr'[b].prev = p /\ hdr'[b].next = q
    BY <1>12, <2>1, <2>4
  <2> QED BY <2>2, <2>3, <2>5
<1>16. TypeOK'
  <2>1. malloc_last \in Page \cup {NULL}
    BY <1>2 DEF TypeOK
  <2>2. malloc_last' \in Page \cup {NULL}
    BY <1>8, <1>11, <2>1
  <2> QED BY <1>9, <1>14, <2>2 DEF TypeOK
<1>17. Kmallocs' = Kmallocs \ {a}
  <2>1. held'[a].kind = "none"
    BY <1>9 DEF Free
  <2> QED BY <1>9, <2>1 DEF Kmallocs
<1>18. ListInv'
  <2>1. PICK g : g = hdr'
    OBVIOUS
  <2>2. \A b \in Kmallocs \ {a} :
            /\ g[b].prev = IF b = hdr[a].next THEN hdr[a].prev ELSE hdr[b].prev
            /\ g[b].next = IF b = hdr[a].prev THEN hdr[a].next ELSE hdr[b].next
    BY <1>15, <2>1, KmallocsOK
  <2>3. PICK top : top = IF malloc_last = a THEN hdr[a].prev ELSE malloc_last
    OBVIOUS
  <2>4. \E m \in Nat : \E t : Lists(Kmallocs \ {a}, m, t)
                              /\ Linked(g, IF malloc_last = a THEN hdr[a].prev ELSE malloc_last, m, t)
    BY <1>3, <1>4, <2>2, DropList, KmallocsOK
  <2>5. \E m \in Nat : \E t : Lists(Kmallocs \ {a}, m, t) /\ Linked(g, top, m, t)
    BY <2>3, <2>4
  <2>6. malloc_last' = top
    BY <1>8, <2>3
  <2> QED BY <1>17, <2>1, <2>5, <2>6 DEF ListInv
<1>19. BlocksInv'
  <2>1. \A b \in Blocks' : b \in Blocks \ {a} /\ held'[b] = held[b]
    BY <1>9 DEF Blocks
  <2> QED BY <1>2, <1>15, <2>1 DEF BlocksInv
<1> QED BY <1>9, <1>16, <1>18, <1>19 DEF HeapInv

-----------------------------------------------------------------------------
(* From the invariant to what the walk over the list finds. *)

\* A list of the blocks in K is as long as there are blocks.
LEMMA ListLength ==
    ASSUME NEW K, NEW n \in Nat, NEW s, Lists(K, n, s)
    PROVE  IsFiniteSet(K) /\ Cardinality(K) = n
<1>1. s \in [1..n -> K] /\ (\A i, j \in 1..n : s[i] = s[j] => i = j) /\ (\A a \in K : \E i \in 1..n : s[i] = a)
  BY DEF Lists
<1>2. s \in Bijection(1..n, K)
  BY <1>1 DEF Bijection, Injection, Surjection, IsInjective
<1>3. ExistsBijection(1..n, K)
  BY <1>2 DEF ExistsBijection
<1>4. IsFiniteSet(1..n) /\ Cardinality(1..n) = n
  BY FS_Interval
<1> QED BY <1>3, <1>4, FS_Bijection

\* The walk over a linked list of n blocks finds one after the other.
LEMMA ChainIs ==
    ASSUME NEW n \in Nat, n <= Pages, NEW s, \A i \in 1..n : s[i] \in Page,
           Linked(hdr, malloc_last, n, s)
    PROVE  chain = [k \in 0..Pages |-> IF k < n THEN s[k + 1] ELSE NULL]
<1> DEFINE g == [k \in 0..Pages |-> IF k < n THEN s[k + 1] ELSE NULL]
           f(c) == [k \in 0..Pages |-> IF k = 0 THEN malloc_last
                                       ELSE IF c[k - 1] = NULL THEN NULL ELSE hdr[c[k - 1]].prev]
<1>1. /\ n = 0 => malloc_last = NULL
      /\ n > 0 => malloc_last = s[1] /\ hdr[s[n]].prev = NULL
      /\ \A i \in 1..n : i < n => hdr[s[i]].prev = s[i + 1]
  BY DEF Linked
<1>2. Pages \in Nat /\ NULL \notin Page
  BY MallocAssumption DEF Page
<1>3. g = f(g)
  <2> SUFFICES ASSUME NEW k \in 0..Pages PROVE g[k] = f(g)[k]
    OBVIOUS
  <2>1. CASE k = 0
    <3>1. f(g)[k] = malloc_last
      BY <2>1
    <3>2. g[k] = IF 0 < n THEN s[1] ELSE NULL
      BY <2>1
    <3> QED BY <1>1, <3>1, <3>2
  <2>2. CASE k # 0
    <3>1. k - 1 \in 0..Pages /\ (k - 1) + 1 = k /\ k - 1 \in Nat
      BY <1>2, <2>2
    <3>2. g[k - 1] = IF k - 1 < n THEN s[k] ELSE NULL
      BY <3>1
    <3>3. f(g)[k] = IF g[k - 1] = NULL THEN NULL ELSE hdr[g[k - 1]].prev
      BY <2>2
    <3>4. g[k] = IF k < n THEN s[k + 1] ELSE NULL
      OBVIOUS
    <3> HIDE DEF g, f
    <3>5. CASE k < n
      <4>1. k \in 1..n
        BY <2>2, <3>5
      <4> QED BY <1>1, <1>2, <3>1, <3>2, <3>3, <3>4, <3>5, <4>1
    <3>6. CASE k = n
      <4>1. k \in 1..n /\ n > 0 /\ k - 1 < n
        BY <2>2, <3>6
      <4> QED BY <1>1, <1>2, <3>2, <3>3, <3>4, <3>6, <4>1
    <3>7. CASE k > n
      <4>1. ~(k - 1 < n) /\ ~(k < n)
        BY <3>7
      <4> QED BY <3>2, <3>3, <3>4, <4>1
    <3> QED BY <3>5, <3>6, <3>7
  <2> QED BY <2>1, <2>2
<1>4. chain = CHOOSE c : c = f(c)
  BY DEF chain
<1> HIDE DEF f
<1>5. chain = f(chain)
  BY <1>3, <1>4
<1>6. ASSUME NEW c, c = f(c) PROVE \A k \in 0..Pages : c[k] = g[k]
  <2> DEFINE Bad == {k \in 0..Pages : c[k] # g[k]}
  <2> SUFFICES ASSUME Bad # {} PROVE FALSE
    OBVIOUS
  <2>1. Bad \in SUBSET Nat
    BY <1>2
  <2>2. PICK k \in Bad : \A j \in Bad : k <= j
    <3> HIDE DEF Bad
    <3> QED BY <2>1, SmallestExists
  <2>3. k \in 0..Pages /\ c[k] # g[k]
    BY <2>2
  <2>4. CASE k = 0
    <3>1. f(c)[k] = malloc_last /\ f(g)[k] = malloc_last
      BY <2>3, <2>4 DEF f
    <3> QED BY <1>3, <1>6, <2>3, <3>1
  <2>5. CASE k # 0
    <3>1. k - 1 \in 0..Pages /\ ~(k <= k - 1)
      BY <1>2, <2>3, <2>5
    <3>2. k - 1 \notin Bad
      <4> HIDE DEF Bad
      <4> QED BY <2>2, <3>1
    <3>3. c[k - 1] = g[k - 1]
      BY <3>1, <3>2
    <3> HIDE DEF g
    <3>4. f(c)[k] = f(g)[k]
      BY <2>3, <2>5, <3>3 DEF f
    <3> QED BY <1>3, <1>6, <2>3, <3>4
  <2> QED BY <2>4, <2>5
<1>7. chain = [k \in 0..Pages |-> chain[k]]
  BY <1>5 DEF f
<1>8. \A k \in 0..Pages : chain[k] = g[k]
  BY <1>5, <1>6
<1> QED BY <1>7, <1>8

LEMMA WalkOK == ASSUME TypeOK, ListInv PROVE ListOK
<1>1a. PICK n \in Nat : \E s : Lists(Kmallocs, n, s) /\ Linked(hdr, malloc_last, n, s)
  BY DEF ListInv
<1>1. PICK s : Lists(Kmallocs, n, s) /\ Linked(hdr, malloc_last, n, s)
  BY <1>1a
<1>2. IsFiniteSet(Kmallocs) /\ Cardinality(Kmallocs) = n
  BY <1>1, ListLength
<1>3. n <= Pages
  <2>1. IsFiniteSet(Page) /\ Cardinality(Page) = Pages
    BY FS_Interval, MallocAssumption DEF Page
  <2>2. Kmallocs \in SUBSET Page
    BY DEF Kmallocs
  <2> QED BY <1>2, <2>1, <2>2, FS_Subset
<1>4. \A i \in 1..n : s[i] \in Kmallocs /\ s[i] \in Page
  BY <1>1 DEF Lists, Kmallocs
<1>5. chain = [k \in 0..Pages |-> IF k < n THEN s[k + 1] ELSE NULL]
  BY <1>1, <1>3, <1>4, ChainIs
<1>6. NULL \notin Page /\ Pages \in Nat
  BY MallocAssumption DEF Page
<1> DEFINE walk == {k \in 0..Pages : chain[k] # NULL}
<1>7. walk = 0..(n - 1)
  <2>1. ASSUME NEW k \in walk PROVE k \in 0..(n - 1)
    BY <1>5
  <2>2. ASSUME NEW k \in 0..(n - 1) PROVE k \in walk
    <3>1. k \in 0..Pages /\ k < n /\ k + 1 \in 1..n
      BY <1>3, <1>6
    <3>2. chain[k] = s[k + 1]
      BY <1>5, <3>1
    <3> QED BY <1>4, <1>6, <3>1, <3>2
  <2> QED BY <2>1, <2>2
<1>8. Cardinality(walk) = n
  <2>1. Cardinality(0..(n - 1)) = IF 0 > n - 1 THEN 0 ELSE (n - 1) - 0 + 1
    <3>1. 0 \in Int /\ n - 1 \in Int
      OBVIOUS
    <3> QED BY ONLY <3>1, FS_Interval
  <2>2. Cardinality(0..(n - 1)) = n
    BY ONLY <2>1, n \in Nat
  <2> HIDE DEF walk
  <2> QED BY <1>7, <2>2
<1>9. {chain[k] : k \in walk} = Kmallocs
  <2>1. \A k \in 0..(n - 1) : chain[k] = s[k + 1] /\ k + 1 \in 1..n
    <3> TAKE k \in 0..(n - 1)
    <3>1. k \in 0..Pages /\ k < n /\ k + 1 \in 1..n
      BY <1>3, <1>6
    <3> QED BY <1>5, <3>1
  <2>2. ASSUME NEW a \in Kmallocs PROVE \E k \in 0..(n - 1) : chain[k] = a
    <3>1. PICK i \in 1..n : s[i] = a
      BY <1>1 DEF Lists
    <3>2. i - 1 \in 0..(n - 1) /\ (i - 1) + 1 = i
      OBVIOUS
    <3> QED BY <2>1, <3>1, <3>2
  <2> HIDE DEF walk
  <2>3. \A k \in walk : chain[k] \in Kmallocs
    BY <1>4, <1>7, <2>1
  <2>4. \A a \in Kmallocs : \E k \in walk : chain[k] = a
    BY <1>7, <2>2
  <2> QED BY ONLY <2>3, <2>4
<1> QED BY <1>2, <1>8, <1>9 DEF ListOK, Kmallocs

-----------------------------------------------------------------------------
LEMMA InitInd == ASSUME Init PROVE HeapInv
<1>1. TypeOK
  BY MallocAssumption DEF Init, TypeOK, NoHdr, Free, Page
<1>2. Blocks = {} /\ Kmallocs = {}
  BY DEF Init, Blocks, Kmallocs, Free
<1>3. NoOverlap /\ BlocksInv
  <2>1. \A i \in Page : bitmap[i] <=> i = 0
    BY Zenon DEF Init
  <2> QED BY <1>2, <2>1 DEF NoOverlap, BlocksInv
<1>4. ListInv
  <2>1. Lists({}, 0, <<>>) /\ Linked(hdr, NULL, 0, <<>>)
    BY DEF Lists, Linked
  <2>2. malloc_last = NULL
    BY DEF Init
  <2> QED BY <1>2, <2>1, <2>2 DEF ListInv
<1> QED BY <1>1, <1>3, <1>4 DEF HeapInv, Init

LEMMA NextInd == ASSUME FillInside, HeapInv, [Next]_vars PROVE HeapInv'
<1>1. CASE UNCHANGED vars
  <2>1. Kmallocs' = Kmallocs /\ Blocks' = Blocks
    BY <1>1 DEF vars, Kmallocs, Blocks
  <2> QED BY <1>1, <2>1 DEF vars, HeapInv, TypeOK, NoOverlap, BlocksInv, ListInv
<1> QED BY <1>1, PageAllocInd, PageFreeInd, KmallocInd, KfreeInd DEF Next

LEMMA HeapInvGives == ASSUME HeapInv PROVE HeapSound
<1>1. TypeOK /\ NoOverlap /\ ListInv /\ panic \in {"none", "oom"}
  BY DEF HeapInv
<1>2. ListOK
  BY <1>1, WalkOK
<1>3. NoCorruption
  BY <1>1 DEF NoCorruption
<1> QED BY <1>1, <1>2, <1>3 DEF HeapSound

\* The heap is sound, for any number of pages and any sizes that are asked for,
\* as long as the pattern that kmalloc writes stays within the block: no two
\* blocks overlap, the list that mem_debugprint walks is exactly the blocks of
\* kmalloc, and neither the check of kmalloc_sanity nor the one for a double
\* free ever fires.
THEOREM HeapAlwaysSound == ASSUME FillInside PROVE Spec => []HeapSound
<1>1. Init => HeapInv
  BY InitInd
<1>2. HeapInv /\ [Next]_vars => HeapInv'
  BY NextInd
<1>3. HeapInv => HeapSound
  BY HeapInvGives
<1> QED BY <1>1, <1>2, <1>3, PTL DEF Spec

-----------------------------------------------------------------------------
(* The page tables.                                                         *)

Entry   == [phys : Frame \cup {0, KernFrame}, user : BOOLEAN]
DirType == [exists : BOOLEAN, tbl : SUBSET (0..(NTables - 1)), pte : [PageNo -> Entry]]

PdType ==
    /\ pages \in [Proc -> Dir \cup {None}]
    /\ dir \in [Dir -> DirType]
    /\ used \in SUBSET Frame /\ ntables \in Nat
    /\ mem \in [Frame -> {0, 1}]

\* The user pages of a directory.  An entry has a table, the entry of a user
\* page refers to a frame, and a directory that is gone has nothing left.
mapped(e) == {n \in PageNo : e.pte[n].user}
DirOK(e) ==
    /\ \A n \in PageNo : e.pte[n].phys # 0 => n \div Fan \in e.tbl
    /\ \A n \in PageNo : e.pte[n].user => e.pte[n].phys \in Frame
    /\ ~e.exists => e = Empty

\* The frames u are those of the user pages of the directories D, and each is
\* one page of one directory.
FramesUsed(D, u) == \A d \in Dir : \A n \in mapped(D[d]) : D[d].pte[n].phys \in u
NoneLeaked(D, u) == \A f \in u : \E d \in Dir : \E n \in mapped(D[d]) : D[d].pte[n].phys = f
OwnedOnce(D) ==
    \A d, c \in Dir : \A m \in mapped(D[d]), n \in mapped(D[c]) :
        D[d].pte[m].phys = D[c].pte[n].phys => d = c /\ m = n
FramesOf(D, u) == FramesUsed(D, u) /\ NoneLeaked(D, u) /\ OwnedOnce(D)

DirsLive == \A d \in Dir : dir[d].exists <=> \E p \in Proc : pages[p] = d
CountOK  == ntables = Cardinality(Dirs) + Cardinality(Tables)

\* The inductive invariant.
PagedirInv ==
    /\ PdType /\ (\A d \in Dir : DirOK(dir[d]))
    /\ DirsLive /\ FramesOf(dir, used) /\ CountOK

LEMMA PagedirConstants ==
    /\ PageBytes \in Nat /\ PageBytes > 0 /\ Fan \in Nat /\ Fan > 0 /\ NTables \in Nat /\ NTables > 0
    /\ NPages \in Nat /\ NPages = Fan * NTables
    /\ \A f \in Frame : f \in Nat /\ f # 0
    /\ \A n \in PageNo : n \in Nat /\ n < NPages /\ n \div Fan \in 0..(NTables - 1)
    /\ None \notin Dir
<1>1. PageBytes \in Nat /\ PageBytes > 0 /\ Fan \in Nat /\ Fan > 0 /\ NTables \in Nat /\ NTables > 0
  BY PagedirAssumption
<1>2. NPages \in Nat /\ NPages = Fan * NTables
  BY <1>1 DEF NPages
<1>3. ASSUME NEW n \in PageNo PROVE n \in Nat /\ n < NPages /\ n \div Fan \in 0..(NTables - 1)
  <2>1. n \in Nat /\ n < Fan * NTables
    BY <1>1, <1>2 DEF PageNo
  <2>2. n \div Fan \in Nat /\ Fan * (n \div Fan) <= n
    BY <1>1, <2>1
  <2>3. n \div Fan < NTables
    <3> SUFFICES ASSUME n \div Fan >= NTables PROVE FALSE
      BY <1>1, <2>2
    <3>1. Fan * (n \div Fan) >= Fan * NTables
      BY <1>1, <2>2
    <3> QED BY <1>1, <2>1, <2>2, <3>1
  <2> QED BY <1>1, <1>2, <2>1, <2>2, <2>3
<1>4. (\A f \in Frame : f \in Nat /\ f # 0) /\ None \notin Dir
  BY PagedirAssumption
<1> QED BY <1>1, <1>2, <1>3, <1>4

LEMMA EmptyDir ==
    /\ Empty \in DirType /\ Empty.tbl = {} /\ Empty.exists = FALSE /\ mapped(Empty) = {}
    /\ DirOK(Empty) /\ \A n \in PageNo : Empty.pte[n] = NoEntry
<1>1. NoEntry \in Entry /\ NoEntry.phys = 0 /\ NoEntry.user = FALSE
  BY DEF Entry, NoEntry
<1>2. /\ Empty.pte = [n \in PageNo |-> NoEntry] /\ Empty.tbl = {} /\ Empty.exists = FALSE
      /\ Empty \in DirType
  BY <1>1 DEF Empty, DirType
<1>3. \A n \in PageNo : Empty.pte[n] = NoEntry
  BY <1>2
<1> QED BY <1>1, <1>2, <1>3 DEF mapped, DirOK

\* What get_entry says about a page.
LEMMA EntryFacts ==
    ASSUME NEW e \in DirType, DirOK(e)
    PROVE  /\ e.pte \in [PageNo -> Entry]
           /\ \A n \in PageNo : (Present(e, n) <=> e.pte[n].phys # 0) /\ (UserPage(e, n) <=> e.pte[n].user)
           /\ \A n : UserPage(e, n) => n \in PageNo
           /\ \A S : freeable(e, S) = S \cap mapped(e)
           /\ freeable(e, PageNo) = mapped(e)
           /\ \A n \in mapped(e) : get_entry(e, n) = e.pte[n] /\ e.pte[n].phys \in Frame
<1>1. e.pte \in [PageNo -> Entry] /\ NoEntry.phys = 0 /\ NoEntry.user = FALSE
  BY DEF DirType, NoEntry
<1>2. \A n \in PageNo : e.pte[n].user \in BOOLEAN
  BY <1>1 DEF Entry
<1>3. \A f \in Frame : f # 0
  BY PagedirConstants
<1>4. ASSUME NEW n \in PageNo
      PROVE  /\ (Present(e, n) <=> e.pte[n].phys # 0) /\ (UserPage(e, n) <=> e.pte[n].user)
             /\ e.pte[n].user => get_entry(e, n) = e.pte[n] /\ e.pte[n].phys \in Frame
  <2>1. CASE n \div Fan \in e.tbl
    <3>1. get_entry(e, n) = e.pte[n]
      BY <2>1 DEF get_entry
    <3> QED BY <1>2, <1>3, <3>1 DEF Present, UserPage, DirOK
  <2>2. CASE n \div Fan \notin e.tbl
    <3>1. get_entry(e, n) = NoEntry /\ e.pte[n].phys = 0
      BY <2>2 DEF get_entry, DirOK
    <3>2. ~e.pte[n].user
      BY <1>3, <3>1 DEF DirOK
    <3> QED BY <1>1, <3>1, <3>2 DEF Present, UserPage
  <2> QED BY <2>1, <2>2
<1>5. ASSUME NEW n, UserPage(e, n) PROVE n \in PageNo
  BY <1>1, <1>5 DEF UserPage, Present, get_entry
<1>6. ASSUME NEW S PROVE freeable(e, S) = S \cap mapped(e)
  BY <1>4, <1>5 DEF freeable, mapped
<1>7. freeable(e, PageNo) = mapped(e)
  BY <1>6 DEF mapped
<1> QED BY <1>1, <1>4, <1>5, <1>6, <1>7 DEF mapped

\* Pages of one directory go away, with their frames.
LEMMA ShrinkFrames ==
    ASSUME NEW D, NEW u, FramesOf(D, u), NEW d \in Dir, NEW D2, \A c \in Dir : c # d => D2[c] = D[c],
           mapped(D2[d]) \subseteq mapped(D[d]), \A n \in mapped(D2[d]) : D2[d].pte[n] = D[d].pte[n]
    PROVE  FramesOf(D2, u \ {D[d].pte[n].phys : n \in mapped(D[d]) \ mapped(D2[d])})
<1> DEFINE gone == mapped(D[d]) \ mapped(D2[d])
           u2   == u \ {D[d].pte[n].phys : n \in gone}
<1>1. FramesUsed(D, u) /\ NoneLeaked(D, u) /\ OwnedOnce(D)
  BY DEF FramesOf
<1>2. \A c \in Dir : \A n \in mapped(D2[c]) : n \in mapped(D[c]) /\ D2[c].pte[n].phys = D[c].pte[n].phys
  OBVIOUS
<1>3. \A c \in Dir : \A n \in mapped(D2[c]) : \A m \in gone : D[c].pte[n].phys # D[d].pte[m].phys
  <2> TAKE c \in Dir
  <2> TAKE n \in mapped(D2[c])
  <2> TAKE m \in gone
  <2>1. m \in mapped(D[d]) /\ m \notin mapped(D2[d]) /\ n \in mapped(D[c])
    BY <1>2
  <2>2. D[c].pte[n].phys = D[d].pte[m].phys => c = d /\ n = m
    BY <1>1, <2>1 DEF OwnedOnce
  <2> QED BY <2>1, <2>2
<1>4. FramesUsed(D2, u2)
  BY <1>1, <1>2, <1>3 DEF FramesUsed
<1>5. OwnedOnce(D2)
  BY <1>1, <1>2 DEF OwnedOnce
<1>6. NoneLeaked(D2, u2)
  <2> SUFFICES ASSUME NEW f \in u2 PROVE \E c \in Dir : \E n \in mapped(D2[c]) : D2[c].pte[n].phys = f
    BY DEF NoneLeaked
  <2>1. PICK c \in Dir : \E n \in mapped(D[c]) : D[c].pte[n].phys = f
    BY <1>1 DEF NoneLeaked
  <2>2. PICK n \in mapped(D[c]) : D[c].pte[n].phys = f
    BY <2>1
  <2>3. n \in mapped(D2[c])
    BY <2>2
  <2> QED BY <1>2, <2>2, <2>3
<1> QED BY <1>4, <1>5, <1>6 DEF FramesOf

\* Pages S come to one directory, each with a new frame of its own.
LEMMA GrowFrames ==
    ASSUME NEW D, NEW u, FramesOf(D, u), NEW d \in Dir, NEW D2, \A c \in Dir : c # d => D2[c] = D[c],
           NEW S, S \cap mapped(D[d]) = {}, NEW fs, fs \cap u = {}, NEW to \in Bijection(S, fs),
           mapped(D2[d]) = mapped(D[d]) \cup S,
           \A n \in mapped(D[d]) : D2[d].pte[n] = D[d].pte[n],
           \A n \in S : D2[d].pte[n].phys = to[n]
    PROVE  FramesOf(D2, u \cup fs)
<1>1. FramesUsed(D, u) /\ NoneLeaked(D, u) /\ OwnedOnce(D)
  BY DEF FramesOf
<1>2. /\ \A n \in S : to[n] \in fs
      /\ \A m, n \in S : to[m] = to[n] => m = n
      /\ \A f \in fs : \E n \in S : to[n] = f
  BY DEF Bijection, Injection, IsInjective, Surjection
<1>3. \A c \in Dir : \A n \in mapped(D[c]) : n \in mapped(D2[c]) /\ D2[c].pte[n].phys = D[c].pte[n].phys
  OBVIOUS
<1>4. \A c \in Dir : \A n \in mapped(D2[c]) : n \in mapped(D[c]) \/ (c = d /\ n \in S)
  OBVIOUS
<1>5. \A c \in Dir : \A n \in mapped(D[c]) : D[c].pte[n].phys \in u /\ D[c].pte[n].phys \notin fs
  BY <1>1 DEF FramesUsed
<1>6. FramesUsed(D2, u \cup fs)
  BY <1>2, <1>3, <1>4, <1>5 DEF FramesUsed
<1>7. NoneLeaked(D2, u \cup fs)
  <2> SUFFICES ASSUME NEW f \in u \cup fs
               PROVE  \E c \in Dir : \E n \in mapped(D2[c]) : D2[c].pte[n].phys = f
    BY DEF NoneLeaked
  <2>1. CASE f \in u
    BY <1>1, <1>3, <2>1 DEF NoneLeaked
  <2>2. CASE f \in fs
    BY <1>2, <2>2
  <2> QED BY <2>1, <2>2
<1>8. OwnedOnce(D2)
  <2> SUFFICES ASSUME NEW b \in Dir, NEW c \in Dir, NEW m \in mapped(D2[b]), NEW n \in mapped(D2[c]),
                      D2[b].pte[m].phys = D2[c].pte[n].phys
               PROVE  b = c /\ m = n
    BY DEF OwnedOnce
  <2>1. CASE m \in mapped(D[b]) /\ n \in mapped(D[c])
    BY <1>1, <1>3, <2>1 DEF OwnedOnce
  <2>2. CASE b = d /\ m \in S /\ c = d /\ n \in S
    BY <1>2, <2>2
  <2>3. CASE m \in mapped(D[b]) /\ c = d /\ n \in S
    BY <1>2, <1>3, <1>5, <2>3
  <2>4. CASE b = d /\ m \in S /\ n \in mapped(D[c])
    BY <1>2, <1>3, <1>5, <2>4
  <2> QED BY <1>4, <2>1, <2>2, <2>3, <2>4
<1> QED BY <1>6, <1>7, <1>8 DEF FramesOf

\* n calls of page_alloc find n frames, if so many are free.
LEMMA TakeIs ==
    ASSUME NEW S \in SUBSET Frame, NEW n \in Nat, n <= Cardinality(Frame \ S)
    PROVE  Take(S, n) \in SUBSET (Frame \ S) /\ IsFiniteSet(Take(S, n)) /\ Cardinality(Take(S, n)) = n
<1> DEFINE free == Frame \ S
           Lowest(T, k) == /\ T \in SUBSET free /\ Cardinality(T) = k
                           /\ \A f \in T, g \in Frame \ (S \cup T) : f < g
           bad == {k \in Nat : k <= Cardinality(free) /\ ~(\E T : Lowest(T, k))}
<1>1. free \in SUBSET Nat /\ IsFiniteSet(free) /\ Cardinality(free) \in Nat
  BY PagedirAssumption, FS_Difference, FS_CardinalityType
<1>2. bad = {}
  <2> SUFFICES ASSUME bad # {} PROVE FALSE
    OBVIOUS
  <2>1. PICK k \in bad : \A j \in bad : k <= j
    <3>1. bad \in SUBSET Nat
      OBVIOUS
    <3> HIDE DEF bad
    <3> QED BY <3>1, SmallestExists
  <2>2. k \in Nat /\ k <= Cardinality(free) /\ ~(\E T : Lowest(T, k))
    OBVIOUS
  <2>3. k # 0
    <3>1. Lowest({}, 0)
      BY FS_EmptySet
    <3> QED BY <2>2, <3>1
  <2>4. k - 1 \in Nat /\ k - 1 < Cardinality(free) /\ k - 1 \notin bad
    BY <1>1, <2>1, <2>2, <2>3
  <2>5. PICK T : Lowest(T, k - 1)
    BY <1>1, <2>4
  <2>6. IsFiniteSet(T) /\ T \in SUBSET free /\ Cardinality(T) = k - 1
    BY <1>1, <2>5, FS_Subset
  <2>7. free \ T # {} /\ free \ T \in SUBSET Nat
    <3>1. T # free
      BY <1>1, <2>4, <2>6
    <3> QED BY <1>1, <2>6, <3>1
  <2>8. PICK m \in free \ T : \A g \in free \ T : m <= g
    BY <2>7, SmallestExists
  <2>9. Cardinality(T \cup {m}) = k
    <3>1. Cardinality(T \cup {m}) = (k - 1) + 1
      <4>1. IsFiniteSet(T) /\ m \notin T /\ Cardinality(T) = k - 1
        BY <2>6, <2>8
      <4> HIDE DEF free, Lowest, bad
      <4> QED BY <4>1, FS_AddElement
    <3>2. k \in Nat
      BY <2>2
    <3> HIDE DEF free, Lowest, bad
    <3> QED BY <3>1, <3>2
  <2>10. \A f \in T \cup {m}, g \in Frame \ (S \cup (T \cup {m})) : f < g
    <3> TAKE f \in T \cup {m}, g \in Frame \ (S \cup (T \cup {m}))
    <3>1. g \in free \ T /\ g # m /\ g \in Nat /\ m \in Nat
      BY <1>1, <2>8
    <3>2. CASE f \in T
      BY <2>5, <3>1, <3>2
    <3>3. CASE f = m
      BY <2>8, <3>1, <3>3
    <3> QED BY <3>2, <3>3
  <2>11. Lowest(T \cup {m}, k)
    BY <2>6, <2>8, <2>9, <2>10
  <2> QED BY <2>2, <2>11
<1>3. \E T : Lowest(T, n)
  <2>1. n \notin bad
    BY <1>2
  <2> QED BY <2>1
<1>4. Lowest(Take(S, n), n)
  BY <1>3 DEF Take
<1>5. IsFiniteSet(Take(S, n))
  BY <1>1, <1>4, FS_Subset
<1> QED BY <1>4, <1>5

LEMMA BijectionIs ==
    ASSUME NEW S, IsFiniteSet(S), NEW T, IsFiniteSet(T), Cardinality(S) = Cardinality(T)
    PROVE  (CHOOSE f \in Bijection(S, T) : TRUE) \in Bijection(S, T)
<1>1. Bijection(S, T) # {}
  BY FS_SameCardinalityBij DEF ExistsBijection
<1> QED BY <1>1

\* The frames of directories and tables, and how a change of one directory
\* changes their number.
DirsOf(D)   == {d \in Dir : D[d].exists}
TablesOf(D) == {x \in Dir \X (0..(NTables - 1)) : x[2] \in D[x[1]].tbl}
Count(D)    == Cardinality(DirsOf(D)) + Cardinality(TablesOf(D))

LEMMA CountOne ==
    ASSUME NEW D \in [Dir -> DirType], NEW d \in Dir, ~D[d].exists => D[d].tbl = {}
    PROVE  LET Q == {c \in DirsOf(D) : c # d}
               R == {x \in TablesOf(D) : x[1] # d}
           IN /\ Cardinality(Q) \in Nat /\ Cardinality(R) \in Nat /\ overhead(D[d]) \in Nat
              /\ Count(D) = Cardinality(Q) + Cardinality(R) + overhead(D[d])
<1> DEFINE Q == {c \in DirsOf(D) : c # d}
           R == {x \in TablesOf(D) : x[1] # d}
           tab == D[d].tbl
<1>1. /\ D[d].exists \in BOOLEAN /\ tab \in SUBSET (0..(NTables - 1))
      /\ IsFiniteSet(Dir) /\ IsFiniteSet(0..(NTables - 1))
  BY PagedirAssumption, FS_Interval DEF DirType
<1>2. IsFiniteSet(tab) /\ Cardinality(tab) \in Nat
  BY <1>1, FS_Subset, FS_CardinalityType
<1>3. IsFiniteSet(DirsOf(D)) /\ IsFiniteSet(TablesOf(D))
  <2>1. IsFiniteSet(Dir \X (0..(NTables - 1)))
    BY <1>1, FS_Product
  <2>2. DirsOf(D) \in SUBSET Dir /\ TablesOf(D) \in SUBSET (Dir \X (0..(NTables - 1)))
    BY DEF DirsOf, TablesOf
  <2> QED BY <1>1, <2>1, <2>2, FS_Subset
<1>4. IsFiniteSet(Q) /\ Cardinality(Q) \in Nat /\ IsFiniteSet(R) /\ Cardinality(R) \in Nat
  <2>1. Q \in SUBSET DirsOf(D) /\ R \in SUBSET TablesOf(D)
    OBVIOUS
  <2> QED BY <1>3, <2>1, FS_Subset, FS_CardinalityType
<1>5. Cardinality(DirsOf(D)) = Cardinality(Q) + (IF D[d].exists THEN 1 ELSE 0)
  <2>1. CASE D[d].exists
    <3>1. DirsOf(D) = Q \cup {d} /\ d \notin Q
      BY <2>1 DEF DirsOf
    <3> QED BY <1>4, <2>1, <3>1, FS_AddElement
  <2>2. CASE ~D[d].exists
    <3>1. DirsOf(D) = Q
      BY <2>2 DEF DirsOf
    <3>2. Cardinality(DirsOf(D)) = Cardinality(Q)
      BY <3>1
    <3> HIDE DEF Q
    <3> QED BY <1>4, <2>2, <3>2
  <2> QED BY <2>1, <2>2
<1>6. Cardinality(TablesOf(D)) = Cardinality(R) + Cardinality(tab)
  <2>1. TablesOf(D) = R \cup ({d} \X tab)
    <3>1. ASSUME NEW x \in TablesOf(D) PROVE x \in R \/ x \in {d} \X tab
      <4>1. x \in Dir \X (0..(NTables - 1)) /\ x[2] \in D[x[1]].tbl
        BY DEF TablesOf
      <4>2. x = <<x[1], x[2]>>
        BY <4>1
      <4>3. CASE x[1] = d
        BY <4>1, <4>2, <4>3
      <4>4. CASE x[1] # d
        BY <4>4
      <4> QED BY <4>3, <4>4
    <3>2. ASSUME NEW t \in tab PROVE <<d, t>> \in TablesOf(D)
      BY <1>1 DEF TablesOf
    <3>3. \A x \in {d} \X tab : x \in TablesOf(D)
      BY <3>2
    <3> QED BY <3>1, <3>3
  <2>2. R \cap ({d} \X tab) = {}
    OBVIOUS
  <2>3. IsFiniteSet({d}) /\ Cardinality({d}) = 1
    BY FS_Singleton
  <2>4. IsFiniteSet({d} \X tab) /\ Cardinality({d} \X tab) = 1 * Cardinality(tab)
    BY <1>2, <2>3, FS_Product
  <2>5. Cardinality(R \cup ({d} \X tab)) = Cardinality(R) + Cardinality({d} \X tab) - Cardinality(R \cap ({d} \X tab))
    <3> HIDE DEF R, tab
    <3> QED BY <1>4, <2>4, FS_Union
  <2>6. Cardinality(R \cap ({d} \X tab)) = 0
    BY <2>2, FS_EmptySet
  <2> HIDE DEF R, tab
  <2> QED BY <1>2, <1>4, <2>1, <2>4, <2>5, <2>6
<1>7. overhead(D[d]) = (IF D[d].exists THEN 1 ELSE 0) + Cardinality(tab)
  <2>1. CASE D[d].exists
    BY <1>2, <2>1 DEF overhead
  <2>2. CASE ~D[d].exists
    <3>1. Cardinality(tab) = 0
      BY <2>2, FS_EmptySet
    <3> QED BY <2>2, <3>1 DEF overhead
  <2> QED BY <2>1, <2>2
<1>8. overhead(D[d]) \in Nat
  BY <1>2, <1>7
<1> HIDE DEF Q, R, tab
<1>9. Count(D) = Cardinality(Q) + Cardinality(R) + overhead(D[d])
  BY <1>2, <1>4, <1>5, <1>6, <1>7 DEF Count
<1> QED BY <1>4, <1>8, <1>9 DEF Q, R

LEMMA CountStep ==
    ASSUME NEW D \in [Dir -> DirType], NEW D2 \in [Dir -> DirType], NEW d \in Dir,
           \A c \in Dir : c # d => D2[c] = D[c],
           ~D[d].exists => D[d].tbl = {}, ~D2[d].exists => D2[d].tbl = {}
    PROVE  /\ Count(D) \in Nat /\ Count(D2) \in Nat /\ overhead(D[d]) \in Nat /\ overhead(D2[d]) \in Nat
           /\ Count(D2) = Count(D) - overhead(D[d]) + overhead(D2[d])
           /\ overhead(D[d]) <= Count(D)
<1>1. {c \in DirsOf(D) : c # d} = {c \in DirsOf(D2) : c # d}
  BY DEF DirsOf
<1>2. {x \in TablesOf(D) : x[1] # d} = {x \in TablesOf(D2) : x[1] # d}
  BY DEF TablesOf
<1>3. PICK q, r : q = Cardinality({c \in DirsOf(D) : c # d}) /\ r = Cardinality({x \in TablesOf(D) : x[1] # d})
  OBVIOUS
<1>4. /\ q \in Nat /\ r \in Nat /\ overhead(D[d]) \in Nat
      /\ Count(D) = q + r + overhead(D[d])
  BY <1>3, CountOne
<1>5. overhead(D2[d]) \in Nat /\ Count(D2) = q + r + overhead(D2[d])
  BY <1>1, <1>2, <1>3, CountOne
<1> QED BY <1>4, <1>5

-----------------------------------------------------------------------------
(* Each call keeps the invariant.                                           *)

LEMMA LiveDir ==
    ASSUME PagedirInv, NEW p \in Proc, pages[p] # None
    PROVE  pages[p] \in Dir /\ Cur(p) \in DirType /\ DirOK(Cur(p)) /\ Cur(p).exists
<1>1. pages[p] \in Dir
  BY DEF PagedirInv, PdType
<1>2. dir[pages[p]] \in DirType /\ DirOK(dir[pages[p]])
  BY <1>1 DEF PagedirInv, PdType
<1>3. dir[pages[p]].exists
  BY <1>1 DEF PagedirInv, DirsLive
<1> QED BY <1>1, <1>2, <1>3 DEF Cur

LEMMA CountIs == (CountOK <=> ntables = Count(dir)) /\ (CountOK' <=> ntables' = Count(dir'))
BY DEF CountOK, Count, Dirs, Tables, DirsOf, TablesOf

\* What a step that changes one directory has to show.
LEMMA OneDirStep ==
    ASSUME PagedirInv, NEW d \in Dir, NEW e2 \in DirType, dir' = [dir EXCEPT ![d] = e2],
           DirOK(e2), pages' \in [Proc -> Dir \cup {None}], DirsLive',
           FramesOf(dir', used'), used' \in SUBSET Frame, mem' \in [Frame -> {0, 1}],
           ntables' = ntables - overhead(dir[d]) + overhead(e2)
    PROVE  PagedirInv'
<1>1. PdType /\ CountOK /\ \A c \in Dir : DirOK(dir[c])
  BY DEF PagedirInv
<1>2. dir \in [Dir -> DirType] /\ ntables \in Nat
  BY <1>1 DEF PdType
<1>3. dir' \in [Dir -> DirType] /\ dir'[d] = e2 /\ \A c \in Dir : c # d => dir'[c] = dir[c]
  BY <1>2
<1>4. \A c \in Dir : DirOK(dir'[c])
  BY <1>1, <1>3
<1>5. (~dir[d].exists => dir[d].tbl = {}) /\ (~e2.exists => e2.tbl = {})
  BY <1>1, EmptyDir DEF DirOK
<1>6. /\ Count(dir) \in Nat /\ Count(dir') \in Nat
      /\ Count(dir') = Count(dir) - overhead(dir[d]) + overhead(dir'[d])
  <2>1. ~dir'[d].exists => dir'[d].tbl = {}
    BY <1>3, <1>5
  <2> QED BY <1>2, <1>3, <1>5, <2>1, CountStep
<1>7. ntables' = Count(dir') /\ ntables' \in Nat
  BY <1>1, <1>3, <1>6, CountIs
<1>8. CountOK' /\ PdType'
  BY <1>3, <1>7, CountIs DEF PdType
<1> QED BY <1>4, <1>8 DEF PagedirInv

LEMMA SamePages ==
    ASSUME PagedirInv, UNCHANGED pages, NEW p \in Proc, pages[p] # None,
           NEW e2, e2.exists, dir' = [dir EXCEPT ![pages[p]] = e2]
    PROVE  DirsLive'
<1>1. pages[p] \in Dir /\ dir[pages[p]].exists /\ dir \in [Dir -> DirType]
  BY LiveDir DEF Cur, PagedirInv, PdType
<1>2. \A c \in Dir : dir'[c].exists <=> dir[c].exists
  BY <1>1
<1>3. DirsLive
  BY DEF PagedirInv
<1> QED BY <1>2, <1>3 DEF DirsLive

\* The effect of pagedir_unmap_user: the pages S have no entry any more.
Unmapping(p, S, e2) ==
    LET e == Cur(p) IN
    /\ S \in SUBSET mapped(e)
    /\ e2 \in DirType /\ e2.exists /\ e2.tbl = e.tbl
    /\ \A k \in PageNo : e2.pte[k] = IF k \in S THEN NoEntry ELSE e.pte[k]
    /\ dir' = [dir EXCEPT ![pages[p]] = e2]
    /\ used' = used \ {e.pte[k].phys : k \in S}
    /\ mem' = freed_mem({e.pte[k].phys : k \in S} \cap Frame)
    /\ pages' = pages /\ ntables' = ntables

LEMMA UnmapIs ==
    ASSUME PagedirInv, NEW p \in Proc, pages[p] # None, NEW n, NEW len, Unmap(p, n, len)
    PROVE  \E S, e2 : /\ S = freeable(Cur(p), visited(Cur(p), n, unmapped_end(n * PageBytes, len)))
                      /\ Unmapping(p, S, e2)
<1>1. PICK d \in Dir, e \in DirType : d = pages[p] /\ e = dir[d] /\ e = Cur(p) /\ DirOK(e) /\ e.exists
  BY LiveDir DEF Cur
<1>2. PICK S : S = freeable(e, visited(e, n, unmapped_end(n * PageBytes, len)))
  OBVIOUS
<1>3. /\ dir' = [dir EXCEPT ![d].pte = [k \in PageNo |-> IF k \in S THEN NoEntry ELSE @[k]]]
      /\ used' = used \ {e.pte[k].phys : k \in S}
      /\ mem' = freed_mem({e.pte[k].phys : k \in S} \cap Frame)
      /\ pages' = pages /\ ntables' = ntables
  BY <1>1, <1>2 DEF Unmap
<1>4. S \subseteq mapped(e) /\ e.pte \in [PageNo -> Entry]
  BY <1>1, <1>2, EntryFacts
<1>5. PICK e2 : e2 = [e EXCEPT !.pte = [k \in PageNo |-> IF k \in S THEN NoEntry ELSE e.pte[k]]]
  OBVIOUS
<1>6. dir \in [Dir -> DirType]
  BY DEF PagedirInv, PdType
<1>7. dir' = [dir EXCEPT ![d] = e2]
  BY <1>1, <1>3, <1>5, <1>6
<1>8. NoEntry \in Entry
  BY DEF Entry, NoEntry
<1>9. /\ e2 \in DirType /\ e2.exists /\ e2.tbl = e.tbl
      /\ \A k \in PageNo : e2.pte[k] = IF k \in S THEN NoEntry ELSE e.pte[k]
  BY <1>1, <1>4, <1>5, <1>8 DEF DirType
<1>10. /\ used' = used \ {e.pte[k].phys : k \in S}
       /\ mem' = freed_mem({e.pte[k].phys : k \in S} \cap Frame)
       /\ pages' = pages /\ ntables' = ntables
  BY <1>3
<1>11. Unmapping(p, S, e2)
  BY <1>1, <1>4, <1>7, <1>9, <1>10 DEF Unmapping
<1> QED BY <1>1, <1>2, <1>11

LEMMA UnmappingKeeps ==
    ASSUME PagedirInv, NEW p \in Proc, pages[p] # None, NEW S, NEW e2, Unmapping(p, S, e2)
    PROVE  PagedirInv'
<1>1. PICK d \in Dir, e \in DirType : d = pages[p] /\ e = dir[d] /\ e = Cur(p) /\ DirOK(e) /\ e.exists
  BY LiveDir DEF Cur
<1>2. /\ used' = used \ {e.pte[k].phys : k \in S}
      /\ mem' = freed_mem({e.pte[k].phys : k \in S} \cap Frame)
      /\ pages' = pages /\ ntables' = ntables
  BY <1>1 DEF Unmapping
<1>3. S \subseteq mapped(e) /\ e.pte \in [PageNo -> Entry]
  BY <1>1, EntryFacts DEF Unmapping
<1>4. dir \in [Dir -> DirType] /\ mem \in [Frame -> {0, 1}] /\ ntables \in Nat /\ used \in SUBSET Frame
      /\ FramesOf(dir, used) /\ pages \in [Proc -> Dir \cup {None}]
  BY DEF PagedirInv, PdType
<1>5. dir' = [dir EXCEPT ![d] = e2]
  BY <1>1 DEF Unmapping
<1>6. NoEntry \in Entry /\ NoEntry.phys = 0 /\ NoEntry.user = FALSE
  BY DEF Entry, NoEntry
<1>7. /\ e2 \in DirType /\ e2.exists /\ e2.tbl = e.tbl
      /\ \A k \in PageNo : e2.pte[k] = IF k \in S THEN NoEntry ELSE e.pte[k]
  BY <1>1 DEF Unmapping
<1>8. DirOK(e2)
  BY <1>1, <1>6, <1>7 DEF DirOK
<1>9. mapped(e2) = mapped(e) \ S /\ mapped(e) \ mapped(e2) = S
  BY <1>3, <1>6, <1>7 DEF mapped
<1>10. \A k \in mapped(e2) : e2.pte[k] = e.pte[k]
  BY <1>7, <1>9 DEF mapped
<1>11. FramesOf(dir', used')
  <2>1. dir'[d] = e2 /\ \A c \in Dir : c # d => dir'[c] = dir[c]
    BY <1>4, <1>5
  <2>2. mapped(dir'[d]) \subseteq mapped(dir[d]) /\ \A k \in mapped(dir'[d]) : dir'[d].pte[k] = dir[d].pte[k]
    BY <1>1, <1>9, <1>10, <2>1
  <2>3. FramesOf(dir', used \ {dir[d].pte[k].phys : k \in mapped(dir[d]) \ mapped(dir'[d])})
    BY <1>4, <2>1, <2>2, ShrinkFrames
  <2>4. mapped(dir[d]) \ mapped(dir'[d]) = S
    BY <1>1, <1>9, <2>1
  <2> QED BY <1>1, <1>2, <2>3, <2>4
<1>12. DirsLive'
  BY <1>1, <1>2, <1>5, <1>7, SamePages
<1>13. mem' \in [Frame -> {0, 1}]
  BY <1>2, <1>4 DEF freed_mem
<1>14. ntables' = ntables - overhead(dir[d]) + overhead(e2)
  <2>1. overhead(e2) = overhead(dir[d])
    BY <1>1, <1>7 DEF overhead
  <2>2. overhead(dir[d]) \in Nat
    <3>1. ~dir[d].exists => dir[d].tbl = {}
      BY <1>1
    <3> QED BY <1>4, <3>1, CountOne
  <2> QED BY <1>2, <1>4, <2>1, <2>2
<1> QED BY <1>2, <1>4, <1>5, <1>7, <1>8, <1>11, <1>12, <1>13, <1>14, OneDirStep

\* What MapPages and pagedir_copy take from page_alloc: a new frame for each
\* page of S.
NewFrames(S, fs, to) ==
    /\ fs \in SUBSET Frame /\ fs \cap used = {} /\ to \in Bijection(S, fs)
    /\ \A n \in S : to[n] \in fs

LEMMA TakeNew ==
    ASSUME used \in SUBSET Frame, NEW S \in SUBSET PageNo, Cardinality(S) <= Cardinality(Frame \ used)
    PROVE  LET fs == Take(used, Cardinality(S)) IN NewFrames(S, fs, CHOOSE f \in Bijection(S, fs) : TRUE)
<1>1. IsFiniteSet(PageNo)
  <2>1. NPages - 1 \in Int
    BY PagedirConstants
  <2> QED BY <2>1, FS_Interval DEF PageNo
<1>2. IsFiniteSet(S) /\ Cardinality(S) \in Nat
  BY <1>1, FS_Subset, FS_CardinalityType
<1>3. PICK fs : fs = Take(used, Cardinality(S))
  OBVIOUS
<1>4. fs \in SUBSET (Frame \ used) /\ IsFiniteSet(fs) /\ Cardinality(fs) = Cardinality(S)
  BY <1>2, <1>3, TakeIs
<1>5. PICK to : to = CHOOSE f \in Bijection(S, fs) : TRUE
  OBVIOUS
<1>6. to \in Bijection(S, fs)
  BY <1>2, <1>4, <1>5, BijectionIs
<1>7. \A n \in S : to[n] \in fs
  BY <1>6 DEF Bijection, Injection
<1> QED BY <1>3, <1>4, <1>5, <1>6, <1>7 DEF NewFrames

\* The effect of MapPages: new pages with new, cleared frames.
WithPages(e, new, to) ==
    [e EXCEPT !.pte = [k \in PageNo |-> IF k \in new THEN [phys |-> to[k], user |-> TRUE] ELSE e.pte[k]],
              !.tbl = e.tbl \cup {k \div Fan : k \in new}]
Mapping(p, new, fs, to) ==
    LET e == Cur(p) IN
    /\ new \in SUBSET PageNo /\ (\A k \in new : e.pte[k].phys = 0 /\ ~e.pte[k].user) /\ NewFrames(new, fs, to)
    /\ dir' = [dir EXCEPT ![pages[p]] = WithPages(e, new, to)]
    /\ used' = used \cup fs
    /\ ntables' = ntables + Cardinality(WithPages(e, new, to).tbl \ e.tbl)
    /\ mem' = [f \in Frame |-> IF f \in fs THEN 0 ELSE mem[f]]
    /\ pages' = pages

LEMMA TwoFields ==
    ASSUME NEW D \in [Dir -> DirType], NEW d \in Dir, NEW pte, NEW tbl
    PROVE  [D EXCEPT ![d].pte = pte, ![d].tbl = tbl] = [D EXCEPT ![d] = [D[d] EXCEPT !.pte = pte, !.tbl = tbl]]
BY DEF DirType

LEMMA MapPagesIs ==
    ASSUME PagedirInv, NEW p \in Proc, pages[p] # None, NEW S \in SUBSET PageNo, MapPages(p, S)
    PROVE  \E new, fs, to : Mapping(p, new, fs, to)
<1>1. PICK d \in Dir, e \in DirType : d = pages[p] /\ e = dir[d] /\ e = Cur(p) /\ DirOK(e) /\ e.exists
  BY LiveDir DEF Cur
<1>2. PICK new : new = {k \in S : ~pagedir_iskern(e, k) /\ ~Present(e, k)}
  OBVIOUS
<1>3. PICK fs, to : fs = Take(used, Cardinality(new)) /\ to = CHOOSE f \in Bijection(new, fs) : TRUE
  OBVIOUS
<1>4. PICK tbl : tbl = e.tbl \cup {k \div Fan : k \in new}
  OBVIOUS
<1>5. /\ Cardinality(new) <= Cardinality(Frame \ used)
      /\ dir' = [dir EXCEPT ![d].pte = [k \in PageNo |-> IF k \in new THEN [phys |-> to[k], user |-> TRUE] ELSE @[k]],
                            ![d].tbl = tbl]
      /\ used' = used \cup fs
      /\ ntables' = ntables + Cardinality(tbl \ e.tbl)
      /\ mem' = [f \in Frame |-> IF f \in fs THEN 0 ELSE mem[f]]
      /\ pages' = pages
  BY <1>1, <1>2, <1>3, <1>4 DEF MapPages, zeroed
<1>6. /\ new \in SUBSET PageNo /\ \A k \in new : e.pte[k].phys = 0 /\ ~e.pte[k].user
  <2>1. \A n \in PageNo : Present(e, n) <=> e.pte[n].phys # 0
    BY <1>1, EntryFacts
  <2>2. \A n \in PageNo : e.pte[n].user => e.pte[n].phys # 0
    BY <1>1, PagedirConstants DEF DirOK
  <2> QED BY <1>2, <2>1, <2>2
<1>7. NewFrames(new, fs, to)
  <2>1. used \in SUBSET Frame
    BY DEF PagedirInv, PdType
  <2> QED BY <1>3, <1>5, <1>6, <2>1, TakeNew
<1>8. dir' = [dir EXCEPT ![d] = WithPages(e, new, to)]
  <2>1. dir \in [Dir -> DirType]
    BY DEF PagedirInv, PdType
  <2>2. WithPages(e, new, to) =
            [e EXCEPT !.pte = [k \in PageNo |-> IF k \in new THEN [phys |-> to[k], user |-> TRUE] ELSE e.pte[k]],
                      !.tbl = tbl]
    BY <1>4 DEF WithPages
  <2>3. PICK pte : pte = [k \in PageNo |-> IF k \in new THEN [phys |-> to[k], user |-> TRUE] ELSE e.pte[k]]
    OBVIOUS
  <2>4. dir' = [dir EXCEPT ![d].pte = pte, ![d].tbl = tbl]
    BY <1>1, <1>5, <2>3
  <2>5. WithPages(e, new, to) = [dir[d] EXCEPT !.pte = pte, !.tbl = tbl]
    BY <1>1, <2>2, <2>3
  <2> QED BY <2>1, <2>4, <2>5, TwoFields
<1>9. WithPages(e, new, to).tbl = tbl
  BY <1>1, <1>4 DEF WithPages, DirType
<1>10. /\ used' = used \cup fs
       /\ ntables' = ntables + Cardinality(tbl \ e.tbl)
       /\ mem' = [f \in Frame |-> IF f \in fs THEN 0 ELSE mem[f]]
       /\ pages' = pages
  BY <1>5
<1>11. Mapping(p, new, fs, to)
  BY <1>1, <1>6, <1>7, <1>8, <1>9, <1>10 DEF Mapping
<1> QED BY <1>11

LEMMA MappingKeeps ==
    ASSUME PagedirInv, NEW p \in Proc, pages[p] # None, NEW new, NEW fs, NEW to, Mapping(p, new, fs, to)
    PROVE  PagedirInv'
<1>1. PICK d \in Dir, e \in DirType : d = pages[p] /\ e = dir[d] /\ e = Cur(p) /\ DirOK(e) /\ e.exists
  BY LiveDir DEF Cur
<1>2. PICK tbl : tbl = e.tbl \cup {k \div Fan : k \in new}
  OBVIOUS
<1>3. PICK e2 : e2 = WithPages(e, new, to)
  OBVIOUS
<1>4. /\ new \in SUBSET PageNo /\ (\A k \in new : e.pte[k].phys = 0 /\ ~e.pte[k].user) /\ NewFrames(new, fs, to)
      /\ dir' = [dir EXCEPT ![d] = e2]
      /\ used' = used \cup fs
      /\ ntables' = ntables + Cardinality(e2.tbl \ e.tbl)
      /\ mem' = [f \in Frame |-> IF f \in fs THEN 0 ELSE mem[f]]
      /\ pages' = pages
  BY <1>1, <1>3 DEF Mapping
<1>5. /\ fs \in SUBSET Frame /\ fs \cap used = {} /\ to \in Bijection(new, fs)
      /\ \A n \in new : to[n] \in fs
  BY <1>4 DEF NewFrames
<1>6. dir \in [Dir -> DirType] /\ mem \in [Frame -> {0, 1}] /\ ntables \in Nat /\ used \in SUBSET Frame
      /\ FramesOf(dir, used) /\ pages \in [Proc -> Dir \cup {None}]
  BY DEF PagedirInv, PdType
<1>7. e.tbl \in SUBSET (0..(NTables - 1)) /\ e.pte \in [PageNo -> Entry] /\ e.exists \in BOOLEAN
  BY <1>1 DEF DirType
<1>8. tbl \in SUBSET (0..(NTables - 1))
  BY <1>2, <1>4, <1>7, PagedirConstants
<1>9. PICK pte : pte = [k \in PageNo |-> IF k \in new THEN [phys |-> to[k], user |-> TRUE] ELSE e.pte[k]]
  OBVIOUS
<1>10. /\ \A k \in new : pte[k].phys = to[k] /\ pte[k].user = TRUE /\ pte[k] \in Entry
       /\ \A k \in PageNo : k \notin new => pte[k] = e.pte[k]
       /\ pte \in [PageNo -> Entry]
  <2>1. ASSUME NEW k \in new PROVE pte[k].phys = to[k] /\ pte[k].user = TRUE /\ pte[k] \in Entry
    <3>1. pte[k] = [phys |-> to[k], user |-> TRUE]
      BY <1>4, <1>9
    <3> QED BY <1>5, <3>1 DEF Entry
  <2>2. ASSUME NEW k \in PageNo, k \notin new PROVE pte[k] = e.pte[k] /\ pte[k] \in Entry
    BY <1>7, <1>9, <2>2
  <2>3. \A k \in PageNo : pte[k] \in Entry
    BY <2>1, <2>2
  <2> QED BY <1>9, <2>1, <2>2, <2>3
<1>11. e2.exists /\ e2.tbl = tbl /\ e2.pte = pte /\ e2 \in DirType
  <2>1. e2 = [e EXCEPT !.pte = pte, !.tbl = tbl]
    BY <1>2, <1>3, <1>9 DEF WithPages
  <2> QED BY <1>1, <1>8, <1>10, <2>1 DEF DirType
<1>12. DirOK(e2)
  <2>1. ASSUME NEW n \in PageNo, pte[n].phys # 0 PROVE n \div Fan \in tbl
    <3>1. CASE n \in new
      BY <1>2, <3>1
    <3>2. CASE n \notin new
      BY <1>1, <1>2, <1>10, <2>1, <3>2 DEF DirOK
    <3> QED BY <3>1, <3>2
  <2>2. ASSUME NEW n \in PageNo, pte[n].user PROVE pte[n].phys \in Frame
    <3>1. CASE n \in new
      BY <1>5, <1>10, <3>1
    <3>2. CASE n \notin new
      BY <1>1, <1>10, <2>2, <3>2 DEF DirOK
    <3> QED BY <3>1, <3>2
  <2> QED BY <1>11, <2>1, <2>2 DEF DirOK
<1>13. /\ mapped(e2) = mapped(e) \cup new /\ new \cap mapped(e) = {}
       /\ \A n \in mapped(e) : e2.pte[n] = e.pte[n]
       /\ \A n \in new : e2.pte[n].phys = to[n]
  <2>1. new \cap mapped(e) = {}
    BY <1>4 DEF mapped
  <2>2. mapped(e2) = mapped(e) \cup new
    BY <1>4, <1>10, <1>11 DEF mapped
  <2>3. \A n \in mapped(e) : n \in PageNo /\ n \notin new
    BY <2>1 DEF mapped
  <2> QED BY <1>10, <1>11, <2>1, <2>2, <2>3
<1>14. FramesOf(dir', used')
  <2>1. dir'[d] = e2 /\ \A c \in Dir : c # d => dir'[c] = dir[c]
    BY <1>4, <1>6
  <2>2. /\ mapped(dir'[d]) = mapped(dir[d]) \cup new /\ new \cap mapped(dir[d]) = {}
        /\ \A n \in mapped(dir[d]) : dir'[d].pte[n] = dir[d].pte[n]
        /\ \A n \in new : dir'[d].pte[n].phys = to[n]
    BY <1>1, <1>13, <2>1
  <2>3. FramesOf(dir', used \cup fs)
    BY <1>5, <1>6, <2>1, <2>2, GrowFrames
  <2> QED BY <1>4, <2>3
<1>15. DirsLive'
  BY <1>1, <1>4, <1>11, SamePages
<1>16. mem' \in [Frame -> {0, 1}] /\ used' \in SUBSET Frame
  BY <1>4, <1>5, <1>6
<1>17. ntables' = ntables - overhead(dir[d]) + overhead(e2)
  <2>1. IsFiniteSet(0..(NTables - 1))
    BY PagedirConstants, FS_Interval
  <2>2. IsFiniteSet(tbl) /\ IsFiniteSet(e.tbl) /\ Cardinality(e.tbl) \in Nat /\ Cardinality(tbl) \in Nat
    BY <1>7, <1>8, <2>1, FS_Subset, FS_CardinalityType
  <2>3. tbl \cap e.tbl = e.tbl
    BY <1>2
  <2>4. Cardinality(tbl \ e.tbl) = Cardinality(tbl) - Cardinality(e.tbl)
    BY <2>2, <2>3, FS_Difference
  <2>5. overhead(e2) = 1 + Cardinality(tbl) /\ overhead(dir[d]) = 1 + Cardinality(e.tbl)
    BY <1>1, <1>11 DEF overhead
  <2> QED BY <1>4, <1>6, <1>11, <2>2, <2>4, <2>5
<1> QED BY <1>4, <1>6, <1>11, <1>12, <1>14, <1>15, <1>16, <1>17, OneDirStep

\* The effect of pagedir_copy: a directory with the same pages, in new frames.
CopyOf(e, to) == [e EXCEPT !.pte = [n \in PageNo |-> copied_pte(e.pte[n], to, n)]]
Copying(p, q, d, us, fs, to) ==
    LET e == Cur(p) IN
    /\ d \in Dir /\ ~dir[d].exists /\ pages[p] # None /\ pages[q] = None
    /\ dir' = [dir EXCEPT ![d] = CopyOf(e, to)]
    /\ used' = used \cup fs
    /\ ntables' = ntables + overhead(e)
    /\ mem' = [f \in Frame |-> IF f \in fs THEN mem[e.pte[CHOOSE n \in us : to[n] = f].phys] ELSE mem[f]]
    /\ pages' = [pages EXCEPT ![q] = d]

LEMMA ForkCopyIs ==
    ASSUME PagedirInv, NEW p \in Proc, NEW q \in Proc, ForkCopy(p, q)
    PROVE  /\ pages[p] # None
           /\ \E d, us, fs, to : us = mapped(Cur(p)) /\ NewFrames(us, fs, to) /\ Copying(p, q, d, us, fs, to)
<1> DEFINE us == freeable(Cur(p), PageNo)
           fs == Take(used, Cardinality(us))
           to == CHOOSE f \in Bijection(us, fs) : TRUE
<1>1. pages[p] # None
  BY DEF ForkCopy
<1>2. us = mapped(Cur(p))
  BY <1>1, LiveDir, EntryFacts
<1>3. Cardinality(us) <= Cardinality(Frame \ used)
  BY DEF ForkCopy
<1>4. NewFrames(us, fs, to)
  <2>1. used \in SUBSET Frame /\ us \in SUBSET PageNo
    BY <1>2 DEF PagedirInv, PdType, mapped
  <2> HIDE DEF us
  <2> QED BY <1>3, <2>1, TakeNew
<1>5. \E d : Copying(p, q, d, us, fs, to)
  BY DEF ForkCopy, Copying, CopyOf
<1> HIDE DEF us, fs, to
<1> QED BY <1>1, <1>2, <1>4, <1>5

LEMMA CopyIs ==
    ASSUME NEW e \in DirType, DirOK(e), e.exists, NEW fs \in SUBSET Frame, NEW to, \A n \in mapped(e) : to[n] \in fs
    PROVE  LET e2 == CopyOf(e, to) IN
           /\ e2 \in DirType /\ DirOK(e2) /\ e2.exists /\ e2.tbl = e.tbl /\ mapped(e2) = mapped(e)
           /\ \A n \in mapped(e) : e2.pte[n].phys = to[n]
<1>1. PICK e2, pte : e2 = CopyOf(e, to) /\ pte = [n \in PageNo |-> copied_pte(e.pte[n], to, n)]
  OBVIOUS
<1>2. e.pte \in [PageNo -> Entry] /\ \A f \in Frame : f # 0
  BY PagedirConstants DEF DirType
<1>3. ASSUME NEW n \in PageNo
      PROVE  /\ pte[n] \in Entry /\ (pte[n].user <=> e.pte[n].user)
             /\ ~e.pte[n].user => pte[n] = e.pte[n]
             /\ e.pte[n].user => pte[n].phys = to[n] /\ to[n] \in Frame
             /\ (pte[n].phys # 0 => e.pte[n].phys # 0)
  <2>1. pte[n] = copied_pte(e.pte[n], to, n) /\ e.pte[n] \in Entry
    BY <1>1, <1>2
  <2>2. CASE e.pte[n].user
    <3>1. e.pte[n].phys # 0 /\ n \in mapped(e)
      BY <1>2, <2>2 DEF DirOK, mapped
    <3>2. pte[n] = [e.pte[n] EXCEPT !.phys = to[n]] /\ to[n] \in Frame
      BY <2>1, <2>2, <3>1 DEF copied_pte
    <3> QED BY <2>1, <2>2, <3>1, <3>2 DEF Entry
  <2>3. CASE ~e.pte[n].user
    BY <2>1, <2>3 DEF copied_pte
  <2> QED BY <2>2, <2>3
<1>4. pte \in [PageNo -> Entry]
  BY <1>1, <1>3
<1>5. e2 \in DirType /\ e2.exists /\ e2.tbl = e.tbl /\ e2.pte = pte
  BY <1>1, <1>4 DEF CopyOf, DirType
<1>6. mapped(e2) = mapped(e) /\ \A n \in mapped(e) : e2.pte[n].phys = to[n]
  BY <1>3, <1>5 DEF mapped
<1>7. DirOK(e2)
  BY <1>3, <1>5 DEF DirOK
<1> QED BY <1>1, <1>5, <1>6, <1>7

LEMMA CopyingKeeps ==
    ASSUME PagedirInv, NEW p \in Proc, NEW q \in Proc, NEW d, NEW us, NEW fs, NEW to,
           us = mapped(Cur(p)), NewFrames(us, fs, to), Copying(p, q, d, us, fs, to)
    PROVE  PagedirInv'
<1>1. /\ d \in Dir /\ ~dir[d].exists /\ pages[p] # None /\ pages[q] = None
      /\ pages' = [pages EXCEPT ![q] = d]
  BY DEF Copying
<1>2. PICK e \in DirType : e = Cur(p) /\ DirOK(e) /\ e.exists
  BY <1>1, LiveDir
<1>3. PICK e2 : e2 = CopyOf(e, to)
  OBVIOUS
<1>4. /\ us = mapped(e)
      /\ dir' = [dir EXCEPT ![d] = e2]
      /\ used' = used \cup fs
      /\ ntables' = ntables + overhead(e)
      /\ mem' = [f \in Frame |-> IF f \in fs THEN mem[e.pte[CHOOSE n \in us : to[n] = f].phys] ELSE mem[f]]
  BY <1>2, <1>3 DEF Copying
<1>5. /\ fs \in SUBSET Frame /\ fs \cap used = {} /\ to \in Bijection(mapped(e), fs)
      /\ \A n \in mapped(e) : to[n] \in fs
  BY <1>4 DEF NewFrames
<1>6. dir \in [Dir -> DirType] /\ mem \in [Frame -> {0, 1}] /\ ntables \in Nat /\ used \in SUBSET Frame
      /\ FramesOf(dir, used) /\ pages \in [Proc -> Dir \cup {None}] /\ DirsLive /\ DirOK(dir[d])
  BY <1>1 DEF PagedirInv, PdType
<1>7. /\ e2 \in DirType /\ DirOK(e2) /\ e2.exists /\ e2.tbl = e.tbl /\ mapped(e2) = mapped(e)
      /\ \A n \in mapped(e) : e2.pte[n].phys = to[n]
  BY <1>2, <1>3, <1>5, CopyIs
<1>8. dir'[d] = e2 /\ (\A c \in Dir : c # d => dir'[c] = dir[c]) /\ dir[d] = Empty /\ mapped(dir[d]) = {}
  BY <1>1, <1>4, <1>6, EmptyDir DEF DirOK
<1>9. FramesOf(dir', used')
  <2>1. /\ mapped(dir'[d]) = mapped(dir[d]) \cup mapped(e) /\ mapped(e) \cap mapped(dir[d]) = {}
        /\ \A n \in mapped(dir[d]) : dir'[d].pte[n] = dir[d].pte[n]
        /\ \A n \in mapped(e) : dir'[d].pte[n].phys = to[n]
    BY <1>7, <1>8
  <2>2. FramesOf(dir', used \cup fs)
    BY <1>1, <1>5, <1>6, <1>8, <2>1, GrowFrames
  <2> QED BY <1>4, <2>2
<1>10. DirsLive'
  <2>1. pages'[q] = d /\ \A x \in Proc : x # q => pages'[x] = pages[x]
    BY <1>1, <1>6
  <2>2. ASSUME NEW c \in Dir, c # d PROVE dir'[c].exists <=> \E x \in Proc : pages'[x] = c
    <3>1. dir'[c].exists <=> \E x \in Proc : pages[x] = c
      BY <1>6, <1>8, <2>2 DEF DirsLive
    <3>2. pages[q] # c
      BY <1>1, PagedirConstants
    <3> QED BY <2>1, <2>2, <3>1, <3>2
  <2>3. dir'[d].exists /\ \E x \in Proc : pages'[x] = d
    BY <1>7, <1>8, <2>1
  <2> QED BY <2>2, <2>3 DEF DirsLive
<1>11. mem' \in [Frame -> {0, 1}] /\ used' \in SUBSET Frame /\ pages' \in [Proc -> Dir \cup {None}]
  <2>1. ASSUME NEW f \in fs PROVE mem[e.pte[CHOOSE n \in us : to[n] = f].phys] \in {0, 1}
    <3>1. \E n \in us : to[n] = f
      BY <1>4, <1>5 DEF Bijection, Surjection
    <3>2. (CHOOSE n \in us : to[n] = f) \in us
      BY <3>1
    <3>3. \A n \in mapped(e) : e.pte[n].phys \in Frame
      BY <1>2 DEF mapped, DirOK
    <3> QED BY <1>4, <1>6, <3>2, <3>3
  <2>2. mem' \in [Frame -> {0, 1}]
    BY <1>4, <1>6, <2>1
  <2> QED BY <1>1, <1>4, <1>5, <1>6, <2>2
<1>12. ntables' = ntables - overhead(dir[d]) + overhead(e2)
  <2>1. overhead(dir[d]) = 0 /\ overhead(e2) = overhead(e)
    BY <1>1, <1>2, <1>7 DEF overhead
  <2>2. overhead(e) \in Nat
    <3>1. IsFiniteSet(0..(NTables - 1)) /\ e.tbl \in SUBSET (0..(NTables - 1))
      BY <1>2, PagedirConstants, FS_Interval DEF DirType
    <3>2. Cardinality(e.tbl) \in Nat
      BY <3>1, FS_Subset, FS_CardinalityType
    <3> QED BY <3>2 DEF overhead
  <2> QED BY <1>4, <1>6, <2>1, <2>2
<1> QED BY <1>1, <1>4, <1>7, <1>9, <1>10, <1>11, <1>12, OneDirStep

LEMMA ForkShareKeeps ==
    ASSUME PagedirInv, NEW p \in Proc, NEW q \in Proc, ForkShare(p, q)
    PROVE  PagedirInv'
<1>1. /\ pages[p] # None /\ pages[q] = None
      /\ pages' = [pages EXCEPT ![q] = pages[p]]
      /\ UNCHANGED <<dir, used, ntables, mem>>
  BY DEF ForkShare
<1>2. PdType /\ CountOK /\ DirsLive /\ (\A d \in Dir : DirOK(dir[d])) /\ FramesOf(dir, used)
  BY DEF PagedirInv
<1>3. pages \in [Proc -> Dir \cup {None}]
  BY <1>2 DEF PdType
<1>4. pages' \in [Proc -> Dir \cup {None}] /\ pages'[q] = pages[p] /\ \A x \in Proc : x # q => pages'[x] = pages[x]
  BY <1>1, <1>3
<1>5. PdType'
  BY <1>1, <1>2, <1>4 DEF PdType
<1>6. \A c \in Dir : (\E x \in Proc : pages'[x] = c) <=> (\E x \in Proc : pages[x] = c)
  BY <1>1, <1>4, PagedirConstants
<1>7. DirsLive'
  BY <1>1, <1>2, <1>6 DEF DirsLive
<1>8. CountOK' /\ (\A d \in Dir : DirOK(dir'[d])) /\ FramesOf(dir', used')
  BY <1>1, <1>2, CountIs
<1> QED BY <1>5, <1>7, <1>8 DEF PagedirInv

LEMMA StoreKeeps ==
    ASSUME PagedirInv, NEW p \in Proc, NEW n \in PageNo, Store(p, n)
    PROVE  PagedirInv'
<1>1. mem' \in [Frame -> {0, 1}] /\ UNCHANGED <<pages, dir, used, ntables>>
  BY DEF Store, PagedirInv, PdType
<1>2. CountOK' /\ PdType' /\ DirsLive'
  BY <1>1, CountIs DEF PagedirInv, PdType, DirsLive
<1> QED BY <1>1, <1>2 DEF PagedirInv

LEMMA ExitKeeps ==
    ASSUME PagedirInv, NEW p \in Proc, Exit(p)
    PROVE  PagedirInv'
<1>1. pages[p] # None /\ pages' = [pages EXCEPT ![p] = None]
  BY DEF Exit
<1>2. PICK d \in Dir, e \in DirType : d = pages[p] /\ e = dir[d] /\ e = Cur(p) /\ DirOK(e) /\ e.exists
  BY <1>1, LiveDir DEF Cur
<1>3. dir \in [Dir -> DirType] /\ mem \in [Frame -> {0, 1}] /\ ntables \in Nat /\ used \in SUBSET Frame
      /\ FramesOf(dir, used) /\ pages \in [Proc -> Dir \cup {None}] /\ DirsLive /\ CountOK
      /\ \A c \in Dir : DirOK(dir[c])
  BY DEF PagedirInv, PdType
<1>4. /\ pages' \in [Proc -> Dir \cup {None}] /\ pages'[p] = None
      /\ \A x \in Proc : x # p => pages'[x] = pages[x]
  BY <1>1, <1>3
<1>5. None \notin Dir
  BY PagedirConstants
<1>6. \A c \in Dir : c # d => ((\E x \in Proc : pages'[x] = c) <=> (\E x \in Proc : pages[x] = c))
  BY <1>2, <1>4, <1>5
<1>7. CASE last_ref(p)
  <2>1. /\ dir' = [dir EXCEPT ![d] = Empty]
        /\ used' = used \ owned(e) /\ mem' = freed_mem(owned(e))
        /\ ntables' = ntables - overhead(e)
    BY <1>2, <1>7 DEF Exit
  <2>2. dir'[d] = Empty /\ \A c \in Dir : c # d => dir'[c] = dir[c]
    BY <1>3, <2>1
  <2>3. owned(e) = {e.pte[n].phys : n \in mapped(e)}
    BY <1>2, EntryFacts DEF owned
  <2>4. FramesOf(dir', used')
    <3>1. /\ mapped(dir'[d]) \subseteq mapped(dir[d]) /\ \A n \in mapped(dir'[d]) : dir'[d].pte[n] = dir[d].pte[n]
          /\ mapped(dir[d]) \ mapped(dir'[d]) = mapped(e)
      BY <1>2, <2>2, EmptyDir
    <3>2. FramesOf(dir', used \ {dir[d].pte[n].phys : n \in mapped(dir[d]) \ mapped(dir'[d])})
      BY <1>3, <2>2, <3>1, ShrinkFrames
    <3>3. {dir[d].pte[n].phys : n \in mapped(dir[d]) \ mapped(dir'[d])} = owned(e)
      BY <1>2, <2>3, <3>1
    <3>4. used' = used \ owned(e)
      BY <2>1
    <3> QED BY <3>2, <3>3, <3>4
  <2>5. DirsLive'
    <3>1. ~(\E x \in Proc : pages'[x] = d)
      BY <1>2, <1>4, <1>5, <1>7 DEF last_ref
    <3>2. ~dir'[d].exists
      BY <2>2, EmptyDir
    <3>3. \A c \in Dir : c # d => (dir'[c].exists <=> \E x \in Proc : pages'[x] = c)
      BY <1>3, <1>6, <2>2 DEF DirsLive
    <3> QED BY <3>1, <3>2, <3>3 DEF DirsLive
  <2>6. mem' \in [Frame -> {0, 1}] /\ used' \in SUBSET Frame
    BY <1>3, <2>1 DEF freed_mem
  <2>7. ntables' = ntables - overhead(dir[d]) + overhead(Empty)
    <3>1. overhead(Empty) = 0
      BY EmptyDir DEF overhead
    <3>2. overhead(dir[d]) \in Nat
      <4>1. ~dir[d].exists => dir[d].tbl = {}
        BY <1>2
      <4> QED BY <1>3, <4>1, CountOne
    <3> QED BY <1>2, <1>3, <2>1, <3>1, <3>2
  <2>8. Empty \in DirType /\ DirOK(Empty)
    BY EmptyDir
  <2> QED BY <1>4, <2>1, <2>4, <2>5, <2>6, <2>7, <2>8, OneDirStep
<1>8. CASE ~last_ref(p)
  <2>1. UNCHANGED <<dir, used, ntables, mem>>
    BY <1>8 DEF Exit
  <2>2. PICK q \in Proc \ {p} : pages[q] = d
    BY <1>2, <1>8 DEF last_ref
  <2>3. \A c \in Dir : (\E x \in Proc : pages'[x] = c) <=> (\E x \in Proc : pages[x] = c)
    BY <1>2, <1>4, <1>6, <2>2
  <2>4. DirsLive'
    BY <1>3, <2>1, <2>3 DEF DirsLive
  <2>5. PdType'
    BY <1>3, <1>4, <2>1 DEF PdType
  <2>6. CountOK' /\ (\A c \in Dir : DirOK(dir'[c])) /\ FramesOf(dir', used')
    BY <1>3, <2>1, CountIs
  <2> QED BY <2>4, <2>5, <2>6 DEF PagedirInv
<1> QED BY <1>7, <1>8

LEMMA MemflagKeeps ==
    ASSUME PagedirInv, NEW p \in Proc, NEW n \in PageNo, NEW len \in MapLens,
           NEW ff \in BOOLEAN, NEW pr \in BOOLEAN, Memflag(p, n, len, ff, pr)
    PROVE  PagedirInv'
<1>1. pages[p] # None
  BY DEF Memflag
<1>2. \/ \E S \in SUBSET PageNo : MapPages(p, S)
      \/ Unmap(p, n, len)
  BY DEF Memflag
<1>3. ASSUME NEW S \in SUBSET PageNo, MapPages(p, S) PROVE PagedirInv'
  BY <1>1, <1>3, MapPagesIs, MappingKeeps
<1>4. ASSUME Unmap(p, n, len) PROVE PagedirInv'
  BY <1>1, <1>4, UnmapIs, UnmappingKeeps
<1> QED BY <1>2, <1>3, <1>4

LEMMA PagedirInitInv == PagedirInit => PagedirInv
<1> SUFFICES ASSUME PagedirInit PROVE PagedirInv
  OBVIOUS
<1>1. PICK d : d = CHOOSE x \in Dir : TRUE
  OBVIOUS
<1>2. d \in Dir /\ None \notin Dir /\ Init1 \in Proc
  BY <1>1, PagedirAssumption
<1>3. PICK e : e = [Empty EXCEPT !.exists = TRUE, !.tbl = {KernPage \div Fan},
                                 !.pte[KernPage] = [phys |-> KernFrame, user |-> FALSE]]
  OBVIOUS
<1>4. /\ pages = [p \in Proc |-> IF p = Init1 THEN d ELSE None]
      /\ dir = [x \in Dir |-> IF x # d THEN Empty ELSE e]
      /\ used = {} /\ ntables = 2 /\ mem = [f \in Frame |-> 1]
  BY <1>1, <1>3 DEF PagedirInit
<1>5. /\ KernPage \in PageNo /\ KernPage \div Fan \in 0..(NTables - 1) /\ KernFrame \in Nat
  BY PagedirAssumption, PagedirConstants DEF PageNo, NPages
<1>6. PICK k : k = [phys |-> KernFrame, user |-> FALSE]
  OBVIOUS
<1>7. k \in Entry /\ k.user = FALSE /\ k.phys = KernFrame
  BY <1>6 DEF Entry
<1>8. /\ e \in DirType /\ e.exists /\ e.tbl = {KernPage \div Fan}
      /\ e.pte[KernPage] = k /\ \A n \in PageNo : n # KernPage => e.pte[n] = Empty.pte[n]
  <2>1. e = [exists |-> TRUE, tbl |-> {KernPage \div Fan}, pte |-> [Empty.pte EXCEPT ![KernPage] = k]]
    BY <1>3, <1>6 DEF Empty
  <2>2. Empty.pte \in [PageNo -> Entry]
    BY EmptyDir DEF DirType
  <2> QED BY <1>5, <1>7, <2>1, <2>2 DEF DirType
<1>9. mapped(e) = {} /\ DirOK(e)
  <2>1. \A n \in PageNo : n # KernPage => e.pte[n] = NoEntry
    BY <1>8, EmptyDir
  <2>2. NoEntry.phys = 0 /\ NoEntry.user = FALSE
    BY DEF NoEntry
  <2> QED BY <1>5, <1>7, <1>8, <2>1, <2>2 DEF mapped, DirOK
<1>10. /\ dir \in [Dir -> DirType] /\ dir[d] = e /\ \A x \in Dir : x # d => dir[x] = Empty
  BY <1>2, <1>4, <1>8, EmptyDir
<1>11. PdType
  BY <1>2, <1>4, <1>10 DEF PdType
<1>12. \A x \in Dir : DirOK(dir[x]) /\ mapped(dir[x]) = {}
  BY <1>9, <1>10, EmptyDir
<1>13. FramesOf(dir, used)
  BY <1>4, <1>12 DEF FramesOf, FramesUsed, NoneLeaked, OwnedOnce
<1>14. DirsLive
  BY <1>2, <1>4, <1>8, <1>10, EmptyDir DEF DirsLive
<1>15. Dirs = {d} /\ Tables = {<<d, KernPage \div Fan>>}
  <2>1. Dirs = {d}
    BY <1>2, <1>8, <1>10, EmptyDir DEF Dirs
  <2>2. ASSUME NEW x \in Tables PROVE x = <<d, KernPage \div Fan>>
    <3>1. x \in Dir \X (0..(NTables - 1)) /\ x[2] \in dir[x[1]].tbl
      BY DEF Tables
    <3>2. x[1] = d
      BY <1>10, <3>1, EmptyDir
    <3> QED BY <1>8, <1>10, <3>1, <3>2
  <2>3. <<d, KernPage \div Fan>> \in Tables
    BY <1>2, <1>5, <1>8, <1>10 DEF Tables
  <2> QED BY <2>1, <2>2, <2>3
<1>16. CountOK
  <2>1. Cardinality(Dirs) = 1 /\ Cardinality(Tables) = 1
    BY <1>15, FS_Singleton
  <2> QED BY <1>4, <2>1 DEF CountOK
<1> QED BY <1>11, <1>12, <1>13, <1>14, <1>16 DEF PagedirInv

LEMMA PagedirStep == PagedirInv /\ [PagedirNext]_pagedir_vars => PagedirInv'
<1> SUFFICES ASSUME PagedirInv, [PagedirNext]_pagedir_vars PROVE PagedirInv'
  OBVIOUS
<1>1. ASSUME NEW p \in Proc, NEW n \in PageNo, NEW len \in MapLens,
             NEW ff \in BOOLEAN, NEW pr \in BOOLEAN, Memflag(p, n, len, ff, pr)
      PROVE  PagedirInv'
  BY <1>1, MemflagKeeps
<1>2. ASSUME NEW p \in Proc, NEW n \in PageNo, Store(p, n) PROVE PagedirInv'
  BY <1>2, StoreKeeps
<1>3. ASSUME NEW p \in Proc, NEW q \in Proc, ForkCopy(p, q) PROVE PagedirInv'
  BY <1>3, ForkCopyIs, CopyingKeeps
<1>4. ASSUME NEW p \in Proc, NEW q \in Proc, ForkShare(p, q) PROVE PagedirInv'
  BY <1>4, ForkShareKeeps
<1>5. ASSUME NEW p \in Proc, Exit(p) PROVE PagedirInv'
  BY <1>5, ExitKeeps
<1>6. CASE UNCHANGED pagedir_vars
  <2>1. UNCHANGED <<pages, dir, used, ntables, mem>>
    BY <1>6 DEF pagedir_vars
  <2>2. CountOK' /\ PdType' /\ DirsLive'
    BY <2>1, CountIs DEF PagedirInv, PdType, DirsLive
  <2> QED BY <2>1, <2>2 DEF PagedirInv
<1> QED BY <1>1, <1>2, <1>3, <1>4, <1>5, <1>6 DEF PagedirNext

LEMMA PagedirInvAlways == PagedirSpec => []PagedirInv
<1> QED BY PagedirInitInv, PagedirStep, PTL DEF PagedirSpec

LEMMA PagedirInvGives == PagedirInv => FramesSound
<1> SUFFICES ASSUME PagedirInv PROVE FramesSound
  OBVIOUS
<1>1. /\ pages \in [Proc -> Dir \cup {None}] /\ dir \in [Dir -> DirType]
      /\ used \in SUBSET Frame /\ ntables \in Nat /\ mem \in [Frame -> {0, 1}]
      /\ FramesUsed(dir, used) /\ NoneLeaked(dir, used) /\ OwnedOnce(dir) /\ CountOK /\ DirsLive
      /\ \A d \in Dir : DirOK(dir[d])
  BY DEF PagedirInv, PdType, FramesOf
<1>2. PagedirTypeOK
  BY <1>1 DEF PagedirTypeOK, DirType, Entry
<1>3. Live \subseteq Dir /\ \A d \in Dir : mapped(dir[d]) # {} => d \in Live
  <2>1. Live \subseteq Dir
    BY <1>1 DEF Live
  <2>2. ASSUME NEW d \in Dir, mapped(dir[d]) # {} PROVE d \in Live
    <3>1. dir[d].exists
      BY <1>1, <2>2, EmptyDir DEF DirOK
    <3> QED BY <1>1, <3>1, PagedirConstants DEF DirsLive, Live
  <2> QED BY <2>1, <2>2
<1>4. \A d \in Dir : /\ freeable(dir[d], PageNo) = mapped(dir[d])
                     /\ owned(dir[d]) = {dir[d].pte[n].phys : n \in mapped(dir[d])}
  BY <1>1, EntryFacts DEF owned
<1>5. used = UNION {owned(dir[d]) : d \in Live}
  <2>1. ASSUME NEW f \in used PROVE \E d \in Live : f \in owned(dir[d])
    <3>1. PICK d \in Dir : \E n \in mapped(dir[d]) : dir[d].pte[n].phys = f
      BY <1>1 DEF NoneLeaked
    <3> QED BY <1>3, <1>4, <3>1
  <2>2. ASSUME NEW d \in Live, NEW f \in owned(dir[d]) PROVE f \in used
    BY <1>1, <1>3, <1>4 DEF FramesUsed
  <2> QED BY <2>1, <2>2
<1>6. \A d, e \in Live : d # e => owned(dir[d]) \cap owned(dir[e]) = {}
  BY <1>1, <1>3, <1>4 DEF OwnedOnce
<1>7. \A d \in Live : \A m, n \in freeable(dir[d], PageNo) : m # n => dir[d].pte[m].phys # dir[d].pte[n].phys
  BY <1>1, <1>3, <1>4 DEF OwnedOnce
<1>8. ntables = Cardinality(Dirs) + Cardinality(Tables)
  BY <1>1 DEF CountOK
<1>9. FramesExact
  BY <1>5, <1>6, <1>7, <1>8 DEF FramesExact
<1> QED BY <1>2, <1>9 DEF FramesSound

\* pagedir.c, _sys_memflag, proc_fork and proc_kill: however processes map,
\* unmap, fork, share and exit, every frame that is allocated is one page of
\* one address space, and the tables are exactly those of the directories
\* that some process uses.
THEOREM FramesAlwaysSound == PagedirSpec => []FramesSound
<1> QED BY PagedirInvAlways, PagedirInvGives, PTL

-----------------------------------------------------------------------------
(* Private address spaces.  What a process sees of its memory, from the     *)
(* tables D and the contents m of the frames.                               *)

view(D, m) ==
    [d \in Dir |-> [n \in PageNo |-> LET f == pagedir_virt2phys(D[d], n * PageBytes)
                                     IN IF f = 0 THEN 2 ELSE m[f]]]

\* The steps of AddressSpace, for these pages.
MapsNew(s, t) == \A n \in PageNo : t[n] = s[n] \/ (s[n] = 2 /\ t[n] = 0)
UnmapsRange(s, t) ==
    /\ \A n \in PageNo : t[n] \in {s[n], 2}
    /\ \A i, j, n \in PageNo : i < n /\ n < j /\ t[i] # s[i] /\ t[j] # s[j] => t[n] = 2
Writes(s, t) == \E n \in PageNo : s[n] # 2 /\ t[n] \in {0, 1} /\ \A k \in PageNo \ {n} : t[k] = s[k]

LocalStep(p, V, V2) ==
    /\ UNCHANGED pages
    /\ \A r \in Dir \ {pages[p]} : V2[r] = V[r]
    /\ \/ MapsNew(V[pages[p]], V2[pages[p]])
       \/ UnmapsRange(V[pages[p]], V2[pages[p]])
       \/ Writes(V[pages[p]], V2[pages[p]])
ForkStep(p, V, V2) ==
    \E q \in Proc : pages[q] = None /\
        \/ \E r \in Dir \ ({pages[x] : x \in Proc} \ {None}) :
                pages' = [pages EXCEPT ![q] = r] /\ V2 = [V EXCEPT ![r] = V[pages[p]]]
        \/ pages' = [pages EXCEPT ![q] = pages[p]] /\ V2 = V
ExitStep(p, V, V2) ==
    /\ pages' = [pages EXCEPT ![p] = None]
    /\ V2 = [r \in Dir |-> IF \E q \in Proc : pages'[q] = r THEN V[r] ELSE [n \in PageNo |-> 2]]
SpaceStep(V, V2) ==
    \E p \in Proc : pages[p] # None /\ (LocalStep(p, V, V2) \/ ForkStep(p, V, V2) \/ ExitStep(p, V, V2))

LEMMA SpaceStepIs == SpaceStep(view(dir, mem), view(dir, mem)') => AbstractSpace!Next
BY DEF SpaceStep, LocalStep, ForkStep, ExitStep, MapsNew, UnmapsRange, Writes, view,
       AbstractSpace!Next, AbstractSpace!Map, AbstractSpace!Unmap, AbstractSpace!Write, AbstractSpace!Used

seen(e, m) == [n \in PageNo |-> IF e.pte[n].user THEN m[e.pte[n].phys] ELSE 2]

LEMMA ViewIs ==
    ASSUME NEW D \in [Dir -> DirType], NEW m, NEW d \in Dir, DirOK(D[d])
    PROVE  view(D, m)[d] = seen(D[d], m)
<1>1. PICK e \in DirType : e = D[d] /\ DirOK(e)
  OBVIOUS
<1>2. ASSUME NEW n \in PageNo
      PROVE  (LET f == pagedir_virt2phys(e, n * PageBytes) IN IF f = 0 THEN 2 ELSE m[f]) =
                 IF e.pte[n].user THEN m[e.pte[n].phys] ELSE 2
  <2>1. (n * PageBytes) \div PageBytes = n
    <3>1. n \in Nat /\ PageBytes \in Nat /\ PageBytes > 0
      BY PagedirConstants
    <3> QED BY <3>1
  <2>2. pagedir_virt2phys(e, n * PageBytes) = IF UserPage(e, n) THEN get_entry(e, n).phys ELSE 0
    BY <2>1 DEF pagedir_virt2phys
  <2>3. UserPage(e, n) <=> e.pte[n].user
    BY <1>1, EntryFacts
  <2>4. CASE e.pte[n].user
    <3>1. get_entry(e, n) = e.pte[n] /\ e.pte[n].phys \in Frame
      BY <1>1, <2>4, EntryFacts DEF mapped
    <3>2. e.pte[n].phys # 0
      BY <3>1, PagedirConstants
    <3> QED BY <2>2, <2>3, <2>4, <3>1, <3>2
  <2>5. CASE ~e.pte[n].user
    BY <2>2, <2>3, <2>5
  <2> QED BY <2>4, <2>5
<1>3. view(D, m)[d] = [n \in PageNo |-> LET f == pagedir_virt2phys(e, n * PageBytes) IN IF f = 0 THEN 2 ELSE m[f]]
  BY <1>1 DEF view
<1>4. view(D, m)[d] = [n \in PageNo |-> IF e.pte[n].user THEN m[e.pte[n].phys] ELSE 2]
  BY <1>2, <1>3
<1> QED BY <1>1, <1>4 DEF seen

\* A space looks the same if its tables and its frames are the same.
LEMMA SameView ==
    ASSUME NEW D \in [Dir -> DirType], NEW D2 \in [Dir -> DirType], NEW m, NEW m2, NEW d \in Dir,
           DirOK(D[d]), D2[d] = D[d], \A n \in mapped(D[d]) : m2[D[d].pte[n].phys] = m[D[d].pte[n].phys]
    PROVE  view(D2, m2)[d] = view(D, m)[d]
<1>1. view(D, m)[d] = seen(D[d], m)
  BY ViewIs
<1>2. view(D2, m2)[d] = seen(D[d], m2)
  BY ViewIs
<1>3. \A n \in PageNo : D[d].pte[n].user => m2[D[d].pte[n].phys] = m[D[d].pte[n].phys]
  BY DEF mapped
<1>4. seen(D[d], m2) = seen(D[d], m)
  BY <1>3 DEF seen
<1> QED BY <1>1, <1>2, <1>4

-----------------------------------------------------------------------------
(* pagedir_unmap_user skips whole tables that are absent, and visits        *)
(* everything else in the range.                                            *)

LEMMA SkipTable ==
    ASSUME NEW n \in Nat
    PROVE  /\ skip_table(n) \in Nat /\ n < skip_table(n) /\ skip_table(n) <= n + Fan
           /\ \A k \in Nat : n <= k /\ k < skip_table(n) => k \div Fan = n \div Fan
<1>1. Fan \in Nat /\ Fan > 0
  BY PagedirConstants
<1>2. PICK q \in Nat : q = n \div Fan
  BY <1>1
<1>3. Fan * q <= n /\ n < Fan * q + Fan
  BY <1>1, <1>2
<1>4. skip_table(n) = Fan * q + Fan
  BY <1>1, <1>2 DEF skip_table
<1>5. Fan * q \in Nat
  BY <1>1
<1>6. ASSUME NEW k \in Nat, n <= k, k < Fan * q + Fan PROVE k \div Fan = q
  <2>1. Fan * q <= k
    BY <1>3, <1>5, <1>6
  <2>2. PICK r \in Nat : r = k \div Fan
    BY <1>1
  <2>3. Fan * r <= k /\ k < Fan * r + Fan /\ Fan * r \in Nat
    BY <1>1, <2>2
  <2>4. ~(r < q)
    <3> SUFFICES ASSUME r < q PROVE FALSE
      OBVIOUS
    <3>1. r + 1 <= q
      OBVIOUS
    <3>2. Fan * (r + 1) <= Fan * q
      BY <1>1, <3>1
    <3>3. Fan * (r + 1) = Fan * r + Fan
      BY <1>1
    <3> QED BY <1>1, <1>5, <2>1, <2>3, <3>2, <3>3
  <2>5. ~(q < r)
    <3> SUFFICES ASSUME q < r PROVE FALSE
      OBVIOUS
    <3>1. q + 1 <= r
      OBVIOUS
    <3>2. Fan * (q + 1) <= Fan * r
      BY <1>1, <3>1
    <3>3. Fan * (q + 1) = Fan * q + Fan
      BY <1>1
    <3> QED BY <1>1, <1>5, <1>6, <2>3, <3>2, <3>3
  <2> QED BY <2>2, <2>4, <2>5
<1> QED BY <1>1, <1>2, <1>3, <1>4, <1>5, <1>6

\* What a loop from page n up to end should visit, and the equation that the
\* recursion of visited states.
ToVisit(e, end, n) == {k \in PageNo : n <= k /\ k < end /\ k \div Fan \in e.tbl}
Places == 0..(NPages + Fan)
Visits(e, end, v, n) ==
    v[n] = IF n >= end \/ n >= NPages THEN {}
           ELSE IF n \div Fan \notin e.tbl THEN v[skip_table(n)]
           ELSE {n} \cup v[n + 1]

LEMMA VisitStep ==
    ASSUME NEW e, NEW end \in Nat, NEW n \in Places
    PROVE  /\ n >= end \/ n >= NPages => ToVisit(e, end, n) = {}
           /\ n < end /\ n < NPages =>
                /\ n \in PageNo /\ n + 1 \in Places /\ skip_table(n) \in Places
                /\ n \div Fan \notin e.tbl => ToVisit(e, end, n) = ToVisit(e, end, skip_table(n))
                /\ n \div Fan \in e.tbl => ToVisit(e, end, n) = {n} \cup ToVisit(e, end, n + 1)
<1>1. /\ Fan \in Nat /\ Fan > 0 /\ NPages \in Nat /\ n \in Nat
      /\ \A k \in PageNo : k \in Nat /\ k < NPages
  BY PagedirConstants DEF Places
<1>2. ASSUME n >= end \/ n >= NPages PROVE ToVisit(e, end, n) = {}
  BY <1>1, <1>2 DEF ToVisit
<1>3. ASSUME n < end, n < NPages
      PROVE  /\ n \in PageNo /\ n + 1 \in Places /\ skip_table(n) \in Places
             /\ n \div Fan \notin e.tbl => ToVisit(e, end, n) = ToVisit(e, end, skip_table(n))
             /\ n \div Fan \in e.tbl => ToVisit(e, end, n) = {n} \cup ToVisit(e, end, n + 1)
  <2>1. n \in PageNo /\ n + 1 \in Places
    BY <1>1, <1>3 DEF PageNo, Places
  <2>2. /\ skip_table(n) \in Nat /\ n < skip_table(n) /\ skip_table(n) <= n + Fan
        /\ \A k \in Nat : n <= k /\ k < skip_table(n) => k \div Fan = n \div Fan
    BY <1>1, SkipTable
  <2>3. skip_table(n) \in Places
    BY <1>1, <1>3, <2>2 DEF Places
  <2>4. ASSUME n \div Fan \notin e.tbl PROVE ToVisit(e, end, n) = ToVisit(e, end, skip_table(n))
    <3>1. ASSUME NEW k \in ToVisit(e, end, n) PROVE k \in ToVisit(e, end, skip_table(n))
      <4>1. k \in PageNo /\ n <= k /\ k < end /\ k \div Fan \in e.tbl
        BY DEF ToVisit
      <4>2. ~(k < skip_table(n))
        BY <1>1, <2>2, <2>4, <4>1
      <4>3. k >= skip_table(n)
        BY <1>1, <2>2, <4>1, <4>2
      <4> QED BY <4>1, <4>3 DEF ToVisit
    <3>2. ASSUME NEW k \in ToVisit(e, end, skip_table(n)) PROVE k \in ToVisit(e, end, n)
      BY <1>1, <2>2 DEF ToVisit
    <3> QED BY <3>1, <3>2
  <2>5. ASSUME n \div Fan \in e.tbl PROVE ToVisit(e, end, n) = {n} \cup ToVisit(e, end, n + 1)
    <3>1. n \in ToVisit(e, end, n)
      BY <1>1, <1>3, <2>1, <2>5 DEF ToVisit
    <3>2. \A k \in PageNo : n <= k <=> (k = n \/ n + 1 <= k)
      BY <1>1
    <3> QED BY <3>1, <3>2 DEF ToVisit
  <2> QED BY <2>1, <2>3, <2>4, <2>5
<1> QED BY <1>1, <1>2, <1>3

LEMMA VisitExists ==
    ASSUME NEW e, NEW end \in Nat
    PROVE  LET V == [n \in Places |-> ToVisit(e, end, n)]
           IN V = [n \in Places |-> IF n >= end \/ n >= NPages THEN {}
                                    ELSE IF n \div Fan \notin e.tbl THEN V[skip_table(n)]
                                    ELSE {n} \cup V[n + 1]]
<1> DEFINE V == [n \in Places |-> ToVisit(e, end, n)]
<1>1. ASSUME NEW n \in Places
      PROVE  ToVisit(e, end, n) = IF n >= end \/ n >= NPages THEN {}
                                  ELSE IF n \div Fan \notin e.tbl THEN V[skip_table(n)]
                                  ELSE {n} \cup V[n + 1]
  <2>1. CASE n >= end \/ n >= NPages
    BY <2>1, VisitStep
  <2>2. CASE ~(n >= end \/ n >= NPages)
    <3>1. n < end /\ n < NPages
      BY <2>2, PagedirConstants DEF Places
    <3>2. /\ n + 1 \in Places /\ skip_table(n) \in Places
          /\ n \div Fan \notin e.tbl => ToVisit(e, end, n) = ToVisit(e, end, skip_table(n))
          /\ n \div Fan \in e.tbl => ToVisit(e, end, n) = {n} \cup ToVisit(e, end, n + 1)
      BY <3>1, VisitStep
    <3>3. V[n + 1] = ToVisit(e, end, n + 1) /\ V[skip_table(n)] = ToVisit(e, end, skip_table(n))
      BY <3>2
    <3> QED BY <2>2, <3>2, <3>3
  <2> QED BY <2>1, <2>2
<1> QED BY <1>1

LEMMA VisitUnique ==
    ASSUME NEW e, NEW end \in Nat, NEW v, \A n \in Places : Visits(e, end, v, n)
    PROVE  \A n \in Places : v[n] = ToVisit(e, end, n)
<1> DEFINE last == NPages + Fan
           bad  == {j \in Nat : j <= last /\ v[last - j] # ToVisit(e, end, last - j)}
<1>1. last \in Nat /\ Fan \in Nat /\ NPages \in Nat /\ Places = 0..last
  BY PagedirConstants DEF Places
<1>2. bad = {}
  <2> SUFFICES ASSUME bad # {} PROVE FALSE
    OBVIOUS
  <2>1. PICK j \in bad : \A i \in bad : j <= i
    <3>1. bad \in SUBSET Nat
      OBVIOUS
    <3> HIDE DEF bad
    <3> QED BY <3>1, SmallestExists
  <2>2. PICK n : n = last - j
    OBVIOUS
  <2>3. n \in Places /\ n \in Nat /\ v[n] # ToVisit(e, end, n)
    BY <1>1, <2>1, <2>2
  <2>4. ASSUME NEW m \in Places, m > n PROVE v[m] = ToVisit(e, end, m)
    <3>1. last - m \in Nat /\ last - m <= last /\ last - m < j /\ last - (last - m) = m
      BY <1>1, <2>1, <2>2, <2>4
    <3>2. last - m \notin bad
      BY <2>1, <3>1
    <3>3. ~(v[last - (last - m)] # ToVisit(e, end, last - (last - m)))
      BY <3>1, <3>2
    <3> HIDE DEF last
    <3> QED BY <3>1, <3>3
  <2>5. Visits(e, end, v, n)
    BY <2>3
  <2>6. CASE n >= end \/ n >= NPages
    <3>1. v[n] = {} /\ ToVisit(e, end, n) = {}
      BY <2>3, <2>5, <2>6, VisitStep DEF Visits
    <3> QED BY <2>3, <3>1
  <2>7. CASE ~(n >= end \/ n >= NPages)
    <3>1. n < end /\ n < NPages
      BY <1>1, <2>3, <2>7
    <3>2. /\ n + 1 \in Places /\ skip_table(n) \in Places
          /\ n \div Fan \notin e.tbl => ToVisit(e, end, n) = ToVisit(e, end, skip_table(n))
          /\ n \div Fan \in e.tbl => ToVisit(e, end, n) = {n} \cup ToVisit(e, end, n + 1)
      BY <2>3, <3>1, VisitStep
    <3>3. n + 1 > n /\ skip_table(n) > n
      BY <2>3, SkipTable
    <3>4. v[n + 1] = ToVisit(e, end, n + 1) /\ v[skip_table(n)] = ToVisit(e, end, skip_table(n))
      BY <2>4, <3>2, <3>3
    <3>5. v[n] = IF n \div Fan \notin e.tbl THEN v[skip_table(n)] ELSE {n} \cup v[n + 1]
      BY <2>5, <2>7 DEF Visits
    <3> QED BY <2>3, <3>2, <3>4, <3>5
  <2> QED BY <2>6, <2>7
<1>3. ASSUME NEW n \in Places PROVE v[n] = ToVisit(e, end, n)
  <2>1. last - n \in Nat /\ last - n <= last /\ last - (last - n) = n
    BY <1>1
  <2>2. ~(v[last - (last - n)] # ToVisit(e, end, last - (last - n)))
    BY <1>2, <2>1
  <2> HIDE DEF last
  <2> QED BY <2>1, <2>2
<1> QED BY <1>3

LEMMA VisitedIs ==
    ASSUME NEW e, NEW end \in Nat, NEW first \in PageNo
    PROVE  visited(e, first, end) = ToVisit(e, end, first)
<1> DEFINE F(v) == [n \in Places |-> IF n >= end \/ n >= NPages THEN {}
                                     ELSE IF n \div Fan \notin e.tbl THEN v[skip_table(n)]
                                     ELSE {n} \cup v[n + 1]]
<1>1. PICK w : w = CHOOSE v : v = F(v)
  OBVIOUS
<1>2. \E v : v = F(v)
  <2> DEFINE V == [n \in Places |-> ToVisit(e, end, n)]
  <2>1. V = F(V)
    BY VisitExists
  <2> HIDE DEF V, F
  <2> QED BY <2>1
<1>3. w = F(w)
  BY <1>1, <1>2
<1>4. \A n \in Places : Visits(e, end, w, n)
  BY <1>3 DEF Visits
<1>5. \A n \in Places : w[n] = ToVisit(e, end, n)
  BY <1>4, VisitUnique
<1>6. first \in Places
  BY PagedirConstants DEF Places
<1>7. visited(e, first, end) = w[first]
  BY <1>1 DEF visited, Places
<1> QED BY <1>5, <1>6, <1>7

-----------------------------------------------------------------------------
(* Each call is a step of AddressSpace.                                     *)

LEMMA ViewFacts ==
    ASSUME PagedirInv
    PROVE  /\ dir \in [Dir -> DirType] /\ mem \in [Frame -> {0, 1}] /\ used \in SUBSET Frame
           /\ (\A d \in Dir : DirOK(dir[d])) /\ FramesUsed(dir, used) /\ OwnedOnce(dir) /\ DirsLive
           /\ pages \in [Proc -> Dir \cup {None}]
           /\ \A d \in Dir : \A n \in mapped(dir[d]) : dir[d].pte[n].phys \in Frame
           /\ \A d \in Dir : view(dir, mem)[d] = seen(dir[d], mem)
<1>1. /\ dir \in [Dir -> DirType] /\ mem \in [Frame -> {0, 1}] /\ used \in SUBSET Frame
      /\ (\A d \in Dir : DirOK(dir[d])) /\ FramesUsed(dir, used) /\ OwnedOnce(dir) /\ DirsLive
      /\ pages \in [Proc -> Dir \cup {None}]
  BY DEF PagedirInv, PdType, FramesOf
<1>2. \A d \in Dir : \A n \in mapped(dir[d]) : dir[d].pte[n].phys \in Frame
  BY <1>1 DEF DirOK, mapped
<1>3. \A d \in Dir : view(dir, mem)[d] = seen(dir[d], mem)
  BY <1>1, ViewIs
<1> QED BY <1>1, <1>2, <1>3

\* The same for the next state, where the tables are D2 and the memory is m2.
LEMMA NextView ==
    ASSUME PagedirInv', NEW D2, NEW m2, D2 = dir', m2 = mem'
    PROVE  /\ D2 \in [Dir -> DirType] /\ \A d \in Dir : DirOK(D2[d])
           /\ \A d \in Dir : view(D2, m2)[d] = seen(D2[d], m2)
<1>1. D2 \in [Dir -> DirType] /\ \A d \in Dir : DirOK(D2[d])
  BY DEF PagedirInv, PdType
<1> QED BY <1>1, ViewIs

LEMMA StoreView ==
    ASSUME PagedirInv, PagedirInv', NEW p \in Proc, NEW n \in PageNo, Store(p, n)
    PROVE  LocalStep(p, view(dir, mem), view(dir', mem'))
<1>1. pages[p] # None /\ pagedir_virt2phys(Cur(p), n * PageBytes) # 0
      /\ UNCHANGED pages /\ dir' = dir
  BY DEF Store
<1>2. PICK d \in Dir, e \in DirType : d = pages[p] /\ e = dir[d] /\ e = Cur(p) /\ DirOK(e)
  BY <1>1, LiveDir DEF Cur
<1>3. PICK m2 : m2 = mem'
  OBVIOUS
<1>4. n \in mapped(e)
  <2>1. (n * PageBytes) \div PageBytes = n
    <3>1. n \in Nat /\ PageBytes \in Nat /\ PageBytes > 0
      BY PagedirConstants
    <3> QED BY <3>1
  <2>2. UserPage(e, n)
    BY <1>1, <1>2, <2>1 DEF pagedir_virt2phys
  <2> QED BY <1>2, <2>2, EntryFacts DEF mapped
<1>5. PICK f \in Frame : f = e.pte[n].phys
  BY <1>2, <1>4, EntryFacts
<1>6. m2 = [mem EXCEPT ![f] = 1]
  BY <1>2, <1>3, <1>5 DEF Store
<1>7. /\ mem \in [Frame -> {0, 1}] /\ OwnedOnce(dir) /\ dir \in [Dir -> DirType]
      /\ \A c \in Dir : DirOK(dir[c])
      /\ \A c \in Dir : \A k \in mapped(dir[c]) : dir[c].pte[k].phys \in Frame
  BY ViewFacts
<1>8. m2[f] = 1 /\ mem[f] \in {0, 1} /\ \A g \in Frame : g # f => m2[g] = mem[g]
  BY <1>6, <1>7
<1>9. \A c \in Dir : \A k \in mapped(dir[c]) : (c = d /\ k = n) \/ m2[dir[c].pte[k].phys] = mem[dir[c].pte[k].phys]
  <2> SUFFICES ASSUME NEW c \in Dir, NEW k \in mapped(dir[c]), ~(c = d /\ k = n)
               PROVE  dir[c].pte[k].phys # f
    BY <1>7, <1>8
  <2>1. OwnedOnce(dir) /\ n \in mapped(dir[d]) /\ dir[d].pte[n].phys = f
    BY <1>2, <1>4, <1>5, <1>7
  <2> QED BY <2>1 DEF OwnedOnce
<1>10. \A c \in Dir \ {d} : view(dir, m2)[c] = view(dir, mem)[c]
  BY <1>7, <1>9, SameView
<1>11. Writes(view(dir, mem)[d], view(dir, m2)[d])
  <2>1. view(dir, mem)[d] = seen(e, mem) /\ view(dir, m2)[d] = seen(e, m2)
    BY <1>2, <1>7, ViewIs
  <2>2. seen(e, mem)[n] = mem[f] /\ seen(e, m2)[n] = 1
    BY <1>4, <1>5, <1>8 DEF seen, mapped
  <2>3. \A k \in PageNo \ {n} : seen(e, m2)[k] = seen(e, mem)[k]
    BY <1>2, <1>9 DEF seen, mapped
  <2>4. seen(e, mem)[n] # 2
    BY <1>8, <2>2
  <2> QED BY <2>1, <2>2, <2>3, <2>4 DEF Writes
<1> QED BY <1>1, <1>2, <1>3, <1>10, <1>11 DEF LocalStep

LEMMA MappingView ==
    ASSUME PagedirInv, PagedirInv', NEW p \in Proc, pages[p] # None, NEW new, NEW fs, NEW to, Mapping(p, new, fs, to)
    PROVE  LocalStep(p, view(dir, mem), view(dir', mem'))
<1>1. PICK d \in Dir, e \in DirType : d = pages[p] /\ e = dir[d] /\ e = Cur(p) /\ DirOK(e) /\ e.exists
  BY LiveDir DEF Cur
<1>2. PICK e2 : e2 = WithPages(e, new, to)
  OBVIOUS
<1>3. PICK D2, m2 : D2 = dir' /\ m2 = mem'
  OBVIOUS
<1>4. /\ new \in SUBSET PageNo /\ (\A k \in new : ~e.pte[k].user) /\ NewFrames(new, fs, to)
      /\ D2 = [dir EXCEPT ![d] = e2] /\ m2 = [f \in Frame |-> IF f \in fs THEN 0 ELSE mem[f]]
      /\ UNCHANGED pages
  BY <1>1, <1>2, <1>3 DEF Mapping
<1>5. fs \in SUBSET Frame /\ fs \cap used = {} /\ \A k \in new : to[k] \in fs
  BY <1>4 DEF NewFrames
<1>6. /\ dir \in [Dir -> DirType] /\ FramesUsed(dir, used) /\ used \in SUBSET Frame
      /\ (\A c \in Dir : DirOK(dir[c])) /\ \A c \in Dir : view(dir, mem)[c] = seen(dir[c], mem)
  BY ViewFacts
<1>7. /\ D2 \in [Dir -> DirType] /\ (\A c \in Dir : DirOK(D2[c]))
      /\ \A c \in Dir : view(D2, m2)[c] = seen(D2[c], m2)
  BY <1>3, NextView
<1>8. D2[d] = e2 /\ \A c \in Dir : c # d => D2[c] = dir[c]
  BY <1>4, <1>6
<1>9. \A k \in PageNo : e2.pte[k] = IF k \in new THEN [phys |-> to[k], user |-> TRUE] ELSE e.pte[k]
  BY <1>1, <1>2 DEF WithPages, DirType
<1>10. \A c \in Dir : \A k \in mapped(dir[c]) : m2[dir[c].pte[k].phys] = mem[dir[c].pte[k].phys]
  BY <1>4, <1>5, <1>6 DEF FramesUsed
<1>11. \A c \in Dir \ {d} : view(D2, m2)[c] = view(dir, mem)[c]
  BY <1>6, <1>7, <1>8, <1>10, SameView
<1>12. MapsNew(seen(e, mem), seen(e2, m2))
  <2>1. ASSUME NEW k \in new PROVE seen(e, mem)[k] = 2 /\ seen(e2, m2)[k] = 0
    <3>1. k \in PageNo /\ to[k] \in fs /\ to[k] \in Frame /\ ~e.pte[k].user
      BY <1>4, <1>5
    <3>2. e2.pte[k] = [phys |-> to[k], user |-> TRUE]
      BY <1>9, <3>1
    <3>3. m2[to[k]] = 0
      BY <1>4, <3>1
    <3> QED BY <3>1, <3>2, <3>3 DEF seen
  <2>2. ASSUME NEW k \in PageNo \ new PROVE seen(e2, m2)[k] = seen(e, mem)[k]
    <3>1. e2.pte[k] = e.pte[k]
      BY <1>9
    <3>2. e.pte[k].user => m2[e.pte[k].phys] = mem[e.pte[k].phys]
      BY <1>1, <1>10 DEF mapped
    <3> QED BY <3>1, <3>2 DEF seen
  <2> QED BY <2>1, <2>2 DEF MapsNew
<1>13. MapsNew(view(dir, mem)[d], view(D2, m2)[d])
  BY <1>1, <1>6, <1>7, <1>8, <1>12
<1> QED BY <1>1, <1>3, <1>4, <1>11, <1>13 DEF LocalStep

LEMMA UnmappingView ==
    ASSUME PagedirInv, PagedirInv', NEW p \in Proc, pages[p] # None, NEW S, NEW e2, Unmapping(p, S, e2),
           NEW first \in PageNo, NEW end \in Nat, S = ToVisit(Cur(p), end, first) \cap mapped(Cur(p))
    PROVE  LocalStep(p, view(dir, mem), view(dir', mem'))
<1>1. PICK d \in Dir, e \in DirType : d = pages[p] /\ e = dir[d] /\ e = Cur(p) /\ DirOK(e) /\ e.exists
  BY LiveDir DEF Cur
<1>2. PICK D2, m2, gone : D2 = dir' /\ m2 = mem' /\ gone = {e.pte[k].phys : k \in S} \cap Frame
  OBVIOUS
<1>3. /\ D2 = [dir EXCEPT ![d] = e2] /\ m2 = freed_mem(gone) /\ UNCHANGED pages
      /\ \A k \in PageNo : e2.pte[k] = IF k \in S THEN NoEntry ELSE e.pte[k]
  <2>1. /\ dir' = [dir EXCEPT ![pages[p]] = e2] /\ pages' = pages
        /\ mem' = freed_mem({Cur(p).pte[k].phys : k \in S} \cap Frame)
        /\ \A k \in PageNo : e2.pte[k] = IF k \in S THEN NoEntry ELSE Cur(p).pte[k]
    BY DEF Unmapping
  <2>2. gone = {Cur(p).pte[k].phys : k \in S} \cap Frame
    BY <1>1, <1>2
  <2>3. mem' = freed_mem(gone)
    BY <2>1, <2>2
  <2> QED BY <1>1, <1>2, <2>1, <2>3
<1>4. S = ToVisit(e, end, first) \cap mapped(e)
  BY <1>1
<1>5. /\ dir \in [Dir -> DirType] /\ OwnedOnce(dir) /\ (\A c \in Dir : DirOK(dir[c]))
      /\ (\A c \in Dir : \A k \in mapped(dir[c]) : dir[c].pte[k].phys \in Frame)
      /\ \A c \in Dir : view(dir, mem)[c] = seen(dir[c], mem)
  BY ViewFacts
<1>6. /\ D2 \in [Dir -> DirType] /\ (\A c \in Dir : DirOK(D2[c]))
      /\ \A c \in Dir : view(D2, m2)[c] = seen(D2[c], m2)
  BY <1>2, NextView
<1>7. D2[d] = e2 /\ \A c \in Dir : c # d => D2[c] = dir[c]
  BY <1>3, <1>5
<1>8. ASSUME NEW c \in Dir, NEW k \in mapped(dir[c]), ~(c = d /\ k \in S)
      PROVE  m2[dir[c].pte[k].phys] = mem[dir[c].pte[k].phys]
  <2>1. dir[c].pte[k].phys \in Frame
    BY <1>5
  <2>2. ASSUME NEW n \in S, dir[c].pte[k].phys = e.pte[n].phys PROVE FALSE
    <3>1. n \in mapped(dir[d]) /\ dir[c].pte[k].phys = dir[d].pte[n].phys
      BY <1>1, <1>4, <2>2
    <3>2. c = d /\ k = n
      BY <1>5, <3>1 DEF OwnedOnce
    <3> QED BY <1>8, <3>2
  <2>3. dir[c].pte[k].phys \notin gone
    BY <1>2, <2>2
  <2> QED BY <1>3, <2>1, <2>3 DEF freed_mem
<1>9. \A c \in Dir \ {d} : view(D2, m2)[c] = view(dir, mem)[c]
  BY <1>5, <1>6, <1>7, <1>8, SameView
<1>10. ASSUME NEW k \in S PROVE k \in PageNo /\ seen(e2, m2)[k] = 2
  <2>1. k \in PageNo /\ e2.pte[k] = NoEntry
    BY <1>3, <1>4 DEF mapped
  <2>2. ~e2.pte[k].user
    BY <2>1 DEF NoEntry
  <2> QED BY <2>1, <2>2 DEF seen
<1>11. ASSUME NEW k \in PageNo \ S PROVE seen(e2, m2)[k] = seen(e, mem)[k]
  <2>1. e2.pte[k] = e.pte[k]
    BY <1>3
  <2>2. e.pte[k].user => m2[e.pte[k].phys] = mem[e.pte[k].phys]
    BY <1>1, <1>8 DEF mapped
  <2> QED BY <2>1, <2>2 DEF seen
<1>12. UnmapsRange(seen(e, mem), seen(e2, m2))
  <2>1. \A k \in PageNo : seen(e2, m2)[k] \in {seen(e, mem)[k], 2}
    BY <1>10, <1>11
  <2>2. ASSUME NEW i \in PageNo, NEW j \in PageNo, NEW n \in PageNo, i < n, n < j,
               seen(e2, m2)[i] # seen(e, mem)[i], seen(e2, m2)[j] # seen(e, mem)[j]
        PROVE  seen(e2, m2)[n] = 2
    <3>1. i \in S /\ j \in S
      BY <1>11, <2>2
    <3>2. i \in Nat /\ j \in Nat /\ n \in Nat /\ first \in Nat
      BY PagedirConstants
    <3>3. first <= i /\ j < end
      BY <1>4, <3>1 DEF ToVisit
    <3>4. first <= n /\ n < end
      BY <2>2, <3>2, <3>3
    <3>5. CASE e.pte[n].user
      <4>1. n \in mapped(e) /\ e.pte[n].phys # 0
        BY <1>1, <3>5, PagedirConstants DEF mapped, DirOK
      <4>2. n \div Fan \in e.tbl
        BY <1>1, <4>1 DEF DirOK
      <4>3. n \in S
        BY <1>4, <3>4, <4>1, <4>2 DEF ToVisit
      <4> QED BY <1>10, <4>3
    <3>6. CASE ~e.pte[n].user
      <4>1. n \notin S /\ seen(e, mem)[n] = 2
        BY <1>4, <3>6 DEF mapped, seen
      <4> QED BY <1>11, <4>1
    <3> QED BY <3>5, <3>6
  <2> QED BY <2>1, <2>2 DEF UnmapsRange
<1>13. UnmapsRange(view(dir, mem)[d], view(D2, m2)[d])
  BY <1>1, <1>5, <1>6, <1>7, <1>12
<1> QED BY <1>1, <1>2, <1>3, <1>9, <1>13 DEF LocalStep

LEMMA CopyingView ==
    ASSUME PagedirInv, PagedirInv', NEW p \in Proc, NEW q \in Proc, NEW d, NEW us, NEW fs, NEW to,
           us = mapped(Cur(p)), NewFrames(us, fs, to), Copying(p, q, d, us, fs, to)
    PROVE  pages[p] # None /\ ForkStep(p, view(dir, mem), view(dir', mem'))
<1>1. /\ d \in Dir /\ ~dir[d].exists /\ pages[p] # None /\ pages[q] = None
      /\ pages' = [pages EXCEPT ![q] = d]
  BY DEF Copying
<1>2. PICK c0 \in Dir, e \in DirType : c0 = pages[p] /\ e = dir[c0] /\ e = Cur(p) /\ DirOK(e) /\ e.exists
  BY <1>1, LiveDir DEF Cur
<1>3. PICK D2, m2, e2 : D2 = dir' /\ m2 = mem' /\ e2 = CopyOf(e, to)
  OBVIOUS
<1>4. /\ us = mapped(e) /\ D2 = [dir EXCEPT ![d] = e2]
      /\ m2 = [f \in Frame |-> IF f \in fs THEN mem[e.pte[CHOOSE n \in us : to[n] = f].phys] ELSE mem[f]]
  BY <1>2, <1>3 DEF Copying
<1>5. /\ fs \in SUBSET Frame /\ fs \cap used = {} /\ to \in Bijection(us, fs)
      /\ \A n \in us : to[n] \in fs
  BY DEF NewFrames
<1>6. \A m, n \in us : to[m] = to[n] => m = n
  BY <1>5 DEF Bijection, Injection, IsInjective
<1>7. /\ e2.exists /\ mapped(e2) = mapped(e) /\ \A n \in mapped(e) : e2.pte[n].phys = to[n]
  BY <1>2, <1>3, <1>4, <1>5, CopyIs
<1>8. /\ dir \in [Dir -> DirType] /\ FramesUsed(dir, used) /\ used \in SUBSET Frame /\ DirsLive
      /\ (\A c \in Dir : DirOK(dir[c])) /\ \A c \in Dir : view(dir, mem)[c] = seen(dir[c], mem)
  BY ViewFacts
<1>9. /\ D2 \in [Dir -> DirType] /\ (\A c \in Dir : DirOK(D2[c]))
      /\ \A c \in Dir : view(D2, m2)[c] = seen(D2[c], m2)
  BY <1>3, NextView
<1>10. D2[d] = e2 /\ \A c \in Dir : c # d => D2[c] = dir[c]
  BY <1>1, <1>4, <1>8
<1>11. \A c \in Dir : \A k \in mapped(dir[c]) : m2[dir[c].pte[k].phys] = mem[dir[c].pte[k].phys]
  BY <1>4, <1>5, <1>8 DEF FramesUsed
<1>12. \A c \in Dir : c # d => view(D2, m2)[c] = view(dir, mem)[c]
  BY <1>8, <1>9, <1>10, <1>11, SameView
<1>13. seen(e2, m2) = seen(e, mem)
  <2>1. ASSUME NEW n \in PageNo, n \in us PROVE seen(e2, m2)[n] = seen(e, mem)[n]
    <3>1. to[n] \in fs /\ to[n] \in Frame /\ e2.pte[n].user /\ e2.pte[n].phys = to[n] /\ e.pte[n].user
      BY <1>4, <1>5, <1>7, <2>1 DEF mapped
    <3>2. (CHOOSE k \in us : to[k] = to[n]) = n
      BY <1>6, <2>1
    <3>3. m2[to[n]] = mem[e.pte[n].phys]
      BY <1>4, <3>1, <3>2
    <3> QED BY <3>1, <3>3 DEF seen
  <2>2. ASSUME NEW n \in PageNo, n \notin us PROVE seen(e2, m2)[n] = seen(e, mem)[n]
    BY <1>4, <1>7, <2>2 DEF seen, mapped
  <2>3. \A n \in PageNo : seen(e2, m2)[n] = seen(e, mem)[n]
    BY <2>1, <2>2
  <2>4. /\ seen(e2, m2) = [n \in PageNo |-> seen(e2, m2)[n]]
        /\ seen(e, mem) = [n \in PageNo |-> seen(e, mem)[n]]
    BY DEF seen
  <2> QED BY <2>3, <2>4
<1>14. view(D2, m2) = [view(dir, mem) EXCEPT ![d] = view(dir, mem)[pages[p]]]
  <2>1. view(D2, m2)[d] = view(dir, mem)[pages[p]]
    BY <1>1, <1>2, <1>8, <1>9, <1>10, <1>13
  <2>2. /\ view(D2, m2) = [c \in Dir |-> view(D2, m2)[c]]
        /\ view(dir, mem) = [c \in Dir |-> view(dir, mem)[c]]
    BY DEF view
  <2> QED BY <1>1, <1>12, <2>1, <2>2
<1>15. d \in Dir \ ({pages[x] : x \in Proc} \ {None})
  BY <1>1, <1>8 DEF DirsLive
<1> QED BY <1>1, <1>3, <1>14, <1>15 DEF ForkStep

LEMMA ExitView ==
    ASSUME PagedirInv, PagedirInv', NEW p \in Proc, Exit(p)
    PROVE  pages[p] # None /\ ExitStep(p, view(dir, mem), view(dir', mem'))
<1>1. pages[p] # None /\ pages' = [pages EXCEPT ![p] = None]
  BY DEF Exit
<1>2. PICK d \in Dir, e \in DirType : d = pages[p] /\ e = dir[d] /\ e = Cur(p) /\ DirOK(e) /\ e.exists
  BY <1>1, LiveDir DEF Cur
<1>3. PICK D2, m2 : D2 = dir' /\ m2 = mem'
  OBVIOUS
<1>4. /\ dir \in [Dir -> DirType] /\ OwnedOnce(dir) /\ (\A c \in Dir : DirOK(dir[c]))
      /\ (\A c \in Dir : \A k \in mapped(dir[c]) : dir[c].pte[k].phys \in Frame)
  BY ViewFacts
<1>5. /\ D2 \in [Dir -> DirType] /\ (\A c \in Dir : DirOK(D2[c]))
      /\ \A c \in Dir : view(D2, m2)[c] = seen(D2[c], m2)
  BY <1>3, NextView
<1>6. \A c \in Dir : D2[c].exists <=> \E q \in Proc : pages'[q] = c
  BY <1>3 DEF PagedirInv, DirsLive
<1>7. ASSUME NEW c \in Dir, ~D2[c].exists PROVE view(D2, m2)[c] = [n \in PageNo |-> 2]
  <2>1. D2[c] = Empty
    BY <1>5, <1>7 DEF DirOK
  <2>2. \A n \in PageNo : ~Empty.pte[n].user
    BY EmptyDir DEF NoEntry
  <2>3. seen(Empty, m2) = [n \in PageNo |-> 2]
    BY <2>2 DEF seen
  <2> QED BY <1>5, <2>1, <2>3
<1>8. ASSUME NEW c \in Dir, D2[c].exists PROVE view(D2, m2)[c] = view(dir, mem)[c]
  <2>1. CASE last_ref(p)
    <3>1. D2 = [dir EXCEPT ![d] = Empty] /\ m2 = freed_mem(owned(e))
      BY <1>2, <1>3, <2>1 DEF Exit
    <3>2. c # d /\ D2[c] = dir[c]
      BY <1>4, <1>8, <3>1, EmptyDir
    <3>3. owned(e) = {e.pte[n].phys : n \in mapped(e)}
      BY <1>2, EntryFacts DEF owned
    <3>4. ASSUME NEW k \in mapped(dir[c]) PROVE m2[dir[c].pte[k].phys] = mem[dir[c].pte[k].phys]
      <4>1. dir[c].pte[k].phys \in Frame
        BY <1>4
      <4>2. dir[c].pte[k].phys \notin owned(e)
        <5>1. ASSUME NEW n \in mapped(dir[d]), dir[c].pte[k].phys = dir[d].pte[n].phys PROVE FALSE
          BY <1>4, <3>2, <5>1 DEF OwnedOnce
        <5> QED BY <1>2, <3>3, <5>1
      <4> QED BY <3>1, <4>1, <4>2 DEF freed_mem
    <3> QED BY <1>4, <1>5, <3>2, <3>4, SameView
  <2>2. CASE ~last_ref(p)
    BY <1>3, <2>2 DEF Exit
  <2> QED BY <2>1, <2>2
<1>9. ASSUME NEW c \in Dir
      PROVE  view(D2, m2)[c] = IF \E q \in Proc : pages'[q] = c THEN view(dir, mem)[c] ELSE [n \in PageNo |-> 2]
  BY <1>6, <1>7, <1>8
<1>10. view(D2, m2) = [c \in Dir |-> view(D2, m2)[c]]
  BY DEF view
<1>11. view(D2, m2) = [c \in Dir |-> IF \E q \in Proc : pages'[q] = c THEN view(dir, mem)[c] ELSE [n \in PageNo |-> 2]]
  BY <1>9, <1>10
<1> QED BY <1>1, <1>3, <1>11 DEF ExitStep

LEMMA EndType == ASSUME NEW n \in PageNo, NEW len \in MapLens PROVE unmapped_end(n * PageBytes, len) \in Nat
<1>1. n \in Nat /\ PageBytes \in Nat /\ PageBytes > 0 /\ len \in Nat
  BY PagedirConstants, PagedirAssumption
<1>2. n * PageBytes \in Nat
  BY <1>1
<1>3. n * PageBytes + len + PageBytes - 1 \in Nat
  BY <1>1, <1>2
<1> QED BY <1>1, <1>3 DEF unmapped_end

LEMMA MemflagView ==
    ASSUME PagedirInv, PagedirInv', NEW p \in Proc, NEW n \in PageNo, NEW len \in MapLens,
           NEW ff \in BOOLEAN, NEW pr \in BOOLEAN, Memflag(p, n, len, ff, pr)
    PROVE  pages[p] # None /\ LocalStep(p, view(dir, mem), view(dir', mem'))
<1>1. pages[p] # None
  BY DEF Memflag
<1>2. \/ \E S \in SUBSET PageNo : MapPages(p, S)
      \/ Unmap(p, n, len)
  BY DEF Memflag
<1>3. ASSUME NEW S \in SUBSET PageNo, MapPages(p, S) PROVE LocalStep(p, view(dir, mem), view(dir', mem'))
  BY <1>1, <1>3, MapPagesIs, MappingView
<1>4. ASSUME Unmap(p, n, len) PROVE LocalStep(p, view(dir, mem), view(dir', mem'))
  <2>1. PICK end \in Nat : end = unmapped_end(n * PageBytes, len)
    BY EndType
  <2>2. PICK S, e2 : S = freeable(Cur(p), visited(Cur(p), n, end)) /\ Unmapping(p, S, e2)
    BY <1>1, <1>4, <2>1, UnmapIs
  <2>3. visited(Cur(p), n, end) = ToVisit(Cur(p), end, n)
    BY VisitedIs
  <2>4. S = ToVisit(Cur(p), end, n) \cap mapped(Cur(p))
    BY <1>1, <2>2, <2>3, LiveDir, EntryFacts
  <2> QED BY <1>1, <2>2, <2>4, UnmappingView
<1> QED BY <1>1, <1>2, <1>3, <1>4

LEMMA ForkShareView ==
    ASSUME NEW p \in Proc, NEW q \in Proc, ForkShare(p, q)
    PROVE  pages[p] # None /\ ForkStep(p, view(dir, mem), view(dir', mem'))
BY DEF ForkShare, ForkStep

LEMMA PagesStep ==
    ASSUME PagedirInv, PagedirInv', [PagedirNext]_pagedir_vars
    PROVE  SpaceStep(view(dir, mem), view(dir', mem')) \/ UNCHANGED <<pages, dir, mem>>
<1> DEFINE G == SpaceStep(view(dir, mem), view(dir', mem'))
<1>1. ASSUME NEW p \in Proc, NEW n \in PageNo, NEW len \in MapLens,
             NEW ff \in BOOLEAN, NEW pr \in BOOLEAN, Memflag(p, n, len, ff, pr)
      PROVE  G
  BY <1>1, MemflagView DEF SpaceStep
<1>2. ASSUME NEW p \in Proc, NEW n \in PageNo, Store(p, n) PROVE G
  <2>1. pages[p] # None
    BY <1>2 DEF Store
  <2>2. LocalStep(p, view(dir, mem), view(dir', mem'))
    BY <1>2, StoreView
  <2> QED BY <2>1, <2>2 DEF SpaceStep
<1>3. ASSUME NEW p \in Proc, NEW q \in Proc, ForkCopy(p, q) PROVE G
  <2>1. PICK d, us, fs, to : us = mapped(Cur(p)) /\ NewFrames(us, fs, to) /\ Copying(p, q, d, us, fs, to)
    BY <1>3, ForkCopyIs
  <2>2. pages[p] # None /\ ForkStep(p, view(dir, mem), view(dir', mem'))
    BY <2>1, CopyingView
  <2> QED BY <2>2 DEF SpaceStep
<1>4. ASSUME NEW p \in Proc, NEW q \in Proc, ForkShare(p, q) PROVE G
  BY <1>4, ForkShareView DEF SpaceStep
<1>5. ASSUME NEW p \in Proc, Exit(p) PROVE G
  BY <1>5, ExitView DEF SpaceStep
<1>6. CASE UNCHANGED pagedir_vars
  BY <1>6 DEF pagedir_vars
<1> HIDE DEF G
<1>7. PagedirNext => G
  BY <1>1, <1>2, <1>3, <1>4, <1>5 DEF PagedirNext
<1> QED BY <1>6, <1>7 DEF G

LEMMA PagesRefine ==
    PagedirInv /\ PagedirInv' /\ [PagedirNext]_pagedir_vars =>
        [AbstractSpace!Next]_<<pages, view(dir, mem)>>
<1> SUFFICES ASSUME PagedirInv, PagedirInv', [PagedirNext]_pagedir_vars
             PROVE  AbstractSpace!Next \/ UNCHANGED <<pages, view(dir, mem)>>
  OBVIOUS
<1>1. view(dir, mem)' = view(dir', mem')
  BY DEF view, pagedir_virt2phys, UserPage, Present, get_entry
<1>2. SpaceStep(view(dir, mem), view(dir', mem')) \/ UNCHANGED <<pages, dir, mem>>
  BY PagesStep
<1> QED BY <1>1, <1>2, SpaceStepIs

\* pagedir.c, _sys_memflag, proc_fork and proc_kill implement AddressSpace:
\* for any number of processes, directories, tables and frames, what a process
\* finds in its memory is what it and the threads it shares it with have put
\* there.  A fork copies all of it, new pages are zero and take the place of no
\* other, and pagedir_unmap_user removes a whole range although it skips absent
\* tables.
THEOREM SpacesArePrivate == PagedirSpec => PrivateSpaces
<1>1. PagedirInv /\ PagedirInv' /\ [PagedirNext]_pagedir_vars => [AbstractSpace!Next]_<<pages, view(dir, mem)>>
  BY PagesRefine
<1>2. PagedirSpec => [][AbstractSpace!Next]_<<pages, view(dir, mem)>>
  BY <1>1, PagedirInvAlways, PTL DEF PagedirSpec
<1>3. ([][AbstractSpace!Next]_<<pages, view(dir, mem)>>) => PrivateSpaces
  BY DEF PrivateSpaces, AbstractSpace!Spec, view
<1> QED BY <1>2, <1>3

=============================================================================
