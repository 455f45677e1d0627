------------------------------- MODULE Malloc -------------------------------
(***************************************************************************)
(* The allocators of the kernel, src/kernel/malloc.c: page_alloc and       *)
(* page_free on a bitmap of pages, and kmalloc and kfree on top of them,   *)
(* which link the headers of all blocks in a list.                         *)
(***************************************************************************)
EXTENDS Naturals, Sequences, FiniteSets

CONSTANTS
    Pages,          \* how many pages the bitmap covers
    PAGE_SIZE,      \* the size of a page, in some unit
    HDR,            \* sizeof(struct malloc_hdr)
    Lens,           \* the arguments of kmalloc
    Counts,         \* the arguments of page_alloc, in pages
    NDEBUG,         \* whether the build fills memory with a pattern
    NULL

ASSUME MallocAssumption ==
    /\ Pages \in Nat \ {0} /\ PAGE_SIZE \in Nat \ {0} /\ HDR \in 1..PAGE_SIZE
    /\ Lens \subseteq Nat /\ Counts \subseteq Nat \ {0}
    /\ NDEBUG \in BOOLEAN /\ NULL \notin Nat

VARIABLES
    bitmap,         \* pbitmap
    firstfree,      \* pbitmap_firstfree
    hdr,            \* the header at the start of each page, if there is one
    malloc_last,    \* the block allocated last
    held,           \* what the rest of the kernel holds: page -> pages, kind
    panic           \* what has stopped the kernel, or "none"

vars == <<bitmap, firstfree, hdr, malloc_last, held, panic>>

Page  == 0..(Pages - 1)
NoHdr == [magic |-> FALSE, page_amt |-> 0, next |-> NULL, prev |-> NULL]
Free  == [kind |-> "none", pages |-> 0]

TypeOK ==
    /\ bitmap \in [Page -> BOOLEAN]
    /\ firstfree \in Page
    /\ hdr \in [Page -> [magic : BOOLEAN, page_amt : 0..Pages,
                         next : Page \cup {NULL}, prev : Page \cup {NULL}]]
    /\ malloc_last \in Page \cup {NULL}
    /\ held \in [Page -> [kind : {"none", "kmalloc", "pages"}, pages : 0..Pages]]
    /\ panic \in {"none", "oom", "double free", "sanity"}

Span(first, n) == first..(first + n - 1)

-----------------------------------------------------------------------------
(* page_alloc and page_free. *)

\* The first hole of n pages from the hint on.
Holes(from, n) ==
    {i \in Page : i >= from /\ i + n <= Pages /\ \A j \in Span(i, n) : ~bitmap[j]}
Fit(n) == CHOOSE i \in Holes(firstfree, n) : \A j \in Holes(firstfree, n) : i <= j

page_alloc(n) ==
    /\ bitmap' = [i \in Page |-> bitmap[i] \/ i \in Span(Fit(n), n)]
    /\ firstfree' = Fit(n) + n - 1

page_free(first, n) ==
    /\ bitmap' = [i \in Page |-> bitmap[i] /\ i \notin Span(first, n)]
    /\ firstfree' = IF firstfree > first THEN first ELSE firstfree
    /\ panic' = IF \E i \in Span(first, n) : ~bitmap[i] THEN "double free" ELSE panic

OutOfMemory(n) ==
    /\ Holes(firstfree, n) = {}
    /\ panic' = "oom"
    /\ UNCHANGED <<bitmap, firstfree, hdr, malloc_last, held>>

PageAlloc ==
    /\ panic = "none"
    /\ \E n \in Counts :
        /\ \/ OutOfMemory(n)
           \/ /\ Holes(firstfree, n) # {}
              /\ page_alloc(n)
              /\ held' = [held EXCEPT ![Fit(n)] = [kind |-> "pages", pages |-> n]]
              \* whatever header was there is overwritten by the new owner
              /\ hdr' = [i \in Page |-> IF i \in Span(Fit(n), n) THEN NoHdr ELSE hdr[i]]
              /\ UNCHANGED <<malloc_last, panic>>

PageFree ==
    /\ panic = "none"
    /\ \E a \in Page :
        /\ held[a].kind = "pages"
        /\ page_free(a, held[a].pages)
        /\ held' = [held EXCEPT ![a] = Free]
    /\ UNCHANGED <<hdr, malloc_last>>

-----------------------------------------------------------------------------
(* kmalloc and kfree. *)

\* The assertions of kmalloc_sanity, about the headers h.
kmalloc_sanity(h, a) ==
    /\ h[a].magic
    /\ h[a].next # NULL => h[h[a].next].prev = a
    /\ h[a].prev # NULL => h[h[a].prev].next = a

\* The pages of a block whose length, with the header, is len; and whether
\* the pattern, len bytes from the end of the header on, leaves them.
PageAmt(len) == len \div PAGE_SIZE + 1
Overrun(len) == ~NDEBUG /\ HDR + len > PageAmt(len) * PAGE_SIZE

\* The headers after a block of n pages at a is put at the end of the list,
\* and filled.
link(a, n, len) ==
    [i \in Page |->
        IF i = a THEN [magic |-> TRUE, page_amt |-> n, next |-> NULL,
                       prev |-> malloc_last]
        ELSE IF i \in Span(a, n) \/ (Overrun(len) /\ i = a + n) THEN NoHdr
        ELSE IF i = malloc_last THEN [hdr[i] EXCEPT !.next = a]
        ELSE hdr[i]]

Kmalloc ==
    /\ panic = "none"
    /\ \E arg \in Lens :
        LET len    == arg + HDR
            n      == PageAmt(len)
            a      == Fit(n)
            linked == link(a, n, len)
        IN
        /\ \/ OutOfMemory(n)
           \/ /\ Holes(firstfree, n) # {}
              /\ page_alloc(n)
              /\ hdr' = linked
              /\ malloc_last' = a
              /\ held' = [held EXCEPT ![a] = [kind |-> "kmalloc", pages |-> n]]
              /\ panic' = IF \/ malloc_last # NULL /\ hdr[malloc_last].next # NULL
                             \/ ~kmalloc_sanity(linked, a)
                          THEN "sanity" ELSE panic

\* A bug: the block that follows still points back to the one that is freed.
unlink_half(a) ==
    [i \in Page |->
        IF i \in Span(a, hdr[a].page_amt) THEN NoHdr
        ELSE [hdr[i] EXCEPT !.next = IF i = hdr[a].prev THEN hdr[a].next ELSE @]]

\* The headers after the block at a is taken out of the list.
unlink(a) ==
    [i \in Page |->
        IF i \in Span(a, hdr[a].page_amt) THEN NoHdr
        ELSE [hdr[i] EXCEPT !.prev = IF i = hdr[a].next THEN hdr[a].prev ELSE @,
                            !.next = IF i = hdr[a].prev THEN hdr[a].next ELSE @]]

Kfree ==
    /\ panic = "none"
    /\ \E a \in Page :
        LET h == hdr[a] IN
        /\ held[a].kind = "kmalloc"
        /\ IF kmalloc_sanity(hdr, a)
           THEN /\ hdr' = unlink(a)
                /\ malloc_last' = IF malloc_last = a THEN h.prev ELSE malloc_last
                /\ page_free(a, h.page_amt)
                /\ held' = [held EXCEPT ![a] = Free]
           ELSE panic' = "sanity" /\ UNCHANGED <<hdr, malloc_last, bitmap, firstfree, held>>

\* mem_init: the bitmap itself occupies the first page.
Init ==
    /\ bitmap = [i \in Page |-> i = 0]
    /\ firstfree = 0
    /\ hdr = [i \in Page |-> NoHdr]
    /\ malloc_last = NULL
    /\ held = [i \in Page |-> Free]
    /\ panic = "none"

Next == PageAlloc \/ PageFree \/ Kmalloc \/ Kfree

Spec == Init /\ [][Next]_vars

-----------------------------------------------------------------------------
(* Properties. *)

Blocks == {a \in Page : held[a].kind # "none"}

\* Two allocations never share a page, and the bitmap marks the pages of the
\* allocations and the reserved one, and no other.
NoOverlap ==
    /\ \A a, b \in Blocks : a # b =>
        Span(a, held[a].pages) \cap Span(b, held[b].pages) = {}
    /\ \A i \in Page : bitmap[i] <=>
        i = 0 \/ \E a \in Blocks : i \in Span(a, held[a].pages)

\* The walk of mem_debugprint over the list finds every block of kmalloc,
\* once, and nothing else.
chain[n \in 0..Pages] ==
    IF n = 0 THEN malloc_last
    ELSE IF chain[n - 1] = NULL THEN NULL ELSE hdr[chain[n - 1]].prev
ListOK ==
    panic # "sanity" =>
        LET walk == {n \in 0..Pages : chain[n] # NULL} IN
        /\ {chain[n] : n \in walk} = {a \in Page : held[a].kind = "kmalloc"}
        /\ Cardinality(walk) = Cardinality({a \in Page : held[a].kind = "kmalloc"})

\* The assertions that look for corrupted blocks and double frees never fail
\* for callers that free what they were given, once.
NoCorruption == panic \notin {"sanity", "double free"}

\* The heap is sound: no two blocks overlap, the list is exactly the blocks,
\* and nobody finds his block changed.
HeapSound == TypeOK /\ NoOverlap /\ ListOK /\ NoCorruption
=============================================================================
