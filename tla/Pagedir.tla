------------------------------ MODULE Pagedir ------------------------------
(***************************************************************************)
(* Page tables and user memory: src/kernel/arch/amd64/pagedir.c and the    *)
(* calls that use them (_sys_memflag, proc_fork, proc_kill).               *)
(*                                                                         *)
(* The four levels of tables are two here, a directory and its tables of   *)
(* Fan pages; the middle levels repeat the code of the first.  Frames come *)
(* from page_alloc, which Malloc is about: the lowest free one is taken.   *)
(***************************************************************************)
EXTENDS Naturals, FiniteSets, FiniteSetsExt, Functions

CONSTANTS
    Proc, Init1,    \* the processes, and the first of them
    Dir, None,      \* identities of page directories
    PageBytes,      \* PAGE_SIZE
    Fan, NTables,   \* entries of a table, tables of a directory
    Frame,          \* the frames of memory, numbered
    KernPage,       \* the page of the kernel that every directory maps
    KernFrame,
    MapLens         \* bound: how many bytes are mapped or unmapped at once

ASSUME PagedirAssumption ==
    /\ Init1 \in Proc /\ IsFiniteSet(Dir) /\ Dir # {} /\ None \notin Dir
    /\ PageBytes \in Nat \ {0} /\ Fan \in Nat \ {0} /\ NTables \in Nat \ {0}
    /\ Frame \subseteq Nat \ {0} /\ IsFiniteSet(Frame)
    /\ KernPage \in 0..(Fan * NTables - 1) /\ KernFrame \in Nat
    /\ MapLens \subseteq Nat

VARIABLES
    pages,          \* Proc.pages, or None
    dir,            \* dir[d]: whether it exists, its tables, and the entries
    used,           \* the frames that are allocated to user pages
    ntables,        \* the number of frames that are allocated to directories and tables
    mem             \* 0 in a frame that has been cleared, 1 once it has been written

pagedir_vars == <<pages, dir, used, ntables, mem>>

NPages == Fan * NTables
PageNo == 0..(NPages - 1)
Addr   == 0..(NPages * PageBytes - 1)
NoEntry == [phys |-> 0, user |-> FALSE]     \* present = 0
Empty  == [exists |-> FALSE, tbl |-> {}, pte |-> [n \in PageNo |-> NoEntry]]

PagedirTypeOK ==
    /\ pages \in [Proc -> Dir \cup {None}]
    /\ \A d \in Dir : /\ dir[d].exists \in BOOLEAN /\ dir[d].tbl \subseteq 0..(NTables - 1)
                      /\ \A n \in PageNo : dir[d].pte[n] \in [phys : Frame \cup {0, KernFrame}, user : BOOLEAN]
    /\ used \subseteq Frame /\ ntables \in Nat
    /\ mem \in [Frame -> {0, 1}]

freed_mem(S) == [f \in Frame |-> IF f \in S THEN 1 ELSE mem[f]]

Take(S, n) == CHOOSE T \in SUBSET (Frame \ S) :     \* n calls of page_alloc
                Cardinality(T) = n /\ \A f \in T, g \in Frame \ (S \cup T) : f < g

-----------------------------------------------------------------------------
(* pagedir.c, on a directory e. *)

get_entry(e, n) == IF n \in PageNo /\ n \div Fan \in e.tbl THEN e.pte[n] ELSE NoEntry
Present(e, n) == get_entry(e, n).phys # 0
UserPage(e, n) == Present(e, n) /\ get_entry(e, n).user
pagedir_iskern(e, n) == Present(e, n) /\ ~get_entry(e, n).user

\* The page that pagedir_unmap_user looks at after an absent table.
skip_table(n) == (n \div Fan + 1) * Fan

\* The first page that is wholly after the range.
unmapped_end(a, len) == (a + len + PageBytes - 1) \div PageBytes

\* The pages that pagedir_unmap_user visits, from first up to end.
visited(e, first, end) ==
    LET visit[n \in 0..(NPages + Fan)] ==
            IF n >= end \/ n >= NPages THEN {}
            ELSE IF n \div Fan \notin e.tbl THEN visit[skip_table(n)]
            ELSE {n} \cup visit[n + 1]
    IN visit[first]

\* The pages of S that may be freed.
freeable(e, S) == {n \in S : UserPage(e, n)}

\* pagedir_findfree: the first gap of len bytes from page start, or 0.
pagedir_findfree(e, start, len) ==
    LET Fits(n) == n * PageBytes + len <= NPages * PageBytes
                    /\ \A k \in n..(unmapped_end(n * PageBytes, IF len = 0 THEN 1 ELSE len) - 1) : ~Present(e, k)
        ok == {n \in PageNo : n >= start /\ Fits(n)}
    IN IF ok = {} THEN 0 ELSE Min(ok)

\* The frames of the user pages of a directory, and how many it needs itself.
owned(e) == {e.pte[n].phys : n \in freeable(e, PageNo)}
overhead(e) == IF e.exists THEN 1 + Cardinality(e.tbl) ELSE 0

-----------------------------------------------------------------------------
(* _sys_memflag *)

Cur(p) == dir[pages[p]]

\* Without MEMFLAG_PRESENT: pagedir_unmap_user.  Tables are kept.
Unmap(p, n, len) ==
    LET e == Cur(p)
        S == freeable(e, visited(e, n, unmapped_end(n * PageBytes, len)))
    IN
    /\ dir' = [dir EXCEPT ![pages[p]].pte = [k \in PageNo |-> IF k \in S THEN NoEntry ELSE @[k]]]
    /\ used' = used \ {e.pte[k].phys : k \in S}
    /\ mem' = freed_mem({e.pte[k].phys : k \in S} \cap Frame)
    /\ UNCHANGED <<pages, ntables>>

\* Bug: new memory shows what was in the frame.
zeroed_not(f) == mem[f]
\* page_zalloc
zeroed(f) == 0

\* A frame for each page of S that has none, and a table where they need one.
MapPages(p, S) ==
    LET e   == Cur(p)
        new == {k \in S : ~pagedir_iskern(e, k) /\ ~Present(e, k)}
        tbl == e.tbl \cup {k \div Fan : k \in new}
        fs  == Take(used, Cardinality(new))
        to  == CHOOSE f \in Bijection(new, fs) : TRUE
    IN
    /\ Cardinality(new) <= Cardinality(Frame \ used)    \* else page_alloc panics
    /\ dir' = [dir EXCEPT ![pages[p]].pte = [k \in PageNo |-> IF k \in new THEN [phys |-> to[k], user |-> TRUE] ELSE @[k]],
                          ![pages[p]].tbl = tbl]
    /\ used' = used \cup fs
    /\ ntables' = ntables + Cardinality(tbl \ e.tbl)
    /\ mem' = [f \in Frame |-> IF f \in fs THEN zeroed(f) ELSE mem[f]]
    /\ UNCHANGED pages

Memflag(p, n, len, findfree, present) ==
    LET at == IF findfree THEN pagedir_findfree(Cur(p), n, len) ELSE n IN
    /\ pages[p] # None
    /\ at * PageBytes + len <= NPages * PageBytes      \* else pages of the kernel follow
    /\ \/ present /\ MapPages(p, {k \in PageNo : k >= at /\ k < unmapped_end(at * PageBytes, len)})
       \/ ~present /\ ~findfree /\ Unmap(p, n, len)

-----------------------------------------------------------------------------
(* Access by programs, and by pcpy.c for them *)

\* pagedir_virt2phys for a user address, as the frame, or 0.
pagedir_virt2phys(e, a) ==
    IF UserPage(e, a \div PageBytes) THEN get_entry(e, a \div PageBytes).phys ELSE 0

\* The program, or the kernel for it, stores into a page.
Store(p, n) ==
    /\ pages[p] # None /\ pagedir_virt2phys(Cur(p), n * PageBytes) # 0
    /\ mem' = [mem EXCEPT ![Cur(p).pte[n].phys] = 1]
    /\ UNCHANGED <<pages, dir, used, ntables>>

-----------------------------------------------------------------------------
(* proc_fork and proc_kill *)

\* An entry of pagedir_copy: the page of the kernel is shared, others copied.
copied_pte(x, to, n) == IF x.user /\ x.phys # 0 THEN [x EXCEPT !.phys = to[n]] ELSE x

\* Without FORK_SHAREMEM: pagedir_copy.
ForkCopy(p, q) ==
    \E d \in Dir :
    LET e  == Cur(p)
        us == freeable(e, PageNo)
        fs == Take(used, Cardinality(us))
        to == CHOOSE f \in Bijection(us, fs) : TRUE
    IN
    /\ ~dir[d].exists /\ pages[p] # None /\ pages[q] = None
    /\ Cardinality(us) <= Cardinality(Frame \ used)
    /\ dir' = [dir EXCEPT ![d] = [e EXCEPT !.pte = [n \in PageNo |-> copied_pte(e.pte[n], to, n)]]]
    /\ used' = used \cup fs
    /\ ntables' = ntables + overhead(e)
    /\ mem' = [f \in Frame |-> IF f \in fs THEN mem[e.pte[CHOOSE n \in us : to[n] = f].phys] ELSE mem[f]]
    /\ pages' = [pages EXCEPT ![q] = d]

\* With FORK_SHAREMEM: pages_refcount goes up.
ForkShare(p, q) ==
    /\ pages[p] # None /\ pages[q] = None
    /\ pages' = [pages EXCEPT ![q] = pages[p]]
    /\ UNCHANGED <<dir, used, ntables, mem>>

\* Bug: the first thread that dies takes the memory along.
last_ref_any(p) == TRUE
\* unref(pages_refcount)
last_ref(p) == \A q \in Proc \ {p} : pages[q] # pages[p]

\* proc_kill: pagedir_free by the last process that uses the directory.
Exit(p) ==
    /\ pages[p] # None
    /\ pages' = [pages EXCEPT ![p] = None]
    /\ IF last_ref(p)
       THEN /\ dir' = [dir EXCEPT ![pages[p]] = Empty]
            /\ used' = used \ owned(Cur(p)) /\ mem' = freed_mem(owned(Cur(p)))
            /\ ntables' = ntables - overhead(Cur(p))
       ELSE UNCHANGED <<dir, used, ntables, mem>>

PagedirInit ==
    LET d == CHOOSE x \in Dir : TRUE IN
    /\ pages = [p \in Proc |-> IF p = Init1 THEN d ELSE None]
    /\ dir = [x \in Dir |-> IF x # d THEN Empty
                ELSE [Empty EXCEPT !.exists = TRUE, !.tbl = {KernPage \div Fan},
                                   !.pte[KernPage] = [phys |-> KernFrame, user |-> FALSE]]]
    /\ used = {} /\ ntables = 2
    /\ mem = [f \in Frame |-> 1]

PagedirNext ==
    \/ \E p \in Proc, n \in PageNo, len \in MapLens, ff, pr \in BOOLEAN : Memflag(p, n, len, ff, pr)
    \/ \E p \in Proc, n \in PageNo : Store(p, n)
    \/ \E p, q \in Proc : ForkCopy(p, q) \/ ForkShare(p, q)
    \/ \E p \in Proc : Exit(p)

PagedirSpec == PagedirInit /\ [][PagedirNext]_pagedir_vars

-----------------------------------------------------------------------------
(* Properties. *)

Live == {pages[p] : p \in Proc} \ {None}

\* The frames of directories, and those of their tables.
Dirs   == {d \in Dir : dir[d].exists}
Tables == {x \in Dir \X (0..(NTables - 1)) : x[2] \in dir[x[1]].tbl}

\* Every allocated frame belongs to exactly one directory, in exactly one
\* role, and what no directory refers to is free: no page is leaked, freed
\* twice, or mapped at two places.
FramesExact ==
    /\ used = UNION {owned(dir[d]) : d \in Live}
    /\ ntables = Cardinality(Dirs) + Cardinality(Tables)
    /\ \A d, e \in Live : d # e => owned(dir[d]) \cap owned(dir[e]) = {}
    /\ \A d \in Live : \A m, n \in freeable(dir[d], PageNo) : m # n => dir[d].pte[m].phys # dir[d].pte[n].phys

\* Processes see private address spaces, as the calls above intend: fork
\* copies all of them, new pages are zero and cover no mapped page, an unmapped
\* range is gone, and nobody sees the writes of another.
AbstractSpace == INSTANCE AddressSpace WITH
    Space <- Dir, Absent <- 2, space <- pages, Page <- PageNo, Value <- {0, 1},
    memory <- [d \in Dir |-> [n \in PageNo |-> LET f == pagedir_virt2phys(dir[d], n * PageBytes)
                                               IN IF f = 0 THEN 2 ELSE mem[f]]]
PrivateSpaces == AbstractSpace!Spec

\* The page tables are well formed, and no frame is lost or freed twice.
FramesSound == PagedirTypeOK /\ FramesExact
=============================================================================
