-------------------------------- MODULE Pcpy --------------------------------
(***************************************************************************)
(* Copies between address spaces, src/kernel/pcpy.c: two iterators that    *)
(* cut a buffer into pieces within a page, each translated by itself.      *)
(* Pages that follow each other need not do so in physical memory.         *)
(***************************************************************************)
EXTENDS Naturals, FiniteSetsExt

CONSTANTS
    PageSize,           \* bytes in a page
    VPages,             \* number of pages in an address space
    DstFrame, SrcFrame, \* numbers of physical pages of the two spaces
    MaxCopy             \* bound: the length of a copy

\* Frame 0 stands for no frame; a buffer of the kernel begins in the first of
\* some frames that follow each other.
ASSUME PcpyAssumption ==
    /\ PageSize \in Nat \ {0} /\ VPages \in Nat \ {0} /\ MaxCopy \in Nat
    /\ DstFrame \subseteq Nat \ {0} /\ SrcFrame \subseteq Nat \ {0} /\ DstFrame \cap SrcFrame = {}
    /\ \E f \in DstFrame : (\A g \in DstFrame : f <= g) /\ f..(f + VPages - 1) \subseteq DstFrame
    /\ \E f \in SrcFrame : (\A g \in SrcFrame : f <= g) /\ f..(f + VPages - 1) \subseteq SrcFrame

VARIABLES
    space,      \* [dst, src]: virtual page -> frame, 0 if there is none
    pages,      \* [dst, src]: "user", "physical" (no Pagedir), or "dead" (Proc.pages is NULL)
    copy,       \* the arguments: dst, src, len
    iter,       \* [dst, src]: struct virt_iter
    total, mem, \* mem[a]: the physical address that was copied to a, or 0
    pc          \* "copy" or "done"

pcpy_vars == <<space, pages, copy, iter, total, mem, pc>>
Side == {"dst", "src"}

\* Physical addresses.
Addr == {f * PageSize + o : f \in DstFrame \cup SrcFrame, o \in 0..(PageSize - 1)}
Base(side) == Min(IF side = "dst" THEN DstFrame ELSE SrcFrame) * PageSize

PcpyTypeOK ==
    /\ pc \in {"copy", "done"} /\ total \in 0..copy.len
    /\ mem \in [Addr -> Addr \cup {0}]
    \* both iterators stay within the buffers, in step with what was copied
    /\ \A s \in Side : iter[s].virt + iter[s].remaining = copy[s] + copy.len
    /\ \A s \in Side : iter[s].virt - iter[s].frag_len = copy[s] + total \/ pc = "done"

\* pagedir_virt2phys, 0 if the page is not there.
virt2phys(s, a) ==
    LET f == space[s][a \div PageSize] IN IF f = 0 THEN 0 ELSE (f * PageSize) + (a % PageSize)

length_min(d, s) == IF d < s THEN d ELSE s

\* The next piece does not cross the end of a page.
partial(s) ==
    IF pages[s] = "physical" THEN iter[s].remaining
    ELSE length_min(iter[s].remaining, PageSize - (iter[s].virt % PageSize))

frag(s) == IF pages[s] = "physical" THEN Base(s) + iter[s].virt ELSE virt2phys(s, iter[s].virt)

\* virt_iter_next: the iterator after it, with more to say whether it succeeded.
virt_iter_next(s) ==
    LET i == iter[s] IN
    IF i.frag_len > 0 THEN [i EXCEPT !.more = TRUE]
    ELSE IF i.remaining = 0 THEN [i EXCEPT !.more = FALSE]
    ELSE IF frag(s) = 0 THEN [i EXCEPT !.more = FALSE, !.error = TRUE]
    ELSE [i EXCEPT !.more = TRUE, !.frag = frag(s), !.frag_len = partial(s),
                   !.remaining = @ - partial(s), !.virt = @ + partial(s)]

\* Bug: the shorter piece is not advanced within its page.
advanced_stay(i, n) == [i EXCEPT !.frag_len = @ - n]
advanced(i, n) == [i EXCEPT !.frag_len = @ - n, !.frag = @ + n]

\* One turn of the loop in virt_cpy; the source is not asked after the
\* destination has ended.
CopyPiece ==
    LET d == virt_iter_next("dst")
        s == IF d.more THEN virt_iter_next("src") ELSE iter["src"]
        n == length_min(d.frag_len, s.frag_len)
    IN
    /\ pc = "copy" /\ d.more /\ s.more
    /\ mem' = [a \in Addr |-> IF a >= d.frag /\ a < d.frag + n THEN s.frag + (a - d.frag) ELSE mem[a]]
    /\ iter' = [dst |-> advanced(d, n), src |-> advanced(s, n)]
    /\ total' = total + n
    /\ UNCHANGED <<space, pages, copy, pc>>

CopyEnd ==
    LET d == virt_iter_next("dst")
        s == IF d.more THEN virt_iter_next("src") ELSE [iter["src"] EXCEPT !.more = TRUE]
    IN
    /\ pc = "copy" /\ ~(d.more /\ s.more)
    /\ iter' = [dst |-> d, src |-> s]
    /\ pc' = "done"
    /\ UNCHANGED <<space, pages, copy, total, mem>>

\* pcpy_to, pcpy_from and pcpy_bi; a process without pages gets nothing.
PcpyInit ==
    /\ space \in [dst : [0..(VPages - 1) -> DstFrame \cup {0}], src : [0..(VPages - 1) -> SrcFrame \cup {0}]]
    \* a frame is not mapped twice in the destination, and one side is a process
    /\ \A p, q \in 0..(VPages - 1) : p # q /\ space.dst[p] # 0 => space.dst[p] # space.dst[q]
    /\ pages \in [Side -> {"user", "physical", "dead"}]
    /\ \E s \in Side : pages[s] # "physical"
    /\ \A s \in Side : pages[s] # "user" => \A p \in 0..(VPages - 1) : space[s][p] = 0
    /\ copy \in [dst : 0..(VPages * PageSize - 1), src : 0..(VPages * PageSize - 1), len : 0..MaxCopy]
    /\ \A s \in Side : copy[s] + copy.len <= VPages * PageSize /\ (pages[s] # "user" => copy[s] = 0)
    /\ iter = [s \in Side |-> [virt |-> copy[s], remaining |-> copy.len, frag |-> 0, frag_len |-> 0,
                               more |-> TRUE, error |-> FALSE]]
    /\ total = 0 /\ mem = [a \in Addr |-> 0]
    /\ pc = IF "dead" \in {pages.dst, pages.src} THEN "done" ELSE "copy"

PcpyNext == CopyPiece \/ CopyEnd

PcpySpec == PcpyInit /\ [][PcpyNext]_pcpy_vars

-----------------------------------------------------------------------------
(* Properties. *)

\* The address of byte k of a buffer, and how many bytes from its start exist.
At(s, k) == IF pages[s] = "physical" THEN Base(s) + copy[s] + k ELSE virt2phys(s, copy[s] + k)
Mapped(s) == Min({copy.len} \cup {k \in 0..(copy.len - 1) : At(s, k) = 0})

\* What was copied are the bytes in order, each to its own place, wherever the
\* pages lie, and no other byte of memory was touched.
CopyExact ==
    "dead" \notin {pages.dst, pages.src} =>
        \A a \in Addr : mem[a] = IF \E k \in 0..(total - 1) : At("dst", k) = a
                                 THEN At("src", CHOOSE k \in 0..(total - 1) : At("dst", k) = a) ELSE 0

\* A copy stops at the first byte that is missing on either side, and not
\* before; the assertions about total and length hold.
CopyLongest ==
    pc = "done" =>
        IF "dead" \in {pages.dst, pages.src} THEN total = 0
        ELSE /\ total = length_min(Mapped("dst"), Mapped("src"))
             /\ (iter.dst.error \/ iter.src.error) = (total # copy.len)

\* A copy moves the longest prefix that exists on both sides, byte by byte.
CopySound == PcpyTypeOK /\ CopyExact /\ CopyLongest
=============================================================================
