-------------------------------- MODULE Ring --------------------------------
(***************************************************************************)
(* The ring buffer of src/libk/ring.c.  _head is where the next byte goes, *)
(* _tail is the oldest byte; one cell is never used, so that a full buffer *)
(* and an empty one differ.                                                *)
(***************************************************************************)
EXTENDS Naturals, Sequences

CONSTANTS
    Byte,           \* the values of a byte
    Junk,           \* what is in a cell that has not been written
    Capacity,       \* ring_t.capacity
    MaxLen          \* bound: the longest string put or taken at once

ASSUME RingAssumption ==
    /\ Junk \notin Byte
    /\ Capacity \in Nat \ {0}
    /\ MaxLen \in Nat

VARIABLES
    buf, head, tail,    \* the fields of ring_t
    got,                \* the bytes that the last operation took out
    call                \* the last operation, and its argument

vars == <<buf, head, tail, got, call>>

Cell == 0..(Capacity - 1)

TypeOK ==
    /\ buf \in [Cell -> Byte \cup {Junk}]
    /\ head \in Cell
    /\ tail \in Cell

-----------------------------------------------------------------------------
(* The operations, as functions of a ring r = [buf, head, tail]. *)

ring == [buf |-> buf, head |-> head, tail |-> tail]

\* A bug: a full buffer that ends at the last cell is not noticed.
at_end_flat(r) == r.head + 1 = r.tail

at_end(r) == \/ r.head + 1 = r.tail
             \/ r.head + 1 = Capacity /\ r.tail = 0

wrap(i) == IF i >= Capacity THEN 0 ELSE i

ring_used(r) == IF r.head >= r.tail THEN r.head - r.tail
                ELSE r.head + Capacity - r.tail

ring_put1b(r, b) ==
    IF at_end(r) THEN r
    ELSE [r EXCEPT !.buf[r.head] = b, !.head = wrap(r.head + 1)]

\* ring_put: put1b for each byte of s in turn.
ring_put(r, s) ==
    LET put[i \in 0..Len(s)] == IF i = 0 THEN r ELSE ring_put1b(put[i - 1], s[i])
    IN put[Len(s)]

\* ring_contig: how many of len bytes are taken, the bytes, and the ring.
contig_len(r, len) ==
    LET avail == IF r.head >= r.tail THEN r.head - r.tail ELSE Capacity - r.tail
    IN IF len > avail THEN avail ELSE len
contig_bytes(r, len) == [i \in 1..contig_len(r, len) |-> r.buf[r.tail + i - 1]]
ring_contig(r, len) == [r EXCEPT !.tail = wrap(@ + contig_len(r, len))]

\* ring_get: ring_contig twice, for the two sides of the end of the buffer.
get_bytes(r, len) ==
    LET n == contig_len(r, len)
    IN contig_bytes(r, len) \o contig_bytes(ring_contig(r, len), len - n)
ring_get(r, len) ==
    ring_contig(ring_contig(r, len), len - contig_len(r, len))

-----------------------------------------------------------------------------
Strings == UNION {[1..n -> Byte] : n \in 0..(MaxLen + 1)}

Set(r) == buf' = r.buf /\ head' = r.head /\ tail' = r.tail

Put1b == \E b \in Byte : /\ Set(ring_put1b(ring, b))
                         /\ got' = <<>> /\ call' = <<"put", 1>>

Put == \E s \in Strings : /\ Set(ring_put(ring, s))
                          /\ got' = <<>> /\ call' = <<"put", Len(s)>>

Get == \E n \in 0..MaxLen : /\ Set(ring_get(ring, n))
                            /\ got' = get_bytes(ring, n) /\ call' = <<"get", n>>

Contig == \E n \in 0..MaxLen : /\ Set(ring_contig(ring, n))
                               /\ got' = contig_bytes(ring, n) /\ call' = <<"contig", n>>

Init ==
    /\ buf = [i \in Cell |-> Junk]
    /\ head = 0 /\ tail = 0
    /\ got = <<>> /\ call = <<"get", 0>>

Next == Put1b \/ Put \/ Get \/ Contig

Spec == Init /\ [][Next]_vars

-----------------------------------------------------------------------------
(* Properties. *)

\* The bytes in the ring, oldest first.
Contents(r) ==
    [i \in 1..ring_used(r) |-> r.buf[IF r.tail + i - 1 < Capacity THEN r.tail + i - 1
                                     ELSE r.tail + i - 1 - Capacity]]

\* The ring is a queue of Capacity - 1 bytes: whatever the positions of head
\* and tail, it keeps the order, loses nothing that fits, makes up nothing, and
\* ring_get takes all it is asked for although the bytes may lie on both sides
\* of the end of the buffer.
AbstractFifo == INSTANCE Fifo WITH queue <- Contents(ring), Room <- Capacity - 1
FifoSpec == AbstractFifo!Spec

=============================================================================
