-------------------------------- MODULE Fifo --------------------------------
(***************************************************************************)
(* What a byte buffer promises to the drivers and the network stack that   *)
(* use src/libk/ring.c: a queue of at most Room bytes that keeps the order *)
(* and drops what does not fit.                                            *)
(***************************************************************************)
EXTENDS Naturals, Sequences

CONSTANTS
    Strings,        \* the strings of bytes that are put in
    Room,           \* how many bytes can be stored
    MaxLen          \* bound: how many bytes are asked for at once

VARIABLES
    queue,          \* the bytes stored
    got,            \* the bytes that the last operation took out
    call            \* the last operation, and the length it was given

vars == <<queue, got, call>>

Min(m, n) == IF m < n THEN m ELSE n

Init == queue = <<>> /\ got = <<>> /\ call = <<"get", 0>>

\* Bytes are stored, in order, as long as there is room.
Put(s) ==
    /\ queue' = queue \o SubSeq(s, 1, Min(Len(s), Room - Len(queue)))
    /\ got' = <<>>
    /\ call' = <<"put", Len(s)>>

\* The first m bytes are taken out.
Take(m) ==
    /\ got' = SubSeq(queue, 1, m)
    /\ queue' = SubSeq(queue, m + 1, Len(queue))

\* All the bytes asked for are taken out, or all there are.
Get(n) ==
    /\ Take(Min(n, Len(queue)))
    /\ call' = <<"get", n>>

\* Some of them are, and at least one if that is possible.
Contig(n) ==
    /\ \E m \in 0..Min(n, Len(queue)) :
        /\ m = 0 => Min(n, Len(queue)) = 0
        /\ Take(m)
    /\ call' = <<"contig", n>>

Next ==
    \/ \E s \in Strings : Put(s)
    \/ \E n \in 0..MaxLen : Get(n) \/ Contig(n)

Spec == Init /\ [][Next]_vars
=============================================================================
