-------------------------------- MODULE Ipv4 --------------------------------
(***************************************************************************)
(* IPv4 of the network stack, src/cmd/netstack/ipv4.c: the fragments that  *)
(* ipv4_send makes of a payload, and their reassembly.  Both ends run this *)
(* code.  The network (external) loses, repeats and reorders fragments and *)
(* may cut one in two.  Offsets and lengths are in units of 8 bytes.       *)
(***************************************************************************)
EXTENDS Naturals, Sequences, SequencesExt, FiniteSets

CONSTANTS
    FragMax,        \* mtu - hdrlen
    PayloadLen,     \* the lengths of the payloads that are sent, in turn
    IdMod           \* the number of identifications, 2^16

\* As there is no timer on incomplete packets, the identifications may not
\* come round again.
ASSUME Ipv4Assumption ==
    /\ FragMax \in Nat \ {0} /\ PayloadLen \in Seq(Nat \ {0})
    /\ IdMod \in Nat \ {0} /\ Len(PayloadLen) <= IdMod

VARIABLES
    next_id,        \* the number of packets sent so far
    fragmenteds,    \* fragmenteds[id]: the list of fragments, in order of offset
    up,             \* the payloads that ipv4_dispatch got
    running         \* the stack has not crashed

ipv4_vars == <<next_id, fragmenteds, up, running>>

Packet == 1..next_id
Id == 0..(IdMod - 1)

\* The k-th unit of the payload of packet p.
Unit(p, k) == <<p, k>>
Payload(p) == [k \in 1..PayloadLen[p] |-> Unit(p, k - 1)]

-----------------------------------------------------------------------------
final(off, fraglen, len) == off + fraglen >= len

\* The fragments of packet p that ipv4_send writes.
fragments(p) ==
    {LET off == i * FragMax
         n == IF FragMax > PayloadLen[p] - off THEN PayloadLen[p] - off ELSE FragMax
     IN [pkt |-> p, offset |-> off, len |-> n, last |-> final(off, n, PayloadLen[p])]
        : i \in {j \in 0..PayloadLen[p] : j * FragMax < PayloadLen[p]}}

\* A router cuts a fragment in two.
cut(f) ==
    {[f EXCEPT !.len = n, !.last = FALSE] : n \in 1..(f.len - 1)}
    \cup {[f EXCEPT !.offset = f.offset + n, !.len = f.len - n] : n \in 1..(f.len - 1)}

OnTheWire == UNION {fragments(p) \cup UNION {cut(f) : f \in fragments(p)} : p \in Packet}

-----------------------------------------------------------------------------
ipv4_send ==
    /\ next_id < Len(PayloadLen)
    /\ next_id' = next_id + 1
    /\ UNCHANGED <<fragmenteds, up, running>>

\* fragmented_tryinsert: the list with f before the first fragment at a bigger
\* offset, or the list itself.
inserted(list, f) ==
    LET at == SelectInSeq(list, LAMBDA g : g.offset >= f.offset) IN
    IF at = 0 THEN Append(list, f)
    ELSE IF list[at].offset = f.offset \/ f.last THEN list      \* duplicate packet, or the end is not last
    ELSE InsertAt(list, at, f)

\* fragmented_find; the packets here have one source and one protocol.
fragmented_find(f) == f.pkt % IdMod

end(f) == f.offset + f.len

\* Bug: a gap before the last fragment is not seen.
incomplete_short(list) == \E i \in 1..(Len(list) - 2) : end(list[i]) < list[i + 1].offset
\* The scan of fragmented_tryfinish, up to the first gap or overlap.
incomplete(list) ==
    \/ list[1].offset # 0
    \/ \E i \in 1..(Len(list) - 1) :
        /\ end(list[i]) < list[i + 1].offset
        /\ \A j \in 1..(i - 1) : end(list[j]) = list[j + 1].offset
overlap(list) == \E i \in 1..(Len(list) - 1) : end(list[i]) > list[i + 1].offset

\* The buffer that is put together from the fragments; Unit(0, 0) is memory
\* that none of them fills.
assembled(list) ==
    [k \in 1..end(Last(list)) |->
        LET F == {g \in Range(list) : g.offset < k /\ k <= end(g)}
        IN IF F = {} THEN Unit(0, 0) ELSE Unit((CHOOSE g \in F : TRUE).pkt, k - 1)]

\* ipv4_parse of a fragment.  fragmented_free takes the whole list away.  The
\* loop of fragmented_tryfinish goes on from the last fragment, which is freed by
\* then: it ends if the allocator left its next pointer alone, or the stack
\* crashes.
ParseFragment(f) ==
    LET id == fragmented_find(f)
        list == inserted(fragmenteds[id], f)
        done == ~incomplete(list) /\ ~overlap(list) /\ Last(list).last
    IN
    /\ IF list = fragmenteds[id] THEN UNCHANGED <<fragmenteds, up, running>>
       ELSE /\ fragmenteds' = [fragmenteds EXCEPT ![id] =
                    IF ~incomplete(list) /\ (overlap(list) \/ done) THEN <<>> ELSE list]
            /\ up' = IF done THEN up \cup {assembled(list)} ELSE up
            /\ running' \in IF done THEN BOOLEAN ELSE {TRUE}
    /\ UNCHANGED next_id

\* A packet that is not fragmented.
ParseWhole(f) ==
    /\ up' = up \cup {assembled(<<f>>)}
    /\ UNCHANGED <<next_id, fragmenteds, running>>

ipv4_parse == running /\ \E f \in OnTheWire :
    IF f.last /\ f.offset = 0 THEN ParseWhole(f) ELSE ParseFragment(f)

-----------------------------------------------------------------------------
Ipv4Init == next_id = 0 /\ fragmenteds = [i \in Id |-> <<>>] /\ up = {} /\ running = TRUE
Ipv4Next == ipv4_send \/ ipv4_parse

Ipv4Spec == Ipv4Init /\ [][Ipv4Next]_ipv4_vars

\* Properties.

Ipv4TypeOK ==
    /\ next_id \in 0..Len(PayloadLen) /\ running \in BOOLEAN
    /\ \A i \in Id : LET list == fragmenteds[i] IN
        /\ Range(list) \subseteq OnTheWire
        /\ \A k \in 1..(Len(list) - 1) : list[k].offset < list[k + 1].offset

\* Whatever the network does to the fragments, what ipv4_dispatch gets is the
\* payload of a packet that was sent: nothing is missing or from elsewhere.
PayloadIntact == up \subseteq {Payload(p) : p \in Packet}

\* A packet is handed on with the fragment that completes it: a list that is
\* kept lacks something, however it was filled.
NoneForgotten ==
    \A i \in Id : LET list == fragmenteds[i] IN list # <<>> =>
        {k \in 0..(PayloadLen[list[1].pkt] - 1) :
            \A f \in Range(list) : k \notin f.offset..(end(f) - 1)} # {}

\* What is delivered is what was sent, and a packet whose fragments have all
\* come in order is delivered.
Ipv4Sound == Ipv4TypeOK /\ PayloadIntact /\ NoneForgotten
=============================================================================
