-------------------------------- MODULE Tcp --------------------------------
(***************************************************************************)
(* A TCP connection of the network stack, from src/cmd/netstack/tcp.c, and *)
(* the file system in front of it (the TCP half of fs.c in that directory).*)
(*                                                                         *)
(* The threads of the stack share memory but only leave the CPU in system  *)
(* calls that block, so that a handler is one step.  The peer is external: *)
(* a correct TCP, of which any segment may be lost, repeated, delayed or   *)
(* overtaken.  Byte number i of its stream has the sequence number i and   *)
(* is modelled by i.  rack is written and never read, and is left out.     *)
(***************************************************************************)
EXTENDS Naturals, Sequences, SequencesExt

CONSTANTS
    Cap,            \* the capacity of the ring rx, of which Cap - 1 can be used
    SegLen,         \* the lengths of the segments of the peer
    ReadCaps,       \* the lengths of the reads
    MaxWrites,      \* bound: the bytes that the client writes
    Slack           \* the bytes of the window that the peer does not use

\* A segment of one byte that is repeated would be taken a second time (see
\* jumped), and the peer would see no error.
ASSUME TcpAssumption ==
    /\ Cap \in Nat \ {0} /\ Slack \in Nat
    /\ SegLen \in Seq(Nat \ {0, 1})
    /\ ReadCaps \subseteq Nat /\ MaxWrites \in Nat

VARIABLES
    c,              \* struct tcp_conn
    h,              \* struct handle: req is the pending request, if any
    peer,           \* the peer: what it has sent so far
    edge,           \* the first byte that no window we announced contains
    got,            \* the bytes that reads returned
    out,            \* the segment that was sent last
    bad             \* a callback used a handle that is freed

tcp_vars == <<c, h, peer, edge, got, out, bad>>

\* The first byte of the k-th segment.
Start[k \in 1..(Len(SegLen) + 1)] == IF k = 1 THEN 1 ELSE Start[k - 1] + SegLen[k - 1]
MaxStream == Start[Len(SegLen) + 1] - 1
hi == Start[peer.sent + 1] - 1          \* the last byte that was sent

States == {"NONE", "LISTEN", "SYN_SENT", "SYN_RCVD", "ESTABILISHED", "LAST_ACK", "CLOSED", "FREED"}
SYN == "SYN"
ACK == "ACK"
FIN == "FIN"
RST == "RST"

\* The connection exists, the lists of bytes are those of the peer, and a
\* handle that was given out has a connection.
TcpTypeOK ==
    /\ c.state \in States /\ c.lack \in 0..(MaxStream + 1) /\ c.lseq \in 0..(MaxWrites + 1)
    /\ Len(c.rx) < Cap /\ \A i \in DOMAIN c.rx : c.rx[i] \in 1..hi
    /\ h.req \in {"none", "open", "read"} /\ h.cap \in ReadCaps \cup {0}
    /\ peer.sent \in 0..Len(SegLen) /\ edge \in 0..(MaxStream + Cap + 1)
    /\ h.state = "open" => c.state \notin {"NONE", "FREED"}

-----------------------------------------------------------------------------
(* tcp.c, and the callbacks of fs.c.  A new connection x and a new handle.  *)

\* ring_avail(&c->rx): one more than what fits.
WinSize(x) == Cap - Len(x.rx)

\* tcpc_sendraw of the connection x
tcpc_sendraw(x, flags) ==
    /\ out' = [fl |-> flags, seq |-> x.lseq, ack |-> x.lack, win |-> WinSize(x)]
    /\ edge' = IF ACK \in flags /\ x.lack + WinSize(x) > edge THEN x.lack + WinSize(x) ELSE edge

\* tcpc_tryfree
tryfreed(x) == IF x.state = "CLOSED" /\ x.uclosed THEN [x EXCEPT !.state = "FREED", !.rx = <<>>] ELSE x

\* ring_put drops what does not fit.
ring_put(x, s) == LET t == x.rx \o s IN SubSeq(t, 1, IF Len(t) < Cap THEN Len(t) ELSE Cap - 1)

\* tcp_conn_callback: the open is answered.
tcp_conn_callback(g) == [g EXCEPT !.state = "open", !.req = "none"]

\* Bug: a read that waits is forgotten.
served_never(x, g) == 0
\* tcp_recv_callback: how many bytes the waiting read takes.
served(x, g) == IF g.req = "read" THEN (IF g.cap < Len(x.rx) THEN g.cap ELSE Len(x.rx)) ELSE 0
take(x, n) == [x EXCEPT !.rx = SubSeq(@, n + 1, Len(@))]
answered(g, n) == IF n > 0 THEN [g EXCEPT !.req = "none", !.cap = 0] ELSE g

\* tcp_close_callback
tcp_close_callback(g) == [g EXCEPT !.dead = TRUE, !.req = "none", !.cap = 0]

Fresh(s) == [state |-> s, lack |-> 0, lseq |-> 0, uclosed |-> FALSE, cb |-> TRUE, rx |-> <<>>]
Opening == [h EXCEPT !.state = "opening", !.req = "open"]
NoHandle == [state |-> "none", dead |-> FALSE, req |-> "none", cap |-> 0]

-----------------------------------------------------------------------------
(* Requests of the client (fs_thread). *)

\* open of .../listen/.../tcp/port
OpenListen ==
    /\ c.state = "NONE" /\ h.state = "none"
    /\ c' = Fresh("LISTEN")                             \* tcp_listen
    /\ h' = Opening
    /\ UNCHANGED <<peer, edge, got, out, bad>>

\* open of .../connect/.../tcp/port; arp: the address of the peer or of the
\* gateway is in the ARP cache.
OpenConnect(arp) ==
    /\ c.state = "NONE" /\ h.state = "none"
    /\ IF arp
       THEN /\ c' = [Fresh("SYN_SENT") EXCEPT !.lseq = 1]   \* tcp_connect
            /\ h' = Opening
            /\ tcpc_sendraw(Fresh("SYN_SENT"), {SYN})
       ELSE h' = [tcp_close_callback(h) EXCEPT !.state = "failed"] /\ UNCHANGED <<c, edge, out>>
    /\ UNCHANGED <<peer, got, bad>>

Read(cap) ==
    /\ h.state = "open"
    /\ IF h.dead \/ h.req # "none" THEN UNCHANGED <<c, h, got>>      \* an error
       ELSE LET g == [h EXCEPT !.req = "read", !.cap = cap]          \* recv_enqueue
                n == served(c, g)
            IN /\ got' = got \o SubSeq(c.rx, 1, n)
               /\ c' = take(c, n) /\ h' = answered(g, n)
    /\ UNCHANGED <<peer, edge, out, bad>>

\* tcpc_send
Write ==
    /\ h.state = "open" /\ c.lseq <= MaxWrites
    /\ IF h.dead THEN UNCHANGED <<c, edge, out>>
       ELSE tcpc_sendraw(c, {ACK}) /\ c' = [c EXCEPT !.lseq = @ + 1]
    /\ UNCHANGED <<h, peer, got, bad>>

\* tcpc_close, and the handle is freed even if a read waits.
Close ==
    LET x == [c EXCEPT !.uclosed = TRUE]
        active == c.state \notin {"CLOSED", "LAST_ACK", "LISTEN"}
    IN
    /\ h.state = "open"
    /\ c' = tryfreed(IF active THEN [x EXCEPT !.state = "LAST_ACK", !.cb = FALSE] ELSE x)
    /\ IF active THEN tcpc_sendraw(x, {FIN, ACK}) ELSE UNCHANGED <<edge, out>>
    /\ h' = [NoHandle EXCEPT !.state = "freed"]
    /\ UNCHANGED <<peer, got, bad>>

-----------------------------------------------------------------------------
(* tcp_parse: a segment of the peer, of len bytes from seq on. *)

ParseListen(s) ==
    LET x == [c EXCEPT !.state = "SYN_RCVD", !.lack = s.seq + 1] IN
    /\ c.state = "LISTEN" /\ s.fl = {SYN}
    /\ tcpc_sendraw(x, {SYN, ACK})
    /\ c' = [x EXCEPT !.lseq = 1]
    /\ h' = tcp_conn_callback(h)
    /\ UNCHANGED <<peer, got, bad>>

ParseSynSent(s) ==
    LET x == [c EXCEPT !.state = "ESTABILISHED", !.lack = s.seq + 1] IN
    /\ c.state = "SYN_SENT"
    /\ IF SYN \in s.fl
       THEN c' = x /\ tcpc_sendraw(x, {ACK}) /\ h' = tcp_conn_callback(h)
       ELSE UNCHANGED <<c, h, edge, out>>               \* a refusal too
    /\ UNCHANGED <<peer, got, bad>>

Connected == {"SYN_RCVD", "ESTABILISHED", "LAST_ACK"}

closing(s) == ACK \in s.fl /\ c.state = "LAST_ACK"

ParseLastAck(s) ==
    /\ c.state \in Connected /\ closing(s)
    /\ c' = tryfreed([c EXCEPT !.state = "CLOSED"])
    /\ UNCHANGED <<h, peer, edge, got, out, bad>>

\* Bug: a segment after the one that is due is taken as well.
jumped_back(s) == s.seq + 1 < c.lack
\* The segment is neither the next one nor a probe for the last byte.
jumped(s) == c.lack # s.seq /\ c.lack # s.seq + 1

ParseJump(s) ==
    /\ c.state \in Connected /\ ~closing(s) /\ jumped(s)
    /\ tcpc_sendraw(c, {ACK})
    /\ UNCHANGED <<c, h, peer, got, bad>>

ParseData(s) ==
    LET x == IF s.len = 0 THEN c
             ELSE [c EXCEPT !.lack = s.seq + s.len, !.rx = ring_put(c, [i \in 1..s.len |-> s.seq + i - 1])]
        n == IF s.len = 0 THEN 0 ELSE served(x, h)      \* on_recv
        fin == FIN \in s.fl
        g == answered(h, n)
        y == take(x, n)
    IN
    /\ c.state \in Connected /\ ~closing(s) /\ ~jumped(s)
    /\ got' = got \o SubSeq(x.rx, 1, n)
    /\ c' = IF fin THEN [y EXCEPT !.state = "LAST_ACK"] ELSE y
    /\ h' = IF fin /\ y.cb THEN tcp_close_callback(g) ELSE g
    /\ IF fin THEN tcpc_sendraw(y, {FIN, ACK})
       ELSE IF s.len > 0 THEN tcpc_sendraw(y, {ACK}) ELSE UNCHANGED <<edge, out>>
    /\ bad' = (bad \/ (s.len > 0 /\ h.state = "freed"))
    /\ UNCHANGED peer

\* No connection takes the segment.
ParseNone(s) ==
    /\ \/ c.state \in {"NONE", "CLOSED", "FREED"}
       \/ c.state = "LISTEN" /\ s.fl # {SYN}            \* rip is still 0
    /\ IF RST \in s.fl THEN UNCHANGED out
       ELSE out' = [fl |-> {RST, ACK}, seq |-> 0, ack |-> s.seq + 1, win |-> 0]
    /\ UNCHANGED <<c, h, peer, edge, got, bad>>

Parse(s) == \/ ParseListen(s) \/ ParseSynSent(s) \/ ParseLastAck(s)
            \/ ParseJump(s) \/ ParseData(s) \/ ParseNone(s)

-----------------------------------------------------------------------------
(* The peer. *)

\* Every segment that a correct peer has sent or may send again by now.
Segments ==
    (IF peer.syn = {} THEN {} ELSE {[fl |-> peer.syn, seq |-> 0, len |-> 0]})
    \cup (IF edge = 0 THEN {} ELSE
        {[fl |-> {ACK}, seq |-> Start[k], len |-> 0] : k \in 1..(peer.sent + 1)}
        \cup {[fl |-> {ACK}, seq |-> Start[k], len |-> SegLen[k]] : k \in 1..peer.sent}
        \cup (IF peer.fin
              THEN {[fl |-> {FIN, ACK}, seq |-> Start[k], len |-> hi + 1 - Start[k]] : k \in {peer.sent, peer.sent + 1} \ {0}}
                   \cup {[fl |-> {ACK}, seq |-> hi + 2, len |-> 0]}
              ELSE {}))

\* The peer opens the connection, or answers or refuses ours.
PeerSyn ==
    /\ peer.syn = {}
    /\ \E fl \in IF c.state = "SYN_SENT" THEN {{SYN, ACK}, {RST, ACK}} ELSE {{SYN}} :
            peer' = [peer EXCEPT !.syn = fl]
    /\ UNCHANGED <<c, h, edge, got, out, bad>>

PeerSend ==
    /\ SYN \in peer.syn /\ ~peer.fin /\ peer.sent < Len(SegLen)
    /\ Start[peer.sent + 2] - 1 + Slack < edge
    /\ peer' = [peer EXCEPT !.sent = @ + 1]
    /\ UNCHANGED <<c, h, edge, got, out, bad>>

PeerFin ==
    /\ edge > 0 /\ ~peer.fin
    /\ peer' = [peer EXCEPT !.fin = TRUE]
    /\ UNCHANGED <<c, h, edge, got, out, bad>>

\* The network delivers one of the segments, not for the last time.
Deliver == \E s \in Segments : Parse(s)

-----------------------------------------------------------------------------
TcpInit ==
    /\ c = Fresh("NONE") /\ h = NoHandle
    /\ peer = [syn |-> {}, sent |-> 0, fin |-> FALSE]
    /\ edge = 0 /\ got = <<>> /\ bad = FALSE
    /\ out = [fl |-> {}, seq |-> 0, ack |-> 0, win |-> 0]

TcpNext ==
    \/ OpenListen \/ Write \/ Close
    \/ \E arp \in BOOLEAN : OpenConnect(arp)
    \/ \E cap \in ReadCaps : Read(cap)
    \/ PeerSyn \/ PeerSend \/ PeerFin
    \/ Deliver

TcpSpec == TcpInit /\ [][TcpNext]_tcp_vars

\* The peer sends again what is not acknowledged, so that the segment that is
\* due arrives at last, and the acknowledgement of our FIN does.
DeliverDue == \E s \in Segments : s.seq = c.lack /\ s.len > 0 /\ Parse(s)
DeliverAck == c.state = "LAST_ACK" /\ \E s \in Segments : ACK \in s.fl /\ Parse(s)
TcpFairness == WF_tcp_vars(DeliverDue) /\ WF_tcp_vars(DeliverAck)

-----------------------------------------------------------------------------
(* Properties. *)

\* What we acknowledge, "last processed seq + 1", is exactly what was read or
\* is in the ring.
AckOK == c.state \in Connected => c.lack = Len(got \o c.rx) + 1

\* What was read, followed by what is in the ring, is the stream of the peer
\* from its first byte, without a gap, a repetition or a change of order, and
\* the acknowledgements agree.
StreamOK == got \o c.rx = [i \in 1..Len(got \o c.rx) |-> i] /\ AckOK

\* A read only waits while there is nothing to read and the peer can still
\* send something.
NoStuckRead == h.req = "read" => c.rx = <<>> /\ ~h.dead /\ c.state \in Connected \ {"LAST_ACK"}

\* The connection outlives the handle only to await the last acknowledgement,
\* no callback reaches a handle that is gone, and a connection that both sides
\* have closed does not stay behind.
NoDangling ==
    /\ ~bad
    /\ h.state = "freed" => c.state \in {"LAST_ACK", "FREED"} /\ c.uclosed
    /\ c.state = "FREED" => h.state = "freed"

\* A read that waits is answered once the peer has sent something.
ReadServed == (h.req = "read" /\ hi >= c.lack) ~> (h.req # "read")

\* A connection that its user has closed is freed.
Released == c.uclosed ~> (c.state = "FREED")

\* What the program reads is the stream of the peer, no read waits for data
\* that is there, and no callback reaches a handle that was freed.
TcpSound == TcpTypeOK /\ StreamOK /\ NoStuckRead /\ NoDangling

\* A read is served, and a connection that both sides have closed is freed.
TcpLive == ReadServed /\ Released
=============================================================================
