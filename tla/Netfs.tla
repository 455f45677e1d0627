------------------------------- MODULE Netfs -------------------------------
(***************************************************************************)
(* The file system of the network stack for raw frames, UDP and ARP: fs.c, *)
(* udp.c, ether.c and arp.c of src/cmd/netstack.  TCP is in module Tcp,    *)
(* reassembly in module Ipv4.  Frames that are only sent change no state   *)
(* of the stack and are left out.  There is one remote port per address.   *)
(***************************************************************************)
EXTENDS Naturals, Integers, Sequences, SequencesExt

CONSTANTS
    File,           \* the handles, struct handle
    Ip, Mac, Port,  \* addresses of other hosts, and local ports
    NoMac,
    MaxFrames,      \* bound: the datagrams and announcements that arrive
    MaxRaw          \* bound: the raw reads that wait

ASSUME NetfsAssumption == MaxFrames \in Nat /\ MaxRaw \in Nat

VARIABLES
    arpcache,       \* arpcache: entries [ip, mac], in the order of the list
    ether_queue,    \* how many raw reads wait
    conns,          \* the UDP connections, in the order of the list
    nh,             \* nh[f]: the handle f
    received, arrived,   \* per handle, the datagrams that reads returned, and that came in
    lost,           \* per handle, the datagrams that were answered to no request
    ndgrams,        \* the number of datagrams so far
    frames,         \* the number of datagrams and announcements
    heard           \* heard[i]: the addresses that host i announced, in order

netfs_vars == <<arpcache, ether_queue, conns, nh, received, arrived, lost, ndgrams, frames, heard>>

NoFile == [state |-> "none", type |-> "none", reqh |-> 0, rx |-> <<>>, damaged |-> FALSE]

NetfsTypeOK ==
    /\ \A f \in File : /\ nh[f].state \in {"none", "opening", "open", "freed"}
                       /\ nh[f].type \in {"none", "ETHER", "UDP", "ARP"}
                       /\ nh[f].reqh \in -1..1 /\ nh[f].rx \in Seq(1..ndgrams)
    /\ ether_queue \in 0..MaxRaw /\ ndgrams \in 0..MaxFrames
    /\ \A k \in DOMAIN conns : conns[k].f \in File /\ conns[k].lport \in Port
    \* a name that a listener has not been given yet, or the host it talks to
    /\ \A f \in File : nh[f].state = "opening" => \E k \in DOMAIN conns : conns[k].f = f /\ conns[k].listening

-----------------------------------------------------------------------------
(* arp.c *)

\* arpcache_put keeps the cache if the first entry for the MAC has this address.
correct(i, m) == LET k == SelectInSeq(arpcache, LAMBDA e : e.mac = m) IN k # 0 /\ arpcache[k].ip = i

arpcache_get(i) == LET k == SelectInSeq(arpcache, LAMBDA e : e.ip = i) IN IF k = 0 THEN NoMac ELSE arpcache[k].mac

\* ether_parse: the waiting raw reads get every frame, before it is parsed.
ether_parse == ether_queue' = 0

\* arp_parse.  The reply to a request for our address changes no state.
FrameArp(i, m) ==
    /\ frames < MaxFrames /\ frames' = frames + 1
    /\ ether_parse
    /\ arpcache' = IF correct(i, m) THEN arpcache ELSE <<[ip |-> i, mac |-> m]>> \o arpcache
    /\ heard' = [heard EXCEPT ![i] = Append(@, m)]
    /\ UNCHANGED <<conns, nh, received, arrived, lost, ndgrams>>

-----------------------------------------------------------------------------
(* udp.c, with the callbacks of fs.c *)

\* Bug: the newest datagram is read first.
enqueued_front(g, d) == [g EXCEPT !.rx = <<d>> \o @]
enqueued(g, d) == [g EXCEPT !.rx = Append(@, d)]

\* udp_recv_callback.  reqh = 0, the value of a new handle, passes for a request.
udp_recv_callback(g, d) == IF g.reqh >= 0 THEN [g EXCEPT !.reqh = -1] ELSE enqueued(g, d)

\* udp_listen_callback
udp_listen_callback(g) == [g EXCEPT !.state = "open", !.reqh = -1]

\* The connections that udp_parse finds for a datagram.
matching(i, port) ==
    {k \in DOMAIN conns : conns[k].lport = port /\ (conns[k].listening \/ conns[k].rip = i)}

FrameUdp(i, port) ==
    LET d == ndgrams + 1
        M == matching(i, port)
        F == {conns[k].f : k \in M}
        opened == [f \in F |-> IF nh[f].state = "opening" THEN udp_listen_callback(nh[f]) ELSE nh[f]]
        answers(f, r) == f \in F /\ opened[f].reqh = r
    IN
    /\ frames < MaxFrames /\ \A f \in F : ~nh[f].damaged
    /\ ndgrams' = d /\ frames' = frames + 1 /\ ether_parse
    /\ conns' = [k \in DOMAIN conns |-> IF k \in M THEN [conns[k] EXCEPT !.listening = FALSE, !.rip = i] ELSE conns[k]]
    /\ nh' = [f \in File |-> IF f \in F THEN udp_recv_callback(opened[f], d) ELSE nh[f]]
    /\ received' = [f \in File |-> IF answers(f, 1) THEN Append(received[f], d) ELSE received[f]]
    /\ lost' = [f \in File |-> IF answers(f, 0) THEN lost[f] + 1 ELSE lost[f]]
    /\ arrived' = [f \in File |-> IF f \in F THEN Append(arrived[f], d) ELSE arrived[f]]
    /\ UNCHANGED <<arpcache, heard>>

-----------------------------------------------------------------------------
(* Requests: fs_thread of fs.c *)

\* fs_open, when the path and the flags allow it: a handle of type t.
New(f, t, s, r, cs) ==
    /\ nh' = [nh EXCEPT ![f] = [NoFile EXCEPT !.type = t, !.state = s, !.reqh = r]]
    /\ conns' = cs
    /\ UNCHANGED <<arpcache, ether_queue, received, arrived, lost, ndgrams, frames, heard>>

OpenRaw(f) == nh[f].state = "none" /\ New(f, "ETHER", "open", 0, conns)
OpenArp(f) == nh[f].state = "none" /\ New(f, "ARP", "open", 0, conns)

udp_listen(f, port) == <<[f |-> f, lport |-> port, rip |-> NoMac, listening |-> TRUE]>> \o conns
udpc_new(f, i, port) == <<[f |-> f, lport |-> port, rip |-> i, listening |-> FALSE]>> \o conns

OpenUdpListen(f, port) ==
    /\ nh[f].state = "none"
    /\ New(f, "UDP", "opening", 1, udp_listen(f, port))
\* udpc_new fails if the address is not in the ARP cache.
OpenUdpConnect(f, i, port) ==
    /\ nh[f].state = "none" /\ arpcache_get(i) # NoMac
    /\ New(f, "UDP", "open", 0, udpc_new(f, i, port))

ReadRaw(f) ==
    /\ nh[f].state = "open" /\ nh[f].type = "ETHER" /\ ether_queue < MaxRaw
    /\ ether_queue' = ether_queue + 1
    /\ UNCHANGED <<arpcache, conns, nh, received, arrived, lost, ndgrams, frames, heard>>

ready(g) == g.rx # <<>>

\* recv_enqueue.  What it frees is the datagram after the one that was read,
\* which stays in the queue: with two in it, the handle is damaged.
ReadUdp(f) ==
    LET g == nh[f] IN
    /\ g.state = "open" /\ g.type = "UDP" /\ ~g.damaged
    /\ IF g.reqh > 0 THEN UNCHANGED <<nh, received>>                  \* an error
       ELSE IF ready(g)
            THEN /\ received' = [received EXCEPT ![f] = Append(@, Head(g.rx))]
                 /\ nh' = [nh EXCEPT ![f].rx = Tail(g.rx), ![f].damaged = Tail(g.rx) # <<>>]
            ELSE nh' = [nh EXCEPT ![f].reqh = 1] /\ UNCHANGED received
    /\ UNCHANGED <<arpcache, ether_queue, conns, arrived, lost, ndgrams, frames, heard>>

\* udpc_close
udpc_close(f) == RemoveFirstMatch(conns, LAMBDA k : k.f = f)

\* VFSOP_CLOSE: a request that waits stays unanswered.
CloseFile(f) ==
    /\ nh[f].state = "open"
    /\ conns' = udpc_close(f)
    /\ nh' = [nh EXCEPT ![f] = [NoFile EXCEPT !.state = "freed"]]
    /\ UNCHANGED <<arpcache, ether_queue, received, arrived, lost, ndgrams, frames, heard>>

-----------------------------------------------------------------------------
NetfsInit ==
    /\ arpcache = <<>> /\ ether_queue = 0 /\ conns = <<>> /\ ndgrams = 0 /\ frames = 0
    /\ nh = [f \in File |-> NoFile]
    /\ received = [f \in File |-> <<>>] /\ arrived = [f \in File |-> <<>>] /\ lost = [f \in File |-> 0]
    /\ heard = [i \in Ip |-> <<>>]

NetfsNext ==
    \/ \E i \in Ip, m \in Mac : FrameArp(i, m)
    \/ \E i \in Ip, port \in Port : FrameUdp(i, port)
    \/ \E f \in File :
        \/ OpenRaw(f) \/ OpenArp(f) \/ ReadRaw(f) \/ ReadUdp(f) \/ CloseFile(f)
        \/ \E port \in Port : OpenUdpListen(f, port) \/ \E i \in Ip : OpenUdpConnect(f, i, port)

NetfsSpec == NetfsInit /\ [][NetfsNext]_netfs_vars

(* Properties. *)

\* Reads return the datagrams of the connection in the order of arrival, each
\* once, and the others are still queued.  The one that may be lost is the
\* first, when it comes before the first read of a handle made by connect.
\* (A handle that ReadUdp damaged is past any promise.)
UdpInOrder ==
    \A f \in File : nh[f].state = "open" /\ ~nh[f].damaged =>
        /\ received[f] \o nh[f].rx = SubSeq(arrived[f], lost[f] + 1, Len(arrived[f]))
        /\ lost[f] <= 1

\* No read waits for a datagram that is already there.
NoReadWaits == \A f \in File : nh[f].reqh = 1 /\ nh[f].state = "open" => nh[f].rx = <<>>

\* udp_parse never calls back into a handle that was freed, and never misses
\* one that is open.
CallbacksLive ==
    {conns[k].f : k \in DOMAIN conns} = {f \in File : nh[f].type = "UDP"}

\* arpcache_get gives the address that a host announced last, unless the host
\* has come back to one that it had announced before another.
ArpCurrent ==
    \A i \in Ip : heard[i] # <<>> =>
        \/ arpcache_get(i) = Last(heard[i])
        \/ \E k, n \in DOMAIN heard[i] : k < n /\ heard[i][n] # heard[i][k] /\ heard[i][k] = Last(heard[i])

\* Datagrams are read in order, no read waits next to one, no callback reaches
\* a handle that was closed, and the ARP cache is current.
NetfsSound == NetfsTypeOK /\ UdpInOrder /\ NoReadWaits /\ CallbacksLive /\ ArpCurrent
=============================================================================
