-------------------------- MODULE Programs_proofs --------------------------
(***************************************************************************)
(* Proofs about programs of user space and what they share with drivers.   *)
(*                                                                         *)
(* TcpAlwaysSound: what a TCP connection of the network stack delivers is  *)
(* the stream of the peer, for segments of any lengths, in any order and   *)
(* however often they arrive, any window and any reads.  What is           *)
(* acknowledged is always the start of a segment of the peer, and the      *)
(* starts of two segments are at least two bytes apart, so that the one    *)
(* that jumped lets pass is the one that is due.  It fits into the ring    *)
(* because the peer stays inside the windows, the largest of which ends    *)
(* Cap + 1 after the last byte that was read.                              *)
(*                                                                         *)
(* FilesAlwaysSound, WritesAlwaysSound: the slices of fs_normslice, and    *)
(* what tmpfs, the frame buffer and the disk do with them, for files,      *)
(* sectors and buffers of any size.  Index and length of a slice are those *)
(* of the bytes between its two ends, and ata_write is put together from   *)
(* the first sector, the last one, and the whole sectors between them.     *)
(*                                                                         *)
(* StreamsAlwaysSound: the streams of stdio, for files, buffers and        *)
(* requests of any length.  The position of the stream is where the call   *)
(* began plus what it has moved, also when it is counted from the end of a *)
(* file that grows; with that, the buffer and what was delivered are       *)
(* slices of the file, and the writes of one call are one write.           *)
(***************************************************************************)
EXTENDS Tcp, Files, Stdio, SequenceTheorems, NaturalsInduction, WellFoundedInduction, TLAPS

\* The peer leaves the last byte of every window unused (the window is larger
\* than the ring by one), and no read asks for nothing: a read of length 0
\* waits although there is data, since tcp_recv_callback returns when it has
\* moved nothing.
TcpCareful == Slack >= 1 /\ 0 \notin ReadCaps

-----------------------------------------------------------------------------
(* The segments of the peer. *)

\* A set of natural numbers that is not empty has a smallest element.
LEMMA SmallestExists ==
    ASSUME NEW S \in SUBSET Nat, S # {}
    PROVE  \E x \in S : \A y \in S : x <= y
<1> DEFINE R == OpToRel(<, Nat)
<1>1. IsWellFoundedOn(R, Nat)
  BY NatLessThanWellFounded
<1>2. PICK x \in S : \A y \in S : <<y, x>> \notin R
  <2> HIDE DEF R
  <2> QED BY <1>1, WFMin
<1>3. \A y \in S : ~(y < x)
  BY <1>2 DEF OpToRel
<1> QED BY <1>3

Starts(n, g) == g = [k \in 1..n |-> IF k = 1 THEN 1 ELSE g[k - 1] + SegLen[k - 1]]

\* The recursion of Start has a solution.
LEMMA StartsExist ==
    ASSUME NEW n \in Nat
    PROVE  \E g : Starts(n, g)
<1> DEFINE Bad == {k \in Nat : ~ \E g : Starts(k, g)}
<1> SUFFICES ASSUME Bad # {} PROVE FALSE
  OBVIOUS
<1>1. PICK k \in Bad : \A j \in Bad : k <= j
  <2>1. Bad \in SUBSET Nat
    OBVIOUS
  <2> HIDE DEF Bad
  <2> QED BY <2>1, SmallestExists
<1>2. k \in Nat /\ ~ \E g : Starts(k, g)
  BY <1>1
<1>3. k # 0
  <2> SUFFICES ASSUME k = 0 PROVE FALSE
    OBVIOUS
  <2> DEFINE z == [i \in 1..0 |-> 0]
  <2>1. 1..0 = {}
    OBVIOUS
  <2>2. z = [i \in 1..0 |-> IF i = 1 THEN 1 ELSE z[i - 1] + SegLen[i - 1]]
    BY <2>1
  <2> QED BY <1>2, <2>2 DEF Starts
<1>4. k - 1 \in Nat /\ k - 1 \notin Bad
  <2>1. k - 1 \in Nat /\ ~(k <= k - 1)
    BY <1>2, <1>3
  <2> HIDE DEF Bad
  <2> QED BY <1>1, <2>1
<1>5. PICK w : Starts(k - 1, w)
  BY <1>4
<1> DEFINE g == [i \in 1..k |-> IF i = 1 THEN 1 ELSE w[i - 1] + SegLen[i - 1]]
<1>6. \A i \in 1..(k - 1) : g[i] = w[i]
  <2> TAKE i \in 1..(k - 1)
  <2>1. w[i] = IF i = 1 THEN 1 ELSE w[i - 1] + SegLen[i - 1]
    BY <1>5 DEF Starts
  <2>2. i \in 1..k
    BY <1>2
  <2> QED BY <2>1, <2>2
<1>7. \A i \in 1..k : g[i] = IF i = 1 THEN 1 ELSE g[i - 1] + SegLen[i - 1]
  <2> TAKE i \in 1..k
  <2>1. g[i] = IF i = 1 THEN 1 ELSE w[i - 1] + SegLen[i - 1]
    OBVIOUS
  <2>2. i # 1 => i - 1 \in 1..(k - 1)
    BY <1>2
  <2> HIDE DEF g
  <2> QED BY <1>6, <2>1, <2>2
<1>8. g = [i \in 1..k |-> g[i]]
  OBVIOUS
<1> HIDE DEF g
<1>9. Starts(k, g)
  BY <1>7, <1>8 DEF Starts
<1> QED BY <1>2, <1>9

N == Len(SegLen)

LEMMA StartIs ==
    /\ N \in Nat /\ \A k \in 1..N : SegLen[k] \in Nat /\ SegLen[k] >= 2
    /\ Start[1] = 1
    /\ \A k \in 1..N : Start[k + 1] = Start[k] + SegLen[k]
<1>1. N \in Nat /\ \A k \in 1..N : SegLen[k] \in Nat /\ SegLen[k] >= 2
  <2>1. SegLen \in Seq(Nat \ {0, 1})
    BY TcpAssumption
  <2> QED BY <2>1 DEF N
<1>2. PICK n \in Nat : n = N + 1
  BY <1>1
<1>3. Start = CHOOSE g : Starts(n, g)
  BY <1>2 DEF Start, Starts, N
<1>4. Starts(n, Start)
  BY <1>3, StartsExist
<1>5. \A k \in 1..n : Start[k] = IF k = 1 THEN 1 ELSE Start[k - 1] + SegLen[k - 1]
  BY <1>4 DEF Starts
<1>6. Start[1] = 1
  BY <1>1, <1>2, <1>5
<1>7. ASSUME NEW k \in 1..N PROVE Start[k + 1] = Start[k] + SegLen[k]
  <2>1. k + 1 \in 1..n /\ k + 1 # 1 /\ (k + 1) - 1 = k
    BY <1>1, <1>2
  <2> QED BY <1>5, <2>1
<1> QED BY <1>1, <1>6, <1>7

\* Starts are positive, and the later they are the larger.
LEMMA StartGrows ==
    \A k \in 1..(N + 1) : Start[k] \in Nat /\ Start[k] >= 1 /\ \A j \in 1..k : j < k => Start[j] + 2 <= Start[k]
<1> DEFINE Good(k) == Start[k] \in Nat /\ Start[k] >= 1 /\ \A j \in 1..k : j < k => Start[j] + 2 <= Start[k]
           Bad == {k \in 1..(N + 1) : ~Good(k)}
<1>0. N \in Nat
  BY StartIs
<1> SUFFICES ASSUME Bad # {} PROVE FALSE
  OBVIOUS
<1>1. PICK k \in Bad : \A j \in Bad : k <= j
  <2>1. Bad \in SUBSET Nat
    BY <1>0
  <2> HIDE DEF Bad
  <2> QED BY <2>1, SmallestExists
<1>2. k \in 1..(N + 1) /\ ~Good(k)
  BY <1>1
<1>3. \A j \in 1..(N + 1) : j < k => Good(j)
  <2> SUFFICES ASSUME NEW j \in 1..(N + 1), j < k, ~Good(j) PROVE FALSE
    OBVIOUS
  <2>1. j \in Bad
    OBVIOUS
  <2> HIDE DEF Bad, Good
  <2> QED BY <1>0, <1>1, <1>2, <2>1
<1>4. k # 1
  <2> SUFFICES ASSUME k = 1 PROVE FALSE
    OBVIOUS
  <2>1. Good(k)
    BY StartIs
  <2> QED BY <1>2, <2>1
<1>5. k - 1 \in 1..N /\ k - 1 \in 1..(N + 1) /\ k - 1 < k /\ (k - 1) + 1 = k /\ \A j \in 1..k : j < k => j \in 1..(k - 1) /\ (j = k - 1 \/ j < k - 1)
  BY <1>0, <1>2, <1>4
<1>6. Good(k - 1)
  BY <1>3, <1>5
<1>7. Start[k] = Start[k - 1] + SegLen[k - 1] /\ SegLen[k - 1] \in Nat /\ SegLen[k - 1] >= 2
  BY <1>5, StartIs
<1>8. Start[k] \in Nat /\ Start[k] >= 1
  BY <1>6, <1>7
<1>9. ASSUME NEW j \in 1..k, j < k PROVE Start[j] + 2 <= Start[k]
  <2>1. CASE j = k - 1
    BY <1>6, <1>7, <2>1
  <2>2. CASE j < k - 1
    <3>1. Start[j] + 2 <= Start[k - 1] /\ j \in 1..(N + 1) /\ j < k
      BY <1>0, <1>2, <1>5, <1>6, <2>2
    <3>2. Start[j] \in Nat
      BY <1>3, <3>1
    <3>3. Start[k - 1] \in Nat
      BY <1>6
    <3> QED BY <1>7, <3>1, <3>2, <3>3
  <2> QED BY <1>5, <1>9, <2>1, <2>2
<1> QED BY <1>2, <1>8, <1>9

-----------------------------------------------------------------------------
(* The inductive invariant, of a connection x, a handle g, a peer p, the    *)
(* edge e of the windows and the bytes w that were read.                    *)

ConnType == [state : States, lack : Nat, lseq : 0..(MaxWrites + 1), uclosed : BOOLEAN, cb : BOOLEAN, rx : Seq(Nat)]
HandleType == [state : {"none", "opening", "open", "freed", "failed"}, dead : BOOLEAN,
               req : {"none", "open", "read"}, cap : ReadCaps \cup {0}]
PeerType == [syn : {{}, {SYN}, {SYN, ACK}, {RST, ACK}}, sent : 0..N, fin : BOOLEAN]

TcpTypes(x, g, p, e) == x \in ConnType /\ g \in HandleType /\ p \in PeerType /\ e \in Nat

\* The state of the connection and that of the handle in front of it.
Life(x, g) ==
    /\ x.state = "NONE" => g.state \in {"none", "failed"} /\ g.req = "none"
    /\ x.state \in {"LISTEN", "SYN_SENT"} => g.state = "opening" /\ g.req = "open" /\ x.cb
    /\ x.state \in {"SYN_RCVD", "ESTABILISHED"} => g.state = "open" /\ ~g.dead /\ g.req # "open" /\ x.cb
    /\ x.state = "LAST_ACK" => g.state = (IF x.uclosed THEN "freed" ELSE "open")
    /\ x.state = "CLOSED" => g.state = "open"
    /\ x.state = "FREED" => g.state = "freed"
    /\ x.state \in {"LAST_ACK", "CLOSED", "FREED"} => (g.state = "open" => g.dead) /\ g.req = "none"
    /\ x.state \notin {"LAST_ACK", "FREED"} => ~x.uclosed
    /\ x.state = "FREED" => x.uclosed
    /\ g.state \in {"none", "opening"} => ~g.dead
    /\ g.req = "read" => x.rx = <<>> /\ g.cap # 0

\* What was read and what is in the ring r are the first bytes of the stream.
Stream(w, r) ==
    /\ w \in Seq(Nat) /\ r \in Seq(Nat)
    /\ \A i \in 1..Len(w) : w[i] = i
    /\ \A i \in 1..Len(r) : r[i] = Len(w) + i

\* What is acknowledged starts a segment of the peer, who stays inside the
\* windows, which the ring has room for.
Flow(x, p, e, w) ==
    /\ x.state \in {"NONE", "LISTEN", "SYN_SENT"} => x.lack = 0 /\ w = <<>> /\ x.rx = <<>>
    /\ x.state \in Connected => x.lack = Len(w) + Len(x.rx) + 1 /\ \E k \in 1..(p.sent + 1) : x.lack = Start[k]
    /\ x.lack <= Start[p.sent + 1] /\ Len(w) + Len(x.rx) < Start[p.sent + 1] /\ Len(x.rx) < Cap
    /\ e <= Len(w) + Cap + 1
    /\ p.sent > 0 => Start[p.sent + 1] - 1 + Slack < e

TcpInvOf(x, g, p, e, w) == TcpTypes(x, g, p, e) /\ Life(x, g) /\ Stream(w, x.rx) /\ Flow(x, p, e, w)

TcpInv == TcpInvOf(c, h, peer, edge, got) /\ bad = FALSE

-----------------------------------------------------------------------------
(* The bytes. *)

\* A read moves the first n bytes of the ring.
LEMMA StreamTaken ==
    ASSUME NEW w, NEW r, Stream(w, r), NEW n \in 0..Len(r)
    PROVE  /\ Stream(w \o SubSeq(r, 1, n), SubSeq(r, n + 1, Len(r)))
           /\ Len(w \o SubSeq(r, 1, n)) = Len(w) + n
           /\ Len(SubSeq(r, n + 1, Len(r))) = Len(r) - n
<1>1. w \in Seq(Nat) /\ r \in Seq(Nat) /\ Len(w) \in Nat /\ Len(r) \in Nat /\ n \in Nat /\ n <= Len(r)
  BY DEF Stream
<1>2. PICK a : a = SubSeq(r, 1, n)
  OBVIOUS
<1>3. PICK b : b = SubSeq(r, n + 1, Len(r))
  OBVIOUS
<1>4. a \in Seq(Nat) /\ Len(a) = n /\ \A i \in 1..n : a[i] = r[i]
  BY <1>1, <1>2
<1>5. b \in Seq(Nat) /\ Len(b) = Len(r) - n /\ \A i \in 1..(Len(r) - n) : b[i] = r[n + i]
  BY <1>1, <1>3
<1>6. PICK v : v = w \o a
  OBVIOUS
<1>7. v \in Seq(Nat) /\ Len(v) = Len(w) + n /\ \A i \in 1..(Len(w) + n) : v[i] = IF i <= Len(w) THEN w[i] ELSE a[i - Len(w)]
  BY <1>1, <1>4, <1>6
<1>8. ASSUME NEW i \in 1..Len(v) PROVE v[i] = i
  <2>1. CASE i <= Len(w)
    <3>1. i \in 1..Len(w)
      BY <1>1, <1>7, <2>1
    <3>2. w[i] = i
      BY <3>1 DEF Stream
    <3> QED BY <1>1, <1>7, <2>1, <3>2
  <2>2. CASE ~(i <= Len(w))
    <3>1. i - Len(w) \in 1..n /\ i - Len(w) \in 1..Len(r) /\ Len(w) + (i - Len(w)) = i
      BY <1>1, <1>7, <2>2
    <3>2. v[i] = r[i - Len(w)]
      BY <1>4, <1>7, <2>2, <3>1
    <3> QED BY <3>1, <3>2 DEF Stream
  <2> QED BY <2>1, <2>2
<1>9. ASSUME NEW i \in 1..Len(b) PROVE b[i] = Len(v) + i
  <2>1. n + i \in 1..Len(r) /\ i \in 1..(Len(r) - n) /\ Len(w) + (n + i) = (Len(w) + n) + i
    BY <1>1, <1>5
  <2>2. r[n + i] = Len(w) + (n + i)
    BY <2>1 DEF Stream
  <2> QED BY <1>5, <1>7, <2>1, <2>2
<1>10. Stream(v, b)
  BY <1>5, <1>7, <1>8, <1>9 DEF Stream
<1> QED BY <1>2, <1>3, <1>5, <1>6, <1>7, <1>10

\* A segment that fits is put behind what is in the ring.
Bytes(a, q, n) == a = [i \in 1..n |-> q + i - 1]

LEMMA StreamPut ==
    ASSUME NEW w, NEW x, Stream(w, x.rx), NEW n \in Nat, Len(x.rx) + n < Cap,
           NEW q \in Nat, q = Len(w) + Len(x.rx) + 1, NEW a, Bytes(a, q, n)
    PROVE  Stream(w, ring_put(x, a)) /\ Len(ring_put(x, a)) = Len(x.rx) + n
<1>0. PICK o : o = x.rx
  OBVIOUS
<1>1. w \in Seq(Nat) /\ o \in Seq(Nat) /\ Len(w) \in Nat /\ Len(o) \in Nat
  BY <1>0 DEF Stream
<1>3. a \in Seq(Nat) /\ Len(a) = n /\ \A i \in 1..n : a[i] = q + i - 1
  <2>1. \A i \in 1..n : q + i - 1 \in Nat
    OBVIOUS
  <2> QED BY <2>1 DEF Bytes
<1>4. PICK t : t = o \o a
  OBVIOUS
<1>5. t \in Seq(Nat) /\ Len(t) = Len(o) + n /\ \A i \in 1..(Len(o) + n) : t[i] = IF i <= Len(o) THEN o[i] ELSE a[i - Len(o)]
  BY <1>1, <1>3, <1>4
<1>6. Len(t) < Cap
  BY <1>0, <1>5
<1>7. ring_put(x, a) = SubSeq(t, 1, Len(t))
  BY <1>0, <1>4, <1>6 DEF ring_put
<1>8. SubSeq(t, 1, Len(t)) = t
  BY <1>5
<1>9. ASSUME NEW i \in 1..Len(t) PROVE t[i] = Len(w) + i
  <2>1. CASE i <= Len(o)
    <3>1. i \in 1..Len(o) /\ t[i] = o[i]
      BY <1>1, <1>5, <2>1
    <3> QED BY <1>0, <3>1 DEF Stream
  <2>2. CASE ~(i <= Len(o))
    <3>1. q = Len(w) + Len(o) + 1
      BY <1>0
    <3>3. i \in Nat /\ i - Len(o) \in 1..n
      BY <1>1, <1>5, <2>2
    <3>4. q + (i - Len(o)) - 1 = Len(w) + i
      <4>1. \A u, v, j \in Nat : (u + v + 1) + (j - v) - 1 = u + j
        OBVIOUS
      <4>2. (Len(w) + Len(o) + 1) + (i - Len(o)) - 1 = Len(w) + i
        BY <1>1, <3>3, <4>1
      <4> QED BY <3>1, <4>2
    <3>2. t[i] = a[i - Len(o)]
      BY <1>5, <2>2
    <3> QED BY <1>3, <3>2, <3>3, <3>4
  <2> QED BY <2>1, <2>2
<1>10. Stream(w, t)
  BY <1>1, <1>5, <1>9 DEF Stream
<1> QED BY <1>0, <1>5, <1>7, <1>8, <1>10

\* A read that waits takes something as soon as there is something.
LEMMA ServedIs ==
    ASSUME NEW x, NEW g, x.rx \in Seq(Nat), g.cap \in Nat, TcpCareful
    PROVE  /\ served(x, g) \in 0..Len(x.rx)
           /\ g.req # "read" => served(x, g) = 0
           /\ g.req = "read" /\ g.cap # 0 /\ served(x, g) = 0 => Len(x.rx) = 0
<1>1. Len(x.rx) \in Nat
  OBVIOUS
<1> QED BY <1>1 DEF served

\* The segment that is sent last moves the edge up to m at most.
LEMMA SentIs ==
    ASSUME NEW x, NEW flags, NEW m \in Nat, edge \in Nat, edge <= m, x.lack \in Nat, Len(x.rx) \in Nat,
           Len(x.rx) < Cap, x.lack + (Cap - Len(x.rx)) <= m, tcpc_sendraw(x, flags)
    PROVE  edge' \in Nat /\ edge <= edge' /\ edge' <= m
<1>1. Cap \in Nat
  BY TcpAssumption
<1>2. edge' = IF ACK \in flags /\ x.lack + (Cap - Len(x.rx)) > edge THEN x.lack + (Cap - Len(x.rx)) ELSE edge
  BY DEF tcpc_sendraw, WinSize
<1>3. x.lack + (Cap - Len(x.rx)) \in Nat
  BY <1>1
<1> QED BY <1>2, <1>3

-----------------------------------------------------------------------------
(* Segments. *)

SegOK(s) ==
    /\ s.seq \in Nat /\ s.len \in Nat
    /\ SYN \in s.fl => s.seq = 0 /\ s.len = 0
    /\ FIN \in s.fl \/ s.len > 0 => ACK \in s.fl
    /\ s.len > 0 => \E k \in 1..peer.sent : s.seq = Start[k] /\ s.len = SegLen[k]

LEMMA SegmentsAre ==
    ASSUME TcpInv, NEW s \in Segments
    PROVE  SegOK(s)
<1>1. peer.sent \in 0..N /\ peer.syn \in {{}, {SYN}, {SYN, ACK}, {RST, ACK}} /\ N \in Nat
  BY StartIs DEF TcpInv, TcpInvOf, TcpTypes, ConnType, HandleType, PeerType
<1>2. \A k \in 1..(N + 1) : Start[k] \in Nat /\ Start[k] >= 1
  BY StartGrows
<1>3. \A k \in 1..N : SegLen[k] \in Nat /\ Start[k + 1] = Start[k] + SegLen[k]
  BY StartIs
<1>4. peer.sent + 1 \in 1..(N + 1) /\ \A k \in 1..peer.sent : k \in 1..N /\ k \in 1..(N + 1)
  BY <1>1
<1>5. hi = Start[peer.sent + 1] - 1 /\ hi \in Nat /\ hi + 1 = Start[peer.sent + 1]
  BY <1>2, <1>4 DEF hi
<1>6. CASE peer.syn # {} /\ s = [fl |-> peer.syn, seq |-> 0, len |-> 0]
  <2>1. s.fl = peer.syn /\ s.seq = 0 /\ s.len = 0
    BY <1>6
  <2>2. FIN \notin s.fl
    BY <1>1, <2>1 DEF SYN, ACK, RST, FIN
  <2> QED BY <2>1, <2>2 DEF SegOK
<1>7. ASSUME NEW k \in 1..(peer.sent + 1), s = [fl |-> {ACK}, seq |-> Start[k], len |-> 0] PROVE SegOK(s)
  <2>1. k \in 1..(N + 1)
    BY <1>1
  <2>2. s.fl = {ACK} /\ s.seq = Start[k] /\ s.len = 0
    BY <1>7
  <2> QED BY <1>2, <2>1, <2>2 DEF SegOK, SYN, ACK, FIN
<1>8. ASSUME NEW k \in 1..peer.sent, s = [fl |-> {ACK}, seq |-> Start[k], len |-> SegLen[k]] PROVE SegOK(s)
  <2>1. s.fl = {ACK} /\ s.seq = Start[k] /\ s.len = SegLen[k]
    BY <1>8
  <2> QED BY <1>2, <1>3, <1>4, <2>1 DEF SegOK, SYN, ACK, FIN
<1>9. ASSUME NEW k \in {peer.sent, peer.sent + 1} \ {0}, s = [fl |-> {FIN, ACK}, seq |-> Start[k], len |-> hi + 1 - Start[k]]
      PROVE  SegOK(s)
  <2>a. PICK m : m = hi + 1 - Start[k]
    OBVIOUS
  <2>b. s = [fl |-> {FIN, ACK}, seq |-> Start[k], len |-> m]
    BY <1>9, <2>a
  <2>0. s.fl = {FIN, ACK} /\ s.seq = Start[k] /\ s.len = m
    BY <2>b
  <2>1. s.fl = {FIN, ACK} /\ s.seq = Start[k] /\ s.len = Start[peer.sent + 1] - Start[k]
    <3>1. Start[k] \in Nat /\ Start[peer.sent + 1] \in Nat
      BY <1>1, <1>2
    <3>2. m = Start[peer.sent + 1] - Start[k]
      BY <1>5, <2>a, <3>1
    <3> QED BY <2>0, <3>2
  <2>2. SYN \notin s.fl /\ ACK \in s.fl
    BY <2>1 DEF SYN, ACK, FIN
  <2>3. CASE k = peer.sent + 1
    <3>1. s.len = 0 /\ s.seq \in Nat
      BY <1>2, <1>4, <2>1, <2>3
    <3> QED BY <2>2, <3>1 DEF SegOK
  <2>4. CASE k = peer.sent
    <3>1. k \in 1..peer.sent
      BY <1>1, <2>4
    <3>2. s.len = SegLen[k] /\ s.len \in Nat /\ s.seq \in Nat
      BY <1>2, <1>3, <1>4, <2>1, <2>4, <3>1
    <3> QED BY <2>1, <2>2, <3>1, <3>2 DEF SegOK
  <2> QED BY <2>3, <2>4
<1>10. CASE s = [fl |-> {ACK}, seq |-> hi + 2, len |-> 0]
  <2>1. s.fl = {ACK} /\ s.seq = hi + 2 /\ s.len = 0
    BY <1>10
  <2> QED BY <1>5, <2>1 DEF SegOK, SYN, ACK, FIN
<1> QED BY <1>6, <1>7, <1>8, <1>9, <1>10 DEF Segments

-----------------------------------------------------------------------------
(* The operations of the client. *)

LEMMA PartsOf ==
    ASSUME TcpInv
    PROVE  /\ c.rx \in Seq(Nat) /\ Len(c.rx) \in Nat /\ Len(c.rx) < Cap /\ got \in Seq(Nat) /\ Len(got) \in Nat
           /\ c.lack \in Nat /\ edge \in Nat /\ h.cap \in Nat /\ Cap \in Nat /\ peer.sent \in 0..N /\ N \in Nat
           /\ Start[peer.sent + 1] \in Nat /\ Start[peer.sent + 1] >= 1
           /\ c.state \in States /\ bad = FALSE
           /\ TcpTypes(c, h, peer, edge) /\ Life(c, h) /\ Stream(got, c.rx) /\ Flow(c, peer, edge, got)
<1>1. TcpTypes(c, h, peer, edge) /\ Life(c, h) /\ Stream(got, c.rx) /\ Flow(c, peer, edge, got) /\ bad = FALSE
  BY DEF TcpInv, TcpInvOf
<1>2. c.rx \in Seq(Nat) /\ got \in Seq(Nat)
  BY <1>1 DEF Stream
<1>3. Len(c.rx) < Cap
  BY <1>1 DEF Flow
<1>4. Cap \in Nat /\ ReadCaps \subseteq Nat /\ N \in Nat
  BY TcpAssumption, StartIs
<1>5. c.lack \in Nat /\ edge \in Nat /\ h.cap \in ReadCaps \cup {0} /\ peer.sent \in 0..N /\ c.state \in States
  BY <1>1 DEF TcpTypes, ConnType, HandleType, PeerType
<1>6. peer.sent + 1 \in 1..(N + 1)
  BY <1>4, <1>5
<1>7. Len(c.rx) \in Nat /\ Len(got) \in Nat
  BY <1>2
<1>8. h.cap \in Nat
  <2>1. \A v \in ReadCaps \cup {0} : v \in Nat
    BY <1>4
  <2> QED BY <1>5, <2>1
<1>9. Start[peer.sent + 1] \in Nat /\ Start[peer.sent + 1] >= 1
  BY <1>6, StartGrows
<1> QED BY <1>1, <1>2, <1>3, <1>4, <1>5, <1>7, <1>8, <1>9

LEMMA FreshIs ==
    ASSUME NEW s
    PROVE  Fresh(s).state = s /\ Fresh(s).lack = 0 /\ Fresh(s).lseq = 0 /\ Fresh(s).uclosed = FALSE /\ Fresh(s).cb = TRUE /\ Fresh(s).rx = <<>>
BY DEF Fresh

LEMMA EmptyStream == Stream(<<>>, <<>>) /\ Len(<<>>) = 0
<1>1. <<>> \in Seq(Nat) /\ Len(<<>>) = 0
  OBVIOUS
<1>2. 1..0 = {}
  OBVIOUS
<1> QED BY <1>1, <1>2 DEF Stream

LEMMA OpenListenKeeps ==
    ASSUME TcpInv, OpenListen
    PROVE  TcpInv'
<1>1. c.state = "NONE" /\ h.state = "none" /\ c' = Fresh("LISTEN") /\ h' = Opening
      /\ peer' = peer /\ edge' = edge /\ got' = got /\ bad' = bad
  BY DEF OpenListen
<1>2. got = <<>> /\ c.rx = <<>>
  BY PartsOf, <1>1 DEF Flow
<1>3. TcpTypes(c', h', peer', edge')
  <2>1. c' \in ConnType
    BY <1>1, EmptyStream, TcpAssumption DEF Fresh, States, Stream, ConnType
  <2>2. h' \in HandleType
    BY <1>1, PartsOf DEF Opening, TcpTypes, ConnType, HandleType, PeerType
  <2> QED BY <1>1, <2>1, <2>2, PartsOf DEF TcpTypes, ConnType, HandleType, PeerType
<1>4. Life(c', h')
  <2>1. h'.state = "opening" /\ h'.req = "open" /\ h'.dead = h.dead /\ ~h.dead
    BY <1>1, PartsOf DEF Opening, Life, TcpTypes, ConnType, HandleType, PeerType
  <2> QED BY <1>1, <2>1, FreshIs DEF Life
<1>5. Stream(got', c'.rx)
  BY <1>1, <1>2, EmptyStream, FreshIs
<1>6. Flow(c', peer', edge', got')
  <2>1. c'.state = "LISTEN" /\ c'.lack = 0 /\ c'.rx = <<>>
    BY <1>1, FreshIs
  <2>2. Flow(c, peer, edge, got)
    BY PartsOf
  <2> QED BY <1>1, <1>2, <2>1, <2>2, PartsOf, EmptyStream DEF Flow, Connected
<1> QED BY <1>1, <1>3, <1>4, <1>5, <1>6, PartsOf DEF TcpInv, TcpInvOf

LEMMA OpenConnectKeeps ==
    ASSUME TcpInv, NEW arp \in BOOLEAN, OpenConnect(arp)
    PROVE  TcpInv'
<1>1. c.state = "NONE" /\ h.state = "none" /\ peer' = peer /\ got' = got /\ bad' = bad
  BY DEF OpenConnect
<1>2. got = <<>> /\ c.rx = <<>>
  BY PartsOf, <1>1 DEF Flow
<1>3. ~h.dead /\ h \in HandleType
  BY <1>1, PartsOf DEF Life, TcpTypes, ConnType, HandleType, PeerType
<1>4. CASE arp
  <2>1. c' = [Fresh("SYN_SENT") EXCEPT !.lseq = 1] /\ h' = Opening /\ tcpc_sendraw(Fresh("SYN_SENT"), {SYN})
    BY <1>4 DEF OpenConnect
  <2>2. edge' = edge
    <3>1. ACK \notin {SYN}
      BY DEF ACK, SYN
    <3> QED BY <2>1, <3>1 DEF tcpc_sendraw
  <2>3. c' = [state |-> "SYN_SENT", lack |-> 0, lseq |-> 1, uclosed |-> FALSE, cb |-> TRUE, rx |-> <<>>]
    BY <2>1 DEF Fresh
  <2>4. TcpTypes(c', h', peer', edge')
    <3>1. c' \in ConnType
      BY <2>3, TcpAssumption DEF States, ConnType
    <3>2. h' \in HandleType
      BY <1>3, <2>1 DEF Opening, HandleType
    <3> QED BY <1>1, <2>2, <3>1, <3>2, PartsOf DEF TcpTypes, ConnType, HandleType, PeerType
  <2>5. Life(c', h')
    <3>1. h'.state = "opening" /\ h'.req = "open" /\ ~h'.dead
      BY <1>3, <2>1 DEF Opening
    <3> QED BY <2>3, <3>1 DEF Life
  <2>6. Stream(got', c'.rx)
    BY <1>1, <1>2, <2>3, EmptyStream
  <2>7. Flow(c', peer', edge', got')
    <3>1. c'.state = "SYN_SENT" /\ c'.lack = 0 /\ c'.rx = <<>>
      BY <2>3
    <3>2. Flow(c, peer, edge, got)
      BY PartsOf
    <3> QED BY <1>1, <1>2, <2>2, <3>1, <3>2, PartsOf, EmptyStream DEF Flow, Connected
  <2> QED BY <1>1, <2>4, <2>5, <2>6, <2>7, PartsOf DEF TcpInv, TcpInvOf
<1>5. CASE ~arp
  <2>1. h' = [tcp_close_callback(h) EXCEPT !.state = "failed"] /\ c' = c /\ edge' = edge
    BY <1>5 DEF OpenConnect
  <2>2. h'.state = "failed" /\ h'.req = "none" /\ h' \in HandleType
    BY <1>3, <2>1 DEF tcp_close_callback, HandleType
  <2>3. TcpTypes(c', h', peer', edge')
    BY <1>1, <2>1, <2>2, PartsOf DEF TcpTypes, ConnType, HandleType, PeerType
  <2>4. Life(c', h')
    <3>1. Life(c, h)
      BY PartsOf
    <3>2. c.state = "NONE" => ~c.uclosed
      BY <3>1 DEF Life
    <3> QED BY <1>1, <2>1, <2>2, <3>2 DEF Life
  <2> QED BY <1>1, <2>1, <2>3, <2>4, PartsOf DEF TcpInv, TcpInvOf
<1> QED BY <1>4, <1>5

LEMMA ReadKeeps ==
    ASSUME TcpInv, TcpCareful, NEW cap \in ReadCaps, Read(cap)
    PROVE  TcpInv'
<1>1. h.state = "open" /\ peer' = peer /\ edge' = edge /\ out' = out /\ bad' = bad
  BY DEF Read
<1>2. CASE h.dead \/ h.req # "none"
  <2>1. c' = c /\ h' = h /\ got' = got
    BY <1>2 DEF Read
  <2> QED BY <1>1, <2>1 DEF TcpInv
<1>3. CASE ~(h.dead \/ h.req # "none")
  <2>1. PICK g : g = [h EXCEPT !.req = "read", !.cap = cap]
    OBVIOUS
  <2>2. PICK n : n = served(c, g)
    OBVIOUS
  <2>3. got' = got \o SubSeq(c.rx, 1, n) /\ c' = take(c, n) /\ h' = answered(g, n)
    BY <1>3, <2>1, <2>2 DEF Read
  <2>4. /\ c \in ConnType
        /\ h \in HandleType
    BY PartsOf DEF TcpTypes, ConnType, HandleType, PeerType
  <2>5. g \in HandleType
        /\ g.req = "read" /\ g.cap = cap /\ g.state = "open" /\ g.dead = h.dead
    BY <1>1, <2>1, <2>4 DEF HandleType
  <2>6. cap \in Nat /\ cap # 0 /\ c.rx \in Seq(Nat)
    BY TcpAssumption, PartsOf DEF TcpCareful
  <2>7. n \in 0..Len(c.rx) /\ (n = 0 => Len(c.rx) = 0)
    BY <2>2, <2>5, <2>6, ServedIs
  <2>8. PICK r : r = SubSeq(c.rx, n + 1, Len(c.rx))
    OBVIOUS
  <2>9. c' = [c EXCEPT !.rx = r]
    BY <2>3, <2>8 DEF take
  <2>10. Stream(got', r) /\ Len(got') = Len(got) + n /\ Len(r) = Len(c.rx) - n
    BY <2>3, <2>7, <2>8, StreamTaken, PartsOf
  <2>11. r \in Seq(Nat) /\ (n = 0 => r = <<>>)
    <3>1. r \in Seq(Nat)
      BY <2>10 DEF Stream
    <3>2. n = 0 => Len(r) = 0
      BY <2>7, <2>10
    <3> QED BY <3>1, <3>2, EmptySeq
  <2>12. /\ c'.state = c.state /\ c'.lack = c.lack /\ c'.uclosed = c.uclosed /\ c'.cb = c.cb /\ c'.rx = r
         /\ c' \in ConnType
    BY <2>4, <2>9, <2>11 DEF ConnType
  <2>13. h' = IF n > 0 THEN [g EXCEPT !.req = "none", !.cap = 0] ELSE g
    BY <2>3 DEF answered
  <2>14. /\ h' \in HandleType
         /\ h'.state = "open" /\ h'.dead = h.dead /\ h'.req = (IF n > 0 THEN "none" ELSE "read")
         /\ h'.cap = IF n > 0 THEN 0 ELSE cap
    BY <2>5, <2>13 DEF HandleType
  <2>15. TcpTypes(c', h', peer', edge')
    BY <1>1, <2>12, <2>14, PartsOf DEF TcpTypes, ConnType, HandleType, PeerType
  <2>16. Life(c', h')
    <3>1. Life(c, h) /\ n \in Nat /\ c.state \in States
      BY <2>7, PartsOf
    <3>2. c.state \in {"SYN_RCVD", "ESTABILISHED"} /\ c.cb /\ ~c.uclosed
      BY <1>1, <1>3, <3>1 DEF Life, States
    <3>3. h'.req = "read" => c'.rx = <<>> /\ h'.cap # 0
      BY <2>6, <2>11, <2>12, <2>14, <3>1
    <3> QED BY <1>3, <2>12, <2>14, <3>2, <3>3 DEF Life
  <2>17. Flow(c', peer', edge', got')
    <3>1. Flow(c, peer, edge, got) /\ Life(c, h)
      BY PartsOf
    <3>3. edge <= Len(got) + Cap + 1
      BY <3>1 DEF Flow
    <3>4. Len(got) + Len(c.rx) = Len(got') + Len(r) /\ Len(r) < Cap /\ edge <= Len(got') + Cap + 1
      <4>1. Len(got) \in Nat /\ Len(c.rx) \in Nat /\ Cap \in Nat /\ edge \in Nat /\ Len(c.rx) < Cap
        BY PartsOf
      <4>2. n \in Nat /\ n <= Len(c.rx) /\ Len(got') = Len(got) + n /\ Len(r) = Len(c.rx) - n
        BY <2>7, <2>10, <4>1
      <4>5. \A a, b, k \in Nat : k <= b => a + b = (a + k) + (b - k)
        OBVIOUS
      <4>6. \A b, k \in Nat : k <= b /\ b < Cap => b - k < Cap
        BY <4>1
      <4>7. \A a, k \in Nat : edge <= a + Cap + 1 => edge <= (a + k) + Cap + 1
        BY <4>1
      <4>3. Len(got) + Len(c.rx) = (Len(got) + n) + (Len(c.rx) - n) /\ Len(c.rx) - n < Cap /\ edge <= (Len(got) + n) + Cap + 1
        BY <3>3, <4>1, <4>2, <4>5, <4>6, <4>7
      <4>4. Len(got') \in Nat /\ Len(r) \in Nat
        BY <4>1, <4>2
      <4> QED BY <4>2, <4>3
    <3>2. c.state \notin {"NONE", "LISTEN", "SYN_SENT"}
      BY <1>1, <3>1 DEF Life
    <3> QED BY <1>1, <2>12, <3>1, <3>2, <3>4 DEF Flow
  <2> QED BY <1>1, <2>10, <2>12, <2>15, <2>16, <2>17, PartsOf DEF TcpInv, TcpInvOf
<1> QED BY <1>2, <1>3

\* What is sent while the ring holds c.rx announces no more than there is room
\* for.
LEMMA SendKeeps ==
    ASSUME TcpInv, c.state \in Connected, NEW x, NEW flags, x.lack = c.lack, x.rx = c.rx, tcpc_sendraw(x, flags)
    PROVE  edge' \in Nat /\ edge <= edge' /\ edge' <= Len(got) + Cap + 1
<1>1. Len(got) \in Nat /\ Len(c.rx) \in Nat /\ Cap \in Nat /\ edge \in Nat /\ Len(c.rx) < Cap /\ c.lack \in Nat
  BY PartsOf
<1>2. c.lack = Len(got) + Len(c.rx) + 1 /\ edge <= Len(got) + Cap + 1
  BY PartsOf DEF Flow
<1>3. PICK m : m = Len(got) + Cap + 1
  OBVIOUS
<1>4. \A a, b, k \in Nat : k = a + b + 1 => k + (Cap - b) = a + Cap + 1
  BY <1>1
<1>5. c.lack + (Cap - Len(c.rx)) <= m /\ m \in Nat
  <2>1. m \in Nat
    BY <1>1, <1>3
  <2>2. c.lack + (Cap - Len(c.rx)) = m
    BY <1>1, <1>2, <1>3, <1>4
  <2>3. m <= m
    BY <2>1
  <2> QED BY <2>1, <2>2, <2>3
<1>6. edge <= m
  BY <1>2, <1>3
<1> QED BY <1>1, <1>3, <1>5, <1>6, SentIs

\* A larger edge, as far as there is room.
LEMMA FlowEdge ==
    ASSUME NEW x, NEW p, NEW e \in Nat, NEW w, NEW d \in Nat, Flow(x, p, e, w), e <= d, d <= Len(w) + Cap + 1,
           p.sent \in 0..N
    PROVE  Flow(x, p, d, w)
<1>1. p.sent > 0 => Start[p.sent + 1] - 1 + Slack < e
  BY DEF Flow
<1>2. Start[p.sent + 1] \in Nat /\ Slack \in Nat
  <2>1. N \in Nat
    BY StartIs
  <2>2. p.sent + 1 \in 1..(N + 1)
    BY <2>1
  <2> QED BY <2>2, StartGrows, TcpAssumption
<1>3. p.sent > 0 => Start[p.sent + 1] - 1 + Slack < d
  BY <1>1, <1>2
<1> QED BY <1>3 DEF Flow

LEMMA WriteKeeps ==
    ASSUME TcpInv, Write
    PROVE  TcpInv'
<1>1. h.state = "open" /\ c.lseq <= MaxWrites /\ h' = h /\ peer' = peer /\ got' = got /\ bad' = bad
  BY DEF Write
<1>2. CASE h.dead
  <2>1. c' = c /\ edge' = edge
    BY <1>2 DEF Write
  <2> QED BY <1>1, <2>1 DEF TcpInv
<1>3. CASE ~h.dead
  <2>1. tcpc_sendraw(c, {ACK}) /\ c' = [c EXCEPT !.lseq = @ + 1]
    BY <1>3 DEF Write
  <2>2. c \in ConnType /\ MaxWrites \in Nat
    BY PartsOf, TcpAssumption DEF TcpTypes
  <2>3. c' \in ConnType /\ c'.state = c.state /\ c'.lack = c.lack /\ c'.uclosed = c.uclosed /\ c'.cb = c.cb /\ c'.rx = c.rx
    BY <1>1, <2>1, <2>2 DEF ConnType
  <2>4. c.state \in Connected
    BY <1>1, <1>3, PartsOf DEF Life, States, Connected
  <2>5. edge' \in Nat /\ edge <= edge' /\ edge' <= Len(got) + Cap + 1
    BY <2>1, <2>4, SendKeeps
  <2>6. TcpTypes(c', h', peer', edge')
    BY <1>1, <2>3, <2>5, PartsOf DEF TcpTypes
  <2>7. Life(c', h')
    BY <1>1, <2>3, PartsOf DEF Life
  <2>8. Flow(c', peer', edge', got')
    <3>1. Flow(c, peer, edge', got)
      BY <2>5, FlowEdge, PartsOf
    <3> QED BY <1>1, <2>3, <3>1 DEF Flow
  <2> QED BY <1>1, <2>3, <2>6, <2>7, <2>8, PartsOf DEF TcpInv, TcpInvOf
<1> QED BY <1>2, <1>3

\* A connection that nobody uses, with what is left of the ring.
LEMMA GoneStream ==
    ASSUME NEW w, NEW r, Stream(w, r)
    PROVE  Stream(w, <<>>)
<1>1. <<>> \in Seq(Nat) /\ 1..Len(<<>>) = {}
  OBVIOUS
<1> QED BY <1>1 DEF Stream

\* tcpc_tryfree, of a connection whose handle is g.
LEMMA TryFreeKeeps ==
    ASSUME TcpInv, NEW x \in ConnType, x.lack = c.lack, x.rx = c.rx, x.state \in {"LAST_ACK", "CLOSED"},
           NEW g \in HandleType, g.req = "none",
           IF x.uclosed THEN g.state = "freed" ELSE g.state = "open" /\ g.dead,
           x.state = "LAST_ACK" => c.state \in Connected,
           c.state \notin {"NONE", "LISTEN", "SYN_SENT"}
    PROVE  /\ tryfreed(x) \in ConnType /\ Life(tryfreed(x), g) /\ Stream(got, tryfreed(x).rx)
           /\ Flow(tryfreed(x), peer, edge, got)
<1>1. Stream(got, c.rx) /\ Flow(c, peer, edge, got) /\ Len(c.rx) \in Nat /\ Len(got) \in Nat /\ Cap \in Nat
      /\ Cap > 0 /\ Start[peer.sent + 1] \in Nat
  BY PartsOf, TcpAssumption
<1>2. CASE x.state = "CLOSED" /\ x.uclosed
  <2>1. tryfreed(x) = [x EXCEPT !.state = "FREED", !.rx = <<>>]
    BY <1>2 DEF tryfreed
  <2>2. PICK y : y = tryfreed(x)
    OBVIOUS
  <2>3. y \in ConnType /\ y.state = "FREED" /\ y.rx = <<>> /\ y.lack = c.lack /\ y.uclosed = x.uclosed
    <3>1. <<>> \in Seq(Nat)
      OBVIOUS
    <3>2. y = [x EXCEPT !.state = "FREED", !.rx = <<>>]
      BY <2>1, <2>2
    <3> QED BY <3>1, <3>2 DEF ConnType, States
  <2>4. Life(y, g)
    BY <1>2, <2>3 DEF Life
  <2>5. Flow(y, peer, edge, got)
    <3>1. c.lack <= Start[peer.sent + 1] /\ Len(got) + Len(c.rx) < Start[peer.sent + 1] /\ edge <= Len(got) + Cap + 1
          /\ (peer.sent > 0 => Start[peer.sent + 1] - 1 + Slack < edge)
      BY <1>1 DEF Flow
    <3>2. Len(y.rx) = 0
      BY <2>3
    <3>3. Len(got) + Len(y.rx) < Start[peer.sent + 1] /\ Len(y.rx) < Cap
      BY <1>1, <3>1, <3>2
    <3>4. y.state \notin Connected /\ y.state \notin {"NONE", "LISTEN", "SYN_SENT"}
      BY <2>3 DEF Connected
    <3> QED BY <2>3, <3>1, <3>3, <3>4 DEF Flow
  <2> QED BY <1>1, <2>2, <2>3, <2>4, <2>5, GoneStream
<1>3. CASE ~(x.state = "CLOSED" /\ x.uclosed)
  <2>1. tryfreed(x) = x
    BY <1>3 DEF tryfreed
  <2>2. Life(x, g)
    BY <1>3 DEF Life
  <2>3. Flow(x, peer, edge, got)
    BY <1>1 DEF Flow, Connected
  <2> QED BY <1>1, <2>1, <2>2, <2>3
<1> QED BY <1>2, <1>3

LEMMA CloseKeeps ==
    ASSUME TcpInv, Close
    PROVE  TcpInv'
<1>1. PICK x : x = [c EXCEPT !.uclosed = TRUE]
  OBVIOUS
<1>2. PICK y : y = IF c.state \notin {"CLOSED", "LAST_ACK", "LISTEN"} THEN [x EXCEPT !.state = "LAST_ACK", !.cb = FALSE] ELSE x
  OBVIOUS
<1>3. /\ h.state = "open" /\ c' = tryfreed(y) /\ h' = [NoHandle EXCEPT !.state = "freed"]
      /\ peer' = peer /\ got' = got /\ bad' = bad
  BY <1>1, <1>2 DEF Close
<1>4. IF c.state \notin {"CLOSED", "LAST_ACK", "LISTEN"} THEN tcpc_sendraw(x, {FIN, ACK}) ELSE edge' = edge
  BY <1>1 DEF Close
<1>5. c \in ConnType
  BY PartsOf DEF TcpTypes
<1>6. x \in ConnType /\ x.state = c.state /\ x.lack = c.lack /\ x.rx = c.rx /\ x.uclosed
  BY <1>1, <1>5 DEF ConnType
<1>7. c.state \in Connected \cup {"CLOSED"}
  BY <1>3, PartsOf DEF Life, Connected, States
<1>8. y \in ConnType /\ y.state \in {"LAST_ACK", "CLOSED"} /\ y.lack = c.lack /\ y.rx = c.rx /\ y.uclosed
      /\ (y.state = "LAST_ACK" => c.state \in Connected)
  BY <1>2, <1>6, <1>7 DEF ConnType, Connected, States
<1>9. h' \in HandleType /\ h'.req = "none" /\ h'.state = "freed"
  BY <1>3 DEF NoHandle, HandleType
<1>10. /\ c' \in ConnType /\ Life(c', h') /\ Stream(got, c'.rx) /\ Flow(c', peer, edge, got)
  <2>1. c.state \notin {"NONE", "LISTEN", "SYN_SENT"}
    BY <1>7 DEF Connected
  <2> QED BY <1>3, <1>8, <1>9, <2>1, TryFreeKeeps
<1>11. edge' \in Nat /\ edge <= edge' /\ edge' <= Len(got) + Cap + 1
  <2>1. CASE c.state \in {"CLOSED", "LAST_ACK", "LISTEN"}
    <3>1. edge <= Len(got) + Cap + 1
      BY PartsOf DEF Flow
    <3> QED BY <1>4, <2>1, <3>1, PartsOf
  <2>2. CASE c.state \notin {"CLOSED", "LAST_ACK", "LISTEN"}
    <3>1. c.state \in Connected
      BY <1>7, <2>2
    <3> QED BY <1>4, <1>6, <2>2, <3>1, SendKeeps
  <2> QED BY <2>1, <2>2
<1>12. Flow(c', peer, edge', got)
  BY <1>10, <1>11, FlowEdge, PartsOf
<1> QED BY <1>3, <1>9, <1>10, <1>11, <1>12, PartsOf DEF TcpInv, TcpInvOf, TcpTypes

-----------------------------------------------------------------------------
(* tcp_parse. *)

\* The connection is there: x is what it becomes, z what is sent for it.
LEMMA ConnectKeeps ==
    ASSUME TcpInv, c.state \in {"LISTEN", "SYN_SENT"}, c' \in ConnType, c'.state \in {"SYN_RCVD", "ESTABILISHED"},
           c'.lack = 1, c'.rx = c.rx, c'.cb = c.cb, c'.uclosed = c.uclosed,
           NEW z, NEW flags, z.lack = 1, z.rx = c.rx, tcpc_sendraw(z, flags),
           h' = tcp_conn_callback(h), peer' = peer, got' = got, bad' = bad
    PROVE  TcpInv'
<1>1. got = <<>> /\ c.rx = <<>> /\ edge <= Len(got) + Cap + 1
  BY PartsOf DEF Flow
<1>2. Len(got) = 0 /\ Len(c.rx) = 0
  BY <1>1
<1>3. edge \in Nat /\ Cap \in Nat /\ Cap > 0 /\ Start[peer.sent + 1] \in Nat /\ Start[peer.sent + 1] >= 1 /\ peer.sent \in 0..N /\ N \in Nat
  BY PartsOf, TcpAssumption
<1>4. edge' \in Nat /\ edge <= edge' /\ edge' <= Cap + 1
  <2>0. PICK m \in Nat : m = Cap + 1
    BY <1>3
  <2>1. edge <= m
    BY <1>1, <1>2, <1>3, <2>0
  <2>2. Len(z.rx) = 0 /\ z.lack = 1
    BY <1>2
  <2>3. z.lack \in Nat /\ Len(z.rx) \in Nat /\ Len(z.rx) < Cap /\ z.lack + (Cap - Len(z.rx)) <= m
    BY <1>3, <2>0, <2>2
  <2>4. edge' \in Nat /\ edge <= edge' /\ edge' <= m
    BY <1>3, <2>1, <2>3, SentIs
  <2> QED BY <2>0, <2>4
<1>5. h \in HandleType /\ h.state = "opening" /\ ~h.dead /\ c.cb /\ ~c.uclosed
  BY PartsOf DEF Life, TcpTypes
<1>6. h' \in HandleType /\ h'.state = "open" /\ h'.req = "none" /\ ~h'.dead
  BY <1>5 DEF tcp_conn_callback, HandleType
<1>7. Life(c', h')
  BY <1>5, <1>6 DEF Life
<1>8. Flow(c', peer, edge', got)
  <2>1. c'.lack = Len(got) + Len(c'.rx) + 1 /\ c'.lack <= Start[peer.sent + 1] /\ Len(got) + Len(c'.rx) < Start[peer.sent + 1]
        /\ Len(c'.rx) < Cap /\ edge' <= Len(got) + Cap + 1
    BY <1>2, <1>3, <1>4
  <2>2. \E k \in 1..(peer.sent + 1) : c'.lack = Start[k]
    <3>1. 1 \in 1..(peer.sent + 1) /\ Start[1] = 1
      BY <1>3, StartIs
    <3> QED BY <3>1
  <2>4. peer.sent > 0 => Start[peer.sent + 1] - 1 + Slack < edge'
    <3>1. peer.sent > 0 => Start[peer.sent + 1] - 1 + Slack < edge
      BY PartsOf DEF Flow
    <3> QED BY <1>3, <1>4, <3>1, TcpAssumption
  <2> QED BY <2>1, <2>2, <2>4 DEF Flow
<1> QED BY <1>4, <1>6, <1>7, <1>8, PartsOf DEF TcpInv, TcpInvOf, TcpTypes

LEMMA ParseListenKeeps ==
    ASSUME TcpInv, NEW s, SegOK(s), ParseListen(s)
    PROVE  TcpInv'
<1>1. PICK x : x = [c EXCEPT !.state = "SYN_RCVD", !.lack = s.seq + 1]
  OBVIOUS
<1>2. /\ c.state = "LISTEN" /\ s.fl = {SYN} /\ tcpc_sendraw(x, {SYN, ACK}) /\ c' = [x EXCEPT !.lseq = 1]
      /\ h' = tcp_conn_callback(h) /\ peer' = peer /\ got' = got /\ bad' = bad
  BY <1>1 DEF ParseListen
<1>3. s.seq = 0
  BY <1>2 DEF SegOK
<1>4. c \in ConnType /\ MaxWrites \in Nat
  BY PartsOf, TcpAssumption DEF TcpTypes
<1>5. x \in ConnType /\ x.state = "SYN_RCVD" /\ x.lack = 1 /\ x.rx = c.rx /\ x.cb = c.cb /\ x.uclosed = c.uclosed
  <2>1. x = [c EXCEPT !.state = "SYN_RCVD", !.lack = 1]
    BY <1>1, <1>3
  <2> QED BY <1>4, <2>1 DEF ConnType, States
<1>6. c' \in ConnType /\ c'.state = "SYN_RCVD" /\ c'.lack = 1 /\ c'.rx = c.rx /\ c'.cb = c.cb /\ c'.uclosed = c.uclosed
  BY <1>2, <1>4, <1>5 DEF ConnType
<1> QED BY <1>2, <1>5, <1>6, ConnectKeeps

LEMMA ParseSynSentKeeps ==
    ASSUME TcpInv, NEW s, SegOK(s), ParseSynSent(s)
    PROVE  TcpInv'
<1>1. PICK x : x = [c EXCEPT !.state = "ESTABILISHED", !.lack = s.seq + 1]
  OBVIOUS
<1>2. c.state = "SYN_SENT" /\ peer' = peer /\ got' = got /\ bad' = bad
  BY DEF ParseSynSent
<1>3. CASE SYN \in s.fl
  <2>1. c' = x /\ tcpc_sendraw(x, {ACK}) /\ h' = tcp_conn_callback(h)
    BY <1>1, <1>3 DEF ParseSynSent
  <2>2. s.seq = 0
    BY <1>3 DEF SegOK
  <2>3. c \in ConnType
    BY PartsOf DEF TcpTypes
  <2>4. x \in ConnType /\ x.state = "ESTABILISHED" /\ x.lack = 1 /\ x.rx = c.rx /\ x.cb = c.cb /\ x.uclosed = c.uclosed
    <3>1. x = [c EXCEPT !.state = "ESTABILISHED", !.lack = 1]
      BY <1>1, <2>2
    <3> QED BY <2>3, <3>1 DEF ConnType, States
  <2> QED BY <1>2, <2>1, <2>4, ConnectKeeps
<1>4. CASE SYN \notin s.fl
  <2>1. c' = c /\ h' = h /\ edge' = edge
    BY <1>4 DEF ParseSynSent
  <2> QED BY <1>2, <2>1 DEF TcpInv
<1> QED BY <1>3, <1>4

LEMMA ParseLastAckKeeps ==
    ASSUME TcpInv, NEW s, ParseLastAck(s)
    PROVE  TcpInv'
<1>1. PICK x : x = [c EXCEPT !.state = "CLOSED"]
  OBVIOUS
<1>2. /\ c.state = "LAST_ACK" /\ c' = tryfreed(x)
      /\ h' = h /\ peer' = peer /\ edge' = edge /\ got' = got /\ bad' = bad
  BY <1>1 DEF ParseLastAck, closing
<1>3. c \in ConnType /\ h \in HandleType
  BY PartsOf DEF TcpTypes
<1>4. x \in ConnType /\ x.state = "CLOSED" /\ x.lack = c.lack /\ x.rx = c.rx /\ x.uclosed = c.uclosed
  BY <1>1, <1>3 DEF ConnType, States
<1>5. h.req = "none" /\ IF x.uclosed THEN h.state = "freed" ELSE h.state = "open" /\ h.dead
  BY <1>2, <1>4, PartsOf DEF Life
<1>6. c' \in ConnType /\ Life(c', h) /\ Stream(got, c'.rx) /\ Flow(c', peer, edge, got)
  BY <1>2, <1>3, <1>4, <1>5, TryFreeKeeps
<1> QED BY <1>2, <1>6, PartsOf DEF TcpInv, TcpInvOf, TcpTypes

LEMMA ParseJumpKeeps ==
    ASSUME TcpInv, NEW s, ParseJump(s)
    PROVE  TcpInv'
<1>1. c.state \in Connected /\ tcpc_sendraw(c, {ACK}) /\ c' = c /\ h' = h /\ peer' = peer /\ got' = got /\ bad' = bad
  BY DEF ParseJump
<1>2. edge' \in Nat /\ edge <= edge' /\ edge' <= Len(got) + Cap + 1
  BY <1>1, SendKeeps
<1>3. Flow(c, peer, edge', got)
  BY <1>2, FlowEdge, PartsOf
<1> QED BY <1>1, <1>2, <1>3, PartsOf DEF TcpInv, TcpInvOf, TcpTypes

LEMMA ParseNoneKeeps ==
    ASSUME TcpInv, NEW s, ParseNone(s)
    PROVE  TcpInv'
<1>1. c' = c /\ h' = h /\ peer' = peer /\ edge' = edge /\ got' = got /\ bad' = bad
  BY DEF ParseNone
<1> QED BY <1>1 DEF TcpInv

-----------------------------------------------------------------------------
(* The peer. *)

LEMMA PeerSynKeeps ==
    ASSUME TcpInv, PeerSyn
    PROVE  TcpInv'
<1>1. c' = c /\ h' = h /\ edge' = edge /\ got' = got /\ bad' = bad
  BY DEF PeerSyn
<1>2. PICK flags : flags \in {{SYN, ACK}, {RST, ACK}, {SYN}} /\ peer' = [peer EXCEPT !.syn = flags]
  BY DEF PeerSyn
<1>3. peer \in PeerType
  BY PartsOf DEF TcpTypes
<1>4. peer' \in PeerType /\ peer'.sent = peer.sent
  BY <1>2, <1>3 DEF PeerType
<1>5. Flow(c, peer', edge, got)
  BY <1>4, PartsOf DEF Flow
<1> QED BY <1>1, <1>4, <1>5, PartsOf DEF TcpInv, TcpInvOf, TcpTypes

LEMMA PeerFinKeeps ==
    ASSUME TcpInv, PeerFin
    PROVE  TcpInv'
<1>1. c' = c /\ h' = h /\ edge' = edge /\ got' = got /\ bad' = bad /\ peer' = [peer EXCEPT !.fin = TRUE]
  BY DEF PeerFin
<1>3. peer \in PeerType
  BY PartsOf DEF TcpTypes
<1>4. peer' \in PeerType /\ peer'.sent = peer.sent
  BY <1>1, <1>3 DEF PeerType
<1>5. Flow(c, peer', edge, got)
  BY <1>4, PartsOf DEF Flow
<1> QED BY <1>1, <1>4, <1>5, PartsOf DEF TcpInv, TcpInvOf, TcpTypes

LEMMA PeerSendKeeps ==
    ASSUME TcpInv, PeerSend
    PROVE  TcpInv'
<1>1. /\ c' = c /\ h' = h /\ edge' = edge /\ got' = got /\ bad' = bad /\ peer' = [peer EXCEPT !.sent = @ + 1]
      /\ peer.sent < Len(SegLen) /\ Start[peer.sent + 2] - 1 + Slack < edge
  BY DEF PeerSend
<1>2. PICK k : k = peer.sent
  OBVIOUS
<1>3. peer \in PeerType /\ k \in 0..N /\ N \in Nat /\ k < N
  BY <1>1, <1>2, PartsOf DEF TcpTypes, N
<1>4. peer' \in PeerType /\ peer'.sent = k + 1
  BY <1>1, <1>2, <1>3 DEF PeerType
<1>5. k + 1 \in 1..(N + 1) /\ k + 2 \in 1..(N + 1) /\ k + 1 \in 1..(k + 2) /\ k + 1 < k + 2 /\ (k + 1) + 1 = k + 2
  BY <1>3
<1>6. Start[k + 1] \in Nat /\ Start[k + 2] \in Nat /\ Start[k + 1] + 2 <= Start[k + 2]
  BY <1>5, StartGrows
<1>7. Flow(c, peer', edge, got)
  <2>1. c.lack <= Start[k + 1] /\ Len(got) + Len(c.rx) < Start[k + 1] /\ (c.state \in Connected => \E j \in 1..(k + 1) : c.lack = Start[j])
        /\ (c.state \in Connected => c.lack = Len(got) + Len(c.rx) + 1)
        /\ (c.state \in {"NONE", "LISTEN", "SYN_SENT"} => c.lack = 0 /\ got = <<>> /\ c.rx = <<>>)
        /\ Len(c.rx) < Cap /\ edge <= Len(got) + Cap + 1
    BY <1>2, PartsOf DEF Flow
  <2>2. Len(got) + Len(c.rx) \in Nat /\ c.lack \in Nat
    BY PartsOf
  <2>3. c.lack <= Start[k + 2] /\ Len(got) + Len(c.rx) < Start[k + 2]
    BY <1>6, <2>1, <2>2
  <2>4. c.state \in Connected => \E j \in 1..(k + 2) : c.lack = Start[j]
    <3>1. \A j \in 1..(k + 1) : j \in 1..(k + 2)
      BY <1>3
    <3> QED BY <2>1, <3>1
  <2> QED BY <1>1, <1>2, <1>4, <1>5, <2>1, <2>3, <2>4 DEF Flow
<1> QED BY <1>1, <1>4, <1>7, PartsOf DEF TcpInv, TcpInvOf, TcpTypes

\* Of the segments with data, jumped lets the one pass that is due, and the
\* ring has room for it.
LEMMA DueIs ==
    ASSUME TcpInv, TcpCareful, NEW s, SegOK(s), c.state \in Connected, s.len > 0, ~jumped(s)
    PROVE  /\ s.seq = c.lack /\ Len(c.rx) + s.len < Cap
           /\ \E k \in 1..(peer.sent + 1) : s.seq + s.len = Start[k]
           /\ s.seq + s.len <= Start[peer.sent + 1]
<1>1. PICK k \in 1..peer.sent : s.seq = Start[k] /\ s.len = SegLen[k]
  BY DEF SegOK
<1>2. PICK j \in 1..(peer.sent + 1) : c.lack = Start[j]
  BY PartsOf DEF Flow
<1>3. peer.sent \in 0..N /\ N \in Nat
  BY PartsOf
<1>4. /\ k \in 1..(N + 1) /\ j \in 1..(N + 1) /\ k \in 1..N /\ k + 1 \in 1..(peer.sent + 1) /\ k + 1 \in 1..(N + 1)
      /\ peer.sent + 1 \in 1..(N + 1) /\ (k < j => k \in 1..j) /\ (j < k => j \in 1..k)
      /\ (k + 1 < peer.sent + 1 => k + 1 \in 1..(peer.sent + 1))
      /\ (j = k \/ j < k \/ k < j) /\ (k + 1 = peer.sent + 1 \/ k + 1 < peer.sent + 1)
  BY <1>3
<1>5. Start[k] \in Nat /\ Start[j] \in Nat /\ (k < j => Start[k] + 2 <= Start[j]) /\ (j < k => Start[j] + 2 <= Start[k])
  BY <1>4, StartGrows
<1>6. c.lack = s.seq \/ c.lack = s.seq + 1
  BY DEF jumped
<1>7. j = k
  <2>1. Start[j] = Start[k] \/ Start[j] = Start[k] + 1
    BY <1>1, <1>2, <1>6
  <2>2. ~(k < j) /\ ~(j < k)
    BY <1>5, <2>1
  <2> QED BY <1>4, <2>2
<1>8. s.seq = c.lack
  BY <1>1, <1>2, <1>7
<1>9. s.seq + s.len = Start[k + 1]
  BY <1>1, <1>4, StartIs
<1>10. Start[k + 1] \in Nat /\ Start[peer.sent + 1] \in Nat /\ Start[k + 1] <= Start[peer.sent + 1]
  <2>1. Start[k + 1] \in Nat /\ Start[peer.sent + 1] \in Nat
    BY <1>4, StartGrows
  <2>2. CASE k + 1 = peer.sent + 1
    BY <2>1, <2>2
  <2>3. CASE k + 1 < peer.sent + 1
    <3>1. Start[k + 1] + 2 <= Start[peer.sent + 1]
      BY <1>4, <2>3, StartGrows
    <3> QED BY <2>1, <3>1
  <2> QED BY <1>4, <2>2, <2>3
<1>11. Len(c.rx) + s.len < Cap
  <2>1. peer.sent > 0
    BY <1>1, <1>3
  <2>2. Start[peer.sent + 1] - 1 + Slack < edge /\ edge <= Len(got) + Cap + 1 /\ c.lack = Len(got) + Len(c.rx) + 1
    BY <2>1, PartsOf DEF Flow
  <2>3. Slack \in Nat /\ Slack >= 1 /\ Cap \in Nat /\ edge \in Nat /\ Len(got) \in Nat /\ Len(c.rx) \in Nat /\ s.len \in Nat
    BY TcpAssumption, PartsOf DEF TcpCareful, SegOK
  <2>4. PICK t \in Nat : t = Start[peer.sent + 1]
    BY <1>10
  <2>5. t - 1 + Slack < edge
    BY <2>2, <2>4
  <2>6. t < edge
    BY <2>3, <2>5
  <2>7. \A a, b, n \in Nat : edge <= a + Cap + 1 /\ (a + b + 1) + n <= t => b + n < Cap
    BY <2>3, <2>6
  <2>8. (Len(got) + Len(c.rx) + 1) + s.len <= t
    BY <1>8, <1>9, <1>10, <2>2, <2>4
  <2> QED BY <2>2, <2>3, <2>7, <2>8
<1> QED BY <1>4, <1>8, <1>9, <1>10, <1>11

\* The connection after on_recv, and before a FIN is looked at.
Received(x, g, w) ==
    /\ x \in ConnType /\ x.state = c.state /\ x.cb = c.cb /\ x.uclosed = c.uclosed
    /\ g \in HandleType /\ g.state = h.state /\ g.dead = h.dead /\ g.req \in {h.req, "none"}
    /\ g.req = "read" => x.rx = <<>> /\ g.cap # 0
    /\ Stream(w, x.rx) /\ x.lack = Len(w) + Len(x.rx) + 1 /\ Len(w) >= Len(got)
    /\ \E k \in 1..(peer.sent + 1) : x.lack = Start[k]
    /\ x.lack <= Start[peer.sent + 1] /\ Len(w) + Len(x.rx) < Start[peer.sent + 1] /\ Len(x.rx) < Cap

\* The connection x with the segment s in its ring, of which n bytes are read.
Arrived(s, x, n) ==
    /\ x = IF s.len = 0 THEN c
           ELSE [c EXCEPT !.lack = s.seq + s.len, !.rx = ring_put(c, [i \in 1..s.len |-> s.seq + i - 1])]
    /\ n = IF s.len = 0 THEN 0 ELSE served(x, h)

LEMMA ReceiveKeeps ==
    ASSUME TcpInv, TcpCareful, NEW s, SegOK(s), c.state \in Connected, ~jumped(s), NEW x, NEW n, Arrived(s, x, n)
    PROVE  Received(take(x, n), answered(h, n), got \o SubSeq(x.rx, 1, n))
<1>1. s.len \in Nat /\ s.seq \in Nat
  BY DEF SegOK
<1>2. c \in ConnType /\ h \in HandleType /\ Life(c, h) /\ Flow(c, peer, edge, got) /\ Stream(got, c.rx)
      /\ Len(c.rx) \in Nat /\ Len(got) \in Nat /\ Cap \in Nat /\ Start[peer.sent + 1] \in Nat /\ h.cap \in Nat
  BY PartsOf DEF TcpTypes
<1>3. c.lack = Len(got) + Len(c.rx) + 1 /\ (\E k \in 1..(peer.sent + 1) : c.lack = Start[k]) /\ c.lack <= Start[peer.sent + 1]
      /\ Len(got) + Len(c.rx) < Start[peer.sent + 1] /\ Len(c.rx) < Cap
  BY <1>2 DEF Flow
<1>4. /\ x \in ConnType /\ x.state = c.state /\ x.cb = c.cb /\ x.uclosed = c.uclosed
      /\ Stream(got, x.rx) /\ x.lack = Len(got) + Len(x.rx) + 1
      /\ \E k \in 1..(peer.sent + 1) : x.lack = Start[k]
      /\ x.lack <= Start[peer.sent + 1] /\ Len(x.rx) < Cap
  <2>1. CASE s.len = 0
    <3>1. x = c
      BY <2>1 DEF Arrived
    <3> QED BY <1>2, <1>3, <3>1
  <2>2. CASE s.len # 0
    <3>1. s.len > 0
      BY <1>1, <2>2
    <3>2. s.seq = c.lack /\ Len(c.rx) + s.len < Cap /\ (\E k \in 1..(peer.sent + 1) : s.seq + s.len = Start[k])
          /\ s.seq + s.len <= Start[peer.sent + 1]
      BY <3>1, DueIs
    <3>0. PICK a : Bytes(a, s.seq, s.len)
      BY DEF Bytes
    <3>3. PICK r : r = ring_put(c, a)
      OBVIOUS
    <3>4. s.seq = Len(got) + Len(c.rx) + 1
      BY <1>3, <3>2
    <3>5. Stream(got, r) /\ Len(r) = Len(c.rx) + s.len
      <4>1. Stream(got, c.rx) /\ Len(c.rx) + s.len < Cap
        BY <1>2, <3>2
      <4>2. Stream(got, ring_put(c, a)) /\ Len(ring_put(c, a)) = Len(c.rx) + s.len
        BY <1>1, <3>0, <3>4, <4>1, StreamPut
      <4> QED BY <3>3, <4>2
    <3>6. r \in Seq(Nat) /\ s.seq + s.len \in Nat
      BY <1>1, <3>5 DEF Stream
    <3>7. x = [c EXCEPT !.lack = s.seq + s.len, !.rx = r]
      BY <2>2, <3>0, <3>3 DEF Arrived, Bytes
    <3>8. x \in ConnType /\ x.state = c.state /\ x.cb = c.cb /\ x.uclosed = c.uclosed /\ x.lack = s.seq + s.len /\ x.rx = r
      BY <1>2, <3>6, <3>7 DEF ConnType
    <3>9. s.seq + s.len = Len(got) + Len(r) + 1
      <4>1. \A u, v, m \in Nat : (u + v + 1) + m = u + (v + m) + 1
        OBVIOUS
      <4>2. (Len(got) + Len(c.rx) + 1) + s.len = Len(got) + (Len(c.rx) + s.len) + 1
        BY <1>1, <1>2, <4>1
      <4> QED BY <3>4, <3>5, <4>2
    <3>10. Len(r) < Cap
      BY <3>2, <3>5
    <3> QED BY <3>2, <3>5, <3>8, <3>9, <3>10
  <2> QED BY <2>1, <2>2
<1>5. x.rx \in Seq(Nat) /\ Len(x.rx) \in Nat
  BY <1>4 DEF Stream
<1>6. n \in 0..Len(x.rx) /\ (h.req # "read" => n = 0) /\ (h.req = "read" /\ n = 0 => Len(x.rx) = 0)
  <2>1. h.req = "read" => c.rx = <<>> /\ h.cap # 0
    BY <1>2 DEF Life
  <2>2. CASE s.len = 0
    <3>1. n = 0 /\ x = c
      BY <2>2 DEF Arrived
    <3>2. h.req = "read" => Len(x.rx) = 0
      BY <2>1, <3>1
    <3>3. 0 \in 0..Len(x.rx)
      BY <1>5
    <3> QED BY <3>1, <3>2, <3>3
  <2>3. CASE s.len # 0
    <3>1. n = served(x, h)
      BY <2>3 DEF Arrived
    <3> QED BY <1>2, <1>5, <2>1, <3>1, ServedIs
  <2> QED BY <2>2, <2>3
<1>7. PICK w : w = got \o SubSeq(x.rx, 1, n)
  OBVIOUS
<1>8. PICK r : r = SubSeq(x.rx, n + 1, Len(x.rx))
  OBVIOUS
<1>9. Stream(w, r) /\ Len(w) = Len(got) + n /\ Len(r) = Len(x.rx) - n
  BY <1>4, <1>6, <1>7, <1>8, StreamTaken
<1>10. PICK y : y = take(x, n)
  OBVIOUS
<1>11. r \in Seq(Nat)
  BY <1>9 DEF Stream
<1>12. y \in ConnType /\ y.state = c.state /\ y.cb = c.cb /\ y.uclosed = c.uclosed /\ y.lack = x.lack /\ y.rx = r
  <2>1. y = [x EXCEPT !.rx = r]
    BY <1>8, <1>10 DEF take
  <2> QED BY <1>4, <1>11, <2>1 DEF ConnType
<1>13. PICK g : g = answered(h, n)
  OBVIOUS
<1>14. n \in Nat /\ n <= Len(x.rx)
  BY <1>5, <1>6
<1>15. g \in HandleType /\ g.state = h.state /\ g.dead = h.dead /\ g.req \in {h.req, "none"} /\ (g.req = "read" => n = 0 /\ h.req = "read" /\ g.cap = h.cap)
  <2>1. h.req # "read" => n = 0
    BY <1>6
  <2>2. g = IF n > 0 THEN [h EXCEPT !.req = "none", !.cap = 0] ELSE h
    BY <1>13 DEF answered
  <2>3. CASE n > 0
    BY <1>2, <2>2, <2>3 DEF HandleType
  <2>4. CASE ~(n > 0)
    <3>1. n = 0 /\ g = h
      BY <1>14, <2>2, <2>4
    <3> QED BY <1>2, <3>1
  <2> QED BY <2>3, <2>4
<1>16. g.req = "read" => y.rx = <<>> /\ g.cap # 0
  <2> SUFFICES ASSUME g.req = "read" PROVE y.rx = <<>> /\ g.cap # 0
    OBVIOUS
  <2>1. n = 0 /\ h.req = "read" /\ g.cap = h.cap
    BY <1>15
  <2>2. Len(r) = 0
    BY <1>6, <1>9, <2>1
  <2>3. h.cap # 0
    BY <1>2, <2>1 DEF Life
  <2> QED BY <1>11, <1>12, <2>1, <2>2, <2>3, EmptySeq
<1>17. y.lack = Len(w) + Len(r) + 1 /\ Len(w) >= Len(got) /\ Len(w) + Len(r) < Start[peer.sent + 1] /\ Len(r) < Cap
  <2>1. \A a, b, m \in Nat : m <= b => (a + m) + (b - m) = a + b /\ a + m >= a /\ b - m <= b /\ b - m \in Nat
    OBVIOUS
  <2>2. Len(w) + Len(r) = Len(got) + Len(x.rx) /\ Len(w) >= Len(got) /\ Len(r) <= Len(x.rx) /\ Len(r) \in Nat /\ Len(w) \in Nat
    <3>1. (Len(got) + n) + (Len(x.rx) - n) = Len(got) + Len(x.rx) /\ Len(got) + n >= Len(got) /\ Len(x.rx) - n <= Len(x.rx) /\ Len(x.rx) - n \in Nat
      BY <1>2, <1>5, <1>14, <2>1
    <3>2. Len(got) + n \in Nat
      BY <1>2, <1>14
    <3> QED BY <1>9, <3>1, <3>2
  <2>3. \A a, b \in Nat : a + b + 1 <= Start[peer.sent + 1] => a + b < Start[peer.sent + 1]
    BY <1>2
  <2>4. Len(w) + Len(r) < Start[peer.sent + 1]
    BY <1>2, <1>4, <1>5, <2>2, <2>3
  <2>5. \A a, b \in Nat : a <= b /\ b < Cap => a < Cap
    BY <1>2
  <2>6. Len(r) < Cap
    BY <1>4, <1>5, <2>2, <2>5
  <2> QED BY <1>4, <1>12, <2>2, <2>4, <2>6
<1>18. Received(y, g, w)
  BY <1>4, <1>9, <1>12, <1>15, <1>16, <1>17 DEF Received
<1> QED BY <1>7, <1>10, <1>13, <1>18

LEMMA ParseDataKeeps ==
    ASSUME TcpInv, TcpCareful, NEW s, SegOK(s), ParseData(s)
    PROVE  TcpInv'
<1>1. PICK x : x = IF s.len = 0 THEN c
           ELSE [c EXCEPT !.lack = s.seq + s.len, !.rx = ring_put(c, [i \in 1..s.len |-> s.seq + i - 1])]
  OBVIOUS
<1>2. PICK n : n = IF s.len = 0 THEN 0 ELSE served(x, h)
  OBVIOUS
<1>3. PICK y : y = take(x, n)
  OBVIOUS
<1>4. PICK g : g = answered(h, n)
  OBVIOUS
<1>5. /\ c.state \in Connected /\ ~closing(s) /\ ~jumped(s) /\ peer' = peer
      /\ got' = got \o SubSeq(x.rx, 1, n)
      /\ c' = (IF FIN \in s.fl THEN [y EXCEPT !.state = "LAST_ACK"] ELSE y)
      /\ h' = (IF FIN \in s.fl /\ y.cb THEN tcp_close_callback(g) ELSE g)
      /\ (IF FIN \in s.fl THEN tcpc_sendraw(y, {FIN, ACK})
          ELSE IF s.len > 0 THEN tcpc_sendraw(y, {ACK}) ELSE UNCHANGED <<edge, out>>)
      /\ bad' = (bad \/ (s.len > 0 /\ h.state = "freed"))
  BY <1>1, <1>2, <1>3, <1>4 DEF ParseData
<1>6. Received(y, g, got')
  <2>1. Arrived(s, x, n)
    BY <1>1, <1>2 DEF Arrived
  <2> QED BY <1>3, <1>4, <1>5, <2>1, ReceiveKeeps
<1>7. /\ y \in ConnType /\ y.state = c.state /\ y.cb = c.cb /\ y.uclosed = c.uclosed
      /\ g \in HandleType /\ g.state = h.state /\ g.dead = h.dead /\ g.req \in {h.req, "none"}
      /\ (g.req = "read" => y.rx = <<>> /\ g.cap # 0)
      /\ Stream(got', y.rx) /\ y.lack = Len(got') + Len(y.rx) + 1 /\ Len(got') >= Len(got)
      /\ (\E k \in 1..(peer.sent + 1) : y.lack = Start[k])
      /\ y.lack <= Start[peer.sent + 1] /\ Len(got') + Len(y.rx) < Start[peer.sent + 1] /\ Len(y.rx) < Cap
  BY <1>6 DEF Received
<1>8. FIN \in s.fl \/ s.len > 0 => c.state \in {"SYN_RCVD", "ESTABILISHED"}
  BY <1>5 DEF SegOK, closing, Connected
<1>9. Len(got') \in Nat /\ Len(y.rx) \in Nat /\ y.lack \in Nat /\ edge \in Nat /\ Cap \in Nat /\ Len(got) \in Nat /\ edge <= Len(got) + Cap + 1
  <2>1. got' \in Seq(Nat) /\ y.rx \in Seq(Nat)
    BY <1>7 DEF Stream
  <2>2. y.lack \in Nat
    BY <1>7 DEF ConnType
  <2>3. edge \in Nat /\ Cap \in Nat /\ Len(got) \in Nat /\ edge <= Len(got) + Cap + 1
    BY PartsOf DEF Flow
  <2> QED BY <2>1, <2>2, <2>3
<1>10. edge <= Len(got') + Cap + 1
  <2>1. \A a, b \in Nat : b >= a /\ edge <= a + Cap + 1 => edge <= b + Cap + 1
    BY <1>9
  <2> QED BY <1>7, <1>9, <2>1
<1>11. edge' \in Nat /\ edge <= edge' /\ edge' <= Len(got') + Cap + 1
  <2>1. ASSUME NEW flags, tcpc_sendraw(y, flags) PROVE edge' \in Nat /\ edge <= edge' /\ edge' <= Len(got') + Cap + 1
    <3>1. \A a, b, k \in Nat : k = a + b + 1 => k + (Cap - b) <= a + Cap + 1 /\ a + Cap + 1 \in Nat
      BY <1>9
    <3>2. y.lack + (Cap - Len(y.rx)) <= Len(got') + Cap + 1 /\ Len(got') + Cap + 1 \in Nat
      BY <1>7, <1>9, <3>1
    <3> QED BY <1>7, <1>9, <1>10, <2>1, <3>2, SentIs
  <2>2. CASE edge' = edge
    BY <1>9, <1>10, <2>2
  <2> QED BY <1>5, <2>1, <2>2
<1>12. bad' = FALSE
  <2>1. s.len > 0 => h.state # "freed"
    BY <1>8, PartsOf DEF Life
  <2> QED BY <1>5, <2>1, PartsOf
<1>13. c' \in ConnType /\ c'.lack = y.lack /\ c'.rx = y.rx /\ c'.uclosed = y.uclosed /\ c'.cb = y.cb
       /\ c'.state = (IF FIN \in s.fl THEN "LAST_ACK" ELSE c.state) /\ c'.state \in Connected
  BY <1>5, <1>7 DEF ConnType, States, Connected
<1>14. Flow(c', peer, edge', got')
  <2>1. peer.sent > 0 => Start[peer.sent + 1] - 1 + Slack < edge'
    <3>1. peer.sent > 0 => Start[peer.sent + 1] - 1 + Slack < edge
      BY PartsOf DEF Flow
    <3>2. Start[peer.sent + 1] \in Nat /\ Slack \in Nat
      BY PartsOf, TcpAssumption
    <3> QED BY <1>9, <1>11, <3>1, <3>2
  <2>2. c'.state \notin {"NONE", "LISTEN", "SYN_SENT"}
    BY <1>13 DEF Connected
  <2> QED BY <1>7, <1>11, <1>13, <2>1, <2>2 DEF Flow
<1>15. h' \in HandleType /\ Life(c', h')
  <2>1. CASE FIN \in s.fl
    <3>1. h.state = "open" /\ c.cb /\ ~c.uclosed
      BY <1>8, <2>1, PartsOf DEF Life
    <3>2. h' = [g EXCEPT !.dead = TRUE, !.req = "none", !.cap = 0]
      BY <1>5, <1>7, <2>1, <3>1 DEF tcp_close_callback
    <3>3. h' \in HandleType /\ h'.state = "open" /\ h'.dead /\ h'.req = "none"
      BY <1>7, <3>1, <3>2 DEF HandleType
    <3>4. c'.state = "LAST_ACK" /\ ~c'.uclosed
      BY <1>7, <1>13, <2>1, <3>1
    <3> QED BY <3>3, <3>4 DEF Life
  <2>2. CASE FIN \notin s.fl
    <3>1. h' = g /\ c' = y
      BY <1>5, <2>2
    <3>2. Life(c, h)
      BY PartsOf
    <3>3. Life(y, g)
      BY <1>5, <1>7, <3>2 DEF Life, Connected
    <3> QED BY <1>7, <3>1, <3>3
  <2> QED BY <2>1, <2>2
<1>16. peer \in PeerType
  BY PartsOf DEF TcpTypes
<1> QED BY <1>5, <1>7, <1>11, <1>12, <1>13, <1>14, <1>15, <1>16 DEF TcpInv, TcpInvOf, TcpTypes

-----------------------------------------------------------------------------
(* The whole. *)

LEMMA TcpStarts == TcpInit => TcpInv
<1> SUFFICES ASSUME TcpInit PROVE TcpInv
  OBVIOUS
<1>1. /\ c = Fresh("NONE") /\ h = NoHandle /\ peer = [syn |-> {}, sent |-> 0, fin |-> FALSE]
      /\ edge = 0 /\ got = <<>> /\ bad = FALSE
  BY DEF TcpInit
<1>2. N \in Nat /\ Cap \in Nat /\ Cap > 0 /\ MaxWrites \in Nat /\ Start[1] = 1
  BY TcpAssumption, StartIs
<1>3. c \in ConnType /\ c.state = "NONE" /\ c.lack = 0 /\ c.rx = <<>> /\ ~c.uclosed
  BY <1>1, <1>2 DEF Fresh, ConnType, States
<1>4. h \in HandleType /\ h.state = "none" /\ h.req = "none" /\ ~h.dead
  BY <1>1 DEF NoHandle, HandleType
<1>5. peer \in PeerType /\ peer.sent = 0
  BY <1>1, <1>2 DEF PeerType
<1>6. Life(c, h)
  BY <1>3, <1>4 DEF Life
<1>7. Flow(c, peer, edge, got)
  <2>1. Len(got) = 0 /\ Len(c.rx) = 0 /\ Start[peer.sent + 1] = 1
    BY <1>1, <1>2, <1>3, <1>5
  <2>2. 0 <= Len(got) + Cap + 1 /\ c.lack <= Start[peer.sent + 1] /\ Len(got) + Len(c.rx) < Start[peer.sent + 1] /\ Len(c.rx) < Cap
    BY <1>2, <1>3, <2>1
  <2> QED BY <1>1, <1>3, <1>5, <2>2 DEF Flow, Connected
<1> QED BY <1>1, <1>3, <1>4, <1>5, <1>6, <1>7, EmptyStream DEF TcpInv, TcpInvOf, TcpTypes

LEMMA TcpStep ==
    ASSUME TcpCareful, TcpInv, [TcpNext]_tcp_vars
    PROVE  TcpInv'
<1>1. CASE UNCHANGED tcp_vars
  BY <1>1 DEF TcpInv, tcp_vars
<1>2. ASSUME NEW s \in Segments, Parse(s) PROVE TcpInv'
  <2>1. SegOK(s)
    BY SegmentsAre
  <2>2. CASE ParseListen(s)
    BY <2>1, <2>2, ParseListenKeeps
  <2>3. CASE ParseSynSent(s)
    BY <2>1, <2>3, ParseSynSentKeeps
  <2>4. CASE ParseLastAck(s)
    BY <2>4, ParseLastAckKeeps
  <2>5. CASE ParseJump(s)
    BY <2>5, ParseJumpKeeps
  <2>6. CASE ParseData(s)
    BY <2>1, <2>6, ParseDataKeeps
  <2>7. CASE ParseNone(s)
    BY <2>7, ParseNoneKeeps
  <2> QED BY <1>2, <2>2, <2>3, <2>4, <2>5, <2>6, <2>7 DEF Parse
<1>3. CASE OpenListen
  BY <1>3, OpenListenKeeps
<1>4. CASE Write
  BY <1>4, WriteKeeps
<1>5. CASE Close
  BY <1>5, CloseKeeps
<1>6. ASSUME NEW arp \in BOOLEAN, OpenConnect(arp) PROVE TcpInv'
  BY <1>6, OpenConnectKeeps
<1>7. ASSUME NEW cap \in ReadCaps, Read(cap) PROVE TcpInv'
  BY <1>7, ReadKeeps
<1>8. CASE PeerSyn
  BY <1>8, PeerSynKeeps
<1>9. CASE PeerSend
  BY <1>9, PeerSendKeeps
<1>10. CASE PeerFin
  BY <1>10, PeerFinKeeps
<1> QED BY <1>1, <1>2, <1>3, <1>4, <1>5, <1>6, <1>7, <1>8, <1>9, <1>10 DEF TcpNext, Deliver

LEMMA TcpInvSound ==
    ASSUME TcpInv
    PROVE  TcpSound
<1>1. c \in ConnType /\ h \in HandleType /\ peer \in PeerType /\ edge \in Nat
  BY PartsOf DEF TcpTypes
<1>2. Life(c, h) /\ Stream(got, c.rx) /\ Flow(c, peer, edge, got)
  BY PartsOf
<1>3. Len(c.rx) \in Nat /\ Len(got) \in Nat /\ Len(c.rx) < Cap /\ Cap \in Nat /\ c.lack \in Nat /\ peer.sent \in 0..N /\ N \in Nat
      /\ Start[peer.sent + 1] \in Nat /\ c.rx \in Seq(Nat) /\ got \in Seq(Nat)
  BY PartsOf
<1>4. Start[N + 1] \in Nat /\ Start[peer.sent + 1] <= Start[N + 1] /\ Start[N + 1] >= 1
  <2>1. N + 1 \in 1..(N + 1)
    BY <1>3
  <2>2. Start[N + 1] \in Nat /\ Start[N + 1] >= 1
    BY <2>1, StartGrows
  <2>3. CASE peer.sent = N
    BY <1>3, <2>2, <2>3
  <2>4. CASE peer.sent # N
    <3>1. peer.sent + 1 \in 1..(N + 1) /\ peer.sent + 1 < N + 1
      BY <1>3, <2>4
    <3>2. Start[peer.sent + 1] + 2 <= Start[N + 1]
      BY <2>1, <3>1, StartGrows
    <3> QED BY <1>3, <2>2, <3>2
  <2> QED BY <2>3, <2>4
<1>5. MaxStream = Start[N + 1] - 1 /\ MaxStream \in Nat /\ MaxStream + 1 = Start[N + 1] /\ hi = Start[peer.sent + 1] - 1
  BY <1>4 DEF MaxStream, hi, N
<1>6. Len(got) + Len(c.rx) < Start[peer.sent + 1] /\ c.lack <= Start[peer.sent + 1] /\ edge <= Len(got) + Cap + 1
  BY <1>2 DEF Flow
<1>7. TcpTypeOK
  <2>0. PICK t \in Nat : t = Start[peer.sent + 1]
    BY <1>3
  <2>1. c.lack \in 0..(MaxStream + 1)
    <3>1. c.lack <= t /\ t <= MaxStream + 1
      BY <1>4, <1>5, <1>6, <2>0
    <3>2. \A b, u \in Nat : b <= t /\ t <= u => b \in 0..u
      OBVIOUS
    <3>3. MaxStream + 1 \in Nat
      BY <1>5
    <3> QED BY <1>3, <3>1, <3>2, <3>3
  <2>2. edge \in 0..(MaxStream + Cap + 1)
    <3>0. t <= MaxStream + 1 /\ MaxStream \in Nat /\ Cap \in Nat
      BY <1>3, <1>4, <1>5, <2>0
    <3>1. \A a, b \in Nat : a + b < t /\ edge <= a + Cap + 1 => edge <= MaxStream + Cap + 1
      BY <1>1, <3>0
    <3>2. edge <= MaxStream + Cap + 1
      BY <1>3, <1>6, <2>0, <3>1
    <3> QED BY <1>1, <3>0, <3>2
  <2>3. ASSUME NEW i \in DOMAIN c.rx PROVE c.rx[i] \in 1..hi
    <3>1. i \in 1..Len(c.rx)
      BY <1>3
    <3>2. c.rx[i] = Len(got) + i
      BY <1>2, <3>1 DEF Stream
    <3>3. \A a, b, j \in Nat : a + b < t /\ j \in 1..b => a + j \in 1..(t - 1)
      OBVIOUS
    <3>4. Len(got) + i \in 1..(t - 1)
      <4>1. i \in Nat
        BY <1>3, <3>1
      <4> QED BY <1>3, <1>6, <2>0, <3>1, <3>3, <4>1
    <3> QED BY <1>5, <2>0, <3>2, <3>4
  <2>4. h.state = "open" => c.state \notin {"NONE", "FREED"}
    BY <1>2 DEF Life
  <2>5. c.state \in States /\ c.lseq \in 0..(MaxWrites + 1) /\ h.req \in {"none", "open", "read"} /\ h.cap \in ReadCaps \cup {0}
        /\ peer.sent \in 0..Len(SegLen)
    BY <1>1 DEF ConnType, HandleType, PeerType, N
  <2> QED BY <1>3, <2>1, <2>2, <2>3, <2>4, <2>5 DEF TcpTypeOK
<1>8. StreamOK
  <2>1. PICK t : t = got \o c.rx
    OBVIOUS
  <2>2. t \in Seq(Nat) /\ Len(t) = Len(got) + Len(c.rx) /\ \A i \in 1..Len(t) : t[i] = IF i <= Len(got) THEN got[i] ELSE c.rx[i - Len(got)]
    BY <1>3, <2>1
  <2>3. ASSUME NEW i \in 1..Len(t) PROVE t[i] = i
    <3>0. i \in Nat
      BY <2>2
    <3>1. CASE i <= Len(got)
      <4>1. i \in 1..Len(got)
        BY <1>3, <3>1
      <4>2. got[i] = i
        BY <1>2, <4>1 DEF Stream
      <4> QED BY <2>2, <3>1, <4>2
    <3>2. CASE ~(i <= Len(got))
      <4>1. \A a, b \in Nat : i \in 1..(a + b) /\ ~(i <= a) => i - a \in 1..b /\ a + (i - a) = i
        BY <3>0
      <4>2. i - Len(got) \in 1..Len(c.rx) /\ Len(got) + (i - Len(got)) = i
        BY <1>3, <2>2, <3>2, <4>1
      <4>3. c.rx[i - Len(got)] = Len(got) + (i - Len(got))
        BY <1>2, <4>2 DEF Stream
      <4> QED BY <2>2, <3>2, <4>2, <4>3
    <3> QED BY <3>1, <3>2
  <2>4. t = [i \in 1..Len(t) |-> i]
    <3>1. t = [i \in 1..Len(t) |-> t[i]]
      BY <2>2
    <3> QED BY <2>3, <3>1
  <2>5. AckOK
    <3>1. c.state \in Connected => c.lack = Len(got) + Len(c.rx) + 1
      BY <1>2 DEF Flow
    <3> QED BY <2>1, <2>2, <3>1 DEF AckOK
  <2> QED BY <2>1, <2>4, <2>5 DEF StreamOK
<1>9. NoStuckRead
  <2>1. h.req = "read" => c.state \in {"SYN_RCVD", "ESTABILISHED"}
    BY <1>1, <1>2 DEF Life, ConnType, States
  <2> QED BY <1>2, <2>1 DEF NoStuckRead, Life, Connected
<1>10. NoDangling
  <2>1. h.state = "freed" => c.state \in {"LAST_ACK", "FREED"} /\ c.uclosed
    BY <1>1, <1>2 DEF Life, ConnType, States
  <2> QED BY <1>2, <2>1, PartsOf DEF NoDangling, Life
<1> QED BY <1>7, <1>8, <1>9, <1>10 DEF TcpSound

\* When the peer leaves the last byte of a window unused and no read asks for
\* nothing, then, whatever the network does to the segments, what the program
\* reads is the stream of the peer from its first byte, what tcp.c acknowledges
\* is what it has, no read waits for data that is there, and no callback of
\* fs.c reaches a handle that was freed.
THEOREM TcpAlwaysSound ==
    ASSUME TcpCareful
    PROVE  TcpSpec => []TcpSound
<1>1. TcpInv /\ [TcpNext]_tcp_vars => TcpInv'
  BY TcpStep
<1>2. TcpInv => TcpSound
  BY TcpInvSound
<1> QED BY <1>1, <1>2, TcpStarts, PTL DEF TcpSpec

-----------------------------------------------------------------------------
(* Files.  What fs_normslice does, and what a buffer is after s was put     *)
(* into it.                                                                 *)

Cell == Datum \cup {Uninit}

Sliced(offset, length, max, expand, r, at) ==
    /\ r.off \in Nat /\ r.len \in Nat /\ r.len <= length /\ at \in Nat
    /\ ~expand => r.off + r.len <= max
    /\ ~expand => IF Before(offset, max) \/ at > max THEN r.len = 0
                  ELSE r.off = at /\ r.len = min(length, max - at)
    /\ expand => r.off = at /\ r.len = IF Before(offset, max) THEN 0 ELSE length
    /\ Before(offset, max) => at = max

LEMMA NormIs ==
    ASSUME NEW offset \in Int, NEW length \in Nat, NEW max \in Nat, NEW expand \in BOOLEAN,
           NEW r, r = fs_normslice(offset, length, max, expand), NEW at, at = Index(offset, max)
    PROVE  Sliced(offset, length, max, expand, r, at)
BY DEF Sliced, fs_normslice, Index, Before, min

LEMMA PutIs ==
    ASSUME NEW b \in Seq(Cell), NEW s \in Seq(Cell), NEW off \in Nat
    PROVE  /\ put(b, s, off) \in Seq(Cell) /\ Len(put(b, s, off)) = Len(b)
           /\ \A i \in 1..Len(b) : put(b, s, off)[i] = IF i > off /\ i <= off + Len(s) THEN s[i - off] ELSE b[i]
<1>1. Len(b) \in Nat /\ Len(s) \in Nat
  OBVIOUS
<1>2. \A i \in 1..Len(b) : (IF i > off /\ i <= off + Len(s) THEN s[i - off] ELSE b[i]) \in Cell
  <2> TAKE i \in 1..Len(b)
  <2>1. CASE i > off /\ i <= off + Len(s)
    <3>1. i - off \in 1..Len(s)
      BY <1>1, <2>1
    <3> QED BY <2>1, <3>1
  <2>2. CASE ~(i > off /\ i <= off + Len(s))
    BY <2>2
  <2> QED BY <2>1, <2>2
<1>3. PICK p : p = [i \in 1..Len(b) |-> IF i > off /\ i <= off + Len(s) THEN s[i - off] ELSE b[i]]
  OBVIOUS
<1>4. p \in Seq(Cell) /\ Len(p) = Len(b)
  BY <1>1, <1>2, <1>3
<1>5. put(b, s, off) = p
  BY <1>3 DEF put
<1> QED BY <1>3, <1>4, <1>5

\* The first n cells of a sequence, and the others.
LEMMA PartIs ==
    ASSUME NEW T, NEW s \in Seq(T), NEW m \in Nat, NEW n \in Nat, m <= n, n <= Len(s)
    PROVE  /\ SubSeq(s, m + 1, n) \in Seq(T) /\ Len(SubSeq(s, m + 1, n)) = n - m
           /\ \A i \in 1..(n - m) : SubSeq(s, m + 1, n)[i] = s[m + i]
<1>1. Len(s) \in Nat /\ \A i \in (m + 1)..n : i \in 1..Len(s)
  OBVIOUS
<1>2. PICK p : p = SubSeq(s, m + 1, n)
  OBVIOUS
<1>3. p \in Seq(T) /\ Len(p) = n - m
  BY <1>1, <1>2
<1>4. \A i \in 1..(n - m) : p[i] = s[m + i]
  BY <1>1, <1>2
<1> QED BY <1>2, <1>3, <1>4

LEMMA RoundUp ==
    ASSUME NEW a \in Nat, NEW b \in Nat \ {0}
    PROVE  /\ ((a + b - 1) \div b) * b \in Nat /\ ((a + b - 1) \div b) * b >= a
           /\ (((a + b - 1) \div b) * b) % b = 0 /\ (a + b - 1) \div b \in Nat
<1>1. a + b - 1 \in Nat
  OBVIOUS
<1>2. PICK k : k = (a + b - 1) \div b
  OBVIOUS
<1>3. k \in Nat
  BY <1>1, <1>2
<1>4. PICK e : e = (a + b - 1) % b
  OBVIOUS
<1>5. e \in Nat /\ e < b /\ a + b - 1 = b * k + e
  BY <1>1, <1>2, <1>4
<1>6. k * b = b * k /\ k * b \in Nat
  BY <1>3
<1>7. k * b >= a
  BY <1>5, <1>6
<1>8. (k * b) % b = 0
  BY <1>3, <1>6
<1> QED BY <1>2, <1>3, <1>6, <1>7, <1>8

-----------------------------------------------------------------------------
(* ata.c *)

LEMMA AtaReadIs ==
    ASSUME NEW d \in Seq(Cell), NEW n \in Nat, NEW off \in Nat
    PROVE  /\ ata_read(d, n, off) \in Seq(Cell) /\ Len(ata_read(d, n, off)) = n
           /\ off % Sec = 0 /\ off + n <= Len(d) => \A i \in 1..n : ata_read(d, n, off)[i] = d[off + i]
<1>1. Sec \in Nat \ {0} /\ Len(d) \in Nat
  BY FilesAssumption
<1>2. PICK m : m = (ata_cnt(n, off % Sec) * Sec) - (off % Sec)
  OBVIOUS
<1>3. PICK p : p = [i \in 1..n |-> IF i <= m /\ off + i <= Len(d) THEN d[off + i] ELSE Uninit]
  OBVIOUS
<1>4. ata_read(d, n, off) = p
  BY <1>2, <1>3 DEF ata_read
<1>5. \A i \in 1..n : p[i] \in Cell
  <2> TAKE i \in 1..n
  <2>1. off + i <= Len(d) => off + i \in 1..Len(d)
    BY <1>1
  <2> QED BY <1>3, <2>1 DEF Cell
<1>6. p \in Seq(Cell) /\ Len(p) = n
  <2>1. p = [i \in 1..n |-> p[i]]
    BY <1>3
  <2> QED BY <1>5, <2>1
<1>7. ASSUME off % Sec = 0, off + n <= Len(d), NEW i \in 1..n PROVE p[i] = d[off + i]
  <2>1. ata_cnt(n, 0) = (n + Sec - 1) \div Sec
    <3>1. n - 0 = n /\ (n + Sec - 1) \div Sec \in Nat
      BY <1>1, RoundUp
    <3>2. (n + Sec - 1) \div Sec + 0 = (n + Sec - 1) \div Sec
      BY <3>1
    <3> QED BY <3>1, <3>2 DEF ata_cnt
  <2>2. m = (((n + Sec - 1) \div Sec) * Sec) - 0
    BY <1>2, <1>7, <2>1
  <2>3. m >= n /\ m \in Nat
    BY <1>1, <2>2, RoundUp
  <2>4. i <= m /\ off + i <= Len(d)
    BY <1>1, <1>7, <2>3
  <2> QED BY <1>3, <2>4
<1> QED BY <1>4, <1>6, <1>7

\* A sector that is written after some of its bytes were changed.
Patched(d, p, s, from, at) ==
    /\ p \in Seq(Cell) /\ Len(p) = Len(d)
    /\ \A i \in 1..Len(d) : i > from + at /\ i <= from + at + Len(s) => p[i] = s[i - (from + at)]
    /\ \A i \in 1..Len(d) : i <= from \/ i > from + Sec => p[i] = d[i]

LEMMA PatchIs ==
    ASSUME NEW d \in Seq(Cell), NEW s \in Seq(Cell), NEW lba \in Nat, NEW at \in Nat, at + Len(s) <= Sec,
           NEW p, p = ata_patch(d, s, lba, at), NEW from \in Nat, from = lba * Sec
    PROVE  Patched(d, p, s, from, at)
<1>1. Sec \in Nat /\ Len(d) \in Nat /\ Len(s) \in Nat
  BY FilesAssumption
<1>2. PICK b : b = ata_read(d, Sec, lba)
  OBVIOUS
<1>3. b \in Seq(Cell) /\ Len(b) = Sec
  BY <1>1, <1>2, AtaReadIs
<1>4. PICK fr : fr = put(b, s, at)
  OBVIOUS
<1>5. fr \in Seq(Cell) /\ Len(fr) = Sec /\ \A i \in 1..Sec : fr[i] = IF i > at /\ i <= at + Len(s) THEN s[i - at] ELSE b[i]
  BY <1>3, <1>4, PutIs
<1>6. p = put(d, fr, from)
  BY <1>2, <1>4 DEF ata_patch, ata_rawwrite
<1>7. p \in Seq(Cell) /\ Len(p) = Len(d) /\ \A i \in 1..Len(d) : p[i] = IF i > from /\ i <= from + Sec THEN fr[i - from] ELSE d[i]
  <2>1. /\ put(d, fr, from) \in Seq(Cell) /\ Len(put(d, fr, from)) = Len(d)
        /\ \A i \in 1..Len(d) : put(d, fr, from)[i] = IF i > from /\ i <= from + Len(fr) THEN fr[i - from] ELSE d[i]
    BY <1>5, PutIs
  <2>2. Len(fr) = Sec
    BY <1>5
  <2> QED BY <1>6, <2>1, <2>2
<1>8. ASSUME NEW i \in 1..Len(d), i > from + at, i <= from + at + Len(s) PROVE p[i] = s[i - (from + at)]
  <2>1. i > from /\ i <= from + Sec /\ i - from \in 1..Sec /\ i - from > at /\ i - from <= at + Len(s) /\ (i - from) - at = i - (from + at)
    BY <1>1, <1>8
  <2> QED BY <1>5, <1>7, <2>1
<1>9. ASSUME NEW i \in 1..Len(d), i <= from \/ i > from + Sec PROVE p[i] = d[i]
  <2>1. ~(i > from /\ i <= from + Sec)
    BY <1>1, <1>9
  <2> QED BY <1>7, <2>1
<1> QED BY <1>7, <1>8, <1>9 DEF Patched

\* What ata_write may do to a disk d: the bytes s from off on are written,
\* nothing outside the sectors from lo to up is, and if whole sectors are
\* written nothing else at all.
AtaWritten(d, p, s, off) ==
    /\ p \in Seq(Cell) /\ Len(p) = Len(d)
    /\ \A i \in 1..Len(d) : i > off /\ i <= off + Len(s) => p[i] = s[i - off]
    /\ \A i \in 1..Len(d) : (i - 1) \div Sec \notin (off \div Sec)..((off + Len(s)) \div Sec) => p[i] = d[i]
    /\ off % Sec = 0 /\ Len(s) % Sec = 0 => \A i \in 1..Len(d) : i <= off \/ i > off + Len(s) => p[i] = d[i]

\* Sector k is the bytes from k * Sec on.
LEMMA SectorOf ==
    ASSUME NEW a \in Nat
    PROVE  /\ a \div Sec \in Nat /\ a % Sec \in Nat /\ a % Sec < Sec /\ (a \div Sec) * Sec \in Nat
           /\ a = (a \div Sec) * Sec + (a % Sec)
           /\ \A k \in Nat : k * Sec \in Nat /\ (k * Sec <= a => k <= a \div Sec) /\ (a < k * Sec + Sec => a \div Sec <= k)
<1>1. Sec \in Nat \ {0}
  BY FilesAssumption
<1>2. PICK q \in Nat : q = a \div Sec
  BY <1>1
<1>3. PICK e \in Nat : e = a % Sec
  BY <1>1
<1>4. a = Sec * q + e /\ e < Sec
  BY <1>1, <1>2, <1>3
<1>5. Sec * q = q * Sec /\ q * Sec \in Nat
  BY <1>1
<1>6. ASSUME NEW k \in Nat PROVE k * Sec \in Nat /\ (k * Sec <= a => k <= q) /\ (a < k * Sec + Sec => q <= k)
  <2>1. k * Sec \in Nat
    BY <1>1
  <2>2. k > q => k * Sec >= q * Sec + Sec
    <3>1. k > q => k - q - 1 \in Nat
      OBVIOUS
    <3>2. \A u \in Nat : (q + 1 + u) * Sec >= q * Sec + Sec
      BY <1>1
    <3>3. k > q => k = q + 1 + (k - q - 1)
      OBVIOUS
    <3> QED BY <3>1, <3>2, <3>3
  <2>3. q > k => q * Sec >= k * Sec + Sec
    <3>1. q > k => q - k - 1 \in Nat
      OBVIOUS
    <3>2. \A u \in Nat : (k + 1 + u) * Sec >= k * Sec + Sec
      BY <1>1
    <3>3. q > k => q = k + 1 + (q - k - 1)
      OBVIOUS
    <3> QED BY <3>1, <3>2, <3>3
  <2>4. PICK u \in Nat : u = k * Sec
    BY <2>1
  <2>5. PICK v \in Nat : v = q * Sec
    BY <1>5
  <2>6. a = v + e /\ (k > q => u >= v + Sec) /\ (q > k => v >= u + Sec)
    BY <1>4, <1>5, <2>2, <2>3, <2>4, <2>5
  <2>7. (u <= a => k <= q) /\ (a < u + Sec => q <= k)
    BY <1>1, <1>4, <2>6
  <2> QED BY <2>1, <2>4, <2>7
<1> QED BY <1>2, <1>3, <1>4, <1>5, <1>6

\* A byte outside the sectors from off to off + n is before or behind them.
LEMMA FarIs ==
    ASSUME NEW i \in Nat, i >= 1, NEW off \in Nat, NEW n \in Nat,
           (i - 1) \div Sec \notin (off \div Sec)..((off + n) \div Sec)
    PROVE  \/ i <= (off \div Sec) * Sec
           \/ i > off + n /\ \A k \in Nat : k * Sec <= off + n => i > k * Sec + Sec
<1>1. i - 1 \in Nat /\ off + n \in Nat
  OBVIOUS
<1>2. PICK q \in Nat : q = off \div Sec
  BY SectorOf
<1>3. PICK z \in Nat : z = (off + n) \div Sec
  BY <1>1, SectorOf
<1>4. PICK x \in Nat : x = (i - 1) \div Sec
  BY <1>1, SectorOf
<1>5. Sec \in Nat /\ q * Sec \in Nat /\ z * Sec \in Nat
  BY FilesAssumption, SectorOf
<1>6. CASE i <= q * Sec
  BY <1>2, <1>6
<1>7. CASE ~(i <= q * Sec)
  <2>1. q * Sec <= i - 1
    BY <1>5, <1>7
  <2>2. q <= x
    BY <1>1, <1>4, <2>1, SectorOf
  <2>3. x > z
    BY <1>2, <1>3, <1>4, <2>2
  <2>4. ASSUME NEW k \in Nat, k * Sec <= off + n PROVE i > k * Sec + Sec
    <3>1. k <= z
      BY <1>1, <1>3, <2>4, SectorOf
    <3>2. ~(x <= k)
      BY <2>3, <3>1
    <3>3. ~(i - 1 < k * Sec + Sec)
      BY <1>1, <1>4, <3>2, SectorOf
    <3>4. k * Sec \in Nat
      BY <1>5
    <3> QED BY <1>5, <3>3, <3>4
  <2>5. i > off + n
    <3>1. PICK e \in Nat : e = (off + n) % Sec
      BY <1>1, SectorOf
    <3>2. off + n = z * Sec + e /\ e < Sec
      BY <1>1, <1>3, <3>1, SectorOf
    <3>3. ~(i - 1 < z * Sec + Sec)
      BY <1>1, <1>4, <2>3, SectorOf
    <3> QED BY <1>5, <3>2, <3>3
  <2> QED BY <2>4, <2>5
<1> QED BY <1>6, <1>7

LEMMA AtaWriteIs ==
    ASSUME NEW d \in Seq(Cell), NEW s \in Seq(Cell), NEW off \in Nat
    PROVE  AtaWritten(d, ata_write(d, s, off), s, off)
<1>1. Sec \in Nat /\ Sec > 0 /\ Len(d) \in Nat
  BY FilesAssumption
<1>2. PICK n \in Nat : n = Len(s)
  OBVIOUS
<1>3. PICK q \in Nat : q = off \div Sec
  BY SectorOf
<1>4. PICK o \in Nat : o = off % Sec
  BY SectorOf
<1>5. PICK fr \in Nat : fr = q * Sec
  BY <1>1
<1>6. off = fr + o /\ o < Sec
  BY <1>3, <1>4, <1>5, SectorOf
<1>7. PICK clen : clen = IF o = 0 THEN 0 ELSE min(n, Sec - o)
  OBVIOUS
<1>8. clen \in Nat /\ clen <= n /\ o + clen <= Sec /\ (o = 0 => clen = 0) /\ (o # 0 /\ clen < n => o + clen = Sec)
  BY <1>1, <1>6, <1>7 DEF min
<1>9. PICK head : head = IF o = 0 THEN d ELSE ata_patch(d, SubSeq(s, 1, clen), q, o)
  OBVIOUS
<1>10. /\ head \in Seq(Cell) /\ Len(head) = Len(d)
       /\ \A i \in 1..Len(d) : i > off /\ i <= off + clen => head[i] = s[i - off]
       /\ \A i \in 1..Len(d) : i <= fr \/ i > fr + Sec => head[i] = d[i]
       /\ o = 0 => head = d
  <2>1. CASE o = 0
    <3>1. head = d /\ clen = 0
      BY <1>8, <1>9, <2>1
    <3>2. \A i \in 1..Len(d) : ~(i > off /\ i <= off + clen)
      BY <1>1, <3>1
    <3> QED BY <3>1, <3>2
  <2>2. CASE o # 0
    <3>1. PICK t : t = SubSeq(s, 1, clen)
      OBVIOUS
    <3>2. t \in Seq(Cell) /\ Len(t) = clen /\ \A i \in 1..clen : t[i] = s[i]
      <4>1. 0 + 1 = 1 /\ clen - 0 = clen /\ \A i \in 1..clen : 0 + i = i
        BY <1>8
      <4>2. 0 \in Nat /\ 0 <= clen /\ clen <= Len(s)
        BY <1>2, <1>8
      <4>3. /\ SubSeq(s, 0 + 1, clen) \in Seq(Cell) /\ Len(SubSeq(s, 0 + 1, clen)) = clen - 0
            /\ \A i \in 1..(clen - 0) : SubSeq(s, 0 + 1, clen)[i] = s[0 + i]
        BY <1>8, <4>2, PartIs
      <4> QED BY <3>1, <4>1, <4>3
    <3>3. head = ata_patch(d, t, q, o)
      BY <1>9, <2>2, <3>1
    <3>4. /\ head \in Seq(Cell) /\ Len(head) = Len(d)
          /\ \A i \in 1..Len(d) : i > fr + o /\ i <= fr + o + clen => head[i] = t[i - (fr + o)]
          /\ \A i \in 1..Len(d) : i <= fr \/ i > fr + Sec => head[i] = d[i]
      <4>1. o + Len(t) <= Sec
        BY <1>8, <3>2
      <4>2. Patched(d, head, t, fr, o)
        BY <1>5, <3>2, <3>3, <4>1, PatchIs
      <4> QED BY <3>2, <4>2 DEF Patched
    <3>5. ASSUME NEW i \in 1..Len(d), i > off, i <= off + clen PROVE head[i] = s[i - off]
      <4>1. i - off \in 1..clen
        BY <1>1, <1>8, <3>5
      <4>2. head[i] = t[i - off]
        BY <1>6, <3>4, <3>5
      <4> QED BY <3>2, <4>1, <4>2
    <3> QED BY <2>2, <3>4, <3>5
  <2> QED BY <2>1, <2>2
<1>11. PICK rest : rest = SubSeq(s, clen + 1, n)
  OBVIOUS
<1>12. PICK m \in Nat : m = n - clen
  BY <1>8
<1>13. rest \in Seq(Cell) /\ Len(rest) = m /\ \A i \in 1..m : rest[i] = s[clen + i]
  BY <1>2, <1>8, <1>11, <1>12, PartIs
<1>14. PICK e \in Nat : e = m % Sec
  BY SectorOf
<1>15. PICK v \in Nat : v = m \div Sec
  BY SectorOf
<1>16. PICK whole \in Nat : whole = v * Sec
  BY <1>1
<1>17. m = whole + e /\ e < Sec /\ whole = m - e /\ whole <= m
  <2>1. m = whole + e /\ e < Sec
    BY <1>14, <1>15, <1>16, SectorOf
  <2> QED BY <2>1
<1>18. PICK a \in Nat : a = off + clen
  BY <1>8
<1>19. m > 0 => \E k \in Nat : a = k * Sec
  <2> SUFFICES ASSUME m > 0 PROVE \E k \in Nat : a = k * Sec
    OBVIOUS
  <2>1. CASE o = 0
    <3>1. a = q * Sec
      BY <1>5, <1>6, <1>8, <1>18, <2>1
    <3> QED BY <3>1
  <2>2. CASE o # 0
    <3>1. o + clen = Sec
      BY <1>8, <1>12, <2>2
    <3>2. a = fr + Sec
      BY <1>1, <1>6, <1>8, <1>18, <3>1
    <3>3. (q + 1) * Sec = q * Sec + Sec
      BY <1>1
    <3> QED BY <1>5, <3>2, <3>3
  <2> QED BY <2>1, <2>2
<1>20. ASSUME NEW k \in Nat PROVE (k * Sec) \div Sec = k
  <2>1. k * Sec \in Nat /\ (k * Sec) \div Sec \in Nat
    BY <1>1, SectorOf
  <2>2. k <= (k * Sec) \div Sec /\ (k * Sec) \div Sec <= k
    <3>1. k * Sec <= k * Sec /\ k * Sec < k * Sec + Sec
      BY <1>1, <2>1
    <3> QED BY <2>1, <3>1, SectorOf
  <2> QED BY <2>1, <2>2
<1>21. PICK u \in Nat : u = (a \div Sec) * Sec
  BY SectorOf
<1>22. m > 0 => u = a
  BY <1>19, <1>20, <1>21
<1>23. PICK mid : mid = put(head, SubSeq(rest, 1, whole), u)
  OBVIOUS
<1>24. mid \in Seq(Cell) /\ Len(mid) = Len(d)
       /\ \A i \in 1..Len(d) : mid[i] = IF i > u /\ i <= u + whole THEN rest[i - u] ELSE head[i]
  <2>1. PICK t : t = SubSeq(rest, 1, whole)
    OBVIOUS
  <2>2. t \in Seq(Cell) /\ Len(t) = whole /\ \A i \in 1..whole : t[i] = rest[i]
    <3>1. 0 + 1 = 1 /\ whole - 0 = whole /\ \A i \in 1..whole : 0 + i = i
      OBVIOUS
    <3>2. 0 \in Nat /\ 0 <= whole /\ whole <= Len(rest)
      BY <1>13, <1>17
    <3>3. /\ SubSeq(rest, 0 + 1, whole) \in Seq(Cell) /\ Len(SubSeq(rest, 0 + 1, whole)) = whole - 0
          /\ \A i \in 1..(whole - 0) : SubSeq(rest, 0 + 1, whole)[i] = rest[0 + i]
      BY <1>13, <3>2, PartIs
    <3> QED BY <2>1, <3>1, <3>3
  <2>3. mid \in Seq(Cell) /\ Len(mid) = Len(d) /\ \A i \in 1..Len(d) : mid[i] = IF i > u /\ i <= u + whole THEN t[i - u] ELSE head[i]
    <3>1. head \in Seq(Cell) /\ t \in Seq(Cell) /\ mid = put(head, t, u)
      BY <1>10, <1>23, <2>1, <2>2
    <3>2. /\ put(head, t, u) \in Seq(Cell) /\ Len(put(head, t, u)) = Len(head)
          /\ \A i \in 1..Len(head) : put(head, t, u)[i] = IF i > u /\ i <= u + Len(t) THEN t[i - u] ELSE head[i]
      BY <3>1, PutIs
    <3>3. Len(head) = Len(d) /\ Len(t) = whole
      BY <1>10, <2>2
    <3> QED BY <3>1, <3>2, <3>3
  <2>4. ASSUME NEW i \in 1..Len(d), i > u /\ i <= u + whole PROVE t[i - u] = rest[i - u]
    <3>1. i - u \in 1..whole
      BY <1>1, <2>4
    <3> QED BY <2>2, <3>1
  <2> QED BY <2>3, <2>4
<1>25. /\ \A i \in 1..Len(d) : i > off /\ i <= a + whole => mid[i] = s[i - off]
       /\ \A i \in 1..Len(d) : (i <= fr \/ i > fr + Sec) /\ (i <= a \/ i > a + whole) => mid[i] = d[i]
       /\ o = 0 => \A i \in 1..Len(d) : i <= off \/ i > off + whole => mid[i] = d[i]
  <2>1. CASE whole = 0
    <3>1. \A i \in 1..Len(d) : mid[i] = head[i]
      <4>1. \A i \in 1..Len(d) : ~(i > u /\ i <= u + whole)
        BY <1>1, <2>1
      <4> QED BY <1>24, <4>1
    <3>2. a + whole = off + clen
      BY <1>18, <2>1
    <3> QED BY <1>10, <3>1, <3>2
  <2>2. CASE whole # 0
    <3>1. m > 0
      BY <1>17, <2>2
    <3>2. u = a
      BY <1>22, <3>1
    <3>3. ASSUME NEW i \in 1..Len(d), i > off, i <= a + whole PROVE mid[i] = s[i - off]
      <4>0. i \in Nat
        BY <1>1
      <4>1. CASE i > a
        <5>1. i - a \in 1..m /\ clen + (i - a) = i - off
          BY <1>8, <1>17, <1>18, <3>3, <4>0, <4>1
        <5>2. mid[i] = rest[i - a]
          BY <1>24, <3>2, <3>3, <4>1
        <5> QED BY <1>13, <5>1, <5>2
      <4>2. CASE ~(i > a)
        <5>1. i <= off + clen
          BY <1>18, <4>0, <4>2
        <5>2. mid[i] = head[i]
          BY <1>24, <3>2, <4>2
        <5> QED BY <1>10, <3>3, <5>1, <5>2
      <4> QED BY <4>1, <4>2
    <3>4. ASSUME NEW i \in 1..Len(d), i <= a \/ i > a + whole PROVE mid[i] = head[i]
      <4>1. ~(i > a /\ i <= a + whole)
        BY <1>1, <3>4
      <4> QED BY <1>24, <3>2, <4>1
    <3>5. o = 0 => a = off
      BY <1>8, <1>18
    <3> QED BY <1>10, <3>3, <3>4, <3>5
  <2> QED BY <2>1, <2>2
<1>26. PICK p : p = ata_write(d, s, off)
  OBVIOUS
<1>27. p = IF e = 0 THEN mid ELSE ata_patch(mid, SubSeq(rest, whole + 1, m), (a + whole) \div Sec, 0)
  <2>1. Len(rest) = m /\ Len(rest) - (Len(rest) % Sec) = whole /\ Len(rest) % Sec = e
    BY <1>13, <1>14, <1>17
  <2>2. mid = ata_rawwrite(head, SubSeq(rest, 1, whole), a \div Sec)
    BY <1>21, <1>23 DEF ata_rawwrite
  <2> QED BY <1>2, <1>3, <1>4, <1>7, <1>9, <1>11, <1>18, <1>26, <2>1, <2>2 DEF ata_write
<1>28. a + m = off + n /\ a + whole <= off + n
  BY <1>8, <1>12, <1>17, <1>18
<1>29. ASSUME NEW i \in 1..Len(d), (i - 1) \div Sec \notin (off \div Sec)..((off + Len(s)) \div Sec)
       PROVE  /\ i <= fr \/ i > fr + Sec
              /\ i <= a \/ i > a + whole
              /\ \A k \in Nat : k * Sec <= off + n /\ off <= k * Sec => i <= k * Sec \/ i > k * Sec + Sec
  <2>1. i \in Nat /\ i >= 1
    BY <1>1
  <2>2. i <= fr \/ (i > off + n /\ \A k \in Nat : k * Sec <= off + n => i > k * Sec + Sec)
    BY <1>2, <1>3, <1>5, <1>29, <2>1, FarIs
  <2>3. CASE i <= fr
    <3>1. i <= off /\ i <= a
      BY <1>6, <1>8, <1>18, <2>1, <2>3
    <3>2. \A x \in Nat : off <= x => i <= x
      BY <2>1, <3>1
    <3>3. \A k \in Nat : k * Sec \in Nat
      BY <1>1
    <3> QED BY <2>3, <3>1, <3>2, <3>3
  <2>4. CASE i > off + n /\ \A k \in Nat : k * Sec <= off + n => i > k * Sec + Sec
    <3>1. q * Sec <= off + n
      BY <1>5, <1>6
    <3>2. i > fr + Sec
      BY <1>5, <2>4, <3>1
    <3>3. i > a + whole
      BY <1>28, <2>1, <2>4
    <3> QED BY <2>4, <3>2, <3>3
  <2> QED BY <2>2, <2>3, <2>4
<1>30. CASE e = 0
  <2>1. p = mid /\ a + whole = off + n /\ whole = m
    BY <1>17, <1>27, <1>28, <1>30
  <2>2. o = 0 => off + whole = off + n
    BY <1>8, <1>12, <2>1
  <2>3. \A i \in 1..Len(d) : i > off /\ i <= off + Len(s) => p[i] = s[i - off]
    BY <1>2, <1>25, <2>1
  <2>4. \A i \in 1..Len(d) : (i - 1) \div Sec \notin (off \div Sec)..((off + Len(s)) \div Sec) => p[i] = d[i]
    BY <1>25, <1>29, <2>1
  <2>5. off % Sec = 0 => \A i \in 1..Len(d) : i <= off \/ i > off + Len(s) => p[i] = d[i]
    BY <1>2, <1>4, <1>25, <2>1, <2>2
  <2> QED BY <1>24, <1>26, <2>1, <2>3, <2>4, <2>5 DEF AtaWritten
<1>31. CASE e # 0
  <2>1. PICK b \in Nat : b = a + whole
    OBVIOUS
  <2>2. m > 0
    BY <1>17, <1>31
  <2>3. PICK k \in Nat : a = k * Sec
    BY <1>19, <2>2
  <2>4. b = (k + v) * Sec
    <3>1. k * Sec + v * Sec = (k + v) * Sec
      BY <1>1
    <3> QED BY <1>16, <2>1, <2>3, <3>1
  <2>5. PICK lba \in Nat : lba = k + v
    OBVIOUS
  <2>6. b \div Sec = lba /\ b = lba * Sec
    BY <1>20, <2>4, <2>5
  <2>7. PICK t : t = SubSeq(rest, whole + 1, m)
    OBVIOUS
  <2>8. t \in Seq(Cell) /\ Len(t) = e /\ \A i \in 1..e : t[i] = rest[whole + i]
    <3>1. m - whole = e /\ whole <= m /\ m <= Len(rest)
      BY <1>13, <1>17
    <3> QED BY <1>13, <2>7, <3>1, PartIs
  <2>9. p = ata_patch(mid, t, lba, 0)
    BY <1>27, <1>31, <2>1, <2>6, <2>7
  <2>10. /\ p \in Seq(Cell) /\ Len(p) = Len(mid)
         /\ \A i \in 1..Len(mid) : i > b + 0 /\ i <= b + 0 + Len(t) => p[i] = t[i - (b + 0)]
         /\ \A i \in 1..Len(mid) : i <= b \/ i > b + Sec => p[i] = mid[i]
    <3>1. 0 \in Nat /\ 0 + Len(t) <= Sec
      BY <1>1, <1>17, <2>8
    <3>2. mid \in Seq(Cell) /\ t \in Seq(Cell)
      BY <1>24, <2>8
    <3>3. Patched(mid, p, t, b, 0)
      BY <2>6, <2>9, <3>1, <3>2, PatchIs
    <3> QED BY <3>3 DEF Patched
  <2>11. b + 0 = b /\ b + e = off + n /\ off <= b
    BY <1>8, <1>17, <1>18, <1>28, <2>1
  <2>12. ASSUME NEW i \in 1..Len(d), i > off, i <= off + Len(s) PROVE p[i] = s[i - off]
    <3>0. i \in Nat
      BY <1>1
    <3>1. CASE i <= b
      BY <1>24, <1>25, <2>1, <2>10, <2>12, <3>1
    <3>2. CASE ~(i <= b)
      <4>1. i > b /\ i <= b + e /\ i - b \in 1..e /\ whole + (i - b) \in 1..m /\ clen + (whole + (i - b)) = i - off
        BY <1>2, <1>8, <1>17, <1>18, <2>1, <2>11, <2>12, <3>0, <3>2
      <4>2. p[i] = t[i - b]
        BY <1>24, <2>8, <2>10, <2>11, <4>1
      <4> QED BY <1>13, <2>8, <4>1, <4>2
    <3> QED BY <3>1, <3>2
  <2>13. ASSUME NEW i \in 1..Len(d), (i - 1) \div Sec \notin (off \div Sec)..((off + Len(s)) \div Sec) PROVE p[i] = d[i]
    <3>1. lba * Sec <= off + n /\ off <= lba * Sec
      BY <1>28, <2>1, <2>6, <2>11
    <3>2. i <= b \/ i > b + Sec
      BY <1>29, <2>6, <2>13, <3>1
    <3>3. p[i] = mid[i]
      BY <1>24, <2>10, <3>2
    <3>4. mid[i] = d[i]
      BY <1>25, <1>29, <2>13
    <3> QED BY <3>3, <3>4
  <2>14. ~(off % Sec = 0 /\ Len(s) % Sec = 0)
    <3> SUFFICES ASSUME off % Sec = 0, Len(s) % Sec = 0 PROVE FALSE
      OBVIOUS
    <3>1. m = n
      BY <1>4, <1>8, <1>12
    <3> QED BY <1>2, <1>14, <1>31, <3>1
  <2> QED BY <1>24, <1>26, <2>10, <2>12, <2>13, <2>14 DEF AtaWritten
<1> QED BY <1>30, <1>31

-----------------------------------------------------------------------------
(* The requests. *)

FileOK(k, b, n) ==
    /\ k \in {"list", "fb", "disk", "tmpfs"} /\ b \in Seq(Cell) /\ n \in 0..Len(b)
    /\ k = "tmpfs" => Len(b) % Round = 0

FilesInv == FileOK(kind, store, size) /\ ReadsExact

LEMMA ReadAtExact ==
    ASSUME FileOK(kind, store, size), NEW off \in Int, NEW len \in Nat, ReadAt(off, len)
    PROVE  FileOK(kind, store, size)' /\ ReadsExact'
<1>1. PICK r : r = fs_normslice(off, len, size, FALSE)
  OBVIOUS
<1>2. PICK n : n = IF kind = "disk" THEN min(r.len, WBuf) ELSE r.len
  OBVIOUS
<1>3. PICK s : s = IF kind = "disk" THEN ata_read(store, n, r.off) ELSE SubSeq(store, r.off + 1, r.off + n)
  OBVIOUS
<1>4. kind' = kind /\ store' = store /\ size' = size /\ io' = [op |-> "read", off |-> off, len |-> len, data |-> s, ret |-> n]
  BY <1>1, <1>2, <1>3 DEF ReadAt, Reply
<1>5. PICK at : at = Index(off, size)
  OBVIOUS
<1>6. store \in Seq(Cell) /\ Len(store) \in Nat /\ size \in Nat /\ size <= Len(store) /\ WBuf \in Nat /\ FALSE \in BOOLEAN
  BY FilesAssumption DEF FileOK
<1>7. /\ r.off \in Nat /\ r.len \in Nat /\ at \in Nat /\ r.off + r.len <= size
      /\ IF Before(off, size) \/ at > size THEN r.len = 0 ELSE r.off = at /\ r.len = min(len, size - at)
  <2>1. Sliced(off, len, size, FALSE, r, at)
    BY <1>1, <1>5, <1>6, NormIs
  <2> QED BY <2>1 DEF Sliced
<1>8. n \in Nat /\ n <= r.len /\ r.off + n <= Len(store) /\ r.off <= r.off + n
  BY <1>2, <1>6, <1>7 DEF min
<1>9. s \in Seq(Cell) /\ Len(s) = n
  <2>1. CASE kind = "disk"
    BY <1>3, <1>6, <1>7, <1>8, <2>1, AtaReadIs
  <2>2. CASE kind # "disk"
    <3>1. PICK a \in Nat : a = r.off
      BY <1>7
    <3>2. PICK z \in Nat : z = r.off + n
      BY <1>7, <1>8
    <3>3. a <= z /\ z <= Len(store) /\ z - a = n
      BY <1>7, <1>8, <3>1, <3>2
    <3>4. SubSeq(store, a + 1, z) \in Seq(Cell) /\ Len(SubSeq(store, a + 1, z)) = z - a
      BY <1>6, <3>3, PartIs
    <3> QED BY <1>3, <2>2, <3>1, <3>2, <3>3, <3>4
  <2> QED BY <2>1, <2>2
<1>10. ASSUME kind # "disk" \/ at % Sec = 0 PROVE s = SubSeq(store, at + 1, at + n)
  <2>1. CASE n = 0
    <3>1. s = <<>>
      BY <1>9, <2>1, EmptySeq
    <3>2. SubSeq(store, at + 1, at + n) = <<>>
      <4>1. at + 1 \in Int /\ at + n \in Int /\ at + n < at + 1
        BY <1>7, <2>1
      <4> QED BY <4>1, SubSeqEmpty
    <3> QED BY <3>1, <3>2
  <2>2. CASE n # 0
    <3>1. r.off = at
      BY <1>7, <1>8, <2>2
    <3>2. CASE kind # "disk"
      BY <1>3, <3>1, <3>2
    <3>3. CASE kind = "disk"
      <4>1. PICK t : t = SubSeq(store, at + 1, at + n)
        OBVIOUS
      <4>2. at + n \in Nat /\ (at + n) - at = n /\ at <= at + n /\ at + n <= Len(store)
        BY <1>7, <1>8, <3>1
      <4>3. t \in Seq(Cell) /\ Len(t) = n /\ \A i \in 1..n : t[i] = store[at + i]
        <5>1. PICK z \in Nat : z = at + n
          BY <4>2
        <5>2. at <= z /\ z <= Len(store) /\ z - at = n
          BY <4>2, <5>1
        <5>3. /\ SubSeq(store, at + 1, z) \in Seq(Cell) /\ Len(SubSeq(store, at + 1, z)) = z - at
              /\ \A i \in 1..(z - at) : SubSeq(store, at + 1, z)[i] = store[at + i]
          BY <1>6, <1>7, <5>2, PartIs
        <5> QED BY <4>1, <5>1, <5>2, <5>3
      <4>4. \A i \in 1..n : s[i] = store[at + i]
        <5>1. at % Sec = 0 /\ s = ata_read(store, n, at)
          BY <1>3, <1>10, <3>1, <3>3
        <5>2. at % Sec = 0 /\ at + n <= Len(store) => \A i \in 1..n : ata_read(store, n, at)[i] = store[at + i]
          BY <1>6, <1>7, <1>8, AtaReadIs
        <5> QED BY <4>2, <5>1, <5>2
      <4>5. Len(s) = Len(t) /\ \A i \in 1..Len(s) : s[i] = t[i]
        BY <1>9, <4>2, <4>3, <4>4
      <4> QED BY <1>9, <4>1, <4>3, <4>5, SeqEqual
    <3> QED BY <3>2, <3>3
  <2> QED BY <2>1, <2>2
<1>11. PICK m : m = IF Before(off, size) \/ at > size THEN 0 ELSE min(len, size - at)
  OBVIOUS
<1>12. n = IF kind = "disk" THEN min(m, WBuf) ELSE m
  BY <1>2, <1>7, <1>11
<1>13. io'.op = "read" /\ io'.off = off /\ io'.len = len /\ io'.data = s /\ io'.ret = n
  BY <1>4
<1>14. ReadsExact'
  BY <1>4, <1>5, <1>9, <1>10, <1>11, <1>12, <1>13 DEF ReadsExact
<1> QED BY <1>4, <1>14

\* What the two action properties of Files say of a step.
WriteExact ==
    (io'.op \in {"write", "truncate"} /\ kind # "disk") =>
        LET at == Index(io'.off, size)
            room == IF kind = "tmpfs" THEN io'.ret ELSE min(io'.len, io'.ret)
        IN /\ kind = "tmpfs" /\ ~Before(io'.off, size) => io'.ret = Len(io'.data)
           /\ size' = IF kind = "fb" THEN size ELSE IF io'.op = "truncate" \/ at + io'.ret > size THEN at + io'.ret ELSE size
           /\ \A i \in 1..size' :
                \/ i > at /\ i <= at + room /\ store'[i] = io'.data[i - at]
                \/ (i <= at \/ i > at + room) /\ (i <= size => store'[i] = store[i])

SectorExact ==
    (io'.op = "write" /\ kind = "disk" /\ store' # store) =>
        LET at == Index(io'.off, size) IN
        \A i \in 1..size :
            /\ i > at /\ i <= at + io'.ret => store'[i] = io'.data[i - at]
            /\ (i - 1) \div Sec \notin (at \div Sec)..((at + io'.ret) \div Sec) => store'[i] = store[i]
            /\ at % Sec = 0 /\ io'.ret % Sec = 0 /\ (i <= at \/ i > at + io'.ret) => store'[i] = store[i]

\* A sequence of bytes is one of cells.
LEMMA DataAre ==
    ASSUME NEW n \in Nat, NEW s \in [1..n -> Datum]
    PROVE  s \in Seq(Cell) /\ Len(s) = n
<1>1. s \in Seq(Datum) /\ Len(s) = n
  OBVIOUS
<1>2. \A i \in 1..n : s[i] \in Cell
  BY DEF Cell
<1>3. s = [i \in 1..n |-> s[i]]
  OBVIOUS
<1> QED BY <1>1, <1>2, <1>3

LEMMA FirstIs ==
    ASSUME NEW s \in Seq(Cell), NEW n \in Nat, n <= Len(s)
    PROVE  SubSeq(s, 1, n) \in Seq(Cell) /\ Len(SubSeq(s, 1, n)) = n /\ \A i \in 1..n : SubSeq(s, 1, n)[i] = s[i]
<1>1. 0 + 1 = 1 /\ n - 0 = n /\ (\A i \in 1..n : 0 + i = i) /\ 0 \in Nat /\ 0 <= n
  OBVIOUS
<1>2. /\ SubSeq(s, 0 + 1, n) \in Seq(Cell) /\ Len(SubSeq(s, 0 + 1, n)) = n - 0
      /\ \A i \in 1..(n - 0) : SubSeq(s, 0 + 1, n)[i] = s[0 + i]
  BY <1>1, PartIs
<1> QED BY <1>1, <1>2

LEMMA WriteFbExact ==
    ASSUME FileOK(kind, store, size), NEW off \in Int, NEW len \in Nat, NEW s \in [1..len -> Datum], NEW k \in 0..len,
           WriteFb(off, s, k)
    PROVE  FileOK(kind, store, size)' /\ ReadsExact' /\ WriteExact /\ SectorExact
<1>1. PICK r : r = fs_normslice(off, Len(s), size, FALSE)
  OBVIOUS
<1>2. PICK n : n = min(k, r.len)
  OBVIOUS
<1>3. /\ kind = "fb" /\ store' = put(store, SubSeq(s, 1, n), r.off) /\ kind' = kind /\ size' = size
      /\ io' = [op |-> "write", off |-> off, len |-> k, data |-> s, ret |-> r.len]
  BY <1>1, <1>2 DEF WriteFb, Reply
<1>4. PICK at : at = Index(off, size)
  OBVIOUS
<1>5. store \in Seq(Cell) /\ Len(store) \in Nat /\ size \in Nat /\ size <= Len(store) /\ FALSE \in BOOLEAN
  BY DEF FileOK
<1>6. s \in Seq(Cell) /\ Len(s) = len
  BY DataAre
<1>7. /\ r.off \in Nat /\ r.len \in Nat /\ at \in Nat /\ r.len <= len /\ r.off + r.len <= size
      /\ IF Before(off, size) \/ at > size THEN r.len = 0 ELSE r.off = at
  <2>1. Sliced(off, len, size, FALSE, r, at)
    BY <1>1, <1>4, <1>5, <1>6, NormIs
  <2> QED BY <2>1 DEF Sliced
<1>8. n \in Nat /\ n <= r.len /\ n <= Len(s)
  BY <1>2, <1>6, <1>7 DEF min
<1>9. PICK t : t = SubSeq(s, 1, n)
  OBVIOUS
<1>10. t \in Seq(Cell) /\ Len(t) = n /\ \A i \in 1..n : t[i] = s[i]
  BY <1>6, <1>8, <1>9, FirstIs
<1>11. /\ store' \in Seq(Cell) /\ Len(store') = Len(store)
       /\ \A i \in 1..Len(store) : store'[i] = IF i > r.off /\ i <= r.off + n THEN t[i - r.off] ELSE store[i]
  <2>1. store' = put(store, t, r.off)
    BY <1>3, <1>9
  <2> QED BY <1>5, <1>7, <1>10, <2>1, PutIs
<1>12. ASSUME NEW i \in 1..size
       PROVE  \/ i > at /\ i <= at + n /\ store'[i] = s[i - at]
              \/ (i <= at \/ i > at + n) /\ store'[i] = store[i]
  <2>0. i \in Nat /\ i \in 1..Len(store)
    BY <1>5
  <2>1. CASE n = 0
    <3>1. ~(i > r.off /\ i <= r.off + n) /\ (i <= at \/ i > at + n)
      BY <1>7, <2>0, <2>1
    <3> QED BY <1>11, <2>0, <3>1
  <2>2. CASE n # 0
    <3>1. r.off = at
      BY <1>7, <1>8, <2>2
    <3>2. CASE i > at /\ i <= at + n
      <4>1. i - at \in 1..n
        BY <1>7, <1>8, <2>0, <3>2
      <4>2. store'[i] = t[i - at]
        BY <1>11, <2>0, <3>1, <3>2
      <4> QED BY <1>10, <3>2, <4>1, <4>2
    <3>3. CASE ~(i > at /\ i <= at + n)
      <4>1. i <= at \/ i > at + n
        BY <1>7, <1>8, <2>0, <3>3
      <4>2. store'[i] = store[i]
        BY <1>11, <2>0, <3>1, <3>3
      <4> QED BY <4>1, <4>2
    <3> QED BY <3>2, <3>3
  <2> QED BY <2>1, <2>2
<1>13. io'.op = "write" /\ io'.off = off /\ io'.len = k /\ io'.data = s /\ io'.ret = r.len
  BY <1>3
<1>14. WriteExact
  <2>1. kind # "tmpfs" /\ kind = "fb" /\ size' = size /\ n = min(io'.len, io'.ret) /\ at = Index(io'.off, size)
    BY <1>2, <1>3, <1>4, <1>13
  <2>2. \A i \in 1..size' : \/ i > at /\ i <= at + n /\ store'[i] = io'.data[i - at]
                            \/ (i <= at \/ i > at + n) /\ (i <= size => store'[i] = store[i])
    BY <1>12, <1>13, <2>1
  <2> QED BY <2>1, <2>2 DEF WriteExact
<1>15. FileOK(kind, store, size)'
  BY <1>3, <1>5, <1>11 DEF FileOK
<1>16. ReadsExact' /\ SectorExact
  BY <1>3, <1>13 DEF ReadsExact, SectorExact
<1> QED BY <1>14, <1>15, <1>16

LEMMA WriteDiskExact ==
    ASSUME FileOK(kind, store, size), NEW off \in Int, NEW len \in Nat, NEW s \in [1..len -> Datum], NEW k \in 0..len,
           WriteDisk(off, s, k)
    PROVE  FileOK(kind, store, size)' /\ ReadsExact' /\ WriteExact /\ SectorExact
<1>1. PICK r : r = fs_normslice(off, Len(s), size, FALSE)
  OBVIOUS
<1>2. PICK n : n = min(k, min(r.len, WBuf))
  OBVIOUS
<1>3. /\ kind = "disk" /\ kind' = kind /\ size' = size
      /\ store' = (IF min(r.len, WBuf) = 0 THEN store ELSE ata_write(store, SubSeq(s, 1, n), r.off))
      /\ io' = [op |-> "write", off |-> off, len |-> k, data |-> s, ret |-> n]
  BY <1>1, <1>2 DEF WriteDisk, Reply
<1>4. PICK at : at = Index(off, size)
  OBVIOUS
<1>5. store \in Seq(Cell) /\ Len(store) \in Nat /\ size \in Nat /\ size <= Len(store) /\ FALSE \in BOOLEAN /\ WBuf \in Nat
  BY FilesAssumption DEF FileOK
<1>6. s \in Seq(Cell) /\ Len(s) = len
  BY DataAre
<1>7. /\ r.off \in Nat /\ r.len \in Nat /\ at \in Nat /\ r.len <= len
      /\ IF Before(off, size) \/ at > size THEN r.len = 0 ELSE r.off = at
  <2>1. Sliced(off, len, size, FALSE, r, at)
    BY <1>1, <1>4, <1>5, <1>6, NormIs
  <2> QED BY <2>1 DEF Sliced
<1>8. n \in Nat /\ n <= Len(s) /\ n <= r.len
  BY <1>2, <1>5, <1>6, <1>7 DEF min
<1>9. io'.op = "write" /\ io'.off = off /\ io'.len = k /\ io'.data = s /\ io'.ret = n
  BY <1>3
<1>10. ReadsExact' /\ WriteExact
  BY <1>3, <1>9 DEF ReadsExact, WriteExact
<1>11. CASE min(r.len, WBuf) = 0
  <2>1. store' = store
    BY <1>3, <1>11
  <2>2. SectorExact
    BY <2>1 DEF SectorExact
  <2>3. FileOK(kind, store, size)'
    BY <1>3, <2>1 DEF FileOK
  <2> QED BY <1>10, <2>2, <2>3
<1>12. CASE min(r.len, WBuf) # 0
  <2>1. PICK t : t = SubSeq(s, 1, n)
    OBVIOUS
  <2>2. t \in Seq(Cell) /\ Len(t) = n /\ \A i \in 1..n : t[i] = s[i]
    BY <1>6, <1>8, <2>1, FirstIs
  <2>3. r.len # 0
    BY <1>5, <1>7, <1>12 DEF min
  <2>4. r.off = at
    BY <1>7, <2>3
  <2>5. store' = ata_write(store, t, at)
    BY <1>3, <1>12, <2>1, <2>4
  <2>6. AtaWritten(store, store', t, at)
    BY <1>5, <1>7, <2>2, <2>5, AtaWriteIs
  <2>7. /\ store' \in Seq(Cell) /\ Len(store') = Len(store)
        /\ \A i \in 1..Len(store) : i > at /\ i <= at + n => store'[i] = t[i - at]
        /\ \A i \in 1..Len(store) : (i - 1) \div Sec \notin (at \div Sec)..((at + n) \div Sec) => store'[i] = store[i]
        /\ at % Sec = 0 /\ n % Sec = 0 => \A i \in 1..Len(store) : i <= at \/ i > at + n => store'[i] = store[i]
    BY <2>2, <2>6 DEF AtaWritten
  <2>8. FileOK(kind, store, size)'
    BY <1>3, <1>5, <2>7 DEF FileOK
  <2>9. ASSUME NEW i \in 1..size
        PROVE  /\ i > at /\ i <= at + n => store'[i] = s[i - at]
               /\ (i - 1) \div Sec \notin (at \div Sec)..((at + n) \div Sec) => store'[i] = store[i]
               /\ at % Sec = 0 /\ n % Sec = 0 /\ (i <= at \/ i > at + n) => store'[i] = store[i]
    <3>1. i \in 1..Len(store) /\ i \in Nat
      BY <1>5
    <3>2. i > at /\ i <= at + n => i - at \in 1..n
      BY <1>7, <1>8, <3>1
    <3> QED BY <2>2, <2>7, <3>1, <3>2
  <2>10. SectorExact
    BY <1>4, <1>9, <2>9 DEF SectorExact
  <2> QED BY <1>10, <2>8, <2>10
<1> QED BY <1>11, <1>12

\* The memory of a file that is grown keeps its bytes.
LEMMA GrownIs ==
    ASSUME NEW b \in Seq(Cell), Len(b) % Round = 0, NEW end \in Nat, NEW g, g = grown(b, end)
    PROVE  /\ g \in Seq(Cell) /\ Len(g) % Round = 0 /\ Len(g) \in Nat /\ end <= Len(g) /\ Len(b) <= Len(g)
           /\ \A i \in 1..Len(b) : g[i] = b[i]
<1>1. Len(b) \in Nat /\ Round \in Nat \ {0}
  BY FilesAssumption
<1>2. CASE Len(b) > end
  <2>1. g = b
    BY <1>2 DEF grown
  <2> QED BY <1>1, <1>2, <2>1
<1>3. CASE ~(Len(b) > end)
  <2>1. PICK z : z = ((end + Round - 1) \div Round) * Round
    OBVIOUS
  <2>2. z \in Nat /\ z >= end /\ z % Round = 0
    BY <1>1, <2>1, RoundUp
  <2>3. g = [i \in 1..z |-> IF i <= Len(b) THEN b[i] ELSE Uninit]
    BY <1>3, <2>1 DEF grown
  <2>4. \A i \in 1..z : g[i] \in Cell
    <3> TAKE i \in 1..z
    <3>1. i <= Len(b) => i \in 1..Len(b)
      BY <1>1
    <3> QED BY <2>3, <3>1 DEF Cell
  <2>5. g \in Seq(Cell) /\ Len(g) = z
    <3>1. g = [i \in 1..z |-> g[i]]
      BY <2>3
    <3> QED BY <2>2, <2>4, <3>1
  <2>6. Len(b) <= z
    BY <1>1, <1>3, <2>2
  <2>7. \A i \in 1..Len(b) : g[i] = b[i]
    <3> TAKE i \in 1..Len(b)
    <3>1. i \in 1..z /\ i <= Len(b)
      BY <1>1, <2>2, <2>6
    <3> QED BY <2>3, <3>1
  <2> QED BY <2>2, <2>5, <2>6, <2>7
<1> QED BY <1>2, <1>3

LEMMA WriteTmpfsExact ==
    ASSUME FileOK(kind, store, size), NEW off \in Int, NEW len \in Nat, NEW s \in [1..len -> Datum], NEW truncate \in BOOLEAN,
           WriteTmpfs(off, s, truncate)
    PROVE  FileOK(kind, store, size)' /\ ReadsExact' /\ WriteExact /\ SectorExact
<1>1. PICK r : r = fs_normslice(off, Len(s), size, TRUE)
  OBVIOUS
<1>2. PICK end : end = r.off + r.len
  OBVIOUS
<1>3. /\ kind = "tmpfs" /\ kind' = kind
      /\ store' = put(grown(store, end), SubSeq(s, 1, r.len), r.off)
      /\ size' = (IF truncate \/ size < end THEN end ELSE size)
      /\ io' = [op |-> IF truncate THEN "truncate" ELSE "write", off |-> off, len |-> Len(s), data |-> s, ret |-> r.len]
  BY <1>1, <1>2 DEF WriteTmpfs, Reply
<1>4. PICK at : at = Index(off, size)
  OBVIOUS
<1>5. store \in Seq(Cell) /\ Len(store) \in Nat /\ size \in Nat /\ size <= Len(store) /\ TRUE \in BOOLEAN /\ Len(store) % Round = 0
  BY <1>3 DEF FileOK
<1>6. s \in Seq(Cell) /\ Len(s) = len
  BY DataAre
<1>7. /\ r.off = at /\ r.len \in Nat /\ at \in Nat /\ r.len <= len /\ (~Before(off, size) => r.len = len)
  <2>1. Sliced(off, len, size, TRUE, r, at)
    BY <1>1, <1>4, <1>5, <1>6, NormIs
  <2> QED BY <2>1 DEF Sliced
<1>8. PICK n \in Nat : n = r.len
  BY <1>7
<1>9. end = at + n /\ end \in Nat
  BY <1>2, <1>7, <1>8
<1>10. PICK t : t = SubSeq(s, 1, n)
  OBVIOUS
<1>11. t \in Seq(Cell) /\ Len(t) = n /\ \A i \in 1..n : t[i] = s[i]
  <2>1. n <= Len(s)
    BY <1>6, <1>7, <1>8
  <2> QED BY <1>6, <1>10, <2>1, FirstIs
<1>12. PICK g : g = grown(store, end)
  OBVIOUS
<1>13. /\ g \in Seq(Cell) /\ Len(g) % Round = 0 /\ Len(g) \in Nat /\ end <= Len(g) /\ Len(store) <= Len(g)
       /\ \A i \in 1..Len(store) : g[i] = store[i]
  BY <1>5, <1>9, <1>12, GrownIs
<1>14. /\ store' \in Seq(Cell) /\ Len(store') = Len(g)
       /\ \A i \in 1..Len(g) : store'[i] = IF i > at /\ i <= at + n THEN t[i - at] ELSE g[i]
  <2>1. store' = put(g, t, at)
    BY <1>3, <1>7, <1>8, <1>10, <1>12
  <2>2. /\ put(g, t, at) \in Seq(Cell) /\ Len(put(g, t, at)) = Len(g)
        /\ \A i \in 1..Len(g) : put(g, t, at)[i] = IF i > at /\ i <= at + Len(t) THEN t[i - at] ELSE g[i]
    BY <1>7, <1>11, <1>13, PutIs
  <2> QED BY <1>11, <2>1, <2>2
<1>15. size' \in Nat /\ size' <= Len(g)
  BY <1>3, <1>5, <1>9, <1>13
<1>16. FileOK(kind, store, size)'
  <2>1. size' \in 0..Len(store')
    BY <1>14, <1>15
  <2> QED BY <1>3, <1>13, <1>14, <2>1 DEF FileOK
<1>17. ASSUME NEW i \in 1..size'
       PROVE  \/ i > at /\ i <= at + n /\ store'[i] = s[i - at]
              \/ (i <= at \/ i > at + n) /\ (i <= size => store'[i] = store[i])
  <2>0. i \in Nat /\ i \in 1..Len(g)
    BY <1>13, <1>15
  <2>1. CASE i > at /\ i <= at + n
    <3>1. i - at \in 1..n
      BY <1>7, <2>0, <2>1
    <3> QED BY <1>11, <1>14, <2>0, <2>1, <3>1
  <2>2. CASE ~(i > at /\ i <= at + n)
    <3>1. i <= at \/ i > at + n
      BY <1>7, <2>0, <2>2
    <3>2. i <= size => i \in 1..Len(store)
      BY <1>5, <2>0
    <3>3. store'[i] = g[i]
      BY <1>14, <2>0, <2>2
    <3> QED BY <1>13, <3>1, <3>2, <3>3
  <2> QED BY <2>1, <2>2
<1>18. io'.op = (IF truncate THEN "truncate" ELSE "write") /\ io'.off = off /\ io'.data = s /\ io'.ret = n
  BY <1>3, <1>8
<1>19. WriteExact
  <2>1. io'.op = "truncate" <=> truncate
    BY <1>18
  <2>2. size' = IF io'.op = "truncate" \/ at + n > size THEN at + n ELSE size
    BY <1>3, <1>5, <1>9, <2>1
  <2>3. ~Before(off, size) => n = Len(s)
    BY <1>6, <1>7, <1>8
  <2> QED BY <1>3, <1>4, <1>17, <1>18, <2>2, <2>3 DEF WriteExact
<1>20. ReadsExact' /\ SectorExact
  <2>1. io'.op # "read"
    BY <1>18
  <2> QED BY <1>3, <2>1 DEF ReadsExact, SectorExact
<1> QED BY <1>16, <1>19, <1>20

LEMMA FilesStart == FilesInit => FilesInv
<1> SUFFICES ASSUME FilesInit PROVE FilesInv
  OBVIOUS
<1>1. io.op = "none"
  BY DEF FilesInit, NoRequest
<1>2. ReadsExact
  BY <1>1 DEF ReadsExact
<1>3. kind \in {"list", "fb", "disk", "tmpfs"} /\ size = Len(store)
  BY DEF FilesInit
<1>4. CASE kind = "tmpfs"
  <2>1. store = <<>>
    BY <1>4 DEF FilesInit
  <2>2. Len(store) = 0 /\ store \in Seq(Cell)
    BY <2>1
  <2>3. 0 % Round = 0
    BY FilesAssumption
  <2> QED BY <1>2, <1>3, <2>2, <2>3 DEF FilesInv, FileOK
<1>5. CASE kind # "tmpfs"
  <2>1. PICK n \in Nat : store \in [1..n -> Datum]
    <3>1. CASE kind = "disk"
      <4>1. Sec * Sectors \in Nat
        BY FilesAssumption
      <4> QED BY <3>1, <4>1 DEF FilesInit
    <3>2. CASE kind # "disk"
      <4>1. MemLen \in Nat
        BY FilesAssumption
      <4>2. store \in [1..MemLen -> Datum]
        BY <1>3, <1>5, <3>2 DEF FilesInit
      <4> QED BY <4>1, <4>2
    <3> QED BY <3>1, <3>2
  <2>2. store \in Seq(Cell) /\ Len(store) = n
    BY <2>1, DataAre
  <2> QED BY <1>2, <1>3, <1>5, <2>2 DEF FilesInv, FileOK
<1> QED BY <1>4, <1>5

LEMMA FilesStep ==
    ASSUME FilesInv, [FilesNext]_files_vars
    PROVE  FilesInv' /\ [WriteExact]_files_vars /\ [SectorExact]_files_vars
<1>1. FileOK(kind, store, size)
  BY DEF FilesInv
<1>2. CASE UNCHANGED files_vars
  <2>1. kind' = kind /\ store' = store /\ size' = size /\ io' = io
    BY <1>2 DEF files_vars
  <2>2. FilesInv'
    BY <2>1 DEF FilesInv, FileOK, ReadsExact
  <2> QED BY <1>2, <2>2
<1>3. CASE Answered \/ GetSize
  <2>1. kind' = kind /\ store' = store /\ size' = size /\ io'.op \in {"none", "getsize"}
    BY <1>3 DEF Answered, GetSize, NoRequest, Reply
  <2>2. FileOK(kind, store, size)'
    BY <1>1, <2>1 DEF FileOK
  <2>3. ReadsExact' /\ WriteExact /\ SectorExact
    BY <2>1 DEF ReadsExact, WriteExact, SectorExact
  <2> QED BY <2>2, <2>3 DEF FilesInv
<1>4. ASSUME NEW off \in -(MaxOff + 2)..MaxOff, NEW len \in 0..MaxIo,
             \/ ReadAt(off, len)
             \/ \E s \in [1..len -> Datum] :
                    \/ \E truncate \in BOOLEAN : WriteTmpfs(off, s, truncate)
                    \/ \E k \in 0..len : WriteFb(off, s, k) \/ WriteDisk(off, s, k)
      PROVE  FilesInv' /\ WriteExact /\ SectorExact
  <2>1. off \in Int /\ len \in Nat
    BY FilesAssumption
  <2>2. CASE ReadAt(off, len)
    <3>1. FilesInv'
      BY <1>1, <2>1, <2>2, ReadAtExact DEF FilesInv
    <3>2. io'.op = "read"
      BY <2>2 DEF ReadAt, Reply
    <3>3. WriteExact /\ SectorExact
      BY <3>2 DEF WriteExact, SectorExact
    <3> QED BY <3>1, <3>3
  <2>3. ASSUME NEW s \in [1..len -> Datum], NEW truncate \in BOOLEAN, WriteTmpfs(off, s, truncate)
        PROVE  FilesInv' /\ WriteExact /\ SectorExact
    BY <1>1, <2>1, <2>3, WriteTmpfsExact DEF FilesInv
  <2>4. ASSUME NEW s \in [1..len -> Datum], NEW k \in 0..len, WriteFb(off, s, k)
        PROVE  FilesInv' /\ WriteExact /\ SectorExact
    BY <1>1, <2>1, <2>4, WriteFbExact DEF FilesInv
  <2>5. ASSUME NEW s \in [1..len -> Datum], NEW k \in 0..len, WriteDisk(off, s, k)
        PROVE  FilesInv' /\ WriteExact /\ SectorExact
    BY <1>1, <2>1, <2>5, WriteDiskExact DEF FilesInv
  <2> QED BY <1>4, <2>2, <2>3, <2>4, <2>5
<1> QED BY <1>2, <1>3, <1>4 DEF FilesNext

\* Every read of a file in memory returns the bytes of the slice that
\* fs_normslice describes, as many as there are, one of a disk that begins at a
\* sector as well, and a file always fits the memory that holds it.
THEOREM FilesAlwaysSound == FilesSpec => []FilesSound
<1>1. FilesInv /\ [FilesNext]_files_vars => FilesInv'
  BY FilesStep
<1>2. FilesInv => FilesSound
  <2> SUFFICES ASSUME FilesInv PROVE FilesSound
    OBVIOUS
  <2>1. FileOK(kind, store, size) /\ ReadsExact
    BY DEF FilesInv
  <2>2. store \in Seq(Cell)
    BY <2>1 DEF FileOK
  <2>3. \A i \in DOMAIN store : store[i] \in Datum \cup {Uninit}
    BY <2>2 DEF Cell
  <2> QED BY <2>1, <2>3 DEF FilesSound, FilesTypeOK, FileOK
<1> QED BY <1>1, <1>2, FilesStart, PTL DEF FilesSpec

\* Every write changes the bytes of its slice and no others: exactly in memory,
\* where only tmpfs makes the file longer or shorter, and on a disk up to the
\* rest of the first and the last sector, which ata_write may spoil.
THEOREM WritesAlwaysSound == FilesSpec => WritesSound
<1>1. FilesInv /\ [FilesNext]_files_vars => FilesInv'
  BY FilesStep
<1>2. FilesInv /\ [FilesNext]_files_vars => [WriteExact]_files_vars /\ [SectorExact]_files_vars
  BY FilesStep
<1>3. [][WriteExact]_files_vars => WritesExact
  BY PTL DEF WriteExact, WritesExact
<1>4. [][SectorExact]_files_vars => SectorsExact
  BY PTL DEF SectorExact, SectorsExact
<1> QED BY <1>1, <1>2, <1>3, <1>4, FilesStart, PTL DEF FilesSpec, WritesSound

-----------------------------------------------------------------------------
(* Streams, src/libc/stdio/file.c.  In what follows g is a file, x a stream *)
(* and y a call.                                                            *)

Data   == Octet \cup {Gap}
StreamType == [pos : Int, rb : Seq(Data), pb : Seq(Data), eof : BOOLEAN, error : BOOLEAN,
           buffered : BOOLEAN, nofill : BOOLEAN]
CallType == [op : {"idle", "fread", "fwrite"}, total : Nat, done : Seq(Data), data : Seq(Data),
           was : Seq(Data), at : Int, pb : Seq(Data)]

\* The index of the position p in the file g.
place(g, p) == IF p >= 0 THEN p ELSE Len(g) + 1 + p

\* The stream and the call are within the bounds.
Bounded(g, x, y) ==
    /\ Len(g) <= MaxFile /\ Len(x.rb) <= RbCap /\ Len(x.pb) <= 1
    /\ place(g, x.pos) \in 0..MaxFile
    /\ Len(y.was) <= MaxFile /\ Len(y.pb) <= 1
    /\ place(y.was, y.at) \in 0..MaxFile
    /\ y.at < 0 => x.pos < 0
    /\ Len(y.done) <= y.total
    /\ y.op # "idle" => Len(y.done) < y.total
    /\ y.op = "fread" => y.data = <<>>
    /\ y.op = "fwrite" => y.data # <<>>

\* The read buffer, if there is one, is what comes next.
Buffered(g, x) ==
    x.rb # <<>> => /\ x.buffered
                   /\ place(g, x.pos) + Len(x.rb) <= Len(g)
                   /\ \A i \in 1..Len(x.rb) : x.rb[i] = g[place(g, x.pos) + i]

\* What fread has returned: the byte that was pushed back, then the file.
Delivered(y) ==
    \A i \in 1..Len(y.done) :
        IF i <= Len(y.pb) THEN y.done[i] = y.pb[i]
        ELSE /\ place(y.was, y.at) + i - Len(y.pb) <= Len(y.was)
             /\ y.done[i] = y.was[place(y.was, y.at) + i - Len(y.pb)]
Reading(g, x, y) ==
    y.data = <<>> =>
        /\ g = y.was
        /\ x.pb = <<>> \/ (y.done = <<>> /\ x.pb = y.pb)
        /\ Len(y.pb) <= Len(y.done) + Len(x.pb)
        /\ place(g, x.pos) + Len(y.pb) = place(y.was, y.at) + Len(y.done) + Len(x.pb)
        /\ Delivered(y)

\* Why fread returned less than it was asked for.
Ended(g, x, y) ==
    y.data = <<>> /\ y.op = "idle" /\ Len(y.done) < y.total =>
        x.error \/ x.nofill \/ (x.eof /\ x.pb = <<>> /\ Len(g) <= place(g, x.pos))

\* What fwrite has written.
Writing(g, x, y) ==
    y.data # <<>> =>
        /\ x.rb = <<>> /\ x.pb = <<>>
        /\ Len(y.data) = y.total /\ place(y.was, y.at) + y.total <= MaxFile
        /\ place(g, x.pos) = place(y.was, y.at) + Len(y.done)
        /\ \A i \in 1..Len(y.done) : y.done[i] = y.data[i]
        /\ g = IF y.done = <<>> THEN y.was ELSE spliced(y.was, place(y.was, y.at), y.done)

StdioInvOf(g, x, y) ==
    /\ g \in Seq(Data) /\ x \in StreamType /\ y \in CallType
    /\ Bounded(g, x, y) /\ Buffered(g, x) /\ Reading(g, x, y) /\ Ended(g, x, y) /\ Writing(g, x, y)

StdioInv == StdioInvOf(file, f, call)

-----------------------------------------------------------------------------
(* Positions. *)

moved(p, n) == IF p < 0 /\ p + n >= 0 THEN -1 ELSE p + n

LEMMA AdvanceIs ==
    ASSUME NEW x \in StreamType, NEW n \in Nat
    PROVE  /\ fadvance(n, x) \in StreamType /\ fadvance(n, x).pos = moved(x.pos, n)
           /\ fadvance(n, x).rb = x.rb /\ fadvance(n, x).pb = x.pb /\ fadvance(n, x).nofill = x.nofill
           /\ fadvance(n, x).buffered = x.buffered
<1>1. fadvance(n, x) = [x EXCEPT !.pos = moved(x.pos, n)]
  BY DEF fadvance, moved, StreamType
<1>2. moved(x.pos, n) \in Int
  BY DEF moved, StreamType
<1> QED BY <1>1, <1>2 DEF StreamType

\* A read that stays within the file moves the position by what it read,
LEMMA MovedByRead ==
    ASSUME NEW g \in Seq(Data), NEW p \in Int, NEW n \in Nat, place(g, p) + n <= Len(g)
    PROVE  /\ moved(p, n) \in Int /\ place(g, moved(p, n)) = place(g, p) + n
           /\ p < 0 => moved(p, n) < 0
<1>1. PICK l \in Nat : l = Len(g)
  BY LenProperties
<1> QED BY <1>1 DEF moved, place

\* and so does a write, also when it makes the file longer.
Grown(g, nf, i, n) == Len(nf) = IF i + n > Len(g) THEN i + n ELSE Len(g)

LEMMA MovedByWrite ==
    ASSUME NEW g \in Seq(Data), NEW nf \in Seq(Data), NEW p \in Int, NEW n \in Nat, Grown(g, nf, place(g, p), n)
    PROVE  /\ moved(p, n) \in Int /\ place(nf, moved(p, n)) = place(g, p) + n
           /\ p < 0 => moved(p, n) < 0
<1>1. PICK l \in Nat : l = Len(g)
  BY LenProperties
<1>2. PICK m \in Nat : m = Len(nf)
  BY LenProperties
<1>3. CASE p >= 0
  BY <1>3 DEF moved, place
<1>4. CASE p < 0
  <2>1. place(g, p) = l + 1 + p
    BY <1>1, <1>4 DEF place
  <2>2. m = IF l + 1 + p + n > l THEN l + 1 + p + n ELSE l
    BY <1>1, <1>2, <2>1 DEF Grown
  <2>3. moved(p, n) < 0 /\ moved(p, n) \in Int
    BY <1>4 DEF moved
  <2>4. place(nf, moved(p, n)) = m + 1 + moved(p, n)
    BY <1>2, <2>3 DEF place
  <2>5. m + 1 + moved(p, n) = l + 1 + p + n
    BY <1>4, <2>2 DEF moved
  <2> QED BY <2>1, <2>3, <2>4, <2>5
<1> QED BY <1>3, <1>4

LEMMA PosIs == \A p : norm(p) = place(file, p)
  BY DEF norm, place

\* What a system call may return.
LEMMA ReadsAre ==
    ASSUME file \in Seq(Data), NEW n \in Nat, NEW p \in Int, place(file, p) \in Nat, NEW s \in reads(n, p)
    PROVE  /\ s \in Seq(Data) /\ Len(s) <= n
           /\ s # <<>> => place(file, p) + Len(s) <= Len(file)
           /\ \A i \in 1..Len(s) : s[i] = file[place(file, p) + i]
           /\ s = <<>> => n = 0 \/ Len(file) <= place(file, p)
<1>1. PICK a \in Nat : a = place(file, p)
  OBVIOUS
<1>2. PICK l \in Nat : l = Len(file)
  BY LenProperties
<1>3. PICK rest : rest = SubSeq(file, a + 1, l)
  OBVIOUS
<1>4. rest \in Seq(Data) /\ Len(rest) = (IF a + 1 <= l THEN l - a ELSE 0)
      /\ \A i \in 1..Len(rest) : rest[i] = file[a + i]
  <2>1. CASE a + 1 <= l
    <3>1. a + 1 \in 1..(Len(file) + 1) /\ l \in (a + 1 - 1)..Len(file)
      BY <1>2, <2>1
    <3>2. rest \in Seq(Data) /\ Len(rest) = l - (a + 1) + 1 /\ \A i \in 1..(l - (a + 1) + 1) : rest[i] = file[a + 1 + i - 1]
      BY <1>2, <1>3, <2>1, SubSeqProperties
    <3>3. l - (a + 1) + 1 = l - a /\ \A i \in 1..(l - a) : a + 1 + i - 1 = a + i
      BY <2>1
    <3> QED BY <3>2, <3>3, <2>1
  <2>2. CASE ~(a + 1 <= l)
    <3>1. rest = <<>>
      BY <1>2, <1>3, <2>2, SubSeqEmpty
    <3> QED BY <3>1, <2>2
  <2> QED BY <2>1, <2>2
<1>5. PICK most \in Nat : most = IF n < Len(rest) THEN n ELSE Len(rest)
  BY <1>4, LenProperties
<1>6. s \in IF most = 0 THEN {<<>>} ELSE {SubSeq(rest, 1, k) : k \in 1..most}
  <2>0. norm(p) = a /\ ~(a < 0)
    BY <1>1, PosIs
  <2>1. (IF norm(p) < 0 THEN <<>> ELSE SubSeq(file, norm(p) + 1, Len(file))) = rest
    BY <1>2, <1>3, <2>0
  <2>2. reads(n, p) = IF most = 0 THEN {<<>>} ELSE {SubSeq(rest, 1, k) : k \in 1..most}
    BY <2>1, <1>5 DEF reads
  <2> QED BY <2>2
<1>7. CASE most = 0
  <2>1. s = <<>>
    BY <1>6, <1>7
  <2>2. n = 0 \/ Len(rest) = 0
    BY <1>4, <1>5, <1>7, LenProperties
  <2> QED BY <1>1, <1>2, <1>4, <2>1, <2>2
<1>8. CASE most # 0
  <2>1. PICK k \in 1..most : s = SubSeq(rest, 1, k)
    BY <1>6, <1>8
  <2>2. k \in Nat /\ k > 0 /\ k <= Len(rest) /\ k <= n
    BY <1>4, <1>5, <2>1, LenProperties
  <2>3. s \in Seq(Data) /\ Len(s) = k /\ \A i \in 1..k : s[i] = rest[i]
    BY <1>4, <2>1, <2>2, SubSeqProperties
  <2>4. s # <<>>
    BY <2>2, <2>3
  <2>5. a + k <= l
    BY <1>4, <2>2
  <2>6. \A i \in 1..k : s[i] = file[a + i]
    BY <1>4, <2>2, <2>3
  <2>7. /\ s \in Seq(Data) /\ Len(s) <= n
        /\ a + Len(s) <= Len(file)
        /\ \A i \in 1..Len(s) : s[i] = file[a + i]
    BY <1>2, <2>2, <2>3, <2>5, <2>6
  <2> QED BY <1>1, <2>4, <2>7
<1> QED BY <1>7, <1>8

-----------------------------------------------------------------------------
(* The file after a write. *)

LEMMA SplicedIs ==
    ASSUME NEW g \in Seq(Data), NEW i \in Nat, NEW s \in Seq(Data)
    PROVE  /\ spliced(g, i, s) \in Seq(Data)
           /\ Len(spliced(g, i, s)) = IF i + Len(s) > Len(g) THEN i + Len(s) ELSE Len(g)
           /\ \A k \in 1..Len(spliced(g, i, s)) :
                spliced(g, i, s)[k] = IF k > i /\ k <= i + Len(s) THEN s[k - i] ELSE IF k <= Len(g) THEN g[k] ELSE Gap
<1>1. PICK n \in Nat : n = IF i + Len(s) > Len(g) THEN i + Len(s) ELSE Len(g)
  BY LenProperties
<1>2. PICK t : t = [k \in 1..n |-> IF k > i /\ k <= i + Len(s) THEN s[k - i] ELSE IF k <= Len(g) THEN g[k] ELSE Gap]
  OBVIOUS
<1>3. spliced(g, i, s) = t
  BY <1>1, <1>2 DEF spliced
<1>4. \A k \in 1..n : t[k] \in Data
  <2> SUFFICES ASSUME NEW k \in 1..n PROVE t[k] \in Data
    OBVIOUS
  <2>1. k > i /\ k <= i + Len(s) => k - i \in 1..Len(s)
    BY LenProperties
  <2>2. k <= Len(g) => k \in 1..Len(g)
    BY LenProperties
  <2>3. Gap \in Data
    BY DEF Data
  <2>4. (k - i \in 1..Len(s) => s[k - i] \in Data) /\ (k \in 1..Len(g) => g[k] \in Data)
    BY ElementOfSeq
  <2> QED BY <1>2, <2>1, <2>2, <2>3, <2>4
<1>5. t \in [1..n -> Data]
  BY <1>2, <1>4
<1>6. t \in Seq(Data) /\ Len(t) = n
  BY <1>5, LenProperties
<1> QED BY <1>1, <1>2, <1>3, <1>6

\* Two writes, one behind the other, are one.
LEMMA SplicedTwice ==
    ASSUME NEW g \in Seq(Data), NEW i \in Nat, NEW s \in Seq(Data), NEW t \in Seq(Data)
    PROVE  spliced(spliced(g, i, s), i + Len(s), t) = spliced(g, i, s \o t)
<1>1. PICK a : a = spliced(g, i, s)
  OBVIOUS
<1>2. PICK m \in Nat : m = Len(s)
  BY LenProperties
<1>3. PICK n \in Nat : n = Len(t)
  BY LenProperties
<1>4. PICK l \in Nat : l = Len(g)
  BY LenProperties
<1>5. a \in Seq(Data) /\ Len(a) = (IF i + m > l THEN i + m ELSE l)
      /\ \A k \in 1..Len(a) : a[k] = IF k > i /\ k <= i + m THEN s[k - i] ELSE IF k <= l THEN g[k] ELSE Gap
  <2>1. /\ a \in Seq(Data) /\ Len(a) = IF i + Len(s) > Len(g) THEN i + Len(s) ELSE Len(g)
        /\ \A k \in 1..Len(a) : a[k] = IF k > i /\ k <= i + Len(s) THEN s[k - i] ELSE IF k <= Len(g) THEN g[k] ELSE Gap
    BY <1>1, SplicedIs, Zenon
  <2> QED BY <1>2, <1>4, <2>1
<1>6. PICK b : b = spliced(a, i + m, t)
  OBVIOUS
<1>7. b \in Seq(Data) /\ Len(b) = (IF i + m + n > Len(a) THEN i + m + n ELSE Len(a))
      /\ \A k \in 1..Len(b) : b[k] = IF k > i + m /\ k <= i + m + n THEN t[k - (i + m)] ELSE IF k <= Len(a) THEN a[k] ELSE Gap
  BY <1>3, <1>5, <1>6, SplicedIs
<1>8. PICK st : st = s \o t
  OBVIOUS
<1>9. st \in Seq(Data) /\ Len(st) = m + n
      /\ \A k \in 1..(m + n) : st[k] = IF k <= m THEN s[k] ELSE t[k - m]
  BY <1>2, <1>3, <1>8, ConcatProperties
<1>10. PICK u : u = spliced(g, i, st)
  OBVIOUS
<1>11. u \in Seq(Data) /\ Len(u) = (IF i + (m + n) > l THEN i + (m + n) ELSE l)
       /\ \A k \in 1..Len(u) : u[k] = IF k > i /\ k <= i + (m + n) THEN st[k - i] ELSE IF k <= l THEN g[k] ELSE Gap
  <2>1. st \in Seq(Data) /\ Len(st) = m + n
    BY <1>9
  <2>2. /\ u \in Seq(Data)
        /\ Len(u) = IF i + Len(st) > Len(g) THEN i + Len(st) ELSE Len(g)
        /\ \A k \in 1..Len(u) : u[k] = IF k > i /\ k <= i + Len(st) THEN st[k - i] ELSE IF k <= Len(g) THEN g[k] ELSE Gap
    <3>1. \A w \in Seq(Data) :
             /\ spliced(g, i, w) \in Seq(Data)
             /\ Len(spliced(g, i, w)) = IF i + Len(w) > Len(g) THEN i + Len(w) ELSE Len(g)
             /\ \A k \in 1..Len(spliced(g, i, w)) :
                  spliced(g, i, w)[k] = IF k > i /\ k <= i + Len(w) THEN w[k - i] ELSE IF k <= Len(g) THEN g[k] ELSE Gap
      <4> SUFFICES ASSUME NEW w \in Seq(Data)
                   PROVE  /\ spliced(g, i, w) \in Seq(Data)
                          /\ Len(spliced(g, i, w)) = IF i + Len(w) > Len(g) THEN i + Len(w) ELSE Len(g)
                          /\ \A k \in 1..Len(spliced(g, i, w)) :
                               spliced(g, i, w)[k] = IF k > i /\ k <= i + Len(w) THEN w[k - i]
                                                     ELSE IF k <= Len(g) THEN g[k] ELSE Gap
        OBVIOUS
      <4> QED BY SplicedIs, Zenon
    <3> QED BY <2>1, <1>10, <3>1, Zenon
  <2> QED BY <2>1, <2>2, <1>4
<1>12. Len(b) = Len(u)
  BY <1>5, <1>7, <1>11
<1>13. \A k \in 1..Len(b) : b[k] = u[k]
  <2> SUFFICES ASSUME NEW k \in 1..Len(b) PROVE b[k] = u[k]
    OBVIOUS
  <2>0. k \in Nat /\ k > 0 /\ k \in 1..Len(u) /\ k <= Len(b)
    BY <1>12, LenProperties, <1>7
  <2>1. CASE k <= i
    BY <1>5, <1>7, <1>11, <2>0, <2>1
  <2>2. CASE k > i /\ k <= i + m
    <3>1. u[k] = st[k - i] /\ k - i \in 1..(m + n) /\ k - i <= m
      BY <1>11, <2>0, <2>2
    <3>2. st[k - i] = s[k - i]
      BY <1>9, <3>1
    <3>3. k \in 1..Len(a) /\ b[k] = a[k]
      BY <1>5, <1>7, <2>0, <2>2
    <3> QED BY <1>5, <2>2, <3>1, <3>2, <3>3
  <2>3. CASE k > i + m /\ k <= i + m + n
    <3>1. u[k] = st[k - i] /\ k - i \in 1..(m + n) /\ ~(k - i <= m)
      <4>1. k > i /\ k <= i + (m + n) /\ k - i \in 1..(m + n) /\ ~(k - i <= m)
        BY <2>0, <2>3
      <4> QED BY <1>11, <2>0, <4>1
    <3>2. st[k - i] = t[k - i - m]
      BY <1>9, <3>1
    <3>3. k - i - m = k - (i + m)
      BY <2>0
    <3>4. b[k] = t[k - (i + m)]
      BY <1>7, <2>3
    <3> QED BY <3>1, <3>2, <3>3, <3>4
  <2>4. CASE k > i + m + n
    <3>1. k <= Len(a) /\ b[k] = a[k]
      BY <1>5, <1>7, <2>0, <2>4
    <3> QED BY <1>5, <1>11, <2>0, <2>4, <3>1
  <2> QED BY <2>0, <2>1, <2>2, <2>3, <2>4
<1> QED BY <1>1, <1>2, <1>6, <1>7, <1>8, <1>10, <1>11, <1>12, <1>13, SeqEqual

-----------------------------------------------------------------------------
(* Calls that return at once, and the beginning of the others. *)

\* A call that starts at the stream as it is.
Begun(g, x, y) ==
    /\ y.done = <<>> /\ y.was = g /\ y.at = x.pos /\ y.pb = x.pb
    /\ Len(g) <= MaxFile /\ Len(x.rb) <= RbCap /\ Len(x.pb) <= 1 /\ place(g, x.pos) \in 0..MaxFile

LEMMA BegunRead ==
    ASSUME NEW g \in Seq(Data), NEW x \in StreamType, NEW y \in CallType, Begun(g, x, y), Buffered(g, x),
           y.data = <<>>, y.op = IF y.total = 0 THEN "idle" ELSE "fread"
    PROVE  StdioInvOf(g, x, y)
<1>1. Len(y.done) = 0 /\ y.total \in Nat
  BY DEF Begun, CallType
<1>2. Bounded(g, x, y)
  BY <1>1 DEF Begun, Bounded
<1>3. Delivered(y)
  BY <1>1 DEF Delivered
<1>4. PICK a \in Nat : a = place(g, x.pos)
  BY DEF Begun
<1>5. PICK n \in Nat : n = Len(x.pb)
  BY LenProperties DEF StreamType
<1>6. Reading(g, x, y)
  BY <1>1, <1>3, <1>4, <1>5 DEF Reading, Begun
<1>7. Ended(g, x, y) /\ Writing(g, x, y)
  BY <1>1 DEF Ended, Writing
<1> QED BY <1>2, <1>6, <1>7 DEF StdioInvOf

LEMMA QuickKeeps ==
    ASSUME file' \in Seq(Data), f' \in StreamType, Quick, Buffered(file', f'),
           Len(file') <= MaxFile, Len(f'.rb) <= RbCap, Len(f'.pb) <= 1, place(file', f'.pos) \in 0..MaxFile
    PROVE  StdioInvOf(file', f', call')
<1>1. PICK g \in Seq(Data) : g = file'
  OBVIOUS
<1>2. PICK x \in StreamType : x = f'
  OBVIOUS
<1>3. PICK y : y = call'
  OBVIOUS
<1>4. y = [op |-> "idle", total |-> 0, done |-> <<>>, data |-> <<>>, was |-> g, at |-> x.pos, pb |-> x.pb]
  BY <1>1, <1>2, <1>3 DEF Quick
<1>5. <<>> \in Seq(Data)
  BY EmptySeq
<1>6. x.pos \in Int /\ x.pb \in Seq(Data)
  BY DEF StreamType
<1>7. y \in CallType /\ y.op = "idle" /\ y.total = 0 /\ y.data = <<>>
      /\ y.done = <<>> /\ y.was = g /\ y.at = x.pos /\ y.pb = x.pb
  BY <1>4, <1>5, <1>6 DEF CallType
<1>8. Begun(g, x, y)
  BY <1>1, <1>2, <1>7 DEF Begun
<1>9. Buffered(g, x)
  BY <1>1, <1>2
<1>10. StdioInvOf(g, x, y)
  BY <1>7, <1>8, <1>9, BegunRead
<1> QED BY <1>1, <1>2, <1>3, <1>10

\* What the invariant says of the stream.
Steady(g, x) ==
    /\ g \in Seq(Data) /\ x \in StreamType /\ Buffered(g, x)
    /\ Len(g) <= MaxFile /\ Len(x.rb) <= RbCap /\ Len(x.pb) <= 1 /\ place(g, x.pos) \in 0..MaxFile

LEMMA InvStream == ASSUME StdioInv PROVE Steady(file, f) /\ call \in CallType
  BY DEF StdioInv, StdioInvOf, Bounded, Steady

LEMMA QuickOK == ASSUME Steady(file', f'), Quick PROVE StdioInvOf(file', f', call')
  BY QuickKeeps DEF Steady

\* Without a buffer nothing has to be coherent.
LEMMA NoBuffer == ASSUME NEW g, NEW x, x.rb = <<>> PROVE Buffered(g, x)
  BY DEF Buffered

LEMMA FreadKeeps == ASSUME StdioInv, NEW n \in Sizes, Fread(n) PROVE StdioInvOf(file', f', call')
<1>1. Steady(file, f) /\ n \in Nat
  BY InvStream, StdioAssumption
<1>2. PICK y : y = call'
  OBVIOUS
<1>3. y = [op |-> IF n = 0 THEN "idle" ELSE "fread", total |-> n, done |-> <<>>, data |-> <<>>, was |-> file, at |-> f.pos, pb |-> f.pb]
  BY <1>2 DEF Fread, Begin
<1>4. <<>> \in Seq(Data)
  BY EmptySeq
<1>5. f.pos \in Int /\ f.pb \in Seq(Data) /\ file \in Seq(Data)
  BY <1>1 DEF StreamType, Steady
<1>6. y \in CallType /\ y.op = (IF y.total = 0 THEN "idle" ELSE "fread") /\ y.data = <<>>
      /\ y.done = <<>> /\ y.was = file /\ y.at = f.pos /\ y.pb = f.pb
  BY <1>1, <1>3, <1>4, <1>5 DEF CallType
<1>7. Begun(file, f, y)
  BY <1>1, <1>6 DEF Begun, Steady
<1>8. StdioInvOf(file, f, y)
  BY <1>1, <1>6, <1>7, BegunRead DEF Steady
<1> QED BY <1>2, <1>8 DEF Fread

LEMMA FwriteKeeps ==
    ASSUME StdioInv, NEW n \in Sizes, NEW s \in [1..n -> Octet], Fwrite(s)
    PROVE  StdioInvOf(file', f', call')
<1>1. Steady(file, f) /\ n \in Nat
  BY InvStream, StdioAssumption
<1>2. s \in Seq(Data) /\ Len(s) = n
  <2>1. s \in [1..n -> Data]
    BY DEF Data
  <2> QED BY <1>1, <2>1, LenProperties
<1>3. PICK y : y = call'
  OBVIOUS
<1>4. y = [op |-> IF s = <<>> THEN "idle" ELSE "fwrite", total |-> n, done |-> <<>>, data |-> s, was |-> file, at |-> f.pos, pb |-> f.pb]
  BY <1>2, <1>3 DEF Fwrite, Begin
<1>5. <<>> \in Seq(Data)
  BY EmptySeq
<1>6. f.pos \in Int /\ f.pb \in Seq(Data) /\ file \in Seq(Data) /\ f \in StreamType
  BY <1>1 DEF StreamType, Steady
<1>7. y \in CallType /\ y.op = (IF s = <<>> THEN "idle" ELSE "fwrite") /\ y.data = s /\ y.total = n
      /\ y.done = <<>> /\ y.was = file /\ y.at = f.pos /\ y.pb = f.pb
  BY <1>1, <1>2, <1>4, <1>5, <1>6 DEF CallType
<1>8. Begun(file, f, y)
  BY <1>1, <1>7 DEF Begun, Steady
<1>9. Buffered(file, f)
  BY <1>1 DEF Steady
<1>10. CASE s = <<>>
  <2>1. n = 0
    BY <1>2, <1>10
  <2>2. y.op = IF y.total = 0 THEN "idle" ELSE "fread"
    BY <1>7, <1>10, <2>1
  <2>3. StdioInvOf(file, f, y)
    BY <1>6, <1>7, <1>8, <1>9, <1>10, <2>2, BegunRead
  <2> QED BY <1>3, <2>3 DEF Fwrite
<1>11. CASE s # <<>>
  <2>1. n > 0
    BY <1>1, <1>2, <1>11, EmptySeq
  <2>2. Len(y.done) = 0
    BY <1>7
  <2>3. PICK a \in Nat : a = place(file, f.pos) /\ a + n <= MaxFile
    <3>1. norm(f.pos) \in 0..(MaxFile - Len(s))
      BY DEF Fwrite
    <3> QED BY <1>1, <1>2, <3>1, PosIs, StdioAssumption
  <2>4. Bounded(file, f, y)
    <3>1. /\ Len(file) <= MaxFile /\ Len(f.rb) <= RbCap /\ Len(f.pb) <= 1 /\ place(file, f.pos) \in 0..MaxFile
      BY <1>8 DEF Begun
    <3>2. /\ Len(y.was) <= MaxFile /\ Len(y.pb) <= 1 /\ place(y.was, y.at) \in 0..MaxFile
          /\ y.at < 0 => f.pos < 0
      BY <1>7, <3>1
    <3>3. Len(y.done) <= y.total /\ Len(y.done) < y.total
      BY <1>1, <1>7, <2>1, <2>2
    <3>4. y.op = "fwrite" /\ y.data # <<>>
      BY <1>7, <1>11
    <3> QED BY <3>1, <3>2, <3>3, <3>4 DEF Bounded
  <2>5. Reading(file, f, y) /\ Ended(file, f, y)
    BY <1>7, <1>11 DEF Reading, Ended
  <2>6. f.rb = <<>> /\ f.pb = <<>>
    BY DEF Fwrite
  <2>7. Writing(file, f, y)
    BY <1>2, <1>7, <2>2, <2>3, <2>6 DEF Writing
  <2>8. StdioInvOf(file, f, y)
    BY <1>6, <1>7, <1>9, <2>4, <2>5, <2>7 DEF StdioInvOf
  <2> QED BY <1>3, <2>8 DEF Fwrite
<1> QED BY <1>10, <1>11

\* The position stays, and the buffer stays or goes.
LEMMA SameStream ==
    ASSUME NEW g, NEW x, NEW z \in StreamType, Steady(g, x), z.pos = x.pos, z.buffered = x.buffered,
           z.rb = x.rb \/ z.rb = <<>>, Len(z.pb) <= 1
    PROVE  Steady(g, z)
<1>1. Len(<<>>) = 0 /\ RbCap \in Nat
  BY StdioAssumption
<1>2. Len(z.rb) <= RbCap
  BY <1>1 DEF Steady
<1>3. Buffered(g, z)
  BY DEF Steady, Buffered
<1> QED BY <1>2, <1>3 DEF Steady

\* A new position without a buffer.
LEMMA NewStream ==
    ASSUME NEW g \in Seq(Data), NEW z \in StreamType, Len(g) <= MaxFile, place(g, z.pos) \in 0..MaxFile, z.rb = <<>>, Len(z.pb) <= 1
    PROVE  Steady(g, z)
<1>1. Len(<<>>) = 0 /\ RbCap \in Nat
  BY StdioAssumption
<1> QED BY <1>1, NoBuffer DEF Steady

LEMMA ungetcKeeps == ASSUME StdioInv, NEW b \in Octet, ungetc(b) PROVE StdioInvOf(file', f', call')
<1>1. Steady(file, f)
  BY InvStream
<1>2. PICK z : z = [f EXCEPT !.pb = <<b>>]
  OBVIOUS
<1>3. <<b>> \in Seq(Data) /\ Len(<<b>>) = 1
  BY DEF Data
<1>4. z \in StreamType /\ z.pos = f.pos /\ z.rb = f.rb /\ z.pb = <<b>> /\ z.buffered = f.buffered
  BY <1>1, <1>2, <1>3 DEF Steady, StreamType
<1>5. Steady(file, z)
  <2>1. Len(z.pb) <= 1
    BY <1>3, <1>4
  <2> QED BY <1>1, <1>4, <2>1, SameStream
<1>6. Steady(file', f')
  BY <1>2, <1>5 DEF ungetc
<1> QED BY <1>6, QuickOK DEF ungetc

LEMMA clearerrKeeps == ASSUME StdioInv, clearerr \/ fextflags PROVE StdioInvOf(file', f', call')
<1>1. Steady(file, f)
  BY InvStream
<1>2. file' = file /\ Quick /\ f' \in StreamType /\ f'.pos = f.pos /\ f'.rb = f.rb /\ f'.pb = f.pb
      /\ f'.buffered = f.buffered
  BY <1>1 DEF clearerr, fextflags, Steady, StreamType
<1>3. PICK z \in StreamType : z = f'
  BY <1>2
<1>4. Steady(file, z)
  <2>1. Len(z.pb) <= 1
    BY <1>1, <1>2, <1>3 DEF Steady
  <2> QED BY <1>1, <1>2, <1>3, <2>1, SameStream
<1> QED BY <1>2, <1>3, <1>4, QuickOK

LEMMA fseekoKeeps ==
    ASSUME StdioInv, NEW o \in Offsets, NEW w \in {"SET", "CUR", "END"}, NEW g \in BOOLEAN, fseeko(o, w, g)
    PROVE  StdioInvOf(file', f', call')
<1> DEFINE base == CASE w = "SET" -> 0 [] w = "CUR" -> f.pos [] w = "END" -> IF g THEN Len(file) ELSE -1
<1>1. Steady(file, f) /\ o \in Int /\ f \in StreamType /\ file \in Seq(Data)
  BY InvStream, StdioAssumption DEF Steady
<1>2. base \in Int
  <2>1. Len(file) \in Int /\ f.pos \in Int
    BY <1>1, LenProperties DEF StreamType
  <2> QED BY <2>1
<1>3. PICK p \in Int : p = base + o
  BY <1>1, <1>2
<1>4. place(file, p) \in 0..MaxFile
  <2>1. norm(base + o) \in 0..MaxFile
    BY DEF fseeko
  <2> QED BY <1>3, <2>1, PosIs
<1>5. f' = seeked(f) \/ f' = [seeked(f) EXCEPT !.pos = p, !.eof = FALSE]
  BY <1>3 DEF fseeko
<1>6. <<>> \in Seq(Data) /\ Len(<<>>) = 0
  BY EmptySeq
<1>7. seeked(f) \in StreamType /\ seeked(f).pos = f.pos /\ seeked(f).rb = <<>> /\ seeked(f).pb = <<>>
  BY <1>1, <1>6 DEF seeked, StreamType
<1>8. PICK z : z = f'
  OBVIOUS
<1>9. z \in StreamType /\ z.rb = <<>> /\ z.pb = <<>> /\ (z.pos = f.pos \/ z.pos = p)
  <2>1. CASE f' = seeked(f)
    BY <1>7, <1>8, <2>1
  <2>2. CASE f' = [seeked(f) EXCEPT !.pos = p, !.eof = FALSE]
    BY <1>3, <1>7, <1>8, <2>2 DEF StreamType
  <2> QED BY <1>5, <2>1, <2>2
<1>10. place(file, z.pos) \in 0..MaxFile /\ Len(file) <= MaxFile
  BY <1>1, <1>4, <1>9 DEF Steady
<1>11. Steady(file, z)
  BY <1>1, <1>6, <1>9, <1>10, NewStream
<1>12. file' = file /\ Quick
  BY DEF fseeko
<1> QED BY <1>8, <1>11, <1>12, QuickOK

\* A stream that starts at 0 or at the end.
LEMMA openKeeps ==
    ASSUME StdioInv, NEW p \in {-1, 0}, NEW trunc \in BOOLEAN, NEW b \in BOOLEAN, Open(p, trunc, b)
    PROVE  StdioInvOf(file', f', call')
<1>1. Steady(file, f) /\ f \in StreamType
  BY InvStream DEF Steady
<1>2. <<>> \in Seq(Data) /\ Len(<<>>) = 0 /\ MaxFile \in Nat
  BY EmptySeq, StdioAssumption
<1>3. PICK nf : nf = file'
  OBVIOUS
<1>4. nf \in Seq(Data) /\ Len(nf) <= MaxFile
  BY <1>1, <1>2, <1>3 DEF Open, Steady
<1>5. PICK z : z = f'
  OBVIOUS
<1>6. f.nofill \in BOOLEAN
  BY <1>1 DEF StreamType
<1>7. z \in StreamType /\ z.pos = p /\ z.rb = <<>> /\ z.pb = <<>>
  BY <1>2, <1>5, <1>6 DEF Open, StreamType
<1>8. place(nf, p) \in 0..MaxFile
  <2>1. Len(nf) \in Nat
    BY <1>4, LenProperties
  <2> QED BY <1>2, <1>4, <2>1 DEF place
<1>9. Steady(nf, z)
  BY <1>2, <1>4, <1>7, <1>8, NewStream
<1> QED BY <1>3, <1>5, <1>9, QuickOK DEF Open

LEMMA freopenKeeps == ASSUME StdioInv, freopen PROVE StdioInvOf(file', f', call')
<1>1. Steady(file, f) /\ f \in StreamType /\ file \in Seq(Data) /\ Len(file) <= MaxFile /\ MaxFile \in Nat
  BY InvStream, StdioAssumption DEF Steady
<1>2. PICK z : z = f'
  OBVIOUS
<1>3. z \in StreamType /\ z.pos = 0 /\ z.rb = <<>> /\ z.pb = <<>>
  <2>1. z = [f EXCEPT !.pos = 0, !.eof = FALSE] /\ f.rb = <<>> /\ f.pb = <<>>
    BY <1>2 DEF freopen
  <2>2. f \in [pos : Int, rb : Seq(Data), pb : Seq(Data), eof : BOOLEAN, error : BOOLEAN, buffered : BOOLEAN, nofill : BOOLEAN]
    BY <1>1 DEF StreamType
  <2>3. z.pos = 0 /\ z.rb = f.rb /\ z.pb = f.pb
    BY <2>1, <2>2
  <2>4. z \in StreamType
    <3>1. 0 \in Int /\ FALSE \in BOOLEAN
      OBVIOUS
    <3>2. z \in [pos : Int, rb : Seq(Data), pb : Seq(Data), eof : BOOLEAN, error : BOOLEAN, buffered : BOOLEAN, nofill : BOOLEAN]
      BY <2>1, <2>2, <3>1
    <3> QED BY <3>2 DEF StreamType
  <2> QED BY <2>1, <2>3, <2>4
<1>4. place(file, 0) \in 0..MaxFile
  BY <1>1 DEF place
<1>5. Steady(file, z)
  BY <1>1, <1>3, <1>4, NewStream
<1> QED BY <1>2, <1>5, QuickOK DEF freopen

-----------------------------------------------------------------------------
(* The loop of fread. *)

\* What the invariant says while fread runs.
FreadOK(g, x, y) ==
    /\ Steady(g, x) /\ y \in CallType /\ y.op = "fread" /\ y.data = <<>>
    /\ Bounded(g, x, y) /\ Reading(g, x, y) /\ Len(y.done) < y.total

LEMMA InvFread == ASSUME StdioInv, call.op = "fread" PROVE FreadOK(file, f, call)
<1>1. Steady(file, f) /\ call \in CallType /\ Bounded(file, f, call) /\ Reading(file, f, call)
  BY InvStream DEF StdioInv, StdioInvOf
<1>2. call.data = <<>> /\ Len(call.done) < call.total
  BY <1>1 DEF Bounded
<1> QED BY <1>1, <1>2 DEF FreadOK

LEMMA FreadPushbackKeeps == ASSUME StdioInv, FreadPushback PROVE StdioInvOf(file', f', call')
<1>1. call.op = "fread" /\ f.pb # <<>> /\ file' = file
  BY DEF FreadPushback
<1>2. FreadOK(file, f, call)
  BY <1>1, InvFread
<1>3. call \in CallType /\ f \in StreamType /\ file \in Seq(Data) /\ file = call.was /\ call.data = <<>>
      /\ call.done = <<>> /\ f.pb = call.pb /\ Len(f.pb) <= 1 /\ f.pb \in Seq(Data) /\ call.total \in Nat /\ 0 < call.total
  BY <1>1, <1>2 DEF FreadOK, Steady, Reading, CallType, StreamType
<1>4. Len(f.pb) = 1
  <2>1. \A s \in Seq(Data) : s # <<>> /\ Len(s) <= 1 => Len(s) = 1
    <3> SUFFICES ASSUME NEW s \in Seq(Data), s # <<>>, Len(s) <= 1 PROVE Len(s) = 1
      OBVIOUS
    <3>1. PICK m \in Nat : m = Len(s)
      BY LenProperties
    <3>2. m # 0
      BY <3>1, EmptySeq
    <3>3. m <= 1 => m = 1
      BY <3>2
    <3> QED BY <3>1, <3>3
  <2> QED BY <1>1, <1>3, <2>1
<1>5. PICK x : x = f'
  OBVIOUS
<1>6. <<>> \in Seq(Data) /\ Len(<<>>) = 0
  BY EmptySeq
<1>7. x = [f EXCEPT !.pb = <<>>]
  BY <1>5 DEF FreadPushback
<1>8. x \in StreamType /\ x.pos = f.pos /\ x.rb = f.rb /\ x.pb = <<>> /\ x.buffered = f.buffered
  BY <1>3, <1>6, <1>7 DEF StreamType
<1>9. Steady(file, x)
  <2>1. Len(x.pb) <= 1
    BY <1>6, <1>8
  <2> QED BY <1>2, <1>8, <2>1, SameStream DEF FreadOK
<1>10. PICK y : y = call'
  OBVIOUS
<1>11. call.done \o f.pb = f.pb
  BY <1>3, ConcatEmptySeq
<1>12. left = call.total
  BY <1>3, <1>6 DEF left
<1>13. y = [call EXCEPT !.done = f.pb, !.op = IF call.total = 1 THEN "idle" ELSE "fread"]
  BY <1>3, <1>10, <1>11, <1>12 DEF FreadPushback, CallType
<1>14. y \in CallType /\ y.done = f.pb /\ y.op = (IF call.total = 1 THEN "idle" ELSE "fread") /\ y.total = call.total
       /\ y.data = <<>> /\ y.was = call.was /\ y.at = call.at /\ y.pb = call.pb
  BY <1>3, <1>13 DEF CallType
<1>15. Len(y.done) = 1 /\ Len(y.pb) = 1 /\ y.done = y.pb /\ y.total \in Nat /\ y.total > 0
  BY <1>3, <1>4, <1>14
<1>16. Bounded(file, x, y)
  <2>1. /\ Len(file) <= MaxFile /\ Len(x.rb) <= RbCap /\ Len(x.pb) <= 1 /\ place(file, x.pos) \in 0..MaxFile
    BY <1>9 DEF Steady
  <2>2. /\ Len(y.was) <= MaxFile /\ Len(y.pb) <= 1 /\ place(y.was, y.at) \in 0..MaxFile /\ (y.at < 0 => x.pos < 0)
    BY <1>2, <1>8, <1>14 DEF FreadOK, Bounded
  <2>3. Len(y.done) <= y.total /\ (y.op # "idle" => Len(y.done) < y.total)
    BY <1>14, <1>15
  <2> QED BY <1>14, <2>1, <2>2, <2>3 DEF Bounded
<1>17. Delivered(y)
  BY <1>15 DEF Delivered
<1>18. Reading(file, x, y)
  <2>1. place(file, f.pos) + 1 = place(call.was, call.at) + 0 + 1
    BY <1>2, <1>3, <1>4, <1>6 DEF FreadOK, Reading
  <2>2. place(file, f.pos) \in Nat /\ place(call.was, call.at) \in Nat
    BY <1>2 DEF FreadOK, Bounded
  <2>3. place(file, x.pos) = place(file, f.pos) /\ place(y.was, y.at) = place(call.was, call.at)
    BY <1>8, <1>14
  <2>4. place(file, x.pos) + Len(y.pb) = place(y.was, y.at) + Len(y.done) + Len(x.pb)
    BY <1>6, <1>8, <1>15, <2>1, <2>2, <2>3
  <2> QED BY <1>3, <1>6, <1>8, <1>14, <1>15, <1>17, <2>4 DEF Reading
<1>19. Ended(file, x, y) /\ Writing(file, x, y)
  BY <1>14, <1>15 DEF Ended, Writing
<1>20. StdioInvOf(file, x, y)
  BY <1>3, <1>8, <1>9, <1>14, <1>16, <1>18, <1>19 DEF StdioInvOf, Steady
<1> QED BY <1>1, <1>5, <1>10, <1>20

\* The next bytes of the file, from the buffer or from a system call.
Comes(g, x, s) ==
    /\ s \in Seq(Data) /\ s # <<>> /\ place(g, x.pos) + Len(s) <= Len(g)
    /\ \A i \in 1..Len(s) : s[i] = g[place(g, x.pos) + i]

\* They are taken to the end of what was delivered.
LEMMA MoreKeeps ==
    ASSUME FreadOK(file, f, call), f.pb = <<>>, NEW s, Comes(file, f, s), Len(s) <= left,
           NEW x \in StreamType, x.pos = moved(f.pos, Len(s)), x.pb = <<>>, x.nofill = f.nofill,
           Len(x.rb) <= RbCap, Buffered(file, x)
    PROVE  StdioInvOf(file, x, More(s))
<1>1. call \in CallType /\ f \in StreamType /\ file \in Seq(Data) /\ file = call.was /\ call.data = <<>>
      /\ call.total \in Nat /\ call.done \in Seq(Data) /\ call.pb \in Seq(Data) /\ Len(file) <= MaxFile
      /\ f.pos \in Int /\ call.at \in Int
  BY DEF FreadOK, Steady, Reading, CallType, StreamType
<1>2. PICK n \in Nat : n = Len(s) /\ n > 0
  BY EmptySeq, LenProperties DEF Comes
<1>3. PICK d \in Nat : d = Len(call.done)
  BY <1>1, LenProperties
<1>4. PICK l \in Nat : l = Len(file)
  BY <1>1, LenProperties
<1>5. PICK b \in Nat : b = Len(call.pb)
  BY <1>1, LenProperties
<1>6. PICK a \in Nat : a = place(call.was, call.at) /\ a \in 0..MaxFile
  BY DEF FreadOK, Bounded
<1>7. PICK p \in Nat : p = place(file, f.pos)
  BY DEF FreadOK, Bounded
<1>8. d + n <= call.total
  BY <1>1, <1>2, <1>3 DEF left
<1>9. b <= d /\ p + b = a + d /\ Delivered(call)
  <2>1. Len(f.pb) = 0
    OBVIOUS
  <2>2. Len(call.pb) <= Len(call.done) + Len(f.pb)
        /\ place(file, f.pos) + Len(call.pb) = place(call.was, call.at) + Len(call.done) + Len(f.pb) /\ Delivered(call)
    BY <1>1 DEF FreadOK, Reading
  <2> QED BY <1>3, <1>5, <1>6, <1>7, <2>1, <2>2
<1>10. p + n <= l /\ \A i \in 1..n : s[i] = file[p + i]
  BY <1>2, <1>4, <1>7 DEF Comes
<1>11. place(file, x.pos) = p + n /\ (f.pos < 0 => x.pos < 0)
  BY <1>1, <1>2, <1>4, <1>7, <1>10, MovedByRead
<1>12. PICK t : t = call.done \o s
  OBVIOUS
<1>13. t \in Seq(Data) /\ Len(t) = d + n /\ \A i \in 1..(d + n) : t[i] = IF i <= d THEN call.done[i] ELSE s[i - d]
  BY <1>1, <1>2, <1>3, <1>12, ConcatProperties DEF Comes
<1>14. PICK o : o = IF d + n >= call.total \/ f.nofill THEN "idle" ELSE "fread"
  OBVIOUS
<1>15. PICK y : y = More(s)
  OBVIOUS
<1>16. y = [call EXCEPT !.done = t, !.op = o]
  BY <1>1, <1>2, <1>3, <1>12, <1>14, <1>15 DEF More, Return, CallType, FreadOK
<1>17. y \in CallType /\ y.done = t /\ y.op = o /\ y.total = call.total /\ y.data = <<>> /\ y.was = call.was
       /\ y.at = call.at /\ y.pb = call.pb
  BY <1>1, <1>13, <1>14, <1>16 DEF CallType
<1>18. Bounded(file, x, y)
  <2>1. Len(file) <= MaxFile /\ Len(x.rb) <= RbCap /\ Len(x.pb) <= 1
    BY <1>1
  <2>2. place(file, x.pos) \in 0..MaxFile
    BY <1>1, <1>4, <1>10, <1>11, StdioAssumption
  <2>3. /\ Len(y.was) <= MaxFile /\ Len(y.pb) <= 1 /\ place(y.was, y.at) \in 0..MaxFile
        /\ y.at < 0 => x.pos < 0
    BY <1>11, <1>17 DEF FreadOK, Bounded
  <2>4. Len(y.done) <= y.total /\ (y.op # "idle" => Len(y.done) < y.total)
    BY <1>1, <1>8, <1>13, <1>14, <1>17
  <2>5. y.op # "fwrite"
    BY <1>14, <1>17
  <2> QED BY <1>17, <2>1, <2>2, <2>3, <2>4, <2>5 DEF Bounded
<1>19. Delivered(y)
  <2> SUFFICES ASSUME NEW i \in 1..(d + n)
               PROVE  IF i <= b THEN t[i] = call.pb[i]
                      ELSE a + i - b <= l /\ t[i] = file[a + i - b]
    BY <1>1, <1>4, <1>5, <1>6, <1>13, <1>17 DEF Delivered
  <2>1. CASE i <= d
    <3>1. t[i] = call.done[i] /\ i \in 1..d
      BY <1>13, <2>1
    <3>2. IF i <= b THEN call.done[i] = call.pb[i] ELSE a + i - b <= l /\ call.done[i] = file[a + i - b]
      BY <1>1, <1>3, <1>4, <1>5, <1>6, <1>9, <3>1 DEF Delivered
    <3> QED BY <3>1, <3>2
  <2>2. CASE ~(i <= d)
    <3>1. i - d \in 1..n /\ ~(i <= b) /\ a + i - b = p + (i - d) /\ p + (i - d) <= l
      <4>1. b <= d /\ p + b = a + d
        BY <1>9
      <4>2. p + n <= l
        BY <1>10
      <4>3. i \in Int /\ i <= d + n /\ i > d
        BY <2>2
      <4>4. i - d \in 1..n /\ ~(i <= b)
        BY <4>1, <4>3
      <4>5. a + i - b = p + (i - d)
        BY <4>1, <4>3
      <4> QED BY <4>2, <4>4, <4>5
    <3>2. t[i] = s[i - d]
      BY <1>13, <2>2
    <3>3. s[i - d] = file[p + (i - d)]
      BY <1>10, <3>1
    <3> QED BY <3>1, <3>2, <3>3
  <2> QED BY <2>1, <2>2
<1>20. Reading(file, x, y)
  <2>1. Len(y.pb) <= Len(y.done) + Len(x.pb)
    BY <1>5, <1>9, <1>13, <1>17
  <2>2. place(file, x.pos) + Len(y.pb) = place(y.was, y.at) + Len(y.done) + Len(x.pb)
    <3>1. (p + n) + b = a + (d + n) + 0
      BY <1>9
    <3>2. Len(x.pb) = 0
      OBVIOUS
    <3> QED BY <1>5, <1>6, <1>11, <1>13, <1>17, <3>1, <3>2
  <2> QED BY <1>1, <1>17, <1>19, <2>1, <2>2 DEF Reading
<1>21. Ended(file, x, y)
  BY <1>1, <1>8, <1>13, <1>14, <1>17 DEF Ended
<1>22. Writing(file, x, y)
  BY <1>17 DEF Writing
<1> QED BY <1>1, <1>15, <1>17, <1>18, <1>20, <1>21, <1>22 DEF StdioInvOf

\* A read that fails, or finds the end of the file.
LEMMA FreadBreakKeeps ==
    ASSUME FreadOK(file, f, call), f.pb = <<>>, NEW err \in BOOLEAN, FreadBreak(err),
           err \/ Len(file) <= place(file, f.pos)
    PROVE  StdioInvOf(file', f', call')
<1>1. call \in CallType /\ f \in StreamType /\ Steady(file, f) /\ call.data = <<>>
      /\ Bounded(file, f, call) /\ Reading(file, f, call) /\ file' = file
  BY DEF FreadOK, Steady, FreadBreak
<1>2. PICK x : x = f'
  OBVIOUS
<1>3. PICK y : y = call'
  OBVIOUS
<1>4. x \in StreamType /\ x.pos = f.pos /\ x.rb = f.rb /\ x.pb = <<>> /\ x.buffered = f.buffered
      /\ (x.error \/ (x.eof /\ ~err))
  <2>1. CASE err
    BY <1>1, <1>2, <2>1 DEF FreadBreak, StreamType
  <2>2. CASE ~err
    BY <1>1, <1>2, <2>2 DEF FreadBreak, StreamType
  <2> QED BY <2>1, <2>2
<1>5. y \in CallType /\ y.op = "idle" /\ y.total = call.total /\ y.done = call.done /\ y.data = <<>>
      /\ y.was = call.was /\ y.at = call.at /\ y.pb = call.pb
  BY <1>1, <1>3 DEF FreadBreak, Return, CallType
<1>6. Bounded(file, x, y)
  BY <1>1, <1>4, <1>5 DEF Bounded
<1>7. Delivered(y)
  BY <1>1, <1>5 DEF Reading, Delivered
<1>8. Reading(file, x, y)
  BY <1>1, <1>4, <1>5, <1>7 DEF Reading
<1>9. Buffered(file, x)
  BY <1>1, <1>4 DEF Steady, Buffered
<1>10. Ended(file, x, y)
  <2>1. err => x.error
    BY <1>4
  <2>2. ~err => (x.eof /\ x.pb = <<>> /\ Len(file) <= place(file, x.pos)) \/ x.error
    BY <1>4
  <2> QED BY <2>1, <2>2 DEF Ended
<1>11. Writing(file, x, y)
  BY <1>5 DEF Writing
<1>12. StdioInvOf(file, x, y)
  BY <1>1, <1>4, <1>5, <1>6, <1>8, <1>9, <1>10, <1>11 DEF StdioInvOf, Steady
<1> QED BY <1>1, <1>2, <1>3, <1>12

LEMMA FreadDirectKeeps == ASSUME StdioInv, FreadDirect PROVE StdioInvOf(file', f', call')
<1>1. call.op = "fread" /\ f.pb = <<>> /\ (f.buffered => f.rb = <<>>)
  BY DEF FreadDirect
<1>2. FreadOK(file, f, call)
  BY <1>1, InvFread
<1>3. f \in StreamType /\ file \in Seq(Data) /\ f.pos \in Int /\ place(file, f.pos) \in Nat /\ Steady(file, f)
  BY <1>2 DEF FreadOK, Steady, StreamType
<1>4. left \in Nat /\ left > 0
  <2>1. call.total \in Nat /\ call.done \in Seq(Data) /\ Len(call.done) < call.total
    BY <1>2 DEF FreadOK, CallType
  <2>2. Len(call.done) \in Nat
    BY <2>1, LenProperties
  <2> QED BY <2>1, <2>2 DEF left
<1>5. PICK s \in reads(left, f.pos) :
        IF s = <<>> THEN FreadBreak(FALSE) ELSE f' = fadvance(Len(s), f) /\ call' = More(s) /\ UNCHANGED file
  BY DEF FreadDirect
<1>6. /\ s \in Seq(Data) /\ Len(s) <= left
      /\ s # <<>> => place(file, f.pos) + Len(s) <= Len(file)
      /\ \A i \in 1..Len(s) : s[i] = file[place(file, f.pos) + i]
      /\ s = <<>> => Len(file) <= place(file, f.pos)
  BY <1>3, <1>4, ReadsAre
<1>7. CASE s = <<>>
  BY <1>1, <1>2, <1>5, <1>6, <1>7, FreadBreakKeeps
<1>8. CASE s # <<>>
  <2>1. Comes(file, f, s)
    BY <1>6, <1>8 DEF Comes
  <2>2. PICK x : x = fadvance(Len(s), f)
    OBVIOUS
  <2>3. Len(s) \in Nat
    BY <1>6, LenProperties
  <2>4. x \in StreamType /\ x.pos = moved(f.pos, Len(s)) /\ x.rb = f.rb /\ x.pb = <<>> /\ x.nofill = f.nofill
    BY <1>1, <1>3, <2>2, <2>3, AdvanceIs
  <2>5. f.rb = <<>>
    BY <1>1, <1>3 DEF Steady, Buffered
  <2>6. Len(x.rb) <= RbCap /\ Buffered(file, x)
    BY <1>3, <2>4, <2>5, NoBuffer DEF Steady
  <2>7. StdioInvOf(file, x, More(s))
    BY <1>1, <1>2, <1>6, <2>1, <2>4, <2>6, MoreKeeps
  <2> QED BY <1>5, <1>8, <2>2, <2>7
<1> QED BY <1>7, <1>8

\* What is left in the buffer is what comes next in the file.
LEMMA FreadBufferedKeeps == ASSUME StdioInv, FreadBuffered PROVE StdioInvOf(file', f', call')
<1>1. call.op = "fread" /\ f.pb = <<>> /\ f.buffered
  BY DEF FreadBuffered
<1>2. FreadOK(file, f, call)
  BY <1>1, InvFread
<1>3. f \in StreamType /\ file \in Seq(Data) /\ f.pos \in Int /\ place(file, f.pos) \in Nat /\ Steady(file, f)
      /\ f.rb \in Seq(Data) /\ RbCap \in Nat /\ RbCap > 0
  BY <1>2, StdioAssumption DEF FreadOK, Steady, StreamType
<1>4. left \in Nat /\ left > 0
  <2>1. call.total \in Nat /\ call.done \in Seq(Data) /\ Len(call.done) < call.total
    BY <1>2 DEF FreadOK, CallType
  <2>2. Len(call.done) \in Nat
    BY <2>1, LenProperties
  <2> QED BY <2>1, <2>2 DEF left
<1>5. PICK rb \in IF f.rb = <<>> THEN reads(RbCap, f.pos) ELSE {f.rb} :
        LET n == IF left < Len(rb) THEN left ELSE Len(rb) IN
        IF rb = <<>> THEN FreadBreak(FALSE)
        ELSE /\ f' = fadvance(n, [f EXCEPT !.rb = unbuffered(rb, n)])
             /\ call' = More(SubSeq(rb, 1, n))
             /\ UNCHANGED file
  BY DEF FreadBuffered
<1>6. PICK p \in Nat : p = place(file, f.pos)
  BY <1>3
<1>7. PICK l \in Nat : l = Len(file)
  BY <1>3, LenProperties
<1>8. /\ rb \in Seq(Data) /\ Len(rb) <= RbCap
      /\ rb # <<>> => p + Len(rb) <= l
      /\ \A i \in 1..Len(rb) : rb[i] = file[p + i]
      /\ rb = <<>> => l <= p
  <2>1. CASE f.rb = <<>>
    <3>1. rb \in reads(RbCap, f.pos)
      BY <1>5, <2>1
    <3>2. /\ rb \in Seq(Data) /\ Len(rb) <= RbCap
          /\ rb # <<>> => place(file, f.pos) + Len(rb) <= Len(file)
          /\ \A i \in 1..Len(rb) : rb[i] = file[place(file, f.pos) + i]
          /\ rb = <<>> => RbCap = 0 \/ Len(file) <= place(file, f.pos)
      BY <1>3, <3>1, ReadsAre
    <3> QED BY <1>3, <1>6, <1>7, <3>2
  <2>2. CASE f.rb # <<>>
    <3>1. rb = f.rb
      BY <1>5, <2>2
    <3> QED BY <1>3, <1>6, <1>7, <2>2, <3>1 DEF Steady, Buffered
  <2> QED BY <2>1, <2>2
<1>9. CASE rb = <<>>
  <2>1. FreadBreak(FALSE)
    BY <1>5, <1>9
  <2> QED BY <1>1, <1>2, <1>6, <1>7, <1>8, <1>9, <2>1, FreadBreakKeeps
<1>10. CASE rb # <<>>
  <2>1. PICK m \in Nat : m = Len(rb) /\ m > 0
    BY <1>8, <1>10, EmptySeq, LenProperties
  <2>2. PICK n \in Nat : n = (IF left < Len(rb) THEN left ELSE Len(rb)) /\ n > 0 /\ n <= m /\ n <= left
    BY <1>4, <2>1
  <2>3. f' = fadvance(n, [f EXCEPT !.rb = unbuffered(rb, n)]) /\ call' = More(SubSeq(rb, 1, n)) /\ file' = file
    BY <1>5, <1>10, <2>2
  <2>4. PICK s : s = SubSeq(rb, 1, n)
    OBVIOUS
  <2>5. s \in Seq(Data) /\ Len(s) = n /\ \A i \in 1..n : s[i] = rb[i]
    BY <1>8, <2>1, <2>2, <2>4, SubSeqProperties
  <2>6. Comes(file, f, s)
    <3>1. p + n <= l
      BY <1>8, <1>10, <2>1, <2>2
    <3>2. \A i \in 1..n : s[i] = file[p + i]
      BY <1>8, <2>1, <2>2, <2>5
    <3>3. s # <<>>
      BY <2>2, <2>5
    <3> QED BY <1>6, <1>7, <2>5, <3>1, <3>2, <3>3 DEF Comes
  <2>7. PICK r : r = unbuffered(rb, n)
    OBVIOUS
  <2>8. r \in Seq(Data) /\ Len(r) = m - n /\ \A i \in 1..(m - n) : r[i] = rb[n + i]
    <3>1. CASE n < m
      <4>1. r = SubSeq(rb, n + 1, m)
        BY <2>1, <2>7 DEF unbuffered
      <4>2. r \in Seq(Data) /\ Len(r) = m - (n + 1) + 1 /\ \A i \in 1..(m - (n + 1) + 1) : r[i] = rb[n + 1 + i - 1]
        BY <1>8, <2>1, <3>1, <4>1, SubSeqProperties
      <4>3. m - (n + 1) + 1 = m - n /\ \A i \in 1..(m - n) : n + 1 + i - 1 = n + i
        BY <3>1
      <4> QED BY <4>2, <4>3
    <3>2. CASE n = m
      <4>1. r = SubSeq(rb, m + 1, m)
        BY <2>1, <2>7, <3>2 DEF unbuffered
      <4>2. r = <<>>
        BY <4>1, <2>1, <1>8, SubSeqEmpty
      <4> QED BY <3>2, <4>2
    <3> QED BY <2>2, <3>1, <3>2
  <2>9. PICK z : z = [f EXCEPT !.rb = r]
    OBVIOUS
  <2>10. z \in StreamType /\ z.pos = f.pos /\ z.rb = r /\ z.pb = f.pb /\ z.nofill = f.nofill /\ z.buffered = f.buffered
    BY <1>3, <2>8, <2>9 DEF StreamType
  <2>11. PICK x : x = fadvance(n, z)
    OBVIOUS
  <2>12. x \in StreamType /\ x.pos = moved(f.pos, Len(s)) /\ x.rb = r /\ x.pb = <<>> /\ x.nofill = f.nofill /\ x.buffered
    <3>1. /\ x \in StreamType /\ x.pos = moved(z.pos, n) /\ x.rb = z.rb /\ x.pb = z.pb /\ x.nofill = z.nofill
          /\ x.buffered = z.buffered
      BY <2>10, <2>11, AdvanceIs
    <3> QED BY <1>1, <2>5, <2>10, <3>1
  <2>13. Len(x.rb) <= RbCap
    BY <1>3, <1>8, <2>1, <2>2, <2>8, <2>12
  <2>14. Buffered(file, x)
    <3>1. place(file, x.pos) = p + n
      <4>1. place(file, f.pos) + n <= Len(file)
        BY <1>6, <1>7, <1>8, <1>10, <2>1, <2>2
      <4> QED BY <1>3, <1>6, <2>5, <2>12, <4>1, MovedByRead
    <3>2. p + n + (m - n) <= l
      BY <1>8, <1>10, <2>1, <2>2
    <3>3. \A i \in 1..(m - n) : r[i] = file[p + n + i]
      <4> SUFFICES ASSUME NEW i \in 1..(m - n) PROVE r[i] = file[p + n + i]
        OBVIOUS
      <4>1. n + i \in 1..m /\ p + (n + i) = p + n + i
        BY <2>2
      <4>2. rb[n + i] = file[p + (n + i)]
        BY <1>8, <2>1, <4>1
      <4> QED BY <2>8, <4>1, <4>2
    <3> QED BY <1>7, <2>8, <2>12, <3>1, <3>2, <3>3 DEF Buffered
  <2>15. StdioInvOf(file, x, More(s))
    BY <1>1, <1>2, <2>2, <2>5, <2>6, <2>12, <2>13, <2>14, MoreKeeps
  <2> QED BY <2>3, <2>4, <2>7, <2>9, <2>11, <2>15
<1> QED BY <1>9, <1>10

LEMMA FreadErrorKeeps == ASSUME StdioInv, FreadError PROVE StdioInvOf(file', f', call')
  BY InvFread, FreadBreakKeeps DEF FreadError

-----------------------------------------------------------------------------
(* The loop of fwrite. *)

LEMMA FwriteStepKeeps == ASSUME StdioInv, FwriteStep PROVE StdioInvOf(file', f', call')
<1>1. call.op = "fwrite" /\ StdioInvOf(file, f, call)
  BY DEF FwriteStep, StdioInv
<1>2. Steady(file, f) /\ f \in StreamType /\ file \in Seq(Data) /\ f.pos \in Int /\ call \in CallType
  BY InvStream DEF Steady, StreamType
<1>3. call.data # <<>> /\ Writing(file, f, call) /\ Bounded(file, f, call)
  BY <1>1 DEF StdioInvOf, Bounded
<1>4. call.total \in Nat /\ call.done \in Seq(Data) /\ call.data \in Seq(Data) /\ call.was \in Seq(Data)
  BY <1>2 DEF CallType
<1>5. PICK d \in Nat : d = Len(call.done)
  BY <1>4, LenProperties
<1>6. PICK a \in Nat : a = place(call.was, call.at)
  BY <1>3 DEF Bounded
<1>7. d < call.total /\ Len(call.data) = call.total /\ a + call.total <= MaxFile /\ place(file, f.pos) = a + d
      /\ f.rb = <<>> /\ f.pb = <<>>
      /\ \A i \in 1..d : call.done[i] = call.data[i]
  BY <1>1, <1>3, <1>5, <1>6 DEF Writing, Bounded
<1>8. PICK k \in 1..left :
        /\ file' = spliced(file, norm(f.pos), SubSeq(call.data, Len(call.done) + 1, Len(call.done) + k))
        /\ f' = fadvance(k, f)
        /\ call' = [call EXCEPT !.done = @ \o SubSeq(call.data, Len(call.done) + 1, Len(call.done) + k),
                                !.op = IF k = left THEN "idle" ELSE "fwrite"]
  BY DEF FwriteStep
<1>9. left = call.total - d
  BY <1>5 DEF left
<1>10. k \in Nat /\ k > 0 /\ d + k <= call.total
  BY <1>4, <1>7, <1>8, <1>9
<1>11. PICK s : s = SubSeq(call.data, d + 1, d + k)
  OBVIOUS
<1>12. s \in Seq(Data) /\ Len(s) = k /\ \A i \in 1..k : s[i] = call.data[d + i]
  <2>1. d + 1 \in 1..(Len(call.data) + 1) /\ d + k \in d..Len(call.data)
    BY <1>4, <1>7, <1>10
  <2>2. s \in Seq(Data) /\ Len(s) = d + k - (d + 1) + 1
        /\ \A i \in 1..(d + k - (d + 1) + 1) : s[i] = call.data[d + 1 + i - 1]
    BY <1>4, <1>7, <1>10, <1>11, <2>1, SubSeqProperties
  <2>3. d + k - (d + 1) + 1 = k /\ \A i \in 1..k : d + 1 + i - 1 = d + i
    BY <1>10
  <2> QED BY <2>2, <2>3
<1>13. PICK t : t = call.done \o s
  OBVIOUS
<1>14. t \in Seq(Data) /\ Len(t) = d + k /\ \A i \in 1..(d + k) : t[i] = IF i <= d THEN call.done[i] ELSE s[i - d]
  <2>1. /\ t \in Seq(Data) /\ Len(t) = Len(call.done) + Len(s)
        /\ \A i \in 1..(Len(call.done) + Len(s)) : t[i] = IF i <= Len(call.done) THEN call.done[i] ELSE s[i - Len(call.done)]
    BY <1>4, <1>12, <1>13, ConcatProperties
  <2>2. Len(s) = k
    BY <1>12
  <2> QED BY <1>5, <2>1, <2>2
<1>15. PICK nf : nf = file'
  OBVIOUS
<1>16. nf = spliced(file, a + d, s)
  BY <1>5, <1>7, <1>8, <1>11, <1>15, PosIs
<1>17. nf \in Seq(Data) /\ Len(nf) = IF a + d + k > Len(file) THEN a + d + k ELSE Len(file)
  <2>1. nf \in Seq(Data) /\ Len(nf) = IF (a + d) + Len(s) > Len(file) THEN (a + d) + Len(s) ELSE Len(file)
    <3>1. a + d \in Nat
      OBVIOUS
    <3> QED BY <1>2, <1>12, <1>16, <3>1, SplicedIs, Zenon
  <2>2. Len(s) = k
    BY <1>12
  <2> QED BY <2>1, <2>2
<1>18. nf = spliced(call.was, a, t)
  <2>1. CASE call.done = <<>>
    <3>1. file = call.was /\ d = 0 /\ t = s /\ a + d = a
      BY <1>3, <1>5, <1>6, <1>12, <1>13, <2>1, ConcatEmptySeq DEF Writing
    <3> QED BY <1>16, <3>1
  <2>2. CASE call.done # <<>>
    <3>1. file = spliced(call.was, a, call.done)
      BY <1>3, <1>6, <2>2 DEF Writing
    <3>2. spliced(spliced(call.was, a, call.done), a + Len(call.done), s) = spliced(call.was, a, call.done \o s)
      BY <1>4, <1>12, SplicedTwice
    <3> QED BY <1>5, <1>13, <1>16, <3>1, <3>2
  <2> QED BY <2>1, <2>2
<1>19. PICK x : x = f'
  OBVIOUS
<1>20. x \in StreamType /\ x.pos = moved(f.pos, k) /\ x.rb = <<>> /\ x.pb = <<>>
  BY <1>2, <1>7, <1>8, <1>10, <1>19, AdvanceIs
<1>21. place(nf, x.pos) = a + d + k /\ (f.pos < 0 => x.pos < 0)
  <2>1. Grown(file, nf, place(file, f.pos), k)
    BY <1>7, <1>17 DEF Grown
  <2> QED BY <1>2, <1>7, <1>10, <1>17, <1>20, <2>1, MovedByWrite
<1>22. PICK y : y = call'
  OBVIOUS
<1>23. PICK o : o = IF k = left THEN "idle" ELSE "fwrite"
  OBVIOUS
<1>24. y = [call EXCEPT !.done = t, !.op = o]
  BY <1>2, <1>5, <1>8, <1>11, <1>13, <1>22, <1>23 DEF CallType
<1>25. y \in CallType /\ y.done = t /\ y.op = o /\ y.total = call.total /\ y.data = call.data /\ y.was = call.was
       /\ y.at = call.at /\ y.pb = call.pb
  BY <1>2, <1>14, <1>23, <1>24 DEF CallType
<1>26. Len(nf) <= MaxFile
  <2>1. Len(file) <= MaxFile /\ a + d + k <= MaxFile
    <3>1. a + d + k <= a + call.total
      BY <1>4, <1>10
    <3> QED BY <1>2, <1>4, <1>7, <1>10, <3>1, StdioAssumption DEF Steady
  <2> QED BY <1>17, <2>1
<1>27. Steady(nf, x)
  <2>1. place(nf, x.pos) \in 0..MaxFile
    <3>1. a + d + k <= a + call.total
      BY <1>4, <1>10
    <3> QED BY <1>4, <1>7, <1>10, <1>21, <3>1, StdioAssumption
  <2> QED BY <1>17, <1>20, <1>26, <2>1, NewStream
<1>28. Bounded(nf, x, y)
  <2>1. /\ Len(nf) <= MaxFile /\ Len(x.rb) <= RbCap /\ Len(x.pb) <= 1 /\ place(nf, x.pos) \in 0..MaxFile
    BY <1>27 DEF Steady
  <2>2. /\ Len(y.was) <= MaxFile /\ Len(y.pb) <= 1 /\ place(y.was, y.at) \in 0..MaxFile /\ (y.at < 0 => x.pos < 0)
    BY <1>3, <1>21, <1>25 DEF Bounded
  <2>3. Len(y.done) <= y.total /\ (y.op # "idle" => Len(y.done) < y.total)
    BY <1>4, <1>9, <1>10, <1>14, <1>23, <1>25
  <2>4. y.op # "fread" /\ y.data # <<>>
    BY <1>3, <1>23, <1>25
  <2> QED BY <2>1, <2>2, <2>3, <2>4 DEF Bounded
<1>29. Reading(nf, x, y) /\ Ended(nf, x, y)
  BY <1>3, <1>25 DEF Reading, Ended
<1>30. Writing(nf, x, y)
  <2>1. \A i \in 1..Len(y.done) : y.done[i] = y.data[i]
    <3> SUFFICES ASSUME NEW i \in 1..(d + k) PROVE t[i] = call.data[i]
      BY <1>14, <1>25
    <3>1. CASE i <= d
      BY <1>7, <1>14, <3>1
    <3>2. CASE ~(i <= d)
      <4>1. i - d \in 1..k /\ d + (i - d) = i
        BY <1>10, <3>2
      <4>2. s[i - d] = call.data[d + (i - d)]
        BY <1>12, <4>1
      <4> QED BY <1>14, <3>2, <4>1, <4>2
    <3> QED BY <3>1, <3>2
  <2>2. y.done # <<>>
    BY <1>10, <1>14, <1>25
  <2>3. place(nf, x.pos) = place(y.was, y.at) + Len(y.done)
    BY <1>6, <1>10, <1>14, <1>21, <1>25
  <2>4. Len(y.data) = y.total /\ place(y.was, y.at) + y.total <= MaxFile
    BY <1>6, <1>7, <1>25
  <2>5. nf = spliced(y.was, place(y.was, y.at), y.done)
    BY <1>6, <1>18, <1>25
  <2> QED BY <1>20, <2>1, <2>2, <2>3, <2>4, <2>5 DEF Writing
<1>31. StdioInvOf(nf, x, y)
  BY <1>25, <1>27, <1>28, <1>29, <1>30 DEF StdioInvOf, Steady
<1> QED BY <1>15, <1>19, <1>22, <1>31

LEMMA FwriteFailKeeps == ASSUME StdioInv, FwriteFail PROVE StdioInvOf(file', f', call')
<1>1. PICK err \in BOOLEAN : FreadBreak(err)
  BY DEF FwriteFail
<1>2. call.op = "fwrite" /\ StdioInvOf(file, f, call) /\ file' = file
  BY <1>1 DEF FwriteFail, StdioInv, FreadBreak
<1>3. Steady(file, f) /\ f \in StreamType /\ call \in CallType /\ call.data # <<>> /\ Writing(file, f, call) /\ Bounded(file, f, call)
  BY <1>2, InvStream DEF Steady, StdioInvOf, Bounded
<1>4. PICK x : x = f'
  OBVIOUS
<1>5. PICK y : y = call'
  OBVIOUS
<1>6. x \in StreamType /\ x.pos = f.pos /\ x.rb = f.rb /\ x.pb = f.pb /\ x.buffered = f.buffered
  <2>1. CASE err
    BY <1>1, <1>3, <1>4, <2>1 DEF FreadBreak, StreamType
  <2>2. CASE ~err
    BY <1>1, <1>3, <1>4, <2>2 DEF FreadBreak, StreamType
  <2> QED BY <2>1, <2>2
<1>7. y \in CallType /\ y.op = "idle" /\ y.total = call.total /\ y.done = call.done /\ y.data = call.data
      /\ y.was = call.was /\ y.at = call.at /\ y.pb = call.pb
  BY <1>1, <1>3, <1>5 DEF FreadBreak, Return, CallType
<1>8. Bounded(file, x, y)
  BY <1>3, <1>6, <1>7 DEF Bounded
<1>9. Buffered(file, x)
  BY <1>3, <1>6 DEF Steady, Buffered
<1>10. Reading(file, x, y) /\ Ended(file, x, y)
  BY <1>3, <1>7 DEF Reading, Ended
<1>11. Writing(file, x, y)
  BY <1>3, <1>6, <1>7 DEF Writing
<1>12. StdioInvOf(file, x, y)
  BY <1>3, <1>6, <1>7, <1>8, <1>9, <1>10, <1>11 DEF StdioInvOf, Steady
<1> QED BY <1>2, <1>4, <1>5, <1>12

-----------------------------------------------------------------------------
(* The theorem. *)

LEMMA StdioStarts == StdioInit => StdioInv
<1> SUFFICES ASSUME StdioInit PROVE StdioInv
  OBVIOUS
<1>1. file \in Seq(Data) /\ Len(file) <= MaxFile
  <2>1. PICK n \in 0..MaxFile : file \in [1..n -> Octet]
    BY StdioAssumption DEF StdioInit, BoundedSeq, SeqOf
  <2>2. file \in [1..n -> Data] /\ n \in Nat /\ n <= MaxFile
    BY <2>1, StdioAssumption DEF Data
  <2>3. file \in Seq(Data) /\ Len(file) = n
    BY <2>2, LenProperties
  <2> QED BY <2>2, <2>3
<1>2. <<>> \in Seq(Data) /\ Len(<<>>) = 0 /\ MaxFile \in Nat /\ RbCap \in Nat
  BY EmptySeq, StdioAssumption
<1>3. f \in StreamType /\ f.pos = 0 /\ f.rb = <<>> /\ f.pb = <<>>
  BY <1>2 DEF StdioInit, StreamType
<1>4. place(file, 0) \in 0..MaxFile
  BY <1>2 DEF place
<1>5. call \in CallType /\ call.op = "idle" /\ call.total = 0 /\ call.done = <<>> /\ call.data = <<>>
      /\ call.was = file /\ call.at = f.pos /\ call.pb = f.pb
  BY <1>1, <1>2, <1>3 DEF StdioInit, CallType
<1>6. Begun(file, f, call)
  BY <1>1, <1>2, <1>3, <1>4, <1>5 DEF Begun
<1>7. StdioInvOf(file, f, call)
  BY <1>1, <1>3, <1>5, <1>6, NoBuffer, BegunRead
<1> QED BY <1>7 DEF StdioInv

LEMMA StdioStep == StdioInv /\ [StdioNext]_stdio_vars => StdioInv'
<1> SUFFICES ASSUME StdioInv, [StdioNext]_stdio_vars PROVE StdioInv'
  OBVIOUS
<1>1. StdioInvOf(file', f', call') => StdioInv'
  BY DEF StdioInv, StdioInvOf, Bounded, Buffered, Reading, Delivered, Ended, Writing, place, spliced, StreamType, CallType, Data
<1>2. CASE \E n \in Sizes : Fread(n) \/ \E s \in [1..n -> Octet] : Fwrite(s)
  BY <1>1, <1>2, FreadKeeps, FwriteKeeps
<1>3. CASE FreadPushback
  BY <1>1, <1>3, FreadPushbackKeeps
<1>4. CASE FreadBuffered
  BY <1>1, <1>4, FreadBufferedKeeps
<1>5. CASE FreadDirect
  BY <1>1, <1>5, FreadDirectKeeps
<1>6. CASE FreadError
  BY <1>1, <1>6, FreadErrorKeeps
<1>7. CASE FwriteStep
  BY <1>1, <1>7, FwriteStepKeeps
<1>8. CASE FwriteFail
  BY <1>1, <1>8, FwriteFailKeeps
<1>9. CASE clearerr \/ fextflags
  BY <1>1, <1>9, clearerrKeeps
<1>10. CASE freopen
  BY <1>1, <1>10, freopenKeeps
<1>11. CASE \E b \in Octet : ungetc(b)
  BY <1>1, <1>11, ungetcKeeps
<1>12. CASE \E o \in Offsets, w \in {"SET", "CUR", "END"}, g \in BOOLEAN : fseeko(o, w, g)
  BY <1>1, <1>12, fseekoKeeps
<1>13. CASE \E mode \in {"r", "w", "a"} : fopen(mode) \/ fdopen(mode)
  <2>1. PICK mode \in {"r", "w", "a"} : fopen(mode) \/ fdopen(mode)
    BY <1>13
  <2>2. (IF mode = "a" THEN -1 ELSE 0) \in {-1, 0} /\ (mode = "w") \in BOOLEAN
    OBVIOUS
  <2>3. CASE fopen(mode)
    <3>1. Open(IF mode = "a" THEN -1 ELSE 0, mode = "w", TRUE)
      BY <2>3 DEF fopen
    <3> QED BY <1>1, <2>2, <3>1, openKeeps
  <2>4. CASE fdopen(mode)
    <3>1. Open(IF mode = "a" THEN -1 ELSE 0, FALSE, FALSE)
      BY <2>4 DEF fdopen
    <3> QED BY <1>1, <2>2, <3>1, openKeeps
  <2> QED BY <2>1, <2>3, <2>4
<1>14. CASE UNCHANGED stdio_vars
  BY <1>1, <1>14 DEF stdio_vars, StdioInv
<1> QED BY <1>2, <1>3, <1>4, <1>5, <1>6, <1>7, <1>8, <1>9, <1>10, <1>11, <1>12, <1>13, <1>14 DEF StdioNext

\* The prefix of a sequence, element by element.
LEMMA PrefixIs ==
    ASSUME NEW s \in Seq(Data), NEW t \in Seq(Data), Len(s) <= Len(t), \A i \in 1..Len(s) : s[i] = t[i]
    PROVE  IsPrefix(s, t)
<1>1. PICK n \in Nat : n = Len(s)
  BY LenProperties
<1>2. PICK m \in Nat : m = Len(t)
  BY LenProperties
<1>3. CASE n = 0
  <2>1. SubSeq(s, 1, 0) = <<>> /\ SubSeq(t, 1, 0) = <<>>
    BY SubSeqEmpty
  <2> QED BY <1>1, <1>3, <2>1 DEF IsPrefix
<1>4. CASE n # 0
  <2>1. n \in 1..Len(s) /\ n \in 1..Len(t) /\ 1 \in 1..Len(s) /\ 1 \in 1..Len(t)
    BY <1>1, <1>2, <1>4
  <2>2. PICK a : a = SubSeq(s, 1, n)
    OBVIOUS
  <2>3. PICK b : b = SubSeq(t, 1, n)
    OBVIOUS
  <2>4. a \in Seq(Data) /\ Len(a) = n /\ \A i \in 1..n : a[i] = s[i]
    BY <1>1, <1>4, <2>1, <2>2, SubSeqProperties
  <2>5. b \in Seq(Data) /\ Len(b) = n /\ \A i \in 1..n : b[i] = t[i]
    BY <1>1, <1>2, <1>4, <2>1, <2>3, SubSeqProperties
  <2>6. \A i \in 1..Len(a) : a[i] = b[i]
    BY <1>1, <2>4, <2>5
  <2>7. a = b
    BY <2>4, <2>5, <2>6, SeqEqual
  <2> QED BY <1>1, <2>2, <2>3, <2>7 DEF IsPrefix
<1> QED BY <1>3, <1>4

LEMMA BeginIs == ASSUME StdioInv PROVE Start0 = place(call.was, call.at)
<1>1. call.at \in Int
  BY DEF StdioInv, StdioInvOf, CallType
<1> QED BY <1>1 DEF Start0, place

\* What a reader finds ahead of the stream.
LEMMA AheadIs ==
    ASSUME StdioInv
    PROVE  /\ Ahead \in Seq(Data)
           /\ Len(Ahead) = Len(call.pb) + (IF Start0 <= Len(call.was) THEN Len(call.was) - Start0 ELSE 0)
           /\ \A i \in 1..Len(Ahead) : Ahead[i] = IF i <= Len(call.pb) THEN call.pb[i] ELSE call.was[Start0 + (i - Len(call.pb))]
<1>1. call.pb \in Seq(Data) /\ call.was \in Seq(Data) /\ Start0 \in Nat
  BY BeginIs DEF StdioInv, StdioInvOf, CallType, Bounded
<1>2. PICK a \in Nat : a = Start0
  BY <1>1
<1>3. PICK l \in Nat : l = Len(call.was)
  BY <1>1, LenProperties
<1>4. PICK b \in Nat : b = Len(call.pb)
  BY <1>1, LenProperties
<1>5. PICK r : r = SubSeq(call.was, a + 1, l)
  OBVIOUS
<1>6. PICK n \in Nat : n = IF a <= l THEN l - a ELSE 0
  OBVIOUS
<1>7. r \in Seq(Data) /\ Len(r) = n /\ \A i \in 1..n : r[i] = call.was[a + i]
  <2>1. CASE a + 1 <= l
    <3>1. a + 1 \in 1..(Len(call.was) + 1) /\ l \in (a + 1 - 1)..Len(call.was)
      BY <1>3, <2>1
    <3>2. r \in Seq(Data) /\ Len(r) = l - (a + 1) + 1 /\ \A i \in 1..(l - (a + 1) + 1) : r[i] = call.was[a + 1 + i - 1]
      BY <1>1, <1>3, <1>5, <2>1, SubSeqProperties
    <3> QED BY <1>6, <3>2, <2>1
  <2>2. CASE ~(a + 1 <= l)
    <3>1. r = <<>>
      BY <1>1, <1>3, <1>5, <2>2, SubSeqEmpty
    <3> QED BY <1>6, <3>1, <2>2
  <2> QED BY <2>1, <2>2
<1>8. Ahead = call.pb \o r
  <2>1. ~(Start0 < 0)
    BY <1>2
  <2> QED BY <1>2, <1>3, <1>5, <2>1 DEF Ahead
<1>9. PICK w : w = Ahead
  OBVIOUS
<1>10. w \in Seq(Data) /\ Len(w) = b + n /\ \A i \in 1..(b + n) : w[i] = IF i <= b THEN call.pb[i] ELSE r[i - b]
  <2>1. w = call.pb \o r /\ r \in Seq(Data) /\ Len(r) = n
    BY <1>7, <1>8, <1>9
  <2>2. /\ call.pb \o r \in Seq(Data) /\ Len(call.pb \o r) = Len(call.pb) + Len(r)
        /\ \A i \in 1..(Len(call.pb) + Len(r)) :
             (call.pb \o r)[i] = IF i <= Len(call.pb) THEN call.pb[i] ELSE r[i - Len(call.pb)]
    BY <1>1, <2>1, ConcatProperties
  <2> QED BY <1>4, <2>1, <2>2
<1>11. \A i \in 1..(b + n) : w[i] = IF i <= b THEN call.pb[i] ELSE call.was[a + (i - b)]
  <2> SUFFICES ASSUME NEW i \in 1..(b + n), ~(i <= b) PROVE w[i] = call.was[a + (i - b)]
    BY <1>10
  <2>1. i - b \in 1..n
    OBVIOUS
  <2> QED BY <1>7, <1>10, <2>1
<1> QED BY <1>2, <1>3, <1>4, <1>6, <1>9, <1>10, <1>11

LEMMA RestType == \A a, b, l \in Nat : b + (IF a <= l THEN l - a ELSE 0) \in Nat
  OBVIOUS

LEMMA FreadIsExact == ASSUME StdioInv PROVE FreadExact
<1> SUFFICES ASSUME call.data = <<>>
             PROVE  /\ IsPrefix(call.done, Ahead)
                    /\ Idle /\ Len(call.done) < call.total => f.error \/ f.nofill \/ (f.eof /\ call.done = Ahead)
  BY DEF FreadExact
<1>1. call \in CallType /\ f \in StreamType /\ file \in Seq(Data) /\ Reading(file, f, call) /\ Ended(file, f, call) /\ Bounded(file, f, call)
  BY DEF StdioInv, StdioInvOf
<1>2. PICK a \in Nat : a = Start0 /\ a = place(call.was, call.at)
  BY <1>1, BeginIs DEF Bounded
<1>3. call.done \in Seq(Data) /\ call.pb \in Seq(Data) /\ f.pb \in Seq(Data)
  BY <1>1 DEF CallType, StreamType
<1>4. PICK d \in Nat : d = Len(call.done)
  BY <1>3, LenProperties
<1>5. PICK b \in Nat : b = Len(call.pb)
  BY <1>3, LenProperties
<1>6. PICK l \in Nat : l = Len(call.was)
  BY <1>1, LenProperties DEF CallType
<1>7. PICK q \in Nat : q = Len(f.pb)
  BY <1>3, LenProperties
<1>8. PICK p \in Nat : p = place(file, f.pos)
  BY <1>1 DEF Bounded
<1>9. /\ file = call.was /\ (q = 0 \/ d = 0) /\ b <= d + q /\ p + b = a + d + q
  <2>1. f.pb = <<>> => q = 0
    BY <1>7
  <2>2. call.done = <<>> => d = 0
    BY <1>4
  <2>3. /\ file = call.was
        /\ f.pb = <<>> \/ (call.done = <<>> /\ f.pb = call.pb)
        /\ Len(call.pb) <= Len(call.done) + Len(f.pb)
        /\ place(file, f.pos) + Len(call.pb) = place(call.was, call.at) + Len(call.done) + Len(f.pb)
    BY <1>1 DEF Reading
  <2> QED BY <1>2, <1>4, <1>5, <1>7, <1>8, <2>1, <2>2, <2>3
<1>10. \A i \in 1..d : IF i <= b THEN call.done[i] = call.pb[i]
                       ELSE a + i - b <= l /\ call.done[i] = call.was[a + i - b]
  BY <1>1, <1>2, <1>4, <1>5, <1>6 DEF Reading, Delivered
<1>11. PICK w : w = Ahead
  OBVIOUS
<1>12. PICK m \in Nat : m = b + (IF a <= l THEN l - a ELSE 0)
  BY RestType
<1>13. w \in Seq(Data) /\ Len(w) = m /\ \A i \in 1..m : w[i] = IF i <= b THEN call.pb[i] ELSE call.was[a + (i - b)]
  BY <1>2, <1>5, <1>6, <1>11, <1>12, AheadIs
<1>14. d <= m
  <2>1. CASE d <= b
    BY <1>12, <2>1
  <2>2. CASE d > b
    <3>1. a + d - b <= l
      <4>1. d \in 1..d /\ ~(d <= b)
        BY <2>2
      <4> QED BY <1>10, <4>1
    <3> QED BY <1>12, <2>2, <3>1
  <2> QED BY <2>1, <2>2
<1>15. \A i \in 1..d : call.done[i] = w[i]
  <2> SUFFICES ASSUME NEW i \in 1..d PROVE call.done[i] = w[i]
    OBVIOUS
  <2>1. i \in 1..m /\ a + i - b = a + (i - b)
    BY <1>14
  <2> QED BY <1>10, <1>13, <2>1
<1>16. IsPrefix(call.done, w)
  BY <1>3, <1>4, <1>13, <1>14, <1>15, PrefixIs
<1>17. ASSUME Idle, Len(call.done) < call.total, ~f.error, ~f.nofill PROVE f.eof /\ call.done = w
  <2>1. f.eof /\ f.pb = <<>> /\ Len(file) <= place(file, f.pos)
    BY <1>1, <1>17 DEF Ended, Idle
  <2>2. q = 0 /\ l <= p
    BY <1>6, <1>7, <1>8, <1>9, <2>1
  <2>3. d = m
    <3>1. p + b = a + d /\ b <= d
      BY <1>9, <2>2
    <3>2. CASE d = b
      <4>1. l <= a
        BY <2>2, <3>1, <3>2
      <4> QED BY <1>12, <3>2, <4>1
    <3>3. CASE d > b
      <4>1. a + d - b <= l
        BY <1>10, <3>3
      <4>2. p = l /\ a <= l
        BY <2>2, <3>1, <3>3, <4>1
      <4> QED BY <1>12, <3>1, <4>2
    <3> QED BY <3>1, <3>2, <3>3
  <2>4. call.done = w
    BY <1>3, <1>4, <1>13, <1>15, <2>3, SeqEqual
  <2> QED BY <2>1, <2>4
<1>18. Idle /\ Len(call.done) < call.total => f.error \/ f.nofill \/ (f.eof /\ call.done = Ahead)
  BY <1>11, <1>17
<1> QED BY <1>11, <1>16, <1>18

LEMMA FwriteIsExact == ASSUME StdioInv PROVE FwriteExact
<1> SUFFICES ASSUME call.data # <<>>
             PROVE  /\ IsPrefix(call.done, call.data)
                    /\ file = IF call.done = <<>> THEN call.was ELSE spliced(call.was, Start0, call.done)
  BY DEF FwriteExact
<1>1. call \in CallType /\ Writing(file, f, call) /\ Bounded(file, f, call)
  BY DEF StdioInv, StdioInvOf
<1>2. call.done \in Seq(Data) /\ call.data \in Seq(Data)
  BY <1>1 DEF CallType
<1>3. Len(call.done) <= Len(call.data) /\ \A i \in 1..Len(call.done) : call.done[i] = call.data[i]
  BY <1>1 DEF Writing, Bounded
<1>4. IsPrefix(call.done, call.data)
  BY <1>2, <1>3, PrefixIs
<1>5. file = IF call.done = <<>> THEN call.was ELSE spliced(call.was, Start0, call.done)
  BY <1>1, BeginIs DEF Writing
<1> QED BY <1>4, <1>5

LEMMA BufferIsCoherent == ASSUME StdioInv PROVE BufferCoherent
<1> SUFFICES ASSUME f.rb # <<>> PROVE f.rb = SubSeq(file, norm(f.pos) + 1, norm(f.pos) + Len(f.rb))
  BY DEF BufferCoherent
<1>1. f \in StreamType /\ file \in Seq(Data) /\ Buffered(file, f) /\ Bounded(file, f, call)
  BY DEF StdioInv, StdioInvOf
<1>2. PICK p \in Nat : p = norm(f.pos) /\ p = place(file, f.pos)
  BY <1>1, PosIs DEF Bounded
<1>3. f.rb \in Seq(Data)
  BY <1>1 DEF StreamType
<1>4. PICK m \in Nat : m = Len(f.rb) /\ m > 0
  BY <1>3, EmptySeq, LenProperties
<1>5. PICK l \in Nat : l = Len(file)
  BY <1>1, LenProperties
<1>6. p + m <= l /\ \A i \in 1..m : f.rb[i] = file[p + i]
  BY <1>1, <1>2, <1>4, <1>5 DEF Buffered
<1>7. PICK s : s = SubSeq(file, p + 1, p + m)
  OBVIOUS
<1>8. s \in Seq(Data) /\ Len(s) = m /\ \A i \in 1..m : s[i] = file[p + i]
  <2>1. p + 1 \in 1..(Len(file) + 1) /\ p + m \in p..Len(file)
    BY <1>4, <1>5, <1>6
  <2>2. s \in Seq(Data) /\ Len(s) = p + m - (p + 1) + 1
        /\ \A i \in 1..(p + m - (p + 1) + 1) : s[i] = file[p + 1 + i - 1]
    BY <1>1, <1>4, <1>7, <2>1, SubSeqProperties
  <2>3. p + m - (p + 1) + 1 = m /\ \A i \in 1..m : p + 1 + i - 1 = p + i
    BY <1>4
  <2> QED BY <2>2, <2>3
<1>9. \A i \in 1..Len(f.rb) : f.rb[i] = s[i]
  BY <1>4, <1>6, <1>8
<1>10. f.rb = s
  BY <1>3, <1>4, <1>8, <1>9, SeqEqual
<1> QED BY <1>2, <1>4, <1>7, <1>10

LEMMA StdioIsTyped == ASSUME StdioInv PROVE StdioTypeOK
<1>1. f \in StreamType /\ file \in Seq(Data) /\ call \in CallType /\ Bounded(file, f, call)
  BY DEF StdioInv, StdioInvOf
<1>2. PICK l \in Nat : l = Len(file) /\ l <= MaxFile
  BY <1>1, LenProperties DEF Bounded
<1>3. f.pos \in Int /\ place(file, f.pos) \in 0..MaxFile
  BY <1>1 DEF StreamType, Bounded
<1>4. f.pos \in -(MaxFile + 1)..(2 * MaxFile)
  BY <1>2, <1>3, StdioAssumption DEF place
<1>5. Len(f.rb) <= RbCap /\ Len(f.pb) <= 1 /\ Len(call.done) <= call.total /\ (call.at < 0 => f.pos < 0)
  BY <1>1 DEF Bounded
<1>6. call.op \in {"idle", "fread", "fwrite"}
  BY <1>1 DEF CallType
<1> QED BY <1>2, <1>4, <1>5, <1>6 DEF StdioTypeOK

\* For files, buffers and requests of any length, however the system calls cut
\* the data up or fail, and after any pushing back, seeking and reopening: the
\* read buffer is the file at the position, fread returns what follows in the
\* file and stops early only at its end, after an error or by FEXT_NOFILL, and
\* fwrite writes its bytes from the position on and nothing else.
THEOREM StreamsAlwaysSound == StdioSpec => []StdioSound
<1>1. StdioInv => StdioSound
  BY StdioIsTyped, BufferIsCoherent, FreadIsExact, FwriteIsExact DEF StdioSound
<1> QED BY <1>1, StdioStarts, StdioStep, PTL DEF StdioSpec

====
