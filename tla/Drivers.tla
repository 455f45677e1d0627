------------------------------- MODULE Drivers -------------------------------
(***************************************************************************)
(* The kernel drivers that keep a request until their device has data: the *)
(* character devices of src/kernel/arch/amd64/driver/{serial,ps2}.c, which *)
(* share the queue and the ring buffer handling of driver/util.c, and the  *)
(* network card of driver/rtl8139.c.                                       *)
(*                                                                         *)
(* A driver runs in a system call or in an interrupt handler, and an       *)
(* interrupt is only taken when no process runs (cpu_pause), so a handler  *)
(* is one step, except that of the network card: the card goes on while it *)
(* runs.  Bytes are numbered as they enter a ring buffer, which is a queue *)
(* as Ring and Fifo show.  A request is [caller, len]; its caller is NULL  *)
(* once that process has been killed (proc_kill).                          *)
(***************************************************************************)
EXTENDS Naturals, Sequences, FiniteSets, SequencesExt, FiniteSetsExt

CONSTANTS
    Proc, NULL,
    Dev,            \* the character devices, of "com1", "kb" and "mouse"
    Uses,           \* bound: the sets of devices that are used together
    Room,           \* bytes that a ring buffer holds
    TmpLen,         \* sizeof tmp in postqueue_ringreadall
    MaxLen,         \* bound: the longest read
    MaxBytes,       \* bound: bytes that a device ever produces
    RxRoom,         \* packets that the card stores
    NDesc           \* transmit descriptors of the card

ASSUME DriversAssumption ==
    /\ NULL \notin Proc /\ Dev \subseteq {"com1", "kb", "mouse"}
    /\ \A u \in Uses : u \subseteq Dev \cup {"eth"}
    /\ Room \in Nat /\ TmpLen \in Nat /\ MaxLen \in Nat \ {0} /\ MaxBytes \in Nat
    /\ RxRoom \in Nat /\ NDesc \in Nat \ {0}

VARIABLES
    use,            \* the devices that are used, which never changes
    proc,           \* "run", "dead", or the device whose data p waits for
    queue,          \* hung_reads, kb_queue, mouse_queue, and blocked_on of the card
    ring, nin,      \* the bytes stored, and how many were ever stored
    last, readers,  \* the last byte p was given, and who ever read the device
    rx, status, mask,   \* packets stored; bit 0 of INTRSTATUS and of INTRMASK
    irq,            \* where rtl8139_irq is
    desc, busy,     \* the next transmit descriptor, and the ones the card has
    panic

chars == <<ring, nin, last, readers>>
card  == <<use, rx, status, mask, irq, desc, busy>>
drivers_vars == <<use, proc, queue, ring, nin, last, readers, rx, status, mask, irq, desc, busy, panic>>

Requests == [caller : Proc \cup {NULL}, len : 0..MaxLen]

DriversTypeOK ==
    /\ proc \in [Proc -> {"run", "dead", "eth"} \cup Dev]
    /\ \A d \in Dev \cup {"eth"} : queue[d] \in Seq(Requests)
    /\ \A d \in Dev : ring[d] \in Seq(1..MaxBytes) /\ Len(ring[d]) <= Room
    /\ nin \in [Dev -> 0..MaxBytes] /\ last \in [Dev -> [Proc -> 0..MaxBytes]]
    /\ readers \in [Dev -> SUBSET Proc]
    /\ rx \in 0..RxRoom /\ status \in BOOLEAN /\ mask \in BOOLEAN
    /\ irq \in {"out", "loop", "ack"}
    /\ desc \in 0..(NDesc - 1) /\ busy \in Seq(0..(NDesc - 1))
    /\ panic \in {"none", "freed", "tx", "join"}

Up(p) == panic = "none" /\ irq = "out" /\ proc[p] = "run"
CpuIdle  == panic = "none" /\ irq = "out" /\ \A p \in Proc : proc[p] # "run"

-----------------------------------------------------------------------------
(* driver/util.c *)

\* A bug: the request goes to the front.
postqueue_join_front(q, r) == <<r>> \o q
postqueue_join(q, r) == Append(q, r)

\* How many bytes postqueue_ringreadall takes from the ring.
taken(q, r) == Min({Max({r2.len : r2 \in ToSet(q)} \cup {0}), TmpLen, Len(r)})

\* Bug: one request is left in the queue.
queue_left_one(q) == Tail(q)
\* What the queue is set to.
queue_left(q) == <<>>

ring_put1b(r, b) == IF Len(r) < Room THEN Append(r, b) ELSE r

\* Every request of the queue is answered with the start of the same bytes.
\* The loop follows postqueue_next of a request that is already finished:
\* when its caller is dead, kfree has filled it with 0xC0.
Ringreadall(d, q, r) ==
    LET tmp == SubSeq(r, 1, taken(q, r))
        got(p) == UNION {{tmp[i] : i \in 1..Min({x.len, Len(tmp)})} :
                            x \in {y \in ToSet(q) : y.caller = p}}
    IN IF r = <<>> \/ q = <<>>
       THEN /\ queue' = [queue EXCEPT ![d] = q] /\ ring' = [ring EXCEPT ![d] = r]
            /\ UNCHANGED <<last, panic>>
       ELSE /\ ring' = [ring EXCEPT ![d] = SubSeq(r, Len(tmp) + 1, Len(r))]
            /\ queue' = [queue EXCEPT ![d] = queue_left(q)]
            /\ last' = [last EXCEPT ![d] = [p \in Proc |-> Max(got(p) \cup {@[p]})]]
            /\ panic' = IF \E x \in ToSet(q) : x.caller = NULL THEN "freed" ELSE panic

Woken(q, r) == IF r = <<>> THEN {} ELSE {x.caller : x \in ToSet(q)}

\* A read of a character device: join, then try.
ReadChar(p, d, len) ==
    LET q == postqueue_join(queue[d], [caller |-> p, len |-> len]) IN
    /\ Up(p)
    /\ readers' = [readers EXCEPT ![d] = @ \cup {p}]
    /\ Ringreadall(d, q, ring[d])
    /\ proc' = [x \in Proc |-> IF x \in Woken(q, ring[d]) THEN "run"
                               ELSE IF x = p THEN d ELSE proc[x]]
    /\ UNCHANGED <<nin, card>>

\* A byte is stored, or dropped when the ring is full, and the waiting readers
\* are served.
IrqChar(d) ==
    LET r == ring_put1b(ring[d], nin[d] + 1) IN
    /\ CpuIdle /\ nin[d] < MaxBytes
    /\ nin' = [nin EXCEPT ![d] = IF r = ring[d] THEN @ ELSE @ + 1]
    /\ Ringreadall(d, queue[d], r)
    /\ proc' = [x \in Proc |-> IF x \in Woken(queue[d], r) THEN "run" ELSE proc[x]]
    /\ UNCHANGED <<readers, card>>

\* accept and serial_irq of serial.c, accept and an iteration of ps2_irq of
\* ps2.c.  Opens, writes and the listing of /dev/ps2/ finish at once.
SerialAccept(p, len) == "com1" \in use /\ ReadChar(p, "com1", len)
Ps2Accept(p, len) == \E d \in {"kb", "mouse"} \cap use : ReadChar(p, d, len)
SerialIrq == "com1" \in use /\ IrqChar("com1")
Ps2Irq == \E d \in {"kb", "mouse"} \cap use : IrqChar(d)

-----------------------------------------------------------------------------
(* rtl8139.c *)

\* A packet arrives, even while the handler runs; one that finds the buffer
\* full is lost.  The buffer does not fill up between the last look of the
\* handler and its acknowledgement.
Arrive ==
    /\ panic = "none" /\ "eth" \in use
    /\ irq = "ack" => rx < RxRoom - 1
    /\ IF rx < RxRoom THEN rx' = rx + 1 /\ status' = TRUE ELSE UNCHANGED <<rx, status>>
    /\ UNCHANGED <<use, proc, queue, chars, mask, irq, desc, busy, panic>>

rx_irq_enabled == TRUE

\* VFSOP_READ: a packet (try_rx), or the request waits and the interrupt is
\* enabled.
ReadEth(p) ==
    /\ IF rx > 0
       THEN rx' = rx - 1 /\ UNCHANGED <<proc, queue, mask>>
       ELSE /\ queue' = [queue EXCEPT !["eth"] = postqueue_join(@, [caller |-> p, len |-> 1])]
            /\ proc' = [proc EXCEPT ![p] = "eth"]
            /\ mask' = rx_irq_enabled
            /\ UNCHANGED rx
    /\ UNCHANGED <<use, chars, status, irq, desc, busy, panic>>

\* rtl8139_irq: the status must say that a packet was received.
IrqEnter ==
    /\ CpuIdle /\ status /\ mask
    /\ irq' = "loop"
    /\ UNCHANGED <<use, proc, queue, chars, rx, status, mask, desc, busy, panic>>

\* An iteration: while there is a packet, the first request that waits is
\* popped and accepted again; a killed caller costs no packet.
IrqLoop ==
    LET q == queue["eth"] IN
    /\ panic = "none" /\ irq = "loop"
    /\ \/ /\ rx = 0
          /\ irq' = "ack" /\ UNCHANGED <<rx, mask, proc, queue>>
       \/ /\ rx > 0 /\ q = <<>>
          /\ mask' = FALSE /\ irq' = "ack" /\ UNCHANGED <<rx, proc, queue>>
       \/ /\ rx > 0 /\ q # <<>>
          /\ queue' = [queue EXCEPT !["eth"] = Tail(q)]
          /\ rx' = IF Head(q).caller = NULL THEN rx ELSE rx - 1
          /\ proc' = [x \in Proc |-> IF x = Head(q).caller THEN "run" ELSE proc[x]]
          /\ UNCHANGED <<irq, mask>>
    /\ UNCHANGED <<use, chars, status, desc, busy, panic>>

IrqAck ==
    /\ panic = "none" /\ irq = "ack"
    /\ irq' = "out" /\ status' = FALSE
    /\ UNCHANGED <<use, proc, queue, chars, rx, mask, desc, busy, panic>>

next_desc(d) == (d + 1) % NDesc

\* try_tx: the card must be done with the descriptor whose turn it is.
WriteEth(p) ==
    /\ IF desc \in ToSet(busy)
       THEN panic' = "tx" /\ UNCHANGED <<busy, desc>>
       ELSE busy' = Append(busy, desc) /\ desc' = next_desc(desc) /\ UNCHANGED panic
    /\ UNCHANGED <<use, proc, queue, chars, rx, status, mask, irq>>

\* accept of rtl8139.c.
EthAccept(p) == "eth" \in use /\ Up(p) /\ (ReadEth(p) \/ WriteEth(p))

Transmitted ==
    /\ panic = "none" /\ busy # <<>>
    /\ busy' = Tail(busy)
    /\ UNCHANGED <<use, proc, queue, chars, rx, status, mask, irq, desc, panic>>

orphaned(q, p) == [i \in DOMAIN q |-> IF q[i].caller = p THEN [q[i] EXCEPT !.caller = NULL] ELSE q[i]]

\* A process ends, or a running one kills another: proc_kill takes the caller
\* out of a request that waits.
Kill(p, k) ==
    /\ Up(k) /\ proc[p] # "dead"
    /\ proc' = [proc EXCEPT ![p] = "dead"]
    /\ queue' = [d \in DOMAIN queue |-> orphaned(queue[d], p)]
    /\ UNCHANGED <<chars, card, panic>>

DriversInit ==
    /\ use \in Uses
    /\ proc = [p \in Proc |-> "run"]
    /\ queue = [d \in Dev \cup {"eth"} |-> <<>>]
    /\ ring = [d \in Dev |-> <<>>] /\ nin = [d \in Dev |-> 0]
    /\ last = [d \in Dev |-> [p \in Proc |-> 0]] /\ readers = [d \in Dev |-> {}]
    /\ rx = 0 /\ status = FALSE /\ mask = FALSE /\ irq = "out"
    /\ desc = 0 /\ busy = <<>> /\ panic = "none"

Irq == IrqEnter \/ IrqLoop \/ IrqAck

DriversNext ==
    \/ \E p \in Proc, len \in 0..MaxLen : SerialAccept(p, len) \/ Ps2Accept(p, len)
    \/ \E p \in Proc : EthAccept(p)
    \/ \E p, k \in Proc : Kill(p, k)
    \/ SerialIrq \/ Ps2Irq \/ Arrive \/ Irq \/ Transmitted

DriversSpec == DriversInit /\ [][DriversNext]_drivers_vars

\* Packets keep arriving, an interrupt that is pending is taken once no
\* process runs, and its handler goes on.
DriversFairness == WF_drivers_vars(Arrive) /\ WF_drivers_vars(Irq)

-----------------------------------------------------------------------------
(* Properties. *)

\* postqueue_ringreadall leaves no reader asleep while its device has bytes.
NoMissedByte == \A d \in Dev : queue[d] = <<>> \/ ring[d] = <<>>

\* A process that is the only reader of a device gets every byte that was
\* stored, in order and once, although the ring is drained TmpLen bytes at a
\* time and by readers of different lengths.
SoleReaderGapless ==
    \A d \in Dev, p \in Proc :
        readers[d] = {p} /\ panic = "none" => last[d][p] + Len(ring[d]) = nin[d]

\* A process waits for a device exactly if one request in its queue is its own.
WaitersQueued ==
    panic = "none" =>
    \A d \in Dev \cup {"eth"}, p \in Proc :
        Cardinality({i \in DOMAIN queue[d] : queue[d][i].caller = p})
            = IF proc[p] = d THEN 1 ELSE 0

\* The kernel panics only where it is known to: a reader of a character
\* device was killed (the loop of postqueue_ringreadall reads a request that
\* it has freed), or all the transmit descriptors are in use.
KnownPanics ==
    /\ panic \in {"none", "freed", "tx"}
    /\ panic = "tx" => Len(busy) = NDesc
    /\ panic = "freed" => \E p \in Proc : proc[p] = "dead"

\* While a read waits for a packet the interrupt of the card is enabled, so
\* that the next packet is noticed, whoever took the earlier ones.
IrqArmed == queue["eth"] # <<>> => mask

\* As long as packets keep arriving and all processes wait from time to time,
\* a read of the card is answered, although new reads overtake those that wait
\* and the acknowledgement at the end of rtl8139_irq may erase the news of a
\* packet that came during the handler.
EthServed == []<>CpuIdle => \A p \in Proc : proc[p] = "eth" ~> proc[p] # "eth"

\* No byte is left while somebody waits for it, a sole reader misses none, who
\* waits is in a queue, the card interrupts, and the kernel panics only where
\* it is known to.
DriversSound == DriversTypeOK /\ NoMissedByte /\ SoleReaderGapless /\ WaitersQueued /\ IrqArmed /\ KnownPanics
==============================================================================
