-------------------------------- MODULE Pipe --------------------------------
(***************************************************************************)
(* A pipe and the tables of handles that refer to its ends:                *)
(* src/kernel/pipe.c, src/kernel/handle.c, the functions on handles of     *)
(* src/kernel/proc.c, and the system calls read, write, dup, close and     *)
(* fork.  Processes forked with FORK_SHAREHANDLE have one table.           *)
(*                                                                         *)
(* A transfer has no buffer: a reader and a writer wait in the queues of   *)
(* the two ends until both are there, and the shorter length is copied.    *)
(***************************************************************************)
EXTENDS Integers, Sequences, FiniteSets

CONSTANTS
    Proc,           \* processes
    Root,           \* the process that makes the pipe
    NULL,           \* the null pointer
    HANDLE_MAX,     \* the size of a table
    ReadLens,       \* the lengths of reads and of writes
    WriteLens,
    Share           \* whether processes fork with FORK_SHAREHANDLE

ASSUME PipeAssumption ==
    /\ Root \in Proc /\ NULL \notin Proc /\ NULL \notin {"R", "W"}
    /\ IsFiniteSet(Proc)
    /\ HANDLE_MAX \in Nat /\ HANDLE_MAX > 2
    /\ ReadLens \subseteq Nat /\ WriteLens \subseteq Nat
    /\ Share \in BOOLEAN

VARIABLES
    state,          \* Proc.state
    table,          \* Proc._handles: the process for which the table was made
    slots,          \* what is in each table
    handles_refcount,  \* how many processes use each table
    refcount,       \* Handle.refcount of the two ends; 0 when it is freed
    queued,         \* Handle.pipe.queued of the two ends
    waits,          \* Proc.waits4pipe: the end and the length
    ret,            \* the results of reads and writes that the last step gave
    killed,         \* the process in the loop of proc_kill over the handles
    hid,            \* the loop variable of that loop
    panic           \* the assertion that has failed, or "none"

vars  == <<state, table, slots, handles_refcount, refcount, queued, waits, ret,
           killed, hid, panic>>

End       == {"R", "W"}
sister(e) == IF e = "R" THEN "W" ELSE "R"
Hid       == 0..(HANDLE_MAX - 1)

EPIPE == -32
None  == -99        \* no result
NoRet == [p \in Proc |-> None]

\* Proc.waits4pipe of a process that does not wait.
NoWait == [end |-> "R", len |-> 0]

TypeOK ==
    /\ state \in [Proc -> {"NEW", "RUNNING", "WAITS4PIPE", "DEAD"}]
    /\ table \in [Proc -> Proc \cup {NULL}]
    /\ slots \in [Proc -> [Hid -> End \cup {NULL}]]
    /\ handles_refcount \in [Proc -> Nat]
    /\ refcount \in [End -> Nat]
    /\ queued \in [End -> Seq(Proc)]
    /\ waits \in [Proc -> [end : End, len : {0} \cup ReadLens \cup WriteLens]]
    /\ \A p \in Proc : ret[p] \in {None, EPIPE, -1} \/ ret[p] \in Nat
    /\ killed \in Proc \cup {NULL}
    /\ hid \in 0..HANDLE_MAX
    /\ panic \in {"none", "queued"}

-----------------------------------------------------------------------------
InQueue(p, q) == \E i \in DOMAIN q : q[i] = p
Place(p, q)   == CHOOSE i \in DOMAIN q : q[i] = p
Without(q, p) == [i \in 1..(Len(q) - 1) |-> IF i < Place(p, q) THEN q[i] ELSE q[i + 1]]
Get(p, h)     == slots[table[p]][h]
FreeHids(t, start) == {h \in Hid : h >= start /\ slots[t][h] = NULL}

\* proc_find_free_handle
proc_find_free_handle(p, start) ==
    LET free == FreeHids(table[p], start)
    IN IF free = {} THEN -1 ELSE CHOOSE h \in free : \A g \in free : h <= g

\* handle_close(e), where e may be NULL, before an end `inc' gains a
\* reference.  The other end is told with pipe_invalidate_end.
handle_close(e, inc) ==
    LET left == [x \in End |-> refcount[x] - (IF x = e THEN 1 ELSE 0)]
        last == e # NULL /\ left[e] = 0
        cut  == IF last /\ refcount[sister(e)] > 0
                THEN {p \in Proc : InQueue(p, queued[sister(e)])} ELSE {}
    IN
    /\ refcount' = [x \in End |-> left[x] + (IF x = inc THEN 1 ELSE 0)]
    /\ state' = [p \in Proc |-> IF p \in cut THEN "RUNNING" ELSE state[p]]
    /\ ret' = [p \in Proc |-> IF p \in cut THEN -1 ELSE None]
    /\ waits' = [p \in Proc |-> IF p \in cut THEN NoWait ELSE waits[p]]
    /\ queued' = [x \in End |-> IF last /\ x = sister(e) THEN <<>> ELSE queued[x]]
    /\ panic' = IF last /\ queued[e] # <<>> THEN "queued" ELSE panic

-----------------------------------------------------------------------------
(* System calls. *)

Running(p) == state[p] = "RUNNING" /\ killed = NULL /\ panic = "none"

\* The references after the table of p has been copied.
copied(p) == [e \in End |-> refcount[e] + Cardinality({h \in Hid : Get(p, h) = e})]

\* proc_fork: the table is copied, or shared.
Fork(p) ==
    /\ Running(p)
    /\ \E c \in Proc :
        /\ state[c] = "NEW"
        /\ state' = [state EXCEPT ![c] = "RUNNING"]
        /\ \/ /\ table' = [table EXCEPT ![c] = c]
              /\ slots' = [slots EXCEPT ![c] = slots[table[p]]]
              /\ handles_refcount' = [handles_refcount EXCEPT ![c] = 1]
              /\ refcount' = copied(p)
           \/ /\ Share
              /\ table' = [table EXCEPT ![c] = table[p]]
              /\ handles_refcount' = [handles_refcount EXCEPT ![table[p]] = @ + 1]
              /\ UNCHANGED <<slots, refcount>>
    /\ ret' = NoRet
    /\ UNCHANGED <<queued, waits, killed, hid, panic>>

\* _sys_dup and proc_handle_dup, from a handle that is open or not, to a given
\* slot or (DUP_SEARCH) to the first free one after it.
Dup(p) ==
    /\ Running(p)
    /\ \E from \in Hid :
        \E to \in Hid \cup {proc_find_free_handle(p, arg) : arg \in Hid} :
            /\ to >= 0 /\ to # from
            /\ Get(p, to) # Get(p, from)    \* else nothing changes
            /\ handle_close(Get(p, to), Get(p, from))
            /\ slots' = [slots EXCEPT ![table[p]][to] = Get(p, from)]
    /\ UNCHANGED <<table, handles_refcount, killed, hid>>

\* _sys_close
Close(p) ==
    /\ Running(p)
    /\ \E h \in Hid :
        /\ Get(p, h) # NULL
        /\ handle_close(Get(p, h), NULL)
        /\ slots' = [slots EXCEPT ![table[p]][h] = NULL]
    /\ UNCHANGED <<table, handles_refcount, killed, hid>>

\* A bug: nobody looks whether there is another end.
PeerGone_ignored(e) == FALSE

\* The other end is closed.
PeerGone(e) == refcount[sister(e)] = 0

\* A bug: the newcomer is put first.
joined_first(e, p) == <<p>> \o queued[e]

\* pipe_joinqueue: the queue of the end e with p in it.
joined(e, p) == Append(queued[e], p)

\* pipe_trytransfer, with the queue q at the end e: the first of each queue
\* are served.  pcpy_bi stops at memory that one of them does not have.
Transfer(e, q, w) ==
    LET s == sister(e)
        a == Head(q)
        b == Head(queued[s])
    IN
    /\ state' = [state EXCEPT ![q[Len(q)]] = "WAITS4PIPE", ![a] = "RUNNING",
                              ![b] = "RUNNING"]
    /\ queued' = [queued EXCEPT ![e] = Tail(q), ![s] = Tail(@)]
    /\ \E len \in 0..(IF w[a].len < w[b].len THEN w[a].len ELSE w[b].len) :
        ret' = [NoRet EXCEPT ![a] = len, ![b] = len]
    /\ waits' = [w EXCEPT ![a] = NoWait, ![b] = NoWait]

\* _sys_read of the end R or _sys_write of the end W.
ReadWrite(p) ==
    /\ Running(p)
    /\ \E h \in Hid : \E n \in IF Get(p, h) = "R" THEN ReadLens ELSE WriteLens :
        LET e == Get(p, h)
            q == joined(e, p)
            w == [waits EXCEPT ![p] = [end |-> e, len |-> n]]
        IN
        /\ e # NULL
        /\ \/ /\ PeerGone(e)
              /\ ret' = [NoRet EXCEPT ![p] = IF e = "R" THEN 0 ELSE EPIPE]
              /\ UNCHANGED <<state, queued, waits>>
           \/ /\ ~PeerGone(e) /\ queued[sister(e)] = <<>>
              /\ state' = [state EXCEPT ![p] = "WAITS4PIPE"]
              /\ queued' = [queued EXCEPT ![e] = q]
              /\ waits' = w
              /\ ret' = NoRet
           \/ /\ ~PeerGone(e) /\ queued[sister(e)] # <<>>
              /\ Transfer(e, q, w)
    /\ UNCHANGED <<table, slots, handles_refcount, refcount, killed, hid, panic>>

\* A bug: a killed process stays in the queue.
dequeued_not(p) == queued

\* The queues without the process p, which is killed: the loop of proc_kill
\* finds it and unlinks it.
dequeued(p) ==
    IF state[p] = "WAITS4PIPE"
    THEN [queued EXCEPT ![waits[p].end] = Without(@, p)]
    ELSE queued

\* proc_kill: p leaves the queue, and the table if others still use it.
Kill(p) ==
    /\ killed = NULL /\ panic = "none"
    /\ state[p] \in {"RUNNING", "WAITS4PIPE"}
    /\ queued' = dequeued(p)
    /\ handles_refcount' = [handles_refcount EXCEPT ![table[p]] = @ - 1]
    /\ IF handles_refcount[table[p]] > 1
       THEN /\ state' = [state EXCEPT ![p] = "DEAD"]
            /\ table' = [table EXCEPT ![p] = NULL]
            /\ UNCHANGED <<killed, hid>>
       ELSE /\ killed' = p /\ hid' = 0
            /\ UNCHANGED <<state, table>>
    /\ waits' = [waits EXCEPT ![p] = NoWait]
    /\ ret' = NoRet
    /\ UNCHANGED <<slots, refcount, panic>>

\* The loop of proc_kill that closes the handles of the table.
KillClose ==
    /\ killed # NULL /\ panic = "none" /\ hid < HANDLE_MAX
    /\ handle_close(Get(killed, hid), NULL)
    /\ slots' = [slots EXCEPT ![table[killed]][hid] = NULL]
    /\ hid' = hid + 1
    /\ UNCHANGED <<table, handles_refcount, killed>>

KillEnd ==
    /\ killed # NULL /\ panic = "none" /\ hid = HANDLE_MAX
    /\ state' = [state EXCEPT ![killed] = "DEAD"]
    /\ table' = [table EXCEPT ![killed] = NULL]
    /\ killed' = NULL /\ hid' = 0
    /\ ret' = NoRet
    /\ UNCHANGED <<slots, handles_refcount, refcount, queued, waits, panic>>

\* _sys_pipe has just been called by Root: proc_handle_init puts the ends in
\* the first free slots after slot 0.
Init ==
    /\ state = [p \in Proc |-> IF p = Root THEN "RUNNING" ELSE "NEW"]
    /\ table = [p \in Proc |-> IF p = Root THEN Root ELSE NULL]
    /\ slots = [p \in Proc |-> [h \in Hid |->
                    CASE p = Root /\ h = 1 -> "R" [] p = Root /\ h = 2 -> "W"
                      [] OTHER -> NULL]]
    /\ handles_refcount = [p \in Proc |-> IF p = Root THEN 1 ELSE 0]
    /\ refcount = [e \in End |-> 1]
    /\ queued = [e \in End |-> <<>>]
    /\ waits = [p \in Proc |-> NoWait]
    /\ ret = NoRet
    /\ killed = NULL /\ hid = 0
    /\ panic = "none"

Next ==
    \/ \E p \in Proc : Fork(p) \/ Dup(p) \/ Close(p) \/ ReadWrite(p) \/ Kill(p)
    \/ KillClose \/ KillEnd

Spec == Init /\ [][Next]_vars

-----------------------------------------------------------------------------
(* Properties. *)

\* A process waits for the pipe exactly while it is in one queue, once, and
\* it is the queue of the end it waits for.
QueuesOK ==
    \A p \in Proc \ {killed} : \A e \in End :
        Cardinality({i \in DOMAIN queued[e] : queued[e][i] = p}) =
            IF state[p] = "WAITS4PIPE" /\ waits[p].end = e THEN 1 ELSE 0

\* A reader and a writer never wait for each other: whoever comes second
\* makes the transfer.
NoMissedTransfer == queued["R"] = <<>> \/ queued["W"] = <<>>

\* Nobody waits for an end that is closed: when the last handle of an end is
\* closed, those who wait at the other are woken.
NoWaitForClosedEnd ==
    panic = "none" => \A e \in End : queued[e] # <<>> => refcount[e] > 0 /\ refcount[sister(e)] > 0

\* The count of an end is the number of slots that hold it in the tables in
\* use, and the count of a table is the number of processes that use it.
RefsOK ==
    /\ \A e \in End : refcount[e] =
        Cardinality({s \in Proc \X Hid : slots[s[1]][s[2]] = e})
    /\ killed = NULL => \A t \in Proc :
        handles_refcount[t] = Cardinality({p \in Proc : table[p] = t})

\* Reads and writes are served in the order in which they came, and a read
\* is given exactly what one write gives: who joins a queue (pipe_joinqueue)
\* is the last in it, and when pipe_trytransfer serves one that waited, it is
\* the first in its queue and one process of the other end gets the same
\* length.
FairStep ==
    /\ \A p \in Proc : state[p] = "WAITS4PIPE" /\ ret'[p] >= 0 =>
        LET e == waits[p].end IN
        /\ p = Head(queued[e]) /\ queued'[e] = Tail(queued[e])
        /\ \E q \in Proc : /\ {r \in Proc : ret'[r] # None} = {p, q}
                           /\ ret'[q] = ret'[p] /\ ret'[p] <= waits[p].len
                           /\ ~InQueue(q, queued[e])
    /\ \A e \in End : queued'[e] # queued[e] => \A p, q \in Proc :
        /\ InQueue(p, queued[e]) /\ InQueue(p, queued'[e])
        /\ ~InQueue(q, queued[e]) /\ InQueue(q, queued'[e])
        => Place(p, queued'[e]) < Place(q, queued'[e])
FairTransfer == [][FairStep]_vars

\* The table of a process that waits keeps the end open, unless a process that
\* shares the table closes it; only so does handle_close come to its failing
\* assertion, that nobody is in the queue of an end that goes away.  (Nobody
\* dead is in a queue then.)
Holds(p, e) == table[p] # NULL /\ \E h \in Hid : Get(p, h) = e
EndStep ==
    /\ slots' # slots => \A p \in Proc \ {killed'} :
        /\ state[p] = "WAITS4PIPE" /\ state'[p] = "WAITS4PIPE"
        /\ Holds(p, waits[p].end) /\ ~Holds(p, waits[p].end)'
        => handles_refcount[table[p]] > 1
    /\ panic' # panic => \A e \in End : refcount'[e] = 0 =>
        \A p \in Proc : InQueue(p, queued'[e]) =>
            /\ p # killed' /\ state'[p] = "WAITS4PIPE"
            /\ ~Holds(p, e)'
EndLostOnlyIfShared == [][EndStep]_vars

\* The queues hold exactly those who wait, and the counts the ends that exist.
PipeSound == TypeOK /\ QueuesOK /\ RefsOK

\* Nobody waits when a partner waits as well, or when no partner can come.
NobodyWaitsInVain == NoMissedTransfer /\ NoWaitForClosedEnd

\* First come, first served; and only a shared table takes an end away from a
\* process that waits at it.
TransfersExact == FairTransfer /\ EndLostOnlyIfShared
=============================================================================
