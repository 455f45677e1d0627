-------------------------------- MODULE Vfs --------------------------------
(***************************************************************************)
(* Requests to a file system that a user process provides:                 *)
(* src/kernel/vfs/request.c, src/kernel/handle.c, the system calls of      *)
(* src/kernel/syscalls.c that use them, and the part of proc_kill that     *)
(* takes a process out of them.                                            *)
(*                                                                         *)
(* There is one backend.  The functions of the kernel that call each other *)
(* in the middle of a system call are operators from kernel states to      *)
(* kernel states, named as in the code; the variable k is the kernel       *)
(* state.  proc_kill, which runs loops over the queue of the backend and   *)
(* over the handles of the process, takes a step per iteration.            *)
(***************************************************************************)
EXTENDS Naturals, Sequences, FiniteSets

CONSTANTS
    Proc,           \* processes
    Root,           \* the one that runs at first
    NULL,           \* the null pointer
    HANDLE_MAX,     \* how many handles a process may have
    MaxOpens,       \* bound: how many times a file is opened
    Risks           \* the calls below that the instance makes

\* Calls that the code refuses with a panic, sooner or later (see README):
\*   kill_open, kill_read: a process is killed in the middle of such a call
\*   kill_write: a process is killed before its write has been accepted
\*   two_handlers: a second process calls fs_wait while one is waiting
\*   full_table: fs_wait is called with no free handle
\*   drain: the last provider dies when only queued requests use the backend
AllRisks == {"kill_open", "kill_read", "kill_write", "two_handlers",
             "full_table", "drain"}

ASSUME VfsAssumption ==
    /\ IsFiniteSet(Proc) /\ Proc \cap Nat = {}
    /\ Root \in Proc /\ NULL \notin Proc /\ NULL \notin Nat
    /\ HANDLE_MAX \in Nat \ {0} /\ MaxOpens \in Nat
    /\ Risks \subseteq AllRisks

VARIABLES
    k,              \* the state of the kernel, see Kernel
    opens,          \* how many times a file has been opened
    phase,          \* where proc_kill is, "none" when it is not running
    dying,          \* the process being killed
    drain           \* the requests left in the loop of vfs_backend_refdown

vars == <<k, opens, phase, dying, drain>>

\* A request is identified by the process whose reqslot it is in; the
\* requests without a caller (closing a file) have numbers.
CloseReq == 1..MaxOpens
Req      == Proc \cup CloseReq
Handle   == 1..(HANDLE_MAX * Cardinality(Proc) + 1)
Ops      == {"OPEN", "READ", "WRITE", "GETSIZE", "REMOVE", "CLOSE"}

Kernel ==
    [state      : [Proc -> {"NEW", "RUNNING", "WAITS4FS", "WAITS4REQUEST", "DEAD"}],
     handles    : [Proc -> SUBSET Handle],              \* Proc._handles
     controlled : [Proc -> BOOLEAN],                    \* Proc.controlled
     mount      : [Proc -> Proc \cup {NULL}],           \* who made Proc.mount
     mrefs      : [Proc -> Nat],                        \* VfsMount.refs
     h          : [Handle -> [type : {"INVALID", "FILE", "FS_FRONT", "FS_REQ"},
                              req : Req \cup {NULL},
                              refcount : Nat]],
     req        : [Req -> [st : {"none", "queued", "accepted"},
                           op : Ops,
                           caller : Proc \cup {NULL}]],
     backend    : {"none", "live", "freed"},
     usehcnt    : Nat, provhcnt : Nat,
     queue      : Seq(Req),
     handler    : Proc \cup {NULL},
     panic      : {"none", "refs", "caller", "open", "read", "write", "queue"}
                        \cup AllRisks]

TypeOK ==
    /\ k \in Kernel
    /\ opens \in 0..MaxOpens
    /\ phase \in {"none", "drain", "slot", "handles"}
    /\ dying \in Proc \cup {NULL}
    /\ drain \in Seq(Req)

-----------------------------------------------------------------------------
(* The functions of the kernel. *)

\* The first assertion that fails is the one that stops the kernel.
Check(s, cond, site) ==
    IF cond \/ s.panic # "none" THEN s ELSE [s EXCEPT !.panic = site]

FreeHandles(s) == {h \in Handle : s.h[h].refcount = 0}
NewHandle(s)   == CHOOSE h \in FreeHandles(s) : \A g \in FreeHandles(s) : h <= g
TableFull(s, p) == Cardinality(s.handles[p]) = HANDLE_MAX

\* handle_init; the handle is then put in the table of p.
handle_init(s, p, type, r) ==
    [s EXCEPT !.h[NewHandle(s)] = [type |-> type, req |-> r, refcount |-> 1],
              !.handles[p] = @ \cup {NewHandle(s)}]

\* A bug: the handler is not told that nobody can make a request any more.
refdown_use_silent(s) ==
    LET down == [s EXCEPT !.usehcnt = IF @ = 0 THEN 0 ELSE @ - 1]
    IN IF down.usehcnt = 0 /\ down.provhcnt = 0 THEN [down EXCEPT !.backend = "freed"]
       ELSE down

\* vfs_backend_refdown(b, true)
refdown_use(s) ==
    LET down  == [s EXCEPT !.usehcnt = IF @ = 0 THEN 0 ELSE @ - 1]
        awake == IF down.usehcnt = 0 /\ s.handler # NULL
                 THEN [down EXCEPT !.state[s.handler] = "RUNNING", !.handler = NULL]
                 ELSE down
        freed == IF awake.usehcnt = 0 /\ awake.provhcnt = 0
                 THEN Check([awake EXCEPT !.backend = "freed"], s.queue = <<>>, "drain")
                 ELSE awake
    IN Check(freed, s.usehcnt > 0 /\ s.backend = "live", "refs")

\* vfsreq_finish, without the part that makes a handle of a successful open.
finish(s, r) ==
    LET down == refdown_use(s)
        c    == s.req[r].caller
        done == [down EXCEPT !.req[r] = [st |-> "none", op |-> "CLOSE", caller |-> NULL]]
    IN IF c = NULL THEN done
       ELSE Check([done EXCEPT !.state[c] = "RUNNING"],
                   s.state[c] = "WAITS4FS", "caller")

\* vfs_backend_tryaccept and vfs_backend_user_accept
tryaccept(s) ==
    IF s.queue = <<>> \/ s.handler = NULL THEN s
    ELSE LET r    == Head(s.queue)
             p    == s.handler
             next == [s EXCEPT !.queue = Tail(@), !.handler = NULL,
                               !.req[r].st = "accepted", !.state[p] = "RUNNING"]
         IN IF s.req[r].op = "WRITE" /\ s.req[r].caller = NULL
            THEN Check(s, FALSE, "kill_write")         \* pcpy_bi
            ELSE IF TableFull(s, p) THEN Check(s, FALSE, "full_table")
            ELSE handle_init(next, p, "FS_REQ", r)

\* vfsreq_create: a process p makes the request r = p, or r has no caller.
vfsreq_create(s, r, op, p) ==
    LET made == [s EXCEPT !.req[r] = [st |-> "queued", op |-> op, caller |-> p],
                          !.state = IF p = NULL THEN @ ELSE [@ EXCEPT ![p] = "WAITS4FS"],
                          !.usehcnt = @ + 1]
        sent == IF s.provhcnt > 0 THEN tryaccept([made EXCEPT !.queue = Append(@, r)])
                ELSE finish(made, r)
    IN Check(sent, s.usehcnt > 0, "refs")

\* The last handle of a file is closed: the file system is told.
close_file(s) ==
    LET new == CHOOSE r \in CloseReq : s.req[r].st = "none"
    IN refdown_use(vfsreq_create(s, new, "CLOSE", NULL))

\* handle_close of the object h, whose reference p had.
handle_close(s, p, h) ==
    LET drop == [s EXCEPT !.handles[p] = @ \ {h}, !.h[h].refcount = @ - 1]
        type == s.h[h].type
        gone == [drop EXCEPT !.h[h] = [type |-> "INVALID", req |-> NULL, refcount |-> 0]]
    IN IF s.h[h].refcount > 1 THEN drop
       ELSE CASE type = "FILE" -> close_file(gone)
              [] type = "FS_FRONT" -> refdown_use(gone)
              [] type = "FS_REQ" -> IF s.h[h].req = NULL THEN gone
                                    ELSE finish(gone, s.h[h].req)

\* vfsreq_finish of an open that succeeds: the caller is given a new handle
\* for the file, or the handle d that the handler p delegates.
finish_open(s, r, p, d) ==
    LET c    == s.req[r].caller
        file == handle_init([s EXCEPT !.usehcnt = @ + 1], c, "FILE", NULL)
        h    == IF d = NULL THEN NewHandle(s) ELSE d
        put  == IF d = NULL THEN file
                ELSE [s EXCEPT !.handles[p] = @ \ {d}, !.handles[c] = @ \cup {d}]
    IN IF c = NULL THEN Check(s, FALSE, "kill_open")
       ELSE IF TableFull(s, c) THEN finish(handle_close(put, c, h), r)
       ELSE finish(put, r)

-----------------------------------------------------------------------------
(* System calls. *)

Running(p) == phase = "none" /\ k.panic = "none" /\ k.state[p] = "RUNNING"
Done       == UNCHANGED <<phase, dying, drain>>
Step(s)    == k' = s /\ UNCHANGED opens /\ Done

\* What a child of p has in common with it.
forked(p, c) ==
    [k EXCEPT !.state[c] = "RUNNING",
              !.handles[c] = k.handles[p],
              !.h = [h \in Handle |->
                        IF h \in k.handles[p]
                        THEN [k.h[h] EXCEPT !.refcount = k.h[h].refcount + 1] ELSE k.h[h]],
              !.mount[c] = k.mount[p],
              !.mrefs = [m \in Proc |->
                            IF m = k.mount[p] THEN k.mrefs[m] + 1 ELSE k.mrefs[m]]]

\* The child c is another provider of what p provides.
provided(s, p, c) ==
    [s EXCEPT !.controlled[c] = k.controlled[p],
              !.provhcnt = IF k.controlled[p] THEN @ + 1 ELSE @]

\* _sys_fork
Fork(p) ==
    /\ Running(p)
    /\ \E c \in Proc : k.state[c] = "NEW" /\ Step(provided(forked(p, c), p, c))

\* _sys_fork with FORK_NEWFS: the child provides a new backend, and the
\* parent has the handle for it.  (Without a free handle nothing changes.)
ForkNewfs(p) ==
    /\ Running(p)
    /\ k.backend = "none" /\ ~TableFull(k, p)
    /\ \E c \in Proc :
        /\ k.state[c] = "NEW"
        /\ Step(handle_init([forked(p, c) EXCEPT !.controlled[c] = TRUE,
                                                 !.backend = "live",
                                                 !.provhcnt = 1, !.usehcnt = 1],
                            p, "FS_FRONT", NULL))

\* _sys_mount.  Bound: a process mounts the backend at most once.
Mount(p) ==
    /\ Running(p)
    /\ k.mount[p] = NULL /\ k.mrefs[p] = 0
    /\ \E h \in k.handles[p] : k.h[h].type = "FS_FRONT"
    /\ Step(Check([k EXCEPT !.mount[p] = p, !.mrefs[p] = 1, !.usehcnt = @ + 1],
                   k.usehcnt > 0, "refs"))

\* _sys_open
Open(p) ==
    /\ Running(p)
    /\ k.mount[p] # NULL
    /\ opens < MaxOpens
    /\ opens' = opens + 1
    /\ k' = vfsreq_create(k, p, "OPEN", p)
    /\ Done

\* simple_vfsop
FileOp(p) ==
    /\ Running(p)
    /\ \E h \in k.handles[p], op \in {"READ", "WRITE", "GETSIZE"} :
        /\ k.h[h].type = "FILE"
        /\ Step(vfsreq_create(k, p, op, p))

\* _sys_remove: the request is made, then the handle is closed.
Remove(p) ==
    /\ Running(p)
    /\ \E h \in k.handles[p] :
        /\ k.h[h].type = "FILE"
        /\ Step(handle_close(vfsreq_create(k, p, "REMOVE", p), p, h))

\* _sys_close
Close(p) ==
    /\ Running(p)
    /\ \E h \in k.handles[p] : Step(handle_close(k, p, h))

\* _sys_fs_wait
FsWait(p) ==
    /\ Running(p)
    /\ k.controlled[p]
    /\ k.handler = NULL \/ "two_handlers" \in Risks
    /\ ~TableFull(k, p) \/ "full_table" \in Risks
    /\ Step(IF k.usehcnt = 0 THEN k                     \* EPIPE
            ELSE Check(tryaccept([k EXCEPT !.state[p] = "WAITS4REQUEST", !.handler = p]),
                        k.handler = NULL, "two_handlers"))

\* _sys_fs_respond: the request of the handle h is finished, and h is closed.
\* An open succeeds with a new file or with a delegated handle d.  (Bound: not
\* one that the caller has already, nor a handle of a request.)
Delegable(p, r) ==
    {NULL} \cup {d \in k.handles[p] : /\ k.h[d].type \in {"FILE", "FS_FRONT"}
                                      /\ \A c \in Proc : k.req[r].caller = c =>
                                            d \notin k.handles[c]}

FsRespond(p) ==
    /\ Running(p)
    /\ \E h \in k.handles[p] :
        /\ k.h[h].type = "FS_REQ"
        /\ LET r        == k.h[h].req
               close(s) == handle_close([s EXCEPT !.h[h].req = NULL], p, h)
           IN
           \/ r = NULL /\ Step(close(k))
           \/ r # NULL /\ Step(close(finish(k, r)))
           \/ /\ r # NULL /\ k.req[r].op = "READ"       \* with data: pcpy_bi
              /\ Step(close(finish(Check(k, k.req[r].caller # NULL, "kill_read"), r)))
           \/ /\ r # NULL /\ k.req[r].op = "OPEN"
              /\ \E d \in Delegable(p, r) : Step(close(finish_open(k, r, p, d)))

-----------------------------------------------------------------------------
(* proc_kill(p): exit, a fault, or an interrupt from an ancestor. *)

Killable(p) ==
    /\ k.state[p] \in {"RUNNING", "WAITS4FS", "WAITS4REQUEST"}
    /\ k.state[p] = "WAITS4FS" =>
        /\ k.req[p].op = "OPEN" => "kill_open" \in Risks
        /\ k.req[p].op = "READ" => "kill_read" \in Risks
        /\ k.req[p].op = "WRITE" /\ k.req[p].st = "queued" => "kill_write" \in Risks
    /\ k.controlled[p] /\ k.provhcnt = 1 /\ k.queue # <<>> =>
        k.usehcnt > Len(k.queue) \/ "drain" \in Risks

\* The end of vfs_backend_refdown(b, false).
orphaned(s) ==
    IF s.usehcnt = 0 /\ s.provhcnt = 0 THEN [s EXCEPT !.backend = "freed"] ELSE s

\* p stops providing the backend.
Kill(p) ==
    /\ phase = "none" /\ k.panic = "none"
    /\ Killable(p)
    /\ dying' = p
    /\ IF k.controlled[p]
       THEN LET down == [k EXCEPT !.controlled[p] = FALSE,
                                  !.handler = IF @ = p THEN NULL ELSE @,
                                  !.provhcnt = @ - 1]
            IN IF down.provhcnt = 0 /\ k.queue # <<>>
               THEN k' = down /\ phase' = "drain" /\ drain' = k.queue
               ELSE k' = orphaned(down) /\ phase' = "slot" /\ UNCHANGED drain
       ELSE phase' = "slot" /\ UNCHANGED <<k, drain>>
    /\ UNCHANGED opens

\* A bug: the requests still queued are dropped.
KillDrain_drop ==
    /\ phase = "drain" /\ k.panic = "none"
    /\ k' = orphaned([k EXCEPT !.queue = <<>>])
    /\ phase' = "slot" /\ drain' = <<>>
    /\ UNCHANGED <<opens, dying>>

\* A queued request fails because nobody is left to serve it.
KillDrain ==
    /\ phase = "drain" /\ k.panic = "none"
    /\ LET s == finish(k, Head(drain)) IN
       IF Tail(drain) = <<>>
       THEN k' = orphaned([s EXCEPT !.queue = <<>>]) /\ phase' = "slot"
       ELSE k' = s /\ UNCHANGED phase
    /\ drain' = Tail(drain)
    /\ UNCHANGED <<opens, dying>>

\* The request of p, if any, is left without a caller.
KillSlot ==
    /\ phase = "slot" /\ k.panic = "none"
    /\ k' = IF k.state[dying] = "WAITS4FS" THEN [k EXCEPT !.req[dying].caller = NULL] ELSE k
    /\ phase' = "handles"
    /\ UNCHANGED <<opens, dying, drain>>

\* p closes a handle.
KillHandle ==
    /\ phase = "handles" /\ k.panic = "none"
    /\ \E h \in k.handles[dying] : k' = handle_close(k, dying, h)
    /\ UNCHANGED <<opens, phase, dying, drain>>

\* A bug: the backend of a mount that is gone is still counted as used.
mount_remref_leak(s, p) ==
    IF s.mount[p] = NULL THEN s
    ELSE [s EXCEPT !.mrefs[s.mount[p]] = @ - 1, !.mount[p] = NULL]

\* vfs_mount_remref
mount_remref(s, p) ==
    LET m == s.mount[p] IN
    IF m = NULL THEN s
    ELSE IF s.mrefs[m] > 1 THEN [s EXCEPT !.mrefs[m] = @ - 1, !.mount[p] = NULL]
    ELSE refdown_use([s EXCEPT !.mrefs[m] = 0, !.mount[p] = NULL])

KillEnd ==
    /\ phase = "handles" /\ k.panic = "none"
    /\ k.handles[dying] = {}
    /\ k' = [mount_remref(k, dying) EXCEPT !.state[dying] = "DEAD"]
    /\ phase' = "none" /\ dying' = NULL
    /\ UNCHANGED <<opens, drain>>

KillLoop == KillDrain \/ KillSlot \/ KillHandle \/ KillEnd

-----------------------------------------------------------------------------
Init ==
    /\ k = [state |-> [p \in Proc |-> IF p = Root THEN "RUNNING" ELSE "NEW"],
            handles |-> [p \in Proc |-> {}],
            controlled |-> [p \in Proc |-> FALSE],
            mount |-> [p \in Proc |-> NULL],
            mrefs |-> [p \in Proc |-> 0],
            h |-> [h \in Handle |-> [type |-> "INVALID", req |-> NULL, refcount |-> 0]],
            req |-> [r \in Req |-> [st |-> "none", op |-> "CLOSE", caller |-> NULL]],
            backend |-> "none", usehcnt |-> 0, provhcnt |-> 0,
            queue |-> <<>>, handler |-> NULL, panic |-> "none"]
    /\ opens = 0
    /\ phase = "none" /\ dying = NULL /\ drain = <<>>

Client(p) == Open(p) \/ FileOp(p) \/ Remove(p) \/ Close(p) \/ Mount(p)
Server(p) == FsWait(p) \/ FsRespond(p)

Next ==
    \/ \E p \in Proc : Fork(p) \/ ForkNewfs(p) \/ Client(p) \/ Server(p) \/ Kill(p)
    \/ KillLoop

Spec == Init /\ [][Next]_vars

\* A provider goes on serving, and the kernel finishes killing a process.
FairSpec ==
    /\ Spec
    /\ WF_vars(KillLoop)
    /\ \A p \in Proc : WF_vars(Server(p))

-----------------------------------------------------------------------------
(* Properties. *)

\* No assertion or "unimplemented" panic is reached.
NoPanic == k.panic = "none"

\* The counters are what request.h says they count, between system calls: a
\* mount, a request and a handle each use the backend once, a process
\* provides it once; a handle is counted once per table, a mount once per
\* process.
RefsOK ==
    phase = "none" /\ NoPanic =>
        /\ k.usehcnt = Cardinality({h \in Handle : k.h[h].type \in {"FILE", "FS_FRONT"}})
                       + Cardinality({m \in Proc : k.mrefs[m] > 0})
                       + Cardinality({r \in Req : k.req[r].st # "none"})
        /\ k.provhcnt = Cardinality({p \in Proc : k.controlled[p]})
        /\ \A h \in Handle :
            k.h[h].refcount = Cardinality({p \in Proc : h \in k.handles[p]})
        /\ \A m \in Proc : k.mrefs[m] = Cardinality({p \in Proc : k.mount[p] = m})
        /\ k.backend = "freed" <=> k.backend # "none" /\ k.usehcnt = 0 /\ k.provhcnt = 0

\* A process waits for a file system exactly while one unfinished request
\* names it as the caller, and a request that has been accepted is in the
\* hands of exactly one handle, so that it is answered exactly once.
RequestsOK ==
    phase = "none" /\ NoPanic =>
        /\ \A p \in Proc : k.state[p] = "WAITS4FS" <=>
            k.req[p].st # "none" /\ k.req[p].caller = p
        /\ \A r \in Req :
            Cardinality({h \in Handle : k.h[h].req = r}) =
                IF k.req[r].st = "accepted" THEN 1 ELSE 0
        /\ \A r \in Req : Cardinality({i \in DOMAIN k.queue : k.queue[i] = r}) =
                IF k.req[r].st = "queued" THEN 1 ELSE 0

\* No request is stuck: nobody waits for a request while one is queued, and
\* nothing is queued for a backend without a provider.
NoStuckRequest ==
    phase = "none" /\ NoPanic /\ k.queue # <<>> => k.handler = NULL /\ k.provhcnt > 0

\* No provider is stuck: one that waits is the handler of its backend, and
\* somebody can still make a request.
NoStuckProvider ==
    phase = "none" /\ NoPanic =>
        \A p \in Proc : k.state[p] = "WAITS4REQUEST" <=> k.handler = p /\ k.usehcnt > 0

\* "once it reaches 0, it'll never increase" (usehcnt), "orphaned, will
\* never increase" (provhcnt).
CountersStayZero ==
    [][k.backend = "live" =>
        (k.usehcnt = 0 => k'.usehcnt = 0) /\ (k.provhcnt = 0 => k'.provhcnt = 0)]_vars

\* A queued request is accepted, or fails because the last provider died, as
\* long as the providers go on calling fs_wait and fs_respond.
QueuedServed ==
    \A r \in Req : k.req[r].st = "queued" ~> k.req[r].st # "queued"

\* The state of a backend is sound: every counter is exact, a request belongs
\* to one caller and one provider, and no panic is reached.
RequestsSound == TypeOK /\ NoPanic /\ RefsOK /\ RequestsOK

\* Nobody waits for what cannot come: a caller for a provider that has gone or
\* sleeps, a provider for requests when nobody can send one.
NobodyStuck == NoStuckRequest /\ NoStuckProvider

\* Requests are served, and a counter that has reached 0 stays there.
ServiceSound == QueuedServed /\ CountersStayZero
=============================================================================
