------------------------------ MODULE Process ------------------------------
(***************************************************************************)
(* The process tree of the kernel: src/kernel/proc.c and the system calls  *)
(* of src/kernel/syscalls.c that create, kill, interrupt and collect       *)
(* processes, with the process namespaces that number them.                *)
(*                                                                         *)
(* The kernel is not preemptive and user code runs with interrupts         *)
(* disabled, so a system call is one critical section.  Calls whose effect *)
(* is a few assignments are one action; the loops of the kernel            *)
(* (_sys_intr over the subtree, proc_prune_leaves, the search of           *)
(* proc_switch_any, the walk of proc_ns_create) are a step per iteration,  *)
(* with the program counter of the kernel in `mode' and the loop variable  *)
(* of the code in `it'.                                                    *)
(*                                                                         *)
(* A list of children is kept newest first by the code.  Here it is a set  *)
(* ordered by globalid, which the code hands out in increasing order.      *)
(***************************************************************************)
EXTENDS Naturals, FiniteSets

CONSTANTS
    Proc,           \* the memory a struct Proc may be allocated in
    First,          \* proc_first, that is, init
    NULL,           \* the null pointer
    MaxPid,         \* bound: how many processes are ever created
    Calls,          \* the system calls that the programs of an instance make
    WaitStates,     \* the waits, other than for a child, that they enter
    NsAnywhere      \* whether getprocfs may be called by any process

AllWaitStates == {"WAITS4FS", "WAITS4REQUEST", "WAITS4PIPE", "WAITS4TIMER"}

AllCalls == {"fork", "fork_newfs", "exit", "wait2", "wait2_pid", "intr",
             "intr_kill", "intr_set", "getprocfs"}

ASSUME ProcAssumption ==
    /\ First \in Proc
    /\ NULL \notin Proc
    /\ MaxPid \in Nat
    /\ WaitStates \subseteq AllWaitStates
    /\ Calls \subseteq AllCalls
    /\ NsAnywhere \in BOOLEAN

VARIABLES
    state,          \* Proc.state; FREED also stands for "not allocated"
    parent,         \* Proc.parent
    globalid,       \* Proc.globalid
    noreap,         \* Proc.noreap
    awaited,        \* Proc.awaited_death.pid, 0 for any child
    intr_fn,        \* whether Proc.intr_fn is set
    pns,            \* Proc.pns, the owner of the namespace of the process
    localid,        \* Proc.localid
    nextlid,        \* Proc.nextlid
    dead_leaves,    \* the list dead_leaves
    next_pid,       \* the counter next_pid
    proc_cur,       \* the process the kernel serves
    mode,           \* where the kernel is
    it,             \* the loop variable of the loop the kernel is in
    old,            \* the local variable of proc_ns_create
    panic           \* the assertion that has failed, or "none"

tree == <<state, parent, globalid, noreap, dead_leaves, next_pid>>
ns   == <<pns, localid, nextlid>>
vars == <<state, parent, globalid, noreap, awaited, intr_fn, pns, localid,
          nextlid, dead_leaves, next_pid, proc_cur, mode, it, old, panic>>

Waiting == {"WAITS4CHILDDEATH"} \cup AllWaitStates
Dead    == {"TOREAP", "TOMBSTONE", "DEADLEAF", "FREED"}
States  == {"RUNNING"} \cup Waiting \cup Dead

\* "intr" and "kill": _sys_intr with an ordinary message and with "kill";
\* "nscreate": proc_ns_create; "prune" and "scan": the halves of
\* proc_switch_any; "idle": cpu_pause; "off": shutdown or a panic.
Modes == {"user", "intr", "kill", "nscreate", "prune", "scan", "idle", "off"}

TypeOK ==
    /\ state \in [Proc -> States]
    /\ parent \in [Proc -> Proc \cup {NULL}]
    /\ globalid \in [Proc -> Nat]
    /\ noreap \in [Proc -> BOOLEAN]
    /\ awaited \in [Proc -> Nat]
    /\ intr_fn \in [Proc -> BOOLEAN]
    /\ pns \in [Proc -> Proc]
    /\ localid \in [Proc -> Nat]
    /\ nextlid \in [Proc -> Nat]
    /\ dead_leaves \subseteq Proc
    /\ next_pid \in Nat
    /\ proc_cur \in Proc
    /\ mode \in Modes
    /\ it \in Proc \cup {NULL}
    /\ old \in Proc \cup {NULL}
    /\ panic \in {"none", "tryreap", "ns_id", "ns_create", "init"}

-----------------------------------------------------------------------------
(* The tree.  The operators that a kernel function evaluates half-way      *)
(* through its changes take the state of the processes as a parameter st.  *)

proc_alive(st, p) == p # NULL /\ st[p] \notin Dead

Children(st, p) == {c \in Proc : st[c] # "FREED" /\ parent[c] = p}

\* The first element of the list of children, and the one that follows c.
NewestOf(S) ==
    IF S = {} THEN NULL
    ELSE CHOOSE c \in S : \A d \in S : globalid[d] <= globalid[c]
child(p)   == NewestOf(Children(state, p))
sibling(c) ==
    IF parent[c] = NULL THEN NULL
    ELSE NewestOf({d \in Children(state, parent[c]) : globalid[d] < globalid[c]})

\* Where the climb from p to the first ancestor with a sibling ends, when
\* it goes no higher than a child of root, or than init.
climb(p, root) ==
    LET top[q \in Proc] ==
            IF sibling(q) # NULL \/ parent[q] \in {root, NULL} THEN q
            ELSE top[parent[q]]
    IN top[p]

\* Plausible bugs of the walk: it is not kept below root; it goes around.
proc_next_escape(p, root) == IF child(p) # NULL THEN child(p) ELSE sibling(climb(p, NULL))
proc_next_around(p, root) ==
    IF child(p) # NULL THEN child(p)
    ELSE IF sibling(p) # NULL THEN sibling(p) ELSE child(parent[p])

\* proc_next(p, root), for a p strictly below root.
proc_next(p, root) == IF child(p) # NULL THEN child(p) ELSE sibling(climb(p, root))

-----------------------------------------------------------------------------
(* Namespaces. *)

proc_ns_contains(n, p) == n = p \/ (parent[p] # NULL /\ pns[parent[p]] = n)

\* The number of p in the namespace n, and the assertions on the way to it.
proc_ns_id(n, p) == IF p = n THEN 1 ELSE localid[p]
proc_ns_id_ok(n, p) ==
    p # n => IF pns[p] = p THEN pns[parent[p]] = n ELSE pns[p] = n

-----------------------------------------------------------------------------
(* proc_tryreap. *)

Awaits(st, p, d) ==
    /\ st[p] = "WAITS4CHILDDEATH"
    /\ awaited[p] \in {0, proc_ns_id(pns[p], d)}

\* The message of d is for its parent to collect, ...
Collectable(st, d) == st[d] = "TOREAP" /\ ~noreap[d] /\ proc_alive(st, parent[d])

\* ... which asks for it now.
Collected(st, d) == Collectable(st, d) /\ Awaits(st, parent[d], d)

\* A bug: a process is freed although it still has children.
Buried_parent(st, d) == IF parent[d] # NULL THEN "DEADLEAF" ELSE "TOMBSTONE"

\* The state of a dead process whose message is no longer needed.
Buried(st, d) ==
    IF Children(st, d) = {} /\ parent[d] # NULL THEN "DEADLEAF" ELSE "TOMBSTONE"

\* A bug: the parent is not told of a death that it waits for.
proc_tryreap_silent(st, d) ==
    IF Collectable(st, d) THEN st ELSE [st EXCEPT ![d] = Buried(st, d)]

\* The states after proc_tryreap(d).
proc_tryreap(st, d) ==
    IF Collectable(st, d) /\ ~Collected(st, d) THEN st
    ELSE [q \in Proc |-> IF q = d THEN Buried(st, d)
                         ELSE IF q = parent[d] /\ Collected(st, d) THEN "RUNNING"
                         ELSE st[q]]

\* The assertions of proc_tryreap about a d that is dead for good and still
\* has children, and the one of proc_ns_id.  The result is the value of panic.
tryreap_asserts(st, d) ==
    LET first[q \in Proc] == IF Children(st, q) = {} THEN q
                             ELSE first[NewestOf(Children(st, q))]
        leaf  == first[d]
        keeps == Collectable(st, d) /\ ~Collected(st, d)
    IN
    IF /\ Collectable(st, d)
       /\ st[parent[d]] = "WAITS4CHILDDEATH"
       /\ ~proc_ns_id_ok(pns[parent[d]], d)
    THEN "ns_id"
    ELSE IF \/ keeps
            \/ Children(st, d) = {}
            \/ /\ \A c \in Children(st, d) : st[c] # "TOREAP"
               /\ IF st[leaf] = "TOREAP" THEN proc_alive(st, parent[leaf])
                  ELSE proc_alive(st, leaf) \/ st[leaf] = "DEADLEAF"
    THEN panic ELSE "tryreap"

\* The bookkeeping of a call that takes the states to st, by way of mid: a
\* process that is no longer TOREAP is noreap, one that becomes a DEADLEAF is
\* listed, and one that is freed is neither.
Bury(mid, st) ==
    /\ state' = st
    /\ noreap' = [q \in Proc |-> /\ mid[q] # "FREED"
                                 /\ noreap[q] \/ (mid[q] = "TOREAP" /\ st[q] # "TOREAP")]
    /\ dead_leaves' = (dead_leaves \ {q \in Proc : mid[q] = "FREED"})
                        \cup {q \in Proc : mid[q] # "DEADLEAF" /\ st[q] = "DEADLEAF"}

-----------------------------------------------------------------------------
(* proc_kill. *)

\* The children of p whose message is lost when p dies.
Toreap(p) == {c \in Children(state, p) : state[c] = "TOREAP"}

\* The states after DYING has become TOREAP or TOMBSTONE.
dyingStates(p) ==
    [q \in Proc |->
        IF q = p THEN IF proc_alive(state, parent[p]) THEN "TOREAP" ELSE "TOMBSTONE"
        ELSE state[q]]

\* A bug: the messages of the children outlive p.
lostStates_kept(p) == dyingStates(p)

\* The states after the children of p in TOREAP have been tombstoned too.
lostStates(p) ==
    [q \in Proc |-> IF q \in Toreap(p) THEN Buried(state, q) ELSE dyingStates(p)[q]]

\* proc_kill(p).  A dead p is only given to proc_tryreap.  When p is init the
\* caller goes on with the pruning in Shutdown.
Kill(p) ==
    IF proc_alive(state, p)
    THEN /\ Bury(dyingStates(p),
                 IF p = First THEN lostStates(p) ELSE proc_tryreap(lostStates(p), p))
         /\ panic' = LET bad == {q \in Toreap(p) \cup ({p} \ {First}) :
                                 tryreap_asserts(lostStates(p), q) # "none"}
                     IN IF bad = {} THEN panic
                        ELSE tryreap_asserts(lostStates(p), CHOOSE q \in bad : TRUE)
    ELSE /\ Bury(state, proc_tryreap(state, p))
         /\ panic' = tryreap_asserts(state, p)

-----------------------------------------------------------------------------
(* The system calls of the running process. *)

User(call) == mode = "user" /\ panic = "none" /\ call \in Calls

\* The return from a system call: sysenter_stage2 calls proc_switch_any.
Return == mode' = "prune" /\ UNCHANGED <<it, old, proc_cur>>

\* proc_fork.
proc_fork(c, nr) ==
    /\ state[c] = "FREED"
    /\ next_pid < MaxPid
    /\ parent' = [parent EXCEPT ![c] = proc_cur]
    /\ noreap' = [noreap EXCEPT ![c] = nr]
    /\ intr_fn' = [intr_fn EXCEPT ![c] = intr_fn[proc_cur]]
    /\ awaited' = [awaited EXCEPT ![c] = 0]
    /\ globalid' = [globalid EXCEPT ![c] = next_pid]
    /\ next_pid' = next_pid + 1
    /\ pns' = [pns EXCEPT ![c] = pns[proc_cur]]
    /\ localid' = [localid EXCEPT ![c] = nextlid[pns[proc_cur]]]
    /\ nextlid' = [nextlid EXCEPT ![c] = 0, ![pns[proc_cur]] = @ + 1]

Fork ==
    /\ User("fork")
    /\ \E c \in Proc, nr \in BOOLEAN :
        /\ proc_fork(c, nr)
        /\ state' = [state EXCEPT ![c] = "RUNNING"]
    /\ Return
    /\ UNCHANGED <<dead_leaves, panic>>

\* FORK_NEWFS without a free handle: the child is made noreap and killed.
ForkFail ==
    /\ User("fork_newfs")
    /\ \E c \in Proc :
        /\ proc_fork(c, TRUE)
        /\ state' = [state EXCEPT ![c] = "DEADLEAF"]
        /\ dead_leaves' = dead_leaves \cup {c}
    /\ Return
    /\ UNCHANGED panic

\* _sys_exit, and a fault in user mode (isr_stage3).
Exit ==
    /\ User("exit")
    /\ Kill(proc_cur)
    /\ Return
    /\ UNCHANGED <<parent, globalid, next_pid, awaited, intr_fn, ns>>

\* A bug: children that will never be reported are waited for.
Reapable_any(p) == Children(state, p)

\* The children whose death the process p can be told of.
Reapable(p) == {c \in Children(state, p) : ~noreap[c]}

\* _sys_wait2.  Of the children that match, the newest is collected.
Wait2 ==
    /\ User("wait2")
    /\ \E pid \in IF "wait2_pid" \in Calls THEN 0..MaxPid ELSE {0} :
        LET mine  == Reapable(proc_cur)
            ready == {c \in mine : /\ state[c] = "TOREAP"
                                   /\ pid \in {0, proc_ns_id(pns[proc_cur], c)}}
            waits == [state EXCEPT ![proc_cur] = "WAITS4CHILDDEATH"]
            d     == NewestOf(ready)
            \* the children whose number is asked for on the way to d
            seen  == {c \in mine : /\ state[c] = "TOREAP"
                                   /\ ready # {} => globalid[c] >= globalid[d]}
            ns_ok == \A c \in seen : proc_ns_id_ok(pns[proc_cur], c)
        IN
        /\ \/ /\ ready # {}
              /\ Bury(waits, [state EXCEPT ![d] = Buried(waits, d)])
              /\ panic' = IF ns_ok THEN tryreap_asserts(waits, d) ELSE "ns_id"
              /\ UNCHANGED awaited       \* has no meaning in a process that runs
           \/ /\ ready = {} /\ mine # {}
              /\ Bury(waits, waits)
              /\ awaited' = [awaited EXCEPT ![proc_cur] = pid]
              /\ panic' = IF ns_ok THEN panic ELSE "ns_id"
           \/ /\ mine = {}
              /\ Bury(state, state)
              /\ UNCHANGED <<awaited, panic>>
    /\ Return
    /\ UNCHANGED <<parent, globalid, next_pid, intr_fn, ns>>

\* _sys_intr: the loop over the processes below the caller begins.
Intr ==
    /\ \/ User("intr") /\ mode' = IF child(proc_cur) = NULL THEN "prune" ELSE "intr"
       \/ User("intr_kill") /\ mode' = IF child(proc_cur) = NULL THEN "prune" ELSE "kill"
    /\ it' = child(proc_cur)
    /\ UNCHANGED <<tree, awaited, intr_fn, ns, old, proc_cur, panic>>

\* _sys_intr_set
IntrSet ==
    /\ User("intr_set")
    /\ \E set \in BOOLEAN : intr_fn' = [intr_fn EXCEPT ![proc_cur] = set]
    /\ Return
    /\ UNCHANGED <<tree, awaited, ns, panic>>

\* A call that blocks the caller: _sys_sleep, or one that waits for a file
\* system, a request or the other end of a pipe.
Block ==
    /\ mode = "user" /\ panic = "none"
    /\ \E s \in WaitStates : state' = [state EXCEPT ![proc_cur] = s]
    /\ Return
    /\ UNCHANGED <<parent, globalid, noreap, awaited, intr_fn, ns, dead_leaves,
                   next_pid, panic>>

\* A call that completes what another process waits for.
WakeOther ==
    /\ mode = "user" /\ panic = "none"
    /\ \E p \in Proc :
        /\ state[p] \in AllWaitStates \ {"WAITS4TIMER"}
        /\ state' = [state EXCEPT ![p] = "RUNNING"]
    /\ Return
    /\ UNCHANGED <<parent, globalid, noreap, awaited, intr_fn, ns, dead_leaves,
                   next_pid, panic>>

\* _sys_getprocfs: the walk of proc_ns_create begins.
GetProcfs ==
    /\ User("getprocfs")
    /\ NsAnywhere \/ child(proc_cur) = NULL \/ sibling(proc_cur) = NULL
    /\ \/ /\ pns[proc_cur] = proc_cur
          /\ Return
          /\ UNCHANGED ns
       \/ /\ pns[proc_cur] # proc_cur
          /\ old' = pns[proc_cur]
          /\ pns' = [pns EXCEPT ![proc_cur] = proc_cur]
          /\ nextlid' = [nextlid EXCEPT ![proc_cur] = 2]
          /\ it' = child(proc_cur)
          /\ mode' = IF child(proc_cur) = NULL THEN "prune" ELSE "nscreate"
          /\ UNCHANGED <<localid, proc_cur>>
    /\ UNCHANGED <<tree, awaited, intr_fn, panic>>

Syscall ==
    \/ Fork \/ ForkFail \/ Exit \/ Wait2 \/ Intr \/ IntrSet
    \/ Block \/ WakeOther \/ GetProcfs

-----------------------------------------------------------------------------
(* The loops of the kernel. *)

\* An iteration of _sys_intr: proc_intr, then proc_next.
IntrStep ==
    /\ mode \in {"intr", "kill"} /\ panic = "none"
    /\ \/ /\ mode = "kill"
          /\ Kill(it)
       \/ /\ mode = "intr"
          /\ state' = IF intr_fn[it] /\ state[it] = "WAITS4TIMER"
                      THEN [state EXCEPT ![it] = "RUNNING"] ELSE state
          /\ UNCHANGED <<noreap, dead_leaves, panic>>
    /\ it' = proc_next(it, proc_cur)
    /\ mode' = IF it' = NULL THEN "prune" ELSE mode
    /\ UNCHANGED <<parent, globalid, next_pid, awaited, intr_fn, ns, old, proc_cur>>

\* A bug: the last number in use is given again.
nextlid_reused == IF nextlid[proc_cur] < localid[it] THEN localid[it] ELSE nextlid[proc_cur]

\* The next free number of the new namespace, above that of `it'; and the
\* namespaces after `it' has been moved to it.
nextlid_raised ==
    IF nextlid[proc_cur] < localid[it] + 1 THEN localid[it] + 1 ELSE nextlid[proc_cur]
pns_moved == IF pns[it] = old THEN [pns EXCEPT ![it] = proc_cur] ELSE pns

\* An iteration of proc_ns_create for a process other than the caller.
NsCreateStep ==
    /\ mode = "nscreate" /\ panic = "none"
    /\ nextlid' = [nextlid EXCEPT ![proc_cur] = nextlid_raised]
    /\ pns' = pns_moved
    /\ LET top == climb(it, proc_cur)
           \* the climb ends at the caller itself, not at its child
           end == IF sibling(top) = NULL /\ parent[top] = proc_cur THEN proc_cur ELSE top
       IN
       \/ /\ child(it) # NULL
          /\ child(it) \in {proc_cur, old} \/ pns'[it] \in {proc_cur, old}
          /\ it' = child(it)
          /\ panic' = IF pns[it] \in {old, it} THEN panic ELSE "ns_create"
       \/ /\ ~(/\ child(it) # NULL
               /\ child(it) \in {proc_cur, old} \/ pns'[it] \in {proc_cur, old})
          /\ it' = sibling(end)
          /\ panic' = IF /\ pns[it] \in {old, it}
                         /\ sibling(end) # NULL \/ end = proc_cur
                      THEN panic ELSE "ns_create"
    /\ mode' = IF it' = NULL THEN "prune" ELSE mode
    /\ UNCHANGED <<tree, awaited, intr_fn, localid, old, proc_cur>>

\* An iteration of proc_prune_leaves.  The fields of a freed process have no
\* meaning and are given the values of Init.
PruneStep ==
    /\ mode = "prune" /\ panic = "none"
    /\ \E p \in dead_leaves :
        LET freed == [state EXCEPT ![p] = "FREED"]
            up    == parent[p]
        IN /\ IF proc_alive(state, up)
              THEN Bury(freed, freed) /\ UNCHANGED panic
              ELSE /\ Bury(freed, proc_tryreap(freed, up))
                   /\ panic' = tryreap_asserts(freed, up)
           /\ parent' = [parent EXCEPT ![p] = NULL]
           /\ globalid' = [globalid EXCEPT ![p] = 0]
           /\ intr_fn' = [intr_fn EXCEPT ![p] = FALSE]
           /\ awaited' = [awaited EXCEPT ![p] = 0]
           /\ pns' = [pns EXCEPT ![p] = p]
           /\ localid' = [localid EXCEPT ![p] = 0]
           /\ nextlid' = [nextlid EXCEPT ![p] = 0]
    /\ UNCHANGED <<next_pid, old, it, proc_cur, mode>>

\* The end of proc_prune_leaves: proc_switch_any goes on; proc_kill(init)
\* shuts the machine down.
PruneEnd ==
    /\ mode = "prune" /\ panic = "none" /\ dead_leaves = {}
    /\ \/ /\ proc_alive(state, First)
          /\ mode' = "scan"
          /\ it' = First
          /\ UNCHANGED panic
       \/ /\ ~proc_alive(state, First)
          /\ mode' = "off"
          /\ panic' = IF child(First) # NULL THEN "init" ELSE panic
          /\ UNCHANGED it
    /\ UNCHANGED <<tree, awaited, intr_fn, ns, old, proc_cur>>

\* A bug: the kernel switches to a process although there is none.
ScanStep_null ==
    /\ mode = "scan" /\ panic = "none"
    /\ proc_cur' = IF state[it] = "RUNNING" THEN it ELSE NULL
    /\ mode' = "user" /\ it' = NULL
    /\ UNCHANGED <<tree, awaited, intr_fn, ns, old, panic>>

\* The search of proc_switch_any: proc_cur if it can run, else the first in
\* the order of proc_next that can, else cpu_pause.
ScanStep ==
    /\ mode = "scan" /\ panic = "none"
    /\ \/ /\ state[proc_cur] = "RUNNING"
          /\ mode' = "user"
          /\ it' = NULL
          /\ UNCHANGED proc_cur
       \/ /\ state[proc_cur] # "RUNNING" /\ state[it] = "RUNNING"
          /\ mode' = "user"
          /\ proc_cur' = it
          /\ it' = NULL
       \/ /\ state[proc_cur] # "RUNNING" /\ state[it] # "RUNNING"
          /\ it' = proc_next(it, NULL)
          /\ mode' = IF it' = NULL THEN "idle" ELSE mode
          /\ UNCHANGED proc_cur
    /\ UNCHANGED <<tree, awaited, intr_fn, ns, old, panic>>

\* cpu_pause: an interrupt arrives, which may complete what a process waits
\* for, and the search starts again.
Idle ==
    /\ mode = "idle"
    /\ \/ state' = state
       \/ \E p \in Proc : /\ state[p] \in AllWaitStates
                          /\ state' = [state EXCEPT ![p] = "RUNNING"]
    /\ mode' = "scan"
    /\ it' = First
    /\ UNCHANGED <<parent, globalid, noreap, awaited, intr_fn, ns, old, dead_leaves,
                   next_pid, proc_cur, panic>>

Kernel == IntrStep \/ NsCreateStep \/ PruneStep \/ PruneEnd \/ ScanStep

Next == Syscall \/ Kernel \/ Idle

\* proc_seed, and the first entry into user mode.
Init ==
    /\ state = [p \in Proc |-> IF p = First THEN "RUNNING" ELSE "FREED"]
    /\ parent = [p \in Proc |-> NULL]
    /\ globalid = [p \in Proc |-> IF p = First THEN 1 ELSE 0]
    /\ noreap = [p \in Proc |-> FALSE]
    /\ awaited = [p \in Proc |-> 0]
    /\ intr_fn = [p \in Proc |-> FALSE]
    /\ pns = [p \in Proc |-> p]
    /\ localid = [p \in Proc |-> IF p = First THEN 1 ELSE 0]
    /\ nextlid = [p \in Proc |-> IF p = First THEN 2 ELSE 0]
    /\ dead_leaves = {}
    /\ next_pid = 2
    /\ proc_cur = First
    /\ mode = "prune"
    /\ it = NULL
    /\ old = NULL
    /\ panic = "none"

Spec == Init /\ [][Next]_vars

\* The kernel runs to the end of a call: nothing preempts it.
FairSpec == Spec /\ WF_vars(Kernel)

-----------------------------------------------------------------------------
(* Properties. *)

Allocated == {p \in Proc : state[p] # "FREED"}

\* No assertion of proc.c fails in any of these calls (the death of init
\* before its children stops the machine on purpose).
NoPanic == panic \in {"none", "init"}

\* The life of a dead process follows proc_setstate and proc_tryreap: a
\* process that can still be collected has a live parent, one that cannot is
\* kept exactly as long as it has children, and the processes about to be
\* freed are those on the list dead_leaves.
TreeOK ==
    /\ dead_leaves = {p \in Proc : state[p] = "DEADLEAF"}
    /\ \A p \in Allocated \ {First} :
        /\ parent[p] \in Allocated
        /\ globalid[parent[p]] < globalid[p]
        /\ state[p] = "TOREAP" => ~noreap[p] /\ proc_alive(state, parent[p])
        /\ state[p] = "TOMBSTONE" => Children(state, p) # {}
        /\ state[p] = "DEADLEAF" => Children(state, p) = {}

\* No death is missed: a process in _sys_wait2 never sleeps while a child it
\* asked for is waiting to be collected, ...
NoLostDeath ==
    \A c \in Allocated : Collectable(state, c) => ~Awaits(state, parent[c], c)

\* ... and one that waits for any child has a live child to wake it.
WaiterHasChild ==
    \A p \in Proc : state[p] = "WAITS4CHILDDEATH" /\ awaited[p] = 0 =>
        \E c \in Children(state, p) : ~noreap[c] /\ proc_alive(state, c)

\* cpu_pause is called only when nothing can run: the walk of proc_next
\* visits the whole tree.
IdleOnlyIfNothingRuns ==
    mode = "idle" => \A p \in Proc : state[p] # "RUNNING"

\* A process is in the namespace of its parent or owns one ("localid is
\* unique in a process namespace", proc.h), and the owner is not freed before
\* the members.
NsOK ==
    mode # "nscreate" => \A p \in Allocated :
        /\ pns[p] \in Allocated
        /\ pns[p] # p => pns[p] = pns[parent[p]]

NsMembers(n) == {p \in Allocated : proc_ns_contains(n, p)}

\* No two processes of a namespace have the same number in it.
LocalIdUnique ==
    mode # "nscreate" => \A n \in Allocated : pns[n] = n =>
        \A p, q \in NsMembers(n) : p # q => proc_ns_id(n, p) # proc_ns_id(n, q)

\* A death is reported exactly once, and to the parent: a process whose
\* message is gone while the parent lives was collected by that parent, which
\* was in _sys_wait2, is runnable again, and collected no other.
Reported(p) ==
    /\ state[p] \notin {"TOMBSTONE", "DEADLEAF", "FREED"}
    /\ ~noreap[p]
    /\ state'[p] \in {"TOMBSTONE", "DEADLEAF"}
    /\ parent[p] # NULL /\ state'[parent[p]] \notin Dead
ReportStep ==
    /\ \A p \in Proc : Reported(p) =>
        /\ state[parent[p]] = "WAITS4CHILDDEATH" \/ proc_cur = parent[p]
        /\ state'[parent[p]] = "RUNNING"
        /\ \A q \in Proc \ {p} : Reported(q) => parent[q] # parent[p]
    /\ \A p \in Proc :
        state[p] = "WAITS4CHILDDEATH" /\ state'[p] = "RUNNING" =>
            \E c \in Proc : Reported(c) /\ parent[c] = p
DeathReportedOnce == [][ReportStep]_vars

\* Whether q is p or below it: the climb from q meets p.
under(q, p) ==
    LET top[r \in Proc] == IF r = p \/ parent[r] = NULL THEN r ELSE top[parent[r]]
    IN top[q] = p

\* _sys_intr("kill") reaches every process below the caller, and no other.
SubtreeStep ==
    /\ mode = "kill" /\ mode' = "prune" =>
        \A q \in Allocated \ {proc_cur} : under(q, proc_cur) => state'[q] \in Dead
    /\ mode = "kill" => \A q \in Allocated :
        proc_alive(state, q) /\ state'[q] \in Dead => q # proc_cur /\ under(q, proc_cur)
IntrKillsSubtree == [][SubtreeStep]_vars

\* The list of dead leaves is always emptied, although freeing a leaf may put
\* its parent on the list; and the kernel always comes to an end of a call.
LeavesFreed == dead_leaves # {} ~> dead_leaves = {}
KernelReturns == mode \notin {"user", "idle", "off"} ~> mode \in {"user", "idle", "off"}

\* No assertion of proc.c fails, and proc_switch_any halts the CPU only when
\* nobody can run.
KernelSound == NoPanic /\ IdleOnlyIfNothingRuns

\* A death is reported once, and an interrupt kills the subtree and no other
\* process.
DeathsExact == DeathReportedOnce /\ IntrKillsSubtree

\* The namespaces follow the tree, number their processes uniquely, no
\* assertion about them fails, and a process that waits for a number does not
\* miss the death of its child when the numbers change.
NamespacesSound == NoPanic /\ NsOK /\ LocalIdUnique /\ NoLostDeath

\* The loops of the kernel end, and leave no dead leaf behind.
KernelEnds == LeavesFreed /\ KernelReturns
=============================================================================
