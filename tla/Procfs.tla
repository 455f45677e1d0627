------------------------------- MODULE Procfs -------------------------------
(***************************************************************************)
(* src/kernel/vfs/procfs.c: files that name a process by its globalid, and *)
(* the count that keeps the owner of a namespace while its procfs is used. *)
(* The tree of module Process is reduced to what procfs looks at; one      *)
(* process owns a namespace, and a process that is gone may come again in  *)
(* the same memory, with another globalid.                                 *)
(***************************************************************************)
EXTENDS Naturals, FiniteSets

CONSTANTS
    PProc, Boot, None,  \* processes, the first of them, and NULL
    FileId,             \* handles of files in the procfs
    MaxGid              \* bound: processes that are ever made

ASSUME ProcfsAssumption ==
    /\ Boot \in PProc /\ None \notin PProc /\ IsFiniteSet(PProc) /\ IsFiniteSet(FileId)
    /\ MaxGid \in Nat \ {0}

VARIABLES
    alive, par,     \* Proc.state, as alive or not; Proc.parent, None if it is not in the tree
    gid, nextgid,   \* Proc.globalid
    owner,          \* VfsBackend.kern.data, None if there is no procfs
    refcount,       \* Proc.refcount of the owner
    use,            \* VfsBackend.usehcnt
    front, pfile,   \* who holds the mount; pfile[f]: struct phandle and who holds it
    hit,            \* the processes that the last request has interrupted
    fault           \* the assertion on refcount has failed: "none", "escaped", "self", "other"

procfs_vars == <<alive, par, gid, nextgid, owner, refcount, use, front, pfile, hit, fault>>
tree_vars == <<alive, par, gid, nextgid>>

InTree(p) == p = Boot \/ par[p] # None
\* The subtree of p, itself included.
Below(p) ==
    LET up[k \in 0..Cardinality(PProc)] ==
            IF k = 0 THEN {p} ELSE LET prev == up[k - 1] IN prev \cup {q \in PProc : par[q] \in prev}
    IN up[Cardinality(PProc)]
Unheld == [type |-> "none", gid |-> 0, held |-> {}]

ProcfsTypeOK ==
    /\ par \in [PProc -> PProc \cup {None}] /\ gid \in [PProc -> 0..MaxGid] /\ refcount \in 0..1
    /\ \A p \in PProc : alive[p] => InTree(p)
    /\ front \cup UNION {pfile[f].held : f \in FileId} \subseteq {p \in PProc : alive[p]}
    /\ \A f \in FileId : pfile[f].held = {} <=> pfile[f] = Unheld

\* Bug: the number is not compared.
findgid_any(g) == {p \in Below(owner) : alive[p] /\ g # 0}
findgid(g) == {p \in Below(owner) : gid[p] = g}

-----------------------------------------------------------------------------
\* What the holders that leave still used: the mount and files.
Freed(who) == (IF front # {} /\ front \subseteq who THEN 1 ELSE 0)
              + Cardinality({f \in FileId : pfile[f].held # {} /\ pfile[f].held \subseteq who})
without(who) == [f \in FileId |-> IF pfile[f].held \subseteq who THEN Unheld ELSE [pfile[f] EXCEPT !.held = @ \ who]]

\* Bug: the owner is still counted after the last use.
procfs_cleanup_leak(u) == UNCHANGED <<owner, refcount>> /\ use' = u
\* vfs_backend_refdown to u, and procfs_cleanup.
procfs_cleanup(u) ==
    /\ use' = u
    /\ IF use > 0 /\ u = 0 THEN owner' = None /\ refcount' = refcount - 1 ELSE UNCHANGED <<owner, refcount>>

\* proc_tryreap of p, that has no children, while the backend has u uses left.
tryreap_assert(p, u, why) ==
    fault' = IF fault = "none" /\ p = owner /\ u > 0 THEN why ELSE fault
Removed(p) == par' = [par EXCEPT ![p] = None] /\ gid' = [gid EXCEPT ![p] = 0]
Leaf(p) == \A q \in PProc : par[q] # p
Escaped == \E q \in front \cup UNION {pfile[f].held : f \in FileId} : q \notin Below(owner)

ForkProc(p, q) ==
    /\ alive[p] /\ ~InTree(q) /\ nextgid <= MaxGid
    /\ alive' = [alive EXCEPT ![q] = TRUE] /\ par' = [par EXCEPT ![q] = p]
    /\ gid' = [gid EXCEPT ![q] = nextgid] /\ nextgid' = nextgid + 1
    /\ front' = IF p \in front THEN front \cup {q} ELSE front
    /\ pfile' = [f \in FileId |-> IF p \in pfile[f].held THEN [pfile[f] EXCEPT !.held = @ \cup {q}] ELSE pfile[f]]
    /\ hit' = {} /\ UNCHANGED <<owner, refcount, use, fault>>

\* _sys_getprocfs and procfs_backend.
procfs_backend(p) ==
    /\ alive[p] /\ p # Boot /\ owner = None
    /\ owner' = p /\ refcount' = 1 /\ use' = 1 /\ front' = {p}
    /\ hit' = {} /\ UNCHANGED <<tree_vars, pfile, fault>>

\* openpath, of the name of a process and a file in its directory.
openpath(p, f, type, q) ==
    /\ p \in front /\ pfile[f] = Unheld
    /\ q \in Below(owner)
    /\ pfile' = [pfile EXCEPT ![f] = [type |-> type, gid |-> IF type = "root" THEN 0 ELSE gid[q], held |-> {p}]]
    /\ use' = use + 1
    /\ hit' = {} /\ UNCHANGED <<tree_vars, owner, refcount, front, fault>>

\* A server answers an open with a handle of its own (FSR_DELEGATE).
Delegate(p, f, q) ==
    /\ p \in pfile[f].held /\ alive[q]
    /\ pfile' = [pfile EXCEPT ![f].held = (@ \ {p}) \cup {q}]
    /\ hit' = {} /\ UNCHANGED <<tree_vars, owner, refcount, use, front, fault>>

CloseFile(p, f) ==
    /\ p \in pfile[f].held
    /\ LET held == pfile[f].held \ {p} IN
       /\ pfile' = [pfile EXCEPT ![f] = IF held = {} THEN Unheld ELSE [@ EXCEPT !.held = held]]
       /\ procfs_cleanup(IF held = {} THEN use - 1 ELSE use)
    /\ hit' = {} /\ UNCHANGED <<tree_vars, front, fault>>

CloseFront(p) ==
    /\ p \in front
    /\ front' = front \ {p}
    /\ procfs_cleanup(IF front = {p} THEN use - 1 ELSE use)
    /\ hit' = {} /\ UNCHANGED <<tree_vars, pfile, fault>>

\* proc_kill.  The parent may be waiting for p, which is then reaped at once,
\* before the request (busy is 1) that killed it is finished.
Die(p, waited, busy, why) ==
    LET u == use - Freed({p}) IN
    /\ alive[p] /\ p # Boot
    /\ alive' = [alive EXCEPT ![p] = FALSE]
    /\ front' = front \ {p} /\ pfile' = without({p})
    /\ procfs_cleanup(u)
    /\ IF waited /\ Leaf(p) THEN tryreap_assert(p, u + busy, why) /\ Removed(p)
                            ELSE UNCHANGED <<par, gid, fault>>
    /\ UNCHANGED nextgid

Why == IF owner # None /\ Escaped THEN "escaped" ELSE "other"

ExitProc(p, waited) == Die(p, waited, 0, Why) /\ hit' = {}

\* A dead process is collected after its children are.
Reap(p) ==
    /\ InTree(p) /\ ~alive[p] /\ Leaf(p)
    /\ tryreap_assert(p, use, Why) /\ Removed(p)
    /\ hit' = {} /\ UNCHANGED <<alive, nextgid, owner, refcount, use, front, pfile>>

\* A write of "kill" to intr, and other reads and writes.  A process that is
\* in the tree no more is not found.
WriteKill(p, f, waited) ==
    /\ p \in pfile[f].held /\ pfile[f].type = "intr"
    /\ \E q \in findgid(pfile[f].gid) :
        /\ Die(q, waited, 1, IF q = p THEN "self" ELSE Why)
        /\ hit' = {q}

Intrdown(p) == Below(p) \ {p}

WriteIntr(p, f) ==
    /\ p \in pfile[f].held /\ pfile[f].type \in {"intr", "intrdown"}
    /\ hit' = UNION {IF pfile[f].type = "intr" THEN {q} ELSE Intrdown(q) : q \in findgid(pfile[f].gid)}
    /\ UNCHANGED <<tree_vars, owner, refcount, use, front, pfile, fault>>

ProcfsInit ==
    /\ alive = [p \in PProc |-> p = Boot] /\ par = [p \in PProc |-> None]
    /\ gid = [p \in PProc |-> IF p = Boot THEN 1 ELSE 0] /\ nextgid = 2
    /\ owner = None /\ refcount = 0 /\ use = 0 /\ front = {}
    /\ pfile = [f \in FileId |-> Unheld] /\ hit = {} /\ fault = "none"

ProcfsNext ==
    /\ fault = "none"
    /\ \E p \in PProc :
        \/ procfs_backend(p) \/ CloseFront(p) \/ Reap(p)
        \/ \E w \in BOOLEAN : ExitProc(p, w) \/ \E f \in FileId : WriteKill(p, f, w)
        \/ \E f \in FileId : CloseFile(p, f) \/ WriteIntr(p, f)
        \/ \E q \in PProc : ForkProc(p, q) \/ \E f \in FileId :
                \/ Delegate(p, f, q)
                \/ \E type \in {"root", "intr", "intrdown"} : openpath(p, f, type, q)

ProcfsSpec == ProcfsInit /\ [][ProcfsNext]_procfs_vars

-----------------------------------------------------------------------------
(* Properties. *)

\* The owner is counted exactly as long as somebody uses its procfs, and while
\* they do it is in the tree: procfs_accept does not follow a stale pointer.
OwnerKept ==
    fault = "none" =>
        /\ refcount = (IF owner = None THEN 0 ELSE 1)
        /\ use = (IF front = {} THEN 0 ELSE 1) + Cardinality({f \in FileId : pfile[f].held # {}})
        /\ owner # None => use > 0 /\ InTree(owner)

\* The assertion in proc_tryreap that nobody uses the procfs of a process that
\* is freed can only fail if a handle was delegated out of the subtree of the
\* owner, or if the owner kills itself through its own procfs.
AssertOnlyIf == fault # "other"

\* Whoever is interrupted is in the namespace, and is the process that the
\* file was opened for, or below it; never one that took its place.
IntrInside ==
    [][hit' # {} => \E f \in FileId : \E t \in Below(owner) :
            gid[t] = pfile[f].gid /\ hit' \subseteq Below(t) /\ (pfile[f].type = "intrdown" => t \notin hit')]_procfs_vars

\* The owner of a procfs lives as long as its handles, and the assertion about
\* that in proc_tryreap fails only in the two ways that are known.
ProcfsSound == ProcfsTypeOK /\ OwnerKept /\ AssertOnlyIf
=============================================================================
