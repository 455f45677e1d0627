----------------------------- MODULE Vfs_proofs -----------------------------
(***************************************************************************)
(* Proofs about the requests to a file system in user space, for any       *)
(* number of processes and handles, when none of the calls of Risks is     *)
(* made.                                                                   *)
(*                                                                         *)
(* The functions of the kernel call each other, so that the invariant has  *)
(* to hold, up to what the callers have still to do, between them:         *)
(* Good(s, q, d, x, l, hs) is about a kernel state s in the middle of a    *)
(* call, where                                                             *)
(*   q    is the queue of the backend (what is left of it in the loop of   *)
(*        vfs_backend_refdown),                                            *)
(*   d    is how many uses of the backend are still to be given back,      *)
(*   x    is the process being killed, or NULL,                            *)
(*   l    is the request being finished, or NULL, and                      *)
(*   hs   the handles that still refer to it.                              *)
(***************************************************************************)
EXTENDS Vfs, FiniteSetTheorems, TLAPS

Alive == {"RUNNING", "WAITS4FS", "WAITS4REQUEST"}
NoReq == [st |-> "none", op |-> "CLOSE", caller |-> NULL]
NoHandle == [type |-> "INVALID", req |-> NULL, refcount |-> 0]

\* What uses the backend: handles, mounts and requests.
UseHandles(s) == {h \in Handle : s.h[h].type \in {"FILE", "FS_FRONT"}}
Mounts(s)     == {m \in Proc : s.mrefs[m] > 0}
Busy(s)       == {r \in Req : s.req[r].st # "none"}
Providers(s)  == {p \in Proc : s.controlled[p]}

\* Who has a handle, who has a mount, and which handles are of a request.
Owners(s, h)    == {p \in Proc : h \in s.handles[p]}
MountedAt(s, m) == {p \in Proc : s.mount[p] = m}
HandlesOf(s, r) == {h \in Handle : s.h[h].req = r}

\* Handles are counted once per table, and only a handle that has been freed
\* has no type.
HandlesInv(s) ==
    \A h \in Handle :
        /\ s.h[h].refcount = Cardinality(Owners(s, h))
        /\ s.h[h].refcount = 0 => s.h[h] = NoHandle
        /\ s.h[h].refcount # 0 => s.h[h].type # "INVALID"
        /\ s.h[h].req # NULL => s.h[h].type = "FS_REQ"

\* Only live processes have handles, a mount, or provide the backend.
DeadInv(s) ==
    \A p \in Proc : s.state[p] \notin Alive =>
        s.handles[p] = {} /\ s.mount[p] = NULL /\ ~s.controlled[p]

CountInv(s, d) ==
    /\ s.usehcnt = Cardinality(UseHandles(s)) + Cardinality(Mounts(s)) + Cardinality(Busy(s)) + d
    /\ s.provhcnt = Cardinality(Providers(s))
    /\ \A m \in Proc : s.mrefs[m] = Cardinality(MountedAt(s, m))
    /\ s.backend = "live" <=> s.usehcnt > 0 \/ s.provhcnt > 0

\* A request has no other caller than the process whose slot it is in, which
\* waits for it.  It has lost its caller only if that has been killed, and then
\* nothing is left to do that would need one.
ReqInv(s, x) ==
    /\ \A r \in Req : s.req[r].st = "none" => s.req[r] = NoReq
    /\ \A r \in Req : s.req[r].caller # NULL => s.req[r].caller = r
    /\ \A p \in Proc : s.req[p].caller = p => s.state[p] = "WAITS4FS"
    /\ \A p \in Proc \ {x} : s.state[p] = "WAITS4FS" => s.req[p].caller = p
    /\ \A p \in Proc \ {x} : s.req[p].st # "none" /\ s.req[p].caller = NULL => s.state[p] = "DEAD"
    /\ \A r \in Req : s.req[r].caller = NULL =>
            /\ s.req[r].op \notin {"OPEN", "READ"}
            /\ s.req[r].op = "WRITE" => s.req[r].st = "accepted"

\* The queue q holds the queued requests, once each.
QueueInv(s, q, l) ==
    /\ q \in Seq(Req)
    /\ \A i \in DOMAIN q : s.req[q[i]].st = "queued" /\ q[i] # l
    /\ \A i, j \in DOMAIN q : q[i] = q[j] => i = j
    /\ \A r \in Req \ {l} : s.req[r].st = "queued" => \E i \in DOMAIN q : q[i] = r

\* A request that has been accepted has one handle.
AcceptInv(s, l, hs) ==
    \A r \in Req :
        /\ r = l => HandlesOf(s, r) = hs
        /\ r # l /\ s.req[r].st = "accepted" => \E h \in Handle : HandlesOf(s, r) = {h}
        /\ r # l /\ s.req[r].st # "accepted" => HandlesOf(s, r) = {}

\* The handler is a provider that waits, has a free handle for the request, and
\* can still be sent one.
HandlerInv(s, x) ==
    /\ s.handler # NULL =>
        /\ s.state[s.handler] = "WAITS4REQUEST" /\ s.controlled[s.handler]
        /\ s.usehcnt > 0
        /\ Cardinality(s.handles[s.handler]) < HANDLE_MAX
    /\ \A p \in Proc \ {x} : s.state[p] = "WAITS4REQUEST" => s.handler = p

Good(s, q, d, x, l, hs) ==
    /\ s \in Kernel /\ s.panic = "none"
    /\ HandlesInv(s) /\ DeadInv(s) /\ CountInv(s, d) /\ ReqInv(s, x)
    /\ QueueInv(s, q, l) /\ AcceptInv(s, l, hs) /\ HandlerInv(s, x)

\* The tables are not too full.
Fits(s) == \A p \in Proc : Cardinality(s.handles[p]) <= HANDLE_MAX

\* There is a number for the request to close each file that may be open.
Files(s)     == {h \in Handle : s.h[h].type = "FILE"}
Closing(s)   == {r \in CloseReq : s.req[r].st # "none"}
Opening(s)   == {r \in Proc : s.req[r].st # "none" /\ s.req[r].op = "OPEN"}
OpenCount(s) == Cardinality(Files(s)) + Cardinality(Closing(s)) + Cardinality(Opening(s))

\* A queue is served: a handler does not wait while there is a request, and
\* there is somebody who can become the handler.
Served(s) == s.queue # <<>> => s.handler = NULL /\ s.provhcnt > 0

\* The request of the process being killed can go on without a caller.
Harmless(s, p) ==
    s.state[p] = "WAITS4FS" => /\ s.req[p].op \notin {"OPEN", "READ"}
                               /\ s.req[p].op = "WRITE" => s.req[p].st = "accepted"

\* Between the steps of the kernel.
DrainInv ==
    /\ Good(k, drain, 0, dying, NULL, {})
    /\ k.provhcnt = 0 /\ drain # <<>> /\ k.usehcnt > Len(drain)
StepInv ==
    /\ Good(k, k.queue, 0, dying, NULL, {})
    /\ Served(k)
    /\ phase = "handles" => k.req[dying].caller = NULL

IndInv ==
    /\ opens \in 0..MaxOpens
    /\ phase \in {"none", "drain", "slot", "handles"}
    /\ dying \in Proc \cup {NULL}
    /\ drain \in Seq(Req)
    /\ phase = "none" <=> dying = NULL
    /\ dying # NULL => k.state[dying] \in Alive /\ ~k.controlled[dying]
    /\ phase \in {"drain", "slot"} => Harmless(k, dying)
    /\ IF phase = "drain" THEN DrainInv ELSE StepInv
    /\ Fits(k) /\ OpenCount(k) <= opens

-----------------------------------------------------------------------------
(* Counting. *)

LEMMA FiniteAll ==
    /\ IsFiniteSet(Proc) /\ IsFiniteSet(Handle) /\ IsFiniteSet(CloseReq) /\ IsFiniteSet(Req)
    /\ Cardinality(Proc) \in Nat
    /\ Cardinality(Handle) = HANDLE_MAX * Cardinality(Proc) + 1
    /\ HANDLE_MAX * Cardinality(Proc) \in Nat
    /\ Cardinality(CloseReq) = MaxOpens
<1>1. IsFiniteSet(Proc) /\ Cardinality(Proc) \in Nat
  BY VfsAssumption, FS_CardinalityType
<1>2. PICK n \in Nat : n = HANDLE_MAX * Cardinality(Proc)
  BY <1>1, VfsAssumption
<1>3. IsFiniteSet(Handle) /\ Cardinality(Handle) = n + 1
  <2>1. Handle = 1..(n + 1)
    BY <1>2 DEF Handle
  <2>2. n + 1 \in Int /\ 1 \in Int /\ ~(1 > n + 1)
    OBVIOUS
  <2>3. IsFiniteSet(1..(n + 1)) /\ Cardinality(1..(n + 1)) = (n + 1) - 1 + 1
    BY <2>2, FS_Interval
  <2> QED BY <2>1, <2>3
<1>4. IsFiniteSet(CloseReq) /\ Cardinality(CloseReq) = MaxOpens
  BY VfsAssumption, FS_Interval DEF CloseReq
<1>5. IsFiniteSet(Req)
  BY <1>1, <1>4, FS_Union DEF Req
<1> QED BY <1>1, <1>2, <1>3, <1>4, <1>5

LEMMA FiniteSets ==
    ASSUME NEW S, S \subseteq Proc \/ S \subseteq Handle \/ S \subseteq Req
    PROVE  IsFiniteSet(S) /\ Cardinality(S) \in Nat /\ (Cardinality(S) = 0 <=> S = {})
  BY FiniteAll, FS_Subset, FS_CardinalityType, FS_EmptySet

\* What is counted, in any state.
LEMMA FiniteUses ==
    ASSUME NEW s
    PROVE  /\ IsFiniteSet(UseHandles(s)) /\ Cardinality(UseHandles(s)) \in Nat
           /\ IsFiniteSet(Mounts(s)) /\ Cardinality(Mounts(s)) \in Nat
           /\ IsFiniteSet(Busy(s)) /\ Cardinality(Busy(s)) \in Nat
           /\ IsFiniteSet(Providers(s)) /\ Cardinality(Providers(s)) \in Nat
           /\ \A h : IsFiniteSet(Owners(s, h)) /\ Cardinality(Owners(s, h)) \in Nat
           /\ \A m : IsFiniteSet(MountedAt(s, m)) /\ Cardinality(MountedAt(s, m)) \in Nat
           /\ IsFiniteSet(Files(s)) /\ Cardinality(Files(s)) \in Nat
           /\ IsFiniteSet(Closing(s)) /\ Cardinality(Closing(s)) \in Nat
           /\ IsFiniteSet(Opening(s)) /\ Cardinality(Opening(s)) \in Nat
<1>1. UseHandles(s) \subseteq Handle /\ Files(s) \subseteq Handle
  BY DEF UseHandles, Files
<1>2. Mounts(s) \subseteq Proc /\ Providers(s) \subseteq Proc /\ Opening(s) \subseteq Proc
  BY DEF Mounts, Providers, Opening
<1>3. Busy(s) \subseteq Req /\ Closing(s) \subseteq Req
  BY DEF Busy, Closing, Req
<1>4. \A h : Owners(s, h) \subseteq Proc /\ MountedAt(s, h) \subseteq Proc
  BY DEF Owners, MountedAt
<1> QED BY <1>1, <1>2, <1>3, <1>4, FiniteSets

\* Sets that differ by one element.
LEMMA OneMore ==
    ASSUME NEW S, NEW x, IsFiniteSet(S), Cardinality(S) \in Nat, NEW T
    PROVE  /\ T = S \cup {x} /\ x \notin S => Cardinality(T) = Cardinality(S) + 1
           /\ T = S \ {x} /\ x \in S => Cardinality(T) = Cardinality(S) - 1 /\ Cardinality(S) > 0
<1>1. T = S \cup {x} /\ x \notin S => Cardinality(T) = Cardinality(S) + 1
  BY FS_AddElement
<1>2. T = S \ {x} /\ x \in S => Cardinality(T) = Cardinality(S) - 1
  BY FS_RemoveElement
<1>3. x \in S => Cardinality(S) # 0
  BY FS_EmptySet
<1> QED BY <1>1, <1>2, <1>3

-----------------------------------------------------------------------------
(* A handle that is not in use. *)

\* A set of natural numbers that is not empty has a smallest element.
LEMMA SmallestExists ==
    ASSUME NEW S \in SUBSET Nat, S # {}
    PROVE  \E x \in S : \A y \in S : x <= y
<1> DEFINE R == OpToRel(<, Nat)
<1>1. IsWellFoundedOn(R, Nat)
  BY NatLessThanWellFounded
<1>2. PICK x \in S : \A y \in S : <<y, x>> \notin R
  <2> HIDE DEF R
  <2> QED BY <1>1, WFMin
<1>3. \A y \in S : ~(y < x)
  BY <1>2 DEF OpToRel
<1> QED BY <1>3

\* The entries of a table that is not too full can be numbered.
LEMMA Numbered ==
    ASSUME NEW T \in SUBSET Handle, Cardinality(T) <= HANDLE_MAX
    PROVE  \E f \in [T -> 1..HANDLE_MAX] : \A g, h \in T : f[g] = f[h] => g = h
<1>1. IsFiniteSet(T) /\ Cardinality(T) \in Nat
  BY FiniteSets
<1>2. ExistsBijection(1..Cardinality(T), T)
  BY <1>1, FS_CardinalityType
<1>3. PICK b \in Bijection(1..Cardinality(T), T) : TRUE
  BY <1>2 DEF ExistsBijection
<1>4. PICK n \in Nat : n = Cardinality(T) /\ n <= HANDLE_MAX
  BY <1>1
<1>5. b \in [1..n -> T] /\ \A h \in T : \E i \in 1..n : b[i] = h
  BY <1>3, <1>4 DEF Bijection, Injection, Surjection
<1> DEFINE f == [h \in T |-> CHOOSE i \in 1..n : b[i] = h]
<1>6. \A h \in T : f[h] \in 1..n /\ b[f[h]] = h
  BY <1>5
<1>7. f \in [T -> 1..HANDLE_MAX]
  BY <1>6, <1>4, VfsAssumption
<1> HIDE DEF f
<1>8. \A g, h \in T : f[g] = f[h] => g = h
  BY <1>6
<1> QED BY <1>7, <1>8

\* There is one handle more than fit in all tables.
LEMMA FreeExists ==
    ASSUME NEW s \in Kernel, HandlesInv(s), Fits(s)
    PROVE  \E h \in Handle : s.h[h].refcount = 0
<1> DEFINE n == Cardinality(Proc)
           Places == Proc \X (1..HANDLE_MAX)
           Num(p) == CHOOSE f \in [s.handles[p] -> 1..HANDLE_MAX] :
                        \A g, h \in s.handles[p] : f[g] = f[h] => g = h
           Owner(h) == CHOOSE p \in Proc : h \in s.handles[p]
           place == [h \in Handle |-> <<Owner(h), Num(Owner(h))[h]>>]
<1> SUFFICES ASSUME \A h \in Handle : s.h[h].refcount # 0 PROVE FALSE
  OBVIOUS
<1>1. IsFiniteSet(Places) /\ Cardinality(Places) < Cardinality(Handle)
  <2>1. IsFiniteSet(1..HANDLE_MAX) /\ Cardinality(1..HANDLE_MAX) = HANDLE_MAX
    BY FS_Interval, VfsAssumption
  <2>2. IsFiniteSet(Places) /\ Cardinality(Places) = n * HANDLE_MAX
    BY <2>1, FS_Product, FiniteAll
  <2>3. n * HANDLE_MAX = HANDLE_MAX * n
    BY FiniteAll, VfsAssumption
  <2>4. HANDLE_MAX * n \in Nat /\ Cardinality(Handle) = HANDLE_MAX * n + 1
    BY FiniteAll
  <2>5. PICK m \in Nat : m = HANDLE_MAX * n
    BY <2>4
  <2>6. Cardinality(Places) = m /\ Cardinality(Handle) = m + 1
    BY <2>2, <2>3, <2>4, <2>5
  <2> QED BY <2>2, <2>6
<1>2. \A p \in Proc : /\ Num(p) \in [s.handles[p] -> 1..HANDLE_MAX]
                       /\ \A g, h \in s.handles[p] : Num(p)[g] = Num(p)[h] => g = h
  <2> SUFFICES ASSUME NEW p \in Proc
               PROVE  \E f \in [s.handles[p] -> 1..HANDLE_MAX] :
                        \A g, h \in s.handles[p] : f[g] = f[h] => g = h
    OBVIOUS
  <2>1. s.handles[p] \in SUBSET Handle
    BY DEF Kernel
  <2>2. Cardinality(s.handles[p]) <= HANDLE_MAX
    BY DEF Fits
  <2> QED BY <2>1, <2>2, Numbered
<1> HIDE DEF Num
<1>3. \A h \in Handle : Owner(h) \in Proc /\ h \in s.handles[Owner(h)]
  <2> SUFFICES ASSUME NEW h \in Handle PROVE \E p \in Proc : h \in s.handles[p]
    OBVIOUS
  <2>1. Cardinality(Owners(s, h)) # 0
    BY DEF HandlesInv
  <2> QED BY <2>1, FS_EmptySet DEF Owners
<1> HIDE DEF Owner
<1>4. place \in [Handle -> Places]
  BY <1>2, <1>3
<1>5. IsFiniteSet(Handle)
  BY FiniteAll
<1>6. \E g, h \in Handle : g # h /\ place[g] = place[h]
  <2> HIDE DEF place, Places
  <2> QED BY <1>1, <1>4, <1>5, FS_PigeonHole
<1>7. PICK g \in Handle, h \in Handle : g # h /\ place[g] = place[h]
  BY <1>6
<1>8. Owner(g) = Owner(h) /\ Num(Owner(g))[g] = Num(Owner(h))[h]
  BY <1>7
<1> QED BY <1>2, <1>3, <1>7, <1>8

LEMMA NewHandleFree ==
    ASSUME NEW s \in Kernel, HandlesInv(s), Fits(s)
    PROVE  NewHandle(s) \in Handle /\ s.h[NewHandle(s)].refcount = 0
<1>1. FreeHandles(s) \in SUBSET Nat /\ FreeHandles(s) # {}
  BY FreeExists, FiniteAll DEF FreeHandles, Handle
<1>2. \E h \in FreeHandles(s) : \A g \in FreeHandles(s) : h <= g
  BY <1>1, SmallestExists
<1>3. NewHandle(s) \in FreeHandles(s)
  BY <1>2 DEF NewHandle
<1> QED BY <1>3 DEF FreeHandles

-----------------------------------------------------------------------------
(* vfs_backend_refdown: a use of the backend is given back. *)

LEMMA RefdownFields ==
    ASSUME NEW s \in Kernel, s.panic = "none", s.backend = "live", s.usehcnt > 0,
           s.usehcnt = 1 /\ s.provhcnt = 0 => s.queue = <<>>
    PROVE  /\ refdown_use(s) \in Kernel
           /\ refdown_use(s).handles = s.handles /\ refdown_use(s).controlled = s.controlled
           /\ refdown_use(s).mount = s.mount /\ refdown_use(s).mrefs = s.mrefs
           /\ refdown_use(s).h = s.h /\ refdown_use(s).req = s.req
           /\ refdown_use(s).usehcnt = s.usehcnt - 1 /\ refdown_use(s).provhcnt = s.provhcnt
           /\ refdown_use(s).queue = s.queue /\ refdown_use(s).panic = "none"
           /\ refdown_use(s).backend = IF s.usehcnt = 1 /\ s.provhcnt = 0 THEN "freed" ELSE "live"
           /\ s.usehcnt = 1 => /\ refdown_use(s).handler = NULL
                               /\ \A p \in Proc : refdown_use(s).state[p] =
                                    IF p = s.handler THEN "RUNNING" ELSE s.state[p]
           /\ s.usehcnt # 1 => refdown_use(s).handler = s.handler /\ refdown_use(s).state = s.state
<1> DEFINE down  == [s EXCEPT !.usehcnt = s.usehcnt - 1]
           awake == IF s.usehcnt = 1 /\ s.handler # NULL
                    THEN [down EXCEPT !.state[s.handler] = "RUNNING", !.handler = NULL]
                    ELSE down
           freed == IF s.usehcnt = 1 /\ s.provhcnt = 0
                    THEN [awake EXCEPT !.backend = "freed"] ELSE awake
<1>0. s.usehcnt \in Nat /\ s.usehcnt - 1 \in Nat /\ s.handler \in Proc \cup {NULL}
  BY DEF Kernel
<1>1. /\ down \in Kernel /\ down.usehcnt = s.usehcnt - 1 /\ down.state = s.state
      /\ down.handles = s.handles /\ down.controlled = s.controlled /\ down.mount = s.mount
      /\ down.mrefs = s.mrefs /\ down.h = s.h /\ down.req = s.req /\ down.provhcnt = s.provhcnt
      /\ down.queue = s.queue /\ down.panic = s.panic /\ down.backend = s.backend
      /\ down.handler = s.handler
  BY <1>0 DEF Kernel
<1>2. down = [s EXCEPT !.usehcnt = IF @ = 0 THEN 0 ELSE @ - 1]
  BY <1>0
<1> HIDE DEF down
<1>3. /\ awake \in Kernel /\ awake.usehcnt = s.usehcnt - 1
      /\ awake.handles = s.handles /\ awake.controlled = s.controlled /\ awake.mount = s.mount
      /\ awake.mrefs = s.mrefs /\ awake.h = s.h /\ awake.req = s.req /\ awake.provhcnt = s.provhcnt
      /\ awake.queue = s.queue /\ awake.panic = s.panic /\ awake.backend = s.backend
      /\ s.usehcnt = 1 => /\ awake.handler = NULL
                          /\ \A p \in Proc : awake.state[p] =
                                IF p = s.handler THEN "RUNNING" ELSE s.state[p]
      /\ s.usehcnt # 1 => awake.handler = s.handler /\ awake.state = s.state
  <2>1. CASE s.usehcnt = 1 /\ s.handler # NULL
    <3>1. awake = [down EXCEPT !.state[s.handler] = "RUNNING", !.handler = NULL]
      BY <2>1
    <3>2. s.handler \in Proc
      BY <2>1, <1>0
    <3> HIDE DEF awake
    <3> QED BY <2>1, <3>1, <3>2, <1>0, <1>1 DEF Kernel
  <2>2. CASE ~(s.usehcnt = 1 /\ s.handler # NULL)
    <3>1. awake = down
      BY <2>2
    <3> HIDE DEF awake
    <3> QED BY <2>2, <3>1, <1>1, VfsAssumption DEF Kernel
  <2> QED BY <2>1, <2>2
<1> HIDE DEF awake
<1>4. /\ freed \in Kernel /\ freed.usehcnt = s.usehcnt - 1
      /\ freed.handles = s.handles /\ freed.controlled = s.controlled /\ freed.mount = s.mount
      /\ freed.mrefs = s.mrefs /\ freed.h = s.h /\ freed.req = s.req /\ freed.provhcnt = s.provhcnt
      /\ freed.queue = s.queue /\ freed.panic = s.panic /\ freed.handler = awake.handler
      /\ freed.state = awake.state
      /\ freed.backend = IF s.usehcnt = 1 /\ s.provhcnt = 0 THEN "freed" ELSE "live"
  BY <1>0, <1>3 DEF Kernel
<1>5. refdown_use(s) = freed
  BY <1>0, <1>1, <1>2, <1>3 DEF refdown_use, Check, awake
<1> HIDE DEF freed
<1> QED BY <1>3, <1>4, <1>5

\* The backend that is still counted has not been freed.
LEMMA Refdown ==
    ASSUME NEW s, NEW q, NEW x, NEW l, NEW hs, Good(s, q, 1, x, l, hs),
           s.usehcnt = 1 /\ s.provhcnt = 0 => s.queue = <<>>
    PROVE  Good(refdown_use(s), q, 0, x, l, hs)
<1>1. /\ s \in Kernel /\ s.panic = "none"
      /\ HandlesInv(s) /\ DeadInv(s) /\ CountInv(s, 1) /\ ReqInv(s, x)
      /\ QueueInv(s, q, l) /\ AcceptInv(s, l, hs) /\ HandlerInv(s, x)
  BY DEF Good
<1>2. s.usehcnt > 0 /\ s.backend = "live" /\ s.usehcnt \in Nat /\ s.provhcnt \in Nat
  BY <1>1, FiniteUses DEF CountInv, Kernel
<1>3. PICK t : t = refdown_use(s)
  OBVIOUS
<1>4. /\ t \in Kernel
      /\ t.handles = s.handles /\ t.controlled = s.controlled
      /\ t.mount = s.mount /\ t.mrefs = s.mrefs
      /\ t.h = s.h /\ t.req = s.req
      /\ t.usehcnt = s.usehcnt - 1 /\ t.provhcnt = s.provhcnt
      /\ t.queue = s.queue /\ t.panic = "none"
      /\ t.backend = IF s.usehcnt = 1 /\ s.provhcnt = 0 THEN "freed" ELSE "live"
      /\ s.usehcnt = 1 => /\ t.handler = NULL
                          /\ \A p \in Proc : t.state[p] =
                               IF p = s.handler THEN "RUNNING" ELSE s.state[p]
      /\ s.usehcnt # 1 => t.handler = s.handler /\ t.state = s.state
  BY <1>1, <1>2, <1>3, RefdownFields
<1>5. HandlesInv(t)
  BY <1>1, <1>4 DEF HandlesInv, Owners
<1>6. \A p \in Proc : \/ t.state[p] = s.state[p]
                      \/ p = s.handler /\ t.state[p] = "RUNNING" /\ s.state[p] = "WAITS4REQUEST"
  BY <1>1, <1>4, VfsAssumption DEF HandlerInv
<1>7. DeadInv(t)
  BY <1>1, <1>4, <1>6 DEF DeadInv, Alive
<1>8. CountInv(t, 0)
  <2>1. /\ UseHandles(t) = UseHandles(s) /\ Mounts(t) = Mounts(s) /\ Busy(t) = Busy(s)
        /\ Providers(t) = Providers(s) /\ \A m : MountedAt(t, m) = MountedAt(s, m)
    BY <1>4 DEF UseHandles, Mounts, Busy, Providers, MountedAt
  <2>2. t.usehcnt = Cardinality(UseHandles(t)) + Cardinality(Mounts(t)) + Cardinality(Busy(t)) + 0
    BY <1>1, <1>4, <2>1, FiniteUses DEF CountInv
  <2>3. t.backend = "live" <=> t.usehcnt > 0 \/ t.provhcnt > 0
    BY <1>2, <1>4
  <2> QED BY <1>1, <1>4, <2>1, <2>2, <2>3 DEF CountInv
<1>9. ReqInv(t, x)
  BY <1>1, <1>4, <1>6 DEF ReqInv
<1>10. QueueInv(t, q, l) /\ AcceptInv(t, l, hs)
  BY <1>1, <1>4 DEF QueueInv, AcceptInv, HandlesOf
<1>11. HandlerInv(t, x)
  <2>1. CASE s.usehcnt = 1
    BY <1>1, <1>4, <1>6, <2>1 DEF HandlerInv
  <2>2. CASE s.usehcnt # 1
    BY <1>1, <1>2, <1>4, <1>6, <2>2 DEF HandlerInv
  <2> QED BY <2>1, <2>2
<1> QED BY <1>3, <1>4, <1>5, <1>7, <1>8, <1>9, <1>10, <1>11 DEF Good

-----------------------------------------------------------------------------
(* vfsreq_finish: the caller runs again, then the request is no use any more. *)

cleared(s, r) ==
    [s EXCEPT !.req[r] = NoReq,
              !.state = IF s.req[r].caller = NULL THEN s.state
                        ELSE [s.state EXCEPT ![s.req[r].caller] = "RUNNING"]]

LEMMA ClearedFields ==
    ASSUME NEW s \in Kernel, NEW r \in Req
    PROVE  /\ cleared(s, r) \in Kernel
           /\ cleared(s, r).handles = s.handles /\ cleared(s, r).controlled = s.controlled
           /\ cleared(s, r).mount = s.mount /\ cleared(s, r).mrefs = s.mrefs
           /\ cleared(s, r).h = s.h
           /\ cleared(s, r).req = [s.req EXCEPT ![r] = NoReq]
           /\ cleared(s, r).usehcnt = s.usehcnt /\ cleared(s, r).provhcnt = s.provhcnt
           /\ cleared(s, r).queue = s.queue /\ cleared(s, r).panic = s.panic
           /\ cleared(s, r).backend = s.backend /\ cleared(s, r).handler = s.handler
           /\ \A p \in Proc : cleared(s, r).state[p] =
                IF p = s.req[r].caller THEN "RUNNING" ELSE s.state[p]
<1> DEFINE st == IF s.req[r].caller = NULL THEN s.state
                 ELSE [s.state EXCEPT ![s.req[r].caller] = "RUNNING"]
           rq == [s.req EXCEPT ![r] = NoReq]
<1>1. /\ s.state \in [Proc -> {"NEW", "RUNNING", "WAITS4FS", "WAITS4REQUEST", "DEAD"}]
      /\ s.req[r].caller \in Proc \cup {NULL}
      /\ s.req \in [Req -> [st : {"none", "queued", "accepted"}, op : Ops, caller : Proc \cup {NULL}]]
  BY DEF Kernel
<1>2. st \in [Proc -> {"NEW", "RUNNING", "WAITS4FS", "WAITS4REQUEST", "DEAD"}]
  BY <1>1
<1>3. \A p \in Proc : st[p] = IF p = s.req[r].caller THEN "RUNNING" ELSE s.state[p]
  BY <1>1, VfsAssumption
<1>4. rq \in [Req -> [st : {"none", "queued", "accepted"}, op : Ops, caller : Proc \cup {NULL}]]
  BY <1>1 DEF NoReq, Ops
<1>5. cleared(s, r) = [s EXCEPT !.req = rq, !.state = st]
  BY DEF cleared
<1> HIDE DEF st, rq
<1>6. /\ cleared(s, r) \in Kernel
      /\ cleared(s, r).handles = s.handles /\ cleared(s, r).controlled = s.controlled
      /\ cleared(s, r).mount = s.mount /\ cleared(s, r).mrefs = s.mrefs
      /\ cleared(s, r).h = s.h
      /\ cleared(s, r).req = rq /\ cleared(s, r).state = st
      /\ cleared(s, r).usehcnt = s.usehcnt /\ cleared(s, r).provhcnt = s.provhcnt
      /\ cleared(s, r).queue = s.queue /\ cleared(s, r).panic = s.panic
      /\ cleared(s, r).backend = s.backend /\ cleared(s, r).handler = s.handler
  BY <1>2, <1>4, <1>5 DEF Kernel
<1> QED BY <1>3, <1>6 DEF rq

LEMMA KernelEq ==
    ASSUME NEW s \in Kernel, NEW t \in Kernel,
           s.handles = t.handles, s.controlled = t.controlled, s.mount = t.mount, s.mrefs = t.mrefs,
           s.h = t.h, s.req = t.req, s.usehcnt = t.usehcnt, s.provhcnt = t.provhcnt,
           s.queue = t.queue, s.panic = t.panic, s.backend = t.backend, s.handler = t.handler,
           \A p \in Proc : s.state[p] = t.state[p]
    PROVE  s = t
<1>1. s.state = t.state
  BY DEF Kernel
<1> DEFINE R(a) == [state |-> a.state, handles |-> a.handles, controlled |-> a.controlled,
                    mount |-> a.mount, mrefs |-> a.mrefs, h |-> a.h, req |-> a.req,
                    backend |-> a.backend, usehcnt |-> a.usehcnt, provhcnt |-> a.provhcnt,
                    queue |-> a.queue, handler |-> a.handler, panic |-> a.panic]
<1>2. s = R(s) /\ t = R(t)
  BY Zenon DEF Kernel
<1>3. R(s) = R(t)
  BY <1>1
<1> QED BY <1>2, <1>3

LEMMA FinishCleared ==
    ASSUME NEW s, NEW r \in Req, refdown_use(s) \in Kernel, refdown_use(s).req = s.req,
           s.req[r].caller # NULL => s.state[s.req[r].caller] = "WAITS4FS"
    PROVE  finish(s, r) = cleared(refdown_use(s), r)
<1>1. PICK d : d = refdown_use(s)
  OBVIOUS
<1>2. PICK c : c = s.req[r].caller
  OBVIOUS
<1>3. d \in Kernel /\ d.req = s.req /\ d.req[r].caller = c
  BY <1>1, <1>2
<1>4. finish(s, r) = IF c = NULL THEN [d EXCEPT !.req[r] = NoReq]
                     ELSE [[d EXCEPT !.req[r] = NoReq] EXCEPT !.state[c] = "RUNNING"]
  BY <1>1, <1>2 DEF finish, Check, NoReq
<1>5. CASE c = NULL
  <2>1. [d EXCEPT !.req[r] = NoReq] = [d EXCEPT !.req[r] = NoReq, !.state = d.state]
    BY <1>3 DEF Kernel
  <2> QED BY <1>1, <1>3, <1>4, <1>5, <2>1 DEF cleared
<1>6. CASE c # NULL
  <2>1. [[d EXCEPT !.req[r] = NoReq] EXCEPT !.state[c] = "RUNNING"]
          = [d EXCEPT !.req[r] = NoReq, !.state = [d.state EXCEPT ![c] = "RUNNING"]]
    BY <1>3 DEF Kernel
  <2> QED BY <1>1, <1>3, <1>4, <1>6, <2>1 DEF cleared
<1> QED BY <1>5, <1>6

\* The order in which the use is given back and the caller is woken up does not
\* matter.
LEMMA FinishIs ==
    ASSUME NEW s, NEW q, NEW x, NEW l, NEW hs, Good(s, q, 0, x, l, hs),
           NEW r \in Req, s.req[r].st # "none",
           s.usehcnt = 1 /\ s.provhcnt = 0 => s.queue = <<>>
    PROVE  finish(s, r) = refdown_use(cleared(s, r))
<1>1. /\ s \in Kernel /\ s.panic = "none" /\ CountInv(s, 0) /\ ReqInv(s, x) /\ HandlerInv(s, x)
  BY DEF Good
<1>2. s.usehcnt > 0 /\ s.backend = "live"
  <2>1. r \in Busy(s)
    BY DEF Busy
  <2>2. Cardinality(Busy(s)) > 0
    BY <2>1, FiniteUses, OneMore
  <2> QED BY <1>1, <2>2, FiniteUses DEF CountInv, Kernel
<1>3. PICK c : c = s.req[r].caller
  OBVIOUS
<1>4. c \in Proc \cup {NULL} /\ (c # NULL => c = r /\ s.state[c] = "WAITS4FS" /\ c # s.handler)
  <2>1. c \in Proc \cup {NULL}
    BY <1>1, <1>3 DEF Kernel
  <2>2. c # NULL => c = r /\ s.state[c] = "WAITS4FS"
    BY <1>1, <1>3, <2>1 DEF ReqInv
  <2> QED BY <2>1, <2>2, <1>1 DEF HandlerInv
<1>5. PICK d : d = refdown_use(s)
  OBVIOUS
<1>6. PICK e : e = cleared(s, r)
  OBVIOUS
<1>7. /\ d \in Kernel
      /\ d.handles = s.handles /\ d.controlled = s.controlled
      /\ d.mount = s.mount /\ d.mrefs = s.mrefs
      /\ d.h = s.h /\ d.req = s.req
      /\ d.usehcnt = s.usehcnt - 1 /\ d.provhcnt = s.provhcnt
      /\ d.queue = s.queue /\ d.panic = "none"
      /\ d.backend = IF s.usehcnt = 1 /\ s.provhcnt = 0 THEN "freed" ELSE "live"
      /\ s.usehcnt = 1 => /\ d.handler = NULL
                          /\ \A p \in Proc : d.state[p] =
                               IF p = s.handler THEN "RUNNING" ELSE s.state[p]
      /\ s.usehcnt # 1 => d.handler = s.handler /\ d.state = s.state
  BY <1>1, <1>2, <1>5, RefdownFields
<1>8. /\ e \in Kernel
      /\ e.handles = s.handles /\ e.controlled = s.controlled
      /\ e.mount = s.mount /\ e.mrefs = s.mrefs
      /\ e.h = s.h
      /\ e.req = [s.req EXCEPT ![r] = NoReq]
      /\ e.usehcnt = s.usehcnt /\ e.provhcnt = s.provhcnt
      /\ e.queue = s.queue /\ e.panic = s.panic
      /\ e.backend = s.backend /\ e.handler = s.handler
      /\ \A p \in Proc : e.state[p] = IF p = c THEN "RUNNING" ELSE s.state[p]
  BY <1>1, <1>3, <1>6, ClearedFields
<1>9. PICK f : f = refdown_use(e)
  OBVIOUS
<1>10. /\ f \in Kernel
       /\ f.handles = s.handles /\ f.controlled = s.controlled
       /\ f.mount = s.mount /\ f.mrefs = s.mrefs
       /\ f.h = s.h /\ f.req = e.req
       /\ f.usehcnt = s.usehcnt - 1 /\ f.provhcnt = s.provhcnt
       /\ f.queue = s.queue /\ f.panic = "none"
       /\ f.backend = d.backend
       /\ s.usehcnt = 1 => /\ f.handler = NULL
                           /\ \A p \in Proc : f.state[p] =
                                IF p = s.handler THEN "RUNNING" ELSE e.state[p]
       /\ s.usehcnt # 1 => f.handler = s.handler /\ f.state = e.state
  <2>1. e.panic = "none" /\ e.backend = "live" /\ e.usehcnt > 0
        /\ (e.usehcnt = 1 /\ e.provhcnt = 0 => e.queue = <<>>)
    BY <1>1, <1>2, <1>8
  <2> QED BY <1>7, <1>8, <1>9, <2>1, RefdownFields
<1>11. PICK g : g = cleared(d, r)
  OBVIOUS
<1>12. /\ g \in Kernel
       /\ g.handles = d.handles /\ g.controlled = d.controlled
       /\ g.mount = d.mount /\ g.mrefs = d.mrefs
       /\ g.h = d.h
       /\ g.req = [d.req EXCEPT ![r] = NoReq]
       /\ g.usehcnt = d.usehcnt /\ g.provhcnt = d.provhcnt
       /\ g.queue = d.queue /\ g.panic = d.panic
       /\ g.backend = d.backend /\ g.handler = d.handler
       /\ \A p \in Proc : g.state[p] = IF p = c THEN "RUNNING" ELSE d.state[p]
  <2>1. d.req[r].caller = c
    BY <1>3, <1>7
  <2> QED BY <2>1, <1>7, <1>11, ClearedFields
<1>13. finish(s, r) = g
  BY <1>3, <1>4, <1>5, <1>7, <1>11, FinishCleared
<1>14. \A p \in Proc : g.state[p] = f.state[p]
  <2>1. CASE s.usehcnt = 1
    BY <2>1, <1>4, <1>7, <1>8, <1>10, <1>12, VfsAssumption
  <2>2. CASE s.usehcnt # 1
    BY <2>2, <1>7, <1>8, <1>10, <1>12
  <2> QED BY <2>1, <2>2
<1>15. g.handler = f.handler
  <2>1. CASE s.usehcnt = 1
    BY <2>1, <1>7, <1>10, <1>12
  <2>2. CASE s.usehcnt # 1
    BY <2>2, <1>7, <1>10, <1>12
  <2> QED BY <2>1, <2>2
<1>16. g = f
  BY <1>7, <1>8, <1>10, <1>12, <1>14, <1>15, KernelEq
<1> QED BY <1>6, <1>9, <1>13, <1>16

LEMMA Clear ==
    ASSUME NEW s, NEW q, NEW x, NEW hs, NEW r \in Req, Good(s, q, 0, x, r, hs),
           s.req[r].st # "none"
    PROVE  Good(cleared(s, r), q, 1, x, r, hs)
<1>1. /\ s \in Kernel /\ s.panic = "none"
      /\ HandlesInv(s) /\ DeadInv(s) /\ CountInv(s, 0) /\ ReqInv(s, x)
      /\ QueueInv(s, q, r) /\ AcceptInv(s, r, hs) /\ HandlerInv(s, x)
  BY DEF Good
<1>2. PICK t : t = cleared(s, r)
  OBVIOUS
<1>3. /\ t \in Kernel
      /\ t.handles = s.handles /\ t.controlled = s.controlled
      /\ t.mount = s.mount /\ t.mrefs = s.mrefs
      /\ t.h = s.h
      /\ t.req = [s.req EXCEPT ![r] = NoReq]
      /\ t.usehcnt = s.usehcnt /\ t.provhcnt = s.provhcnt
      /\ t.queue = s.queue /\ t.panic = s.panic
      /\ t.backend = s.backend /\ t.handler = s.handler
      /\ \A p \in Proc : t.state[p] = IF p = s.req[r].caller THEN "RUNNING" ELSE s.state[p]
  BY <1>1, <1>2, ClearedFields
<1>4. \A i \in Req : t.req[i] = IF i = r THEN NoReq ELSE s.req[i]
  BY <1>1, <1>3 DEF Kernel
<1>5. \A p \in Proc : \/ t.state[p] = s.state[p] /\ p # s.req[r].caller
                      \/ p = s.req[r].caller /\ p = r /\ t.state[p] = "RUNNING" /\ s.state[p] = "WAITS4FS"
  BY <1>1, <1>3, VfsAssumption DEF ReqInv
<1>6. HandlesInv(t)
  BY <1>1, <1>3 DEF HandlesInv, Owners
<1>7. DeadInv(t)
  BY <1>1, <1>3, <1>5 DEF DeadInv, Alive
<1>8. CountInv(t, 1)
  <2>1. /\ UseHandles(t) = UseHandles(s) /\ Mounts(t) = Mounts(s)
        /\ Providers(t) = Providers(s) /\ \A m : MountedAt(t, m) = MountedAt(s, m)
    BY <1>3 DEF UseHandles, Mounts, Providers, MountedAt
  <2>2. Busy(t) = Busy(s) \ {r} /\ r \in Busy(s)
    BY <1>4 DEF Busy, NoReq
  <2>3. Cardinality(Busy(t)) = Cardinality(Busy(s)) - 1
    BY <2>2, OneMore, FiniteUses
  <2>4. t.usehcnt = Cardinality(UseHandles(t)) + Cardinality(Mounts(t)) + Cardinality(Busy(t)) + 1
    BY <1>1, <1>3, <2>1, <2>3, FiniteUses DEF CountInv
  <2> QED BY <1>1, <1>3, <2>1, <2>4 DEF CountInv
<1>9. ReqInv(t, x)
  <2>1. \A i \in Req : t.req[i].st = "none" => t.req[i] = NoReq
    BY <1>1, <1>4 DEF ReqInv
  <2>2. \A i \in Req : t.req[i].caller # NULL => t.req[i].caller = i
    BY <1>1, <1>4 DEF ReqInv, NoReq
  <2>3. \A p \in Proc : t.req[p].caller = p => t.state[p] = "WAITS4FS"
    BY <1>1, <1>4, <1>5, VfsAssumption DEF ReqInv, NoReq, Req
  <2>4. \A p \in Proc \ {x} : t.state[p] = "WAITS4FS" => t.req[p].caller = p
    BY <1>1, <1>4, <1>5 DEF ReqInv, NoReq, Req
  <2>5. \A p \in Proc \ {x} : t.req[p].st # "none" /\ t.req[p].caller = NULL => t.state[p] = "DEAD"
    BY <1>1, <1>4, <1>5 DEF ReqInv, NoReq, Req
  <2>6. \A i \in Req : t.req[i].caller = NULL =>
            /\ t.req[i].op \notin {"OPEN", "READ"}
            /\ t.req[i].op = "WRITE" => t.req[i].st = "accepted"
    BY <1>1, <1>4 DEF ReqInv, NoReq
  <2> QED BY <2>1, <2>2, <2>3, <2>4, <2>5, <2>6 DEF ReqInv
<1>10. QueueInv(t, q, r)
  <2>1. \A i \in DOMAIN q : q[i] \in Req
    BY <1>1 DEF QueueInv
  <2>2. \A i \in DOMAIN q : q[i] # r /\ t.req[q[i]] = s.req[q[i]]
    BY <1>1, <1>4, <2>1 DEF QueueInv
  <2> QED BY <1>1, <1>4, <2>2 DEF QueueInv
<1>11. AcceptInv(t, r, hs)
  BY <1>1, <1>3, <1>4 DEF AcceptInv, HandlesOf
<1>12. HandlerInv(t, x)
  <2>1. s.handler \in Proc \cup {NULL}
    BY <1>1 DEF Kernel
  <2> QED BY <1>1, <1>3, <1>5, <2>1 DEF HandlerInv
<1> QED BY <1>1, <1>2, <1>3, <1>6, <1>7, <1>8, <1>9, <1>10, <1>11, <1>12 DEF Good

\* What a function of the kernel leaves alone for its caller.
Frame(s, t) ==
    /\ t.controlled = s.controlled /\ t.mount = s.mount /\ t.mrefs = s.mrefs
    /\ t.provhcnt = s.provhcnt
    /\ \A p \in Proc : \/ t.state[p] = s.state[p]
                       \/ s.state[p] \in {"WAITS4FS", "WAITS4REQUEST"} /\ t.state[p] = "RUNNING"
    /\ \A p \in Proc : s.state[p] # "WAITS4REQUEST" => t.handles[p] = s.handles[p]
    /\ \A g \in Handle : s.h[g].refcount # 0 => t.h[g] = s.h[g]
    /\ \A i \in Req : t.req[i].caller \in {s.req[i].caller, NULL}

\* The requests are the same, except that some are accepted, but not l.
ReqsKept(s, t, l) ==
    \A i \in Req : /\ t.req[i].caller = s.req[i].caller /\ t.req[i].op = s.req[i].op
                   /\ t.req[i].st = "none" <=> s.req[i].st = "none"
                   /\ i = l => t.req[i] = s.req[i]

LEMMA FewerOpens ==
    ASSUME NEW s, NEW t, Files(t) \subseteq Files(s), Closing(t) \subseteq Closing(s),
           Opening(t) \subseteq Opening(s)
    PROVE  /\ OpenCount(t) <= OpenCount(s) /\ Cardinality(Closing(t)) <= Cardinality(Closing(s))
           /\ Opening(t) # Opening(s) => OpenCount(t) < OpenCount(s)
<1>1. Cardinality(Files(t)) <= Cardinality(Files(s))
  BY FiniteUses, FS_Subset
<1>2. Cardinality(Closing(t)) <= Cardinality(Closing(s))
  BY FiniteUses, FS_Subset
<1>3. /\ Cardinality(Opening(t)) <= Cardinality(Opening(s))
      /\ Opening(t) # Opening(s) => Cardinality(Opening(t)) # Cardinality(Opening(s))
  BY FiniteUses, FS_Subset
<1> QED BY <1>1, <1>2, <1>3, FiniteUses DEF OpenCount

\* t is s after the request r is finished.
Finished(s, t, q, x, r, hs) ==
    /\ Good(t, q, 0, x, r, hs) /\ t.req[r] = NoReq /\ Frame(s, t)
    /\ \A i \in Req \ {r} : t.req[i] = s.req[i]
    /\ t.handles = s.handles /\ t.h = s.h /\ t.usehcnt = s.usehcnt - 1
    /\ t.queue = s.queue /\ t.handler \in {s.handler, NULL}
    /\ OpenCount(t) <= OpenCount(s)
    /\ r \in Opening(s) => OpenCount(t) < OpenCount(s)

LEMMA Finish ==
    ASSUME NEW s, NEW q, NEW x, NEW hs, NEW r \in Req, Good(s, q, 0, x, r, hs),
           s.req[r].st # "none",
           s.usehcnt = 1 /\ s.provhcnt = 0 => s.queue = <<>>
    PROVE  Finished(s, finish(s, r), q, x, r, hs)
<1>1. /\ s \in Kernel /\ s.panic = "none"
      /\ CountInv(s, 0) /\ ReqInv(s, x) /\ HandlerInv(s, x)
  BY DEF Good
<1>2. PICK e : e = cleared(s, r)
  OBVIOUS
<1>3. PICK t : t = refdown_use(e)
  OBVIOUS
<1>4. t = finish(s, r)
  BY <1>2, <1>3, FinishIs
<1>5. Good(e, q, 1, x, r, hs)
  BY <1>2, Clear
<1>6. /\ e \in Kernel
      /\ e.handles = s.handles /\ e.controlled = s.controlled
      /\ e.mount = s.mount /\ e.mrefs = s.mrefs
      /\ e.h = s.h
      /\ e.req = [s.req EXCEPT ![r] = NoReq]
      /\ e.usehcnt = s.usehcnt /\ e.provhcnt = s.provhcnt
      /\ e.queue = s.queue /\ e.panic = s.panic
      /\ e.backend = s.backend /\ e.handler = s.handler
      /\ \A p \in Proc : e.state[p] = IF p = s.req[r].caller THEN "RUNNING" ELSE s.state[p]
  BY <1>1, <1>2, ClearedFields
<1>7. Good(t, q, 0, x, r, hs)
  BY <1>3, <1>5, <1>6, Refdown
<1>8. e.usehcnt > 0 /\ e.backend = "live"
  <2>1. CountInv(e, 1)
    BY <1>5 DEF Good
  <2> QED BY <2>1, FiniteUses DEF CountInv
<1>9. /\ t \in Kernel
      /\ t.handles = s.handles /\ t.controlled = s.controlled
      /\ t.mount = s.mount /\ t.mrefs = s.mrefs
      /\ t.h = s.h /\ t.req = e.req
      /\ t.usehcnt = s.usehcnt - 1 /\ t.provhcnt = s.provhcnt
      /\ t.queue = s.queue
      /\ s.usehcnt = 1 => /\ t.handler = NULL
                          /\ \A p \in Proc : t.state[p] =
                               IF p = s.handler THEN "RUNNING" ELSE e.state[p]
      /\ s.usehcnt # 1 => t.handler = s.handler /\ t.state = e.state
  BY <1>1, <1>3, <1>6, <1>8, RefdownFields
<1>10. \A i \in Req : t.req[i] = IF i = r THEN NoReq ELSE s.req[i]
  BY <1>1, <1>6, <1>9 DEF Kernel
<1>11. \A p \in Proc : \/ t.state[p] = s.state[p]
                       \/ s.state[p] \in {"WAITS4FS", "WAITS4REQUEST"} /\ t.state[p] = "RUNNING"
  <2>1. \A p \in Proc : \/ e.state[p] = s.state[p]
                        \/ s.state[p] = "WAITS4FS" /\ e.state[p] = "RUNNING"
    BY <1>1, <1>6, VfsAssumption DEF ReqInv
  <2>2. \A p \in Proc : \/ t.state[p] = e.state[p]
                        \/ s.state[p] = "WAITS4REQUEST" /\ t.state[p] = "RUNNING"
    BY <1>1, <1>9, VfsAssumption DEF HandlerInv
  <2> QED BY <2>1, <2>2
<1>12. Frame(s, t)
  BY <1>9, <1>10, <1>11 DEF Frame, NoReq
<1>13. t.handler \in {s.handler, NULL}
  BY <1>9
<1>14. /\ Files(t) = Files(s) /\ Closing(t) \subseteq Closing(s)
       /\ Opening(t) \subseteq Opening(s) /\ r \notin Opening(t)
  BY <1>9, <1>10 DEF Files, Closing, Opening, Req, NoReq
<1>15. OpenCount(t) <= OpenCount(s) /\ (r \in Opening(s) => OpenCount(t) < OpenCount(s))
  BY <1>14, FewerOpens
<1> QED BY <1>4, <1>7, <1>9, <1>10, <1>12, <1>13, <1>15 DEF Finished

-----------------------------------------------------------------------------
(* handle_init and vfs_backend_tryaccept. *)

\* A handle that was free is put in one table.
LEMMA PutHandle ==
    ASSUME NEW s \in Kernel, NEW t, HandlesInv(s), NEW n \in Handle, s.h[n].refcount = 0,
           t.h[n].refcount = 1, t.h[n].type # "INVALID", t.h[n].req # NULL => t.h[n].type = "FS_REQ",
           \A g \in Handle \ {n} : t.h[g] = s.h[g],
           NEW p \in Proc, t.handles[p] = s.handles[p] \cup {n},
           \A i \in Proc \ {p} : t.handles[i] = s.handles[i]
    PROVE  HandlesInv(t) /\ s.h[n] = NoHandle /\ \A i \in Proc : n \notin s.handles[i]
<1>1. \A i \in Proc : n \notin s.handles[i]
  <2>1. Cardinality(Owners(s, n)) = 0
    BY DEF HandlesInv
  <2>2. Owners(s, n) = {}
    BY <2>1, FiniteUses, FS_EmptySet
  <2> QED BY <2>2 DEF Owners
<1>2. s.h[n] = NoHandle
  BY DEF HandlesInv
<1>3. Owners(t, n) = {p}
  BY <1>1 DEF Owners
<1>4. \A g \in Handle \ {n} : Owners(t, g) = Owners(s, g)
  BY DEF Owners
<1>5. Cardinality(Owners(t, n)) = 1
  BY <1>3, FS_Singleton
<1>6. HandlesInv(t)
  <2> SUFFICES ASSUME NEW g \in Handle
               PROVE  /\ t.h[g].refcount = Cardinality(Owners(t, g))
                      /\ t.h[g].refcount = 0 => t.h[g] = NoHandle
                      /\ t.h[g].refcount # 0 => t.h[g].type # "INVALID"
                      /\ t.h[g].req # NULL => t.h[g].type = "FS_REQ"
    BY DEF HandlesInv
  <2>1. CASE g = n
    BY <2>1, <1>5
  <2>2. CASE g # n
    BY <2>2, <1>4 DEF HandlesInv
  <2> QED BY <2>1, <2>2
<1> QED BY <1>1, <1>2, <1>6

\* t is s with the first request accepted by the handler p, with the handle n.
Accepted(s, t, r, p, n) ==
    /\ t \in Kernel
    /\ t.handles[p] = s.handles[p] \cup {n}
    /\ \A i \in Proc \ {p} : t.handles[i] = s.handles[i]
    /\ t.h[n] = [type |-> "FS_REQ", req |-> r, refcount |-> 1]
    /\ \A g \in Handle \ {n} : t.h[g] = s.h[g]
    /\ \A i \in Proc : t.state[i] = IF i = p THEN "RUNNING" ELSE s.state[i]
    /\ t.req[r].st = "accepted" /\ t.req[r].op = s.req[r].op
    /\ t.req[r].caller = s.req[r].caller
    /\ \A i \in Req \ {r} : t.req[i] = s.req[i]
    /\ t.controlled = s.controlled /\ t.mount = s.mount
    /\ t.mrefs = s.mrefs /\ t.usehcnt = s.usehcnt
    /\ t.provhcnt = s.provhcnt /\ t.backend = s.backend
    /\ t.panic = s.panic
    /\ t.queue = Tail(s.queue) /\ t.handler = NULL

LEMMA AcceptFields ==
    ASSUME NEW s \in Kernel, NEW r \in Req, NEW p \in Proc, NEW n \in Handle,
           r = Head(s.queue), s.queue # <<>>, p = s.handler, n = NewHandle(s),
           s.req[r].op = "WRITE" => s.req[r].caller # NULL,
           ~TableFull(s, p)
    PROVE  Accepted(s, tryaccept(s), r, p, n)
<1> DEFINE next == [s EXCEPT !.queue = Tail(s.queue), !.handler = NULL,
                             !.req[r].st = "accepted", !.state[p] = "RUNNING"]
           new  == [type |-> "FS_REQ", req |-> r, refcount |-> 1]
           t    == [next EXCEPT !.h[n] = new, !.handles[p] = next.handles[p] \cup {n}]
<1>1. NewHandle(next) = n
  BY DEF NewHandle, FreeHandles
<1>2. tryaccept(s) = t
  BY <1>1, VfsAssumption DEF tryaccept, handle_init
<1>3. /\ s.handles \in [Proc -> SUBSET Handle]
      /\ s.h \in [Handle -> [type : {"INVALID", "FILE", "FS_FRONT", "FS_REQ"},
                             req : Req \cup {NULL}, refcount : Nat]]
      /\ s.req \in [Req -> [st : {"none", "queued", "accepted"}, op : Ops, caller : Proc \cup {NULL}]]
      /\ s.state \in [Proc -> {"NEW", "RUNNING", "WAITS4FS", "WAITS4REQUEST", "DEAD"}]
      /\ s.queue \in Seq(Req)
  BY DEF Kernel
<1> DEFINE hd == [s.handles EXCEPT ![p] = s.handles[p] \cup {n}]
           hh == [s.h EXCEPT ![n] = new]
           rq == [s.req EXCEPT ![r].st = "accepted"]
           st == [s.state EXCEPT ![p] = "RUNNING"]
<1>4. t = [s EXCEPT !.queue = Tail(s.queue), !.handler = NULL, !.req = rq, !.state = st,
                    !.h = hh, !.handles = hd]
  BY DEF Kernel
<1>5. /\ hd \in [Proc -> SUBSET Handle]
      /\ hh \in [Handle -> [type : {"INVALID", "FILE", "FS_FRONT", "FS_REQ"},
                             req : Req \cup {NULL}, refcount : Nat]]
      /\ rq \in [Req -> [st : {"none", "queued", "accepted"}, op : Ops, caller : Proc \cup {NULL}]]
      /\ st \in [Proc -> {"NEW", "RUNNING", "WAITS4FS", "WAITS4REQUEST", "DEAD"}]
      /\ Tail(s.queue) \in Seq(Req)
  <2>1. hd \in [Proc -> SUBSET Handle]
    BY <1>3
  <2>2. new \in [type : {"INVALID", "FILE", "FS_FRONT", "FS_REQ"}, req : Req \cup {NULL}, refcount : Nat]
    OBVIOUS
  <2>3. hh \in [Handle -> [type : {"INVALID", "FILE", "FS_FRONT", "FS_REQ"},
                           req : Req \cup {NULL}, refcount : Nat]]
    <3> HIDE DEF new
    <3> QED BY <1>3, <2>2
  <2>4. rq \in [Req -> [st : {"none", "queued", "accepted"}, op : Ops, caller : Proc \cup {NULL}]]
    BY <1>3
  <2>5. st \in [Proc -> {"NEW", "RUNNING", "WAITS4FS", "WAITS4REQUEST", "DEAD"}]
    BY <1>3
  <2>6. Tail(s.queue) \in Seq(Req)
    BY <1>3
  <2> QED BY <2>1, <2>3, <2>4, <2>5, <2>6
<1> HIDE DEF t, hd, hh, rq, st, next, new
<1>6. /\ t \in Kernel /\ t.handles = hd /\ t.h = hh /\ t.req = rq /\ t.state = st
      /\ t.controlled = s.controlled /\ t.mount = s.mount
      /\ t.mrefs = s.mrefs /\ t.usehcnt = s.usehcnt
      /\ t.provhcnt = s.provhcnt /\ t.backend = s.backend /\ t.panic = s.panic
      /\ t.queue = Tail(s.queue) /\ t.handler = NULL
  BY <1>4, <1>5 DEF Kernel
<1>7. /\ hd[p] = s.handles[p] \cup {n} /\ \A i \in Proc \ {p} : hd[i] = s.handles[i]
      /\ hh[n] = new /\ \A g \in Handle \ {n} : hh[g] = s.h[g]
      /\ \A i \in Proc : st[i] = IF i = p THEN "RUNNING" ELSE s.state[i]
      /\ rq[r].st = "accepted" /\ rq[r].op = s.req[r].op /\ rq[r].caller = s.req[r].caller
      /\ \A i \in Req \ {r} : rq[i] = s.req[i]
  BY <1>3 DEF hd, hh, st, rq
<1> QED BY <1>2, <1>6, <1>7 DEF new, Accepted

\* The rest of a queue whose elements are different.
LEMMA TailQueue ==
    ASSUME NEW q \in Seq(Req), q # <<>>, \A i, j \in DOMAIN q : q[i] = q[j] => i = j
    PROVE  /\ Head(q) \in Req /\ Head(q) = q[1] /\ 1 \in DOMAIN q
           /\ Tail(q) \in Seq(Req) /\ Len(q) \in Nat \ {0} /\ Len(Tail(q)) = Len(q) - 1
           /\ \A i \in DOMAIN Tail(q) : Tail(q)[i] \in Req /\ Tail(q)[i] # Head(q)
           /\ \A i \in DOMAIN Tail(q) : \E j \in DOMAIN q : Tail(q)[i] = q[j]
           /\ \A i, j \in DOMAIN Tail(q) : Tail(q)[i] = Tail(q)[j] => i = j
           /\ \A j \in DOMAIN q : q[j] = Head(q) \/ \E i \in DOMAIN Tail(q) : Tail(q)[i] = q[j]
<1>1. Len(q) \in Nat \ {0} /\ DOMAIN q = 1..Len(q) /\ Head(q) = q[1] /\ \A i \in 1..Len(q) : q[i] \in Req
  OBVIOUS
<1>2. /\ Tail(q) \in Seq(Req) /\ Len(Tail(q)) = Len(q) - 1
      /\ DOMAIN Tail(q) = 1..(Len(q) - 1)
      /\ \A i \in 1..(Len(q) - 1) : Tail(q)[i] = q[i + 1]
  OBVIOUS
<1>3. \A i \in DOMAIN Tail(q) : i \in Nat /\ i + 1 \in DOMAIN q /\ i + 1 # 1 /\ Tail(q)[i] = q[i + 1]
  BY <1>1, <1>2
<1>4. \A j \in DOMAIN q : j = 1 \/ (j - 1 \in DOMAIN Tail(q) /\ Tail(q)[j - 1] = q[j])
  BY <1>1, <1>2
<1>5. 1 \in DOMAIN q
  BY <1>1
<1>6. \A i, j \in DOMAIN Tail(q) : i + 1 = j + 1 => i = j
  BY <1>3
<1>7. \A i \in DOMAIN Tail(q) : Tail(q)[i] \in Req /\ Tail(q)[i] # Head(q)
  BY <1>1, <1>3, <1>5
<1>8. \A i \in DOMAIN Tail(q) : \E j \in DOMAIN q : Tail(q)[i] = q[j]
  BY <1>3
<1>9. \A i, j \in DOMAIN Tail(q) : Tail(q)[i] = Tail(q)[j] => i = j
  BY <1>3, <1>6
<1>10. \A j \in DOMAIN q : q[j] = Head(q) \/ \E i \in DOMAIN Tail(q) : Tail(q)[i] = q[j]
  BY <1>1, <1>4
<1> QED BY <1>1, <1>2, <1>5, <1>7, <1>8, <1>9, <1>10

LEMMA TryAccept ==
    ASSUME NEW s, NEW d, NEW x, NEW l, NEW hs, Good(s, s.queue, d, x, l, hs), Fits(s)
    PROVE  /\ Good(tryaccept(s), tryaccept(s).queue, d, x, l, hs) /\ Fits(tryaccept(s))
           /\ tryaccept(s).handler = NULL \/ tryaccept(s).queue = <<>>
           /\ Frame(s, tryaccept(s)) /\ tryaccept(s).usehcnt = s.usehcnt
           /\ OpenCount(tryaccept(s)) = OpenCount(s)
           /\ ReqsKept(s, tryaccept(s), l)
<1>1. /\ s \in Kernel /\ s.panic = "none"
      /\ HandlesInv(s) /\ DeadInv(s) /\ CountInv(s, d) /\ ReqInv(s, x)
      /\ QueueInv(s, s.queue, l) /\ AcceptInv(s, l, hs) /\ HandlerInv(s, x)
  BY DEF Good
<1>2. CASE s.queue = <<>> \/ s.handler = NULL
  <2>1. tryaccept(s) = s
    BY <1>2 DEF tryaccept
  <2> QED BY <1>2, <2>1 DEF Frame, ReqsKept
<1>3. CASE s.queue # <<>> /\ s.handler # NULL
  <2>1. s.queue \in Seq(Req) /\ s.handler \in Proc
    BY <1>1, <1>3 DEF Kernel
  <2>2. PICK r : r = Head(s.queue)
    OBVIOUS
  <2>3. PICK p \in Proc : p = s.handler
    BY <2>1
  <2>4. PICK n \in Handle : n = NewHandle(s) /\ s.h[n].refcount = 0
    BY <1>1, NewHandleFree
  <2>5. PICK q : q = Tail(s.queue)
    OBVIOUS
  <2>6. /\ r \in Req /\ s.queue[1] = r /\ 1 \in DOMAIN s.queue
        /\ q \in Seq(Req)
        /\ \A i \in DOMAIN q : q[i] \in Req /\ q[i] # r
        /\ \A i \in DOMAIN q : \E j \in DOMAIN s.queue : q[i] = s.queue[j]
        /\ \A i, j \in DOMAIN q : q[i] = q[j] => i = j
        /\ \A j \in DOMAIN s.queue : s.queue[j] = r \/ \E i \in DOMAIN q : q[i] = s.queue[j]
    <3>1. \A i, j \in DOMAIN s.queue : s.queue[i] = s.queue[j] => i = j
      BY <1>1 DEF QueueInv
    <3>2. PICK sq : sq = s.queue
      OBVIOUS
    <3>3. sq \in Seq(Req) /\ sq # <<>> /\ \A i, j \in DOMAIN sq : sq[i] = sq[j] => i = j
      BY <1>3, <2>1, <3>1, <3>2
    <3>4. /\ Head(sq) \in Req /\ Head(sq) = sq[1] /\ 1 \in DOMAIN sq
          /\ Tail(sq) \in Seq(Req)
          /\ \A i \in DOMAIN Tail(sq) : Tail(sq)[i] \in Req /\ Tail(sq)[i] # Head(sq)
          /\ \A i \in DOMAIN Tail(sq) : \E j \in DOMAIN sq : Tail(sq)[i] = sq[j]
          /\ \A i, j \in DOMAIN Tail(sq) : Tail(sq)[i] = Tail(sq)[j] => i = j
          /\ \A j \in DOMAIN sq : sq[j] = Head(sq) \/ \E i \in DOMAIN Tail(sq) : Tail(sq)[i] = sq[j]
      BY <3>3, TailQueue
    <3> QED BY <3>2, <3>4, <2>2, <2>5
  <2>7. s.req[r].st = "queued" /\ r # l
    BY <1>1, <2>6 DEF QueueInv
  <2>8. s.state[p] = "WAITS4REQUEST" /\ Cardinality(s.handles[p]) < HANDLE_MAX
        /\ s.handles[p] \in SUBSET Handle
    BY <1>1, <1>3, <2>3 DEF HandlerInv, Kernel
  <2>9. ~TableFull(s, p)
    <3>1. Cardinality(s.handles[p]) \in Nat
      BY <2>8, FiniteSets
    <3> QED BY <2>8, <3>1, VfsAssumption DEF TableFull
  <2>10. s.req[r].op = "WRITE" => s.req[r].caller # NULL
    BY <1>1, <2>6, <2>7 DEF ReqInv
  <2>11. PICK t : t = tryaccept(s)
    OBVIOUS
  <2>12. /\ t \in Kernel
         /\ t.handles[p] = s.handles[p] \cup {n}
         /\ \A i \in Proc \ {p} : t.handles[i] = s.handles[i]
         /\ t.h[n] = [type |-> "FS_REQ", req |-> r, refcount |-> 1]
         /\ \A g \in Handle \ {n} : t.h[g] = s.h[g]
         /\ \A i \in Proc : t.state[i] = IF i = p THEN "RUNNING" ELSE s.state[i]
         /\ t.req[r].st = "accepted" /\ t.req[r].op = s.req[r].op
         /\ t.req[r].caller = s.req[r].caller
         /\ \A i \in Req \ {r} : t.req[i] = s.req[i]
         /\ t.controlled = s.controlled /\ t.mount = s.mount
         /\ t.mrefs = s.mrefs /\ t.usehcnt = s.usehcnt
         /\ t.provhcnt = s.provhcnt /\ t.backend = s.backend
         /\ t.panic = s.panic
         /\ t.queue = q /\ t.handler = NULL
    <3>1. s \in Kernel /\ s.queue # <<>> /\ r \in Req
      BY <1>1, <1>3, <2>6
    <3>2. r = Head(s.queue) /\ p = s.handler /\ n = NewHandle(s)
      BY <2>2, <2>3, <2>4
    <3>3. Accepted(s, t, r, p, n)
      BY <3>1, <3>2, <2>9, <2>10, <2>11, AcceptFields
    <3> QED BY <3>3, <2>5 DEF Accepted
  <2>13. HandlesInv(t) /\ s.h[n] = NoHandle /\ \A i \in Proc : n \notin s.handles[i]
    <3>1. s \in Kernel /\ HandlesInv(s)
      BY <1>1
    <3>2. /\ t.h[n].refcount = 1 /\ t.h[n].type = "FS_REQ"
          /\ \A g \in Handle \ {n} : t.h[g] = s.h[g]
          /\ t.handles[p] = s.handles[p] \cup {n}
          /\ \A i \in Proc \ {p} : t.handles[i] = s.handles[i]
      BY <2>12
    <3> QED BY <2>4, <3>1, <3>2, PutHandle
  <2>14. \A i \in Req : /\ t.req[i].caller = s.req[i].caller /\ t.req[i].op = s.req[i].op
                        /\ t.req[i].st = IF i = r THEN "accepted" ELSE s.req[i].st
                        /\ i # r => t.req[i] = s.req[i]
    BY <2>12
  <2>15. DeadInv(t)
    BY <1>1, <2>8, <2>12 DEF DeadInv, Alive
  <2>16. CountInv(t, d)
    <3>1. Mounts(t) = Mounts(s) /\ Providers(t) = Providers(s) /\ \A m : MountedAt(t, m) = MountedAt(s, m)
      BY <2>12 DEF Mounts, Providers, MountedAt
    <3>2. UseHandles(t) = UseHandles(s)
      BY <2>12, <2>13 DEF UseHandles, NoHandle
    <3>3. Busy(t) = Busy(s)
      BY <2>7, <2>14 DEF Busy
    <3> QED BY <1>1, <2>12, <3>1, <3>2, <3>3 DEF CountInv
  <2>17. ReqInv(t, x)
    <3>1. \A i \in Req : t.req[i].st = "none" => t.req[i] = NoReq
      BY <1>1, <2>14 DEF ReqInv
    <3>2. \A i \in Req : t.req[i].caller # NULL => t.req[i].caller = i
      BY <1>1, <2>14 DEF ReqInv
    <3>3. \A i \in Proc : t.req[i].caller = i => t.state[i] = "WAITS4FS"
      BY <1>1, <2>8, <2>12, <2>14 DEF ReqInv, Req
    <3>4. \A i \in Proc \ {x} : t.state[i] = "WAITS4FS" => t.req[i].caller = i
      BY <1>1, <2>12, <2>14 DEF ReqInv, Req
    <3>5. \A i \in Proc \ {x} : t.req[i].st # "none" /\ t.req[i].caller = NULL => t.state[i] = "DEAD"
      <4> SUFFICES ASSUME NEW i \in Proc \ {x}, t.req[i].st # "none", t.req[i].caller = NULL
                   PROVE  t.state[i] = "DEAD"
        OBVIOUS
      <4>1. s.req[i].st # "none" /\ s.req[i].caller = NULL
        BY <2>7, <2>14 DEF Req
      <4>2. s.state[i] = "DEAD"
        BY <1>1, <4>1 DEF ReqInv
      <4> QED BY <2>8, <2>12, <4>2
    <3>6. \A i \in Req : t.req[i].caller = NULL =>
              /\ t.req[i].op \notin {"OPEN", "READ"}
              /\ t.req[i].op = "WRITE" => t.req[i].st = "accepted"
      BY <1>1, <2>14 DEF ReqInv
    <3> QED BY <3>1, <3>2, <3>3, <3>4, <3>5, <3>6 DEF ReqInv
  <2>18. QueueInv(t, q, l)
    <3>1. \A i \in DOMAIN q : s.req[q[i]].st = "queued" /\ q[i] # l
      BY <1>1, <2>6 DEF QueueInv
    <3>2. \A i \in DOMAIN q : t.req[q[i]].st = "queued"
      BY <3>1, <2>6, <2>14
    <3>3. ASSUME NEW i \in Req \ {l}, t.req[i].st = "queued"
          PROVE  \E j \in DOMAIN q : q[j] = i
      <4>1. i # r /\ s.req[i].st = "queued"
        BY <3>3, <2>14
      <4>2. PICK j \in DOMAIN s.queue : s.queue[j] = i
        BY <4>1, <1>1 DEF QueueInv
      <4> QED BY <4>1, <4>2, <2>6
    <3> QED BY <2>6, <3>1, <3>2, <3>3 DEF QueueInv
  <2>19. AcceptInv(t, l, hs)
    <3>1. \A i \in Req \ {r} : HandlesOf(t, i) = HandlesOf(s, i)
      <4>1. \A g \in Handle, i \in Req \ {r} : t.h[g].req = i <=> s.h[g].req = i
        <5> SUFFICES ASSUME NEW g \in Handle, NEW i \in Req \ {r} PROVE t.h[g].req = i <=> s.h[g].req = i
          OBVIOUS
        <5>1. i # NULL
          BY VfsAssumption DEF Req, CloseReq
        <5> QED BY <5>1, <2>12, <2>13 DEF NoHandle
      <4> QED BY <4>1 DEF HandlesOf
    <3>2. HandlesOf(s, r) = {}
      BY <1>1, <2>6, <2>7 DEF AcceptInv
    <3>3. HandlesOf(t, r) = {n}
      BY <2>12, <3>2 DEF HandlesOf
    <3> QED BY <1>1, <2>6, <2>7, <2>14, <3>1, <3>3 DEF AcceptInv
  <2>20. HandlerInv(t, x)
    BY <1>1, <2>3, <2>12 DEF HandlerInv
  <2>21. Good(t, t.queue, d, x, l, hs)
    BY <1>1, <2>12, <2>13, <2>15, <2>16, <2>17, <2>18, <2>19, <2>20 DEF Good
  <2>22. Fits(t)
    <3>1. Cardinality(t.handles[p]) <= HANDLE_MAX
      <4>1. IsFiniteSet(s.handles[p]) /\ Cardinality(s.handles[p]) \in Nat
        BY <2>8, FiniteSets
      <4>2. Cardinality(s.handles[p] \cup {n}) = Cardinality(s.handles[p]) + 1
        BY <4>1, <2>13, OneMore
      <4> QED BY <4>1, <4>2, <2>8, <2>12, VfsAssumption
    <3> QED BY <2>12, <3>1 DEF Fits
  <2>23. Frame(s, t)
    <3>1. \A g \in Handle : s.h[g].refcount # 0 => t.h[g] = s.h[g]
      BY <2>12, <2>4
    <3>2. \A i \in Proc : s.state[i] # "WAITS4REQUEST" => t.handles[i] = s.handles[i]
      BY <2>8, <2>12
    <3>3. \A i \in Proc : \/ t.state[i] = s.state[i]
                          \/ s.state[i] \in {"WAITS4FS", "WAITS4REQUEST"} /\ t.state[i] = "RUNNING"
      BY <2>8, <2>12
    <3> QED BY <2>12, <2>14, <3>1, <3>2, <3>3 DEF Frame
  <2>24. OpenCount(t) = OpenCount(s)
    <3>1. Files(t) = Files(s)
      BY <2>12, <2>13 DEF Files, NoHandle
    <3>2. Closing(t) = Closing(s) /\ Opening(t) = Opening(s)
      BY <2>7, <2>14 DEF Closing, Opening, Req
    <3> QED BY <3>1, <3>2 DEF OpenCount
  <2>25. ReqsKept(s, t, l)
    BY <2>7, <2>14 DEF ReqsKept
  <2> QED BY <2>11, <2>12, <2>21, <2>22, <2>23, <2>24, <2>25
<1> QED BY <1>2, <1>3

-----------------------------------------------------------------------------
(* vfsreq_create. *)

\* A use that is about to be given back is the last one only if no request is
\* in the queue.
LEMMA NoQueue ==
    ASSUME NEW s, NEW d, NEW x, NEW l, NEW hs, Good(s, s.queue, d, x, l, hs), s.usehcnt = 1,
           d = 1 \/ (d = 0 /\ l \in Busy(s))
    PROVE  s.queue = <<>>
<1>1. s \in Kernel /\ CountInv(s, d) /\ QueueInv(s, s.queue, l)
  BY DEF Good
<1> SUFFICES ASSUME s.queue # <<>> PROVE FALSE
  OBVIOUS
<1>2. s.queue \in Seq(Req) /\ 1 \in DOMAIN s.queue
  BY <1>1 DEF Kernel
<1>3. PICK r : r = s.queue[1]
  OBVIOUS
<1>4. r \in Busy(s) /\ r # l
  BY <1>1, <1>2, <1>3 DEF QueueInv, Busy
<1>5. Cardinality(Busy(s)) > 0
  BY <1>4, FiniteUses, OneMore
<1>6. s.usehcnt = Cardinality(UseHandles(s)) + Cardinality(Mounts(s)) + Cardinality(Busy(s)) + d
  BY <1>1 DEF CountInv
<1>7. CASE d = 1
  BY <1>5, <1>6, <1>7, FiniteUses
<1>8. CASE d = 0 /\ l \in Busy(s)
  <2>1. Cardinality(Busy(s)) = 1
    BY <1>5, <1>6, <1>8, FiniteUses
  <2>2. \E y : Busy(s) = {y}
    BY <2>1, FiniteUses, FS_Singleton
  <2> QED BY <2>2, <1>4, <1>8
<1> QED BY <1>7, <1>8

\* t is s with the request r of p, which is in nobody's hands yet.
Made(s, t, r, op, p) ==
    /\ t \in Kernel
    /\ t.req[r] = [st |-> "queued", op |-> op, caller |-> p]
    /\ \A i \in Req \ {r} : t.req[i] = s.req[i]
    /\ \A i \in Proc : t.state[i] = IF i = p THEN "WAITS4FS" ELSE s.state[i]
    /\ t.usehcnt = s.usehcnt + 1
    /\ t.handles = s.handles /\ t.h = s.h /\ t.controlled = s.controlled /\ t.mount = s.mount
    /\ t.mrefs = s.mrefs /\ t.provhcnt = s.provhcnt /\ t.backend = s.backend
    /\ t.panic = s.panic /\ t.handler = s.handler

made(s, r, op, p) ==
    [s EXCEPT !.req[r] = [st |-> "queued", op |-> op, caller |-> p],
              !.state = IF p = NULL THEN @ ELSE [@ EXCEPT ![p] = "WAITS4FS"],
              !.usehcnt = @ + 1]

sent(s, r, op, p) == [made(s, r, op, p) EXCEPT !.queue = Append(@, r)]

LEMMA MadeFields ==
    ASSUME NEW s \in Kernel, NEW r \in Req, NEW op \in Ops, NEW p \in Proc \cup {NULL}
    PROVE  /\ Made(s, made(s, r, op, p), r, op, p)
           /\ made(s, r, op, p).queue = s.queue
           /\ Made(s, sent(s, r, op, p), r, op, p)
           /\ sent(s, r, op, p).queue = Append(s.queue, r)
<1> DEFINE rq == [s.req EXCEPT ![r] = [st |-> "queued", op |-> op, caller |-> p]]
           st == IF p = NULL THEN s.state ELSE [s.state EXCEPT ![p] = "WAITS4FS"]
           q  == Append(s.queue, r)
<1>1. /\ s.req \in [Req -> [st : {"none", "queued", "accepted"}, op : Ops, caller : Proc \cup {NULL}]]
      /\ s.state \in [Proc -> {"NEW", "RUNNING", "WAITS4FS", "WAITS4REQUEST", "DEAD"}]
      /\ s.queue \in Seq(Req) /\ s.usehcnt \in Nat
  BY DEF Kernel
<1>2. /\ rq \in [Req -> [st : {"none", "queued", "accepted"}, op : Ops, caller : Proc \cup {NULL}]]
      /\ st \in [Proc -> {"NEW", "RUNNING", "WAITS4FS", "WAITS4REQUEST", "DEAD"}]
      /\ q \in Seq(Req) /\ s.usehcnt + 1 \in Nat
  BY <1>1
<1>3. /\ rq[r] = [st |-> "queued", op |-> op, caller |-> p]
      /\ \A i \in Req \ {r} : rq[i] = s.req[i]
      /\ \A i \in Proc : st[i] = IF i = p THEN "WAITS4FS" ELSE s.state[i]
  BY <1>1, VfsAssumption
<1>4. made(s, r, op, p) = [s EXCEPT !.req = rq, !.state = st, !.usehcnt = s.usehcnt + 1]
  BY DEF made
<1>5. sent(s, r, op, p)
        = [s EXCEPT !.req = rq, !.state = st, !.usehcnt = s.usehcnt + 1, !.queue = q]
  BY DEF made, sent
<1> HIDE DEF rq, st, q
<1>6. Made(s, made(s, r, op, p), r, op, p) /\ made(s, r, op, p).queue = s.queue
  <2>1. PICK e : e = made(s, r, op, p)
    OBVIOUS
  <2>2. e = [s EXCEPT !.req = rq, !.state = st, !.usehcnt = s.usehcnt + 1]
    BY ONLY <1>4, <2>1
  <2>3. e \in Kernel
    BY ONLY s \in Kernel, <2>2, <1>2 DEF Kernel
  <2>4. /\ e.req = rq /\ e.state = st /\ e.usehcnt = s.usehcnt + 1 /\ e.queue = s.queue
        /\ e.handles = s.handles /\ e.h = s.h /\ e.controlled = s.controlled /\ e.mount = s.mount
        /\ e.mrefs = s.mrefs /\ e.provhcnt = s.provhcnt /\ e.backend = s.backend
        /\ e.panic = s.panic /\ e.handler = s.handler
    BY ONLY s \in Kernel, <2>2 DEF Kernel
  <2> QED BY ONLY <2>1, <2>3, <2>4, <1>3 DEF Made
<1>7. Made(s, sent(s, r, op, p), r, op, p) /\ sent(s, r, op, p).queue = q
  <2>1. PICK e : e = sent(s, r, op, p)
    OBVIOUS
  <2>2. e \in Kernel
    <3>1. e = [s EXCEPT !.req = rq, !.state = st, !.usehcnt = s.usehcnt + 1, !.queue = q]
      BY ONLY <1>5, <2>1
    <3> QED BY ONLY s \in Kernel, <3>1, <1>2 DEF Kernel
  <2>3. /\ e.req = rq /\ e.state = st /\ e.usehcnt = s.usehcnt + 1 /\ e.queue = q
        /\ e.handles = s.handles /\ e.h = s.h /\ e.controlled = s.controlled /\ e.mount = s.mount
        /\ e.mrefs = s.mrefs /\ e.provhcnt = s.provhcnt /\ e.backend = s.backend
        /\ e.panic = s.panic /\ e.handler = s.handler
    BY <2>1, <1>5 DEF Kernel
  <2> QED BY <2>1, <2>2, <2>3, <1>3 DEF Made
<1> QED BY <1>6, <1>7 DEF q

\* A request fails at once if the backend is an orphan: nothing changes.
LEMMA CreateOrphan ==
    ASSUME NEW s \in Kernel, s.panic = "none", s.backend = "live", s.usehcnt > 0, s.provhcnt = 0,
           NEW r \in Req, s.req[r] = NoReq, NEW op \in Ops, NEW p \in Proc \cup {NULL},
           p # NULL => s.state[p] = "RUNNING"
    PROVE  vfsreq_create(s, r, op, p) = s
<1>1. PICK m : m = made(s, r, op, p)
  OBVIOUS
<1>2. Made(s, m, r, op, p) /\ m.queue = s.queue
  BY <1>1, MadeFields
<1>3. PICK d : d = refdown_use(m)
  OBVIOUS
<1>4. s.usehcnt \in Nat /\ m.usehcnt # 1 /\ m.usehcnt > 0 /\ m.usehcnt - 1 = s.usehcnt
  <2>1. s.usehcnt \in Nat
    BY DEF Kernel
  <2>2. m.usehcnt = s.usehcnt + 1
    BY <1>2 DEF Made
  <2> QED BY <2>1, <2>2
<1>5. /\ d \in Kernel
      /\ d.handles = m.handles /\ d.controlled = m.controlled
      /\ d.mount = m.mount /\ d.mrefs = m.mrefs
      /\ d.h = m.h /\ d.req = m.req
      /\ d.usehcnt = m.usehcnt - 1 /\ d.provhcnt = m.provhcnt
      /\ d.queue = m.queue /\ d.panic = "none"
      /\ d.backend = "live" /\ d.handler = m.handler /\ d.state = m.state
  <2>1. m \in Kernel /\ m.panic = "none" /\ m.backend = "live"
    BY <1>2 DEF Made
  <2> QED BY <2>1, <1>3, <1>4, RefdownFields
<1>6. PICK f : f = cleared(d, r)
  OBVIOUS
<1>7. m.req[r].caller = p /\ (p # NULL => m.state[p] = "WAITS4FS")
  BY <1>2 DEF Made
<1>8. finish(m, r) = f
  BY <1>3, <1>5, <1>6, <1>7, FinishCleared
<1>9. /\ f \in Kernel
      /\ f.handles = d.handles /\ f.controlled = d.controlled
      /\ f.mount = d.mount /\ f.mrefs = d.mrefs
      /\ f.h = d.h
      /\ f.req = [d.req EXCEPT ![r] = NoReq]
      /\ f.usehcnt = d.usehcnt /\ f.provhcnt = d.provhcnt
      /\ f.queue = d.queue /\ f.panic = d.panic
      /\ f.backend = d.backend /\ f.handler = d.handler
      /\ \A i \in Proc : f.state[i] = IF i = d.req[r].caller THEN "RUNNING" ELSE d.state[i]
  BY <1>5, <1>6, ClearedFields
<1>10. f.req = s.req
  <2>1. /\ f.req \in [Req -> [st : {"none", "queued", "accepted"}, op : Ops, caller : Proc \cup {NULL}]]
        /\ s.req \in [Req -> [st : {"none", "queued", "accepted"}, op : Ops, caller : Proc \cup {NULL}]]
        /\ d.req \in [Req -> [st : {"none", "queued", "accepted"}, op : Ops, caller : Proc \cup {NULL}]]
    BY <1>5, <1>9 DEF Kernel
  <2>2. \A i \in Req : f.req[i] = IF i = r THEN NoReq ELSE d.req[i]
    BY <1>9, <2>1
  <2>3. \A i \in Req : f.req[i] = s.req[i]
    BY <2>2, <1>2, <1>5 DEF Made
  <2> QED BY <2>1, <2>3
<1>11. \A i \in Proc : f.state[i] = s.state[i]
  <2>1. \A i \in Proc : m.state[i] = IF i = p THEN "WAITS4FS" ELSE s.state[i]
    BY <1>2 DEF Made
  <2>2. d.req[r].caller = p
    BY <1>5, <1>7
  <2>3. \A i \in Proc : f.state[i] = IF i = p THEN "RUNNING" ELSE m.state[i]
    BY <1>5, <1>9, <2>2
  <2> QED BY <2>1, <2>3, VfsAssumption
<1>12. f = s
  <2>1. /\ f.handles = s.handles /\ f.controlled = s.controlled
        /\ f.mount = s.mount /\ f.mrefs = s.mrefs
        /\ f.h = s.h /\ f.usehcnt = s.usehcnt /\ f.provhcnt = s.provhcnt
        /\ f.queue = s.queue /\ f.panic = s.panic
        /\ f.backend = s.backend /\ f.handler = s.handler
    BY <1>2, <1>4, <1>5, <1>9 DEF Made
  <2> QED BY <1>9, <1>10, <1>11, <2>1, KernelEq
<1>13. vfsreq_create(s, r, op, p) = finish(m, r)
  BY <1>1 DEF vfsreq_create, made, Check
<1> QED BY <1>8, <1>12, <1>13

\* Who may make the request r: the process whose slot it is in, when it runs, or
\* the kernel, to close a file.
MayMake(s, r, op, p, x) ==
    \/ p \in Proc /\ p = r /\ s.state[p] = "RUNNING" /\ p # x /\ op \in Ops
    \/ p = NULL /\ r \in CloseReq /\ op = "CLOSE"

LEMMA AppendQueue ==
    ASSUME NEW q \in Seq(Req), NEW r \in Req
    PROVE  /\ Append(q, r) \in Seq(Req)
           /\ \A i \in DOMAIN Append(q, r) : \/ i \in DOMAIN q /\ Append(q, r)[i] = q[i]
                                             \/ i = Len(q) + 1 /\ Append(q, r)[i] = r
           /\ \A i \in DOMAIN q : i \in DOMAIN Append(q, r) /\ Append(q, r)[i] = q[i]
           /\ Len(q) + 1 \in DOMAIN Append(q, r) /\ Append(q, r)[Len(q) + 1] = r
           /\ Append(q, r) # <<>>
  OBVIOUS

LEMMA GoodMade ==
    ASSUME NEW s, NEW q, NEW d \in Nat, NEW x, NEW l, NEW hs, Good(s, q, d, x, l, hs), s.usehcnt > 0,
           NEW r \in Req, s.req[r] = NoReq, r # l, NEW op, NEW p, MayMake(s, r, op, p, x),
           NEW t, Made(s, t, r, op, p)
    PROVE  Good(t, Append(q, r), d, x, l, hs)
<1>1. /\ s \in Kernel /\ s.panic = "none"
      /\ HandlesInv(s) /\ DeadInv(s) /\ CountInv(s, d) /\ ReqInv(s, x)
      /\ QueueInv(s, q, l) /\ AcceptInv(s, l, hs) /\ HandlerInv(s, x)
  BY DEF Good
<1>2. /\ t \in Kernel
      /\ t.req[r] = [st |-> "queued", op |-> op, caller |-> p]
      /\ \A i \in Req \ {r} : t.req[i] = s.req[i]
      /\ \A i \in Proc : t.state[i] = IF i = p THEN "WAITS4FS" ELSE s.state[i]
      /\ t.usehcnt = s.usehcnt + 1
      /\ t.handles = s.handles /\ t.h = s.h /\ t.controlled = s.controlled /\ t.mount = s.mount
      /\ t.mrefs = s.mrefs /\ t.provhcnt = s.provhcnt /\ t.backend = s.backend
      /\ t.panic = s.panic /\ t.handler = s.handler
  BY DEF Made
<1>3. HandlesInv(t)
  BY <1>1, <1>2 DEF HandlesInv, Owners
<1>4. \A i \in Proc : \/ t.state[i] = s.state[i] /\ i # p
                      \/ i = p /\ i = r /\ i # x /\ t.state[i] = "WAITS4FS" /\ s.state[i] = "RUNNING"
  BY <1>2, VfsAssumption DEF MayMake
<1>5. DeadInv(t)
  BY <1>1, <1>2, <1>4 DEF DeadInv, Alive
<1>6. CountInv(t, d)
  <2>1. /\ UseHandles(t) = UseHandles(s) /\ Mounts(t) = Mounts(s)
        /\ Providers(t) = Providers(s) /\ \A m : MountedAt(t, m) = MountedAt(s, m)
    BY <1>2 DEF UseHandles, Mounts, Providers, MountedAt
  <2>2. Busy(t) = Busy(s) \cup {r} /\ r \notin Busy(s)
    BY <1>2 DEF Busy, NoReq
  <2>3. Cardinality(Busy(t)) = Cardinality(Busy(s)) + 1
    BY <2>2, OneMore, FiniteUses
  <2>4. s.usehcnt = Cardinality(UseHandles(s)) + Cardinality(Mounts(s)) + Cardinality(Busy(s)) + d
        /\ s.usehcnt \in Nat
    BY <1>1 DEF CountInv, Kernel
  <2>5. t.usehcnt = Cardinality(UseHandles(t)) + Cardinality(Mounts(t)) + (Cardinality(Busy(s)) + 1) + d
    <3> DEFINE a == Cardinality(UseHandles(s))
               b == Cardinality(Mounts(s))
               c == Cardinality(Busy(s))
    <3>1. a \in Nat /\ b \in Nat /\ c \in Nat
      BY FiniteUses
    <3>2. s.usehcnt = a + b + c + d /\ s.usehcnt \in Nat
      BY <2>4
    <3> HIDE DEF a, b, c
    <3>3. s.usehcnt + 1 = a + b + (c + 1) + d
      BY <3>1, <3>2
    <3> QED BY <3>3, <1>2, <2>1 DEF a, b, c
  <2>6. t.usehcnt > 0 /\ s.backend = "live"
    BY <1>1, <1>2, <2>4 DEF CountInv
  <2> QED BY <1>1, <1>2, <2>1, <2>3, <2>5, <2>6 DEF CountInv
<1>7. ReqInv(t, x)
  <2>1. \A i \in Req : t.req[i].st = "none" => t.req[i] = NoReq
    BY <1>1, <1>2 DEF ReqInv
  <2>2. \A i \in Req : t.req[i].caller # NULL => t.req[i].caller = i
    BY <1>1, <1>2 DEF ReqInv, MayMake
  <2>3. \A i \in Proc : t.req[i].caller = i => t.state[i] = "WAITS4FS"
    BY <1>1, <1>2, <1>4 DEF ReqInv, Req
  <2>4. \A i \in Proc \ {x} : t.state[i] = "WAITS4FS" => t.req[i].caller = i
    <3> SUFFICES ASSUME NEW i \in Proc \ {x}, t.state[i] = "WAITS4FS", i # p
                 PROVE  t.req[i].caller = i
      BY <1>2, <1>4
    <3>1. s.req[i].caller = i
      BY <1>1, <1>4 DEF ReqInv
    <3>2. i # r
      BY <3>1, VfsAssumption DEF NoReq
    <3> QED BY <1>2, <3>1, <3>2 DEF Req
  <2>5. \A i \in Proc \ {x} : t.req[i].st # "none" /\ t.req[i].caller = NULL => t.state[i] = "DEAD"
    <3> SUFFICES ASSUME NEW i \in Proc \ {x}, t.req[i].st # "none", t.req[i].caller = NULL
                 PROVE  t.state[i] = "DEAD"
      OBVIOUS
    <3>1. r = i => p # NULL
      BY VfsAssumption DEF MayMake, CloseReq
    <3>2. r # i
      BY <1>2, <3>1
    <3>3. t.req[i] = s.req[i] /\ s.state[i] = "DEAD"
      BY <1>1, <1>2, <3>2 DEF ReqInv, Req
    <3> QED BY <3>3, <1>4
  <2>6. \A i \in Req : t.req[i].caller = NULL =>
            /\ t.req[i].op \notin {"OPEN", "READ"}
            /\ t.req[i].op = "WRITE" => t.req[i].st = "accepted"
    BY <1>1, <1>2, VfsAssumption DEF ReqInv, MayMake
  <2> QED BY <2>1, <2>2, <2>3, <2>4, <2>5, <2>6 DEF ReqInv
<1>8. QueueInv(t, Append(q, r), l)
  <2>1. PICK a : a = Append(q, r)
    OBVIOUS
  <2>2. q \in Seq(Req)
    BY <1>1 DEF QueueInv
  <2>3. PICK n : n = Len(q) + 1
    OBVIOUS
  <2>4. /\ a \in Seq(Req)
        /\ \A i \in DOMAIN a : (i \in DOMAIN q /\ a[i] = q[i]) \/ (i = n /\ a[i] = r)
        /\ \A i \in DOMAIN q : i \in DOMAIN a /\ a[i] = q[i]
        /\ n \in DOMAIN a /\ a[n] = r
    BY <2>1, <2>2, <2>3, AppendQueue
  <2>5. \A i \in DOMAIN q : q[i] \in Req /\ q[i] # r /\ q[i] # l /\ s.req[q[i]].st = "queued"
    BY <1>1, <2>2 DEF QueueInv, NoReq
  <2>6. \A i \in DOMAIN a : t.req[a[i]].st = "queued" /\ a[i] # l
    BY <1>2, <2>4, <2>5
  <2>7. \A i, j \in DOMAIN a : a[i] = a[j] => i = j
    BY <1>1, <2>4, <2>5 DEF QueueInv
  <2>8. \A i \in Req \ {l} : t.req[i].st = "queued" => \E j \in DOMAIN a : a[j] = i
    <3> SUFFICES ASSUME NEW i \in Req \ {l}, t.req[i].st = "queued", i # r
                 PROVE  \E j \in DOMAIN a : a[j] = i
      BY <2>4
    <3>1. s.req[i].st = "queued"
      BY <1>2
    <3>2. PICK j \in DOMAIN q : q[j] = i
      BY <3>1, <1>1 DEF QueueInv
    <3> QED BY <3>2, <2>4
  <2> QED BY <2>1, <2>4, <2>6, <2>7, <2>8 DEF QueueInv
<1>9. AcceptInv(t, l, hs)
  <2>1. \A i \in Req : HandlesOf(t, i) = HandlesOf(s, i)
    BY <1>2 DEF HandlesOf
  <2>2. HandlesOf(s, r) = {}
    BY <1>1 DEF AcceptInv, NoReq
  <2> QED BY <1>1, <1>2, <2>1, <2>2 DEF AcceptInv
<1>10. HandlerInv(t, x)
  <2>1. s.handler \in Proc \cup {NULL} /\ s.usehcnt \in Nat
    BY <1>1 DEF Kernel
  <2> QED BY <1>1, <1>2, <1>4, <2>1 DEF HandlerInv
<1> QED BY <1>1, <1>2, <1>3, <1>5, <1>6, <1>7, <1>8, <1>9, <1>10 DEF Good

\* What a request of p leaves alone.
CallFrame(s, t, p) ==
    /\ t.controlled = s.controlled /\ t.mount = s.mount /\ t.mrefs = s.mrefs
    /\ t.provhcnt = s.provhcnt
    /\ \A i \in Proc \ {p} : \/ t.state[i] = s.state[i]
                             \/ s.state[i] \in {"WAITS4FS", "WAITS4REQUEST"} /\ t.state[i] = "RUNNING"
    /\ p \in Proc => t.state[p] \in {"RUNNING", "WAITS4FS"}
    /\ \A i \in Proc : s.state[i] # "WAITS4REQUEST" => t.handles[i] = s.handles[i]
    /\ \A g \in Handle : s.h[g].refcount # 0 => t.h[g] = s.h[g]
    /\ \A i \in Req \ {p} : t.req[i].caller \in {s.req[i].caller, NULL}

LEMMA MadeOpens ==
    ASSUME NEW s, NEW t, NEW x, NEW r \in Req, s.req[r] = NoReq, NEW op, NEW p,
           MayMake(s, r, op, p, x), Made(s, t, r, op, p)
    PROVE  /\ OpenCount(t) <= OpenCount(s) + 1
           /\ op \notin {"OPEN", "CLOSE"} => OpenCount(t) <= OpenCount(s)
<1>1. /\ t.req[r] = [st |-> "queued", op |-> op, caller |-> p]
      /\ \A i \in Req \ {r} : t.req[i] = s.req[i]
      /\ t.h = s.h
  BY DEF Made
<1>2. Files(t) = Files(s)
  BY <1>1 DEF Files
<1>3. Proc \cap CloseReq = {}
  BY VfsAssumption DEF CloseReq
<1>4. CASE r \in CloseReq
  <2>1. Opening(t) = Opening(s)
    BY <1>1, <1>3, <1>4 DEF Opening, Req
  <2>2. Closing(t) = Closing(s) \cup {r} /\ r \notin Closing(s)
    BY <1>1, <1>4 DEF Closing, Req, NoReq
  <2>3. Cardinality(Closing(t)) = Cardinality(Closing(s)) + 1
    BY <2>2, FiniteUses, OneMore
  <2>4. op = "CLOSE"
    BY <1>3, <1>4 DEF MayMake
  <2> QED BY <1>2, <2>1, <2>3, <2>4, FiniteUses DEF OpenCount
<1>5. CASE r \in Proc
  <2>1. Closing(t) = Closing(s)
    BY <1>1, <1>3, <1>5 DEF Closing, Req
  <2>2. CASE op = "OPEN"
    <3>1. Opening(t) = Opening(s) \cup {r} /\ r \notin Opening(s)
      BY <1>1, <1>5, <2>2 DEF Opening, Req, NoReq
    <3>2. Cardinality(Opening(t)) = Cardinality(Opening(s)) + 1
      BY <3>1, FiniteUses, OneMore
    <3> QED BY <1>2, <2>1, <2>2, <3>2, FiniteUses DEF OpenCount
  <2>3. CASE op # "OPEN"
    <3>1. Opening(t) = Opening(s)
      BY <1>1, <1>5, <2>3 DEF Opening, Req, NoReq
    <3> QED BY <1>2, <2>1, <3>1, FiniteUses DEF OpenCount
  <2> QED BY <2>2, <2>3
<1> QED BY <1>4, <1>5 DEF Req

\* t is s after vfsreq_create.
Created(s, t, op, p, d, x, l, hs) ==
    /\ Good(t, t.queue, d, x, l, hs) /\ Fits(t)
    /\ Served(s) => Served(t)
    /\ CallFrame(s, t, p)
    /\ t.usehcnt \in {s.usehcnt, s.usehcnt + 1}
    /\ OpenCount(t) <= OpenCount(s) + 1
    /\ op \notin {"OPEN", "CLOSE"} => OpenCount(t) <= OpenCount(s)
    /\ l \in Req => t.req[l] = s.req[l]

LEMMA Create ==
    ASSUME NEW s, NEW d \in Nat, NEW x, NEW l, NEW hs, Good(s, s.queue, d, x, l, hs), Fits(s),
           s.usehcnt > 0, NEW r \in Req, s.req[r].st = "none", r # l,
           NEW op, NEW p, MayMake(s, r, op, p, x)
    PROVE  Created(s, vfsreq_create(s, r, op, p), op, p, d, x, l, hs)
<1>1. /\ s \in Kernel /\ s.panic = "none" /\ CountInv(s, d) /\ ReqInv(s, x)
  BY DEF Good
<1>2. s.req[r] = NoReq
  BY <1>1 DEF ReqInv
<1>3. s.backend = "live" /\ s.provhcnt \in Nat /\ OpenCount(s) \in Nat /\ s.usehcnt \in Nat
  BY <1>1, FiniteUses DEF CountInv, OpenCount, Kernel
<1>4. op \in Ops /\ p \in Proc \cup {NULL} /\ (p # NULL => s.state[p] = "RUNNING" /\ p = r)
  BY VfsAssumption DEF MayMake, Ops
<1>5. CASE s.provhcnt = 0
  <2>1. vfsreq_create(s, r, op, p) = s
    BY <1>1, <1>2, <1>3, <1>4, <1>5, CreateOrphan
  <2>2. CallFrame(s, s, p)
    BY <1>4, VfsAssumption DEF CallFrame
  <2> QED BY <1>3, <2>1, <2>2 DEF Created
<1>6. CASE s.provhcnt > 0
  <2>1. PICK e : e = sent(s, r, op, p)
    OBVIOUS
  <2>2. Made(s, e, r, op, p) /\ e.queue = Append(s.queue, r)
    BY <1>1, <1>4, <2>1, MadeFields
  <2>3. Good(e, e.queue, d, x, l, hs)
    BY <1>2, <2>2, GoodMade
  <2>4. Fits(e)
    BY <2>2 DEF Fits, Made
  <2>5. PICK t : t = tryaccept(e)
    OBVIOUS
  <2>6. vfsreq_create(s, r, op, p) = t
    BY <1>6, <2>1, <2>5 DEF vfsreq_create, sent, made, Check
  <2>7. /\ Good(t, t.queue, d, x, l, hs) /\ Fits(t)
        /\ t.handler = NULL \/ t.queue = <<>>
        /\ Frame(e, t) /\ t.usehcnt = e.usehcnt
        /\ OpenCount(t) = OpenCount(e)
        /\ ReqsKept(e, t, l)
    BY <2>3, <2>4, <2>5, TryAccept
  <2>8. CallFrame(s, t, p)
    <3>1. /\ t.controlled = s.controlled /\ t.mount = s.mount /\ t.mrefs = s.mrefs
          /\ t.provhcnt = s.provhcnt
      BY <2>2, <2>7 DEF Frame, Made
    <3>2. \A i \in Proc \ {p} : \/ t.state[i] = s.state[i]
                                \/ s.state[i] \in {"WAITS4FS", "WAITS4REQUEST"} /\ t.state[i] = "RUNNING"
      BY <2>2, <2>7 DEF Frame, Made
    <3>3. p \in Proc => t.state[p] \in {"RUNNING", "WAITS4FS"}
      BY <2>2, <2>7 DEF Frame, Made
    <3>4. \A i \in Proc : s.state[i] # "WAITS4REQUEST" => t.handles[i] = s.handles[i]
      <4>1. \A i \in Proc : s.state[i] # "WAITS4REQUEST" => e.state[i] # "WAITS4REQUEST"
        BY <2>2 DEF Made
      <4> QED BY <2>2, <2>7, <4>1 DEF Frame, Made
    <3>5. \A g \in Handle : s.h[g].refcount # 0 => t.h[g] = s.h[g]
      BY <2>2, <2>7 DEF Frame, Made
    <3>6. \A i \in Req \ {p} : t.req[i].caller \in {s.req[i].caller, NULL}
      <4>1. \A i \in Req \ {p} : e.req[i].caller \in {s.req[i].caller, NULL}
        BY <2>2, <1>4 DEF Made
      <4> QED BY <2>7, <4>1 DEF ReqsKept
    <3> QED BY <3>1, <3>2, <3>3, <3>4, <3>5, <3>6 DEF CallFrame
  <2>9. t.usehcnt = s.usehcnt + 1
    BY <2>2, <2>7 DEF Made
  <2>10. /\ OpenCount(t) <= OpenCount(s) + 1
         /\ op \notin {"OPEN", "CLOSE"} => OpenCount(t) <= OpenCount(s)
    BY <1>2, <2>2, <2>7, MadeOpens
  <2>11. l \in Req => t.req[l] = s.req[l]
    BY <2>2, <2>7 DEF Made, ReqsKept
  <2>12. Served(t)
    <3>1. t.provhcnt = s.provhcnt
      BY <2>8 DEF CallFrame
    <3> QED BY <1>6, <2>7, <3>1 DEF Served
  <2> QED BY <2>6, <2>7, <2>8, <2>9, <2>10, <2>11, <2>12 DEF Created
<1> QED BY <1>3, <1>5, <1>6

-----------------------------------------------------------------------------
(* handle_close. *)

\* t is s after p gave up the handle h, which became new.
Removed(s, t, p, h, new) ==
    /\ t \in Kernel
    /\ t.handles[p] = s.handles[p] \ {h} /\ \A i \in Proc \ {p} : t.handles[i] = s.handles[i]
    /\ t.h[h] = new /\ \A g \in Handle \ {h} : t.h[g] = s.h[g]
    /\ t.state = s.state /\ t.req = s.req /\ t.controlled = s.controlled /\ t.mount = s.mount
    /\ t.mrefs = s.mrefs /\ t.provhcnt = s.provhcnt /\ t.usehcnt = s.usehcnt
    /\ t.backend = s.backend /\ t.panic = s.panic /\ t.handler = s.handler /\ t.queue = s.queue

dropped(s, p, h) == [s EXCEPT !.handles[p] = @ \ {h}, !.h[h].refcount = @ - 1]
gone(s, p, h)    == [dropped(s, p, h) EXCEPT !.h[h] = NoHandle]

LEMMA DroppedFields ==
    ASSUME NEW s \in Kernel, NEW p \in Proc, NEW h \in Handle, s.h[h].refcount > 0
    PROVE  /\ Removed(s, dropped(s, p, h), p, h, [s.h[h] EXCEPT !.refcount = @ - 1])
           /\ Removed(s, gone(s, p, h), p, h, NoHandle)
<1> DEFINE hd  == [s.handles EXCEPT ![p] = s.handles[p] \ {h}]
           new == [s.h[h] EXCEPT !.refcount = s.h[h].refcount - 1]
           hh  == [s.h EXCEPT ![h] = new]
           hg  == [s.h EXCEPT ![h] = NoHandle]
<1>1. /\ s.handles \in [Proc -> SUBSET Handle]
      /\ s.h \in [Handle -> [type : {"INVALID", "FILE", "FS_FRONT", "FS_REQ"},
                             req : Req \cup {NULL}, refcount : Nat]]
  BY DEF Kernel
<1>2. new \in [type : {"INVALID", "FILE", "FS_FRONT", "FS_REQ"}, req : Req \cup {NULL}, refcount : Nat]
  <2>1. /\ s.h[h] \in [type : {"INVALID", "FILE", "FS_FRONT", "FS_REQ"}, req : Req \cup {NULL}, refcount : Nat]
        /\ s.h[h].refcount \in Nat /\ s.h[h].refcount - 1 \in Nat
    BY <1>1
  <2> QED BY <2>1
<1>3. /\ hd \in [Proc -> SUBSET Handle]
      /\ hh \in [Handle -> [type : {"INVALID", "FILE", "FS_FRONT", "FS_REQ"},
                             req : Req \cup {NULL}, refcount : Nat]]
      /\ hg \in [Handle -> [type : {"INVALID", "FILE", "FS_FRONT", "FS_REQ"},
                             req : Req \cup {NULL}, refcount : Nat]]
  BY <1>1, <1>2 DEF NoHandle
<1>4. /\ hd[p] = s.handles[p] \ {h} /\ \A i \in Proc \ {p} : hd[i] = s.handles[i]
      /\ hh[h] = new /\ \A g \in Handle \ {h} : hh[g] = s.h[g]
      /\ hg[h] = NoHandle /\ \A g \in Handle \ {h} : hg[g] = s.h[g]
  BY <1>1
<1>5. dropped(s, p, h) = [s EXCEPT !.handles = hd, !.h = hh]
  BY DEF dropped
<1>6. gone(s, p, h) = [s EXCEPT !.handles = hd, !.h = hg]
  <2>1. gone(s, p, h) = [[s EXCEPT !.handles = hd, !.h = hh] EXCEPT !.h = [hh EXCEPT ![h] = NoHandle]]
    BY <1>5 DEF gone, Kernel
  <2>2. [hh EXCEPT ![h] = NoHandle] = hg
    BY <1>1
  <2> QED BY <2>1, <2>2 DEF Kernel
<1> HIDE DEF hd, hh, hg, new
<1>7. Removed(s, dropped(s, p, h), p, h, new)
  BY <1>3, <1>4, <1>5 DEF Kernel, Removed
<1>8. Removed(s, gone(s, p, h), p, h, NoHandle)
  BY <1>3, <1>4, <1>6 DEF Kernel, Removed
<1> QED BY <1>7, <1>8 DEF new

\* The process that gives up a handle had it once.
LEMMA RemovedOwners ==
    ASSUME NEW s \in Kernel, HandlesInv(s), NEW p \in Proc, NEW h \in s.handles[p], NEW t, NEW new,
           Removed(s, t, p, h, new)
    PROVE  /\ h \in Handle /\ s.h[h].refcount \in Nat \ {0}
           /\ Cardinality(Owners(t, h)) = s.h[h].refcount - 1
           /\ \A g \in Handle \ {h} : Owners(t, g) = Owners(s, g)
<1>1. h \in Handle /\ s.h[h].refcount \in Nat
  BY DEF Kernel
<1>2. t.handles[p] = s.handles[p] \ {h} /\ \A i \in Proc \ {p} : t.handles[i] = s.handles[i]
  BY DEF Removed
<1>3. Owners(t, h) = Owners(s, h) \ {p} /\ p \in Owners(s, h)
  BY <1>2 DEF Owners
<1>4. Cardinality(Owners(t, h)) = Cardinality(Owners(s, h)) - 1 /\ Cardinality(Owners(s, h)) > 0
  BY <1>3, FiniteUses, OneMore
<1>5. s.h[h].refcount = Cardinality(Owners(s, h))
  BY <1>1 DEF HandlesInv
<1>6. \A g \in Handle \ {h} : Owners(t, g) = Owners(s, g)
  BY <1>2 DEF Owners
<1> QED BY <1>1, <1>4, <1>5, <1>6

\* A smaller table fits.
LEMMA SmallerTable ==
    ASSUME NEW s \in Kernel, NEW p \in Proc, NEW h
    PROVE  Cardinality(s.handles[p] \ {h}) <= Cardinality(s.handles[p])
<1>1. s.handles[p] \in SUBSET Handle
  BY DEF Kernel
<1>2. IsFiniteSet(s.handles[p]) /\ Cardinality(s.handles[p]) \in Nat
  BY <1>1, FiniteSets
<1>3. (s.handles[p] \ {h}) \in SUBSET s.handles[p]
  OBVIOUS
<1> QED BY <1>2, <1>3, FS_Subset

LEMMA RemovedCommon ==
    ASSUME NEW s, NEW q, NEW d, NEW x, NEW l, NEW hs, Good(s, q, d, x, l, hs),
           NEW p \in Proc, NEW h \in s.handles[p], NEW t, NEW new, Removed(s, t, p, h, new)
    PROVE  /\ t \in Kernel /\ t.panic = "none"
           /\ DeadInv(t) /\ ReqInv(t, x) /\ HandlerInv(t, x) /\ QueueInv(t, q, l)
           /\ Mounts(t) = Mounts(s) /\ Busy(t) = Busy(s) /\ Providers(t) = Providers(s)
           /\ \A m : MountedAt(t, m) = MountedAt(s, m)
<1>1. /\ s \in Kernel /\ s.panic = "none"
      /\ DeadInv(s) /\ ReqInv(s, x) /\ QueueInv(s, q, l) /\ HandlerInv(s, x)
  BY DEF Good
<1>2. /\ t \in Kernel
      /\ t.handles[p] = s.handles[p] \ {h} /\ \A i \in Proc \ {p} : t.handles[i] = s.handles[i]
      /\ t.state = s.state /\ t.req = s.req /\ t.controlled = s.controlled /\ t.mount = s.mount
      /\ t.mrefs = s.mrefs /\ t.provhcnt = s.provhcnt /\ t.usehcnt = s.usehcnt
      /\ t.backend = s.backend /\ t.panic = s.panic /\ t.handler = s.handler /\ t.queue = s.queue
  BY DEF Removed
<1>3. DeadInv(t)
  BY <1>1, <1>2 DEF DeadInv
<1>4. ReqInv(t, x)
  BY <1>1, <1>2 DEF ReqInv
<1>5. QueueInv(t, q, l)
  BY <1>1, <1>2 DEF QueueInv
<1>6. HandlerInv(t, x)
  <2>1. \A i \in Proc : Cardinality(t.handles[i]) <= Cardinality(s.handles[i]) /\ Cardinality(t.handles[i]) \in Nat /\ Cardinality(s.handles[i]) \in Nat
    <3> SUFFICES ASSUME NEW i \in Proc
                 PROVE  Cardinality(t.handles[i]) <= Cardinality(s.handles[i]) /\ Cardinality(t.handles[i]) \in Nat /\ Cardinality(s.handles[i]) \in Nat
      OBVIOUS
    <3>1. s.handles[i] \in SUBSET Handle /\ t.handles[i] \in SUBSET Handle
      BY <1>1, <1>2 DEF Kernel
    <3>2. Cardinality(t.handles[i]) \in Nat /\ Cardinality(s.handles[i]) \in Nat
      BY <3>1, FiniteSets
    <3>3. s \in Kernel /\ (i # p => t.handles[i] = s.handles[i]) /\ (i = p => t.handles[i] = s.handles[i] \ {h})
      BY <1>1, <1>2
    <3>4. CASE i = p
      BY ONLY <3>2, <3>3, <3>4, SmallerTable, i \in Proc
    <3>5. CASE i # p
      BY ONLY <3>2, <3>3, <3>5
    <3> QED BY <3>4, <3>5
  <2>2. s.handler \in Proc \cup {NULL}
    BY <1>1 DEF Kernel
  <2>3. t.handler # NULL => Cardinality(t.handles[t.handler]) < HANDLE_MAX
    BY <1>1, <1>2, <2>1, <2>2, VfsAssumption DEF HandlerInv
  <2> QED BY <1>1, <1>2, <2>3 DEF HandlerInv
<1>7. /\ Mounts(t) = Mounts(s) /\ Busy(t) = Busy(s) /\ Providers(t) = Providers(s)
      /\ \A m : MountedAt(t, m) = MountedAt(s, m)
  BY <1>2 DEF Mounts, Busy, Providers, MountedAt
<1> QED BY <1>1, <1>2, <1>3, <1>4, <1>5, <1>6, <1>7

\* Others have the handle, too.
LEMMA DropGood ==
    ASSUME NEW s, NEW q, NEW d, NEW x, NEW l, NEW hs, Good(s, q, d, x, l, hs),
           NEW p \in Proc, NEW h \in s.handles[p], s.h[h].refcount > 1
    PROVE  Good(dropped(s, p, h), q, d, x, l, hs)
<1>1. /\ s \in Kernel /\ HandlesInv(s) /\ CountInv(s, d) /\ AcceptInv(s, l, hs)
  BY DEF Good
<1>2. h \in Handle /\ s.h[h] \in [type : {"INVALID", "FILE", "FS_FRONT", "FS_REQ"}, req : Req \cup {NULL}, refcount : Nat]
  BY <1>1 DEF Kernel
<1>3. PICK t : t = dropped(s, p, h)
  OBVIOUS
<1>4. PICK new : new = [s.h[h] EXCEPT !.refcount = @ - 1]
  OBVIOUS
<1>5. Removed(s, t, p, h, new)
  <2>1. s.h[h].refcount > 0
    BY <1>2
  <2> QED BY <1>1, <1>2, <1>3, <1>4, <2>1, DroppedFields
<1>6. new.type = s.h[h].type /\ new.req = s.h[h].req /\ new.refcount = s.h[h].refcount - 1
  BY <1>2, <1>4
<1>7. /\ t \in Kernel /\ t.panic = "none"
      /\ DeadInv(t) /\ ReqInv(t, x) /\ HandlerInv(t, x) /\ QueueInv(t, q, l)
      /\ Mounts(t) = Mounts(s) /\ Busy(t) = Busy(s) /\ Providers(t) = Providers(s)
      /\ \A m : MountedAt(t, m) = MountedAt(s, m)
  BY <1>5, RemovedCommon
<1>8. \A g \in Handle : t.h[g].type = s.h[g].type /\ t.h[g].req = s.h[g].req
  BY <1>5, <1>6 DEF Removed
<1>9. UseHandles(t) = UseHandles(s) /\ \A r : HandlesOf(t, r) = HandlesOf(s, r)
  BY <1>8 DEF UseHandles, HandlesOf
<1>10. CountInv(t, d)
  BY <1>1, <1>5, <1>7, <1>9 DEF CountInv, Removed
<1>11. AcceptInv(t, l, hs)
  BY <1>1, <1>5, <1>9 DEF AcceptInv, Removed
<1>12. HandlesInv(t)
  <2>1. /\ Cardinality(Owners(t, h)) = s.h[h].refcount - 1
        /\ \A g \in Handle \ {h} : Owners(t, g) = Owners(s, g)
    BY <1>1, <1>5, RemovedOwners
  <2>2. /\ t.h[h].refcount = Cardinality(Owners(t, h)) /\ t.h[h].refcount # 0
        /\ t.h[h].type # "INVALID" /\ (t.h[h].req # NULL => t.h[h].type = "FS_REQ")
    <3>1. t.h[h] = new
      BY <1>5 DEF Removed
    <3>2. s.h[h].type # "INVALID" /\ (s.h[h].req # NULL => s.h[h].type = "FS_REQ")
      BY <1>1, <1>2 DEF HandlesInv
    <3> QED BY <1>2, <1>6, <2>1, <3>1, <3>2
  <2>3. \A g \in Handle \ {h} : t.h[g] = s.h[g]
    BY <1>5 DEF Removed
  <2> QED BY <1>1, <2>1, <2>2, <2>3 DEF HandlesInv
<1> QED BY <1>3, <1>7, <1>10, <1>11, <1>12 DEF Good

\* The last reference to a handle is given up.
LEMMA GoneHandles ==
    ASSUME NEW s \in Kernel, HandlesInv(s), NEW p \in Proc, NEW h \in s.handles[p], s.h[h].refcount = 1,
           NEW t, Removed(s, t, p, h, NoHandle)
    PROVE  HandlesInv(t)
<1>1. /\ h \in Handle /\ Cardinality(Owners(t, h)) = 1 - 1
      /\ \A g \in Handle \ {h} : Owners(t, g) = Owners(s, g)
  BY RemovedOwners
<1>2. t.h[h] = NoHandle /\ \A g \in Handle \ {h} : t.h[g] = s.h[g]
  BY DEF Removed
<1>3. t.h[h].refcount = Cardinality(Owners(t, h))
  BY <1>1, <1>2 DEF NoHandle
<1> QED BY <1>1, <1>2, <1>3 DEF HandlesInv, NoHandle

LEMMA GoneUse ==
    ASSUME NEW s, NEW q, NEW x, NEW l, NEW hs, Good(s, q, 0, x, l, hs),
           NEW p \in Proc, NEW h \in s.handles[p], s.h[h].refcount = 1,
           s.h[h].type \in {"FILE", "FS_FRONT"}
    PROVE  Good(gone(s, p, h), q, 1, x, l, hs)
<1>1. /\ s \in Kernel /\ HandlesInv(s) /\ CountInv(s, 0) /\ AcceptInv(s, l, hs)
  BY DEF Good
<1>2. h \in Handle
  BY <1>1 DEF Kernel
<1>3. PICK t : t = gone(s, p, h)
  OBVIOUS
<1>4. Removed(s, t, p, h, NoHandle)
  <2>1. s.h[h].refcount > 0
    OBVIOUS
  <2> QED BY <1>1, <1>2, <1>3, <2>1, DroppedFields
<1>5. /\ t \in Kernel /\ t.panic = "none"
      /\ DeadInv(t) /\ ReqInv(t, x) /\ HandlerInv(t, x) /\ QueueInv(t, q, l)
      /\ Mounts(t) = Mounts(s) /\ Busy(t) = Busy(s) /\ Providers(t) = Providers(s)
      /\ \A m : MountedAt(t, m) = MountedAt(s, m)
  BY <1>4, RemovedCommon
<1>6. t.h[h] = NoHandle /\ \A g \in Handle \ {h} : t.h[g] = s.h[g]
  BY <1>4 DEF Removed
<1>7. HandlesInv(t)
  BY <1>1, <1>4, GoneHandles
<1>8. CountInv(t, 1)
  <2>1. UseHandles(t) = UseHandles(s) \ {h} /\ h \in UseHandles(s)
    BY <1>2, <1>6 DEF UseHandles, NoHandle
  <2>2. Cardinality(UseHandles(t)) = Cardinality(UseHandles(s)) - 1
    BY <2>1, FiniteUses, OneMore
  <2>3. s.usehcnt = Cardinality(UseHandles(s)) + Cardinality(Mounts(s)) + Cardinality(Busy(s)) + 0
    BY <1>1 DEF CountInv
  <2>4. s.usehcnt = Cardinality(UseHandles(t)) + Cardinality(Mounts(s)) + Cardinality(Busy(s)) + 1
    BY <2>2, <2>3, FiniteUses
  <2> QED BY <1>1, <1>4, <1>5, <2>4 DEF CountInv, Removed
<1>9. AcceptInv(t, l, hs)
  <2>1. s.h[h].req = NULL
    BY <1>1, <1>2 DEF HandlesInv
  <2>2. \A r \in Req : r # NULL
    BY VfsAssumption DEF Req, CloseReq
  <2>3. \A r \in Req : HandlesOf(t, r) = HandlesOf(s, r)
    BY <1>6, <2>1, <2>2 DEF HandlesOf, NoHandle
  <2> QED BY <1>1, <1>4, <2>3 DEF AcceptInv, Removed
<1> QED BY <1>3, <1>5, <1>7, <1>8, <1>9 DEF Good

LEMMA GoneReq ==
    ASSUME NEW s, NEW q, NEW x, NEW l, NEW hs, Good(s, q, 0, x, l, hs),
           NEW p \in Proc, NEW h \in s.handles[p], s.h[h].refcount = 1,
           s.h[h].type = "FS_REQ"
    PROVE  /\ s.h[h].req = NULL => Good(gone(s, p, h), q, 0, x, l, hs)
           /\ s.h[h].req # NULL /\ l = NULL =>
                /\ s.h[h].req \in Req /\ s.req[s.h[h].req].st = "accepted"
                /\ Good(gone(s, p, h), q, 0, x, s.h[h].req, {})
<1>1. /\ s \in Kernel /\ HandlesInv(s) /\ CountInv(s, 0) /\ AcceptInv(s, l, hs) /\ QueueInv(s, q, l)
  BY DEF Good
<1>2. h \in Handle /\ s.h[h].req \in Req \cup {NULL}
  BY <1>1 DEF Kernel
<1>3. PICK t : t = gone(s, p, h)
  OBVIOUS
<1>4. Removed(s, t, p, h, NoHandle)
  <2>1. s.h[h].refcount > 0
    OBVIOUS
  <2> QED BY <1>1, <1>2, <1>3, <2>1, DroppedFields
<1>5. /\ t \in Kernel /\ t.panic = "none"
      /\ DeadInv(t) /\ ReqInv(t, x) /\ HandlerInv(t, x) /\ QueueInv(t, q, l)
      /\ Mounts(t) = Mounts(s) /\ Busy(t) = Busy(s) /\ Providers(t) = Providers(s)
      /\ \A m : MountedAt(t, m) = MountedAt(s, m)
  BY <1>4, RemovedCommon
<1>6. t.h[h] = NoHandle /\ \A g \in Handle \ {h} : t.h[g] = s.h[g]
  BY <1>4 DEF Removed
<1>7. HandlesInv(t)
  BY <1>1, <1>4, GoneHandles
<1>8. CountInv(t, 0)
  <2>1. UseHandles(t) = UseHandles(s)
    BY <1>2, <1>6 DEF UseHandles, NoHandle
  <2> QED BY <1>1, <1>4, <1>5, <2>1 DEF CountInv, Removed
<1>9. \A r \in Req : r # NULL
  BY VfsAssumption DEF Req, CloseReq
<1>10. CASE s.h[h].req = NULL
  <2>1. \A r \in Req : HandlesOf(t, r) = HandlesOf(s, r)
    BY <1>6, <1>9, <1>10 DEF HandlesOf, NoHandle
  <2>2. AcceptInv(t, l, hs)
    BY <1>1, <1>4, <2>1 DEF AcceptInv, Removed
  <2> QED BY <1>3, <1>5, <1>7, <1>8, <1>10, <2>2 DEF Good
<1>11. CASE s.h[h].req # NULL /\ l = NULL
  <2>1. PICK r \in Req : r = s.h[h].req
    BY <1>2, <1>11
  <2>2. h \in HandlesOf(s, r) /\ r # l
    BY <1>2, <1>9, <1>11, <2>1 DEF HandlesOf
  <2>3. s.req[r].st = "accepted" /\ HandlesOf(s, r) = {h}
    BY <1>1, <2>2 DEF AcceptInv
  <2>4. HandlesOf(t, r) = {}
    BY <1>6, <1>9, <2>3 DEF HandlesOf, NoHandle
  <2>5. \A i \in Req \ {r} : HandlesOf(t, i) = HandlesOf(s, i)
    BY <1>6, <1>9, <2>1 DEF HandlesOf, NoHandle
  <2>6. AcceptInv(t, r, {})
    BY <1>1, <1>4, <1>9, <1>11, <2>4, <2>5 DEF AcceptInv, Removed
  <2>7. t.req = s.req
    BY <1>4 DEF Removed
  <2>8. QueueInv(t, q, r)
    BY <1>5, <1>9, <1>11, <2>3, <2>7 DEF QueueInv
  <2> QED BY <1>3, <1>5, <1>7, <1>8, <1>11, <2>1, <2>3, <2>6, <2>8 DEF Good
<1> QED BY <1>10, <1>11

LEMMA FrameTrans ==
    ASSUME NEW s, NEW e, NEW t, Frame(s, e), Frame(e, t) PROVE Frame(s, t)
<1>1. \A i \in Proc : s.state[i] # "WAITS4REQUEST" => e.state[i] # "WAITS4REQUEST"
  BY DEF Frame
<1>2. \A i \in Proc : s.state[i] # "WAITS4REQUEST" => t.handles[i] = s.handles[i]
  BY <1>1 DEF Frame
<1>3. \A g \in Handle : s.h[g].refcount # 0 => t.h[g] = s.h[g]
  BY DEF Frame
<1>4. \A i \in Proc : \/ t.state[i] = s.state[i]
                      \/ s.state[i] \in {"WAITS4FS", "WAITS4REQUEST"} /\ t.state[i] = "RUNNING"
  BY DEF Frame
<1>5. \A i \in Req : t.req[i].caller \in {s.req[i].caller, NULL}
  BY DEF Frame
<1> QED BY <1>2, <1>3, <1>4, <1>5 DEF Frame

LEMMA RefdownFrame ==
    ASSUME NEW s, NEW q, NEW x, NEW l, NEW hs, Good(s, q, 1, x, l, hs),
           s.usehcnt = 1 /\ s.provhcnt = 0 => s.queue = <<>>
    PROVE  /\ Frame(s, refdown_use(s)) /\ refdown_use(s).queue = s.queue
           /\ refdown_use(s).handles = s.handles /\ refdown_use(s).req = s.req
           /\ OpenCount(refdown_use(s)) = OpenCount(s)
           /\ Served(s) => Served(refdown_use(s))
<1>1. /\ s \in Kernel /\ s.panic = "none" /\ CountInv(s, 1) /\ HandlerInv(s, x)
  BY DEF Good
<1>2. s.usehcnt > 0 /\ s.backend = "live"
  BY <1>1, FiniteUses DEF CountInv
<1>3. PICK t : t = refdown_use(s)
  OBVIOUS
<1>4. /\ t.handles = s.handles /\ t.controlled = s.controlled
      /\ t.mount = s.mount /\ t.mrefs = s.mrefs
      /\ t.h = s.h /\ t.req = s.req /\ t.provhcnt = s.provhcnt /\ t.queue = s.queue
      /\ s.usehcnt = 1 => /\ t.handler = NULL
                          /\ \A p \in Proc : t.state[p] =
                               IF p = s.handler THEN "RUNNING" ELSE s.state[p]
      /\ s.usehcnt # 1 => t.handler = s.handler /\ t.state = s.state
  BY <1>1, <1>2, <1>3, RefdownFields
<1>5. \A i \in Proc : \/ t.state[i] = s.state[i]
                      \/ s.state[i] = "WAITS4REQUEST" /\ t.state[i] = "RUNNING"
  BY <1>1, <1>4, VfsAssumption DEF HandlerInv
<1>6. Frame(s, t)
  BY <1>4, <1>5 DEF Frame
<1>7. OpenCount(t) = OpenCount(s)
  BY <1>4 DEF OpenCount, Files, Closing, Opening
<1>8. Served(s) => Served(t)
  BY <1>4 DEF Served
<1> QED BY <1>3, <1>4, <1>6, <1>7, <1>8

\* There is a number for the request to close a file.
LEMMA CloseReqFree ==
    ASSUME NEW s, Cardinality(Closing(s)) < MaxOpens
    PROVE  \E r \in CloseReq : s.req[r].st = "none"
<1> SUFFICES ASSUME \A r \in CloseReq : s.req[r].st # "none" PROVE FALSE
  OBVIOUS
<1>1. Closing(s) = CloseReq
  BY DEF Closing
<1> QED BY <1>1, FiniteAll, VfsAssumption

\* What handle_close leaves alone.
CloseFrame(s, t, p, h) ==
    /\ t.controlled = s.controlled /\ t.mount = s.mount /\ t.mrefs = s.mrefs
    /\ t.provhcnt = s.provhcnt
    /\ \A i \in Proc : \/ t.state[i] = s.state[i]
                       \/ s.state[i] \in {"WAITS4FS", "WAITS4REQUEST"} /\ t.state[i] = "RUNNING"
    /\ \A i \in Proc \ {p} : s.state[i] # "WAITS4REQUEST" => t.handles[i] = s.handles[i]
    /\ s.state[p] # "WAITS4REQUEST" => t.handles[p] = s.handles[p] \ {h}
    /\ \A g \in Handle \ {h} : s.h[g].refcount # 0 => t.h[g] = s.h[g]
    /\ \A i \in Req : t.req[i].caller \in {s.req[i].caller, NULL}

LEMMA RemovedFrame ==
    ASSUME NEW s, NEW e, NEW t, NEW p \in Proc, NEW h, NEW new, Removed(s, e, p, h, new), Frame(e, t)
    PROVE  CloseFrame(s, t, p, h)
<1>1. /\ e.handles[p] = s.handles[p] \ {h} /\ \A i \in Proc \ {p} : e.handles[i] = s.handles[i]
      /\ \A g \in Handle \ {h} : e.h[g] = s.h[g]
      /\ e.state = s.state /\ e.req = s.req /\ e.controlled = s.controlled /\ e.mount = s.mount
      /\ e.mrefs = s.mrefs /\ e.provhcnt = s.provhcnt
  BY DEF Removed
<1> QED BY <1>1 DEF Frame, CloseFrame

LEMMA RemovedFits ==
    ASSUME NEW s, NEW t, NEW p \in Proc, NEW h, NEW new, Removed(s, t, p, h, new),
           Cardinality(s.handles[p] \ {h}) <= HANDLE_MAX,
           \A i \in Proc \ {p} : Cardinality(s.handles[i]) <= HANDLE_MAX
    PROVE  Fits(t)
  BY DEF Removed, Fits

LEMMA CallFrameKernel ==
    ASSUME NEW s, NEW t, CallFrame(s, t, NULL) PROVE Frame(s, t)
<1>1. NULL \notin Proc /\ NULL \notin Req
  BY VfsAssumption DEF Req, CloseReq
<1> QED BY <1>1 DEF CallFrame, Frame

\* What handle_close keeps.  The table of p may have been too full before.
Closed(s, t, p, h, x, l, hs) ==
    /\ Good(t, t.queue, 0, x, l, hs) /\ Fits(t) /\ Served(t) /\ OpenCount(t) <= OpenCount(s)
    /\ CloseFrame(s, t, p, h)
    /\ l \in Req => t.req[l] = s.req[l]

LEMMA CloseFile ==
    ASSUME NEW s, NEW x, NEW l, NEW hs, Good(s, s.queue, 0, x, l, hs), Served(s),
           NEW p \in Proc, NEW h \in s.handles[p], s.h[h].refcount = 1, s.h[h].type = "FILE",
           Cardinality(s.handles[p] \ {h}) <= HANDLE_MAX,
           \A i \in Proc \ {p} : Cardinality(s.handles[i]) <= HANDLE_MAX,
           Cardinality(Closing(s)) < MaxOpens, l \notin CloseReq
    PROVE  Closed(s, close_file(gone(s, p, h)), p, h, x, l, hs)
<1>1. PICK e : e = gone(s, p, h)
  OBVIOUS
<1>2. s \in Kernel /\ h \in Handle
  BY DEF Good, Kernel
<1>3. Good(e, s.queue, 1, x, l, hs)
  BY <1>1, GoneUse
<1>4. Removed(s, e, p, h, NoHandle)
  <2>1. s.h[h].refcount > 0
    OBVIOUS
  <2> QED BY <1>1, <1>2, <2>1, DroppedFields
<1>5. e.queue = s.queue /\ e.req = s.req /\ e.provhcnt = s.provhcnt /\ e.handler = s.handler
  BY <1>4 DEF Removed
<1>6. Fits(e)
  BY <1>4, RemovedFits
<1>7. Served(e) /\ Closing(e) = Closing(s) /\ Opening(e) = Opening(s)
  BY <1>5 DEF Served, Closing, Opening
<1>8. OpenCount(e) + 1 = OpenCount(s) /\ OpenCount(e) \in Nat
  <2>1. Files(e) = Files(s) \ {h} /\ h \in Files(s)
    BY <1>2, <1>4 DEF Removed, Files, NoHandle
  <2>2. Cardinality(Files(e)) = Cardinality(Files(s)) - 1
    BY <2>1, FiniteUses, OneMore
  <2> QED BY <1>7, <2>2, FiniteUses DEF OpenCount
<1>9. PICK r : r = CHOOSE i \in CloseReq : e.req[i].st = "none"
  OBVIOUS
<1>10. r \in CloseReq /\ e.req[r].st = "none"
  BY <1>7, <1>9, CloseReqFree
<1>11. PICK c : c = vfsreq_create(e, r, "CLOSE", NULL)
  OBVIOUS
<1>12. PICK t : t = refdown_use(c)
  OBVIOUS
<1>13. close_file(e) = t
  BY <1>9, <1>11, <1>12 DEF close_file
<1>14. e.usehcnt > 0
  <2>1. CountInv(e, 1)
    BY <1>3 DEF Good
  <2> QED BY <2>1, FiniteUses DEF CountInv
<1>15. /\ Good(c, c.queue, 1, x, l, hs) /\ Fits(c) /\ Served(c) /\ CallFrame(e, c, NULL)
       /\ OpenCount(c) <= OpenCount(e) + 1
       /\ l \in Req => c.req[l] = e.req[l]
  <2>1. MayMake(e, r, "CLOSE", NULL, x) /\ r \in Req /\ r # l /\ 1 \in Nat
    BY <1>10 DEF MayMake, Req
  <2>2. Good(e, e.queue, 1, x, l, hs)
    BY <1>3, <1>5
  <2>3. Created(e, c, "CLOSE", NULL, 1, x, l, hs)
    BY <1>6, <1>10, <1>11, <1>14, <2>1, <2>2, Create
  <2> QED BY <1>7, <2>3 DEF Created
<1>16. c.usehcnt = 1 /\ c.provhcnt = 0 => c.queue = <<>>
  BY <1>15, NoQueue
<1>17. Good(t, c.queue, 0, x, l, hs)
  BY <1>12, <1>15, <1>16, Refdown
<1>18. /\ Frame(c, t) /\ t.queue = c.queue /\ t.handles = c.handles /\ t.req = c.req
       /\ OpenCount(t) = OpenCount(c) /\ Served(t)
  BY <1>12, <1>15, <1>16, RefdownFrame
<1>19. Fits(t)
  BY <1>15, <1>18 DEF Fits
<1>20. CloseFrame(s, t, p, h)
  <2>1. Frame(e, t)
    BY <1>15, <1>18, CallFrameKernel, FrameTrans
  <2> QED BY <1>4, <2>1, RemovedFrame
<1>21. OpenCount(t) <= OpenCount(s)
  BY <1>8, <1>15, <1>18
<1> QED BY <1>1, <1>5, <1>13, <1>15, <1>17, <1>18, <1>19, <1>20, <1>21 DEF Closed

\* A request that is finished and that no handle names any more is a free one.
LEMMA Forget ==
    ASSUME NEW s, NEW q, NEW d, NEW x, NEW r \in Req, Good(s, q, d, x, r, {}), s.req[r] = NoReq
    PROVE  Good(s, q, d, x, NULL, {})
<1>1. QueueInv(s, q, r) /\ AcceptInv(s, r, {})
  BY DEF Good
<1>2. \A i \in Req : i # NULL
  BY VfsAssumption DEF Req, CloseReq
<1>3. QueueInv(s, q, NULL)
  <2>1. q \in Seq(Req) /\ \A i \in DOMAIN q : q[i] \in Req
    BY <1>1 DEF QueueInv
  <2> QED BY <1>1, <1>2, <2>1 DEF QueueInv, NoReq
<1>4. AcceptInv(s, NULL, {})
  BY <1>1, <1>2 DEF AcceptInv, NoReq
<1> QED BY <1>3, <1>4 DEF Good

LEMMA HandleClose ==
    ASSUME NEW s, NEW x, NEW l, NEW hs, Good(s, s.queue, 0, x, l, hs), Served(s),
           NEW p \in Proc, NEW h \in s.handles[p],
           Cardinality(s.handles[p] \ {h}) <= HANDLE_MAX,
           \A i \in Proc \ {p} : Cardinality(s.handles[i]) <= HANDLE_MAX,
           s.h[h].type = "FILE" => Cardinality(Closing(s)) < MaxOpens,
           l \notin CloseReq, s.h[h].type = "FS_REQ" => l = NULL /\ hs = {}
    PROVE  Closed(s, handle_close(s, p, h), p, h, x, l, hs)
<1>1. s \in Kernel /\ HandlesInv(s) /\ h \in Handle
  BY DEF Good, Kernel
<1>2. s.h[h] \in [type : {"INVALID", "FILE", "FS_FRONT", "FS_REQ"}, req : Req \cup {NULL}, refcount : Nat]
  BY <1>1 DEF Kernel
<1>3. s.h[h].refcount # 0
  <2>1. p \in Owners(s, h)
    BY DEF Owners
  <2>2. Cardinality(Owners(s, h)) > 0
    BY <2>1, FiniteUses, OneMore
  <2> QED BY <1>1, <2>2 DEF HandlesInv
<1>4. s.h[h].type \in {"FILE", "FS_FRONT", "FS_REQ"} /\ s.h[h].refcount \in Nat
  BY <1>1, <1>2, <1>3 DEF HandlesInv
<1>5. Frame(s, s)
  BY DEF Frame
<1>6. Removed(s, gone(s, p, h), p, h, NoHandle)
  <2>1. s.h[h].refcount > 0
    BY <1>3, <1>4
  <2> QED BY <1>1, <2>1, DroppedFields
<1>7. CASE s.h[h].refcount > 1
  <2>1. PICK t : t = dropped(s, p, h)
    OBVIOUS
  <2>2. handle_close(s, p, h) = t
    BY <1>7, <2>1 DEF handle_close, dropped
  <2>3. Good(t, s.queue, 0, x, l, hs)
    BY <1>7, <2>1, DropGood
  <2>4. PICK new : new = [s.h[h] EXCEPT !.refcount = @ - 1]
    OBVIOUS
  <2>5. Removed(s, t, p, h, new)
    <3>1. s.h[h].refcount > 0
      BY <1>3, <1>4
    <3> QED BY <1>1, <2>1, <2>4, <3>1, DroppedFields
  <2>6. Fits(t)
    BY <2>5, RemovedFits
  <2>7. /\ t.queue = s.queue /\ t.req = s.req /\ t.provhcnt = s.provhcnt /\ t.handler = s.handler
        /\ t.h[h] = new /\ \A g \in Handle \ {h} : t.h[g] = s.h[g]
    BY <2>5 DEF Removed
  <2>8. Frame(t, t)
    BY DEF Frame
  <2>9. CloseFrame(s, t, p, h)
    BY <2>5, <2>8, RemovedFrame
  <2>10. Files(t) \subseteq Files(s) /\ Closing(t) \subseteq Closing(s) /\ Opening(t) \subseteq Opening(s)
    <3>1. new.type = s.h[h].type
      BY <1>2, <2>4
    <3> QED BY <1>1, <2>7, <3>1 DEF Files, Closing, Opening
  <2>11. OpenCount(t) <= OpenCount(s)
    BY <2>10, FewerOpens
  <2>12. Served(t)
    BY <2>7 DEF Served
  <2> QED BY <2>2, <2>3, <2>6, <2>7, <2>9, <2>11, <2>12 DEF Closed
<1>8. CASE s.h[h].refcount = 1 /\ s.h[h].type = "FILE"
  <2>1. handle_close(s, p, h) = close_file(gone(s, p, h))
    BY <1>8 DEF handle_close, gone, dropped, NoHandle
  <2> QED BY <1>8, <2>1, CloseFile
<1>9. CASE s.h[h].refcount = 1 /\ s.h[h].type # "FILE"
  <2>1. PICK e : e = gone(s, p, h)
    OBVIOUS
  <2>2. Removed(s, e, p, h, NoHandle)
    BY <1>6, <2>1
  <2>3. e.queue = s.queue /\ e.req = s.req /\ e.provhcnt = s.provhcnt /\ e.handler = s.handler
    BY <2>2 DEF Removed
  <2>4. Fits(e)
    BY <2>2, RemovedFits
  <2>5. Served(e)
    BY <2>3 DEF Served
  <2>6. Files(e) \subseteq Files(s) /\ Closing(e) \subseteq Closing(s) /\ Opening(e) \subseteq Opening(s)
    BY <1>1, <2>2 DEF Removed, Files, Closing, Opening, NoHandle
  <2>7. OpenCount(e) <= OpenCount(s) /\ OpenCount(e) \in Nat /\ OpenCount(s) \in Nat
    BY <2>6, FewerOpens, FiniteUses DEF OpenCount
  <2>8. CASE s.h[h].type = "FS_FRONT"
    <3>1. PICK t : t = refdown_use(e)
      OBVIOUS
    <3>2. handle_close(s, p, h) = t
      BY <1>9, <2>1, <2>8, <3>1 DEF handle_close, gone, dropped, NoHandle
    <3>3. Good(e, e.queue, 1, x, l, hs)
      BY <1>9, <2>1, <2>3, <2>8, GoneUse
    <3>4. e.usehcnt = 1 /\ e.provhcnt = 0 => e.queue = <<>>
      BY <3>3, NoQueue
    <3>5. Good(t, e.queue, 0, x, l, hs)
      BY <3>1, <3>3, <3>4, Refdown
    <3>6. /\ Frame(e, t) /\ t.queue = e.queue /\ t.handles = e.handles /\ t.req = e.req
          /\ OpenCount(t) = OpenCount(e) /\ Served(t)
      BY <2>5, <3>1, <3>3, <3>4, RefdownFrame
    <3>7. Fits(t)
      BY <2>4, <3>6 DEF Fits
    <3>8. CloseFrame(s, t, p, h)
      BY <2>2, <3>6, RemovedFrame
    <3> QED BY <2>3, <2>7, <3>2, <3>5, <3>6, <3>7, <3>8 DEF Closed
  <2>9. CASE s.h[h].type = "FS_REQ" /\ s.h[h].req = NULL
    <3>1. handle_close(s, p, h) = e
      BY <1>9, <2>1, <2>9 DEF handle_close, gone, dropped, NoHandle
    <3>2. Good(e, e.queue, 0, x, l, hs)
      BY <1>9, <2>1, <2>3, <2>9, GoneReq
    <3>3. Frame(e, e)
      BY DEF Frame
    <3>4. CloseFrame(s, e, p, h)
      BY <2>2, <3>3, RemovedFrame
    <3> QED BY <2>3, <2>4, <2>5, <2>7, <3>1, <3>2, <3>4 DEF Closed
  <2>10. CASE s.h[h].type = "FS_REQ" /\ s.h[h].req # NULL
    <3>1. PICK r \in Req : r = s.h[h].req
      BY <1>2, <2>10
    <3>2. PICK t : t = finish(e, r)
      OBVIOUS
    <3>3. handle_close(s, p, h) = t
      BY <1>9, <2>1, <2>10, <3>1, <3>2 DEF handle_close, gone, dropped, NoHandle
    <3>4. Good(e, e.queue, 0, x, r, {}) /\ e.req[r].st = "accepted"
      BY <1>9, <2>1, <2>3, <2>10, <3>1, GoneReq
    <3>5. e.usehcnt = 1 /\ e.provhcnt = 0 => e.queue = <<>>
      <4>1. r \in Busy(e)
        BY <3>4 DEF Busy
      <4> QED BY <4>1, <3>4, NoQueue
    <3>6. /\ Good(t, e.queue, 0, x, r, {}) /\ t.req[r] = NoReq
          /\ Frame(e, t) /\ t.handles = e.handles /\ t.queue = e.queue
          /\ t.handler \in {e.handler, NULL} /\ OpenCount(t) <= OpenCount(e)
      <4>1. e.req[r].st # "none"
        BY <3>4
      <4>2. Finished(e, t, e.queue, x, r, {})
        BY <3>2, <3>4, <3>5, <4>1, Finish
      <4> QED BY <4>2 DEF Finished
    <3>7. Good(t, t.queue, 0, x, NULL, {})
      BY <3>6, Forget
    <3>8. Fits(t)
      BY <2>4, <3>6 DEF Fits
    <3>9. CloseFrame(s, t, p, h)
      BY <2>2, <3>6, RemovedFrame
    <3>10. Served(t)
      BY <2>5, <3>6 DEF Served, Frame
    <3>11. OpenCount(t) <= OpenCount(s)
      <4>1. OpenCount(t) \in Nat
        BY FiniteUses DEF OpenCount
      <4> QED BY <2>7, <3>6, <4>1
    <3>12. l \notin Req
      BY <2>10, VfsAssumption DEF Req, CloseReq
    <3> QED BY <2>10, <3>3, <3>7, <3>8, <3>9, <3>10, <3>11, <3>12 DEF Closed
  <2> QED BY <1>4, <1>9, <2>8, <2>9, <2>10
<1> QED BY <1>3, <1>4, <1>7, <1>8, <1>9

-----------------------------------------------------------------------------
(* System calls. *)

\* Between system calls.
Calm(s) == Good(s, s.queue, 0, NULL, NULL, {}) /\ Served(s) /\ Fits(s)

LEMMA CalmNow ==
    ASSUME IndInv, phase = "none"
    PROVE  /\ Calm(k) /\ dying = NULL /\ OpenCount(k) <= opens /\ opens \in Nat /\ opens <= MaxOpens
           /\ OpenCount(k) \in Nat /\ OpenCount(k) <= MaxOpens /\ drain \in Seq(Req)
<1>1. OpenCount(k) \in Nat
  BY FiniteUses DEF OpenCount
<1>2. opens \in Nat /\ opens <= MaxOpens /\ OpenCount(k) <= opens
  BY VfsAssumption DEF IndInv
<1> QED BY <1>1, <1>2, VfsAssumption DEF IndInv, StepInv, Calm

LEMMA CalmNext ==
    ASSUME IndInv, phase = "none", Done, opens' \in 0..MaxOpens,
           Calm(k'), OpenCount(k') <= opens'
    PROVE  IndInv'
<1>1. phase' = phase /\ dying' = NULL /\ drain' = drain /\ drain \in Seq(Req)
  BY CalmNow DEF Done
<1>2. StepInv'
  BY <1>1 DEF StepInv, Calm
<1> QED BY <1>1, <1>2 DEF IndInv, Calm

\* A process that runs has no request.
LEMMA RunnerFree ==
    ASSUME NEW s, NEW x, Good(s, s.queue, 0, x, NULL, {}), NEW p \in Proc, s.state[p] = "RUNNING", p # x
    PROVE  p \in Req /\ p # NULL /\ s.req[p].st = "none"
<1>1. ReqInv(s, x) /\ s \in Kernel
  BY DEF Good
<1>2. p \in Req /\ s.req[p].caller \in Proc \cup {NULL}
  BY <1>1 DEF Req, Kernel
<1>3. s.req[p].caller # p
  BY <1>1 DEF ReqInv
<1>4. s.req[p].caller = NULL
  BY <1>1, <1>2, <1>3 DEF ReqInv
<1> QED BY <1>1, <1>2, <1>4, VfsAssumption DEF ReqInv

LEMMA UsedByHandle ==
    ASSUME NEW s, NEW q, NEW d \in Nat, NEW x, NEW l, NEW hs, Good(s, q, d, x, l, hs),
           NEW h \in Handle, s.h[h].type \in {"FILE", "FS_FRONT"}
    PROVE  s.usehcnt > 0
<1>1. CountInv(s, d)
  BY DEF Good
<1>2. h \in UseHandles(s)
  BY DEF UseHandles
<1>3. Cardinality(UseHandles(s)) > 0
  BY <1>2, FiniteUses, OneMore
<1> QED BY <1>1, <1>3, FiniteUses DEF CountInv

LEMMA UsedByMount ==
    ASSUME NEW s, NEW q, NEW d \in Nat, NEW x, NEW l, NEW hs, Good(s, q, d, x, l, hs),
           NEW p \in Proc, s.mount[p] # NULL
    PROVE  s.mount[p] \in Proc /\ s.mrefs[s.mount[p]] > 0 /\ s.usehcnt > 0
<1>1. CountInv(s, d) /\ s \in Kernel
  BY DEF Good
<1>2. PICK m \in Proc : m = s.mount[p]
  BY <1>1 DEF Kernel
<1>3. p \in MountedAt(s, m)
  BY <1>2 DEF MountedAt
<1>4. Cardinality(MountedAt(s, m)) > 0
  BY <1>3, FiniteUses, OneMore
<1>5. s.mrefs[m] > 0
  BY <1>1, <1>4 DEF CountInv
<1>6. m \in Mounts(s)
  BY <1>5 DEF Mounts
<1>7. Cardinality(Mounts(s)) > 0
  BY <1>6, FiniteUses, OneMore
<1> QED BY <1>1, <1>2, <1>5, <1>7, FiniteUses DEF CountInv

\* A file that is open has a number for the request to close it.
LEMMA ClosingRoom ==
    ASSUME NEW s, NEW h \in Handle, s.h[h].type = "FILE", OpenCount(s) <= MaxOpens
    PROVE  Cardinality(Closing(s)) < MaxOpens
<1>1. h \in Files(s)
  BY DEF Files
<1>2. Cardinality(Files(s)) > 0
  BY <1>1, FiniteUses, OneMore
<1> QED BY <1>2, FiniteUses, VfsAssumption DEF OpenCount

LEMMA OpenInd == ASSUME IndInv, NEW p \in Proc, Open(p) PROVE IndInv'
<1>1. /\ phase = "none" /\ k.state[p] = "RUNNING" /\ k.mount[p] # NULL /\ opens < MaxOpens
      /\ opens' = opens + 1 /\ k' = vfsreq_create(k, p, "OPEN", p) /\ Done
  BY DEF Open, Running
<1>2. /\ Calm(k) /\ OpenCount(k) <= opens /\ opens \in Nat /\ OpenCount(k) \in Nat
  BY <1>1, CalmNow
<1>3. Good(k, k.queue, 0, NULL, NULL, {}) /\ Served(k) /\ Fits(k)
  BY <1>2 DEF Calm
<1>4. p \in Req /\ p # NULL /\ k.req[p].st = "none"
  BY <1>1, <1>3, RunnerFree, VfsAssumption
<1>5. k.usehcnt > 0
  BY <1>1, <1>3, UsedByMount
<1>6. MayMake(k, p, "OPEN", p, NULL)
  BY <1>1, <1>4 DEF MayMake, Ops
<1>7. PICK t : t = vfsreq_create(k, p, "OPEN", p)
  OBVIOUS
<1>8. /\ Good(t, t.queue, 0, NULL, NULL, {}) /\ Fits(t) /\ Served(t)
      /\ OpenCount(t) <= OpenCount(k) + 1
  <2>1. Created(k, t, "OPEN", p, 0, NULL, NULL, {})
    BY <1>3, <1>4, <1>5, <1>6, <1>7, Create
  <2> QED BY <1>3, <2>1 DEF Created
<1>9. OpenCount(t) <= opens' /\ opens' \in 0..MaxOpens
  <2>1. OpenCount(t) \in Nat
    BY FiniteUses DEF OpenCount
  <2> QED BY <1>1, <1>2, <1>8, <2>1, VfsAssumption
<1>10. Calm(k') /\ OpenCount(k') <= opens'
  BY <1>1, <1>7, <1>8, <1>9 DEF Calm
<1> QED BY <1>1, <1>9, <1>10, CalmNext

LEMMA FileOpInd == ASSUME IndInv, NEW p \in Proc, FileOp(p) PROVE IndInv'
<1>1. phase = "none" /\ k.state[p] = "RUNNING"
  BY DEF FileOp, Running
<1>2. PICK h \in k.handles[p], op \in {"READ", "WRITE", "GETSIZE"} :
        k.h[h].type = "FILE" /\ Step(vfsreq_create(k, p, op, p))
  BY DEF FileOp
<1>3. /\ Calm(k) /\ OpenCount(k) <= opens /\ opens \in Nat /\ opens <= MaxOpens /\ OpenCount(k) \in Nat
  BY <1>1, CalmNow
<1>4. Good(k, k.queue, 0, NULL, NULL, {}) /\ Served(k) /\ Fits(k)
  BY <1>3 DEF Calm
<1>5. p \in Req /\ p # NULL /\ k.req[p].st = "none"
  BY <1>1, <1>4, RunnerFree, VfsAssumption
<1>6. h \in Handle
  BY <1>4 DEF Good, Kernel
<1>7. k.usehcnt > 0
  BY <1>2, <1>4, <1>6, UsedByHandle
<1>8. MayMake(k, p, op, p, NULL) /\ op \notin {"OPEN", "CLOSE"}
  BY <1>1, <1>5 DEF MayMake, Ops
<1>9. PICK t : t = vfsreq_create(k, p, op, p)
  OBVIOUS
<1>10. /\ Good(t, t.queue, 0, NULL, NULL, {}) /\ Fits(t) /\ Served(t)
       /\ OpenCount(t) <= OpenCount(k)
  <2>1. Created(k, t, op, p, 0, NULL, NULL, {})
    BY <1>4, <1>5, <1>7, <1>8, <1>9, Create
  <2> QED BY <1>4, <1>8, <2>1 DEF Created
<1>11. OpenCount(t) <= opens /\ opens \in 0..MaxOpens
  <2>1. OpenCount(t) \in Nat
    BY FiniteUses DEF OpenCount
  <2> QED BY <1>3, <1>10, <2>1, VfsAssumption
<1>12. Calm(k') /\ OpenCount(k') <= opens' /\ opens' \in 0..MaxOpens /\ Done
  BY <1>2, <1>9, <1>10, <1>11 DEF Calm, Step
<1> QED BY <1>1, <1>12, CalmNext

\* handle_close when the tables are not too full, and no request is being
\* finished.
LEMMA CloseCalm ==
    ASSUME NEW s, NEW x, Good(s, s.queue, 0, x, NULL, {}), Served(s), Fits(s), OpenCount(s) <= MaxOpens,
           NEW p \in Proc, NEW h \in s.handles[p]
    PROVE  Closed(s, handle_close(s, p, h), p, h, x, NULL, {})
<1>1. s \in Kernel /\ h \in Handle
  BY DEF Good, Kernel
<1>2. Cardinality(s.handles[p] \ {h}) <= HANDLE_MAX
  <2>1. s.handles[p] \in SUBSET Handle /\ (s.handles[p] \ {h}) \in SUBSET Handle
    BY <1>1 DEF Kernel
  <2>2. Cardinality(s.handles[p]) \in Nat /\ Cardinality(s.handles[p] \ {h}) \in Nat
    BY <2>1, FiniteSets
  <2>3. Cardinality(s.handles[p] \ {h}) <= Cardinality(s.handles[p]) /\ Cardinality(s.handles[p]) <= HANDLE_MAX
    BY <1>1, SmallerTable DEF Fits
  <2> QED BY <2>2, <2>3, VfsAssumption
<1>3. \A i \in Proc \ {p} : Cardinality(s.handles[i]) <= HANDLE_MAX
  BY DEF Fits
<1>4. s.h[h].type = "FILE" => Cardinality(Closing(s)) < MaxOpens
  BY <1>1, ClosingRoom
<1>5. NULL \notin CloseReq
  BY VfsAssumption DEF CloseReq
<1> QED BY <1>2, <1>3, <1>4, <1>5, HandleClose

LEMMA CloseInd == ASSUME IndInv, NEW p \in Proc, Close(p) PROVE IndInv'
<1>1. phase = "none" /\ k.state[p] = "RUNNING"
  BY DEF Close, Running
<1>2. PICK h \in k.handles[p] : Step(handle_close(k, p, h))
  BY DEF Close
<1>3. /\ Calm(k) /\ OpenCount(k) <= opens /\ opens \in Nat /\ opens <= MaxOpens /\ OpenCount(k) \in Nat
      /\ OpenCount(k) <= MaxOpens
  BY <1>1, CalmNow
<1>4. Good(k, k.queue, 0, NULL, NULL, {}) /\ Served(k) /\ Fits(k)
  BY <1>3 DEF Calm
<1>5. PICK t : t = handle_close(k, p, h)
  OBVIOUS
<1>6. Closed(k, t, p, h, NULL, NULL, {})
  BY <1>3, <1>4, <1>5, CloseCalm
<1>7. Calm(t) /\ OpenCount(t) <= opens
  <2>1. OpenCount(t) \in Nat
    BY FiniteUses DEF OpenCount
  <2> QED BY <1>3, <1>6, <2>1 DEF Closed, Calm
<1>8. Calm(k') /\ OpenCount(k') <= opens' /\ opens' \in 0..MaxOpens /\ Done
  BY <1>2, <1>3, <1>5, <1>7, VfsAssumption DEF Step
<1> QED BY <1>1, <1>8, CalmNext

LEMMA RemoveInd == ASSUME IndInv, NEW p \in Proc, Remove(p) PROVE IndInv'
<1>1. phase = "none" /\ k.state[p] = "RUNNING"
  BY DEF Remove, Running
<1>2. PICK h \in k.handles[p] :
        k.h[h].type = "FILE" /\ Step(handle_close(vfsreq_create(k, p, "REMOVE", p), p, h))
  BY DEF Remove
<1>3. /\ Calm(k) /\ OpenCount(k) <= opens /\ opens \in Nat /\ opens <= MaxOpens /\ OpenCount(k) \in Nat
  BY <1>1, CalmNow
<1>4. Good(k, k.queue, 0, NULL, NULL, {}) /\ Served(k) /\ Fits(k)
  BY <1>3 DEF Calm
<1>5. p \in Req /\ p # NULL /\ k.req[p].st = "none"
  BY <1>1, <1>4, RunnerFree, VfsAssumption
<1>6. h \in Handle
  BY <1>4 DEF Good, Kernel
<1>7. k.usehcnt > 0
  BY <1>2, <1>4, <1>6, UsedByHandle
<1>8. MayMake(k, p, "REMOVE", p, NULL) /\ "REMOVE" \notin {"OPEN", "CLOSE"}
  BY <1>1, <1>5 DEF MayMake, Ops
<1>9. PICK c : c = vfsreq_create(k, p, "REMOVE", p)
  OBVIOUS
<1>10. Created(k, c, "REMOVE", p, 0, NULL, NULL, {})
  BY <1>4, <1>5, <1>7, <1>8, <1>9, Create
<1>11. /\ Good(c, c.queue, 0, NULL, NULL, {}) /\ Fits(c) /\ Served(c) /\ OpenCount(c) <= OpenCount(k)
       /\ c.handles[p] = k.handles[p]
  <2>1. c.handles[p] = k.handles[p]
    BY <1>1, <1>10 DEF Created, CallFrame
  <2> QED BY <1>4, <1>8, <1>10, <2>1 DEF Created
<1>12. OpenCount(c) <= opens /\ OpenCount(c) <= MaxOpens /\ OpenCount(c) \in Nat
  <2>1. OpenCount(c) \in Nat
    BY FiniteUses DEF OpenCount
  <2> QED BY <1>3, <1>11, <2>1, VfsAssumption
<1>13. PICK t : t = handle_close(c, p, h)
  OBVIOUS
<1>14. h \in c.handles[p]
  BY <1>11
<1>15. Closed(c, t, p, h, NULL, NULL, {})
  BY <1>11, <1>12, <1>13, <1>14, CloseCalm
<1>16. Calm(t) /\ OpenCount(t) <= opens
  <2>1. OpenCount(t) \in Nat
    BY FiniteUses DEF OpenCount
  <2> QED BY <1>3, <1>12, <1>15, <2>1 DEF Closed, Calm
<1>17. Calm(k') /\ OpenCount(k') <= opens' /\ opens' \in 0..MaxOpens /\ Done
  BY <1>2, <1>3, <1>9, <1>13, <1>16, VfsAssumption DEF Step
<1> QED BY <1>1, <1>17, CalmNext

\* t is s where p has mounted the backend.
Mounted(s, t, p) ==
    /\ t \in Kernel
    /\ t.mount = [s.mount EXCEPT ![p] = p] /\ t.mrefs = [s.mrefs EXCEPT ![p] = 1]
    /\ t.usehcnt = s.usehcnt + 1 /\ t.state = s.state
    /\ t.handles = s.handles /\ t.h = s.h /\ t.controlled = s.controlled /\ t.req = s.req
    /\ t.provhcnt = s.provhcnt /\ t.backend = s.backend
    /\ t.panic = s.panic /\ t.handler = s.handler /\ t.queue = s.queue

mounted(s, p) == [s EXCEPT !.mount[p] = p, !.mrefs[p] = 1, !.usehcnt = @ + 1]

LEMMA MountFields ==
    ASSUME NEW s \in Kernel, NEW p \in Proc
    PROVE  Mounted(s, mounted(s, p), p)
<1> DEFINE mt == [s.mount EXCEPT ![p] = p]
           mr == [s.mrefs EXCEPT ![p] = 1]
<1>0. PICK t : t = mounted(s, p)
  OBVIOUS
<1>1. mt \in [Proc -> Proc \cup {NULL}] /\ mr \in [Proc -> Nat] /\ s.usehcnt + 1 \in Nat
  BY DEF Kernel
<1>2. t = [s EXCEPT !.mount = mt, !.mrefs = mr, !.usehcnt = s.usehcnt + 1]
  BY <1>0 DEF mounted
<1> HIDE DEF mt, mr
<1>3. t \in Kernel
  BY <1>1, <1>2 DEF Kernel
<1>4. /\ t.mount = mt /\ t.mrefs = mr
      /\ t.usehcnt = s.usehcnt + 1 /\ t.state = s.state
      /\ t.handles = s.handles /\ t.h = s.h /\ t.controlled = s.controlled /\ t.req = s.req
      /\ t.provhcnt = s.provhcnt /\ t.backend = s.backend
      /\ t.panic = s.panic /\ t.handler = s.handler /\ t.queue = s.queue
  BY <1>2 DEF Kernel
<1> QED BY <1>0, <1>3, <1>4 DEF mt, mr, Mounted

LEMMA MountInd == ASSUME IndInv, NEW p \in Proc, Mount(p) PROVE IndInv'
<1>1. /\ phase = "none" /\ k.state[p] = "RUNNING" /\ k.mount[p] = NULL /\ k.mrefs[p] = 0
      /\ \E h \in k.handles[p] : k.h[h].type = "FS_FRONT"
      /\ Step(Check([k EXCEPT !.mount[p] = p, !.mrefs[p] = 1, !.usehcnt = @ + 1], k.usehcnt > 0, "refs"))
  BY DEF Mount, Running
<1>2. /\ Calm(k) /\ OpenCount(k) <= opens /\ opens \in Nat /\ opens <= MaxOpens /\ OpenCount(k) \in Nat
  BY <1>1, CalmNow
<1>3. Good(k, k.queue, 0, NULL, NULL, {}) /\ Served(k) /\ Fits(k)
  BY <1>2 DEF Calm
<1>4. /\ k \in Kernel /\ k.panic = "none"
      /\ HandlesInv(k) /\ DeadInv(k) /\ CountInv(k, 0) /\ ReqInv(k, NULL)
      /\ QueueInv(k, k.queue, NULL) /\ AcceptInv(k, NULL, {}) /\ HandlerInv(k, NULL)
  BY <1>3 DEF Good
<1>5. k.usehcnt > 0 /\ k.usehcnt \in Nat
  <2>1. PICK h \in k.handles[p] : k.h[h].type = "FS_FRONT"
    BY <1>1
  <2>2. h \in Handle
    BY <1>4 DEF Kernel
  <2> QED BY <1>3, <1>4, <2>1, <2>2, UsedByHandle DEF Kernel
<1>6. PICK t : t = mounted(k, p)
  OBVIOUS
<1>7. k' = t /\ Done /\ opens' = opens
  BY <1>1, <1>5, <1>6 DEF Step, Check, mounted
<1>8. /\ t \in Kernel
      /\ t.mount = [k.mount EXCEPT ![p] = p] /\ t.mrefs = [k.mrefs EXCEPT ![p] = 1]
      /\ t.usehcnt = k.usehcnt + 1 /\ t.state = k.state
      /\ t.handles = k.handles /\ t.h = k.h /\ t.controlled = k.controlled /\ t.req = k.req
      /\ t.provhcnt = k.provhcnt /\ t.backend = k.backend
      /\ t.panic = k.panic /\ t.handler = k.handler /\ t.queue = k.queue
  <2>1. k \in Kernel
    BY <1>4
  <2>2. Mounted(k, t, p)
    BY <2>1, <1>6, MountFields
  <2> QED BY <2>2 DEF Mounted
<1>9. /\ \A i \in Proc : t.mount[i] = IF i = p THEN p ELSE k.mount[i]
      /\ \A i \in Proc : t.mrefs[i] = IF i = p THEN 1 ELSE k.mrefs[i]
  BY <1>4, <1>8 DEF Kernel
<1>10. HandlesInv(t)
  BY <1>4, <1>8 DEF HandlesInv, Owners
<1>11. DeadInv(t)
  BY <1>1, <1>4, <1>8, <1>9 DEF DeadInv, Alive
<1>12. CountInv(t, 0)
  <2>1. UseHandles(t) = UseHandles(k) /\ Busy(t) = Busy(k) /\ Providers(t) = Providers(k)
    BY <1>8 DEF UseHandles, Busy, Providers
  <2>2. Mounts(t) = Mounts(k) \cup {p} /\ p \notin Mounts(k)
    BY <1>1, <1>9 DEF Mounts
  <2>3. Cardinality(Mounts(t)) = Cardinality(Mounts(k)) + 1
    BY <2>2, FiniteUses, OneMore
  <2>4. \A m \in Proc \ {p} : MountedAt(t, m) = MountedAt(k, m)
    BY <1>1, <1>9, VfsAssumption DEF MountedAt
  <2>5. MountedAt(k, p) = {}
    <3>1. Cardinality(MountedAt(k, p)) = 0
      BY <1>1, <1>4 DEF CountInv
    <3> QED BY <3>1, FiniteUses, FS_EmptySet
  <2>6. MountedAt(t, p) = {p}
    BY <1>9, <2>5 DEF MountedAt
  <2>7. \A m \in Proc : t.mrefs[m] = Cardinality(MountedAt(t, m))
    BY <1>4, <1>9, <2>4, <2>6, FS_Singleton DEF CountInv
  <2>8. t.usehcnt = Cardinality(UseHandles(t)) + Cardinality(Mounts(t)) + Cardinality(Busy(t)) + 0
    BY <1>4, <1>8, <2>1, <2>3, FiniteUses DEF CountInv
  <2>9. t.usehcnt > 0 /\ t.backend = "live"
    BY <1>4, <1>5, <1>8 DEF CountInv
  <2> QED BY <1>4, <1>8, <2>1, <2>7, <2>8, <2>9 DEF CountInv
<1>13. ReqInv(t, NULL) /\ QueueInv(t, t.queue, NULL)
  BY <1>4, <1>8 DEF ReqInv, QueueInv
<1>14. AcceptInv(t, NULL, {})
  BY <1>4, <1>8 DEF AcceptInv, HandlesOf
<1>15. HandlerInv(t, NULL)
  BY <1>4, <1>5, <1>8 DEF HandlerInv
<1>16. Good(t, t.queue, 0, NULL, NULL, {})
  BY <1>4, <1>8, <1>10, <1>11, <1>12, <1>13, <1>14, <1>15 DEF Good
<1>17. Served(t) /\ Fits(t)
  BY <1>3, <1>8 DEF Served, Fits
<1>18. OpenCount(t) = OpenCount(k)
  BY <1>8 DEF OpenCount, Files, Closing, Opening
<1>19. Calm(k') /\ OpenCount(k') <= opens' /\ opens' \in 0..MaxOpens
  BY <1>2, <1>7, <1>16, <1>17, <1>18, VfsAssumption DEF Calm
<1> QED BY <1>1, <1>7, <1>19, CalmNext

\* t is s where p has become the handler.
Waiting(s, t, p) ==
    /\ t \in Kernel
    /\ t.state = [s.state EXCEPT ![p] = "WAITS4REQUEST"] /\ t.handler = p
    /\ t.mount = s.mount /\ t.mrefs = s.mrefs /\ t.usehcnt = s.usehcnt
    /\ t.handles = s.handles /\ t.h = s.h /\ t.controlled = s.controlled /\ t.req = s.req
    /\ t.provhcnt = s.provhcnt /\ t.backend = s.backend
    /\ t.panic = s.panic /\ t.queue = s.queue

waiting(s, p) == [s EXCEPT !.state[p] = "WAITS4REQUEST", !.handler = p]

LEMMA WaitFields ==
    ASSUME NEW s \in Kernel, NEW p \in Proc
    PROVE  Waiting(s, waiting(s, p), p)
<1> DEFINE st == [s.state EXCEPT ![p] = "WAITS4REQUEST"]
<1>0. PICK t : t = waiting(s, p)
  OBVIOUS
<1>1. st \in [Proc -> {"NEW", "RUNNING", "WAITS4FS", "WAITS4REQUEST", "DEAD"}]
  BY DEF Kernel
<1>2. t = [s EXCEPT !.state = st, !.handler = p]
  BY <1>0 DEF waiting
<1> HIDE DEF st
<1>3. t \in Kernel
  BY <1>1, <1>2 DEF Kernel
<1>4. /\ t.state = st /\ t.handler = p
      /\ t.mount = s.mount /\ t.mrefs = s.mrefs /\ t.usehcnt = s.usehcnt
      /\ t.handles = s.handles /\ t.h = s.h /\ t.controlled = s.controlled /\ t.req = s.req
      /\ t.provhcnt = s.provhcnt /\ t.backend = s.backend
      /\ t.panic = s.panic /\ t.queue = s.queue
  BY <1>2 DEF Kernel
<1> QED BY <1>0, <1>3, <1>4 DEF st, Waiting

LEMMA FsWaitInd == ASSUME Risks = {}, IndInv, NEW p \in Proc, FsWait(p) PROVE IndInv'
<1>1. /\ phase = "none" /\ k.state[p] = "RUNNING" /\ k.controlled[p]
      /\ k.handler = NULL /\ ~TableFull(k, p)
      /\ Step(IF k.usehcnt = 0 THEN k
              ELSE Check(tryaccept([k EXCEPT !.state[p] = "WAITS4REQUEST", !.handler = p]),
                         k.handler = NULL, "two_handlers"))
  BY DEF FsWait, Running
<1>2. /\ Calm(k) /\ OpenCount(k) <= opens /\ opens \in Nat /\ opens <= MaxOpens /\ OpenCount(k) \in Nat
  BY <1>1, CalmNow
<1>3. Good(k, k.queue, 0, NULL, NULL, {}) /\ Served(k) /\ Fits(k)
  BY <1>2 DEF Calm
<1>a. p \in Req /\ p # NULL /\ k.req[p].st = "none"
  <2>1. k.state[p] = "RUNNING" /\ p # NULL /\ Good(k, k.queue, 0, NULL, NULL, {})
    BY <1>1, <1>3, VfsAssumption
  <2> QED BY <2>1, RunnerFree
<1>4. CASE k.usehcnt = 0
  <2>1. k' = k /\ Done /\ opens' = opens
    BY <1>1, <1>4 DEF Step
  <2>2. Calm(k') /\ OpenCount(k') <= opens' /\ opens' \in 0..MaxOpens
    BY <1>2, <2>1, VfsAssumption
  <2> QED BY <1>1, <2>1, <2>2, CalmNext
<1>5. CASE k.usehcnt # 0
  <2>1. /\ k \in Kernel /\ k.panic = "none"
        /\ HandlesInv(k) /\ DeadInv(k) /\ CountInv(k, 0) /\ ReqInv(k, NULL)
        /\ QueueInv(k, k.queue, NULL) /\ AcceptInv(k, NULL, {}) /\ HandlerInv(k, NULL)
    BY <1>3 DEF Good
  <2>2. PICK e : e = waiting(k, p)
    OBVIOUS
  <2>3. /\ e \in Kernel
        /\ e.state = [k.state EXCEPT ![p] = "WAITS4REQUEST"] /\ e.handler = p
        /\ e.mount = k.mount /\ e.mrefs = k.mrefs /\ e.usehcnt = k.usehcnt
        /\ e.handles = k.handles /\ e.h = k.h /\ e.controlled = k.controlled /\ e.req = k.req
        /\ e.provhcnt = k.provhcnt /\ e.backend = k.backend
        /\ e.panic = k.panic /\ e.queue = k.queue
    <3>1. k \in Kernel
      BY <2>1
    <3>2. Waiting(k, e, p)
      BY <2>2, <3>1, WaitFields
    <3> QED BY <3>2 DEF Waiting
  <2>4. \A i \in Proc : e.state[i] = IF i = p THEN "WAITS4REQUEST" ELSE k.state[i]
    BY <2>1, <2>3 DEF Kernel
  <2>5. HandlesInv(e)
    BY <2>1, <2>3 DEF HandlesInv, Owners
  <2>6. DeadInv(e)
    BY <2>1, <2>3, <2>4 DEF DeadInv, Alive
  <2>7. CountInv(e, 0)
    BY <2>1, <2>3 DEF CountInv, UseHandles, Mounts, Busy, Providers, MountedAt
  <2>8. ReqInv(e, NULL)
    <3>1. k.req[p].st = "none" /\ p \in Req
      BY <1>a
    <3>2. k.req[p].caller = NULL
      BY <2>1, <3>1 DEF ReqInv, NoReq
    <3>3. \A i \in Proc : e.req[i].caller = i => e.state[i] = "WAITS4FS"
      BY <2>1, <2>3, <2>4, <3>2, VfsAssumption DEF ReqInv
    <3>4. \A i \in Proc \ {NULL} : e.state[i] = "WAITS4FS" => e.req[i].caller = i
      BY <2>1, <2>3, <2>4 DEF ReqInv
    <3>5. \A i \in Proc \ {NULL} : e.req[i].st # "none" /\ e.req[i].caller = NULL => e.state[i] = "DEAD"
      BY <2>1, <2>3, <2>4, <3>1 DEF ReqInv
    <3> QED BY <2>1, <2>3, <3>3, <3>4, <3>5 DEF ReqInv
  <2>9. QueueInv(e, e.queue, NULL)
    BY <2>1, <2>3 DEF QueueInv
  <2>10. AcceptInv(e, NULL, {})
    BY <2>1, <2>3 DEF AcceptInv, HandlesOf
  <2>11. HandlerInv(e, NULL)
    <3>1. k.usehcnt > 0
      BY <1>5, <2>1 DEF Kernel
    <3>2. Cardinality(k.handles[p]) < HANDLE_MAX
      <4>1. k.handles[p] \in SUBSET Handle
        BY <2>1 DEF Kernel
      <4>2. Cardinality(k.handles[p]) \in Nat
        BY <4>1, FiniteSets
      <4> QED BY <1>1, <1>3, <4>2, VfsAssumption DEF TableFull, Fits
    <3>3. \A i \in Proc \ {NULL} : e.state[i] = "WAITS4REQUEST" => e.handler = i
      BY <1>1, <2>1, <2>3, <2>4, VfsAssumption DEF HandlerInv
    <3> QED BY <1>1, <2>3, <2>4, <3>1, <3>2, <3>3 DEF HandlerInv
  <2>12. Good(e, e.queue, 0, NULL, NULL, {}) /\ Fits(e)
    BY <1>3, <2>1, <2>3, <2>5, <2>6, <2>7, <2>8, <2>9, <2>10, <2>11 DEF Good, Fits
  <2>13. PICK t : t = tryaccept(e)
    OBVIOUS
  <2>14. /\ Good(t, t.queue, 0, NULL, NULL, {}) /\ Fits(t)
         /\ t.handler = NULL \/ t.queue = <<>>
         /\ Frame(e, t) /\ OpenCount(t) = OpenCount(e)
    BY <2>12, <2>13, TryAccept
  <2>15. k.provhcnt > 0
    <3>1. p \in Providers(k)
      BY <1>1 DEF Providers
    <3>2. Cardinality(Providers(k)) > 0
      BY <3>1, FiniteUses, OneMore
    <3> QED BY <2>1, <3>2 DEF CountInv
  <2>16. Served(t)
    BY <2>3, <2>14, <2>15 DEF Served, Frame
  <2>17. OpenCount(e) = OpenCount(k)
    BY <2>3 DEF OpenCount, Files, Closing, Opening
  <2>18. k' = t /\ Done /\ opens' = opens
    BY <1>1, <1>5, <2>2, <2>13 DEF Step, Check, waiting
  <2>19. Calm(k') /\ OpenCount(k') <= opens' /\ opens' \in 0..MaxOpens
    BY <1>2, <2>14, <2>16, <2>17, <2>18, VfsAssumption DEF Calm
  <2> QED BY <1>1, <2>18, <2>19, CalmNext
<1> QED BY <1>4, <1>5

\* t is k where c is a child of p.  Who provides the backend, and how much it
\* is used, is as given.
Forked(s, t, p, c, b, prov, use, be) ==
    /\ t \in Kernel
    /\ \A i \in Proc : t.state[i] = IF i = c THEN "RUNNING" ELSE s.state[i]
    /\ \A i \in Proc : t.handles[i] = IF i = c THEN s.handles[p] ELSE s.handles[i]
    /\ \A g \in Handle : /\ t.h[g].type = s.h[g].type /\ t.h[g].req = s.h[g].req
                         /\ t.h[g].refcount = IF g \in s.handles[p] THEN s.h[g].refcount + 1
                                              ELSE s.h[g].refcount
                         /\ g \notin s.handles[p] => t.h[g] = s.h[g]
    /\ \A i \in Proc : t.mount[i] = IF i = c THEN s.mount[p] ELSE s.mount[i]
    /\ \A m \in Proc : t.mrefs[m] = IF m = s.mount[p] THEN s.mrefs[m] + 1 ELSE s.mrefs[m]
    /\ \A i \in Proc : t.controlled[i] = IF i = c THEN b ELSE s.controlled[i]
    /\ t.provhcnt = prov /\ t.usehcnt = use /\ t.backend = be
    /\ t.req = s.req /\ t.panic = s.panic /\ t.handler = s.handler /\ t.queue = s.queue

newfs(p, c) ==
    [forked(p, c) EXCEPT !.controlled[c] = TRUE, !.backend = "live", !.provhcnt = 1, !.usehcnt = 1]

LEMMA ForkFields ==
    ASSUME k \in Kernel, NEW p \in Proc, NEW c \in Proc
    PROVE  /\ Forked(k, provided(forked(p, c), p, c), p, c, k.controlled[p],
                     IF k.controlled[p] THEN k.provhcnt + 1 ELSE k.provhcnt, k.usehcnt, k.backend)
           /\ Forked(k, newfs(p, c), p, c, TRUE, 1, 1, "live")
<1> DEFINE st == [k.state EXCEPT ![c] = "RUNNING"]
           hd == [k.handles EXCEPT ![c] = k.handles[p]]
           hh == [h \in Handle |-> IF h \in k.handles[p]
                                   THEN [k.h[h] EXCEPT !.refcount = k.h[h].refcount + 1] ELSE k.h[h]]
           mt == [k.mount EXCEPT ![c] = k.mount[p]]
           mr == [m \in Proc |-> IF m = k.mount[p] THEN k.mrefs[m] + 1 ELSE k.mrefs[m]]
           c1 == [k.controlled EXCEPT ![c] = k.controlled[p]]
           c2 == [k.controlled EXCEPT ![c] = TRUE]
           pv == IF k.controlled[p] THEN k.provhcnt + 1 ELSE k.provhcnt
<1>1. /\ k.state \in [Proc -> {"NEW", "RUNNING", "WAITS4FS", "WAITS4REQUEST", "DEAD"}]
      /\ k.handles \in [Proc -> SUBSET Handle]
      /\ k.controlled \in [Proc -> BOOLEAN]
      /\ k.mount \in [Proc -> Proc \cup {NULL}]
      /\ k.mrefs \in [Proc -> Nat]
      /\ k.h \in [Handle -> [type : {"INVALID", "FILE", "FS_FRONT", "FS_REQ"},
                             req : Req \cup {NULL}, refcount : Nat]]
      /\ k.provhcnt \in Nat
  BY DEF Kernel
<1>2. \A h \in Handle :
        /\ hh[h] \in [type : {"INVALID", "FILE", "FS_FRONT", "FS_REQ"},
                      req : Req \cup {NULL}, refcount : Nat]
        /\ hh[h].type = k.h[h].type /\ hh[h].req = k.h[h].req
        /\ hh[h].refcount = IF h \in k.handles[p] THEN k.h[h].refcount + 1 ELSE k.h[h].refcount
        /\ h \notin k.handles[p] => hh[h] = k.h[h]
  <2> TAKE h \in Handle
  <2>1. PICK o : o = k.h[h]
    OBVIOUS
  <2>2. o \in [type : {"INVALID", "FILE", "FS_FRONT", "FS_REQ"}, req : Req \cup {NULL}, refcount : Nat]
    BY <1>1, <2>1
  <2>3. hh[h] = IF h \in k.handles[p] THEN [o EXCEPT !.refcount = o.refcount + 1] ELSE o
    BY <2>1
  <2> HIDE DEF hh
  <2> QED BY <2>1, <2>2, <2>3
<1>3. hh \in [Handle -> [type : {"INVALID", "FILE", "FS_FRONT", "FS_REQ"},
                         req : Req \cup {NULL}, refcount : Nat]]
  BY <1>2
<1>4. /\ st \in [Proc -> {"NEW", "RUNNING", "WAITS4FS", "WAITS4REQUEST", "DEAD"}]
      /\ hd \in [Proc -> SUBSET Handle] /\ mt \in [Proc -> Proc \cup {NULL}]
      /\ mr \in [Proc -> Nat] /\ c1 \in [Proc -> BOOLEAN] /\ c2 \in [Proc -> BOOLEAN] /\ pv \in Nat
  BY <1>1
<1>5. /\ \A i \in Proc : st[i] = IF i = c THEN "RUNNING" ELSE k.state[i]
      /\ \A i \in Proc : hd[i] = IF i = c THEN k.handles[p] ELSE k.handles[i]
      /\ \A i \in Proc : mt[i] = IF i = c THEN k.mount[p] ELSE k.mount[i]
      /\ \A m \in Proc : mr[m] = IF m = k.mount[p] THEN k.mrefs[m] + 1 ELSE k.mrefs[m]
      /\ \A i \in Proc : c1[i] = IF i = c THEN k.controlled[p] ELSE k.controlled[i]
      /\ \A i \in Proc : c2[i] = IF i = c THEN TRUE ELSE k.controlled[i]
  <2>1. /\ \A i \in Proc : st[i] = IF i = c THEN "RUNNING" ELSE k.state[i]
        /\ \A i \in Proc : hd[i] = IF i = c THEN k.handles[p] ELSE k.handles[i]
        /\ \A i \in Proc : mt[i] = IF i = c THEN k.mount[p] ELSE k.mount[i]
    BY <1>1
  <2>2. \A m \in Proc : mr[m] = IF m = k.mount[p] THEN k.mrefs[m] + 1 ELSE k.mrefs[m]
    BY <1>1, VfsAssumption
  <2>3. /\ \A i \in Proc : c1[i] = IF i = c THEN k.controlled[p] ELSE k.controlled[i]
        /\ \A i \in Proc : c2[i] = IF i = c THEN TRUE ELSE k.controlled[i]
    BY <1>1, Zenon
  <2> QED BY <2>1, <2>2, <2>3
<1>6. forked(p, c) = [k EXCEPT !.state = st, !.handles = hd, !.h = hh, !.mount = mt, !.mrefs = mr]
  BY DEF forked
<1>7. PICK f : f = forked(p, c)
  OBVIOUS
<1>8. f = [k EXCEPT !.state = st, !.handles = hd, !.h = hh, !.mount = mt, !.mrefs = mr]
  BY <1>6, <1>7
<1> HIDE DEF st, hd, hh, mt, mr
<1>9. /\ f \in Kernel /\ f.state = st /\ f.handles = hd /\ f.h = hh /\ f.mount = mt /\ f.mrefs = mr
      /\ f.controlled = k.controlled /\ f.provhcnt = k.provhcnt /\ f.usehcnt = k.usehcnt
      /\ f.backend = k.backend
      /\ f.req = k.req /\ f.panic = k.panic /\ f.handler = k.handler /\ f.queue = k.queue
  <2>1. f \in Kernel
    BY <1>3, <1>4, <1>8 DEF Kernel
  <2>2. /\ f.state = st /\ f.handles = hd /\ f.h = hh /\ f.mount = mt /\ f.mrefs = mr
        /\ f.controlled = k.controlled /\ f.provhcnt = k.provhcnt /\ f.usehcnt = k.usehcnt
        /\ f.backend = k.backend
        /\ f.req = k.req /\ f.panic = k.panic /\ f.handler = k.handler /\ f.queue = k.queue
    BY <1>8 DEF Kernel
  <2> QED BY <2>1, <2>2
<1>10. PICK t : t = provided(f, p, c)
  OBVIOUS
<1>11. t = [f EXCEPT !.controlled = c1, !.provhcnt = pv]
  BY <1>9, <1>10 DEF provided
<1>12. PICK u : u = newfs(p, c)
  OBVIOUS
<1>13. u = [f EXCEPT !.controlled = c2, !.backend = "live", !.provhcnt = 1, !.usehcnt = 1]
  BY <1>7, <1>9, <1>12 DEF newfs
<1> HIDE DEF c1, c2, pv
<1>14. Forked(k, t, p, c, k.controlled[p], pv, k.usehcnt, k.backend)
  <2>1. t \in Kernel
    BY <1>4, <1>9, <1>11 DEF Kernel
  <2>2. /\ t.state = st /\ t.handles = hd /\ t.h = hh /\ t.mount = mt /\ t.mrefs = mr
        /\ t.controlled = c1 /\ t.provhcnt = pv /\ t.usehcnt = k.usehcnt
        /\ t.backend = k.backend
        /\ t.req = k.req /\ t.panic = k.panic /\ t.handler = k.handler /\ t.queue = k.queue
    BY <1>9, <1>11 DEF Kernel
  <2> QED BY <1>2, <1>5, <2>1, <2>2 DEF Forked
<1>15. Forked(k, u, p, c, TRUE, 1, 1, "live")
  <2>1. u \in Kernel
    BY <1>4, <1>9, <1>13 DEF Kernel
  <2>2. /\ u.state = st /\ u.handles = hd /\ u.h = hh /\ u.mount = mt /\ u.mrefs = mr
        /\ u.controlled = c2 /\ u.provhcnt = 1 /\ u.usehcnt = 1
        /\ u.backend = "live"
        /\ u.req = k.req /\ u.panic = k.panic /\ u.handler = k.handler /\ u.queue = k.queue
    BY <1>9, <1>13 DEF Kernel
  <2> QED BY <1>2, <1>5, <2>1, <2>2 DEF Forked
<1> QED BY <1>7, <1>10, <1>12, <1>14, <1>15 DEF pv

\* What a fork keeps, whatever the child provides.
ForkKept(s, t, c, b) ==
    /\ HandlesInv(t) /\ DeadInv(t) /\ ReqInv(t, NULL) /\ QueueInv(t, s.queue, NULL)
    /\ AcceptInv(t, NULL, {})
    /\ \A m \in Proc : t.mrefs[m] = Cardinality(MountedAt(t, m))
    /\ UseHandles(t) = UseHandles(s) /\ Mounts(t) = Mounts(s) /\ Busy(t) = Busy(s)
    /\ c \notin Providers(s)
    /\ Providers(t) = IF b THEN Providers(s) \cup {c} ELSE Providers(s)
    /\ \A i \in Proc : t.state[i] = "WAITS4REQUEST" => t.handler = i
    /\ t.handler # NULL => t.handler \in Proc \ {c} /\ t.state[t.handler] = "WAITS4REQUEST"
    /\ Fits(t) /\ OpenCount(t) = OpenCount(s)

LEMMA ForkKeeps ==
    ASSUME NEW s, Good(s, s.queue, 0, NULL, NULL, {}), Fits(s),
           NEW p \in Proc, s.state[p] = "RUNNING", NEW c \in Proc, s.state[c] = "NEW",
           NEW t, NEW b \in BOOLEAN, NEW prov, NEW use, NEW be, Forked(s, t, p, c, b, prov, use, be)
    PROVE  ForkKept(s, t, c, b)
<1>1. /\ s \in Kernel /\ s.panic = "none"
      /\ HandlesInv(s) /\ DeadInv(s) /\ CountInv(s, 0) /\ ReqInv(s, NULL)
      /\ QueueInv(s, s.queue, NULL) /\ AcceptInv(s, NULL, {}) /\ HandlerInv(s, NULL)
  BY DEF Good
<1>2. /\ t \in Kernel
      /\ \A i \in Proc : t.state[i] = IF i = c THEN "RUNNING" ELSE s.state[i]
      /\ \A i \in Proc : t.handles[i] = IF i = c THEN s.handles[p] ELSE s.handles[i]
      /\ \A g \in Handle : /\ t.h[g].type = s.h[g].type /\ t.h[g].req = s.h[g].req
                           /\ t.h[g].refcount = IF g \in s.handles[p] THEN s.h[g].refcount + 1
                                                ELSE s.h[g].refcount
                           /\ g \notin s.handles[p] => t.h[g] = s.h[g]
      /\ t.req = s.req /\ t.panic = s.panic /\ t.handler = s.handler /\ t.queue = s.queue
  BY DEF Forked
<1>3. /\ \A i \in Proc : t.mount[i] = IF i = c THEN s.mount[p] ELSE s.mount[i]
      /\ \A m \in Proc : t.mrefs[m] = IF m = s.mount[p] THEN s.mrefs[m] + 1 ELSE s.mrefs[m]
      /\ \A i \in Proc : t.controlled[i] = IF i = c THEN b ELSE s.controlled[i]
  BY DEF Forked
<1>4. s.handles[c] = {} /\ s.mount[c] = NULL /\ ~s.controlled[c] /\ c # p
  BY <1>1 DEF DeadInv, Alive
<1>5. HandlesInv(t)
  <2> SUFFICES ASSUME NEW g \in Handle
               PROVE  /\ t.h[g].refcount = Cardinality(Owners(t, g))
                      /\ t.h[g].refcount = 0 => t.h[g] = NoHandle
                      /\ t.h[g].refcount # 0 => t.h[g].type # "INVALID"
                      /\ t.h[g].req # NULL => t.h[g].type = "FS_REQ"
    BY DEF HandlesInv
  <2>1. /\ s.h[g].refcount = Cardinality(Owners(s, g))
        /\ s.h[g].refcount = 0 => s.h[g] = NoHandle
        /\ s.h[g].refcount # 0 => s.h[g].type # "INVALID"
        /\ s.h[g].req # NULL => s.h[g].type = "FS_REQ"
    BY <1>1 DEF HandlesInv
  <2>2. CASE g \in s.handles[p]
    <3>1. Owners(t, g) = Owners(s, g) \cup {c} /\ c \notin Owners(s, g) /\ p \in Owners(s, g)
      BY <1>2, <1>4, <2>2 DEF Owners
    <3>2. Cardinality(Owners(t, g)) = Cardinality(Owners(s, g)) + 1 /\ Cardinality(Owners(s, g)) > 0
      BY <3>1, FiniteUses, OneMore
    <3>3. Cardinality(Owners(s, g)) \in Nat
      BY FiniteUses
    <3> QED BY <1>2, <2>1, <2>2, <3>2, <3>3
  <2>3. CASE g \notin s.handles[p]
    <3>1. Owners(t, g) = Owners(s, g)
      BY <1>2, <1>4, <2>3 DEF Owners
    <3> QED BY <1>2, <2>1, <2>3, <3>1
  <2> QED BY <2>2, <2>3
<1>6. DeadInv(t)
  BY <1>1, <1>2, <1>3 DEF DeadInv, Alive
<1>7. s.req[c].caller # c /\ s.req[c].st = "none"
  <2>1. s.req[c].caller \in Proc \cup {NULL} /\ c \in Req
    BY <1>1 DEF Kernel, Req
  <2>2. s.req[c].caller # c
    BY <1>1 DEF ReqInv
  <2>3. s.req[c].caller = NULL
    BY <1>1, <2>1, <2>2 DEF ReqInv
  <2> QED BY <1>1, <2>2, <2>3, VfsAssumption DEF ReqInv
<1>8. ReqInv(t, NULL)
  <2>1. \A i \in Proc : t.req[i].caller = i => t.state[i] = "WAITS4FS"
    BY <1>1, <1>2, <1>7 DEF ReqInv
  <2>2. \A i \in Proc \ {NULL} : t.state[i] = "WAITS4FS" => t.req[i].caller = i
    BY <1>1, <1>2 DEF ReqInv
  <2>3. \A i \in Proc \ {NULL} : t.req[i].st # "none" /\ t.req[i].caller = NULL => t.state[i] = "DEAD"
    BY <1>1, <1>2, <1>7 DEF ReqInv
  <2> QED BY <1>1, <1>2, <2>1, <2>2, <2>3 DEF ReqInv
<1>9. QueueInv(t, s.queue, NULL)
  BY <1>1, <1>2 DEF QueueInv
<1>10. AcceptInv(t, NULL, {})
  <2>1. \A r \in Req : HandlesOf(t, r) = HandlesOf(s, r)
    BY <1>2 DEF HandlesOf
  <2> QED BY <1>1, <1>2, <2>1 DEF AcceptInv
<1>11. UseHandles(t) = UseHandles(s) /\ Busy(t) = Busy(s)
  BY <1>2 DEF UseHandles, Busy
<1>12. \A m \in Proc : t.mrefs[m] = Cardinality(MountedAt(t, m))
  <2> TAKE m \in Proc
  <2>1. s.mrefs[m] = Cardinality(MountedAt(s, m))
    BY <1>1 DEF CountInv
  <2>2. CASE m = s.mount[p]
    <3>1. MountedAt(t, m) = MountedAt(s, m) \cup {c} /\ c \notin MountedAt(s, m)
      BY <1>3, <1>4, <2>2, VfsAssumption DEF MountedAt
    <3>2. Cardinality(MountedAt(t, m)) = Cardinality(MountedAt(s, m)) + 1
      BY <3>1, FiniteUses, OneMore
    <3> QED BY <1>3, <2>1, <2>2, <3>2
  <2>3. CASE m # s.mount[p]
    <3>1. MountedAt(t, m) = MountedAt(s, m)
      BY <1>3, <1>4, <2>3, VfsAssumption DEF MountedAt
    <3> QED BY <1>3, <2>1, <2>3, <3>1
  <2> QED BY <2>2, <2>3
<1>13. Mounts(t) = Mounts(s)
  <2>1. s.mount[p] # NULL => s.mrefs[s.mount[p]] > 0
    BY UsedByMount
  <2>2. \A m \in Proc : s.mrefs[m] \in Nat
    BY <1>1 DEF Kernel
  <2>3. \A m \in Proc : t.mrefs[m] > 0 <=> s.mrefs[m] > 0
    BY <1>3, <2>1, <2>2, VfsAssumption
  <2> QED BY <2>3 DEF Mounts
<1>14. c \notin Providers(s) /\ Providers(t) = IF b THEN Providers(s) \cup {c} ELSE Providers(s)
  <2>1. CASE b
    BY <1>3, <1>4, <2>1 DEF Providers
  <2>2. CASE ~b
    BY <1>3, <1>4, <2>2 DEF Providers
  <2> QED BY <1>4, <2>1, <2>2 DEF Providers
<1>15. \A i \in Proc : t.state[i] = "WAITS4REQUEST" => t.handler = i
  BY <1>1, <1>2, VfsAssumption DEF HandlerInv
<1>16. t.handler # NULL => t.handler \in Proc \ {c} /\ t.state[t.handler] = "WAITS4REQUEST"
  <2>1. t.handler \in Proc \cup {NULL}
    BY <1>2 DEF Kernel
  <2> QED BY <1>1, <1>2, <2>1 DEF HandlerInv
<1>17. Fits(t)
  BY <1>2 DEF Fits
<1>18. OpenCount(t) = OpenCount(s)
  <2>1. Files(t) = Files(s)
    BY <1>2 DEF Files
  <2>2. Closing(t) = Closing(s) /\ Opening(t) = Opening(s)
    BY <1>2 DEF Closing, Opening
  <2> QED BY <2>1, <2>2 DEF OpenCount
<1> QED BY <1>5, <1>6, <1>8, <1>9, <1>10, <1>11, <1>12, <1>13, <1>14, <1>15, <1>16, <1>17, <1>18
        DEF ForkKept

LEMMA ForkInd == ASSUME IndInv, NEW p \in Proc, Fork(p) PROVE IndInv'
<1>1. phase = "none" /\ k.state[p] = "RUNNING"
  BY DEF Fork, Running
<1>2. PICK c \in Proc : k.state[c] = "NEW" /\ Step(provided(forked(p, c), p, c))
  BY DEF Fork
<1>3. /\ Calm(k) /\ OpenCount(k) <= opens /\ opens \in Nat /\ opens <= MaxOpens /\ OpenCount(k) \in Nat
  BY <1>1, CalmNow
<1>4. Good(k, k.queue, 0, NULL, NULL, {}) /\ Served(k) /\ Fits(k)
  BY <1>3 DEF Calm
<1>5. k \in Kernel /\ k.panic = "none" /\ CountInv(k, 0) /\ HandlerInv(k, NULL)
  BY <1>4 DEF Good
<1>6. PICK t : t = provided(forked(p, c), p, c)
  OBVIOUS
<1>7. PICK b \in BOOLEAN : b = k.controlled[p]
  BY <1>5 DEF Kernel
<1>8. PICK prov : prov = IF b THEN k.provhcnt + 1 ELSE k.provhcnt
  OBVIOUS
<1>9. Forked(k, t, p, c, b, prov, k.usehcnt, k.backend)
  <2>1. k \in Kernel
    BY <1>5
  <2>2. Forked(k, provided(forked(p, c), p, c), p, c, k.controlled[p],
               IF k.controlled[p] THEN k.provhcnt + 1 ELSE k.provhcnt, k.usehcnt, k.backend)
    BY <2>1, ForkFields
  <2>3. prov = IF k.controlled[p] THEN k.provhcnt + 1 ELSE k.provhcnt
    BY <1>7, <1>8, Zenon
  <2> QED BY <2>2, <2>3, <1>6, <1>7, Zenon
<1>10. ForkKept(k, t, c, b)
  BY <1>1, <1>2, <1>4, <1>9, ForkKeeps
<1>11. /\ t \in Kernel /\ t.provhcnt = prov /\ t.usehcnt = k.usehcnt /\ t.backend = k.backend
       /\ t.panic = "none" /\ t.handler = k.handler /\ t.queue = k.queue
  BY <1>5, <1>9 DEF Forked
<1>12. CountInv(t, 0)
  <2>1. t.usehcnt = Cardinality(UseHandles(t)) + Cardinality(Mounts(t)) + Cardinality(Busy(t)) + 0
    BY <1>5, <1>10, <1>11 DEF CountInv, ForkKept
  <2>2. CASE b
    <3>1. Providers(t) = Providers(k) \cup {c} /\ c \notin Providers(k)
      BY <1>10, <2>2 DEF ForkKept
    <3>2. Cardinality(Providers(t)) = Cardinality(Providers(k)) + 1
      BY <3>1, FiniteUses, OneMore
    <3>3. k.provhcnt = Cardinality(Providers(k)) /\ k.provhcnt \in Nat
      BY <1>5 DEF CountInv, Kernel
    <3>4. p \in Providers(k)
      BY <1>7, <2>2 DEF Providers
    <3>5. Cardinality(Providers(k)) > 0
      BY <3>4, FiniteUses, OneMore
    <3>6. t.provhcnt = Cardinality(Providers(t)) /\ t.provhcnt > 0 /\ k.provhcnt > 0
      BY <1>8, <1>11, <2>2, <3>2, <3>3, <3>5
    <3>7. t.backend = "live"
      BY <1>5, <1>11, <3>6 DEF CountInv
    <3> QED BY <1>10, <2>1, <3>6, <3>7 DEF CountInv, ForkKept
  <2>3. CASE ~b
    <3>1. Providers(t) = Providers(k) /\ t.provhcnt = k.provhcnt
      BY <1>8, <1>10, <1>11, <2>3 DEF ForkKept
    <3> QED BY <1>5, <1>10, <1>11, <2>1, <3>1 DEF CountInv, ForkKept
  <2> QED BY <2>2, <2>3
<1>13. HandlerInv(t, NULL)
  <2>1. /\ \A i \in Proc : t.handles[i] = IF i = c THEN k.handles[p] ELSE k.handles[i]
        /\ \A i \in Proc : t.controlled[i] = IF i = c THEN b ELSE k.controlled[i]
    BY <1>9 DEF Forked
  <2>2. t.handler # NULL => t.handler \in Proc \ {c} /\ t.state[t.handler] = "WAITS4REQUEST"
    BY <1>10 DEF ForkKept
  <2>3. \A i \in Proc : t.state[i] = "WAITS4REQUEST" => t.handler = i
    BY <1>10 DEF ForkKept
  <2>4. t.handler # NULL => /\ t.controlled[t.handler] /\ t.usehcnt > 0
                            /\ Cardinality(t.handles[t.handler]) < HANDLE_MAX
    BY <1>5, <1>11, <2>1, <2>2 DEF HandlerInv
  <2> QED BY <2>2, <2>3, <2>4 DEF HandlerInv
<1>14. Good(t, t.queue, 0, NULL, NULL, {}) /\ Fits(t) /\ OpenCount(t) = OpenCount(k)
  BY <1>10, <1>11, <1>12, <1>13 DEF Good, ForkKept
<1>15. Served(t)
  BY <1>4, <1>5, <1>8, <1>11 DEF Served, Kernel
<1>16. Calm(k') /\ OpenCount(k') <= opens' /\ opens' \in 0..MaxOpens /\ Done
  BY <1>2, <1>3, <1>6, <1>14, <1>15, VfsAssumption DEF Calm, Step
<1> QED BY <1>1, <1>16, CalmNext

\* t is s with the new handle n, in the table of p.
Put(s, t, p, n, new) ==
    /\ t \in Kernel
    /\ t.handles[p] = s.handles[p] \cup {n} /\ \A i \in Proc \ {p} : t.handles[i] = s.handles[i]
    /\ t.h[n] = new /\ \A g \in Handle \ {n} : t.h[g] = s.h[g]
    /\ t.state = s.state /\ t.req = s.req /\ t.controlled = s.controlled /\ t.mount = s.mount
    /\ t.mrefs = s.mrefs /\ t.provhcnt = s.provhcnt /\ t.usehcnt = s.usehcnt
    /\ t.backend = s.backend /\ t.panic = s.panic /\ t.handler = s.handler /\ t.queue = s.queue

LEMMA InitFields ==
    ASSUME NEW s \in Kernel, NEW p \in Proc, NEW n \in Handle, n = NewHandle(s),
           NEW type \in {"FILE", "FS_FRONT"}
    PROVE  Put(s, handle_init(s, p, type, NULL), p, n, [type |-> type, req |-> NULL, refcount |-> 1])
<1> DEFINE new == [type |-> type, req |-> NULL, refcount |-> 1]
           hd == [s.handles EXCEPT ![p] = s.handles[p] \cup {n}]
           hh == [s.h EXCEPT ![n] = new]
<1>1. /\ s.handles \in [Proc -> SUBSET Handle]
      /\ s.h \in [Handle -> [type : {"INVALID", "FILE", "FS_FRONT", "FS_REQ"},
                             req : Req \cup {NULL}, refcount : Nat]]
  BY DEF Kernel
<1>2. /\ hd \in [Proc -> SUBSET Handle]
      /\ hh \in [Handle -> [type : {"INVALID", "FILE", "FS_FRONT", "FS_REQ"},
                             req : Req \cup {NULL}, refcount : Nat]]
  BY <1>1
<1>3. /\ hd[p] = s.handles[p] \cup {n} /\ \A i \in Proc \ {p} : hd[i] = s.handles[i]
      /\ hh[n] = new /\ \A g \in Handle \ {n} : hh[g] = s.h[g]
  BY <1>1
<1>4. PICK t : t = handle_init(s, p, type, NULL)
  OBVIOUS
<1>5. t = [s EXCEPT !.h = hh, !.handles = hd]
  BY <1>4 DEF handle_init
<1> HIDE DEF hd, hh, new
<1>6. t \in Kernel
  BY <1>2, <1>5 DEF Kernel
<1>7. /\ t.handles = hd /\ t.h = hh
      /\ t.state = s.state /\ t.req = s.req /\ t.controlled = s.controlled /\ t.mount = s.mount
      /\ t.mrefs = s.mrefs /\ t.provhcnt = s.provhcnt /\ t.usehcnt = s.usehcnt
      /\ t.backend = s.backend /\ t.panic = s.panic /\ t.handler = s.handler /\ t.queue = s.queue
  BY <1>5 DEF Kernel
<1> QED BY <1>3, <1>4, <1>6, <1>7 DEF Put, new

\* The use of the backend that was counted is by a new handle.
LEMMA PutUse ==
    ASSUME NEW s, NEW q, NEW x, NEW l, NEW hs, Good(s, q, 1, x, l, hs), NEW p \in Proc,
           s.state[p] \in {"RUNNING", "WAITS4FS"},
           NEW n \in Handle, s.h[n].refcount = 0, NEW type \in {"FILE", "FS_FRONT"}, NEW t,
           Put(s, t, p, n, [type |-> type, req |-> NULL, refcount |-> 1])
    PROVE  /\ Good(t, q, 0, x, l, hs)
           /\ s.h[n] = NoHandle /\ (\A i \in Proc : n \notin s.handles[i])
           /\ Closing(t) = Closing(s) /\ Opening(t) = Opening(s)
           /\ Files(t) = IF type = "FILE" THEN Files(s) \cup {n} ELSE Files(s)
<1>1. /\ s \in Kernel /\ s.panic = "none"
      /\ HandlesInv(s) /\ DeadInv(s) /\ CountInv(s, 1) /\ ReqInv(s, x)
      /\ QueueInv(s, q, l) /\ AcceptInv(s, l, hs) /\ HandlerInv(s, x)
  BY DEF Good
<1>2. /\ t \in Kernel
      /\ t.handles[p] = s.handles[p] \cup {n} /\ \A i \in Proc \ {p} : t.handles[i] = s.handles[i]
      /\ \A g \in Handle \ {n} : t.h[g] = s.h[g]
      /\ t.state = s.state /\ t.req = s.req /\ t.controlled = s.controlled /\ t.mount = s.mount
      /\ t.mrefs = s.mrefs /\ t.provhcnt = s.provhcnt /\ t.usehcnt = s.usehcnt
      /\ t.backend = s.backend /\ t.panic = s.panic /\ t.handler = s.handler /\ t.queue = s.queue
  BY DEF Put
<1>3. t.h[n].type = type /\ t.h[n].req = NULL /\ t.h[n].refcount = 1
  BY DEF Put
<1>4. HandlesInv(t) /\ s.h[n] = NoHandle /\ \A i \in Proc : n \notin s.handles[i]
  BY <1>1, <1>2, <1>3, PutHandle
<1>5. DeadInv(t)
  BY <1>1, <1>2 DEF DeadInv, Alive
<1>6. CountInv(t, 0)
  <2>1. UseHandles(t) = UseHandles(s) \cup {n} /\ n \notin UseHandles(s)
    BY <1>2, <1>3, <1>4 DEF UseHandles, NoHandle
  <2>2. Cardinality(UseHandles(t)) = Cardinality(UseHandles(s)) + 1
    BY <2>1, FiniteUses, OneMore
  <2>3. /\ Mounts(t) = Mounts(s) /\ Busy(t) = Busy(s)
        /\ Providers(t) = Providers(s) /\ \A m : MountedAt(t, m) = MountedAt(s, m)
    BY <1>2 DEF Mounts, Busy, Providers, MountedAt
  <2>4. t.usehcnt = Cardinality(UseHandles(t)) + Cardinality(Mounts(t)) + Cardinality(Busy(t)) + 0
    BY <1>1, <1>2, <2>2, <2>3, FiniteUses DEF CountInv
  <2> QED BY <1>1, <1>2, <2>3, <2>4 DEF CountInv
<1>7. ReqInv(t, x) /\ QueueInv(t, q, l)
  BY <1>1, <1>2 DEF ReqInv, QueueInv
<1>8. AcceptInv(t, l, hs)
  <2>1. \A r \in Req : r # NULL
    BY VfsAssumption DEF Req, CloseReq
  <2>2. \A r \in Req : HandlesOf(t, r) = HandlesOf(s, r)
    BY <1>2, <1>3, <1>4, <2>1 DEF HandlesOf, NoHandle
  <2> QED BY <1>1, <1>2, <2>2 DEF AcceptInv
<1>9. HandlerInv(t, x)
  <2>1. s.handler \in Proc \cup {NULL} /\ s.handler # p
    BY <1>1, VfsAssumption DEF HandlerInv, Kernel
  <2> QED BY <1>1, <1>2, <2>1 DEF HandlerInv
<1>10. Closing(t) = Closing(s) /\ Opening(t) = Opening(s)
  BY <1>2 DEF Closing, Opening
<1>11. Files(t) = IF type = "FILE" THEN Files(s) \cup {n} ELSE Files(s)
  <2>1. CASE type = "FILE"
    BY <1>2, <1>3, <2>1 DEF Files
  <2>2. CASE type # "FILE"
    BY <1>2, <1>3, <1>4, <2>2 DEF Files, NoHandle
  <2> QED BY <2>1, <2>2
<1> QED BY <1>1, <1>2, <1>4, <1>5, <1>6, <1>7, <1>8, <1>9, <1>10, <1>11 DEF Good

\* The table of p still fits.
LEMMA PutFits ==
    ASSUME NEW s \in Kernel, NEW t, Fits(s), NEW p \in Proc, ~TableFull(s, p), NEW n \in Handle,
           n \notin s.handles[p], NEW new, Put(s, t, p, n, new)
    PROVE  Fits(t)
<1>1. s.handles[p] \in SUBSET Handle
  BY DEF Kernel
<1>2. IsFiniteSet(s.handles[p]) /\ Cardinality(s.handles[p]) \in Nat
  BY <1>1, FiniteSets
<1>3. t.handles[p] = s.handles[p] \cup {n} /\ \A i \in Proc \ {p} : t.handles[i] = s.handles[i]
  BY DEF Put
<1>4. Cardinality(t.handles[p]) = Cardinality(s.handles[p]) + 1
  BY <1>2, <1>3, OneMore
<1>5. Cardinality(t.handles[p]) <= HANDLE_MAX
  BY <1>2, <1>4, VfsAssumption DEF Fits, TableFull
<1> QED BY <1>3, <1>5 DEF Fits

LEMMA ForkNewfsInd == ASSUME IndInv, NEW p \in Proc, ForkNewfs(p) PROVE IndInv'
<1>1. phase = "none" /\ k.state[p] = "RUNNING" /\ k.backend = "none" /\ ~TableFull(k, p)
  BY DEF ForkNewfs, Running
<1>2. PICK c \in Proc : k.state[c] = "NEW" /\ Step(handle_init(newfs(p, c), p, "FS_FRONT", NULL))
  BY DEF ForkNewfs, newfs
<1>3. /\ Calm(k) /\ OpenCount(k) <= opens /\ opens \in Nat /\ opens <= MaxOpens /\ OpenCount(k) \in Nat
  BY <1>1, CalmNow
<1>4. Good(k, k.queue, 0, NULL, NULL, {}) /\ Served(k) /\ Fits(k)
  BY <1>3 DEF Calm
<1>5. k \in Kernel /\ k.panic = "none" /\ CountInv(k, 0) /\ HandlerInv(k, NULL)
  BY <1>4 DEF Good
<1>6. k.usehcnt = 0 /\ k.provhcnt = 0
  BY <1>1, <1>5 DEF CountInv, Kernel
<1>7. PICK e : e = newfs(p, c)
  OBVIOUS
<1>8. Forked(k, e, p, c, TRUE, 1, 1, "live")
  BY <1>5, <1>7, ForkFields
<1>9. ForkKept(k, e, c, TRUE)
  BY <1>1, <1>2, <1>4, <1>8, ForkKeeps
<1>10. /\ e \in Kernel /\ e.provhcnt = 1 /\ e.usehcnt = 1 /\ e.backend = "live"
       /\ e.panic = "none" /\ e.handler = k.handler /\ e.queue = k.queue
       /\ e.state[p] = "RUNNING" /\ e.handles[p] = k.handles[p]
  BY <1>1, <1>2, <1>5, <1>8 DEF Forked
<1>11. CountInv(e, 1)
  <2>1. /\ UseHandles(e) = UseHandles(k) /\ Mounts(e) = Mounts(k) /\ Busy(e) = Busy(k)
        /\ Providers(e) = Providers(k) \cup {c} /\ c \notin Providers(k)
        /\ \A m \in Proc : e.mrefs[m] = Cardinality(MountedAt(e, m))
    BY <1>9 DEF ForkKept
  <2>2. /\ k.usehcnt = Cardinality(UseHandles(k)) + Cardinality(Mounts(k)) + Cardinality(Busy(k)) + 0
        /\ k.provhcnt = Cardinality(Providers(k))
    BY <1>5 DEF CountInv
  <2>3. Cardinality(Providers(e)) = Cardinality(Providers(k)) + 1
    BY <2>1, FiniteUses, OneMore
  <2>4. e.usehcnt = Cardinality(UseHandles(e)) + Cardinality(Mounts(e)) + Cardinality(Busy(e)) + 1
    BY <1>6, <1>10, <2>1, <2>2, FiniteUses
  <2>5. e.provhcnt = Cardinality(Providers(e))
    BY <1>6, <1>10, <2>2, <2>3
  <2> QED BY <1>10, <2>1, <2>4, <2>5 DEF CountInv
<1>12. HandlerInv(e, NULL)
  <2>1. e.handler = NULL
    BY <1>5, <1>6, <1>10 DEF HandlerInv
  <2> QED BY <1>9, <2>1 DEF HandlerInv, ForkKept
<1>13. Good(e, k.queue, 1, NULL, NULL, {}) /\ Fits(e) /\ HandlesInv(e) /\ OpenCount(e) = OpenCount(k)
  BY <1>9, <1>10, <1>11, <1>12 DEF Good, ForkKept
<1>14. PICK n \in Handle : n = NewHandle(e) /\ e.h[n].refcount = 0
  BY <1>10, <1>13, NewHandleFree
<1>15. PICK t : t = handle_init(e, p, "FS_FRONT", NULL)
  OBVIOUS
<1>16. Put(e, t, p, n, [type |-> "FS_FRONT", req |-> NULL, refcount |-> 1])
  <2>1. "FS_FRONT" \in {"FILE", "FS_FRONT"} /\ e \in Kernel
    BY <1>10
  <2> QED BY <1>14, <1>15, <2>1, InitFields
<1>17. /\ Good(t, k.queue, 0, NULL, NULL, {}) /\ n \notin e.handles[p]
       /\ Closing(t) = Closing(e) /\ Opening(t) = Opening(e) /\ Files(t) = Files(e)
  <2>1. e.state[p] \in {"RUNNING", "WAITS4FS"} /\ "FS_FRONT" \in {"FILE", "FS_FRONT"}
    BY <1>10
  <2> QED BY <1>13, <1>14, <1>16, <2>1, PutUse
<1>18. Fits(t)
  <2>1. ~TableFull(e, p)
    BY <1>1, <1>10 DEF TableFull
  <2> QED BY <1>10, <1>13, <1>16, <1>17, <2>1, PutFits
<1>19. t.queue = k.queue /\ t.handler = k.handler /\ t.provhcnt = 1
  BY <1>10, <1>16 DEF Put
<1>20. Served(t)
  BY <1>4, <1>19 DEF Served
<1>21. OpenCount(t) = OpenCount(k)
  BY <1>13, <1>17 DEF OpenCount
<1>22. Calm(k') /\ OpenCount(k') <= opens' /\ opens' \in 0..MaxOpens /\ Done
  BY <1>2, <1>3, <1>7, <1>15, <1>17, <1>18, <1>19, <1>20, <1>21, VfsAssumption DEF Calm, Step
<1> QED BY <1>1, <1>22, CalmNext

-----------------------------------------------------------------------------
(* fs_respond. *)

\* The request r is in the hands of the handle h.
LEMMA Focus ==
    ASSUME NEW s, Good(s, s.queue, 0, NULL, NULL, {}), NEW h \in Handle, NEW r \in Req, s.h[h].req = r
    PROVE  Good(s, s.queue, 0, NULL, r, {h}) /\ s.req[r].st = "accepted"
<1>1. QueueInv(s, s.queue, NULL) /\ AcceptInv(s, NULL, {})
  BY DEF Good
<1>2. \A i \in Req : i # NULL
  BY VfsAssumption DEF Req, CloseReq
<1>3. h \in HandlesOf(s, r)
  BY DEF HandlesOf
<1>4. s.req[r].st = "accepted" /\ HandlesOf(s, r) = {h}
  BY <1>1, <1>2, <1>3 DEF AcceptInv
<1>5. AcceptInv(s, r, {h})
  BY <1>1, <1>2, <1>4 DEF AcceptInv
<1>6. QueueInv(s, s.queue, r)
  BY <1>1, <1>2, <1>4 DEF QueueInv
<1> QED BY <1>4, <1>5, <1>6 DEF Good

unref(s, h) == [s EXCEPT !.h[h].req = NULL]

\* t is s where the handle h refers to no request.
Unreferred(s, t, h) ==
    /\ t \in Kernel
    /\ t.h[h].req = NULL /\ t.h[h].type = s.h[h].type /\ t.h[h].refcount = s.h[h].refcount
    /\ s.h[h].req = NULL => t = s
    /\ \A g \in Handle \ {h} : t.h[g] = s.h[g]
    /\ t.handles = s.handles
    /\ t.state = s.state /\ t.req = s.req /\ t.controlled = s.controlled /\ t.mount = s.mount
    /\ t.mrefs = s.mrefs /\ t.provhcnt = s.provhcnt /\ t.usehcnt = s.usehcnt
    /\ t.backend = s.backend /\ t.panic = s.panic /\ t.handler = s.handler /\ t.queue = s.queue

LEMMA UnrefFields ==
    ASSUME NEW s \in Kernel, NEW h \in Handle
    PROVE  Unreferred(s, unref(s, h), h)
<1>1. s.h \in [Handle -> [type : {"INVALID", "FILE", "FS_FRONT", "FS_REQ"},
                          req : Req \cup {NULL}, refcount : Nat]]
  BY DEF Kernel
<1>2. PICK o : o = s.h[h]
  OBVIOUS
<1>3. o \in [type : {"INVALID", "FILE", "FS_FRONT", "FS_REQ"}, req : Req \cup {NULL}, refcount : Nat]
  BY <1>1, <1>2
<1> DEFINE new == [o EXCEPT !.req = NULL]
           hh == [s.h EXCEPT ![h] = new]
<1>4. new \in [type : {"INVALID", "FILE", "FS_FRONT", "FS_REQ"}, req : Req \cup {NULL}, refcount : Nat]
      /\ new.req = NULL /\ new.type = o.type /\ new.refcount = o.refcount
  BY <1>3
<1>5. o.req = NULL => new = o
  BY <1>3
<1>6. PICK t : t = unref(s, h)
  OBVIOUS
<1>7. t = [s EXCEPT !.h = hh]
  BY <1>2, <1>6 DEF unref
<1> HIDE DEF new
<1>8. /\ hh \in [Handle -> [type : {"INVALID", "FILE", "FS_FRONT", "FS_REQ"},
                          req : Req \cup {NULL}, refcount : Nat]]
      /\ hh[h] = new /\ \A g \in Handle \ {h} : hh[g] = s.h[g]
  BY <1>1, <1>4
<1>9. o.req = NULL => hh = s.h
  BY <1>1, <1>2, <1>5
<1> HIDE DEF hh
<1>10. t \in Kernel
  BY <1>7, <1>8 DEF Kernel
<1>11. /\ t.h = hh /\ t.handles = s.handles
       /\ t.state = s.state /\ t.req = s.req /\ t.controlled = s.controlled /\ t.mount = s.mount
       /\ t.mrefs = s.mrefs /\ t.provhcnt = s.provhcnt /\ t.usehcnt = s.usehcnt
       /\ t.backend = s.backend /\ t.panic = s.panic /\ t.handler = s.handler /\ t.queue = s.queue
  BY <1>7 DEF Kernel
<1>12. o.req = NULL => t = s
  BY <1>9, <1>10, <1>11, KernelEq
<1> QED BY <1>2, <1>4, <1>6, <1>8, <1>10, <1>11, <1>12 DEF Unreferred

LEMMA Unref ==
    ASSUME NEW s, NEW q, NEW x, NEW r \in Req, NEW h \in Handle, Good(s, q, 0, x, r, {h}),
           s.req[r] = NoReq, NEW t, Unreferred(s, t, h)
    PROVE  Good(t, q, 0, x, NULL, {})
<1>1. /\ s \in Kernel /\ s.panic = "none"
      /\ HandlesInv(s) /\ DeadInv(s) /\ CountInv(s, 0) /\ ReqInv(s, x)
      /\ QueueInv(s, q, r) /\ AcceptInv(s, r, {h}) /\ HandlerInv(s, x)
  BY DEF Good
<1>2. /\ t \in Kernel
      /\ t.h[h].req = NULL /\ t.h[h].type = s.h[h].type /\ t.h[h].refcount = s.h[h].refcount
      /\ \A g \in Handle \ {h} : t.h[g] = s.h[g]
      /\ t.handles = s.handles
      /\ t.state = s.state /\ t.req = s.req /\ t.controlled = s.controlled /\ t.mount = s.mount
      /\ t.mrefs = s.mrefs /\ t.provhcnt = s.provhcnt /\ t.usehcnt = s.usehcnt
      /\ t.backend = s.backend /\ t.panic = s.panic /\ t.handler = s.handler /\ t.queue = s.queue
  BY DEF Unreferred
<1>3. \A i \in Req : i # NULL
  BY VfsAssumption DEF Req, CloseReq
<1>4. HandlesOf(s, r) = {h}
  BY <1>1 DEF AcceptInv
<1>5. s.h[h].req = r /\ s.h[h].refcount # 0
  <2>1. s.h[h].req = r
    BY <1>4 DEF HandlesOf
  <2> QED BY <1>1, <1>3, <2>1 DEF HandlesInv, NoHandle
<1>6. HandlesInv(t)
  <2>1. \A g \in Handle : Owners(t, g) = Owners(s, g)
    BY <1>2 DEF Owners
  <2> QED BY <1>1, <1>2, <1>5, <2>1 DEF HandlesInv
<1>7. DeadInv(t) /\ ReqInv(t, x) /\ HandlerInv(t, x)
  BY <1>1, <1>2 DEF DeadInv, ReqInv, HandlerInv
<1>8. CountInv(t, 0)
  <2>1. \A g \in Handle : t.h[g].type = s.h[g].type
    BY <1>2
  <2>2. /\ UseHandles(t) = UseHandles(s) /\ Mounts(t) = Mounts(s) /\ Busy(t) = Busy(s)
        /\ Providers(t) = Providers(s) /\ \A m : MountedAt(t, m) = MountedAt(s, m)
    BY <1>2, <2>1 DEF UseHandles, Mounts, Busy, Providers, MountedAt
  <2> QED BY <1>1, <1>2, <2>2 DEF CountInv
<1>9. QueueInv(t, q, NULL)
  <2>1. q \in Seq(Req) /\ \A i \in DOMAIN q : q[i] \in Req
    BY <1>1 DEF QueueInv
  <2> QED BY <1>1, <1>2, <1>3, <2>1 DEF QueueInv, NoReq
<1>10. AcceptInv(t, NULL, {})
  <2>1. HandlesOf(t, r) = {}
    BY <1>2, <1>3, <1>4 DEF HandlesOf
  <2>2. \A i \in Req \ {r} : HandlesOf(t, i) = HandlesOf(s, i)
    BY <1>2, <1>3, <1>5 DEF HandlesOf
  <2> QED BY <1>1, <1>2, <1>3, <2>1, <2>2 DEF AcceptInv, NoReq
<1> QED BY <1>1, <1>2, <1>6, <1>7, <1>8, <1>9, <1>10 DEF Good

\* The request r, whose handle is h, has been finished by p.
Answered(s, t, p, h, r) ==
    /\ Good(t, t.queue, 0, NULL, r, {h}) /\ t.req[r] = NoReq
    /\ Served(t) /\ Fits(t) /\ OpenCount(t) <= OpenCount(s)
    /\ h \in t.handles[p]

\* Then the handle is closed.
LEMMA RespondClose ==
    ASSUME NEW s, OpenCount(s) \in Nat, OpenCount(s) <= MaxOpens,
           NEW t, NEW p \in Proc, NEW h \in Handle, NEW r \in Req, Answered(s, t, p, h, r)
    PROVE  /\ Calm(handle_close(unref(t, h), p, h))
           /\ OpenCount(handle_close(unref(t, h), p, h)) <= OpenCount(s)
<1>1. /\ Good(t, t.queue, 0, NULL, r, {h}) /\ t.req[r] = NoReq
      /\ Served(t) /\ Fits(t) /\ OpenCount(t) <= OpenCount(s)
      /\ h \in t.handles[p]
  BY DEF Answered
<1>2. t \in Kernel
  BY <1>1 DEF Good
<1>3. PICK u : u = unref(t, h)
  OBVIOUS
<1>4. Unreferred(t, u, h)
  BY <1>2, <1>3, UnrefFields
<1>5. Good(u, t.queue, 0, NULL, NULL, {})
  BY <1>1, <1>4, Unref
<1>6. u.queue = t.queue /\ u.handler = t.handler /\ u.provhcnt = t.provhcnt /\ u.handles = t.handles
      /\ u.req = t.req /\ \A g \in Handle : u.h[g].type = t.h[g].type
  BY <1>4 DEF Unreferred
<1>7. Served(u) /\ Fits(u) /\ h \in u.handles[p]
  BY <1>1, <1>6 DEF Served, Fits
<1>8. OpenCount(u) = OpenCount(t)
  <2>1. Files(u) = Files(t)
    BY <1>6 DEF Files
  <2>2. Closing(u) = Closing(t) /\ Opening(u) = Opening(t)
    BY <1>6 DEF Closing, Opening
  <2> QED BY <2>1, <2>2 DEF OpenCount
<1>9. OpenCount(u) <= OpenCount(s) /\ OpenCount(u) \in Nat /\ OpenCount(u) <= MaxOpens
  <2>1. OpenCount(u) \in Nat
    BY FiniteUses DEF OpenCount
  <2> QED BY <1>1, <1>8, <2>1, VfsAssumption
<1>10. PICK v : v = handle_close(u, p, h)
  OBVIOUS
<1>11. Closed(u, v, p, h, NULL, NULL, {})
  <2>1. Good(u, u.queue, 0, NULL, NULL, {})
    BY <1>5, <1>6
  <2> QED BY <1>7, <1>9, <1>10, <2>1, CloseCalm
<1>12. Calm(v)
  BY <1>11 DEF Closed, Calm
<1>13. OpenCount(v) <= OpenCount(s)
  <2>1. OpenCount(v) \in Nat /\ OpenCount(v) <= OpenCount(u)
    BY <1>11, FiniteUses DEF OpenCount, Closed
  <2> QED BY <1>9, <2>1
<1> QED BY <1>3, <1>10, <1>12, <1>13

\* The request is finished, but nothing is given to its caller.
LEMMA FinishAnswers ==
    ASSUME Calm(k), NEW p \in Proc, NEW h \in k.handles[p], h \in Handle, NEW r \in Req, k.h[h].req = r
    PROVE  Answered(k, finish(k, r), p, h, r)
<1>1. Good(k, k.queue, 0, NULL, NULL, {}) /\ Served(k) /\ Fits(k)
  BY DEF Calm
<1>2. Good(k, k.queue, 0, NULL, r, {h}) /\ k.req[r].st # "none"
  BY <1>1, Focus
<1>3. k.usehcnt = 1 /\ k.provhcnt = 0 => k.queue = <<>>
  BY <1>1 DEF Served
<1>4. PICK t : t = finish(k, r)
  OBVIOUS
<1>5. Finished(k, t, k.queue, NULL, r, {h})
  BY <1>2, <1>3, <1>4, Finish
<1>6. /\ Good(t, k.queue, 0, NULL, r, {h}) /\ t.req[r] = NoReq
      /\ t.handles = k.handles /\ t.queue = k.queue /\ t.handler \in {k.handler, NULL}
      /\ OpenCount(t) <= OpenCount(k) /\ t.provhcnt = k.provhcnt
  BY <1>5 DEF Finished, Frame
<1>7. Served(t) /\ Fits(t)
  BY <1>1, <1>6 DEF Served, Fits
<1> QED BY <1>4, <1>6, <1>7 DEF Answered

\* t is s where the caller c of the request r has been given the handle g.
Given(s, t, p, h, r, c, g) ==
    /\ Good(t, t.queue, 0, NULL, r, {h})
    /\ g \in Handle /\ g # h /\ g \in t.handles[c] /\ t.handles[c] \ {g} = s.handles[c]
    /\ \A i \in Proc \ {c} : Cardinality(t.handles[i]) <= HANDLE_MAX
    /\ h \in t.handles[p] /\ t.h[h].refcount # 0
    /\ t.h[g].type # "FS_REQ"
    /\ t.state = s.state /\ t.req = s.req /\ t.provhcnt = s.provhcnt
    /\ t.handler = s.handler /\ t.queue = s.queue
    /\ Closing(t) = Closing(s) /\ Opening(t) = Opening(s)
    /\ OpenCount(t) <= OpenCount(s) + 1

\* A request in the queue or accepted uses the backend.
LEMMA UsedByReq ==
    ASSUME NEW s, NEW q, NEW d \in Nat, NEW x, NEW l, NEW hs, Good(s, q, d, x, l, hs),
           NEW r \in Req, s.req[r].st # "none"
    PROVE  s.usehcnt > 0 /\ s.backend = "live"
<1>1. CountInv(s, d)
  BY DEF Good
<1>2. r \in Busy(s)
  BY DEF Busy
<1>3. Cardinality(Busy(s)) > 0
  BY <1>2, FiniteUses, OneMore
<1> QED BY <1>1, <1>3, FiniteUses DEF CountInv

more(s) == [s EXCEPT !.usehcnt = @ + 1]

\* t is s where the backend is counted as used once more.
More(s, t) ==
    /\ t \in Kernel /\ t.usehcnt = s.usehcnt + 1
    /\ t.handles = s.handles /\ t.h = s.h
    /\ t.state = s.state /\ t.req = s.req /\ t.controlled = s.controlled /\ t.mount = s.mount
    /\ t.mrefs = s.mrefs /\ t.provhcnt = s.provhcnt
    /\ t.backend = s.backend /\ t.panic = s.panic /\ t.handler = s.handler /\ t.queue = s.queue

LEMMA MoreFields ==
    ASSUME NEW s \in Kernel PROVE More(s, more(s))
<1>1. PICK t : t = more(s)
  OBVIOUS
<1>0. PICK u \in Nat : u = s.usehcnt + 1
  BY DEF Kernel
<1>2. t = [s EXCEPT !.usehcnt = u]
  BY <1>0, <1>1 DEF more
<1>3. t \in Kernel
  BY <1>2 DEF Kernel
<1>4. /\ t.usehcnt = u
      /\ t.handles = s.handles /\ t.h = s.h
      /\ t.state = s.state /\ t.req = s.req /\ t.controlled = s.controlled /\ t.mount = s.mount
      /\ t.mrefs = s.mrefs /\ t.provhcnt = s.provhcnt
      /\ t.backend = s.backend /\ t.panic = s.panic /\ t.handler = s.handler /\ t.queue = s.queue
  BY <1>2 DEF Kernel
<1> QED BY <1>0, <1>1, <1>3, <1>4 DEF More

LEMMA GoodMore ==
    ASSUME NEW s, NEW q, NEW x, NEW l, NEW hs, Good(s, q, 0, x, l, hs), s.usehcnt > 0,
           NEW t, More(s, t)
    PROVE  Good(t, q, 1, x, l, hs)
<1>1. /\ s \in Kernel /\ s.panic = "none"
      /\ HandlesInv(s) /\ DeadInv(s) /\ CountInv(s, 0) /\ ReqInv(s, x)
      /\ QueueInv(s, q, l) /\ AcceptInv(s, l, hs) /\ HandlerInv(s, x)
  BY DEF Good
<1>2. /\ t \in Kernel /\ t.usehcnt = s.usehcnt + 1
      /\ t.handles = s.handles /\ t.h = s.h
      /\ t.state = s.state /\ t.req = s.req /\ t.controlled = s.controlled /\ t.mount = s.mount
      /\ t.mrefs = s.mrefs /\ t.provhcnt = s.provhcnt
      /\ t.backend = s.backend /\ t.panic = s.panic /\ t.handler = s.handler /\ t.queue = s.queue
  BY DEF More
<1>3. HandlesInv(t)
  BY <1>1, <1>2 DEF HandlesInv, Owners
<1>4. DeadInv(t) /\ ReqInv(t, x) /\ QueueInv(t, q, l)
  BY <1>1, <1>2 DEF DeadInv, ReqInv, QueueInv
<1>5. AcceptInv(t, l, hs)
  BY <1>1, <1>2 DEF AcceptInv, HandlesOf
<1>6. s.usehcnt \in Nat
  BY <1>1 DEF Kernel
<1>7. HandlerInv(t, x)
  BY <1>1, <1>2, <1>6 DEF HandlerInv
<1>8. CountInv(t, 1)
  <2>1. /\ UseHandles(t) = UseHandles(s) /\ Mounts(t) = Mounts(s) /\ Busy(t) = Busy(s)
        /\ Providers(t) = Providers(s) /\ \A m : MountedAt(t, m) = MountedAt(s, m)
    BY <1>2 DEF UseHandles, Mounts, Busy, Providers, MountedAt
  <2>2. t.usehcnt = Cardinality(UseHandles(t)) + Cardinality(Mounts(t)) + Cardinality(Busy(t)) + 1
    BY <1>1, <1>2, <2>1, FiniteUses DEF CountInv
  <2>3. t.backend = "live" /\ t.usehcnt > 0
    BY <1>1, <1>2, <1>6 DEF CountInv
  <2> QED BY <1>1, <1>2, <2>1, <2>2, <2>3 DEF CountInv
<1> QED BY <1>1, <1>2, <1>3, <1>4, <1>5, <1>7, <1>8 DEF Good

\* The caller is given a new file.
LEMMA GiveNew ==
    ASSUME NEW s, Good(s, s.queue, 0, NULL, NULL, {}), Fits(s), NEW p \in Proc, s.state[p] = "RUNNING",
           NEW h \in Handle, h \in s.handles[p], NEW r \in Req, s.h[h].req = r,
           NEW c \in Proc, s.state[c] = "WAITS4FS"
    PROVE  Given(s, handle_init(more(s), c, "FILE", NULL), p, h, r, c, NewHandle(s))
<1>1. Good(s, s.queue, 0, NULL, r, {h}) /\ s.req[r].st # "none"
  BY Focus
<1>2. s.usehcnt > 0
  BY <1>1, UsedByReq
<1>3. s \in Kernel /\ HandlesInv(s)
  BY DEF Good
<1>4. PICK e : e = more(s)
  OBVIOUS
<1>5. More(s, e)
  BY <1>3, <1>4, MoreFields
<1>6. Good(e, s.queue, 1, NULL, r, {h})
  BY <1>1, <1>2, <1>5, GoodMore
<1>7. PICK n \in Handle : n = NewHandle(s) /\ s.h[n].refcount = 0
  BY <1>3, NewHandleFree
<1>8. /\ e \in Kernel /\ e.h = s.h /\ e.handles = s.handles /\ e.state = s.state /\ e.req = s.req
      /\ e.provhcnt = s.provhcnt /\ e.handler = s.handler /\ e.queue = s.queue
  BY <1>5 DEF More
<1>9. NewHandle(e) = n
  BY <1>7, <1>8 DEF NewHandle, FreeHandles
<1>10. PICK t : t = handle_init(e, c, "FILE", NULL)
  OBVIOUS
<1>11. Put(e, t, c, n, [type |-> "FILE", req |-> NULL, refcount |-> 1])
  <2>1. "FILE" \in {"FILE", "FS_FRONT"} /\ e \in Kernel
    BY <1>8
  <2> QED BY <1>9, <1>10, <2>1, InitFields
<1>12. /\ Good(t, s.queue, 0, NULL, r, {h}) /\ e.h[n] = NoHandle /\ (\A i \in Proc : n \notin e.handles[i])
       /\ Closing(t) = Closing(e) /\ Opening(t) = Opening(e) /\ Files(t) = Files(e) \cup {n}
  <2>1. e.state[c] \in {"RUNNING", "WAITS4FS"} /\ "FILE" \in {"FILE", "FS_FRONT"} /\ e.h[n].refcount = 0
    BY <1>7, <1>8
  <2> QED BY <1>6, <1>11, <2>1, PutUse
<1>13. /\ t.handles[c] = s.handles[c] \cup {n} /\ \A i \in Proc \ {c} : t.handles[i] = s.handles[i]
       /\ t.h[n].type = "FILE" /\ \A g \in Handle \ {n} : t.h[g] = s.h[g]
       /\ t.state = s.state /\ t.req = s.req /\ t.provhcnt = s.provhcnt
       /\ t.handler = s.handler /\ t.queue = s.queue
  BY <1>8, <1>11 DEF Put
<1>14. c # p /\ n # h
  BY <1>8, <1>12
<1>15. s.h[h].refcount # 0
  <2>1. p \in Owners(s, h)
    BY DEF Owners
  <2>2. Cardinality(Owners(s, h)) > 0
    BY <2>1, FiniteUses, OneMore
  <2> QED BY <1>3, <2>2 DEF HandlesInv
<1>16. OpenCount(t) <= OpenCount(s) + 1 /\ Closing(t) = Closing(s) /\ Opening(t) = Opening(s)
  <2>1. Files(e) = Files(s) /\ Closing(e) = Closing(s) /\ Opening(e) = Opening(s)
    BY <1>8 DEF Files, Closing, Opening
  <2>2. n \notin Files(s)
    BY <1>8, <1>12 DEF Files, NoHandle
  <2>3. Cardinality(Files(t)) = Cardinality(Files(s)) + 1
    BY <1>12, <2>1, <2>2, FiniteUses, OneMore
  <2> QED BY <1>12, <2>1, <2>3, FiniteUses DEF OpenCount
<1>17. \A i \in Proc \ {c} : Cardinality(t.handles[i]) <= HANDLE_MAX
  BY <1>13 DEF Fits
<1>18. n \in t.handles[c] /\ t.handles[c] \ {n} = s.handles[c]
  BY <1>8, <1>12, <1>13
<1>19. h \in t.handles[p] /\ t.h[h].refcount # 0 /\ t.h[n].type # "FS_REQ"
  BY <1>13, <1>14, <1>15
<1>20. Given(s, t, p, h, r, c, n)
  BY <1>12, <1>13, <1>14, <1>16, <1>17, <1>18, <1>19 DEF Given
<1> QED BY <1>4, <1>7, <1>10, <1>20

passed(s, p, c, d) == [s EXCEPT !.handles[p] = @ \ {d}, !.handles[c] = @ \cup {d}]

\* t is s where p has passed the handle d on to c.
Passed(s, t, p, c, d) ==
    /\ t \in Kernel
    /\ t.handles[p] = s.handles[p] \ {d} /\ t.handles[c] = s.handles[c] \cup {d}
    /\ \A i \in Proc \ {p, c} : t.handles[i] = s.handles[i]
    /\ t.h = s.h
    /\ t.state = s.state /\ t.req = s.req /\ t.controlled = s.controlled /\ t.mount = s.mount
    /\ t.mrefs = s.mrefs /\ t.provhcnt = s.provhcnt /\ t.usehcnt = s.usehcnt
    /\ t.backend = s.backend /\ t.panic = s.panic /\ t.handler = s.handler /\ t.queue = s.queue

LEMMA PassFields ==
    ASSUME NEW s \in Kernel, NEW p \in Proc, NEW c \in Proc, p # c, NEW d \in Handle
    PROVE  Passed(s, passed(s, p, c, d), p, c, d)
<1> DEFINE h1 == [s.handles EXCEPT ![p] = s.handles[p] \ {d}]
           hd == [h1 EXCEPT ![c] = s.handles[c] \cup {d}]
<1>1. s.handles \in [Proc -> SUBSET Handle]
  BY DEF Kernel
<1>2. h1 \in [Proc -> SUBSET Handle] /\ hd \in [Proc -> SUBSET Handle]
  BY <1>1
<1>3. /\ hd[p] = s.handles[p] \ {d} /\ hd[c] = s.handles[c] \cup {d}
      /\ \A i \in Proc \ {p, c} : hd[i] = s.handles[i]
  BY <1>1
<1>4. PICK t : t = passed(s, p, c, d)
  OBVIOUS
<1>5. t = [s EXCEPT !.handles = hd]
  BY <1>1, <1>4 DEF passed, Kernel
<1> HIDE DEF hd, h1
<1>6. t \in Kernel
  BY <1>2, <1>5 DEF Kernel
<1>7. /\ t.handles = hd /\ t.h = s.h
      /\ t.state = s.state /\ t.req = s.req /\ t.controlled = s.controlled /\ t.mount = s.mount
      /\ t.mrefs = s.mrefs /\ t.provhcnt = s.provhcnt /\ t.usehcnt = s.usehcnt
      /\ t.backend = s.backend /\ t.panic = s.panic /\ t.handler = s.handler /\ t.queue = s.queue
  BY <1>5 DEF Kernel
<1> QED BY <1>3, <1>4, <1>6, <1>7 DEF Passed

\* The caller is given a handle of the handler.
LEMMA GiveOld ==
    ASSUME NEW s, Good(s, s.queue, 0, NULL, NULL, {}), Fits(s), NEW p \in Proc, s.state[p] = "RUNNING",
           NEW h \in Handle, h \in s.handles[p], NEW r \in Req, s.h[h].req = r,
           NEW c \in Proc, s.state[c] = "WAITS4FS",
           NEW d \in s.handles[p], d \notin s.handles[c], s.h[d].type \in {"FILE", "FS_FRONT"}
    PROVE  Given(s, passed(s, p, c, d), p, h, r, c, d)
<1>1. Good(s, s.queue, 0, NULL, r, {h})
  BY Focus
<1>2. /\ s \in Kernel /\ s.panic = "none"
      /\ HandlesInv(s) /\ DeadInv(s) /\ CountInv(s, 0) /\ ReqInv(s, NULL)
      /\ QueueInv(s, s.queue, r) /\ AcceptInv(s, r, {h}) /\ HandlerInv(s, NULL)
  BY <1>1 DEF Good
<1>3. d \in Handle /\ p # c
  BY <1>2 DEF Kernel
<1>4. d # h
  <2>1. \A i \in Req : i # NULL
    BY VfsAssumption DEF Req, CloseReq
  <2>2. s.h[h].type = "FS_REQ"
    BY <1>2, <2>1 DEF HandlesInv
  <2> QED BY <2>2
<1>5. PICK t : t = passed(s, p, c, d)
  OBVIOUS
<1>6. Passed(s, t, p, c, d)
  BY <1>2, <1>3, <1>5, PassFields
<1>7. /\ t \in Kernel
      /\ t.handles[p] = s.handles[p] \ {d} /\ t.handles[c] = s.handles[c] \cup {d}
      /\ \A i \in Proc \ {p, c} : t.handles[i] = s.handles[i]
      /\ t.h = s.h
      /\ t.state = s.state /\ t.req = s.req /\ t.controlled = s.controlled /\ t.mount = s.mount
      /\ t.mrefs = s.mrefs /\ t.provhcnt = s.provhcnt /\ t.usehcnt = s.usehcnt
      /\ t.backend = s.backend /\ t.panic = s.panic /\ t.handler = s.handler /\ t.queue = s.queue
  BY <1>6 DEF Passed
<1>8. Cardinality(Owners(t, d)) = Cardinality(Owners(s, d))
  <2>1. Owners(t, d) = (Owners(s, d) \ {p}) \cup {c} /\ p \in Owners(s, d) /\ c \notin Owners(s, d)
    BY <1>3, <1>7 DEF Owners
  <2>2. PICK O : O = Owners(s, d) \ {p}
    OBVIOUS
  <2>3. Cardinality(O) = Cardinality(Owners(s, d)) - 1 /\ IsFiniteSet(O) /\ Cardinality(O) \in Nat
    <3>1. O \subseteq Proc
      BY <2>2 DEF Owners
    <3>2. IsFiniteSet(O) /\ Cardinality(O) \in Nat
      BY <3>1, FiniteSets
    <3> QED BY <2>1, <2>2, <3>2, FiniteUses, OneMore
  <2>4. Owners(t, d) = O \cup {c} /\ c \notin O
    BY <2>1, <2>2
  <2>5. Cardinality(Owners(t, d)) = Cardinality(O) + 1
    BY <2>3, <2>4, OneMore
  <2>6. Cardinality(Owners(s, d)) \in Nat
    BY FiniteUses
  <2> QED BY <2>3, <2>5, <2>6
<1>9. HandlesInv(t)
  <2>1. \A g \in Handle \ {d} : Owners(t, g) = Owners(s, g)
    BY <1>3, <1>7 DEF Owners
  <2>2. \A g \in Handle : Cardinality(Owners(t, g)) = Cardinality(Owners(s, g))
    BY <1>8, <2>1
  <2> QED BY <1>2, <1>7, <2>2 DEF HandlesInv
<1>10. DeadInv(t)
  BY <1>2, <1>7 DEF DeadInv, Alive
<1>11. CountInv(t, 0)
  <2>1. /\ UseHandles(t) = UseHandles(s) /\ Mounts(t) = Mounts(s) /\ Busy(t) = Busy(s)
        /\ Providers(t) = Providers(s) /\ \A m : MountedAt(t, m) = MountedAt(s, m)
    BY <1>7 DEF UseHandles, Mounts, Busy, Providers, MountedAt
  <2> QED BY <1>2, <1>7, <2>1 DEF CountInv
<1>12. ReqInv(t, NULL) /\ QueueInv(t, s.queue, r)
  BY <1>2, <1>7 DEF ReqInv, QueueInv
<1>13. AcceptInv(t, r, {h})
  BY <1>2, <1>7 DEF AcceptInv, HandlesOf
<1>14. HandlerInv(t, NULL)
  <2>1. s.handler \in Proc \cup {NULL} /\ s.handler # p /\ s.handler # c
    BY <1>2, VfsAssumption DEF HandlerInv, Kernel
  <2> QED BY <1>2, <1>7, <2>1 DEF HandlerInv
<1>15. Good(t, t.queue, 0, NULL, r, {h})
  BY <1>2, <1>7, <1>9, <1>10, <1>11, <1>12, <1>13, <1>14 DEF Good
<1>16. \A i \in Proc \ {c} : Cardinality(t.handles[i]) <= HANDLE_MAX
  <2>1. s.handles[p] \in SUBSET Handle /\ (s.handles[p] \ {d}) \in SUBSET Handle
    BY <1>2 DEF Kernel
  <2>2. Cardinality(s.handles[p]) \in Nat /\ Cardinality(s.handles[p] \ {d}) \in Nat
    BY <2>1, FiniteSets
  <2>3. Cardinality(s.handles[p] \ {d}) <= Cardinality(s.handles[p]) /\ Cardinality(s.handles[p]) <= HANDLE_MAX
    BY <1>2, SmallerTable DEF Fits
  <2>4. Cardinality(t.handles[p]) <= HANDLE_MAX
    BY <1>7, <2>2, <2>3, VfsAssumption
  <2> QED BY <1>7, <2>4 DEF Fits
<1>17. s.h[h].refcount # 0
  <2>1. p \in Owners(s, h)
    BY DEF Owners
  <2>2. Cardinality(Owners(s, h)) > 0
    BY <2>1, FiniteUses, OneMore
  <2> QED BY <1>2, <2>2 DEF HandlesInv
<1>18. Closing(t) = Closing(s) /\ Opening(t) = Opening(s) /\ Files(t) = Files(s)
  BY <1>7 DEF Closing, Opening, Files
<1>19. OpenCount(t) <= OpenCount(s) + 1
  <2>1. OpenCount(s) \in Nat /\ OpenCount(t) = OpenCount(s)
    BY <1>18, FiniteUses DEF OpenCount
  <2> QED BY <2>1
<1>20. /\ d \in t.handles[c] /\ t.handles[c] \ {d} = s.handles[c]
       /\ h \in t.handles[p] /\ t.h[h].refcount # 0 /\ t.h[d].type # "FS_REQ"
  BY <1>4, <1>7, <1>17
<1>21. Given(s, t, p, h, r, c, d)
  BY <1>3, <1>4, <1>7, <1>15, <1>16, <1>18, <1>19, <1>20 DEF Given
<1> QED BY <1>5, <1>21

\* The open succeeds, or fails because the table of the caller is full.
LEMMA FinishGiven ==
    ASSUME NEW s, Calm(s), OpenCount(s) \in Nat, OpenCount(s) <= MaxOpens, NEW p \in Proc,
           s.state[p] = "RUNNING", NEW h \in Handle, NEW c \in Proc, c \in Req, s.req[c].op = "OPEN",
           s.req[c].st # "none", NEW g, NEW t, Given(s, t, p, h, c, c, g)
    PROVE  Answered(s, IF TableFull(s, c) THEN finish(handle_close(t, c, g), c) ELSE finish(t, c),
                    p, h, c)
<1>1. /\ Good(t, t.queue, 0, NULL, c, {h})
      /\ g \in Handle /\ g # h /\ g \in t.handles[c] /\ t.handles[c] \ {g} = s.handles[c]
      /\ \A i \in Proc \ {c} : Cardinality(t.handles[i]) <= HANDLE_MAX
      /\ h \in t.handles[p] /\ t.h[h].refcount # 0
      /\ t.h[g].type # "FS_REQ"
      /\ t.state = s.state /\ t.req = s.req /\ t.provhcnt = s.provhcnt
      /\ t.handler = s.handler /\ t.queue = s.queue
      /\ Closing(t) = Closing(s) /\ Opening(t) = Opening(s)
      /\ OpenCount(t) <= OpenCount(s) + 1
  BY DEF Given
<1>2. Good(s, s.queue, 0, NULL, NULL, {}) /\ Served(s) /\ Fits(s) /\ s \in Kernel
  BY DEF Calm, Good
<1>3. c \in Opening(s) /\ c \in Opening(t) /\ c \notin CloseReq
  BY <1>1, VfsAssumption DEF Opening, CloseReq
<1>4. Served(t)
  BY <1>1, <1>2 DEF Served
<1>5. OpenCount(t) \in Nat
  BY FiniteUses DEF OpenCount
<1>6. \E u : /\ u = IF TableFull(s, c) THEN handle_close(t, c, g) ELSE t
             /\ Good(u, u.queue, 0, NULL, c, {h}) /\ Served(u) /\ Fits(u)
             /\ OpenCount(u) <= OpenCount(s) + 1 /\ h \in u.handles[p]
             /\ u.req[c].st # "none" /\ c \in Opening(u)
  <2>1. CASE TableFull(s, c)
    <3>1. PICK u : u = handle_close(t, c, g)
      OBVIOUS
    <3>2. Cardinality(t.handles[c] \ {g}) <= HANDLE_MAX
      BY <1>1, <1>2 DEF Fits
    <3>3. Cardinality(Closing(t)) < MaxOpens
      <4>1. Cardinality(Opening(s)) > 0
        BY <1>3, FiniteUses, OneMore
      <4> QED BY <1>1, <4>1, FiniteUses, VfsAssumption DEF OpenCount
    <3>4. Closed(t, u, c, g, NULL, c, {h})
      BY <1>1, <1>3, <1>4, <3>1, <3>2, <3>3, HandleClose
    <3>5. /\ Good(u, u.queue, 0, NULL, c, {h}) /\ Served(u) /\ Fits(u)
          /\ OpenCount(u) <= OpenCount(t) /\ CloseFrame(t, u, c, g) /\ u.req[c] = t.req[c]
      BY <3>4 DEF Closed
    <3>6. OpenCount(u) <= OpenCount(s) + 1
      <4>1. OpenCount(u) \in Nat
        BY FiniteUses DEF OpenCount
      <4> QED BY <1>1, <1>5, <3>5, <4>1
    <3>7. h \in u.handles[p]
      <4>1. CASE p = c
        BY <1>1, <3>5, <4>1 DEF CloseFrame
      <4>2. CASE p # c
        BY <1>1, <3>5, <4>2 DEF CloseFrame
      <4> QED BY <4>1, <4>2
    <3>8. u.req[c].st # "none" /\ c \in Opening(u)
      BY <1>1, <1>3, <3>5 DEF Opening
    <3> QED BY <2>1, <3>1, <3>5, <3>6, <3>7, <3>8
  <2>2. CASE ~TableFull(s, c)
    <3>1. Fits(t)
      <4>1. s.handles[c] \in SUBSET Handle
        BY <1>2 DEF Kernel
      <4>2. IsFiniteSet(s.handles[c]) /\ Cardinality(s.handles[c]) \in Nat
        BY <4>1, FiniteSets
      <4>3. t.handles[c] = s.handles[c] \cup {g} /\ g \notin s.handles[c]
        BY <1>1
      <4>4. Cardinality(t.handles[c]) = Cardinality(s.handles[c]) + 1
        BY <4>2, <4>3, OneMore
      <4>5. Cardinality(t.handles[c]) <= HANDLE_MAX
        BY <1>2, <2>2, <4>2, <4>4, VfsAssumption DEF Fits, TableFull
      <4> QED BY <1>1, <4>5 DEF Fits
    <3>2. t.req[c].st # "none"
      BY <1>1
    <3> QED BY <1>1, <1>3, <1>4, <2>2, <3>1, <3>2
  <2> QED BY <2>1, <2>2
<1>7. PICK u : /\ u = IF TableFull(s, c) THEN handle_close(t, c, g) ELSE t
               /\ Good(u, u.queue, 0, NULL, c, {h}) /\ Served(u) /\ Fits(u)
               /\ OpenCount(u) <= OpenCount(s) + 1 /\ h \in u.handles[p]
               /\ u.req[c].st # "none" /\ c \in Opening(u)
  BY <1>6
<1>8. PICK v : v = finish(u, c)
  OBVIOUS
<1>9. v = IF TableFull(s, c) THEN finish(handle_close(t, c, g), c) ELSE finish(t, c)
  BY <1>7, <1>8
<1>10. Finished(u, v, u.queue, NULL, c, {h})
  <2>1. u.usehcnt = 1 /\ u.provhcnt = 0 => u.queue = <<>>
    BY <1>7 DEF Served
  <2>2. Good(u, u.queue, 0, NULL, c, {h}) /\ u.req[c].st # "none"
    BY <1>7
  <2> QED BY <1>8, <2>1, <2>2, Finish
<1>11. /\ Good(v, u.queue, 0, NULL, c, {h}) /\ v.req[c] = NoReq
       /\ v.handles = u.handles /\ v.queue = u.queue /\ v.handler \in {u.handler, NULL}
       /\ v.provhcnt = u.provhcnt /\ OpenCount(v) < OpenCount(u)
  BY <1>7, <1>10 DEF Finished, Frame
<1>12. OpenCount(v) <= OpenCount(s)
  <2>1. OpenCount(v) \in Nat /\ OpenCount(u) \in Nat
    BY FiniteUses DEF OpenCount
  <2> QED BY <1>7, <1>11, <2>1
<1>13. Served(v) /\ Fits(v)
  BY <1>7, <1>11 DEF Served, Fits
<1> QED BY <1>7, <1>9, <1>11, <1>12, <1>13 DEF Answered

LEMMA FinishOpen ==
    ASSUME Calm(k), OpenCount(k) \in Nat, OpenCount(k) <= MaxOpens, NEW p \in Proc,
           k.state[p] = "RUNNING", NEW h \in k.handles[p], h \in Handle, NEW r \in Req, k.h[h].req = r,
           k.req[r].op = "OPEN", NEW d \in Delegable(p, r)
    PROVE  Answered(k, finish_open(k, r, p, d), p, h, r)
<1>1. Good(k, k.queue, 0, NULL, NULL, {}) /\ Served(k) /\ Fits(k)
  BY DEF Calm
<1>2. k.req[r].st # "none"
  BY <1>1, Focus
<1>3. k \in Kernel /\ ReqInv(k, NULL)
  BY <1>1 DEF Good
<1>4. k.req[r].caller # NULL
  BY <1>3 DEF ReqInv
<1>5. k.req[r].caller \in Proc \cup {NULL}
  BY <1>3 DEF Kernel
<1>6. PICK c \in Proc : c = k.req[r].caller /\ c = r
  BY <1>3, <1>4, <1>5 DEF ReqInv
<1>7. k.state[c] = "WAITS4FS" /\ c \in Req /\ k.h[h].req = c /\ k.req[c].op = "OPEN" /\ k.req[c].st # "none"
  BY <1>2, <1>3, <1>6 DEF ReqInv
<1>8. \E t, g : /\ Given(k, t, p, h, c, c, g)
                /\ finish_open(k, r, p, d) = IF TableFull(k, c) THEN finish(handle_close(t, c, g), c)
                                             ELSE finish(t, c)
  <2>1. CASE d = NULL
    <3>1. PICK t : t = handle_init(more(k), c, "FILE", NULL)
      OBVIOUS
    <3>2. PICK g : g = NewHandle(k)
      OBVIOUS
    <3>3. Given(k, t, p, h, c, c, g)
      BY <1>1, <1>7, <3>1, <3>2, GiveNew
    <3>4. finish_open(k, r, p, d) = IF TableFull(k, c) THEN finish(handle_close(t, c, g), c)
                                    ELSE finish(t, c)
      BY <1>4, <1>6, <2>1, <3>1, <3>2 DEF finish_open, more
    <3> QED BY <3>3, <3>4
  <2>2. CASE d # NULL
    <3>1. d \in k.handles[p] /\ k.h[d].type \in {"FILE", "FS_FRONT"} /\ d \notin k.handles[c]
      BY <1>6, <2>2 DEF Delegable
    <3>2. PICK t : t = passed(k, p, c, d)
      OBVIOUS
    <3>3. Given(k, t, p, h, c, c, d)
      BY <1>1, <1>7, <3>1, <3>2, GiveOld
    <3>4. finish_open(k, r, p, d) = IF TableFull(k, c) THEN finish(handle_close(t, c, d), c)
                                    ELSE finish(t, c)
      BY <1>4, <1>6, <2>2, <3>2 DEF finish_open, passed
    <3> QED BY <3>3, <3>4
  <2> QED BY <2>1, <2>2
<1>9. PICK t, g : /\ Given(k, t, p, h, c, c, g)
                  /\ finish_open(k, r, p, d) = IF TableFull(k, c) THEN finish(handle_close(t, c, g), c)
                                               ELSE finish(t, c)
  BY <1>8
<1>10. PICK v : v = IF TableFull(k, c) THEN finish(handle_close(t, c, g), c) ELSE finish(t, c)
  OBVIOUS
<1>11. Answered(k, v, p, h, c)
  BY <1>7, <1>9, <1>10, FinishGiven
<1> QED BY <1>6, <1>9, <1>10, <1>11

LEMMA FsRespondInd == ASSUME IndInv, NEW p \in Proc, FsRespond(p) PROVE IndInv'
<1>1. phase = "none" /\ k.state[p] = "RUNNING"
  BY DEF FsRespond, Running
<1>2. /\ Calm(k) /\ OpenCount(k) <= opens /\ opens \in Nat /\ opens <= MaxOpens /\ OpenCount(k) \in Nat
      /\ OpenCount(k) <= MaxOpens
  BY <1>1, CalmNow
<1>3. Good(k, k.queue, 0, NULL, NULL, {}) /\ Served(k) /\ Fits(k) /\ k \in Kernel /\ ReqInv(k, NULL)
  BY <1>2 DEF Calm, Good
<1>4. PICK h \in k.handles[p] :
        \/ k.h[h].req = NULL /\ Step(handle_close(unref(k, h), p, h))
        \/ k.h[h].req # NULL /\ Step(handle_close(unref(finish(k, k.h[h].req), h), p, h))
        \/ /\ k.h[h].req # NULL /\ k.req[k.h[h].req].op = "READ"
           /\ Step(handle_close(unref(finish(Check(k, k.req[k.h[h].req].caller # NULL, "kill_read"),
                                             k.h[h].req), h), p, h))
        \/ /\ k.h[h].req # NULL /\ k.req[k.h[h].req].op = "OPEN"
           /\ \E d \in Delegable(p, k.h[h].req) :
                Step(handle_close(unref(finish_open(k, k.h[h].req, p, d), h), p, h))
  BY DEF FsRespond, unref
<1>5. h \in Handle /\ k.h[h].req \in Req \cup {NULL}
  BY <1>3 DEF Kernel
<1>6. PICK r : r = k.h[h].req
  OBVIOUS
<1>7. CASE r = NULL /\ Step(handle_close(unref(k, h), p, h))
  <2>1. PICK u : u = unref(k, h)
    OBVIOUS
  <2>2. Unreferred(k, u, h)
    BY <1>3, <1>5, <2>1, UnrefFields
  <2>3. u = k
    BY <1>6, <1>7, <2>2 DEF Unreferred
  <2>4. PICK t : t = handle_close(k, p, h)
    OBVIOUS
  <2>5. Closed(k, t, p, h, NULL, NULL, {})
    BY <1>2, <1>3, <2>4, CloseCalm
  <2>6. Calm(t) /\ OpenCount(t) <= opens
    <3>1. OpenCount(t) \in Nat
      BY FiniteUses DEF OpenCount
    <3> QED BY <1>2, <2>5, <3>1 DEF Closed, Calm
  <2>7. Calm(k') /\ OpenCount(k') <= opens' /\ opens' \in 0..MaxOpens /\ Done
    BY <1>2, <1>7, <2>1, <2>3, <2>4, <2>6, VfsAssumption DEF Step
  <2> QED BY <1>1, <2>7, CalmNext
<1>8. ASSUME NEW t, r \in Req, Answered(k, t, p, h, r), Step(handle_close(unref(t, h), p, h))
      PROVE  IndInv'
  <2>1. PICK v : v = handle_close(unref(t, h), p, h)
    OBVIOUS
  <2>2. Calm(v) /\ OpenCount(v) <= OpenCount(k)
    BY <1>2, <1>5, <1>8, <2>1, RespondClose
  <2>3. OpenCount(v) <= opens
    <3>1. OpenCount(v) \in Nat
      BY FiniteUses DEF OpenCount
    <3> QED BY <1>2, <2>2, <3>1
  <2>4. Calm(k') /\ OpenCount(k') <= opens' /\ opens' \in 0..MaxOpens /\ Done
    BY <1>2, <1>8, <2>1, <2>2, <2>3, VfsAssumption DEF Step
  <2> QED BY <1>1, <2>4, CalmNext
<1>9. CASE r # NULL /\ Step(handle_close(unref(finish(k, r), h), p, h))
  <2>1. PICK t : t = finish(k, r)
    OBVIOUS
  <2>2. r \in Req
    BY <1>5, <1>6, <1>9
  <2>3. Answered(k, t, p, h, r)
    BY <1>2, <1>5, <1>6, <2>1, <2>2, FinishAnswers
  <2> QED BY <1>8, <1>9, <2>1, <2>2, <2>3
<1>10. CASE /\ r # NULL /\ k.req[r].op = "READ"
            /\ Step(handle_close(unref(finish(Check(k, k.req[r].caller # NULL, "kill_read"), r), h), p, h))
  <2>1. PICK t : t = finish(k, r)
    OBVIOUS
  <2>2. r \in Req
    BY <1>5, <1>6, <1>10
  <2>3. Answered(k, t, p, h, r)
    BY <1>2, <1>5, <1>6, <2>1, <2>2, FinishAnswers
  <2>4. k.req[r].caller # NULL
    BY <1>3, <1>10, <2>2 DEF ReqInv
  <2>5. Check(k, k.req[r].caller # NULL, "kill_read") = k
    BY <2>4 DEF Check
  <2> QED BY <1>8, <1>10, <2>1, <2>2, <2>3, <2>5
<1>11. CASE /\ r # NULL /\ k.req[r].op = "OPEN"
            /\ \E d \in Delegable(p, r) : Step(handle_close(unref(finish_open(k, r, p, d), h), p, h))
  <2>1. PICK d \in Delegable(p, r) : Step(handle_close(unref(finish_open(k, r, p, d), h), p, h))
    BY <1>11
  <2>2. PICK t : t = finish_open(k, r, p, d)
    OBVIOUS
  <2>3. r \in Req
    BY <1>5, <1>6, <1>11
  <2>4. Answered(k, t, p, h, r)
    BY <1>1, <1>2, <1>5, <1>6, <1>11, <2>2, <2>3, FinishOpen
  <2> QED BY <1>8, <2>1, <2>2, <2>3, <2>4
<1> QED BY <1>4, <1>6, <1>7, <1>9, <1>10, <1>11

-----------------------------------------------------------------------------
(* proc_kill. *)

\* t is s where p does not provide the backend any more.
Resigned(s, t, p) ==
    /\ t \in Kernel
    /\ \A i \in Proc : t.controlled[i] = (i # p /\ s.controlled[i])
    /\ t.handler = IF s.handler = p THEN NULL ELSE s.handler
    /\ t.provhcnt = s.provhcnt - 1 /\ t.usehcnt = s.usehcnt
    /\ t.handles = s.handles /\ t.h = s.h
    /\ t.state = s.state /\ t.req = s.req /\ t.mount = s.mount
    /\ t.mrefs = s.mrefs /\ t.panic = s.panic /\ t.queue = s.queue
    /\ t.backend = IF s.usehcnt = 0 /\ s.provhcnt = 1 THEN "freed" ELSE s.backend

resigned(s, p) == [s EXCEPT !.controlled[p] = FALSE, !.handler = IF @ = p THEN NULL ELSE @,
                            !.provhcnt = @ - 1]

LEMMA ResignFields ==
    ASSUME NEW s \in Kernel, NEW p \in Proc, s.provhcnt > 0
    PROVE  Resigned(s, orphaned(resigned(s, p)), p)
<1> DEFINE ct == [s.controlled EXCEPT ![p] = FALSE]
           hr == IF s.handler = p THEN NULL ELSE s.handler
<1>1. PICK n \in Nat : n = s.provhcnt - 1
  BY DEF Kernel
<1>2. s.controlled \in [Proc -> BOOLEAN] /\ s.handler \in Proc \cup {NULL} /\ s.provhcnt \in Nat
  BY DEF Kernel
<1>3. ct \in [Proc -> BOOLEAN] /\ hr \in Proc \cup {NULL}
  BY <1>2
<1>4. \A i \in Proc : ct[i] = (i # p /\ s.controlled[i])
  BY <1>2, Zenon
<1>5. PICK d : d = resigned(s, p)
  OBVIOUS
<1>6. d = [s EXCEPT !.controlled = ct, !.handler = hr, !.provhcnt = n]
  BY <1>1, <1>5 DEF resigned
<1> HIDE DEF ct, hr
<1>7. d \in Kernel
  BY <1>3, <1>6 DEF Kernel
<1>8. /\ d.controlled = ct /\ d.handler = hr /\ d.provhcnt = n /\ d.usehcnt = s.usehcnt
      /\ d.handles = s.handles /\ d.h = s.h
      /\ d.state = s.state /\ d.req = s.req /\ d.mount = s.mount
      /\ d.mrefs = s.mrefs /\ d.panic = s.panic /\ d.queue = s.queue /\ d.backend = s.backend
  BY <1>6 DEF Kernel
<1>9. PICK t : t = orphaned(d)
  OBVIOUS
<1>10. CASE d.usehcnt = 0 /\ d.provhcnt = 0
  <2>1. t = [d EXCEPT !.backend = "freed"]
    BY <1>9, <1>10 DEF orphaned
  <2>2. t \in Kernel
    BY <1>7, <2>1 DEF Kernel
  <2>3. /\ t.controlled = ct /\ t.handler = hr /\ t.provhcnt = n /\ t.usehcnt = s.usehcnt
        /\ t.handles = s.handles /\ t.h = s.h
        /\ t.state = s.state /\ t.req = s.req /\ t.mount = s.mount
        /\ t.mrefs = s.mrefs /\ t.panic = s.panic /\ t.queue = s.queue /\ t.backend = "freed"
    BY <1>7, <1>8, <2>1 DEF Kernel
  <2>4. s.usehcnt = 0 /\ s.provhcnt = 1
    BY <1>1, <1>2, <1>8, <1>10
  <2> QED BY <1>1, <1>4, <1>5, <1>9, <2>2, <2>3, <2>4 DEF Resigned, hr
<1>11. CASE ~(d.usehcnt = 0 /\ d.provhcnt = 0)
  <2>1. t = d
    BY <1>9, <1>11 DEF orphaned
  <2>2. ~(s.usehcnt = 0 /\ s.provhcnt = 1)
    BY <1>1, <1>2, <1>8, <1>11
  <2> QED BY <1>1, <1>4, <1>5, <1>7, <1>8, <1>9, <2>1, <2>2 DEF Resigned, hr
<1> QED BY <1>10, <1>11

LEMMA GoodResigned ==
    ASSUME NEW s, Good(s, s.queue, 0, NULL, NULL, {}), NEW p \in Proc, s.controlled[p],
           NEW t, Resigned(s, t, p)
    PROVE  Good(t, s.queue, 0, p, NULL, {})
<1>1. /\ s \in Kernel /\ s.panic = "none"
      /\ HandlesInv(s) /\ DeadInv(s) /\ CountInv(s, 0) /\ ReqInv(s, NULL)
      /\ QueueInv(s, s.queue, NULL) /\ AcceptInv(s, NULL, {}) /\ HandlerInv(s, NULL)
  BY DEF Good
<1>2. /\ t \in Kernel
      /\ \A i \in Proc : t.controlled[i] = (i # p /\ s.controlled[i])
      /\ t.handler = IF s.handler = p THEN NULL ELSE s.handler
      /\ t.provhcnt = s.provhcnt - 1 /\ t.usehcnt = s.usehcnt
      /\ t.handles = s.handles /\ t.h = s.h
      /\ t.state = s.state /\ t.req = s.req /\ t.mount = s.mount
      /\ t.mrefs = s.mrefs /\ t.panic = s.panic /\ t.queue = s.queue
      /\ t.backend = IF s.usehcnt = 0 /\ s.provhcnt = 1 THEN "freed" ELSE s.backend
  BY DEF Resigned
<1>3. HandlesInv(t)
  BY <1>1, <1>2 DEF HandlesInv, Owners
<1>4. DeadInv(t)
  BY <1>1, <1>2 DEF DeadInv
<1>5. CountInv(t, 0)
  <2>1. /\ UseHandles(t) = UseHandles(s) /\ Mounts(t) = Mounts(s) /\ Busy(t) = Busy(s)
        /\ \A m : MountedAt(t, m) = MountedAt(s, m)
    BY <1>2 DEF UseHandles, Mounts, Busy, MountedAt
  <2>2. Providers(t) = Providers(s) \ {p} /\ p \in Providers(s)
    BY <1>2 DEF Providers
  <2>3. Cardinality(Providers(t)) = Cardinality(Providers(s)) - 1
    BY <2>2, FiniteUses, OneMore
  <2>4. t.provhcnt = Cardinality(Providers(t))
    BY <1>1, <1>2, <2>3 DEF CountInv
  <2>5. s.provhcnt \in Nat /\ t.provhcnt \in Nat /\ s.usehcnt \in Nat
    BY <1>1, <1>2 DEF Kernel
  <2>6. t.backend = "live" <=> t.usehcnt > 0 \/ t.provhcnt > 0
    <3>1. s.backend = "live"
      BY <1>1, <1>2, <2>5 DEF CountInv
    <3> QED BY <1>2, <2>5, <3>1
  <2> QED BY <1>1, <1>2, <2>1, <2>4, <2>6 DEF CountInv
<1>6. ReqInv(t, p)
  <2>1. p # NULL
    BY VfsAssumption
  <2> QED BY <1>1, <1>2, VfsAssumption DEF ReqInv
<1>7. QueueInv(t, s.queue, NULL)
  BY <1>1, <1>2 DEF QueueInv
<1>8. AcceptInv(t, NULL, {})
  BY <1>1, <1>2 DEF AcceptInv, HandlesOf
<1>9. HandlerInv(t, p)
  <2>1. s.handler \in Proc \cup {NULL}
    BY <1>1 DEF Kernel
  <2>2. t.handler # NULL => t.handler = s.handler /\ t.handler \in Proc /\ t.handler # p
    BY <1>2, <2>1
  <2>3. t.handler # NULL =>
            /\ t.state[t.handler] = "WAITS4REQUEST" /\ t.controlled[t.handler]
            /\ t.usehcnt > 0
            /\ Cardinality(t.handles[t.handler]) < HANDLE_MAX
    BY <1>1, <1>2, <2>2 DEF HandlerInv
  <2>4. \A i \in Proc \ {p} : t.state[i] = "WAITS4REQUEST" => t.handler = i
    BY <1>1, <1>2, VfsAssumption DEF HandlerInv
  <2> QED BY <2>3, <2>4 DEF HandlerInv
<1> QED BY <1>1, <1>2, <1>3, <1>4, <1>5, <1>6, <1>7, <1>8, <1>9 DEF Good

LEMMA GoodDying ==
    ASSUME NEW s, Good(s, s.queue, 0, NULL, NULL, {}), NEW p \in Proc
    PROVE  Good(s, s.queue, 0, p, NULL, {})
<1>1. ReqInv(s, NULL) /\ HandlerInv(s, NULL)
  BY DEF Good
<1>2. ReqInv(s, p) /\ HandlerInv(s, p)
  BY <1>1, VfsAssumption DEF ReqInv, HandlerInv
<1> QED BY <1>2 DEF Good

LEMMA KillInd == ASSUME Risks = {}, IndInv, NEW p \in Proc, Kill(p) PROVE IndInv'
<1>1. /\ phase = "none" /\ Killable(p) /\ dying' = p /\ opens' = opens
  BY DEF Kill
<1>2. /\ Calm(k) /\ OpenCount(k) <= opens /\ opens \in 0..MaxOpens /\ drain \in Seq(Req)
  BY <1>1, CalmNow DEF IndInv
<1>3. Good(k, k.queue, 0, NULL, NULL, {}) /\ Served(k) /\ Fits(k)
  BY <1>2 DEF Calm
<1>4. k \in Kernel /\ k.panic = "none" /\ CountInv(k, 0) /\ k.queue \in Seq(Req) /\ k.usehcnt \in Nat
      /\ k.provhcnt \in Nat /\ ReqInv(k, NULL)
  BY <1>3 DEF Good, Kernel
<1>5. k.state[p] \in Alive /\ Harmless(k, p)
  <2>1. k.req[p].st \in {"none", "queued", "accepted"}
    BY <1>4 DEF Kernel, Req
  <2>2. k.state[p] = "WAITS4FS" => k.req[p].st # "none"
    <3>1. k.state[p] = "WAITS4FS" => k.req[p].caller = p
      BY <1>4, VfsAssumption DEF ReqInv
    <3> QED BY <1>4, <3>1, VfsAssumption DEF ReqInv, NoReq, Req
  <2> QED BY <1>1, <2>1, <2>2 DEF Killable, Alive, Harmless
<1>6. p # NULL /\ "drain" # "none" /\ "slot" # "none"
  BY VfsAssumption
<1>7. CASE ~k.controlled[p]
  <2>1. k' = k /\ phase' = "slot" /\ drain' = drain
    BY <1>7 DEF Kill
  <2>2. Good(k, k.queue, 0, p, NULL, {})
    BY <1>3, GoodDying
  <2>3. StepInv'
    BY <1>1, <1>3, <2>1, <2>2 DEF StepInv
  <2> QED BY <1>1, <1>2, <1>3, <1>5, <1>6, <1>7, <2>1, <2>3 DEF IndInv
<1>8. CASE k.controlled[p]
  <2>1. k.provhcnt > 0
    <3>1. p \in Providers(k)
      BY <1>8 DEF Providers
    <3>2. Cardinality(Providers(k)) > 0
      BY <3>1, FiniteUses, OneMore
    <3> QED BY <1>4, <3>2 DEF CountInv
  <2>2. PICK d : d = resigned(k, p)
    OBVIOUS
  <2>3. PICK t : t = orphaned(d)
    OBVIOUS
  <2>4. Resigned(k, t, p)
    BY <1>4, <2>1, <2>2, <2>3, ResignFields
  <2>5. Good(t, k.queue, 0, p, NULL, {})
    BY <1>3, <1>8, <2>4, GoodResigned
  <2>6. /\ t.handler = IF k.handler = p THEN NULL ELSE k.handler
        /\ t.provhcnt = k.provhcnt - 1 /\ t.usehcnt = k.usehcnt
        /\ t.handles = k.handles /\ t.h = k.h
        /\ t.state = k.state /\ t.req = k.req /\ t.queue = k.queue /\ ~t.controlled[p]
    BY <2>4 DEF Resigned
  <2>7. t.state[p] \in Alive /\ Harmless(t, p) /\ Fits(t) /\ OpenCount(t) = OpenCount(k)
    BY <1>3, <1>5, <2>6 DEF Harmless, Fits, OpenCount, Files, Closing, Opening
  <2>8. d.provhcnt = k.provhcnt - 1 /\ d.usehcnt = k.usehcnt
    BY <1>4, <2>2 DEF resigned, Kernel
  <2>9. IF d.provhcnt = 0 /\ k.queue # <<>>
        THEN k' = d /\ phase' = "drain" /\ drain' = k.queue
        ELSE k' = t /\ phase' = "slot" /\ UNCHANGED drain
    BY <1>8, <2>2, <2>3 DEF Kill, resigned
  <2>10. CASE d.provhcnt = 0 /\ k.queue # <<>>
    <3>1. k.provhcnt = 1
      BY <1>4, <2>8, <2>10
    <3>2. k.usehcnt > Len(k.queue) /\ Len(k.queue) \in Nat
      BY <1>1, <1>4, <1>8, <2>10, <3>1 DEF Killable
    <3>3. t = d
      BY <1>4, <2>3, <2>8, <3>2 DEF orphaned
    <3>4. k' = t /\ phase' = "drain" /\ drain' = k.queue
      BY <2>9, <2>10, <3>3
    <3>5. DrainInv'
      BY <1>1, <1>4, <2>5, <2>6, <2>10, <3>1, <3>2, <3>4 DEF DrainInv
    <3> QED BY <1>1, <1>2, <1>4, <1>6, <2>6, <2>7, <3>4, <3>5 DEF IndInv
  <2>11. CASE ~(d.provhcnt = 0 /\ k.queue # <<>>)
    <3>1. k' = t /\ phase' = "slot" /\ drain' = drain
      BY <2>9, <2>11
    <3>2. Served(t)
      BY <1>3, <1>4, <2>1, <2>6, <2>8, <2>11 DEF Served
    <3>3. StepInv'
      BY <1>1, <2>5, <2>6, <3>1, <3>2 DEF StepInv
    <3> QED BY <1>1, <1>2, <1>6, <2>6, <2>7, <3>1, <3>3 DEF IndInv
  <2> QED BY <2>10, <2>11
<1> QED BY <1>7, <1>8

\* The backend of the loop, with the queue forgotten.
emptied(s) == [s EXCEPT !.queue = <<>>]

Emptied(s, t) ==
    /\ t \in Kernel /\ t.queue = <<>>
    /\ t.handles = s.handles /\ t.h = s.h
    /\ t.state = s.state /\ t.req = s.req /\ t.controlled = s.controlled /\ t.mount = s.mount
    /\ t.mrefs = s.mrefs /\ t.provhcnt = s.provhcnt /\ t.usehcnt = s.usehcnt
    /\ t.backend = s.backend /\ t.panic = s.panic /\ t.handler = s.handler

LEMMA EmptyFields ==
    ASSUME NEW s \in Kernel PROVE Emptied(s, emptied(s))
<1>1. PICK t : t = emptied(s)
  OBVIOUS
<1>2. t = [s EXCEPT !.queue = <<>>]
  BY <1>1 DEF emptied
<1>3. t \in Kernel
  <2>1. <<>> \in Seq(Req)
    OBVIOUS
  <2> QED BY <1>2, <2>1 DEF Kernel
<1>4. /\ t.queue = <<>>
      /\ t.handles = s.handles /\ t.h = s.h
      /\ t.state = s.state /\ t.req = s.req /\ t.controlled = s.controlled /\ t.mount = s.mount
      /\ t.mrefs = s.mrefs /\ t.provhcnt = s.provhcnt /\ t.usehcnt = s.usehcnt
      /\ t.backend = s.backend /\ t.panic = s.panic /\ t.handler = s.handler
  BY <1>2 DEF Kernel
<1> QED BY <1>1, <1>3, <1>4 DEF Emptied

LEMMA GoodEmptied ==
    ASSUME NEW s, NEW q, NEW x, Good(s, q, 0, x, NULL, {}), NEW t, Emptied(s, t)
    PROVE  Good(t, q, 0, x, NULL, {})
<1>1. /\ s \in Kernel /\ s.panic = "none"
      /\ HandlesInv(s) /\ DeadInv(s) /\ CountInv(s, 0) /\ ReqInv(s, x)
      /\ QueueInv(s, q, NULL) /\ AcceptInv(s, NULL, {}) /\ HandlerInv(s, x)
  BY DEF Good
<1>2. /\ t \in Kernel
      /\ t.handles = s.handles /\ t.h = s.h
      /\ t.state = s.state /\ t.req = s.req /\ t.controlled = s.controlled /\ t.mount = s.mount
      /\ t.mrefs = s.mrefs /\ t.provhcnt = s.provhcnt /\ t.usehcnt = s.usehcnt
      /\ t.backend = s.backend /\ t.panic = s.panic /\ t.handler = s.handler
  BY DEF Emptied
<1>3. HandlesInv(t)
  BY <1>1, <1>2 DEF HandlesInv, Owners
<1>4. DeadInv(t) /\ ReqInv(t, x) /\ QueueInv(t, q, NULL) /\ HandlerInv(t, x)
  BY <1>1, <1>2 DEF DeadInv, ReqInv, QueueInv, HandlerInv
<1>5. AcceptInv(t, NULL, {})
  BY <1>1, <1>2 DEF AcceptInv, HandlesOf
<1>6. CountInv(t, 0)
  <2>1. /\ UseHandles(t) = UseHandles(s) /\ Mounts(t) = Mounts(s) /\ Busy(t) = Busy(s)
        /\ Providers(t) = Providers(s) /\ \A m : MountedAt(t, m) = MountedAt(s, m)
    BY <1>2 DEF UseHandles, Mounts, Busy, Providers, MountedAt
  <2> QED BY <1>1, <1>2, <2>1 DEF CountInv
<1> QED BY <1>1, <1>2, <1>3, <1>4, <1>5, <1>6 DEF Good

\* The first of the queued requests is the one being finished.
LEMMA FocusHead ==
    ASSUME NEW s, NEW q, NEW x, Good(s, q, 0, x, NULL, {}), q # <<>>
    PROVE  /\ Good(s, Tail(q), 0, x, Head(q), {}) /\ Head(q) \in Req /\ s.req[Head(q)].st # "none"
           /\ Tail(q) \in Seq(Req) /\ Len(q) \in Nat \ {0} /\ Len(Tail(q)) = Len(q) - 1
<1>1. QueueInv(s, q, NULL) /\ AcceptInv(s, NULL, {})
  BY DEF Good
<1>2. PICK r : r = Head(q)
  OBVIOUS
<1>3. PICK w : w = Tail(q)
  OBVIOUS
<1>4. q \in Seq(Req) /\ \A i, j \in DOMAIN q : q[i] = q[j] => i = j
  BY <1>1 DEF QueueInv
<1>5. /\ r \in Req /\ r = q[1] /\ 1 \in DOMAIN q
      /\ w \in Seq(Req) /\ Len(q) \in Nat \ {0} /\ Len(w) = Len(q) - 1
      /\ \A i \in DOMAIN w : w[i] \in Req /\ w[i] # r
      /\ \A i \in DOMAIN w : \E j \in DOMAIN q : w[i] = q[j]
      /\ \A i, j \in DOMAIN w : w[i] = w[j] => i = j
      /\ \A j \in DOMAIN q : q[j] = r \/ \E i \in DOMAIN w : w[i] = q[j]
  BY <1>2, <1>3, <1>4, TailQueue
<1>6. s.req[r].st = "queued"
  BY <1>1, <1>5 DEF QueueInv
<1>7. \A i \in Req : i # NULL
  BY VfsAssumption DEF Req, CloseReq
<1>8. QueueInv(s, w, r)
  <2>1. \A i \in DOMAIN w : s.req[w[i]].st = "queued" /\ w[i] # r
    BY <1>1, <1>5 DEF QueueInv
  <2>2. \A i \in Req \ {r} : s.req[i].st = "queued" => \E j \in DOMAIN w : w[j] = i
    BY <1>1, <1>5, <1>7 DEF QueueInv
  <2> QED BY <1>5, <2>1, <2>2 DEF QueueInv
<1>9. AcceptInv(s, r, {})
  BY <1>1, <1>5, <1>6, <1>7 DEF AcceptInv
<1> QED BY <1>2, <1>3, <1>5, <1>6, <1>8, <1>9 DEF Good

LEMMA DyingNow ==
    ASSUME IndInv, phase # "none"
    PROVE  /\ dying \in Proc /\ dying # NULL /\ dying \in Req /\ k.state[dying] \in Alive
           /\ ~k.controlled[dying]
           /\ opens \in 0..MaxOpens /\ OpenCount(k) <= opens /\ Fits(k) /\ drain \in Seq(Req)
           /\ OpenCount(k) <= MaxOpens
<1>1. dying \in Proc /\ dying # NULL /\ k.state[dying] \in Alive /\ ~k.controlled[dying]
  BY DEF IndInv
<1>2. OpenCount(k) \in Nat /\ opens \in 0..MaxOpens /\ OpenCount(k) <= opens /\ Fits(k) /\ drain \in Seq(Req)
  BY FiniteUses DEF IndInv, OpenCount
<1>3. OpenCount(k) <= MaxOpens
  BY <1>2, VfsAssumption
<1> QED BY <1>1, <1>2, <1>3 DEF Req

LEMMA KillDrainInd == ASSUME IndInv, KillDrain PROVE IndInv'
<1>1. phase = "drain" /\ opens' = opens /\ dying' = dying /\ drain' = Tail(drain)
  BY DEF KillDrain
<1>2. /\ dying \in Proc /\ dying # NULL /\ dying \in Req /\ k.state[dying] \in Alive
      /\ ~k.controlled[dying]
      /\ opens \in 0..MaxOpens /\ OpenCount(k) <= opens /\ Fits(k)
  BY <1>1, DyingNow
<1>3. /\ Good(k, drain, 0, dying, NULL, {}) /\ k.provhcnt = 0 /\ drain # <<>>
      /\ k.usehcnt > Len(drain) /\ Harmless(k, dying)
  BY <1>1 DEF IndInv, DrainInv
<1>4. PICK r : r = Head(drain)
  OBVIOUS
<1>5. PICK w : w = Tail(drain)
  OBVIOUS
<1>6. /\ Good(k, w, 0, dying, r, {}) /\ r \in Req /\ k.req[r].st # "none"
      /\ w \in Seq(Req) /\ Len(drain) \in Nat \ {0} /\ Len(w) = Len(drain) - 1
  BY <1>3, <1>4, <1>5, FocusHead
<1>7. k.usehcnt \in Nat /\ k.usehcnt # 1
  BY <1>3, <1>6 DEF Good, Kernel
<1>8. PICK t : t = finish(k, r)
  OBVIOUS
<1>9. Finished(k, t, w, dying, r, {})
  BY <1>6, <1>7, <1>8, Finish
<1>10. /\ Good(t, w, 0, dying, r, {}) /\ t.req[r] = NoReq /\ Frame(k, t)
       /\ t.handles = k.handles /\ t.usehcnt = k.usehcnt - 1
       /\ OpenCount(t) <= OpenCount(k)
       /\ \A i \in Req \ {r} : t.req[i] = k.req[i]
  BY <1>9 DEF Finished
<1>11. Good(t, w, 0, dying, NULL, {})
  BY <1>6, <1>10, Forget
<1>12. t.usehcnt > Len(w) /\ Len(w) \in Nat /\ t.usehcnt \in Nat
  BY <1>3, <1>6, <1>7, <1>10
<1>13. t.provhcnt = 0 /\ t.controlled = k.controlled /\ t.state[dying] \in {k.state[dying], "RUNNING"}
  BY <1>2, <1>3, <1>10 DEF Frame
<1>14. Harmless(t, dying)
  BY <1>2, <1>3, <1>10, <1>13 DEF Harmless, NoReq
<1>15. Fits(t) /\ OpenCount(t) <= opens /\ t.state[dying] \in Alive /\ ~t.controlled[dying]
  <2>1. OpenCount(t) \in Nat /\ OpenCount(k) \in Nat
    BY FiniteUses DEF OpenCount
  <2>2. OpenCount(t) <= opens
    BY <1>2, <1>10, <2>1, VfsAssumption
  <2> QED BY <1>2, <1>10, <1>13, <2>2 DEF Fits, Alive
<1>16. CASE w # <<>>
  <2>1. k' = t /\ phase' = "drain"
    BY <1>1, <1>4, <1>5, <1>8, <1>16 DEF KillDrain
  <2>2. DrainInv'
    BY <1>1, <1>5, <1>11, <1>12, <1>13, <1>16, <2>1 DEF DrainInv
  <2> QED BY <1>1, <1>2, <1>5, <1>6, <1>14, <1>15, <2>1, <2>2 DEF IndInv
<1>17. CASE w = <<>>
  <2>1. PICK u : u = emptied(t)
    OBVIOUS
  <2>2. k' = orphaned(u) /\ phase' = "slot"
    BY <1>1, <1>4, <1>5, <1>8, <1>17, <2>1 DEF KillDrain, emptied
  <2>3. t \in Kernel
    BY <1>11 DEF Good
  <2>4. Emptied(t, u)
    BY <2>1, <2>3, EmptyFields
  <2>5. Good(u, w, 0, dying, NULL, {})
    BY <1>11, <2>4, GoodEmptied
  <2>6. u.queue = <<>> /\ u.usehcnt = t.usehcnt /\ u.handles = t.handles /\ u.state = t.state
        /\ u.req = t.req /\ u.controlled = t.controlled /\ u.h = t.h
    BY <2>4 DEF Emptied
  <2>7. orphaned(u) = u
    BY <1>12, <2>6 DEF orphaned
  <2>8. Served(u) /\ Fits(u) /\ OpenCount(u) = OpenCount(t) /\ Harmless(u, dying)
    BY <1>14, <1>15, <2>6 DEF Served, Fits, Harmless, OpenCount, Files, Closing, Opening
  <2>9. StepInv'
    BY <1>1, <1>17, <2>2, <2>5, <2>6, <2>7, <2>8 DEF StepInv
  <2> QED BY <1>1, <1>2, <1>5, <1>6, <1>15, <2>2, <2>6, <2>7, <2>8, <2>9 DEF IndInv
<1> QED BY <1>16, <1>17

\* t is s where the request of p has no caller.
Disowned(s, t, p) ==
    /\ t \in Kernel
    /\ t.req[p].caller = NULL /\ t.req[p].st = s.req[p].st /\ t.req[p].op = s.req[p].op
    /\ \A i \in Req \ {p} : t.req[i] = s.req[i]
    /\ t.handles = s.handles /\ t.h = s.h
    /\ t.state = s.state /\ t.controlled = s.controlled /\ t.mount = s.mount
    /\ t.mrefs = s.mrefs /\ t.provhcnt = s.provhcnt /\ t.usehcnt = s.usehcnt
    /\ t.backend = s.backend /\ t.panic = s.panic /\ t.handler = s.handler /\ t.queue = s.queue

disowned(s, p) == [s EXCEPT !.req[p].caller = NULL]

LEMMA DisownFields ==
    ASSUME NEW s \in Kernel, NEW p \in Req
    PROVE  Disowned(s, disowned(s, p), p)
<1>1. s.req \in [Req -> [st : {"none", "queued", "accepted"}, op : Ops, caller : Proc \cup {NULL}]]
  BY DEF Kernel
<1>2. PICK o : o = s.req[p]
  OBVIOUS
<1>3. o \in [st : {"none", "queued", "accepted"}, op : Ops, caller : Proc \cup {NULL}]
  BY <1>1, <1>2
<1> DEFINE new == [o EXCEPT !.caller = NULL]
           rq == [s.req EXCEPT ![p] = new]
<1>4. new \in [st : {"none", "queued", "accepted"}, op : Ops, caller : Proc \cup {NULL}]
      /\ new.caller = NULL /\ new.st = o.st /\ new.op = o.op
  BY <1>3
<1>5. PICK t : t = disowned(s, p)
  OBVIOUS
<1>6. t = [s EXCEPT !.req = rq]
  BY <1>2, <1>5 DEF disowned
<1> HIDE DEF new
<1>7. /\ rq \in [Req -> [st : {"none", "queued", "accepted"}, op : Ops, caller : Proc \cup {NULL}]]
      /\ rq[p] = new /\ \A i \in Req \ {p} : rq[i] = s.req[i]
  BY <1>1, <1>4
<1> HIDE DEF rq
<1>8. t \in Kernel
  BY <1>6, <1>7 DEF Kernel
<1>9. /\ t.req = rq /\ t.handles = s.handles /\ t.h = s.h
      /\ t.state = s.state /\ t.controlled = s.controlled /\ t.mount = s.mount
      /\ t.mrefs = s.mrefs /\ t.provhcnt = s.provhcnt /\ t.usehcnt = s.usehcnt
      /\ t.backend = s.backend /\ t.panic = s.panic /\ t.handler = s.handler /\ t.queue = s.queue
  BY <1>6 DEF Kernel
<1> QED BY <1>2, <1>4, <1>5, <1>7, <1>8, <1>9 DEF Disowned

LEMMA GoodDisowned ==
    ASSUME NEW s, NEW p \in Proc, p \in Req, Good(s, s.queue, 0, p, NULL, {}), s.state[p] = "WAITS4FS",
           Harmless(s, p), NEW t, Disowned(s, t, p)
    PROVE  Good(t, t.queue, 0, p, NULL, {})
<1>1. /\ s \in Kernel /\ s.panic = "none"
      /\ HandlesInv(s) /\ DeadInv(s) /\ CountInv(s, 0) /\ ReqInv(s, p)
      /\ QueueInv(s, s.queue, NULL) /\ AcceptInv(s, NULL, {}) /\ HandlerInv(s, p)
  BY DEF Good
<1>2. /\ t \in Kernel
      /\ t.req[p].caller = NULL /\ t.req[p].st = s.req[p].st /\ t.req[p].op = s.req[p].op
      /\ \A i \in Req \ {p} : t.req[i] = s.req[i]
      /\ t.handles = s.handles /\ t.h = s.h
      /\ t.state = s.state /\ t.controlled = s.controlled /\ t.mount = s.mount
      /\ t.mrefs = s.mrefs /\ t.provhcnt = s.provhcnt /\ t.usehcnt = s.usehcnt
      /\ t.backend = s.backend /\ t.panic = s.panic /\ t.handler = s.handler /\ t.queue = s.queue
  BY DEF Disowned
<1>3. HandlesInv(t)
  BY <1>1, <1>2 DEF HandlesInv, Owners
<1>4. DeadInv(t) /\ HandlerInv(t, p)
  BY <1>1, <1>2 DEF DeadInv, HandlerInv
<1>5. \A i \in Req : t.req[i].st = s.req[i].st
  BY <1>2
<1>6. QueueInv(t, t.queue, NULL)
  <2>1. s.queue \in Seq(Req) /\ \A i \in DOMAIN s.queue : s.queue[i] \in Req
    BY <1>1 DEF QueueInv
  <2> QED BY <1>1, <1>2, <1>5, <2>1 DEF QueueInv
<1>7. AcceptInv(t, NULL, {})
  BY <1>1, <1>2, <1>5 DEF AcceptInv, HandlesOf
<1>8. CountInv(t, 0)
  <2>1. /\ UseHandles(t) = UseHandles(s) /\ Mounts(t) = Mounts(s)
        /\ Providers(t) = Providers(s) /\ \A m : MountedAt(t, m) = MountedAt(s, m)
    BY <1>2 DEF UseHandles, Mounts, Providers, MountedAt
  <2>2. Busy(t) = Busy(s)
    BY <1>5 DEF Busy
  <2> QED BY <1>1, <1>2, <2>1, <2>2 DEF CountInv
<1>9. ReqInv(t, p)
  <2>1. \A i \in Req : t.req[i].st = "none" => t.req[i] = NoReq
    <3>1. s.req[p].st = "none" => t.req[p] = s.req[p]
      <4>1. s.req[p].st = "none" => s.req[p] = NoReq
        BY <1>1 DEF ReqInv
      <4>2. /\ t.req[p] \in [st : {"none", "queued", "accepted"}, op : Ops, caller : Proc \cup {NULL}]
            /\ s.req[p] \in [st : {"none", "queued", "accepted"}, op : Ops, caller : Proc \cup {NULL}]
        BY <1>1, <1>2 DEF Kernel
      <4> QED BY <1>2, <4>1, <4>2 DEF NoReq
    <3> QED BY <1>1, <1>2, <3>1 DEF ReqInv
  <2>2. \A i \in Req : t.req[i].caller # NULL => t.req[i].caller = i
    BY <1>1, <1>2 DEF ReqInv
  <2>3. \A i \in Proc : t.req[i].caller = i => t.state[i] = "WAITS4FS"
    BY <1>1, <1>2, VfsAssumption DEF ReqInv, Req
  <2>4. \A i \in Proc \ {p} : t.state[i] = "WAITS4FS" => t.req[i].caller = i
    BY <1>1, <1>2 DEF ReqInv, Req
  <2>5. \A i \in Proc \ {p} : t.req[i].st # "none" /\ t.req[i].caller = NULL => t.state[i] = "DEAD"
    BY <1>1, <1>2 DEF ReqInv, Req
  <2>6. \A i \in Req : t.req[i].caller = NULL =>
            /\ t.req[i].op \notin {"OPEN", "READ"}
            /\ t.req[i].op = "WRITE" => t.req[i].st = "accepted"
    BY <1>1, <1>2 DEF ReqInv, Harmless
  <2> QED BY <2>1, <2>2, <2>3, <2>4, <2>5, <2>6 DEF ReqInv
<1> QED BY <1>1, <1>2, <1>3, <1>4, <1>6, <1>7, <1>8, <1>9 DEF Good

LEMMA KillSlotInd == ASSUME IndInv, KillSlot PROVE IndInv'
<1>1. /\ phase = "slot" /\ opens' = opens /\ dying' = dying /\ drain' = drain /\ phase' = "handles"
      /\ k' = IF k.state[dying] = "WAITS4FS" THEN disowned(k, dying) ELSE k
  BY DEF KillSlot, disowned
<1>2. /\ dying \in Proc /\ dying # NULL /\ dying \in Req /\ k.state[dying] \in Alive
      /\ ~k.controlled[dying]
      /\ opens \in 0..MaxOpens /\ OpenCount(k) <= opens /\ Fits(k) /\ drain \in Seq(Req)
  BY <1>1, DyingNow
<1>3. Good(k, k.queue, 0, dying, NULL, {}) /\ Served(k) /\ Harmless(k, dying)
  BY <1>1 DEF IndInv, StepInv
<1>4. PICK p \in Proc : p = dying /\ p \in Req
  BY <1>2
<1>5. CASE k.state[dying] = "WAITS4FS"
  <2>1. PICK t : t = disowned(k, p)
    OBVIOUS
  <2>2. k \in Kernel
    BY <1>3 DEF Good
  <2>3. Disowned(k, t, p)
    BY <1>4, <2>1, <2>2, DisownFields
  <2>4. Good(t, t.queue, 0, p, NULL, {})
    BY <1>3, <1>4, <1>5, <2>3, GoodDisowned
  <2>5. /\ t.req[p].caller = NULL /\ t.req[p].st = k.req[p].st /\ t.req[p].op = k.req[p].op
        /\ \A i \in Req \ {p} : t.req[i] = k.req[i]
        /\ t.handles = k.handles /\ t.h = k.h /\ t.state = k.state /\ t.controlled = k.controlled
        /\ t.provhcnt = k.provhcnt /\ t.handler = k.handler /\ t.queue = k.queue
    BY <2>3 DEF Disowned
  <2>6. Served(t) /\ Fits(t)
    BY <1>2, <1>3, <2>5 DEF Served, Fits
  <2>7. OpenCount(t) = OpenCount(k)
    <3>1. \A i \in Req : t.req[i].st = k.req[i].st /\ t.req[i].op = k.req[i].op
      BY <2>5
    <3>2. Files(t) = Files(k)
      BY <2>5 DEF Files
    <3>3. Closing(t) = Closing(k) /\ Opening(t) = Opening(k)
      BY <3>1 DEF Closing, Opening, Req
    <3> QED BY <3>2, <3>3 DEF OpenCount
  <2>8. k' = t
    BY <1>1, <1>4, <1>5, <2>1
  <2>9. StepInv'
    BY <1>1, <1>4, <2>4, <2>5, <2>6, <2>8 DEF StepInv
  <2> QED BY <1>1, <1>2, <1>4, <2>5, <2>6, <2>7, <2>8, <2>9 DEF IndInv
<1>6. CASE k.state[dying] # "WAITS4FS"
  <2>1. k' = k
    BY <1>1, <1>6
  <2>2. ReqInv(k, dying) /\ k \in Kernel
    BY <1>3 DEF Good
  <2>3. k.req[p].caller \in Proc \cup {NULL} /\ k.req[p].caller # p
    BY <1>4, <1>6, <2>2 DEF ReqInv, Kernel
  <2>4. k.req[p].caller = NULL
    BY <1>4, <2>2, <2>3 DEF ReqInv
  <2>5. StepInv'
    BY <1>1, <1>3, <1>4, <2>1, <2>4 DEF StepInv
  <2> QED BY <1>1, <1>2, <2>1, <2>5 DEF IndInv
<1> QED BY <1>5, <1>6

LEMMA KillHandleInd == ASSUME IndInv, KillHandle PROVE IndInv'
<1>1. /\ phase = "handles" /\ opens' = opens /\ dying' = dying /\ drain' = drain /\ phase' = phase
  BY DEF KillHandle
<1>2. PICK h \in k.handles[dying] : k' = handle_close(k, dying, h)
  BY DEF KillHandle
<1>3. /\ dying \in Proc /\ dying # NULL /\ dying \in Req /\ k.state[dying] \in Alive
      /\ ~k.controlled[dying]
      /\ opens \in 0..MaxOpens /\ OpenCount(k) <= opens /\ Fits(k) /\ drain \in Seq(Req)
      /\ OpenCount(k) <= MaxOpens
  BY <1>1, DyingNow
<1>4. Good(k, k.queue, 0, dying, NULL, {}) /\ Served(k) /\ k.req[dying].caller = NULL
  BY <1>1 DEF IndInv, StepInv
<1>5. PICK p \in Proc : p = dying /\ p \in Req
  BY <1>3
<1>6. PICK t : t = handle_close(k, p, h)
  OBVIOUS
<1>7. Closed(k, t, p, h, p, NULL, {})
  BY <1>2, <1>3, <1>4, <1>5, <1>6, CloseCalm
<1>8. /\ Good(t, t.queue, 0, p, NULL, {}) /\ Fits(t) /\ Served(t) /\ OpenCount(t) <= OpenCount(k)
      /\ t.controlled = k.controlled /\ t.state[p] \in {k.state[p], "RUNNING"} /\ t.req[p].caller = NULL
  BY <1>4, <1>5, <1>7 DEF Closed, CloseFrame
<1>9. OpenCount(t) <= opens
  <2>1. OpenCount(t) \in Nat /\ OpenCount(k) \in Nat
    BY FiniteUses DEF OpenCount
  <2> QED BY <1>3, <1>8, <2>1, VfsAssumption
<1>10. k' = t
  BY <1>2, <1>5, <1>6
<1>11. StepInv'
  BY <1>1, <1>5, <1>8, <1>10 DEF StepInv
<1>12. t.state[p] \in Alive
  BY <1>3, <1>5, <1>8 DEF Alive
<1> QED BY <1>1, <1>3, <1>5, <1>8, <1>9, <1>10, <1>11, <1>12 DEF IndInv

\* t is s where p has no mount, which was m; n is how often m is still used.
Unmounted(s, t, p, m, n) ==
    /\ t \in Kernel
    /\ \A i \in Proc : t.mount[i] = IF i = p THEN NULL ELSE s.mount[i]
    /\ \A i \in Proc : t.mrefs[i] = IF i = m THEN n ELSE s.mrefs[i]
    /\ t.handles = s.handles /\ t.h = s.h
    /\ t.state = s.state /\ t.req = s.req /\ t.controlled = s.controlled
    /\ t.provhcnt = s.provhcnt /\ t.usehcnt = s.usehcnt
    /\ t.backend = s.backend /\ t.panic = s.panic /\ t.handler = s.handler /\ t.queue = s.queue

unmounted(s, p, m, n) == [s EXCEPT !.mrefs[m] = n, !.mount[p] = NULL]

LEMMA UnmountFields ==
    ASSUME NEW s \in Kernel, NEW p \in Proc, NEW m \in Proc, NEW n \in Nat
    PROVE  Unmounted(s, unmounted(s, p, m, n), p, m, n)
<1> DEFINE mt == [s.mount EXCEPT ![p] = NULL]
           mr == [s.mrefs EXCEPT ![m] = n]
<1>1. s.mount \in [Proc -> Proc \cup {NULL}] /\ s.mrefs \in [Proc -> Nat]
  BY DEF Kernel
<1>2. /\ mt \in [Proc -> Proc \cup {NULL}] /\ mr \in [Proc -> Nat]
      /\ \A i \in Proc : mt[i] = IF i = p THEN NULL ELSE s.mount[i]
      /\ \A i \in Proc : mr[i] = IF i = m THEN n ELSE s.mrefs[i]
  BY <1>1
<1>3. PICK t : t = unmounted(s, p, m, n)
  OBVIOUS
<1>4. t = [s EXCEPT !.mrefs = mr, !.mount = mt]
  BY <1>3 DEF unmounted
<1> HIDE DEF mt, mr
<1>5. t \in Kernel
  BY <1>2, <1>4 DEF Kernel
<1>6. /\ t.mount = mt /\ t.mrefs = mr /\ t.handles = s.handles /\ t.h = s.h
      /\ t.state = s.state /\ t.req = s.req /\ t.controlled = s.controlled
      /\ t.provhcnt = s.provhcnt /\ t.usehcnt = s.usehcnt
      /\ t.backend = s.backend /\ t.panic = s.panic /\ t.handler = s.handler /\ t.queue = s.queue
  BY <1>4 DEF Kernel
<1> QED BY <1>2, <1>3, <1>5, <1>6 DEF Unmounted

LEMMA GoodUnmounted ==
    ASSUME NEW s, NEW q, NEW x, Good(s, q, 0, x, NULL, {}), NEW p \in Proc, NEW m \in Proc, m = s.mount[p],
           NEW n \in Nat, n = s.mrefs[m] - 1, NEW t, Unmounted(s, t, p, m, n)
    PROVE  /\ n > 0 => Good(t, q, 0, x, NULL, {})
           /\ n = 0 => Good(t, q, 1, x, NULL, {})
<1>1. /\ s \in Kernel /\ s.panic = "none"
      /\ HandlesInv(s) /\ DeadInv(s) /\ CountInv(s, 0) /\ ReqInv(s, x)
      /\ QueueInv(s, q, NULL) /\ AcceptInv(s, NULL, {}) /\ HandlerInv(s, x)
  BY DEF Good
<1>2. /\ t \in Kernel
      /\ \A i \in Proc : t.mount[i] = IF i = p THEN NULL ELSE s.mount[i]
      /\ \A i \in Proc : t.mrefs[i] = IF i = m THEN n ELSE s.mrefs[i]
      /\ t.handles = s.handles /\ t.h = s.h
      /\ t.state = s.state /\ t.req = s.req /\ t.controlled = s.controlled
      /\ t.provhcnt = s.provhcnt /\ t.usehcnt = s.usehcnt
      /\ t.backend = s.backend /\ t.panic = s.panic /\ t.handler = s.handler /\ t.queue = s.queue
  BY DEF Unmounted
<1>3. HandlesInv(t)
  BY <1>1, <1>2 DEF HandlesInv, Owners
<1>4. DeadInv(t)
  BY <1>1, <1>2 DEF DeadInv
<1>5. ReqInv(t, x) /\ QueueInv(t, q, NULL) /\ HandlerInv(t, x)
  BY <1>1, <1>2 DEF ReqInv, QueueInv, HandlerInv
<1>6. AcceptInv(t, NULL, {})
  BY <1>1, <1>2 DEF AcceptInv, HandlesOf
<1>7. UseHandles(t) = UseHandles(s) /\ Busy(t) = Busy(s) /\ Providers(t) = Providers(s)
  BY <1>2 DEF UseHandles, Busy, Providers
<1>8. \A i \in Proc : t.mrefs[i] = Cardinality(MountedAt(t, i))
  <2>1. \A i \in Proc : s.mrefs[i] = Cardinality(MountedAt(s, i))
    BY <1>1 DEF CountInv
  <2>2. MountedAt(t, m) = MountedAt(s, m) \ {p} /\ p \in MountedAt(s, m)
    BY <1>2, VfsAssumption DEF MountedAt
  <2>3. Cardinality(MountedAt(t, m)) = Cardinality(MountedAt(s, m)) - 1
    BY <2>2, FiniteUses, OneMore
  <2>4. \A i \in Proc \ {m} : MountedAt(t, i) = MountedAt(s, i)
    BY <1>2, VfsAssumption DEF MountedAt
  <2> QED BY <1>2, <2>1, <2>3, <2>4
<1>9. s.mrefs[m] \in Nat
  BY <1>1 DEF Kernel
<1>10. ASSUME n > 0 PROVE Good(t, q, 0, x, NULL, {})
  <2>1. Mounts(t) = Mounts(s)
    BY <1>2, <1>9, <1>10 DEF Mounts
  <2>2. CountInv(t, 0)
    BY <1>1, <1>2, <1>7, <1>8, <2>1 DEF CountInv
  <2> QED BY <1>1, <1>2, <1>3, <1>4, <1>5, <1>6, <2>2 DEF Good
<1>11. ASSUME n = 0 PROVE Good(t, q, 1, x, NULL, {})
  <2>1. Mounts(t) = Mounts(s) \ {m} /\ m \in Mounts(s)
    BY <1>2, <1>9, <1>11 DEF Mounts
  <2>2. Cardinality(Mounts(t)) = Cardinality(Mounts(s)) - 1
    BY <2>1, FiniteUses, OneMore
  <2>3. t.usehcnt = Cardinality(UseHandles(t)) + Cardinality(Mounts(t)) + Cardinality(Busy(t)) + 1
    BY <1>1, <1>2, <1>7, <2>2, FiniteUses DEF CountInv
  <2>4. CountInv(t, 1)
    BY <1>1, <1>2, <1>7, <1>8, <2>3 DEF CountInv
  <2> QED BY <1>1, <1>2, <1>3, <1>4, <1>5, <1>6, <2>4 DEF Good
<1> QED BY <1>10, <1>11

\* The process that is killed gives up its mount.
Left(s, t, p) ==
    /\ Good(t, t.queue, 0, p, NULL, {}) /\ Served(t)
    /\ t.handles = s.handles /\ t.controlled = s.controlled /\ t.mount[p] = NULL /\ t.req = s.req
    /\ OpenCount(t) = OpenCount(s)

LEMMA Remref ==
    ASSUME NEW s, NEW p \in Proc, Good(s, s.queue, 0, p, NULL, {}), Served(s)
    PROVE  Left(s, mount_remref(s, p), p)
<1>1. s \in Kernel
  BY DEF Good
<1>2. PICK m : m = s.mount[p]
  OBVIOUS
<1>3. CASE m = NULL
  <2>1. mount_remref(s, p) = s
    BY <1>2, <1>3 DEF mount_remref
  <2> QED BY <1>2, <1>3, <2>1 DEF Left
<1>4. CASE m # NULL
  <2>1. m \in Proc /\ s.mrefs[m] > 0 /\ s.mrefs[m] \in Nat
    BY <1>1, <1>2, <1>4, UsedByMount DEF Kernel
  <2>2. PICK n \in Nat : n = s.mrefs[m] - 1
    BY <2>1
  <2>3. PICK e : e = unmounted(s, p, m, n)
    OBVIOUS
  <2>4. Unmounted(s, e, p, m, n)
    BY <1>1, <2>1, <2>3, UnmountFields
  <2>5. (n > 0 => Good(e, s.queue, 0, p, NULL, {})) /\ (n = 0 => Good(e, s.queue, 1, p, NULL, {}))
    BY <1>2, <2>1, <2>2, <2>4, GoodUnmounted
  <2>6. /\ e.mount[p] = NULL /\ e.handles = s.handles /\ e.h = s.h /\ e.req = s.req
        /\ e.controlled = s.controlled /\ e.provhcnt = s.provhcnt /\ e.usehcnt = s.usehcnt
        /\ e.handler = s.handler /\ e.queue = s.queue
    BY <2>4 DEF Unmounted
  <2>7. Served(e) /\ OpenCount(e) = OpenCount(s)
    BY <2>6 DEF Served, OpenCount, Files, Closing, Opening
  <2>8. CASE n > 0
    <3>1. mount_remref(s, p) = e
      BY <1>2, <1>4, <2>1, <2>2, <2>3, <2>8 DEF mount_remref, unmounted
    <3> QED BY <2>5, <2>6, <2>7, <2>8, <3>1 DEF Left
  <2>9. CASE n = 0
    <3>1. mount_remref(s, p) = refdown_use(e)
      <4>1. e = [s EXCEPT !.mrefs[m] = 0, !.mount[p] = NULL]
        BY <2>3, <2>9 DEF unmounted
      <4>2. ~(s.mrefs[m] > 1)
        BY <2>1, <2>2, <2>9
      <4> QED BY <1>2, <1>4, <4>1, <4>2, Zenon DEF mount_remref
    <3>2. PICK t : t = refdown_use(e)
      OBVIOUS
    <3>3. e.usehcnt = 1 /\ e.provhcnt = 0 => e.queue = <<>>
      BY <2>7 DEF Served
    <3>4. Good(e, e.queue, 1, p, NULL, {})
      BY <2>5, <2>6, <2>9
    <3>5. Good(t, e.queue, 0, p, NULL, {})
      BY <3>2, <3>3, <3>4, Refdown
    <3>6. /\ Frame(e, t) /\ t.queue = e.queue /\ t.handles = e.handles /\ t.req = e.req
          /\ OpenCount(t) = OpenCount(e) /\ Served(t)
      BY <2>7, <3>2, <3>3, <3>4, RefdownFrame
    <3>7. t.controlled = e.controlled /\ t.mount = e.mount
      BY <3>6 DEF Frame
    <3>8. Good(t, t.queue, 0, p, NULL, {})
      BY <3>5, <3>6, Zenon
    <3>9. t.handles = s.handles /\ t.controlled = s.controlled /\ t.mount[p] = NULL /\ t.req = s.req
      BY <2>6, <3>6, <3>7, Zenon
    <3>10. OpenCount(t) = OpenCount(s) /\ Served(t)
      BY <2>7, <3>6, Zenon
    <3>11. Left(s, t, p)
      BY <3>8, <3>9, <3>10 DEF Left
    <3>12. t = mount_remref(s, p)
      BY <3>1, <3>2
    <3> QED BY <3>11, <3>12, Zenon
  <2>10. n = 0 \/ n > 0
    BY ONLY n \in Nat
  <2> QED BY <2>8, <2>9, <2>10, Zenon
<1> QED BY <1>3, <1>4

\* t is s where p is dead.
Dead(s, t, p) ==
    /\ t \in Kernel
    /\ \A i \in Proc : t.state[i] = IF i = p THEN "DEAD" ELSE s.state[i]
    /\ t.handles = s.handles /\ t.h = s.h /\ t.mount = s.mount /\ t.mrefs = s.mrefs
    /\ t.req = s.req /\ t.controlled = s.controlled
    /\ t.provhcnt = s.provhcnt /\ t.usehcnt = s.usehcnt
    /\ t.backend = s.backend /\ t.panic = s.panic /\ t.handler = s.handler /\ t.queue = s.queue

dead(s, p) == [s EXCEPT !.state[p] = "DEAD"]

LEMMA DeadFields ==
    ASSUME NEW s \in Kernel, NEW p \in Proc PROVE Dead(s, dead(s, p), p)
<1> DEFINE st == [s.state EXCEPT ![p] = "DEAD"]
<1>1. s.state \in [Proc -> {"NEW", "RUNNING", "WAITS4FS", "WAITS4REQUEST", "DEAD"}]
  BY DEF Kernel
<1>2. /\ st \in [Proc -> {"NEW", "RUNNING", "WAITS4FS", "WAITS4REQUEST", "DEAD"}]
      /\ \A i \in Proc : st[i] = IF i = p THEN "DEAD" ELSE s.state[i]
  BY <1>1
<1>3. PICK t : t = dead(s, p)
  OBVIOUS
<1>4. t = [s EXCEPT !.state = st]
  BY <1>3 DEF dead
<1> HIDE DEF st
<1>5. t \in Kernel
  BY <1>2, <1>4 DEF Kernel
<1>6. /\ t.state = st /\ t.handles = s.handles /\ t.h = s.h /\ t.mount = s.mount /\ t.mrefs = s.mrefs
      /\ t.req = s.req /\ t.controlled = s.controlled
      /\ t.provhcnt = s.provhcnt /\ t.usehcnt = s.usehcnt
      /\ t.backend = s.backend /\ t.panic = s.panic /\ t.handler = s.handler /\ t.queue = s.queue
  BY <1>4 DEF Kernel
<1> QED BY <1>2, <1>3, <1>5, <1>6 DEF Dead

LEMMA GoodDead ==
    ASSUME NEW s, NEW p \in Proc, Good(s, s.queue, 0, p, NULL, {}), s.handles[p] = {}, s.mount[p] = NULL,
           ~s.controlled[p], s.req[p].caller = NULL, NEW t, Dead(s, t, p)
    PROVE  Good(t, t.queue, 0, NULL, NULL, {})
<1>1. /\ s \in Kernel /\ s.panic = "none"
      /\ HandlesInv(s) /\ DeadInv(s) /\ CountInv(s, 0) /\ ReqInv(s, p)
      /\ QueueInv(s, s.queue, NULL) /\ AcceptInv(s, NULL, {}) /\ HandlerInv(s, p)
  BY DEF Good
<1>2. /\ t \in Kernel
      /\ \A i \in Proc : t.state[i] = IF i = p THEN "DEAD" ELSE s.state[i]
      /\ t.handles = s.handles /\ t.h = s.h /\ t.mount = s.mount /\ t.mrefs = s.mrefs
      /\ t.req = s.req /\ t.controlled = s.controlled
      /\ t.provhcnt = s.provhcnt /\ t.usehcnt = s.usehcnt
      /\ t.backend = s.backend /\ t.panic = s.panic /\ t.handler = s.handler /\ t.queue = s.queue
  BY DEF Dead
<1>3. HandlesInv(t)
  BY <1>1, <1>2 DEF HandlesInv, Owners
<1>4. DeadInv(t)
  BY <1>1, <1>2 DEF DeadInv
<1>5. QueueInv(t, t.queue, NULL)
  BY <1>1, <1>2 DEF QueueInv
<1>6. AcceptInv(t, NULL, {})
  BY <1>1, <1>2 DEF AcceptInv, HandlesOf
<1>7. CountInv(t, 0)
  <2>1. /\ UseHandles(t) = UseHandles(s) /\ Mounts(t) = Mounts(s) /\ Busy(t) = Busy(s)
        /\ Providers(t) = Providers(s) /\ \A m : MountedAt(t, m) = MountedAt(s, m)
    BY <1>2 DEF UseHandles, Mounts, Busy, Providers, MountedAt
  <2> QED BY <1>1, <1>2, <2>1 DEF CountInv
<1>8. ReqInv(t, NULL)
  <2>1. \A i \in Proc : t.req[i].caller = i => t.state[i] = "WAITS4FS"
    BY <1>1, <1>2, VfsAssumption DEF ReqInv
  <2>2. \A i \in Proc \ {NULL} : t.state[i] = "WAITS4FS" => t.req[i].caller = i
    BY <1>1, <1>2 DEF ReqInv
  <2>3. \A i \in Proc \ {NULL} : t.req[i].st # "none" /\ t.req[i].caller = NULL => t.state[i] = "DEAD"
    BY <1>1, <1>2 DEF ReqInv
  <2> QED BY <1>1, <1>2, <2>1, <2>2, <2>3 DEF ReqInv
<1>9. HandlerInv(t, NULL)
  <2>1. s.handler \in Proc \cup {NULL} /\ s.handler # p
    BY <1>1, VfsAssumption DEF HandlerInv, Kernel
  <2>2. \A i \in Proc \ {NULL} : t.state[i] = "WAITS4REQUEST" => t.handler = i
    BY <1>1, <1>2 DEF HandlerInv
  <2>3. t.handler # NULL =>
            /\ t.state[t.handler] = "WAITS4REQUEST" /\ t.controlled[t.handler]
            /\ t.usehcnt > 0
            /\ Cardinality(t.handles[t.handler]) < HANDLE_MAX
    BY <1>1, <1>2, <2>1 DEF HandlerInv
  <2> QED BY <2>2, <2>3 DEF HandlerInv
<1> QED BY <1>1, <1>2, <1>3, <1>4, <1>5, <1>6, <1>7, <1>8, <1>9 DEF Good

LEMMA KillEndInd == ASSUME IndInv, KillEnd PROVE IndInv'
<1>1. /\ phase = "handles" /\ opens' = opens /\ dying' = NULL /\ drain' = drain /\ phase' = "none"
      /\ k.handles[dying] = {} /\ k' = dead(mount_remref(k, dying), dying)
  BY DEF KillEnd, dead
<1>2. /\ dying \in Proc /\ dying # NULL /\ dying \in Req /\ ~k.controlled[dying]
      /\ opens \in 0..MaxOpens /\ OpenCount(k) <= opens /\ Fits(k) /\ drain \in Seq(Req)
  BY <1>1, DyingNow
<1>3. Good(k, k.queue, 0, dying, NULL, {}) /\ Served(k) /\ k.req[dying].caller = NULL
  BY <1>1 DEF IndInv, StepInv
<1>4. PICK p \in Proc : p = dying /\ p \in Req
  BY <1>2
<1>5. PICK e : e = mount_remref(k, p)
  OBVIOUS
<1>6. Left(k, e, p)
  BY <1>3, <1>4, <1>5, Remref
<1>7. /\ Good(e, e.queue, 0, p, NULL, {}) /\ Served(e) /\ e \in Kernel
      /\ e.handles = k.handles /\ e.controlled = k.controlled /\ e.mount[p] = NULL /\ e.req = k.req
      /\ OpenCount(e) = OpenCount(k)
  BY <1>6 DEF Left, Good
<1>8. PICK t : t = dead(e, p)
  OBVIOUS
<1>9. Dead(e, t, p)
  BY <1>7, <1>8, DeadFields
<1>10. Good(t, t.queue, 0, NULL, NULL, {})
  <2>1. e.handles[p] = {} /\ ~e.controlled[p] /\ e.req[p].caller = NULL
    BY <1>1, <1>2, <1>3, <1>4, <1>7
  <2> QED BY <1>7, <1>9, <2>1, GoodDead
<1>11. /\ t.handles = e.handles /\ t.h = e.h /\ t.req = e.req /\ t.provhcnt = e.provhcnt
       /\ t.handler = e.handler /\ t.queue = e.queue
  BY <1>9 DEF Dead
<1>12. Served(t) /\ Fits(t) /\ OpenCount(t) = OpenCount(e)
  BY <1>2, <1>7, <1>11 DEF Served, Fits, OpenCount, Files, Closing, Opening
<1>13. k' = t
  BY <1>1, <1>4, <1>5, <1>8
<1>14. StepInv'
  BY <1>1, <1>10, <1>12, <1>13 DEF StepInv
<1> QED BY <1>1, <1>2, <1>7, <1>12, <1>13, <1>14 DEF IndInv

-----------------------------------------------------------------------------
(* The invariant holds, and says what the properties count. *)

LEMMA InitInd == Init => IndInv
<1> SUFFICES ASSUME Init PROVE IndInv
  OBVIOUS
<1>1. /\ opens = 0 /\ phase = "none" /\ dying = NULL /\ drain = <<>>
      /\ k = [state |-> [p \in Proc |-> IF p = Root THEN "RUNNING" ELSE "NEW"],
              handles |-> [p \in Proc |-> {}],
              controlled |-> [p \in Proc |-> FALSE],
              mount |-> [p \in Proc |-> NULL],
              mrefs |-> [p \in Proc |-> 0],
              h |-> [h \in Handle |-> NoHandle],
              req |-> [r \in Req |-> NoReq],
              backend |-> "none", usehcnt |-> 0, provhcnt |-> 0,
              queue |-> <<>>, handler |-> NULL, panic |-> "none"]
  BY DEF Init, NoHandle, NoReq
<1>2. NoReq \in [st : {"none", "queued", "accepted"}, op : Ops, caller : Proc \cup {NULL}]
  BY DEF NoReq, Ops
<1>3. NoHandle \in [type : {"INVALID", "FILE", "FS_FRONT", "FS_REQ"},
                    req : Req \cup {NULL}, refcount : Nat]
  BY DEF NoHandle
<1>4. k \in Kernel
  BY <1>1, <1>2, <1>3 DEF Kernel
<1>5. /\ \A p \in Proc : k.state[p] = IF p = Root THEN "RUNNING" ELSE "NEW"
      /\ \A p \in Proc : k.handles[p] = {} /\ ~k.controlled[p] /\ k.mount[p] = NULL /\ k.mrefs[p] = 0
      /\ \A h \in Handle : k.h[h] = NoHandle
      /\ \A r \in Req : k.req[r] = NoReq
      /\ k.backend = "none" /\ k.usehcnt = 0 /\ k.provhcnt = 0
      /\ k.queue = <<>> /\ k.handler = NULL /\ k.panic = "none"
  BY <1>1
<1>6. /\ NoReq.st = "none" /\ NoReq.op = "CLOSE" /\ NoReq.caller = NULL
      /\ NoHandle.type = "INVALID" /\ NoHandle.req = NULL /\ NoHandle.refcount = 0
  BY DEF NoReq, NoHandle
<1>7. NULL \notin Proc /\ NULL \notin Req /\ Proc \subseteq Req
  BY VfsAssumption DEF Req, CloseReq
<1>8. /\ UseHandles(k) = {} /\ Mounts(k) = {} /\ Busy(k) = {} /\ Providers(k) = {}
      /\ Files(k) = {} /\ Closing(k) = {} /\ Opening(k) = {}
      /\ \A h \in Handle : Owners(k, h) = {}
      /\ \A m \in Proc : MountedAt(k, m) = {}
      /\ \A r \in Req : HandlesOf(k, r) = {}
  <2>1. UseHandles(k) = {} /\ Files(k) = {} /\ \A r \in Req : HandlesOf(k, r) = {}
    BY <1>5, <1>6, <1>7 DEF UseHandles, Files, HandlesOf
  <2>2. Mounts(k) = {} /\ Providers(k) = {} /\ (\A h \in Handle : Owners(k, h) = {})
    BY <1>5 DEF Mounts, Providers, Owners
  <2>3. \A m \in Proc : MountedAt(k, m) = {}
    BY <1>5, <1>7 DEF MountedAt
  <2>4. Busy(k) = {} /\ Closing(k) = {} /\ Opening(k) = {}
    BY <1>5, <1>6 DEF Busy, Closing, Opening, Req
  <2> QED BY <2>1, <2>2, <2>3, <2>4
<1>9. Cardinality({}) = 0
  BY FS_EmptySet
<1>10. HandlesInv(k) /\ DeadInv(k)
  <2>1. HandlesInv(k)
    BY <1>5, <1>6, <1>8, <1>9 DEF HandlesInv
  <2> QED BY <1>5, <2>1 DEF DeadInv
<1>11. CountInv(k, 0)
  <2>1. /\ Cardinality(UseHandles(k)) = 0 /\ Cardinality(Mounts(k)) = 0
        /\ Cardinality(Busy(k)) = 0 /\ Cardinality(Providers(k)) = 0
    BY <1>8, <1>9, Zenon
  <2>2. k.usehcnt = 0 /\ k.provhcnt = 0 /\ k.backend = "none"
    BY <1>5
  <2>3. \A m \in Proc : k.mrefs[m] = Cardinality(MountedAt(k, m))
    BY <1>5, <1>8, <1>9, Zenon
  <2>4. k.usehcnt = Cardinality(UseHandles(k)) + Cardinality(Mounts(k)) + Cardinality(Busy(k)) + 0
    BY <2>1, <2>2
  <2>5. k.backend = "live" <=> k.usehcnt > 0 \/ k.provhcnt > 0
    BY <2>2
  <2> QED BY <2>1, <2>2, <2>3, <2>4, <2>5 DEF CountInv
<1>12. ReqInv(k, NULL)
  BY <1>5, <1>6, <1>7 DEF ReqInv
<1>13. QueueInv(k, k.queue, NULL)
  BY <1>5, <1>6 DEF QueueInv
<1>14. AcceptInv(k, NULL, {})
  BY <1>5, <1>6, <1>7, <1>8 DEF AcceptInv
<1>15. HandlerInv(k, NULL)
  BY <1>5 DEF HandlerInv
<1>16. Good(k, k.queue, 0, dying, NULL, {})
  BY <1>1, <1>4, <1>5, <1>10, <1>11, <1>12, <1>13, <1>14, <1>15 DEF Good
<1>17. Fits(k) /\ OpenCount(k) = 0 /\ Served(k)
  <2>1. Cardinality(Files(k)) = 0 /\ Cardinality(Closing(k)) = 0 /\ Cardinality(Opening(k)) = 0
    BY <1>8, <1>9, Zenon
  <2>2. OpenCount(k) = 0
    BY <2>1 DEF OpenCount
  <2>3. \A p \in Proc : Cardinality(k.handles[p]) = 0
    BY <1>5, <1>9, Zenon
  <2>4. 0 <= HANDLE_MAX
    BY VfsAssumption
  <2> QED BY <1>5, <2>2, <2>3, <2>4 DEF Fits, Served
<1>18. 0 \in 0..MaxOpens /\ drain \in Seq(Req)
  BY <1>1, VfsAssumption
<1> QED BY <1>1, <1>16, <1>17, <1>18 DEF IndInv, StepInv

LEMMA NextInd == ASSUME Risks = {} PROVE IndInv /\ [Next]_vars => IndInv'
<1> SUFFICES ASSUME IndInv, [Next]_vars PROVE IndInv'
  OBVIOUS
<1>1. CASE UNCHANGED vars
  <2>1. k' = k /\ opens' = opens /\ phase' = phase /\ dying' = dying /\ drain' = drain
    BY <1>1 DEF vars
  <2> QED BY <2>1 DEF IndInv, DrainInv, StepInv
<1>2. ASSUME NEW p \in Proc, Fork(p) \/ ForkNewfs(p) PROVE IndInv'
  BY <1>2, ForkInd, ForkNewfsInd
<1>3. ASSUME NEW p \in Proc, Client(p) PROVE IndInv'
  BY <1>3, OpenInd, FileOpInd, RemoveInd, CloseInd, MountInd DEF Client
<1>4. ASSUME NEW p \in Proc, Server(p) PROVE IndInv'
  BY <1>4, FsWaitInd, FsRespondInd DEF Server
<1>5. ASSUME NEW p \in Proc, Kill(p) PROVE IndInv'
  BY <1>5, KillInd
<1>6. CASE KillLoop
  BY <1>6, KillDrainInd, KillSlotInd, KillHandleInd, KillEndInd DEF KillLoop
<1> QED BY <1>1, <1>2, <1>3, <1>4, <1>5, <1>6 DEF Next

\* A request is counted once in a queue where it is at one place.
LEMMA CountPlaces ==
    ASSUME NEW q \in Seq(Req), NEW r,
           \A i, j \in DOMAIN q : q[i] = q[j] => i = j
    PROVE  Cardinality({i \in DOMAIN q : q[i] = r}) = IF \E i \in DOMAIN q : q[i] = r THEN 1 ELSE 0
<1>1. CASE \E i \in DOMAIN q : q[i] = r
  <2>1. PICK i \in DOMAIN q : q[i] = r
    BY <1>1
  <2>2. {j \in DOMAIN q : q[j] = r} = {i}
    BY <2>1
  <2> QED BY <1>1, <2>2, FS_Singleton
<1>2. CASE ~\E i \in DOMAIN q : q[i] = r
  <2>1. {j \in DOMAIN q : q[j] = r} = {}
    BY <1>2
  <2> QED BY <1>2, <2>1, FS_EmptySet
<1> QED BY <1>1, <1>2

LEMMA InvSound == IndInv => RequestsSound /\ NobodyStuck
<1> SUFFICES ASSUME IndInv PROVE RequestsSound /\ NobodyStuck
  OBVIOUS
<1>1. k \in Kernel /\ k.panic = "none"
  BY DEF IndInv, DrainInv, StepInv, Good
<1>2. TypeOK /\ NoPanic
  BY <1>1 DEF IndInv, TypeOK, NoPanic
<1>3. ASSUME phase = "none"
      PROVE  /\ HandlesInv(k) /\ CountInv(k, 0) /\ ReqInv(k, NULL) /\ QueueInv(k, k.queue, NULL)
             /\ AcceptInv(k, NULL, {}) /\ HandlerInv(k, NULL) /\ Served(k)
  BY <1>3, CalmNow DEF Calm, Good
<1>4. RefsOK
  <2> SUFFICES ASSUME phase = "none"
               PROVE  /\ k.usehcnt = Cardinality(UseHandles(k)) + Cardinality(Mounts(k)) + Cardinality(Busy(k))
                      /\ k.provhcnt = Cardinality(Providers(k))
                      /\ \A h \in Handle : k.h[h].refcount = Cardinality(Owners(k, h))
                      /\ \A m \in Proc : k.mrefs[m] = Cardinality(MountedAt(k, m))
                      /\ k.backend = "freed" <=> k.backend # "none" /\ k.usehcnt = 0 /\ k.provhcnt = 0
    BY DEF RefsOK, UseHandles, Mounts, Busy, Providers, Owners, MountedAt
  <2>1. CountInv(k, 0) /\ HandlesInv(k)
    BY <1>3
  <2>2. k.usehcnt = Cardinality(UseHandles(k)) + Cardinality(Mounts(k)) + Cardinality(Busy(k)) + 0
    BY <2>1 DEF CountInv
  <2>3. k.usehcnt = Cardinality(UseHandles(k)) + Cardinality(Mounts(k)) + Cardinality(Busy(k))
    BY <2>2, FiniteUses
  <2>4. k.backend = "freed" <=> k.backend # "none" /\ k.usehcnt = 0 /\ k.provhcnt = 0
    <3>1. k.backend \in {"none", "live", "freed"} /\ k.usehcnt \in Nat /\ k.provhcnt \in Nat
      BY <1>1 DEF Kernel
    <3>2. k.backend = "live" <=> k.usehcnt > 0 \/ k.provhcnt > 0
      BY <2>1 DEF CountInv
    <3> QED BY <3>1, <3>2
  <2>5. \A h \in Handle : k.h[h].refcount = Cardinality(Owners(k, h))
    BY <2>1 DEF HandlesInv
  <2> QED BY <2>1, <2>3, <2>4, <2>5 DEF CountInv
<1>5. RequestsOK
  <2> SUFFICES ASSUME phase = "none"
               PROVE  /\ \A p \in Proc : k.state[p] = "WAITS4FS" <=> k.req[p].st # "none" /\ k.req[p].caller = p
                      /\ \A r \in Req : Cardinality(HandlesOf(k, r)) = IF k.req[r].st = "accepted" THEN 1 ELSE 0
                      /\ \A r \in Req : Cardinality({i \in DOMAIN k.queue : k.queue[i] = r}) =
                                            IF k.req[r].st = "queued" THEN 1 ELSE 0
    BY DEF RequestsOK, HandlesOf
  <2>1. ReqInv(k, NULL) /\ QueueInv(k, k.queue, NULL) /\ AcceptInv(k, NULL, {})
    BY <1>3
  <2>2. NULL \notin Proc /\ NULL \notin Req /\ Proc \subseteq Req
    BY VfsAssumption DEF Req, CloseReq
  <2>3. ASSUME NEW p \in Proc
        PROVE  k.state[p] = "WAITS4FS" <=> k.req[p].st # "none" /\ k.req[p].caller = p
    <3>1. k.req[p].st = "none" => k.req[p].caller = NULL
      BY <2>1, <2>2 DEF ReqInv, NoReq
    <3>2. k.state[p] = "WAITS4FS" <=> k.req[p].caller = p
      BY <2>1, <2>2 DEF ReqInv
    <3> QED BY <2>2, <3>1, <3>2
  <2>4. ASSUME NEW r \in Req
        PROVE  Cardinality(HandlesOf(k, r)) = IF k.req[r].st = "accepted" THEN 1 ELSE 0
    <3>1. CASE k.req[r].st = "accepted"
      <4>1. PICK h \in Handle : HandlesOf(k, r) = {h}
        BY <2>1, <2>2, <3>1 DEF AcceptInv
      <4> QED BY <3>1, <4>1, FS_Singleton
    <3>2. CASE k.req[r].st # "accepted"
      <4>1. HandlesOf(k, r) = {}
        BY <2>1, <2>2, <3>2 DEF AcceptInv
      <4> QED BY <3>2, <4>1, FS_EmptySet
    <3> QED BY <3>1, <3>2
  <2>5. ASSUME NEW r \in Req
        PROVE  Cardinality({i \in DOMAIN k.queue : k.queue[i] = r}) = IF k.req[r].st = "queued" THEN 1 ELSE 0
    <3>1. /\ k.queue \in Seq(Req)
          /\ \A i, j \in DOMAIN k.queue : k.queue[i] = k.queue[j] => i = j
      BY <2>1 DEF QueueInv
    <3>2. k.req[r].st = "queued" <=> \E i \in DOMAIN k.queue : k.queue[i] = r
      BY <2>1, <2>2 DEF QueueInv
    <3>3. Cardinality({i \in DOMAIN k.queue : k.queue[i] = r}) =
            IF \E i \in DOMAIN k.queue : k.queue[i] = r THEN 1 ELSE 0
      BY <3>1, CountPlaces
    <3> QED BY <3>2, <3>3, Zenon
  <2> QED BY <2>3, <2>4, <2>5
<1>6. NoStuckRequest
  BY <1>3 DEF NoStuckRequest, Served
<1>7. NoStuckProvider
  <2> SUFFICES ASSUME phase = "none", NEW p \in Proc
               PROVE  k.state[p] = "WAITS4REQUEST" <=> k.handler = p /\ k.usehcnt > 0
    BY DEF NoStuckProvider
  <2>1. HandlerInv(k, NULL) /\ p # NULL
    BY <1>3, VfsAssumption
  <2> QED BY <2>1 DEF HandlerInv
<1> QED BY <1>2, <1>4, <1>5, <1>6, <1>7 DEF RequestsSound, NobodyStuck

LEMMA Inductive == ASSUME Risks = {} PROVE Spec => []IndInv
<1>1. IndInv /\ [Next]_vars => IndInv'
  BY NextInd
<1> QED BY InitInd, <1>1, PTL DEF Spec

\* In the kernel, as long as none of the calls of Risks is made: the counters
\* of the backend, of its mounts and of the handles count exactly what uses
\* them, so that the backend is freed when the last user has gone and not
\* before; a process waits for a file system exactly while one request is its
\* own, which is in the queue once or has one handle; and none of the
\* assertions of request.c and handle.c fails.
THEOREM RequestsAlwaysSound == ASSUME Risks = {} PROVE Spec => []RequestsSound
<1>1. Spec => []IndInv
  BY Inductive
<1> QED BY <1>1, InvSound, PTL

\* In the same executions, vfs_backend_tryaccept leaves no request in the
\* queue while a handler waits, the queue of a backend that no process
\* provides is empty, and a process waits for a request only as the handler
\* of a backend that somebody can still use.
THEOREM NobodyEverStuck == ASSUME Risks = {} PROVE Spec => []NobodyStuck
<1>1. Spec => []IndInv
  BY Inductive
<1> QED BY <1>1, InvSound, PTL

=============================================================================
