------------------------------- MODULE Timer -------------------------------
(***************************************************************************)
(* Sleeping processes and the timer: src/kernel/arch/amd64/time.c,         *)
(* _sys_sleep, and the calls of proc_kill and proc_tryintr that take a     *)
(* process out of its sleep.                                               *)
(*                                                                         *)
(* The HPET is external: it counts, and raises its interrupt when it is    *)
(* enabled and the counter has reached the comparator.  Interrupts are     *)
(* taken only in cpu_pause, when no process can run.                       *)
(***************************************************************************)
EXTENDS Naturals, Sequences, FiniteSets

CONSTANTS
    Sleeper,           \* processes
    Ms,             \* the arguments of _sys_sleep
    NsPerMs,        \* 1000000 in the code
    FsPerNs,        \* 1000000 in the code
    hpet_period,    \* femtoseconds per tick
    Modulus,        \* 2^64 in the code
    MaxNow          \* bound: the last value of the counter

ASSUME TimerAssumption ==
    /\ Ms \subseteq Nat
    /\ NsPerMs \in Nat /\ FsPerNs \in Nat
    /\ hpet_period \in Nat \ {0}
    /\ MaxNow \in Nat /\ Modulus \in Nat /\ MaxNow < Modulus

VARIABLES
    state,          \* Proc.state
    goal,           \* Proc.waits4timer.goal
    deadline,       \* when the sleep of a process should end (not in the code)
    scheduled,      \* the list of sleepers
    counter,        \* the main counter of the HPET
    timval,         \* its comparator
    enabled,        \* whether its interrupt is enabled
    pending         \* whether its interrupt is raised

vars == <<state, goal, deadline, scheduled, counter, timval, enabled, pending>>

Max64 == Modulus - 1

TypeOK ==
    /\ state \in [Sleeper -> {"RUNNING", "WAITS4TIMER", "DEAD"}]
    /\ goal \in [Sleeper -> 0..Max64]
    /\ deadline \in [Sleeper -> Nat]
    /\ scheduled \in Seq(Sleeper)
    /\ counter \in 0..MaxNow
    /\ timval \in 0..Max64
    /\ enabled \in BOOLEAN
    /\ pending \in BOOLEAN

-----------------------------------------------------------------------------
\* A bug: the timer is not set for a sleeper whose time has come already.
hpet_sched_past(list, g) ==
    /\ IF list = <<>> \/ g[Head(list)] <= counter THEN enabled' = FALSE /\ UNCHANGED timval
       ELSE enabled' = TRUE /\ timval' = g[Head(list)]
    /\ pending' = FALSE

\* hpet_sched: the comparator is set for the first sleeper, and the
\* interrupt is acknowledged.
hpet_sched(list, g) ==
    /\ IF list = <<>> THEN enabled' = FALSE /\ UNCHANGED timval
       ELSE enabled' = TRUE /\ timval' = g[Head(list)]
    /\ pending' = FALSE

\* A bug: a process that is not asleep any more stays in the list.
Without_kept(list, p) == list

\* The list after timer_deschedule has taken out p.
Without(list, p) ==
    LET k == CHOOSE k \in DOMAIN list : list[k] = p
    IN [i \in 1..(Len(list) - 1) |-> IF i < k THEN list[i] ELSE list[i + 1]]

\* The products of _sys_sleep and timer_schedule, on unsigned 64 bits.
ticks(ms) == ((((ms * NsPerMs) % Modulus) * FsPerNs) % Modulus) \div hpet_period

\* When a sleep of ms that begins now ends: the sum saturates.
wakeup(ms) ==
    LET sum == (counter + ticks(ms)) % Modulus
    IN IF sum < counter THEN Max64 ELSE sum

\* The slot at which the loop of timer_schedule stops: the first sleeper that
\* is to be woken later comes after it; and the list with p put there.
slot(list, time) ==
    CHOOSE k \in 0..Len(list) :
        /\ \A i \in 1..k : goal[list[i]] <= time
        /\ k < Len(list) => goal[list[k + 1]] > time
With(list, k, p) ==
    [i \in 1..(Len(list) + 1) |-> IF i <= k THEN list[i] ELSE IF i = k + 1 THEN p ELSE list[i - 1]]

\* _sys_sleep, and timer_schedule.
Sleep(p) ==
    /\ state[p] = "RUNNING"
    /\ \E ms \in Ms :
        LET time  == wakeup(ms)
            ideal == counter + (ms * NsPerMs * FsPerNs) \div hpet_period
        IN
        /\ state' = [state EXCEPT ![p] = "WAITS4TIMER"]
        /\ goal' = [goal EXCEPT ![p] = time]
        /\ deadline' = [deadline EXCEPT ![p] = IF ideal > Max64 THEN Max64 ELSE ideal]
        /\ scheduled' = With(scheduled, slot(scheduled, time), p)
        /\ hpet_sched(scheduled', goal')
    /\ UNCHANGED counter

\* timer_deschedule, from proc_tryintr when another process interrupts p, or
\* from proc_kill.
Deschedule(p) ==
    /\ state[p] = "WAITS4TIMER"
    /\ \E q \in Sleeper \ {p} : state[q] = "RUNNING"
    /\ \E s \in {"RUNNING", "DEAD"} : state' = [state EXCEPT ![p] = s]
    /\ goal' = [goal EXCEPT ![p] = 0]
    /\ deadline' = [deadline EXCEPT ![p] = 0]
    /\ scheduled' = Without(scheduled, p)
    /\ hpet_sched(scheduled', goal)
    /\ UNCHANGED counter

\* A running process exits.
Exit(p) ==
    /\ state[p] = "RUNNING"
    /\ state' = [state EXCEPT ![p] = "DEAD"]
    /\ UNCHANGED <<goal, deadline, scheduled, counter, timval, enabled, pending>>

\* The HPET.
Tick ==
    /\ counter < MaxNow
    /\ counter' = counter + 1
    /\ UNCHANGED <<state, goal, deadline, scheduled, timval, enabled, pending>>

Raise ==
    /\ enabled /\ ~pending /\ counter >= timval
    /\ pending' = TRUE
    /\ UNCHANGED <<state, goal, deadline, scheduled, counter, timval, enabled>>

Idle == \A p \in Sleeper : state[p] # "RUNNING"

\* hpet_irq, out of cpu_pause.  At most one process is woken; a comparator in
\* the past raises the interrupt again for the next.
hpet_irq ==
    /\ pending /\ Idle
    /\ IF scheduled # <<>> /\ goal[Head(scheduled)] < counter
       THEN /\ state' = [state EXCEPT ![Head(scheduled)] = "RUNNING"]
            /\ goal' = [goal EXCEPT ![Head(scheduled)] = 0]
            /\ deadline' = [deadline EXCEPT ![Head(scheduled)] = 0]
            /\ scheduled' = Tail(scheduled)
       ELSE UNCHANGED <<state, goal, deadline, scheduled>>
    /\ hpet_sched(scheduled', goal)
    /\ UNCHANGED counter

Init ==
    /\ state = [p \in Sleeper |-> "RUNNING"]
    /\ goal = [p \in Sleeper |-> 0]
    /\ deadline = [p \in Sleeper |-> 0]
    /\ scheduled = <<>>
    /\ counter = 0 /\ timval = 0
    /\ enabled = FALSE /\ pending = FALSE

Next ==
    \/ \E p \in Sleeper : Sleep(p) \/ Deschedule(p) \/ Exit(p)
    \/ Tick \/ Raise \/ hpet_irq

Spec == Init /\ [][Next]_vars

\* The clock runs, and a raised interrupt is taken when the machine is idle.
FairSpec == Spec /\ WF_vars(Tick) /\ WF_vars(Raise) /\ WF_vars(hpet_irq)

-----------------------------------------------------------------------------
(* Properties. *)

\* The list holds exactly the sleeping processes, once, in the order in which
\* they are to be woken.
ScheduleOK ==
    /\ \A p \in Sleeper : Cardinality({i \in DOMAIN scheduled : scheduled[i] = p}) =
                            IF state[p] = "WAITS4TIMER" THEN 1 ELSE 0
    /\ \A i, j \in DOMAIN scheduled : i < j => goal[scheduled[i]] <= goal[scheduled[j]]

\* The timer is never left unset, or set too late, for a sleeper: whatever
\* sleeps, is interrupted or is killed, the comparator is the earliest goal.
TimerArmed ==
    /\ enabled <=> scheduled # <<>>
    /\ \A p \in Sleeper : state[p] = "WAITS4TIMER" => timval <= goal[p]

\* The interrupt wakes no process before the time it asked for, which is
\* saturated "instead of overflowing" (timer_schedule).
NeverEarly ==
    [][hpet_irq => \A p \in Sleeper : state[p] # state'[p] => deadline[p] < counter]_vars

\* Every sleeper whose time comes is woken, although an interrupt wakes one
\* process only and several may have the same goal, provided that the machine
\* is idle again and again: interrupts are taken in cpu_pause only.
SleepersWake ==
    []<>Idle => \A p \in Sleeper :
        state[p] = "WAITS4TIMER" /\ goal[p] < MaxNow ~> state[p] # "WAITS4TIMER"

\* The list is the sleepers, by their goals, and the comparator is armed for
\* the first.
TimerSound == TypeOK /\ ScheduleOK /\ TimerArmed

\* A sleeper is woken, and not too early.
SleepsExact == NeverEarly /\ SleepersWake
=============================================================================
