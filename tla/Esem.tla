-------------------------------- MODULE Esem --------------------------------
(***************************************************************************)
(* The semaphore that src/libc/esemaphore.c builds from two pipes and      *)
(* processes: a server reads the signals, and forks for each one a process *)
(* that stays in a write until a waiter reads it.  A pipe pairs one write  *)
(* with one read and lets neither return before (module Pipe).             *)
(***************************************************************************)
EXTENDS Naturals, FiniteSets

CONSTANTS
    User,           \* the threads that share the semaphore
    Creator,        \* the one that calls esem_new and esem_free
    Poster,         \* processes that the server can fork
    MaxValue,       \* bound: the argument of esem_new
    MaxSignals      \* bound: calls of esem_signal

ASSUME EsemAssumption ==
    /\ Creator \in User /\ IsFiniteSet(User) /\ IsFiniteSet(Poster)
    /\ MaxValue \in Nat /\ MaxSignals \in Nat

VARIABLES
    doing,          \* doing[u]: "new", "init" (in a signal of esem_new), "run", "signal" or "wait"
    value,          \* what esem_new has still to signal
    server,         \* "read", "fork" or "gone"
    posters,        \* those in _sys_write(ends_wait[1])
    freed,          \* esem_free has closed both ends
    first, signals, waits   \* history: the argument, calls of esem_signal, waits that returned

esem_vars == <<doing, value, server, posters, freed, first, signals, waits>>

EsemTypeOK ==
    /\ doing \in [User -> {"new", "init", "run", "signal", "wait"}]
    /\ server \in {"read", "fork", "gone"} /\ posters \subseteq Poster
    /\ freed \in BOOLEAN
    \* the server goes when nobody can signal any more, and not before
    /\ server = "gone" => freed

-----------------------------------------------------------------------------
\* The loop at the end of esem_new.
esem_new ==
    /\ doing[Creator] = "new"
    /\ IF value = 0 THEN doing' = [doing EXCEPT ![Creator] = "run"] /\ UNCHANGED value
                    ELSE doing' = [doing EXCEPT ![Creator] = "init"] /\ value' = value - 1
    /\ UNCHANGED <<server, posters, freed, first, signals, waits>>

\* Nobody has the semaphore before esem_new returns it.
Ready == doing[Creator] \notin {"new", "init"} /\ ~freed

esem_signal(u) ==
    /\ doing[u] = "run" /\ Ready /\ signals < MaxSignals
    /\ doing' = [doing EXCEPT ![u] = "signal"] /\ signals' = signals + 1
    /\ UNCHANGED <<value, server, posters, freed, first, waits>>

\* The write of a signal and the read of the server meet: both return.
ServerReads(u) ==
    /\ server = "read" /\ doing[u] \in {"init", "signal"}
    /\ server' = "fork"
    /\ doing' = [doing EXCEPT ![u] = IF @ = "init" THEN "new" ELSE "run"]
    /\ UNCHANGED <<value, posters, freed, first, signals, waits>>

\* Bug: at most one poster is kept.
forked_one(p) == {p}
forked(p) == posters \cup {p}
\* Bug: the server waits for the process it has forked.
ServerForks_reap(p) ==
    /\ server = "fork" /\ posters = {}
    /\ posters' = {p} /\ server' = "read"
    /\ UNCHANGED <<doing, value, freed, first, signals, waits>>
ServerForks(p) ==
    /\ server = "fork" /\ p \notin posters
    /\ posters' = forked(p) /\ server' = "read"
    /\ UNCHANGED <<doing, value, freed, first, signals, waits>>

\* The other end is closed: the read fails.
ServerExits ==
    /\ server = "read" /\ freed
    /\ server' = "gone"
    /\ UNCHANGED <<doing, value, posters, freed, first, signals, waits>>

esem_wait(u) ==
    /\ doing[u] = "run" /\ Ready
    /\ doing' = [doing EXCEPT ![u] = "wait"]
    /\ UNCHANGED <<value, server, posters, freed, first, signals, waits>>

\* A read of no bytes meets a write of one: both return, and the poster exits.
WaitReturns(u, p) ==
    /\ doing[u] = "wait" /\ p \in posters
    /\ doing' = [doing EXCEPT ![u] = "run"] /\ waits' = waits + 1
    /\ posters' = posters \ {p}
    /\ UNCHANGED <<value, server, freed, first, signals>>

\* The posters that are left hold the other end of their pipe themselves, so
\* that they stay in their writes.
esem_free ==
    /\ Ready /\ \A u \in User : doing[u] = "run"
    /\ freed' = TRUE
    /\ UNCHANGED <<doing, value, server, posters, first, signals, waits>>

EsemInit ==
    /\ doing = [u \in User |-> IF u = Creator THEN "new" ELSE "run"]
    /\ value \in 0..MaxValue /\ first = value
    /\ server = "read" /\ posters = {} /\ freed = FALSE /\ signals = 0 /\ waits = 0

ServerStep == (\E u \in User : ServerReads(u)) \/ (\E p \in Poster : ServerForks(p)) \/ ServerExits
WaitStep == \E u \in User, p \in Poster : WaitReturns(u, p)

EsemNext ==
    \/ esem_new \/ esem_free
    \/ \E u \in User : esem_signal(u) \/ esem_wait(u)
    \/ ServerStep \/ WaitStep

EsemSpec == EsemInit /\ [][EsemNext]_esem_vars

\* The scheduler runs the processes in turn, and a pipe pairs its ends at once.
EsemFairness == WF_esem_vars(ServerStep) /\ WF_esem_vars(WaitStep) /\ WF_esem_vars(esem_new)

-----------------------------------------------------------------------------
(* Properties. *)

\* Threads blocked in esem_signal, and in esem_wait.
In(what) == {u \in User : doing[u] = what}

\* It is a semaphore: no more waits return than the value and the signals
\* allow, and none is lost between the two pipes, the fork and the write.
TokensKept ==
    first + signals = waits + value + Cardinality(In("signal") \cup In("init"))
                      + Cardinality(posters) + (IF server = "fork" THEN 1 ELSE 0)

\* esem_signal never waits for a waiter: the server takes every signal.
SignalReturns == \A u \in User : doing[u] = "signal" ~> doing[u] # "signal"

\* Nobody waits for ever while the semaphore has a value.
NoIdleToken == (posters # {} /\ In("wait") # {}) ~> (posters = {} \/ In("wait") = {})

\* After esem_free the server exits.
ServerLeaves == freed ~> server = "gone"

\* The semaphore is sound.
EsemSound == EsemTypeOK /\ TokensKept

\* Signals return, tokens reach those who wait, and the server goes.
EsemLive == SignalReturns /\ NoIdleToken /\ ServerLeaves
=============================================================================
