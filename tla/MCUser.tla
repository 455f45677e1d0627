------------------------------- MODULE MCUser -------------------------------
(* Stdio, Tmpfs, Termcook, Esem and Procfs on small instances.  They share  *)
(* no variable, so that a behaviour exercises one of them.                   *)
EXTENDS Stdio, Tmpfs, Termcook, Esem, Procfs

MCOffsets == {-1, 1}

VARIABLE part

UserVars == <<stdio_vars, tmpfs_vars, termcook_vars, esem_vars, procfs_vars, part>>

\* A semaphore that esem_new(0) has returned.
Made == /\ doing = [u \in User |-> "run"] /\ server = "read" /\ posters = {} /\ freed = FALSE
        /\ value = 0 /\ first = 0 /\ signals = 0 /\ waits = 0

UserInit ==
    /\ part \in {"stdio", "tmpfs", "termcook", "esem", "procfs"}
    /\ StdioInit /\ TmpfsInit /\ TermcookInit /\ ProcfsInit
    /\ part # "stdio" => file = <<>>
    /\ IF part = "esem" THEN EsemInit ELSE Made

UserNext ==
    /\ UNCHANGED part
    /\ \/ part = "stdio" /\ StdioNext /\ UNCHANGED <<tmpfs_vars, termcook_vars, esem_vars, procfs_vars>>
       \/ part = "tmpfs" /\ TmpfsNext /\ UNCHANGED <<stdio_vars, termcook_vars, esem_vars, procfs_vars>>
       \/ part = "termcook" /\ TermcookNext /\ UNCHANGED <<stdio_vars, tmpfs_vars, esem_vars, procfs_vars>>
       \/ part = "esem" /\ EsemNext /\ UNCHANGED <<stdio_vars, tmpfs_vars, termcook_vars, procfs_vars>>
       \/ part = "procfs" /\ ProcfsNext /\ UNCHANGED <<stdio_vars, tmpfs_vars, termcook_vars, esem_vars>>

\* Of a part that does not run, no fair action is enabled.
UserSpec == UserInit /\ [][UserNext]_UserVars /\ StdioFairness /\ TermcookFairness /\ EsemFairness

TmpfsOnly == UserInit /\ part = "tmpfs" /\ [][UserNext]_UserVars

\* Calls of stdio return, lines arrive, and semaphores do what they promise.
UserLive == CallsReturn /\ LineArrives /\ EsemLive
=============================================================================
