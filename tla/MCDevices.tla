------------------------------ MODULE MCDevices ------------------------------
(* Drivers, Timer, Tcp, Ipv4 and Netfs on small instances.  They share no    *)
(* variable, so that a behaviour exercises one of them.                       *)
EXTENDS Drivers, Timer, Tcp, Ipv4, Netfs

MCSegLen == <<2, 2, 3>>
MCPayloadLen == <<6, 3, 1>>

VARIABLE part

DevicesVars == <<drivers_vars, vars, tcp_vars, ipv4_vars, netfs_vars, part>>

DevicesInit ==
    /\ part \in {"drivers", "timer", "tcp", "ipv4", "netfs"}
    /\ DriversInit /\ Init /\ TcpInit /\ Ipv4Init /\ NetfsInit
    /\ part # "drivers" => use = CHOOSE u \in Uses : TRUE

DevicesNext ==
    /\ UNCHANGED part
    /\ \/ part = "drivers" /\ DriversNext /\ UNCHANGED <<vars, tcp_vars, ipv4_vars, netfs_vars>>
       \/ part = "timer" /\ Next /\ UNCHANGED <<drivers_vars, tcp_vars, ipv4_vars, netfs_vars>>
       \/ part = "tcp" /\ TcpNext /\ UNCHANGED <<drivers_vars, vars, ipv4_vars, netfs_vars>>
       \/ part = "ipv4" /\ Ipv4Next /\ UNCHANGED <<drivers_vars, vars, tcp_vars, netfs_vars>>
       \/ part = "netfs" /\ NetfsNext /\ UNCHANGED <<drivers_vars, vars, tcp_vars, ipv4_vars>>

\* DriversFairness, TcpFairness, and the fairness of Timer, for the part that runs.
DevicesFairness ==
    /\ WF_DevicesVars(part = "drivers" /\ Arrive /\ UNCHANGED <<vars, tcp_vars, ipv4_vars, netfs_vars, part>>)
    /\ WF_DevicesVars(part = "drivers" /\ Irq /\ UNCHANGED <<vars, tcp_vars, ipv4_vars, netfs_vars, part>>)
    /\ WF_DevicesVars(part = "timer" /\ Tick /\ UNCHANGED <<drivers_vars, tcp_vars, ipv4_vars, netfs_vars, part>>)
    /\ WF_DevicesVars(part = "timer" /\ Raise /\ UNCHANGED <<drivers_vars, tcp_vars, ipv4_vars, netfs_vars, part>>)
    /\ WF_DevicesVars(part = "timer" /\ hpet_irq /\ UNCHANGED <<drivers_vars, tcp_vars, ipv4_vars, netfs_vars, part>>)
    /\ WF_DevicesVars(part = "tcp" /\ DeliverDue /\ UNCHANGED <<drivers_vars, vars, ipv4_vars, netfs_vars, part>>)
    /\ WF_DevicesVars(part = "tcp" /\ DeliverAck /\ UNCHANGED <<drivers_vars, vars, ipv4_vars, netfs_vars, part>>)

DevicesSpec == DevicesInit /\ [][DevicesNext]_DevicesVars /\ DevicesFairness

\* The TCP connection alone, for the window that the peer fills.
TcpAlone == DevicesInit /\ part = "tcp" /\ [][DevicesNext]_DevicesVars
=============================================================================
