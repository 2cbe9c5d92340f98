------------------------------ MODULE Netstack ------------------------------
(***************************************************************************)
(* The stack with both demultiplexers: read loops of the attached sessions *)
(* run through the core into UDP and TCP, while the embedder calls.        *)
(***************************************************************************)
EXTENDS UDPDemux, TCPDemux

vars == <<stackVars, udpVars, tcpVars>>

Init == StackInit /\ UDPInit /\ TCPInit

\* What the stack's own goroutines do, and calls that are under way.
Steps ==
    \/ (\E a \in Att : StackSteps(a)) /\ UNCHANGED <<udpVars, tcpVars>>
    \/ UDPSteps /\ UNCHANGED <<load, left, now, closed, routes, reasm, whole, tcpVars>>
    \/ TCPSteps /\ UNCHANGED <<load, left, now, closed, routes, reasm, whole, udpVars>>

\* What the embedder, the clients and the clocks begin.
Calls ==
    \/ StackCalls /\ UNCHANGED <<udpVars, tcpVars>>
    \/ UDPCalls /\ UNCHANGED <<load, left, now, closed, routes, reasm, whole, tcpVars>>
    \/ TCPCalls /\ UNCHANGED <<load, left, now, closed, routes, reasm, whole, udpVars>>

Next == ~Panicked /\ (Steps \/ Calls)

Spec == Init /\ [][Next]_vars

\* The Go scheduler runs every goroutine that can run. Every step leads a
\* goroutine closer to where it waits for a call, so fairness of all steps
\* together is fairness of each.
FairSpec == Spec /\ WF_vars(~Panicked /\ Steps)

\* Routes, queues and tables keep to their types and capacities, and a connection is
\* in the table under its own key (stack.go, udp.go, tcp_listener.go).
TypeOK ==
    /\ (\A a \in Att : left[a] \in 0..load.budget[a]) /\ now \in 0..maxNow
    /\ routes \in [Addr -> Att \cup {Nil}]
    /\ \A a \in Att : att[a].phase \in Phases /\ att[a].ip \in Addr \cup {Nil}
    /\ bound \in Sock \cup {Nil}
    /\ \A s \in Sock : Len(sock[s].queue) <= queueDepth
    /\ Len(backlog) <= defaultBacklog
    /\ \A k \in DOMAIN conns : conns[k] \in Conn /\ conn[conns[k]].key = k

\* The tables of the stack are exact and within their limits, although the counts are
\* taken before a connection is in the table and given back after it has left
\* (tcp_listener.go:163, 298).
TablesExact == TypeOK /\ CountsExact /\ WithinLimits

\* What comes late does no harm: a fragment after its datagram has timed out, a
\* datagram after its socket was closed, the removal of a connection after its key was
\* taken by another (reassembly.go:203, udp.go:239, tcp_listener.go:165).
LateIsIgnored == [][NotTooLate /\ NothingAfterClose /\ OnlyClosedLeave]_vars
=============================================================================
