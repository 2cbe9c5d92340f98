---------------------------- MODULE TCPContracts ----------------------------
(***************************************************************************)
(* Two statements of src/netstack that the code does not keep.             *)
(***************************************************************************)
EXTENDS MCTCPConn

\* tcp_timer.go:98: "past this many retransmissions of the same unacknowledged
\* data (or SYN-ACK, or FIN), the connection is reset rather than retried
\* forever": a FIN that is not acknowledged has a timer that will send it again
\* or give up.
FINRetransmitted ==
    conn.finSent /\ ~conn.finAcked /\ conn.state # "CLOSED"
        => conn.clock = "running" \/ loop = "fired"

\* tcp_conn.go:450: "A Write after CloseWrite already returns
\* errTCPWriteAfterClose because sendFINLocked sets finSent, so no separate
\* write-side guard is needed here": once the FIN is sent nothing is queued
\* behind it, where it would share the FIN's sequence number.
NothingBehindFIN == conn.finSent => conn.wrote = conn.closedAt
=============================================================================
