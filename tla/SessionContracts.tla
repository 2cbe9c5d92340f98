-------------------------- MODULE SessionContracts --------------------------
(***************************************************************************)
(* What the repository's own documentation and comments say about the life *)
(* of a session, stated over SessionLifecycle.  The code does not keep     *)
(* this: a run shows how it fails.                                         *)
(***************************************************************************)
EXTENDS SessionLifecycle

\* Server.Close "closes every in-flight session's control channel so their
\* handshake goroutines and retransmit loops don't leak past server shutdown".
CloseReachesEverySession ==
    \A c \in Closer, k \in Key :
        closer[c] = "done" /\ sessions[k] # Nil => closing(sessions[k])
=============================================================================
