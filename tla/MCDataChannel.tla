--------------------------- MODULE MCDataChannel ---------------------------
(* Instances of DataChannel for TLC.                                       *)
EXTENDS DataChannel

\* Renegotiations that overtake each other, at the end of the key-ids; packets
\* from the client, and packets to it, across a renegotiation.
Keys == [conns |-> 2, packets |-> 0, ids |-> 0, first |-> keyIDMask]
Inbound == [conns |-> 1, packets |-> 2, ids |-> 0, first |-> 0]
Outbound == [conns |-> 1, packets |-> 0, ids |-> 2, first |-> 0]
SafetyLimits == {Keys, Inbound, Outbound}

\* One renegotiation and one packet, for liveness.
LiveLimits == {[conns |-> 1, packets |-> 1, ids |-> 0, first |-> keyIDMask]}
=============================================================================
