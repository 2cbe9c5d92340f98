----------------------------- MODULE MCTCPConn ------------------------------
(* Instances of TCPConn for TLC.                                           *)
EXTENDS TCPConn

\* The peer sends; the server sends, under windows that open and close; both.
Receiving == [in |-> 4, out |-> 0, windows |-> {2}]
Sending == [in |-> 0, out |-> 3, windows |-> {0, 1, 2}]
Both == [in |-> 1, out |-> 1, windows |-> {2}]
OnlySending == {Sending}
Traffic == {Receiving, Sending, Both}
=============================================================================
