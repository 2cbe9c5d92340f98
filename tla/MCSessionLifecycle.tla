------------------------- MODULE MCSessionLifecycle -------------------------
(* SessionLifecycle on small instances: the answers of Config.AssignIP and *)
(* the ciphers of the clients.                                             *)
EXTENDS SessionContracts

CONSTANTS s1, s2

Pool == [kind |-> "nil", ip |-> 0]
Error == [kind |-> "error", ip |-> 0]
Ask(o) == [kind |-> "ip", ip |-> o]

\* The hook may answer anything: an error, an address that is not IPv4, one on
\* either side of the network, each reserved one, a host address, or nil.
AnswersAll ==
    {Pool, Error, [kind |-> "notIPv4", ip |-> 0]}
        \union {Ask(o) : o \in {0 - 1, 0, 1, 2, size - 1, size}}

\* s2 gets any answer, s1 takes what the pool gives or asks for its first address.
AnswersCompete == [s \in Session |-> IF s = s2 THEN AnswersAll ELSE {Pool, Ask(2)}]

\* Every session takes what the pool gives.
AnswersPool == [s \in Session |-> {Pool}]

\* A client of today.
Modern == {[ciphers |-> supportedDataCiphers, ncp |-> 2, occ |-> ""]}
=============================================================================
