--------------------------- MODULE ControlStream ----------------------------
(***************************************************************************)
(* What a control connection (src/internal/ctrlconn) promises the TLS      *)
(* layer above it: each end reads the chunks the other end wrote, in the   *)
(* order it wrote them, each once.                                         *)
(***************************************************************************)
EXTENDS Naturals, Sequences

CONSTANTS
    Ends,     \* the two ends of the connection
    Peer(_)   \* the other end

VARIABLES
    wrote,    \* wrote[e]: number of chunks e has written, chunk n is n
    got       \* got[e]: chunks e has received, in the order of its reads

Init ==
    /\ wrote = [e \in Ends |-> 0]
    /\ got = [e \in Ends |-> <<>>]

Write(e) ==
    /\ wrote' = [wrote EXCEPT ![e] = @ + 1]
    /\ UNCHANGED got

Receive(e) ==
    /\ Len(got[e]) < wrote[Peer(e)]
    /\ got' = [got EXCEPT ![e] = Append(@, Len(@) + 1)]
    /\ UNCHANGED wrote

Next == \E e \in Ends : Write(e) \/ Receive(e)

Spec == Init /\ [][Next]_<<wrote, got>>
=============================================================================
