--------------------------- MODULE AddressLeases ----------------------------
(***************************************************************************)
(* What the server promises about tunnel addresses and peer-ids, with the  *)
(* goroutines, tables and locks left out: a client holds at most one pair, *)
(* nobody else holds either half of it meanwhile, and a pair given back is *)
(* free at once.                                                           *)
(***************************************************************************)
CONSTANTS Client, Pair, None

VARIABLE lease

Init == lease = [c \in Client |-> None]

\* Neither half of l is held.
Free(l) ==
    \A d \in Client :
        lease[d] # None => lease[d].ip # l.ip /\ lease[d].peer # l.peer

Grant(c, l) ==
    /\ lease[c] = None
    /\ Free(l)
    /\ lease' = [lease EXCEPT ![c] = l]

Drop(c) ==
    /\ lease[c] # None
    /\ lease' = [lease EXCEPT ![c] = None]

Next == \E c \in Client : Drop(c) \/ \E l \in Pair : Grant(c, l)

Spec == Init /\ [][Next]_lease
=============================================================================
