------------------------------ MODULE Reliable ------------------------------
(***************************************************************************)
(* The control-channel reliability layer of src/internal/reliable: packet  *)
(* ids that wrap, the send window, the receive window and the set of       *)
(* pending acknowledgments.  Each method runs under its own mutex, so it   *)
(* is an operator on the value of the window.  The clock is left out: the  *)
(* timeout of an entry, its backoff and the counter of later ACKs decide   *)
(* only when an active entry is resent, and it may be resent at any time.  *)
(***************************************************************************)
EXTENDS Integers, Sequences, FiniteSets, FiniteSetsExt

CONSTANTS
    IDSpace,        \* number of packet ids, 2^32
    NSendBuffers,   \* size of a send window
    NRecBuffers,    \* size of a receive window
    AckSize         \* most ids acknowledged by one packet

\* The receive window of the peer holds a full send window, and both are small
\* against half of the id space.
ASSUME ReliableAssumption ==
    /\ NSendBuffers \in Nat \ {0} /\ NRecBuffers \in Nat /\ AckSize \in Nat \ {0}
    /\ IDSpace \in Nat /\ IDSpace % 2 = 0
    /\ NSendBuffers <= NRecBuffers /\ 2 * NRecBuffers < IDSpace

PacketID == 0 .. IDSpace - 1

-----------------------------------------------------------------------------
(* Packet ids.                                                             *)

subtractPID(test, base) == (test - base) % IDSpace

pidInRange1(test, base, extent) == subtractPID(test, base) < extent

pidInRange2(test, base, extent) ==
    LET half == IDSpace \div 2
        sum(a, b) == (a + b) % IDSpace
    IN  IF sum(base, extent) >= base
        THEN test < sum(base, extent)
        ELSE sum(test, half) < sum(sum(base, half), extent)

pidMin(p1, p2) == ~ pidInRange1(p1, p2, IDSpace \div 2)

-----------------------------------------------------------------------------
(* A send window: NSendBuffers entries [active, packetID, payload].        *)

Slots == 1 .. NSendBuffers

newSlots(nil) == [i \in Slots |-> [active |-> FALSE, packetID |-> 0, payload |-> nil]]

Active(slots) == {i \in Slots : slots[i].active}

\* The active entry with the lowest packet id.
isMin(slots, i) ==
    /\ i \in Active(slots)
    /\ \A j \in Active(slots) : ~ pidMin(slots[j].packetID, slots[i].packetID)

\* Mutant: the distance to the lowest active id is not looked at.
nextSlotUnbounded(slots, packetID, i) ==
    /\ ~ slots[i].active
    /\ \A j \in 1 .. i - 1 : slots[j].active

\* Next: i is the first free entry, and the id to be given out is less than a
\* window's size ahead of the lowest active one.
nextSlot(slots, packetID, i) ==
    /\ \A m \in Slots :
          isMin(slots, m) => pidInRange1(packetID, slots[m].packetID, NSendBuffers)
    /\ ~ slots[i].active
    /\ \A j \in 1 .. i - 1 : slots[j].active

\* MarkActive; the payload of the entry's previous use stays.
MarkActive(slots, packetID, i) ==
    [slots EXCEPT ![i].active = TRUE, ![i].packetID = packetID]

SetPayload(slots, i, payload) == [slots EXCEPT ![i].payload = payload]

\* Mutant: an ACK is taken to cover all earlier ids.
AckCumulative(slots, ids) ==
    [i \in Slots |->
        [slots[i] EXCEPT !.active = @ /\ \A id \in ids : slots[i].packetID > id]]

\* Ack: the acknowledged entries become free.
Ack(slots, ids) ==
    [i \in Slots |->
        [slots[i] EXCEPT !.active = @ /\ slots[i].packetID \notin ids]]

\* Due may return the entry i: any active entry becomes due in time.
due(slots, i) == slots[i].active

Empty(slots) == Active(slots) = {}

-----------------------------------------------------------------------------
(* A receive window [packetID, entries]: the lowest id not yet consumed,   *)
(* and the active entries [packetID, payload].                             *)

\* The three results of Put.
PutDuplicate(r, id) ==
    /\ ~ pidMin(id, r.packetID)
    /\ \E e \in r.entries : e.packetID = id

PutAccepted(r, id) ==
    /\ ~ pidMin(id, r.packetID)
    /\ \A e \in r.entries : e.packetID # id
    /\ pidInRange2(id, r.packetID, NRecBuffers)
    /\ Cardinality(r.entries) < NRecBuffers

\* The window after Put.
Put(r, id, payload) ==
    IF PutAccepted(r, id)
    THEN [r EXCEPT !.entries = @ \union {[packetID |-> id, payload |-> payload]}]
    ELSE r

\* Mutant: whatever has arrived.
sequencedAny(r) == r.entries

\* The entry Get would return: the one with the next id, if it has arrived.
sequenced(r) == {e \in r.entries : e.packetID = r.packetID}

\* The window after Get returned the entry e.
Get(r, e) == [packetID |-> (e.packetID + 1) % IDSpace, entries |-> r.entries \ {e}]

-----------------------------------------------------------------------------
(* AckSet: the ids pending acknowledgment, in order.                       *)

Add(ids, id) == IF id \in Range(ids) THEN ids ELSE Append(ids, id)

drained(ids) == SubSeq(ids, 1, Min({Len(ids), AckSize}))

remaining(ids) == SubSeq(ids, Min({Len(ids), AckSize}) + 1, Len(ids))
=============================================================================
