----------------------------- MODULE Reassembly -----------------------------
(***************************************************************************)
(* IPv4 reassembly (src/netstack/reassembly.go): the state of one attached *)
(* session as a record, and add and discardAll as operators on it; and     *)
(* fragmentIPv4 (src/netstack/ipv4.go). A fragment is [id, first, more,    *)
(* data]: the key of its datagram, the offset of its data, and the MF flag.*)
(***************************************************************************)
EXTENDS Integers, Sequences, FiniteSetsExt

CONSTANTS
    holeOpenEnd,        \* the largest byte offset of a datagram
    maxPayload,         \* what is left of the largest datagram by its header
    offsetUnit,         \* bytes one step of the offset field stands for
    maxBufs,            \* datagrams one session may have half reassembled
    maxBytes,           \* bytes they may reach together
    reassemblyTimeout,
    Gap                 \* contents of a byte nothing was copied to

last(f) == f.first + Len(f.data) - 1

hole(from, to) == [first |-> from, last |-> to]

newBuffer(now) ==
    [holes |-> {hole(0, holeOpenEnd)}, data |-> <<>>, header |-> FALSE,
     totalLen |-> -1, expires |-> now + reassemblyTimeout]

newReassembler == [bufs |-> <<>>, bytes |-> 0, closed |-> FALSE]

-----------------------------------------------------------------------------
\* The fragments of a payload that does not fit the space an MTU leaves it.
fragmentIPv4(payload, space, id) ==
    LET maxData == (space \div offsetUnit) * offsetUnit
        end(off) == Min({off + maxData, Len(payload)})
    IN IF maxData <= 0 THEN {}
       ELSE {[id |-> id, first |-> off, more |-> end(off) < Len(payload),
              data |-> SubSeq(payload, off + 1, end(off))] :
                off \in {n \in 0..Len(payload) - 1 : n % maxData = 0}}

-----------------------------------------------------------------------------
without(bufs, K) == [k \in DOMAIN bufs \ K |-> bufs[k]]
with(bufs, k, b) == [i \in DOMAIN bufs \cup {k} |-> IF i = k THEN b ELSE bufs[i]]

\* dropLocked, for a set of keys.
drop(r, K) ==
    [r EXCEPT !.bufs = without(@, K),
              !.bytes = @ - MapThenSumSet(LAMBDA k : Len(r.bufs[k].data),
                                          K \cap DOMAIN r.bufs)]

\* The lazy expiry at the head of add.
expired(r, now) == {k \in DOMAIN r.bufs : now >= r.bufs[k].expires}

meets(h, f) == ~(last(f) < h.first \/ f.first > h.last)

\* Mutant: the hole before the fragment keeps the fragment's first byte.
remainderLong(h, f) ==
    IF ~f.more /\ h.first > last(f) THEN {}
    ELSE IF ~meets(h, f) THEN {h}
    ELSE {x \in {hole(h.first, f.first)} : f.first > h.first}
         \cup {x \in {hole(last(f) + 1, h.last)} : last(f) < h.last /\ f.more}

\* RFC 815: what is left of a hole once f has been placed. After the last
\* fragment there is nothing.
remainder(h, f) ==
    IF ~f.more /\ h.first > last(f) THEN {}
    ELSE IF ~meets(h, f) THEN {h}
    ELSE {x \in {hole(h.first, f.first - 1)} : f.first > h.first}
         \cup {x \in {hole(last(f) + 1, h.last)} : last(f) < h.last /\ f.more}

punch(holes, f) == UNION {remainder(h, f) : h \in holes}

\* The copy: newer bytes win, and the buffer grows to the fragment's end.
copied(data, f) ==
    [i \in 1..Max({Len(data), last(f) + 1}) |->
        IF i - 1 \in f.first..last(f) THEN f.data[i - f.first]
        ELSE IF i <= Len(data) THEN data[i] ELSE Gap]

contradicts(b, f) ==
    /\ b.totalLen >= 0
    /\ last(f) >= b.totalLen \/ (~f.more /\ b.totalLen # last(f) + 1)

complete(b) ==
    b.holes = {} /\ b.totalLen >= 0 /\ b.header /\ b.totalLen <= Len(b.data)

\* The fragment is within the bounds and consistent: place it in buffer b.
place(r, b, f) ==
    LET b2 == [b EXCEPT !.holes = punch(@, f), !.data = copied(@, f),
                        !.header = @ \/ f.first = 0]
        r2 == [r EXCEPT !.bufs = with(@, f.id, b2),
                        !.bytes = @ + Len(b2.data) - Len(b.data)]
    IN IF ~\E h \in b.holes : meets(h, f)
       THEN [r |-> r2, out |-> "Duplicate", datagram |-> <<>>]
       ELSE IF ~complete(b2)
       THEN [r |-> r2, out |-> "Buffered", datagram |-> <<>>]
       ELSE IF b2.totalLen > maxPayload
       THEN [r |-> drop(r2, {f.id}), out |-> "Conflict", datagram |-> <<>>]
       ELSE [r |-> drop(r2, {f.id}), out |-> "Complete",
             datagram |-> SubSeq(b2.data, 1, b2.totalLen)]

add(r0, now, f) ==
    LET r == drop(r0, expired(r0, now))
        known == f.id \in DOMAIN r.bufs
        b == IF known THEN r.bufs[f.id] ELSE newBuffer(now)
        b1 == IF f.more THEN b ELSE [b EXCEPT !.totalLen = last(f) + 1]
        nothing(rr, out) == [r |-> rr, out |-> out, datagram |-> <<>>]
    IN IF r0.closed THEN nothing(r0, "Closed")
       ELSE IF ~known /\ Cardinality(DOMAIN r.bufs) >= maxBufs
       THEN nothing(r, "BoundExceeded")
       ELSE IF contradicts(b, f) THEN nothing(drop(r, {f.id}), "Conflict")
       ELSE IF r.bytes + Max({last(f) + 1 - Len(b.data), 0}) > maxBytes
       THEN nothing([r EXCEPT !.bufs = with(@, f.id, b1)], "BoundExceeded")
       ELSE place([r EXCEPT !.bufs = with(@, f.id, b1)], b1, f)

discardAll(r) == [bufs |-> <<>>, bytes |-> 0, closed |-> TRUE]

-----------------------------------------------------------------------------
(* What the state of a reassembler must satisfy.                           *)

missing(b) == {i \in 0..holeOpenEnd : i >= Len(b.data) \/ b.data[i + 1] = Gap}
inHoles(b) == {i \in 0..holeOpenEnd : \E h \in b.holes : h.first <= i /\ i <= h.last}

\* The hole list names exactly the bytes that have not arrived, below the end
\* of the datagram where that is known, and its holes are disjoint intervals.
HolesExact(r) ==
    \A k \in DOMAIN r.bufs :
        LET b == r.bufs[k]
            end == IF b.totalLen >= 0 THEN b.totalLen - 1 ELSE holeOpenEnd
        IN /\ inHoles(b) \cap 0..end = missing(b) \cap 0..end
           /\ \A h, g \in b.holes : h # g => h.last < g.first \/ g.last < h.first

\* The byte budget is the sum of the lengths the buffers have reached, and it
\* and the number of buffers stay within their bounds; a closed reassembler
\* holds nothing.
BudgetExact(r) ==
    /\ r.bytes = MapThenSumSet(LAMBDA k : Len(r.bufs[k].data), DOMAIN r.bufs)
    /\ r.bytes <= maxBytes
    /\ Cardinality(DOMAIN r.bufs) <= maxBufs
    /\ r.closed => DOMAIN r.bufs = {}
=============================================================================
