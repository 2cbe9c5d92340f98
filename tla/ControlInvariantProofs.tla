----------------------- MODULE ControlInvariantProofs -----------------------
(***************************************************************************)
(* The inductive invariant of the control channel, and the steps of it     *)
(* that need no counting: datagrams lost, duplicated and arriving, chunks  *)
(* sent and acknowledged, entries read.                                    *)
(*                                                                         *)
(* The chunks of a direction are numbered 1, 2, ... without bound and the  *)
(* ids are the numbers less one modulo IDSpace.  The inductive invariant   *)
(* ControlInv says which numbers each window holds.  Three facts carry it. *)
(* A sequence number of the wrapper belongs to one datagram and is let in  *)
(* once, so a datagram is acted on once.  A chunk that can still be acted  *)
(* on is in the send window and the peer does not have it, so Put takes it *)
(* and no id stands for two chunks.  And an ACK is pending or under way    *)
(* only while the entry it frees holds a chunk that the peer has, so Ack   *)
(* frees no other.                                                         *)
(***************************************************************************)
EXTENDS ControlChannel, ReplayWindowProofs, TLAPS

-----------------------------------------------------------------------------
(* Arithmetic of ids.                                                      *)

\* Division with remainder.
LEMMA DivMod ==
    ASSUME NEW m \in Nat \ {0}, NEW x \in Int
    PROVE  (x % m) \in 0 .. (m - 1) /\ (x \div m) \in Int /\ x = m * (x \div m) + (x % m)
OBVIOUS

\* The remainder is determined by its range.
LEMMA ModUnique ==
    ASSUME NEW m \in Nat \ {0}, NEW q \in Int, NEW r \in 0 .. (m - 1)
    PROVE  (m * q + r) % m = r
OBVIOUS

\* A remainder of a number less than the modulus.
LEMMA ModSmall ==
    ASSUME NEW m \in Nat \ {0}, NEW x \in 0 .. (m - 1)
    PROVE  (x % m) = x
OBVIOUS

\* Reducing a summand does not change the remainder of a sum.
LEMMA ModSum ==
    ASSUME NEW m \in Nat \ {0}, NEW x \in Int, NEW y \in Int
    PROVE  ((x % m) + y) % m = (x + y) % m
<1>1. PICK a, q : a = (x % m) /\ q = (x \div m)
  OBVIOUS
<1>2. a \in 0 .. (m - 1) /\ q \in Int /\ x = m * q + a
  BY <1>1, DivMod
<1>3. PICK z : z = a + y
  OBVIOUS
<1>4. z \in Int
  BY <1>2, <1>3
<1>5. PICK b, r : b = (z % m) /\ r = (z \div m)
  OBVIOUS
<1>6. b \in 0 .. (m - 1) /\ r \in Int /\ z = m * r + b
  BY <1>4, <1>5, DivMod
<1>7. m * (q + r) = m * q + m * r /\ q + r \in Int
  BY <1>2, <1>6
<1>8. x + y = m * (q + r) + b
  BY <1>2, <1>3, <1>6, <1>7
<1>9. (m * (q + r) + b) % m = b
  BY <1>6, <1>7, ModUnique
<1> QED
  BY <1>1, <1>3, <1>5, <1>8, <1>9

\* Reducing both terms does not change the remainder of a difference.
LEMMA ModDiff ==
    ASSUME NEW m \in Nat \ {0}, NEW x \in Int, NEW y \in Int
    PROVE  ((x % m) - (y % m)) % m = (x - y) % m
<1>1. PICK a, q : a = (y % m) /\ q = (y \div m)
  OBVIOUS
<1>2. a \in 0 .. (m - 1) /\ q \in Int /\ y = m * q + a
  BY <1>1, DivMod
<1>3. ((x % m) + (0 - a)) % m = (x + (0 - a)) % m
  <2>1. PICK n : n = 0 - a
    OBVIOUS
  <2>2. n \in Int
    BY <1>2, <2>1
  <2>3. ((x % m) + n) % m = (x + n) % m
    BY <2>2, ModSum, Zenon
  <2> QED BY <2>1, <2>3
<1>4. PICK z : z = x - a
  OBVIOUS
<1>5. z \in Int
  BY <1>2, <1>4
<1>6. PICK b, r : b = (z % m) /\ r = (z \div m)
  OBVIOUS
<1>7. b \in 0 .. (m - 1) /\ r \in Int /\ z = m * r + b
  BY <1>5, <1>6, DivMod
<1>8. m * (r - q) = m * r - m * q /\ r - q \in Int
  BY <1>2, <1>7
<1>9. x - y = m * (r - q) + b
  BY <1>2, <1>4, <1>7, <1>8
<1>10. (m * (r - q) + b) % m = b
  BY <1>7, <1>8, ModUnique, Zenon
<1>11. (x % m) \in Int
  BY DivMod
<1>12. (x % m) + (0 - a) = (x % m) - a /\ x + (0 - a) = z
  BY <1>2, <1>4, <1>11
<1> QED
  BY <1>1, <1>3, <1>6, <1>9, <1>10, <1>12, Zenon

\* Two numbers less than m apart with the same remainder are equal.
LEMMA ModEqual ==
    ASSUME NEW m \in Nat \ {0}, NEW x \in Int, NEW y \in Int,
           (x % m) = (y % m), x - y < m, y - x < m
    PROVE  x = y
<1>1. ((x % m) - (y % m)) % m = (x - y) % m
  BY ModDiff, Zenon
<1>2. (x % m) \in Int
  BY DivMod
<1>3. (x - y) % m = 0
  <2>1. (x % m) - (y % m) = 0
    BY <1>2
  <2> QED BY <1>1, <2>1, ModSmall
<1>4. CASE x >= y
  <2>1. x - y \in 0 .. (m - 1)
    BY <1>4
  <2>2. (x - y) % m = x - y
    BY <2>1, ModSmall, SMTT(30)
  <2> QED BY <1>3, <2>2
<1>5. CASE x < y
  <2>1. x - y + m \in 0 .. (m - 1) /\ x - y + m # 0
    BY <1>5
  <2>2. (((x - y) % m) + m) % m = (x - y + m) % m
    <3>1. PICK z : z = x - y
      OBVIOUS
    <3>2. z \in Int /\ m \in Int
      BY <3>1
    <3>3. ((z % m) + m) % m = (z + m) % m
      BY <3>2, ModSum, Zenon
    <3> QED BY <3>1, <3>3
  <2>3. (x - y + m) % m = x - y + m
    BY <2>1, ModSmall, SMTT(30)
  <2>4. (0 + m) % m = 0
    <3>1. (m * 1 + 0) % m = 0
      BY ModUnique
    <3> QED BY <3>1
  <2> QED BY <1>3, <2>1, <2>2, <2>3, <2>4
<1> QED
  BY <1>4, <1>5

\* A number that passes the modulus once.
LEMMA ModWrap ==
    ASSUME NEW m \in Nat \ {0}, NEW x \in m .. (2 * m - 1)
    PROVE  (x % m) = x - m
<1>1. x - m \in 0 .. (m - 1) /\ m * 1 + (x - m) = x
  OBVIOUS
<1>2. PICK r : r = x - m
  OBVIOUS
<1>3. (m * 1 + r) % m = r
  BY <1>1, <1>2, ModUnique
<1> QED
  BY <1>1, <1>2, <1>3

\* The same for a sum.
LEMMA WrapOnce ==
    ASSUME NEW m \in Nat \ {0}, NEW x \in Int, NEW y \in Int, x + y \in m .. (2 * m - 1)
    PROVE  (x + y) % m = x + y - m
<1>1. PICK z : z = x + y
  OBVIOUS
<1>2. (z % m) = z - m
  BY <1>1, ModWrap
<1> QED BY <1>1, <1>2

\* The successor of a reduced number.
LEMMA ModNext ==
    ASSUME NEW m \in Nat \ {0}, NEW x \in Int
    PROVE  ((x % m) + 1) % m = (x + 1) % m
<1>1. PICK y : y = 1
  OBVIOUS
<1>2. y \in Int
  BY <1>1
<1>3. ((x % m) + y) % m = (x + y) % m
  BY <1>2, ModSum, Zenon
<1> QED
  BY <1>1, <1>3

\* The sizes, as numbers.
LEMMA Sizes ==
          /\ IDSpace \in Nat \ {0} /\ NSendBuffers \in Nat \ {0} /\ NRecBuffers \in Nat
          /\ NSendBuffers <= NRecBuffers /\ NRecBuffers < IDSpace
          /\ (IDSpace \div 2) \in Nat /\ IDSpace = 2 * (IDSpace \div 2) /\ NRecBuffers < IDSpace \div 2
          /\ AckSize \in Nat \ {0}
BY ReliableAssumption

\* A number reduced to a packet id.
LEMMA IdType ==
    ASSUME NEW a \in Int
    PROVE  (a % IDSpace) \in PacketID
BY Sizes, DivMod DEF PacketID

\* The distance between the ids of close numbers.
LEMMA Distance ==
    ASSUME NEW a \in Int, NEW b \in Int, b <= a, a - b < IDSpace
    PROVE  subtractPID(a % IDSpace, b % IDSpace) = a - b
<1>1. ((a % IDSpace) - (b % IDSpace)) % IDSpace = (a - b) % IDSpace
  BY Sizes, ModDiff, Zenon
<1>2. a - b \in 0 .. (IDSpace - 1)
  BY Sizes
<1>3. (a - b) % IDSpace = a - b
  BY <1>2, Sizes, ModSmall
<1> QED
  BY <1>1, <1>3 DEF subtractPID

\* subtractPID of the ids of numbers a < b less than the id space apart: the distance
\* from behind.
LEMMA DistanceBack ==
    ASSUME NEW a \in Int, NEW b \in Int, a < b, b - a <= IDSpace
    PROVE  subtractPID(a % IDSpace, b % IDSpace) = IDSpace - (b - a)
<1>1. ((a % IDSpace) - (b % IDSpace)) % IDSpace = (a - b) % IDSpace
  BY Sizes, ModDiff, Zenon
<1>2. PICK r : r = IDSpace - (b - a)
  OBVIOUS
<1>3. r \in 0 .. (IDSpace - 1) /\ IDSpace * (0 - 1) + r = a - b
  BY <1>2, Sizes
<1>4. (IDSpace * (0 - 1) + r) % IDSpace = r
  BY <1>3, Sizes, ModUnique
<1> QED
  BY <1>1, <1>2, <1>3, <1>4 DEF subtractPID

\* pidMin does not take a number for less than one that is at most half the space behind.
LEMMA NotLess ==
    ASSUME NEW a \in Int, NEW b \in Int, b <= a, a - b < IDSpace \div 2
    PROVE  ~ pidMin(a % IDSpace, b % IDSpace)
<1>1. a - b < IDSpace
  BY Sizes
<1>2. subtractPID(a % IDSpace, b % IDSpace) = a - b
  BY <1>1, Distance
<1> QED
  BY <1>2 DEF pidMin, pidInRange1

\* pidInRange2 tells the NRecBuffers next numbers, whether or not their ids wrap.
LEMMA InWindow ==
    ASSUME NEW a \in Int, NEW b \in Int, b <= a, a - b < NRecBuffers
    PROVE  pidInRange2(a % IDSpace, b % IDSpace, NRecBuffers)
<1>1. PICK A, B, half, I, E :  /\ A = (a % IDSpace) /\ B = (b % IDSpace) /\ half = (IDSpace \div 2)
                        /\ I = IDSpace /\ E = NRecBuffers
  OBVIOUS
<1>2. /\ A \in 0 .. (I - 1) /\ B \in 0 .. (I - 1) /\ half \in Nat /\ I = 2 * half /\ E \in Nat /\ E < half
      /\ I \in Nat \ {0}
  BY <1>1, Sizes, DivMod
<1>3. PICK k : k = a - b
  OBVIOUS
<1>4. k \in Nat /\ k \in Int /\ k < E /\ b + k = a
  BY <1>1, <1>3, Sizes
<1>0. A \in Int /\ B \in Int /\ k \in Int /\ E \in Int /\ half \in Int /\ I \in Nat \ {0}
  BY <1>2, <1>4
<1>5. A = (B + k) % I
  <2>1. ((b % IDSpace) + k) % IDSpace = (b + k) % IDSpace
    BY <1>4, Sizes, ModSum, Zenon
  <2> QED BY <1>1, <1>4, <2>1, Zenon
<1>6. (B + k < I /\ A = B + k) \/ (B + k >= I /\ A = B + k - I)
  <2>1. CASE B + k < I
    BY <1>2, <1>4, <1>5, <2>1, ModSmall, SMTT(30)
  <2>2. CASE B + k >= I
    <3>1. B + k \in I .. (2 * I - 1)
      BY <1>2, <1>4, <2>2
    <3>2. (B + k) % I = B + k - I
      BY <1>0, <3>1, WrapOnce, Zenon
    <3> QED BY <1>5, <2>2, <3>2
  <2> QED BY <1>2, <1>4, <2>1, <2>2
<1>7. CASE B + E < I
  <2>1. (B + E) % I = B + E
    BY <1>2, <1>7, ModSmall
  <2>2. A < B + E /\ B + E >= B
    BY <1>2, <1>4, <1>6, <1>7
  <2> QED
    BY <1>1, <2>1, <2>2 DEF pidInRange2
<1>8. CASE B + E >= I
  <2>1. (B + E) % I = B + E - I /\ B + E - I < B
    <3>1. B + E \in I .. (2 * I - 1) /\ B + E - I < B
      BY <1>2, <1>8
    <3> QED BY <1>0, <3>1, WrapOnce, Zenon
  <2>2. (B + half) % I = B + half - I
    <3>1. B + half \in I .. (2 * I - 1)
      BY <1>2, <1>8
    <3> QED BY <1>0, <3>1, WrapOnce, Zenon
  <2>3. ((B + half - I) + E) % I = B + half - I + E
    <3>1. (B + half - I) + E \in 0 .. (I - 1)
      BY <1>2, <1>8
    <3> QED BY <1>2, <3>1, ModSmall
  <2>4. (A + half) % I = B + k + half - I
    <3>1. CASE A = B + k
      <4>1. A + half \in I .. (2 * I - 1)
        BY <1>2, <1>4, <1>8, <3>1
      <4>2. (A + half) % I = A + half - I
        BY <1>0, <4>1, WrapOnce, Zenon
      <4> QED BY <1>2, <1>4, <3>1, <4>2
    <3>2. CASE A = B + k - I
      <4>1. A + half \in 0 .. (I - 1)
        BY <1>2, <1>4, <1>8, <3>2
      <4>2. (A + half) % I = A + half
        BY <1>2, <4>1, ModSmall
      <4> QED BY <1>2, <1>4, <3>2, <4>2
    <3> QED BY <1>6, <3>1, <3>2
  <2>5. (A + half) % I < (((B + half) % I) + E) % I
    BY <1>2, <1>4, <2>2, <2>3, <2>4
  <2>6. ~ ((B + E) % I >= B)
    BY <1>2, <2>1
  <2> QED
    BY <1>1, <2>5, <2>6, Zenon DEF pidInRange2
<1> QED
  BY <1>2, <1>7, <1>8

\* The other end of the other end.
LEMMA Peers ==
    ASSUME NEW e \in Ends
    PROVE  Peer(e) \in Ends /\ Peer(Peer(e)) = e /\ Peer(e) # e
BY DEF Ends, Peer

-----------------------------------------------------------------------------
(* Queues and the set of pending ACKs.                                     *)

\* A new element at the end of a queue.
LEMMA AppendNew ==
    ASSUME NEW S, NEW q \in Seq(S), NEW d \in S, IsInjective(q), d \notin Range(q)
    PROVE  /\ Append(q, d) \in Seq(S)
           /\ IsInjective(Append(q, d))
           /\ Range(Append(q, d)) = Range(q) \union {d}
<1>1. /\ Append(q, d) \in Seq(S) /\ DOMAIN q = 1 .. Len(q) /\ Len(q) \in Nat
      /\ DOMAIN Append(q, d) = 1 .. Len(q) + 1
      /\ Append(q, d)[Len(q) + 1] = d
      /\ \A k \in 1 .. Len(q) : Append(q, d)[k] = q[k]
  OBVIOUS
<1>2. IsInjective(Append(q, d))
  BY <1>1 DEF IsInjective, Range
<1>3. Range(Append(q, d)) = Range(q) \union {d}
  BY <1>1 DEF Range
<1> QED
  BY <1>1, <1>2, <1>3

\* The first element leaves a queue.
LEMMA TailRest ==
    ASSUME NEW S, NEW q \in Seq(S), q # <<>>, IsInjective(q)
    PROVE  /\ Tail(q) \in Seq(S) /\ Len(Tail(q)) = Len(q) - 1
           /\ Head(q) \in S /\ Head(q) \in Range(q)
           /\ IsInjective(Tail(q))
           /\ Range(Tail(q)) \subseteq Range(q) \ {Head(q)}
<1>1. /\ Tail(q) \in Seq(S) /\ DOMAIN q = 1 .. Len(q) /\ Len(q) \in Nat /\ Len(q) >= 1
      /\ DOMAIN Tail(q) = 1 .. Len(q) - 1
      /\ Head(q) = q[1] /\ Head(q) \in S /\ Len(Tail(q)) = Len(q) - 1
      /\ \A k \in 1 .. Len(q) - 1 : Tail(q)[k] = q[k + 1]
  OBVIOUS
<1>2. IsInjective(Tail(q))
  BY <1>1 DEF IsInjective
<1>3. Range(Tail(q)) \subseteq Range(q) \ {Head(q)}
  BY <1>1 DEF Range, IsInjective
<1>4. Head(q) \in Range(q)
  BY <1>1 DEF Range
<1> QED
  BY <1>1, <1>2, <1>3, <1>4

\* Drain splits the pending ids in two.
LEMMA DrainSplits ==
    ASSUME NEW q \in Seq(PacketID), IsInjective(q)
    PROVE  /\ remaining(q) \in Seq(PacketID)
           /\ IsInjective(remaining(q))
           /\ Range(drained(q)) \in SUBSET PacketID
           /\ Range(drained(q)) \subseteq Range(q)
           /\ Range(remaining(q)) \subseteq Range(q)
           /\ Range(drained(q)) \intersect Range(remaining(q)) = {}
<1>1. PICK m : m = Min({Len(q), AckSize})
  OBVIOUS
<1>2. m \in 0 .. Len(q)
  <2>1. Len(q) \in Nat /\ AckSize \in Nat
    BY Sizes
  <2>2. \E x \in {Len(q), AckSize} : \A y \in {Len(q), AckSize} : x =< y
    BY <2>1
  <2>3. m \in {Len(q), AckSize} /\ \A y \in {Len(q), AckSize} : m =< y
    BY <1>1, <2>2, Zenon DEF Min
  <2> QED BY <2>1, <2>3
<1>3. drained(q) = SubSeq(q, 1, m) /\ remaining(q) = SubSeq(q, m + 1, Len(q))
  BY <1>1 DEF drained, remaining
<1>4. /\ DOMAIN SubSeq(q, 1, m) = 1 .. m
      /\ \A k \in 1 .. m : SubSeq(q, 1, m)[k] = q[k] /\ q[k] \in PacketID
  BY <1>2
<1>5. /\ DOMAIN SubSeq(q, m + 1, Len(q)) = 1 .. Len(q) - m
      /\ \A k \in 1 .. Len(q) - m : SubSeq(q, m + 1, Len(q))[k] = q[k + m]
      /\ SubSeq(q, m + 1, Len(q)) \in Seq(PacketID)
  BY <1>2, SMTT(30)
<1>6. DOMAIN q = 1 .. Len(q) /\ Len(q) \in Nat
  OBVIOUS
<1>7. IsInjective(remaining(q))
  BY <1>2, <1>3, <1>5, <1>6, SMTT(30) DEF IsInjective
<1>8. Range(drained(q)) \subseteq Range(q) /\ Range(drained(q)) \in SUBSET PacketID
  BY <1>2, <1>3, <1>4, <1>6 DEF Range
<1>9. Range(remaining(q)) \subseteq Range(q)
  BY <1>2, <1>3, <1>5, <1>6 DEF Range
<1>10. Range(drained(q)) \intersect Range(remaining(q)) = {}
  <2>1. \A j \in 1 .. m, k \in 1 .. Len(q) - m : q[j] # q[k + m]
    BY <1>2, <1>6 DEF IsInjective
  <2>2. ASSUME NEW x \in Range(drained(q)), x \in Range(remaining(q)) PROVE FALSE
    <3>1. PICK j \in 1 .. m : x = q[j]
      BY <1>3, <1>4, Zenon DEF Range
    <3>2. PICK k \in 1 .. Len(q) - m : x = q[k + m]
      BY <1>3, <1>5, <2>2, Zenon DEF Range
    <3> QED BY <2>1, <3>1, <3>2, Zenon
  <2> QED BY <2>2
<1> QED
  BY <1>3, <1>5, <1>7, <1>8, <1>9, <1>10

\* Add keeps the ids apart.
LEMMA AddOnce ==
    ASSUME NEW q \in Seq(PacketID), IsInjective(q), NEW id \in PacketID
    PROVE  /\ Add(q, id) \in Seq(PacketID)
           /\ IsInjective(Add(q, id))
           /\ Range(Add(q, id)) = Range(q) \union {id}
<1>1. CASE id \in Range(q)
  BY <1>1, Zenon DEF Add
<1>2. CASE id \notin Range(q)
  BY <1>2, AppendNew, ZenonT(30) DEF Add
<1> QED BY <1>1, <1>2

-----------------------------------------------------------------------------
(* The inductive invariant.  It speaks of one direction at a time: e sends *)
(* chunks, its peer stores and acknowledges them.                          *)

\* The types.
Datagram ==
    [from : Ends, seq : Nat, opcode : {"CONTROL_V1", "ACK_V1"}, acks : SUBSET PacketID,
     packetID : PacketID, payload : Nat]

Payload == {Nil} \union Datagram

Slot == [active : BOOLEAN, packetID : PacketID, payload : Payload]

Entry == [packetID : PacketID, payload : Nat]

Types ==
    /\ load.chunks \in [Ends -> Nat]
    /\ sendSeq \in [Ends -> Nat]
    /\ replay \in [Ends -> replayWindow]
    /\ sendRel \in [Ends -> [Slots -> Slot]]
    /\ packetID \in [Ends -> PacketID]
    /\ writer \in [Ends -> Slots \union {0}]
    /\ written \in [Ends -> Nat]
    /\ recvRel \in [Ends -> [packetID : PacketID, entries : SUBSET Entry]]
    /\ acks \in [Ends -> Seq(PacketID)]
    /\ inbound \in [Ends -> Seq(Datagram)]
    /\ deliverer \in [Ends -> {"idle", "get", "flush"}]
    /\ readBuf \in [Ends -> Seq(Nat)]
    /\ net \in SUBSET Datagram

\* The bounds that TypeOK states besides.
Bounds(e) ==
    /\ written[e] <= load.chunks[e]
    /\ writer[e] # 0 => written[e] < load.chunks[e] /\ sendRel[e][writer[e]].active
    /\ IsFiniteSet(recvRel[e].entries) /\ Cardinality(recvRel[e].entries) <= NRecBuffers
    /\ IsInjective(acks[e])
    /\ Len(inbound[e]) <= inboundQueueSize

\* The datagrams of e in the queue of its peer; those that anything still holds; and
\* those that the peer can still come to act on.
Queued(e) == Range(inbound[Peer(e)])

Known(e) ==
    {d \in net : d.from = e} \union Queued(e)
        \union ({sendRel[e][i].payload : i \in Slots} \ {Nil})

Live(e) == Queued(e) \union {d \in Known(e) : acceptable(replay[Peer(e)], d.seq)}

\* e has chunk n, in its stream or in its receive window.
Has(e, n) == n \in 1 .. Len(readBuf[e]) \/ \E x \in recvRel[e].entries : x.payload = n

\* The active entries of e that hold a datagram, and the number of the chunk of an
\* active entry.
Filled(e) == Active(sendRel[e]) \ {writer[e]}

Top(e) == IF writer[e] = 0 THEN written[e] ELSE written[e] + 1

num(e, i) == IF i = writer[e] THEN written[e] + 1 ELSE sendRel[e][i].payload.payload

\* A sequence number, and a chunk, belong to one datagram.
Wire(e) ==
    /\ \A d \in Known(e) : d.from = e /\ d.seq <= sendSeq[e]
    /\ \A d \in Known(e) : \A f \in Known(e) : d.seq = f.seq => d = f
    /\ \A d \in Known(e) :
          d.opcode = "CONTROL_V1" =>
              /\ d.payload >= 1 /\ d.payload <= written[e]
              /\ d.packetID = (d.payload - 1) % IDSpace
    /\ \A d \in Known(e) : \A f \in Known(e) :
          d.opcode = "CONTROL_V1" /\ f.opcode = "CONTROL_V1" /\ d.payload = f.payload => d = f

\* What is queued is never let in again.
Queue(e) ==
    /\ IsInjective(inbound[Peer(e)])
    /\ Refuses(replay[Peer(e)], {d.seq : d \in Queued(e)})

\* The active entries hold chunks less than a window apart, each under its own id.
Sender(e) ==
    /\ packetID[e] = Top(e) % IDSpace
    /\ \A i \in Filled(e) :
          sendRel[e][i].payload # Nil /\ sendRel[e][i].payload.opcode = "CONTROL_V1"
    /\ \A i \in Active(sendRel[e]) :
          /\ sendRel[e][i].packetID = (num(e, i) - 1) % IDSpace
          /\ num(e, i) \in Nat /\ 1 <= num(e, i) /\ num(e, i) <= Top(e)
          /\ Top(e) < num(e, i) + NSendBuffers
    /\ \A i \in Active(sendRel[e]) : \A j \in Active(sendRel[e]) :
          num(e, i) = num(e, j) => i = j

\* The peer has read the first chunks, and holds some of the next NSendBuffers.
Receiver(e) ==
    /\ Len(readBuf[Peer(e)]) <= written[e]
    /\ \A k \in 1 .. Len(readBuf[Peer(e)]) : readBuf[Peer(e)][k] = k
    /\ recvRel[Peer(e)].packetID = Len(readBuf[Peer(e)]) % IDSpace
    /\ \A x \in recvRel[Peer(e)].entries :
          /\ x.payload > Len(readBuf[Peer(e)])
          /\ x.payload <= Len(readBuf[Peer(e)]) + NSendBuffers
          /\ x.payload <= written[e]
          /\ x.packetID = (x.payload - 1) % IDSpace
          /\ deliverer[Peer(e)] # "get" => x.payload # Len(readBuf[Peer(e)]) + 1

\* A chunk the peer can still store is in the send window, and the peer does not have
\* it; the peer has every chunk that is not in the send window.
Outstanding(e) ==
    /\ \A d \in Live(e) :
          d.opcode = "CONTROL_V1" =>
              /\ \E i \in Filled(e) : sendRel[e][i].payload = d
              /\ ~ Has(Peer(e), d.payload)
    /\ \A n \in Nat :
          1 <= n /\ n <= written[e] =>
              Has(Peer(e), n) \/ \E i \in Filled(e) : sendRel[e][i].payload.payload = n

\* Entry with id x holds a chunk that the peer has.
Stored(e, x) ==
    \E i \in Filled(e) :
        sendRel[e][i].packetID = x /\ Has(Peer(e), sendRel[e][i].payload.payload)

\* An ACK under way is the only one for its id, and its chunk is stored.
Tokens(e) ==
    /\ \A x \in Range(acks[Peer(e)]) : Stored(e, x)
    /\ \A d \in Live(Peer(e)) : \A x \in d.acks : Stored(e, x) /\ x \notin Range(acks[Peer(e)])
    /\ \A d \in Live(Peer(e)) : \A f \in Live(Peer(e)) : \A x \in d.acks : x \in f.acks => d = f

\* All of it for one direction, and the inductive invariant.
Direction(e) ==
    Bounds(e) /\ Wire(e) /\ Queue(e) /\ Sender(e) /\ Receiver(e) /\ Outstanding(e) /\ Tokens(e)

ControlInv == Types /\ \A e \in Ends : Direction(e)

-----------------------------------------------------------------------------
(* What each part of the invariant depends on.                             *)

\* A step leaves e's send window, or its receive window and stream, as they are.
SenderSame(e) ==
    /\ sendRel'[e] = sendRel[e] /\ packetID'[e] = packetID[e]
    /\ writer'[e] = writer[e] /\ written'[e] = written[e]

ReceiverSame(e) ==
    /\ readBuf'[e] = readBuf[e] /\ recvRel'[e] = recvRel[e] /\ deliverer'[e] = deliverer[e]

\* Nothing becomes known that was not.
LEMMA KnownKept ==
    ASSUME NEW e \in Ends,
           \A d \in net' : d.from = e => d \in Known(e),
           Queued(e)' \subseteq Known(e),
           \A i \in Slots : sendRel'[e][i].payload \in Known(e) \union {Nil}
    PROVE  Known(e)' \subseteq Known(e)
BY Zenon DEF Known

\* What could not be acted on cannot be acted on now.
LEMMA LiveKept ==
    ASSUME NEW e \in Ends, Known(e)' \subseteq Known(e), Queued(e)' = Queued(e),
           replay'[Peer(e)] = replay[Peer(e)]
    PROVE  Live(e)' \subseteq Live(e)
BY Zenon DEF Live

\* Bounds depends on the end alone.
LEMMA BoundsKept ==
    ASSUME NEW e \in Ends, Bounds(e), SenderSame(e), load' = load,
           recvRel'[e] = recvRel[e], acks'[e] = acks[e], inbound'[e] = inbound[e]
    PROVE  Bounds(e)'
BY Zenon DEF Bounds, SenderSame

\* Wire speaks of what is known, the counter and the number of chunks.
LEMMA WireKept ==
    ASSUME NEW e \in Ends, Wire(e), Known(e)' \subseteq Known(e),
           sendSeq'[e] = sendSeq[e], written'[e] = written[e]
    PROVE  Wire(e)'
BY Zenon DEF Wire

\* Queue speaks of the peer's queue and its replay window.
LEMMA QueueKept ==
    ASSUME NEW e \in Ends, Queue(e), inbound'[Peer(e)] = inbound[Peer(e)],
           replay'[Peer(e)] = replay[Peer(e)]
    PROVE  Queue(e)'
BY Zenon DEF Queue, Queued

\* Sender speaks of the send window alone.
LEMMA SenderKept ==
    ASSUME NEW e \in Ends, Sender(e), SenderSame(e)
    PROVE  Sender(e)'
<1>1. Active(sendRel[e])' = Active(sendRel[e]) /\ Filled(e)' = Filled(e) /\ Top(e)' = Top(e)
  BY Zenon DEF Filled, Active, Top, SenderSame
<1>2. \A i : num(e, i)' = num(e, i)
  BY Zenon DEF num, SenderSame
<1> QED
  BY <1>1, <1>2, ZenonT(30) DEF Sender, SenderSame

\* Receiver speaks of the peer's receive window and stream, and of written.
LEMMA ReceiverKept ==
    ASSUME NEW e \in Ends, Receiver(e), ReceiverSame(Peer(e)), written'[e] = written[e]
    PROVE  Receiver(e)'
BY Zenon DEF Receiver, ReceiverSame

\* Has speaks of the receive window and the stream.
LEMMA HasKept ==
    ASSUME NEW e \in Ends, ReceiverSame(e), NEW n
    PROVE  Has(e, n)' <=> Has(e, n)
BY Zenon DEF ReceiverSame, Has

\* Outstanding holds on with fewer datagrams that can be acted on.
LEMMA OutstandingKept ==
    ASSUME NEW e \in Ends, Outstanding(e), SenderSame(e), Live(e)' \subseteq Live(e),
           \A n : Has(Peer(e), n)' <=> Has(Peer(e), n)
    PROVE  Outstanding(e)'
<1>1. Filled(e)' = Filled(e)
  BY Zenon DEF Filled, Active, SenderSame
<1> QED
  BY <1>1, Zenon DEF Outstanding, SenderSame

\* Stored speaks of the send window and of what the peer has.
LEMMA StoredKept ==
    ASSUME NEW e \in Ends, SenderSame(e), \A n : Has(Peer(e), n)' <=> Has(Peer(e), n), NEW x
    PROVE  Stored(e, x)' <=> Stored(e, x)
<1>1. Filled(e)' = Filled(e)
  BY Zenon DEF Filled, Active, SenderSame
<1> QED
  BY <1>1, Zenon DEF Stored, SenderSame

\* Tokens holds on with fewer datagrams that can be acted on.
LEMMA TokensKept ==
    ASSUME NEW e \in Ends, Tokens(e), SenderSame(e), Live(Peer(e))' \subseteq Live(Peer(e)),
           acks'[Peer(e)] = acks[Peer(e)],
           \A n : Has(Peer(e), n)' <=> Has(Peer(e), n)
    PROVE  Tokens(e)'
<1>1. \A x : Stored(e, x)' <=> Stored(e, x)
  BY StoredKept
<1> QED
  BY <1>1, Zenon DEF Tokens

-----------------------------------------------------------------------------
(* Steps that only add copies of known datagrams to the network, or lose   *)
(* some.                                                                   *)

\* Retransmit, Lose and Close preserve the invariant.
LEMMA NetworkStep ==
    ASSUME ControlInv, UNCHANGED <<load, sendSeq, acks, sendVars, recvVars, wireVars>>,
           net' \subseteq Datagram,
           \A d \in net' : d \in Known(d.from)
    PROVE  ControlInv'
<1>0. /\ sendRel' = sendRel /\ packetID' = packetID /\ writer' = writer /\ written' = written
      /\ readBuf' = readBuf /\ recvRel' = recvRel /\ deliverer' = deliverer
      /\ replay' = replay /\ inbound' = inbound /\ load' = load /\ sendSeq' = sendSeq /\ acks' = acks
  BY DEF sendVars, recvVars, wireVars
<1>1. Types'
  BY <1>0 DEF ControlInv, Types
<1>2. ASSUME NEW e \in Ends
      PROVE  SenderSame(e) /\ ReceiverSame(e) /\ Queued(e)' = Queued(e) /\ Known(e)' \subseteq Known(e)
  <2>1. SenderSame(e) /\ ReceiverSame(e) /\ Queued(e)' = Queued(e)
    BY <1>0, Zenon DEF SenderSame, ReceiverSame, Queued
  <2>2. Queued(e)' \subseteq Known(e)
    BY <2>1, Zenon DEF Known
  <2>3. \A i \in Slots : sendRel'[e][i].payload \in Known(e) \union {Nil}
    BY <1>0, Zenon DEF Known
  <2>4. Known(e)' \subseteq Known(e)
    BY <2>2, <2>3, KnownKept, Zenon
  <2> QED BY <2>1, <2>4
<1>3. ASSUME NEW e \in Ends
      PROVE  Live(e)' \subseteq Live(e)
  BY <1>0, <1>2, LiveKept, Zenon
<1>4. ASSUME NEW e \in Ends
      PROVE  Direction(e)'
  <2>1. Direction(e) /\ Peer(e) \in Ends
    BY Peers DEF ControlInv
  <2>2. SenderSame(e) /\ ReceiverSame(e) /\ ReceiverSame(Peer(e)) /\ Known(e)' \subseteq Known(e)
        /\ Live(e)' \subseteq Live(e) /\ Live(Peer(e))' \subseteq Live(Peer(e))
        /\ recvRel'[e] = recvRel[e] /\ written'[e] = written[e]
    BY <1>0, <1>2, <1>3, <2>1, Zenon
  <2>3. \A n : Has(Peer(e), n)' <=> Has(Peer(e), n)
    BY <2>1, <2>2, HasKept, Zenon
  <2>4. Bounds(e)' /\ Wire(e)' /\ Queue(e)'
    BY <1>0, <2>1, <2>2, BoundsKept, WireKept, QueueKept, Zenon DEF Direction
  <2>5. Sender(e)' /\ Receiver(e)'
    BY <1>0, <2>1, <2>2, SenderKept, ReceiverKept, Zenon DEF Direction
  <2>6. Outstanding(e)' /\ Tokens(e)'
    BY <1>0, <2>1, <2>2, <2>3, OutstandingKept, TokensKept, Zenon DEF Direction
  <2> QED
    BY <2>4, <2>5, <2>6, Zenon DEF Direction
<1> QED
  BY <1>1, <1>4, Zenon DEF ControlInv

-----------------------------------------------------------------------------
(* A datagram arrives.                                                     *)

\* What a replay window refuses it refuses after the next accept.
LEMMA StillRefused ==
    ASSUME NEW w \in replayWindow, NEW seq \in Nat, acceptable(w, seq), NEW a \in Nat,
           ~ acceptable(w, a)
    PROVE  ~ acceptable(accepted(w, seq), a)
<1>1. w.init /\ Refuses(w, {a})
  BY DEF Refuses, acceptable
<1>2. Refuses(accepted(w, seq), {a} \union {seq})
  BY <1>1, NothingTwice
<1> QED
  BY <1>2 DEF Refuses

\* handleDatagram preserves the invariant: a datagram the replay window lets in becomes
\* one that it refuses, whether the queue takes or drops it.
LEMMA ReceiveStep ==
    ASSUME ControlInv, NEW d \in net, Receive(d), load' = load
    PROVE  ControlInv'
<1> DEFINE e == d.from
           p == Peer(e)
<1>0. /\ sendRel' = sendRel /\ packetID' = packetID /\ writer' = writer /\ written' = written
      /\ readBuf' = readBuf /\ recvRel' = recvRel /\ deliverer' = deliverer
      /\ sendSeq' = sendSeq /\ acks' = acks
  BY DEF Receive, sendVars, recvVars
<1>1. d \in Datagram /\ e \in Ends /\ p \in Ends /\ Peer(p) = e /\ p # e /\ d.seq \in Nat
  BY Peers, SMTT(30) DEF ControlInv, Types, Datagram
<1>2. d \in Known(e)
  BY Zenon DEF Known
<1>3. replay[p] \in replayWindow /\ inbound[p] \in Seq(Datagram)
  BY <1>1 DEF ControlInv, Types
<1>4. net' \subseteq net
  BY DEF Receive
<1>5. \/ replay' = replay /\ inbound' = inbound
      \/ /\ acceptable(replay[p], d.seq)
         /\ replay' = [replay EXCEPT ![p] = accepted(@, d.seq)]
         /\ \/ inbound' = inbound
            \/ /\ inbound' = [inbound EXCEPT ![p] = Append(@, d)]
               /\ Len(inbound[p]) < inboundQueueSize
  <2>1. Len(inbound[p]) \in Nat /\ inboundQueueSize \in Nat
    BY <1>3, LoadsAssumption
  <2>2. Len(inbound[p]) >= inboundQueueSize \/ Len(inbound[p]) < inboundQueueSize
    BY <2>1
  <2> QED BY <2>2, Zenon DEF Receive, unwraps
<1> HIDE DEF e, p
<1>6. /\ replay' \in [Ends -> replayWindow] /\ inbound' \in [Ends -> Seq(Datagram)]
      /\ replay'[e] = replay[e] /\ inbound'[e] = inbound[e]
  <2>1. acceptable(replay[p], d.seq) => accepted(replay[p], d.seq) \in replayWindow
    BY <1>1, <1>3, AcceptedTypes
  <2>2. Append(inbound[p], d) \in Seq(Datagram)
    BY <1>1, <1>3, SMTT(30)
  <2>3. replay \in [Ends -> replayWindow] /\ inbound \in [Ends -> Seq(Datagram)]
    BY DEF ControlInv, Types
  <2>4. replay' \in [Ends -> replayWindow] /\ replay'[e] = replay[e]
    BY <1>1, <1>5, <2>1, <2>3
  <2>5. inbound' \in [Ends -> Seq(Datagram)] /\ inbound'[e] = inbound[e]
    BY <1>1, <1>5, <2>2, <2>3, Zenon
  <2> QED BY <2>4, <2>5, SMTT(30)
<1>7. Types'
  BY <1>0, <1>4, <1>6, SMTT(30) DEF ControlInv, Types
<1>8. Direction(e) /\ Direction(p)
  BY <1>1, SMTT(30) DEF ControlInv
<1>9. /\ \/ replay'[p] = replay[p] /\ inbound'[p] = inbound[p]
         \/ /\ acceptable(replay[p], d.seq)
            /\ replay'[p] = accepted(replay[p], d.seq)
            /\ \/ inbound'[p] = inbound[p]
               \/ /\ inbound'[p] = Append(inbound[p], d)
                  /\ Len(inbound[p]) < inboundQueueSize
  BY <1>1, <1>5, SMTT(30) DEF ControlInv, Types
<1>10. IsInjective(inbound[p]) /\ \A f \in Queued(e) : f.seq \in Nat /\ ~ acceptable(replay[p], f.seq)
  <2>1. IsInjective(inbound[p]) /\ \A f \in Queued(e) : ~ acceptable(replay[p], f.seq)
    BY <1>8, Zenon DEF Direction, Queue, Refuses, p
  <2>2. \A f \in Queued(e) : f \in Datagram
    BY <1>3 DEF Queued, p, Range
  <2>3. \A f \in Datagram : f.seq \in Nat
    BY SMTT(30) DEF Datagram
  <2> QED BY <2>1, <2>2, <2>3
<1>11. /\ inbound'[p] # inbound[p] =>
             /\ acceptable(replay[p], d.seq) /\ Queued(e)' = Queued(e) \union {d} /\ IsInjective(inbound'[p])
             /\ Len(inbound'[p]) <= inboundQueueSize
       /\ inbound'[p] = inbound[p] => Queued(e)' = Queued(e)
  <2>1. inbound'[p] = inbound[p] => Queued(e)' = Queued(e)
    BY Zenon DEF Queued, p
  <2>2. ASSUME inbound'[p] # inbound[p]
        PROVE  /\ acceptable(replay[p], d.seq) /\ Queued(e)' = Queued(e) \union {d} /\ IsInjective(inbound'[p])
               /\ Len(inbound'[p]) <= inboundQueueSize
    <3>1. acceptable(replay[p], d.seq) /\ inbound'[p] = Append(inbound[p], d) /\ Len(inbound[p]) < inboundQueueSize
      BY <1>9, <2>2, Zenon
    <3>2. d \notin Range(inbound[p])
      BY <1>10, <3>1, Zenon DEF Queued, p
    <3>3. IsInjective(inbound'[p]) /\ Range(inbound'[p]) = Range(inbound[p]) \union {d}
      <4>1. /\ IsInjective(Append(inbound[p], d))
            /\ Range(Append(inbound[p], d)) = Range(inbound[p]) \union {d}
        BY <1>1, <1>3, <1>10, <3>2, AppendNew, SMTT(30)
      <4> QED BY <3>1, <4>1, Zenon
    <3>4. Len(Append(inbound[p], d)) <= inboundQueueSize
      BY <1>1, <1>3, <3>1, LoadsAssumption
    <3> QED
      BY <3>1, <3>3, <3>4, Zenon DEF Queued, p
  <2> QED BY <2>1, <2>2
<1>12. Known(e)' \subseteq Known(e)
  <2>1. Queued(e)' \subseteq Known(e)
    BY <1>2, <1>11, Zenon DEF Known
  <2>2. \A f \in net' : f.from = e => f \in Known(e)
    BY <1>4, Zenon DEF Known
  <2>3. \A i \in Slots : sendRel'[e][i].payload \in Known(e) \union {Nil}
    BY <1>0, Zenon DEF Known
  <2> QED BY <1>1, <2>1, <2>2, <2>3, KnownKept, Zenon
<1>13. Known(p)' \subseteq Known(p) /\ Live(p)' \subseteq Live(p) /\ Queued(p)' = Queued(p)
  <2>1. Queued(p)' = Queued(p) /\ replay'[Peer(p)] = replay[Peer(p)]
    BY <1>1, <1>6, Zenon DEF Queued
  <2>2. \A f \in net' : f.from = p => f \in Known(p)
    BY <1>4, Zenon DEF Known
  <2>3. \A i \in Slots : sendRel'[p][i].payload \in Known(p) \union {Nil}
    BY <1>0, Zenon DEF Known
  <2>4. Queued(p)' \subseteq Known(p)
    BY <2>1, Zenon DEF Known
  <2>5. Known(p)' \subseteq Known(p)
    BY <1>1, <2>2, <2>3, <2>4, KnownKept, Zenon
  <2> QED BY <1>1, <2>1, <2>5, LiveKept, Zenon
<1>14. \A f \in Known(e) : f.seq \in Nat
  <2>1. \A f \in Known(e) : f \in Datagram
    <3>1. \A i \in Slots : sendRel[e][i].payload \in Datagram \union {Nil}
      BY <1>1, SMTT(30) DEF ControlInv, Types, Slot, Payload
    <3>2. net \subseteq Datagram /\ Queued(e) \subseteq Datagram
      BY <1>3 DEF ControlInv, Types, Queued, Range, p
    <3> QED BY <3>1, <3>2, Zenon DEF Known
  <2>2. \A f \in Datagram : f.seq \in Nat
    BY DEF Datagram
  <2> QED BY <2>1, <2>2, Zenon
<1>15. \A f \in Known(e) : ~ acceptable(replay[p], f.seq) => ~ acceptable(replay'[p], f.seq)
  BY <1>1, <1>3, <1>9, <1>14, StillRefused, Zenon
<1>16. Live(e)' \subseteq Live(e)
  <2>1. Queued(e)' \subseteq Live(e)
    BY <1>2, <1>11, Zenon DEF Live, p
  <2>2. ASSUME NEW f \in Known(e)', acceptable(replay'[p], f.seq) PROVE f \in Live(e)
    BY <1>12, <1>15, <2>2, Zenon DEF Live, p
  <2> QED BY <2>1, <2>2, Zenon DEF Live, p
<1>17. Queue(e)'
  <2>1. IsInjective(inbound'[p])
    BY <1>10, <1>11, Zenon
  <2>2. CASE replay'[p] = replay[p] /\ inbound'[p] = inbound[p]
    BY <1>1, <1>8, <2>2, QueueKept, Zenon DEF Direction, p
  <2>3. CASE acceptable(replay[p], d.seq) /\ replay'[p] = accepted(replay[p], d.seq)
    <3> DEFINE S == {f.seq : f \in Queued(e)}
    <3>1. S \in SUBSET Nat /\ Refuses(replay[p], S)
      BY <1>8, <1>10, Zenon DEF Direction, Queue, p
    <3>2. Refuses(replay'[p], S \union {d.seq})
      <4> HIDE DEF S
      <4>1. Refuses(accepted(replay[p], d.seq), S \union {d.seq})
        BY <1>1, <1>3, <2>3, <3>1, NothingTwice
      <4> QED BY <2>3, <4>1, Zenon
    <3>3. {f.seq : f \in Queued(e)'} \subseteq S \union {d.seq}
      BY <1>11, Zenon
    <3>4. replay'[p].init
      BY <2>3 DEF accepted
    <3>5. Refuses(replay'[p], {f.seq : f \in Queued(e)'})
      <4> HIDE DEF S
      <4> QED BY <3>2, <3>3, <3>4, Zenon DEF Refuses
    <3> QED BY <2>1, <3>5, Zenon DEF Queue, p
  <2> QED BY <1>9, <2>2, <2>3, Zenon
<1>18. /\ SenderSame(e) /\ SenderSame(p) /\ ReceiverSame(e) /\ ReceiverSame(p)
       /\ \A n : Has(e, n)' <=> Has(e, n)
       /\ \A n : Has(p, n)' <=> Has(p, n)
  <2>1. SenderSame(e) /\ SenderSame(p) /\ ReceiverSame(e) /\ ReceiverSame(p)
    BY <1>0, Zenon DEF SenderSame, ReceiverSame
  <2> QED BY <1>1, <2>1, HasKept, Zenon
<1>19. Direction(e)'
  <2>1. Bounds(e)' /\ Wire(e)'
    BY <1>0, <1>1, <1>6, <1>8, <1>12, <1>18, BoundsKept, WireKept, Zenon DEF Direction
  <2>2. Sender(e)' /\ Receiver(e)'
    BY <1>0, <1>1, <1>8, <1>18, SenderKept, ReceiverKept, Zenon DEF Direction, p
  <2>3. Outstanding(e)' /\ Tokens(e)'
    BY <1>0, <1>1, <1>8, <1>13, <1>16, <1>18, OutstandingKept, TokensKept, Zenon DEF Direction, p
  <2> QED BY <1>17, <2>1, <2>2, <2>3, Zenon DEF Direction
<1>20. Direction(p)'
  <2>1. Bounds(p)'
    BY <1>0, <1>8, <1>11, Zenon DEF Direction, Bounds
  <2>2. Wire(p)' /\ Queue(p)'
    BY <1>0, <1>1, <1>6, <1>8, <1>13, <1>18, WireKept, QueueKept, Zenon DEF Direction
  <2>3. Sender(p)' /\ Receiver(p)'
    BY <1>0, <1>1, <1>8, <1>18, SenderKept, ReceiverKept, Zenon DEF Direction
  <2>4. Outstanding(p)' /\ Tokens(p)'
    BY <1>0, <1>1, <1>8, <1>13, <1>16, <1>18, OutstandingKept, TokensKept, Zenon DEF Direction
  <2> QED BY <2>1, <2>2, <2>3, <2>4, Zenon DEF Direction
<1>21. \A g \in Ends : g = e \/ g = p
  BY <1>1 DEF Ends
<1> QED
  BY <1>7, <1>19, <1>20, <1>21, Zenon DEF ControlInv

-----------------------------------------------------------------------------
(* Sending.                                                                *)

\* A larger set of filled entries keeps the ACKs under way.
LEMMA TokensStay ==
    ASSUME NEW e \in Ends, Tokens(e), Live(Peer(e))' \subseteq Live(Peer(e)),
           acks'[Peer(e)] = acks[Peer(e)],
           \A x : Stored(e, x) => Stored(e, x)'
    PROVE  Tokens(e)'
BY Zenon DEF Tokens

\* SetPayload fills one entry and leaves the others.
LEMMA FilledSlots ==
    ASSUME NEW slots \in [Slots -> Slot], NEW d \in Datagram, NEW i \in Slots
    PROVE  LET filled == SetPayload(slots, i, d)
           IN  /\ filled \in [Slots -> Slot]
               /\ \A j \in Slots : j # i => filled[j] = slots[j]
               /\ filled[i].active = slots[i].active /\ filled[i].packetID = slots[i].packetID
               /\ filled[i].payload = d
<1>1. slots[i] \in Slot /\ d \in Payload
  BY DEF Payload
<1>2. PICK s : s = [slots[i] EXCEPT !.payload = d]
  BY Zenon
<1>3. /\ s \in Slot /\ s.active = slots[i].active /\ s.packetID = slots[i].packetID
      /\ s.payload = d
  BY <1>1, <1>2 DEF Slot
<1>4. SetPayload(slots, i, d) = [slots EXCEPT ![i] = s]
  BY <1>2 DEF SetPayload
<1> QED
  BY <1>3, <1>4

\* Whatever is known of is a datagram.
LEMMA KnownTypes ==
    ASSUME NEW e \in Ends, Types
    PROVE  Known(e) \subseteq Datagram
<1>1. \A i \in Slots : sendRel[e][i].payload \in Datagram \union {Nil}
  BY DEF Types, Slot, Payload
<1>2. Peer(e) \in Ends
  BY Peers
<1>3. net \subseteq Datagram /\ Queued(e) \subseteq Datagram
  BY <1>2, SMTT(30) DEF Types, Queued, Range
<1> QED
  BY <1>1, <1>3, Zenon DEF Known

\* A datagram under the next sequence number.
LEMMA WireGrows ==
    ASSUME NEW e \in Ends, Types, Wire(e), NEW d \in Datagram,
           Known(e)' \subseteq Known(e) \union {d},
           d.from = e, d.seq = sendSeq[e] + 1, sendSeq'[e] = sendSeq[e] + 1,
           written'[e] = written[e] \/ written'[e] = written[e] + 1,
           d.opcode = "CONTROL_V1" =>
               /\ d.payload = written[e] + 1 /\ written'[e] = written[e] + 1
               /\ d.packetID = (d.payload - 1) % IDSpace
    PROVE  Wire(e)'
<1>1. sendSeq[e] \in Nat /\ written[e] \in Nat
  BY DEF Types
<1>2. \A f \in Known(e) : f.seq \in Nat /\ f.payload \in Nat
  <2>1. Known(e) \subseteq Datagram
    BY KnownTypes
  <2>2. \A f \in Datagram : f.seq \in Nat /\ f.payload \in Nat
    BY DEF Datagram
  <2> QED BY <2>1, <2>2
<1>3. ASSUME NEW f \in Known(e)
      PROVE  /\ f.from = e /\ f.seq <= sendSeq'[e] /\ f.seq # d.seq
             /\ f.opcode = "CONTROL_V1" =>
                   /\ f.payload >= 1 /\ f.payload <= written'[e]
                   /\ f.packetID = (f.payload - 1) % IDSpace
                   /\ f.payload # written[e] + 1
  <2>1. /\ f.from = e /\ f.seq <= sendSeq[e]
        /\ f.opcode = "CONTROL_V1" =>
              /\ f.payload >= 1 /\ f.payload <= written[e]
              /\ f.packetID = (f.payload - 1) % IDSpace
    BY Zenon DEF Wire
  <2>2. f.seq \in Nat /\ f.payload \in Nat
    BY <1>2
  <2>3. f.seq <= sendSeq'[e] /\ f.seq # d.seq
    BY <1>1, <2>1, <2>2
  <2>4. f.opcode = "CONTROL_V1" => f.payload <= written'[e] /\ f.payload # written[e] + 1
    BY <1>1, <2>1, <2>2
  <2> QED BY <2>1, <2>3, <2>4, Zenon
<1>4. d.seq <= sendSeq'[e] /\ (d.opcode = "CONTROL_V1" => d.payload >= 1 /\ d.payload <= written'[e])
  BY <1>1
<1>5. \A f \in Known(e)' : f \in Known(e) \/ f = d
  BY Zenon
<1>6. \A f \in Known(e)' : f.from = e /\ f.seq <= sendSeq'[e]
  BY <1>3, <1>4, <1>5, Zenon
<1>7. \A f \in Known(e)' : \A g \in Known(e)' : f.seq = g.seq => f = g
  BY <1>3, <1>5, Zenon DEF Wire
<1>8. \A f \in Known(e)' :
         f.opcode = "CONTROL_V1" =>
             /\ f.payload >= 1 /\ f.payload <= written'[e]
             /\ f.packetID = (f.payload - 1) % IDSpace
  BY <1>3, <1>4, <1>5, Zenon
<1>9. \A f \in Known(e)' : \A g \in Known(e)' :
         f.opcode = "CONTROL_V1" /\ g.opcode = "CONTROL_V1" /\ f.payload = g.payload => f = g
  <2> SUFFICES ASSUME NEW f \in Known(e)', NEW g \in Known(e)',
                      f.opcode = "CONTROL_V1", g.opcode = "CONTROL_V1", f.payload = g.payload
               PROVE  f = g
    OBVIOUS
  <2>1. CASE f \in Known(e) /\ g \in Known(e)
    BY <2>1, Zenon DEF Wire
  <2>2. CASE f = d \/ g = d
    BY <1>3, <1>5, <2>2, Zenon
  <2> QED BY <1>5, <2>1, <2>2, Zenon
<1> QED
  BY <1>6, <1>7, <1>8, <1>9, Zenon DEF Wire

\* buildControlPacket moves ACKs of p from the pending set into a datagram.
LEMMA TokensMove ==
    ASSUME NEW e \in Ends, NEW p \in Ends, p = Peer(e), Types, Tokens(e), IsInjective(acks[p]),
           NEW d, d.acks = Range(drained(acks[p])), acks'[p] = remaining(acks[p]),
           Live(p)' \subseteq Live(p) \union {d},
           \A x : Stored(e, x)' <=> Stored(e, x)
    PROVE  Tokens(e)'
<1>1. acks[p] \in Seq(PacketID)
  BY SMTT(30) DEF Types
<1>2. /\ Range(drained(acks[p])) \subseteq Range(acks[p])
      /\ Range(remaining(acks[p])) \subseteq Range(acks[p])
      /\ Range(drained(acks[p])) \intersect Range(remaining(acks[p])) = {}
  BY <1>1, DrainSplits
<1>3. /\ \A x \in d.acks : x \in Range(acks[p]) /\ x \notin Range(acks'[p])
      /\ \A x \in Range(acks'[p]) : x \in Range(acks[p])
  BY <1>2, Zenon
<1>4. /\ \A x \in Range(acks[p]) : Stored(e, x)
      /\ \A f \in Live(p) : \A x \in f.acks : Stored(e, x) /\ x \notin Range(acks[p])
      /\ \A f \in Live(p) : \A g \in Live(p) : \A x \in f.acks : x \in g.acks => f = g
  BY Zenon DEF Tokens
<1>5. \A f \in Live(p)' : f \in Live(p) \/ f = d
  BY Zenon
<1>6. \A x \in Range(acks'[p]) : Stored(e, x)'
  BY <1>3, <1>4, Zenon
<1>7. ASSUME NEW f \in Live(p)', NEW x \in f.acks
      PROVE  Stored(e, x)' /\ x \notin Range(acks'[p])
  <2>1. CASE f \in Live(p)
    BY <1>3, <1>4, <2>1, Zenon
  <2>2. CASE f = d
    BY <1>3, <1>4, <2>2, Zenon
  <2> QED BY <1>5, <2>1, <2>2, Zenon
<1>8. ASSUME NEW f \in Live(p)', NEW g \in Live(p)', NEW x \in f.acks, x \in g.acks
      PROVE  f = g
  <2>1. CASE f \in Live(p) /\ g \in Live(p)
    BY <1>4, <1>8, <2>1, Zenon
  <2>2. CASE f = d \/ g = d
    BY <1>3, <1>4, <1>5, <1>8, <2>2, Zenon
  <2> QED BY <1>5, <2>1, <2>2, Zenon
<1> QED
  BY <1>6, <1>7, <1>8, Zenon DEF Tokens

\* What building and transmitting datagram d of a does to both directions.
Built(a, d) ==
    /\ d \in Datagram /\ d.from = a /\ d.seq = sendSeq[a] + 1
    /\ d.acks = Range(drained(acks[a])) /\ acks'[a] = remaining(acks[a])
    /\ sendSeq'[a] = sendSeq[a] + 1 /\ sendSeq'[Peer(a)] = sendSeq[Peer(a)]
    /\ acks'[Peer(a)] = acks[Peer(a)]
    /\ sendSeq' \in [Ends -> Nat] /\ acks' \in [Ends -> Seq(PacketID)]
    /\ IsInjective(acks'[a])
    /\ net' \subseteq Datagram /\ \A f \in net' : f \in net \/ f = d

\* buildControlPacket and transmit have these effects.
LEMMA BuildEffects ==
    ASSUME ControlInv, NEW a \in Ends, NEW opcode \in {"CONTROL_V1", "ACK_V1"},
           NEW id \in PacketID, NEW payload \in Nat, NEW d, d = controlPacket(a, opcode, id, payload),
           buildControlPacket(a), transmit(d)
    PROVE  Built(a, d) /\ d.opcode = opcode /\ d.packetID = id /\ d.payload = payload
<1>1. Types /\ Direction(a) /\ Peer(a) \in Ends /\ Peer(a) # a
  BY Peers, SMTT(30) DEF ControlInv
<1>2. /\ sendSeq \in [Ends -> Nat] /\ acks \in [Ends -> Seq(PacketID)]
      /\ IsInjective(acks[a]) /\ net \subseteq Datagram
  BY <1>1, Zenon DEF Types, Direction, Bounds
<1>3. /\ remaining(acks[a]) \in Seq(PacketID) /\ IsInjective(remaining(acks[a]))
      /\ Range(drained(acks[a])) \in SUBSET PacketID
  BY <1>2, DrainSplits, SMTT(30)
<1>4. /\ d.from = a /\ d.seq = sendSeq[a] + 1 /\ d.opcode = opcode /\ d.packetID = id
      /\ d.payload = payload /\ d.acks = Range(drained(acks[a]))
  BY DEF controlPacket
<1>5. d \in Datagram
  <2>1. PICK ids : ids = Range(drained(acks[a]))
    OBVIOUS
  <2>2. ids \in SUBSET PacketID /\ sendSeq[a] + 1 \in Nat
    BY <1>2, <1>3, <2>1, SMTT(30)
  <2>3. d = [from |-> a, seq |-> sendSeq[a] + 1, opcode |-> opcode, acks |-> ids,
             packetID |-> id, payload |-> payload]
    BY <2>1 DEF controlPacket
  <2> QED BY <2>2, <2>3 DEF Datagram
<1>6. /\ acks'[a] = remaining(acks[a]) /\ acks'[Peer(a)] = acks[Peer(a)]
      /\ acks' \in [Ends -> Seq(PacketID)]
  BY <1>1, <1>2, <1>3 DEF buildControlPacket
<1>7. /\ sendSeq'[a] = sendSeq[a] + 1 /\ sendSeq'[Peer(a)] = sendSeq[Peer(a)]
      /\ sendSeq' \in [Ends -> Nat]
  BY <1>1, <1>2 DEF buildControlPacket
<1>8. net' = net \union {d}
  BY DEF transmit
<1>9. net' \subseteq Datagram /\ \A f \in net' : f \in net \/ f = d
  BY <1>2, <1>5, <1>8
<1>10. IsInjective(acks'[a])
  BY <1>3, <1>6
<1> QED
  BY <1>4, <1>5, <1>6, <1>7, <1>9, <1>10, Zenon DEF Built

\* The rest of writeChunk preserves the invariant: the new datagram takes the pending
\* ACKs with it, and its chunk is outstanding.
LEMMA SendStep ==
    ASSUME ControlInv, NEW a \in Ends, SendChunk(a), load' = load
    PROVE  ControlInv'
<1>0. /\ packetID' = packetID /\ readBuf' = readBuf /\ recvRel' = recvRel
      /\ deliverer' = deliverer /\ replay' = replay /\ inbound' = inbound
  BY DEF SendChunk, recvVars, wireVars
<1>1. PICK p : p = Peer(a)
  OBVIOUS
<1>2. p \in Ends /\ p # a /\ Peer(p) = a /\ Direction(a) /\ Direction(p) /\ Types
  BY <1>1, Peers DEF ControlInv
<1>3. PICK i : i = writer[a]
  OBVIOUS
<1>4. /\ i # 0 /\ i \in Slots /\ sendRel[a][i].active /\ written[a] < load.chunks[a]
      /\ written[a] \in Nat /\ load.chunks[a] \in Nat /\ sendRel[a] \in [Slots -> Slot]
      /\ sendRel[a][i].packetID \in PacketID
  <2>1. i # 0 /\ i \in Slots /\ sendRel[a][i].active /\ written[a] < load.chunks[a]
    BY <1>2, <1>3, ZenonT(30) DEF SendChunk, Types, Direction, Bounds
  <2>2. written[a] \in Nat /\ load.chunks[a] \in Nat /\ sendRel[a] \in [Slots -> Slot]
    BY <1>2, SMTT(30) DEF Types
  <2> QED BY <2>1, <2>2, SMTT(30) DEF Slot
<1>5. PICK d : d = controlPacket(a, "CONTROL_V1", sendRel[a][i].packetID, written[a] + 1)
  OBVIOUS
<1>6. /\ sendRel' = [sendRel EXCEPT ![a] = SetPayload(@, i, d)]
      /\ transmit(d) /\ buildControlPacket(a)
      /\ writer' = [writer EXCEPT ![a] = 0]
      /\ written' = [written EXCEPT ![a] = @ + 1]
  BY <1>3, <1>5, SMTT(30) DEF SendChunk
<1>7. /\ d \in Datagram /\ d.from = a /\ d.seq = sendSeq[a] + 1
      /\ d.opcode = "CONTROL_V1" /\ d.packetID = sendRel[a][i].packetID
      /\ d.payload = written[a] + 1
      /\ d.acks = Range(drained(acks[a])) /\ acks'[a] = remaining(acks[a])
      /\ sendSeq'[a] = sendSeq[a] + 1 /\ sendSeq'[p] = sendSeq[p] /\ acks'[p] = acks[p]
      /\ sendSeq' \in [Ends -> Nat] /\ acks' \in [Ends -> Seq(PacketID)]
      /\ IsInjective(acks'[a])
      /\ net' \subseteq Datagram /\ \A f \in net' : f \in net \/ f = d
  <2>1. written[a] + 1 \in Nat /\ "CONTROL_V1" \in {"CONTROL_V1", "ACK_V1"}
    BY <1>4, SMTT(30)
  <2>2. Built(a, d) /\ d.opcode = "CONTROL_V1" /\ d.packetID = sendRel[a][i].packetID
        /\ d.payload = written[a] + 1
    BY <1>4, <1>5, <1>6, <2>1, BuildEffects, SMTT(30)
  <2> QED BY <1>1, <2>2, Zenon DEF Built
<1>8. /\ sendRel'[p] = sendRel[p] /\ writer'[p] = writer[p] /\ written'[p] = written[p]
      /\ writer'[a] = 0 /\ written'[a] = written[a] + 1
      /\ sendRel'[a] = SetPayload(sendRel[a], i, d)
  BY <1>2, <1>6 DEF Types
<1>9. /\ \A j \in Slots : j # i => sendRel'[a][j] = sendRel[a][j]
      /\ sendRel'[a] \in [Slots -> Slot]
      /\ sendRel'[a][i].active = sendRel[a][i].active
      /\ sendRel'[a][i].packetID = sendRel[a][i].packetID
      /\ sendRel'[a][i].payload = d
  <2>1. PICK filled : filled = SetPayload(sendRel[a], i, d)
    BY SMTT(30)
  <2>2. /\ filled \in [Slots -> Slot]
        /\ \A j \in Slots : j # i => filled[j] = sendRel[a][j]
        /\ filled[i].active = sendRel[a][i].active
        /\ filled[i].packetID = sendRel[a][i].packetID /\ filled[i].payload = d
    <3>1. sendRel[a] \in [Slots -> Slot] /\ d \in Datagram /\ i \in Slots
      BY <1>4, <1>7, SMTT(30)
    <3> QED BY <2>1, <3>1, FilledSlots, SMTT(30)
  <2> QED BY <1>8, <2>1, <2>2, Zenon
<1>10. Types'
  <2>1. sendRel' \in [Ends -> [Slots -> Slot]]
    BY <1>2, <1>6, <1>8, <1>9, ZenonT(30) DEF Types
  <2>2. writer' \in [Ends -> Slots \union {0}] /\ written' \in [Ends -> Nat]
    BY <1>2, <1>6, <1>4, SMTT(30) DEF Types
  <2> QED BY <1>0, <1>2, <1>7, <2>1, <2>2, ZenonT(30) DEF Types
<1>11. \A j \in Slots : j # 0
  BY DEF Slots
<1>12. /\ Active(sendRel[a])' = Active(sendRel[a])
       /\ Filled(a)' = Active(sendRel[a]) /\ Filled(a) = Active(sendRel[a]) \ {i}
       /\ i \in Active(sendRel[a])
       /\ \A j \in Active(sendRel[a]) : j \in Slots
  <2>1. Active(sendRel[a])' = Active(sendRel[a]) /\ i \in Active(sendRel[a])
    BY <1>4, <1>9, Zenon DEF Active
  <2>2. \A j \in Active(sendRel[a]) : j # 0 /\ j \in Slots
    BY <1>11, Zenon DEF Active
  <2> QED BY <1>3, <1>8, <2>1, <2>2, Zenon DEF Filled
<1>13. \A j \in Filled(a) : j \in Filled(a)' /\ sendRel'[a][j] = sendRel[a][j] /\ j # i
  BY <1>9, <1>12, Zenon
<1>14. /\ \A j \in Active(sendRel[a]) : num(a, j)' = num(a, j)
       /\ Top(a) = written[a] + 1 /\ Top(a)' = written[a] + 1
       /\ num(a, i) = written[a] + 1
  <2>1. \A j \in Active(sendRel[a]) : j # i => sendRel'[a][j] = sendRel[a][j] /\ j # 0
    BY <1>9, <1>11, <1>12, Zenon
  <2>2. sendRel'[a][i].payload.payload = written[a] + 1
    BY <1>7, <1>9, Zenon
  <2> QED BY <1>3, <1>4, <1>8, <2>1, <2>2, Zenon DEF num, Top
<1>15. Queued(a)' = Queued(a) /\ Queued(p)' = Queued(p)
  BY <1>0, Zenon DEF Queued
<1>16. Known(p)' \subseteq Known(p)
  <2>1. \A f \in net' : f.from = p => f \in Known(p)
    BY <1>2, <1>7, Zenon DEF Known
  <2>2. Queued(p)' \subseteq Known(p)
    BY <1>15, Zenon DEF Known
  <2>3. \A j \in Slots : sendRel'[p][j].payload \in Known(p) \union {Nil}
    BY <1>8, Zenon DEF Known
  <2> QED BY <1>2, <2>1, <2>2, <2>3, KnownKept, Zenon
<1>17. Known(a)' \subseteq Known(a) \union {d}
  <2>1. \A f \in net' : f.from = a => f \in Known(a) \union {d}
    BY <1>7, Zenon DEF Known
  <2>2. Queued(a)' \subseteq Known(a)
    BY <1>15, Zenon DEF Known
  <2>3. \A j \in Slots : sendRel'[a][j].payload \in Known(a) \union {Nil, d}
    BY <1>9, Zenon DEF Known
  <2> QED BY <2>1, <2>2, <2>3, Zenon DEF Known
<1>18. Live(p)' \subseteq Live(p)
  BY <1>0, <1>2, <1>15, <1>16, LiveKept, Zenon
<1>19. Live(a)' \subseteq Live(a) \union {d}
  BY <1>0, <1>15, <1>17, Zenon DEF Live
<1>20. \A e \in Ends : ReceiverSame(e)
  BY <1>0, Zenon DEF ReceiverSame
<1>21. \A e \in Ends : \A n : Has(e, n)' <=> Has(e, n)
  BY <1>20, HasKept, Zenon
<1>22. SenderSame(p)
  BY <1>0, <1>8, Zenon DEF SenderSame
<1>23. sendRel[a][i].packetID = (d.payload - 1) % IDSpace
  BY <1>2, <1>7, <1>12, <1>14, ZenonT(30) DEF Direction, Sender
<1>24. Wire(a)'
  <2>1. Wire(a)
    BY <1>2 DEF Direction
  <2> QED BY <1>2, <1>7, <1>8, <1>17, <1>23, <2>1, WireGrows, Zenon
<1>25. Sender(a)'
  <2>1. Sender(a)
    BY <1>2 DEF Direction
  <2>2. packetID'[a] = Top(a)' % IDSpace
    BY <1>0, <1>14, <2>1, Zenon DEF Sender
  <2>3. d # Nil
    BY <1>7 DEF Nil
  <2>4. ASSUME NEW j \in Filled(a)'
        PROVE  sendRel'[a][j].payload # Nil /\ sendRel'[a][j].payload.opcode = "CONTROL_V1"
    <3>1. CASE j = i
      BY <1>7, <1>9, <2>3, <3>1, Zenon
    <3>2. CASE j # i
      BY <1>12, <1>13, <2>1, <3>2, Zenon DEF Sender
    <3> QED BY <3>1, <3>2
  <2>5. \A j \in Active(sendRel[a]) : sendRel'[a][j].packetID = sendRel[a][j].packetID
    BY <1>9, <1>12, Zenon
  <2>6. \A j \in Active(sendRel[a])' :
          /\ sendRel'[a][j].packetID = (num(a, j)' - 1) % IDSpace
          /\ num(a, j)' \in Nat /\ 1 <= num(a, j)' /\ num(a, j)' <= Top(a)'
          /\ Top(a)' < num(a, j)' + NSendBuffers
    <3> SUFFICES ASSUME NEW j \in Active(sendRel[a])
                 PROVE  /\ sendRel'[a][j].packetID = (num(a, j)' - 1) % IDSpace
                        /\ num(a, j)' \in Nat /\ 1 <= num(a, j)' /\ num(a, j)' <= Top(a)'
                        /\ Top(a)' < num(a, j)' + NSendBuffers
      BY <1>12, Zenon
    <3>1. num(a, j)' = num(a, j) /\ Top(a)' = Top(a) /\ sendRel'[a][j].packetID = sendRel[a][j].packetID
      BY <1>14, <2>5, Zenon
    <3>2. /\ sendRel[a][j].packetID = (num(a, j) - 1) % IDSpace
          /\ num(a, j) \in Nat /\ 1 <= num(a, j) /\ num(a, j) <= Top(a)
          /\ Top(a) < num(a, j) + NSendBuffers
      BY <2>1, Zenon DEF Sender
    <3> QED BY <3>1, <3>2, Zenon
  <2>7. \A j \in Active(sendRel[a])' : \A k \in Active(sendRel[a])' :
          num(a, j)' = num(a, k)' => j = k
    BY <1>12, <1>14, <2>1, Zenon DEF Sender
  <2> QED BY <2>2, <2>4, <2>6, <2>7, Zenon DEF Sender
<1>26. ~ Has(p, written[a] + 1)
  <2>1. Receiver(a) /\ written[a] \in Nat /\ Len(readBuf[p]) \in Nat
    BY <1>2, <1>4, SMTT(30) DEF Direction, Types
  <2>2. \A x \in recvRel[p].entries : x.payload \in Nat
    BY <1>2, SMTT(30) DEF Types, Entry
  <2>3. Len(readBuf[p]) <= written[a] /\ \A x \in recvRel[p].entries : x.payload <= written[a]
    BY <1>1, <2>1, Zenon DEF Receiver
  <2> QED BY <2>1, <2>2, <2>3, SMTT(30) DEF Has
<1>27. Outstanding(a)'
  <2>1. Outstanding(a)
    BY <1>2 DEF Direction
  <2>2. ASSUME NEW f \in Live(a)', f.opcode = "CONTROL_V1"
        PROVE  (\E j \in Filled(a)' : sendRel'[a][j].payload = f) /\ ~ Has(p, f.payload)'
    <3>1. CASE f \in Live(a)
      BY <1>1, <1>2, <1>13, <1>21, <2>1, <2>2, <3>1, Zenon DEF Outstanding
    <3>2. CASE f = d
      BY <1>2, <1>7, <1>9, <1>12, <1>21, <1>26, <3>2, ZenonT(30)
    <3> QED BY <1>19, <3>1, <3>2, Zenon
  <2>3. ASSUME NEW n \in Nat, 1 <= n, n <= written'[a]
        PROVE  Has(p, n)' \/ \E j \in Filled(a)' : sendRel'[a][j].payload.payload = n
    <3>1. CASE n <= written[a]
      BY <1>1, <1>2, <1>13, <1>21, <2>1, <2>3, <3>1, Zenon DEF Outstanding
    <3>2. CASE n = written[a] + 1
      BY <1>7, <1>9, <1>12, <3>2, ZenonT(30)
    <3> QED BY <1>4, <1>8, <2>3, <3>1, <3>2, SMTT(30)
  <2> QED BY <1>1, <2>2, <2>3, Zenon DEF Outstanding
<1>28. Tokens(a)'
  <2>1. \A x : Stored(a, x) => Stored(a, x)'
    BY <1>1, <1>2, <1>13, <1>21, Zenon DEF Stored
  <2> QED BY <1>1, <1>2, <1>7, <1>18, <2>1, TokensStay, Zenon DEF Direction
<1>29. Direction(a)'
  <2>1. Bounds(a)'
    <3>1. written'[a] <= load'.chunks[a]
      BY <1>4, <1>8
    <3> QED BY <1>0, <1>2, <1>7, <1>8, <3>1, Zenon DEF Direction, Bounds
  <2>2. Queue(a)'
    BY <1>0, <1>2, QueueKept, Zenon DEF Direction
  <2>3. Receiver(a)'
    <3>1. Receiver(a) /\ Len(readBuf[p]) \in Nat /\ \A x \in recvRel[p].entries : x.payload \in Nat
      BY <1>2, SMTT(30) DEF Direction, Types, Entry
    <3>2. Len(readBuf[p]) <= written'[a] /\ \A x \in recvRel[p].entries : x.payload <= written'[a]
      <4>1. Len(readBuf[p]) <= written[a] /\ \A x \in recvRel[p].entries : x.payload <= written[a]
        BY <1>1, <3>1, Zenon DEF Receiver
      <4> QED BY <1>4, <1>8, <3>1, <4>1
    <3> QED BY <1>0, <1>1, <3>1, <3>2, ZenonT(30) DEF Receiver
  <2> QED BY <1>24, <1>25, <1>27, <1>28, <2>1, <2>2, <2>3, Zenon DEF Direction
<1>30. Direction(p)'
  <2>1. Bounds(p)' /\ Wire(p)' /\ Queue(p)'
    BY <1>0, <1>2, <1>7, <1>8, <1>16, <1>22, BoundsKept, WireKept, QueueKept, Zenon DEF Direction
  <2>2. Sender(p)' /\ Receiver(p)'
    BY <1>2, <1>8, <1>20, <1>22, SenderKept, ReceiverKept, Zenon DEF Direction
  <2>3. Outstanding(p)'
    BY <1>2, <1>18, <1>21, <1>22, OutstandingKept, Zenon DEF Direction
  <2>4. Tokens(p)'
    <3>1. \A x : Stored(p, x)' <=> Stored(p, x)
      BY <1>2, <1>21, <1>22, StoredKept, Zenon
    <3>2. IsInjective(acks[a]) /\ Tokens(p)
      BY <1>2, Zenon DEF Direction, Bounds
    <3> QED BY <1>2, <1>7, <1>19, <3>1, <3>2, TokensMove, Zenon
  <2> QED BY <2>1, <2>2, <2>3, <2>4, Zenon DEF Direction
<1>31. \A e \in Ends : e = a \/ e = p
  BY <1>2 DEF Ends
<1> QED
  BY <1>10, <1>29, <1>30, <1>31, Zenon DEF ControlInv

\* flushAckOnly preserves the invariant: the ACKs move into a datagram of their own.
LEMMA FlushStep ==
    ASSUME ControlInv, NEW a \in Ends, FlushAckOnly(a), load' = load
    PROVE  ControlInv'
<1>0. /\ sendRel' = sendRel /\ packetID' = packetID /\ writer' = writer /\ written' = written
      /\ readBuf' = readBuf /\ recvRel' = recvRel /\ replay' = replay /\ inbound' = inbound
      /\ deliverer[a] = "flush" /\ deliverer' = [deliverer EXCEPT ![a] = "idle"]
  BY DEF FlushAckOnly, sendVars, wireVars
<1>1. PICK p : p = Peer(a)
  OBVIOUS
<1>2. p \in Ends /\ p # a /\ Peer(p) = a /\ Direction(a) /\ Direction(p) /\ Types
  BY <1>1, Peers DEF ControlInv
<1>3. PICK d : d = controlPacket(a, "ACK_V1", 0, 0)
  OBVIOUS
<1>4. transmit(d) /\ buildControlPacket(a)
  BY <1>3, SMTT(30) DEF FlushAckOnly
<1>5. /\ d \in Datagram /\ d.from = a /\ d.seq = sendSeq[a] + 1 /\ d.opcode = "ACK_V1"
      /\ d.acks = Range(drained(acks[a])) /\ acks'[a] = remaining(acks[a])
      /\ sendSeq'[a] = sendSeq[a] + 1 /\ sendSeq'[p] = sendSeq[p] /\ acks'[p] = acks[p]
      /\ sendSeq' \in [Ends -> Nat] /\ acks' \in [Ends -> Seq(PacketID)]
      /\ IsInjective(acks'[a])
      /\ net' \subseteq Datagram /\ \A f \in net' : f \in net \/ f = d
  <2>1. 0 \in Nat /\ 0 \in PacketID /\ "ACK_V1" \in {"CONTROL_V1", "ACK_V1"}
    BY Sizes DEF PacketID
  <2>2. Built(a, d) /\ d.opcode = "ACK_V1"
    BY <1>3, <1>4, <2>1, BuildEffects, SMTT(30)
  <2> QED BY <1>1, <2>2, Zenon DEF Built
<1>6. /\ deliverer' \in [Ends -> {"idle", "get", "flush"}]
      /\ deliverer'[a] = "idle" /\ deliverer'[p] = deliverer[p]
  BY <1>0, <1>2 DEF Types
<1>7. Types'
  BY <1>0, <1>2, <1>5, <1>6, Zenon DEF Types
<1>8. Queued(a)' = Queued(a) /\ Queued(p)' = Queued(p)
  BY <1>0, Zenon DEF Queued
<1>9. Known(p)' \subseteq Known(p)
  <2>1. \A f \in net' : f.from = p => f \in Known(p)
    BY <1>2, <1>5, Zenon DEF Known
  <2>2. Queued(p)' \subseteq Known(p)
    BY <1>8, Zenon DEF Known
  <2>3. \A j \in Slots : sendRel'[p][j].payload \in Known(p) \union {Nil}
    BY <1>0, Zenon DEF Known
  <2> QED BY <1>2, <2>1, <2>2, <2>3, KnownKept, Zenon
<1>10. Known(a)' \subseteq Known(a) \union {d}
  <2>1. \A f \in net' : f.from = a => f \in Known(a) \union {d}
    BY <1>5, Zenon DEF Known
  <2>2. Queued(a)' \subseteq Known(a)
    BY <1>8, Zenon DEF Known
  <2>3. \A j \in Slots : sendRel'[a][j].payload \in Known(a) \union {Nil, d}
    BY <1>0, Zenon DEF Known
  <2> QED BY <2>1, <2>2, <2>3, Zenon DEF Known
<1>11. Live(p)' \subseteq Live(p)
  BY <1>0, <1>2, <1>8, <1>9, LiveKept, Zenon
<1>12. Live(a)' \subseteq Live(a) \union {d}
  BY <1>0, <1>8, <1>10, Zenon DEF Live
<1>13. \A e \in Ends : \A n : Has(e, n)' <=> Has(e, n)
  BY <1>0, Zenon DEF Has
<1>14. SenderSame(p) /\ SenderSame(a) /\ ReceiverSame(p)
  BY <1>0, <1>6, Zenon DEF SenderSame, ReceiverSame
<1>15. \A e \in Ends : \A x : Stored(e, x)' <=> Stored(e, x)
  <2>1. \A e \in Ends : e = a \/ e = p
    BY <1>2 DEF Ends
  <2>2. \A x : Stored(a, x)' <=> Stored(a, x)
    BY <1>1, <1>2, <1>13, <1>14, StoredKept, Zenon
  <2>3. \A x : Stored(p, x)' <=> Stored(p, x)
    BY <1>2, <1>13, <1>14, StoredKept, ZenonT(30)
  <2> QED BY <2>1, <2>2, <2>3, Zenon
<1>16. Wire(a)'
  <2>1. Wire(a)
    BY <1>2 DEF Direction
  <2> QED BY <1>0, <1>2, <1>5, <1>10, <2>1, WireGrows, Zenon
<1>17. Outstanding(a)'
  <2>1. Outstanding(a)
    BY <1>2 DEF Direction
  <2>2. Filled(a)' = Filled(a)
    BY <1>0, Zenon DEF Filled, Active
  <2>3. \A f \in Live(a)' : f.opcode = "CONTROL_V1" => f \in Live(a)
    BY <1>5, <1>12
  <2>4. \A n : Has(Peer(a), n)' <=> Has(Peer(a), n)
    BY <1>1, <1>2, <1>13, Zenon
  <2> QED BY <1>0, <2>1, <2>2, <2>3, <2>4, Zenon DEF Outstanding
<1>18. Direction(a)'
  <2>1. Bounds(a)'
    BY <1>0, <1>2, <1>5, Zenon DEF Direction, Bounds
  <2>2. Queue(a)' /\ Sender(a)' /\ Receiver(a)'
    BY <1>0, <1>1, <1>2, <1>14, QueueKept, SenderKept, ReceiverKept, Zenon DEF Direction
  <2>3. Tokens(a)'
    BY <1>1, <1>2, <1>5, <1>11, <1>15, TokensStay, Zenon DEF Direction
  <2> QED BY <1>16, <1>17, <2>1, <2>2, <2>3, Zenon DEF Direction
<1>19. Direction(p)'
  <2>1. Bounds(p)' /\ Wire(p)' /\ Queue(p)'
    BY <1>0, <1>2, <1>5, <1>9, <1>14, BoundsKept, WireKept, QueueKept, Zenon DEF Direction
  <2>2. Sender(p)'
    BY <1>2, <1>14, SenderKept, Zenon DEF Direction
  <2>3. Receiver(p)'
    <3>1. deliverer[a] # "get"
      BY <1>0
    <3> QED BY <1>0, <1>2, <3>1, Zenon DEF Direction, Receiver
  <2>4. Outstanding(p)'
    BY <1>2, <1>11, <1>13, <1>14, OutstandingKept, Zenon DEF Direction
  <2>5. Tokens(p)'
    <3>1. IsInjective(acks[a]) /\ Tokens(p)
      BY <1>2, Zenon DEF Direction, Bounds
    <3> QED BY <1>2, <1>5, <1>12, <1>15, <3>1, TokensMove, Zenon
  <2> QED BY <2>1, <2>2, <2>3, <2>4, <2>5, Zenon DEF Direction
<1>20. \A e \in Ends : e = a \/ e = p
  BY <1>2, SMTT(30) DEF Ends
<1> QED
  BY <1>7, <1>18, <1>19, <1>20, Zenon DEF ControlInv

-----------------------------------------------------------------------------
(* Receiving.                                                              *)

\* The entry that Get returns holds the chunk that follows the stream.
LEMMA EntryNumber ==
    ASSUME NEW a \in Ends, Types, Receiver(a), NEW x \in recvRel[Peer(a)].entries
    PROVE  /\ x \in Entry
           /\ x.packetID = recvRel[Peer(a)].packetID <=> x.payload = Len(readBuf[Peer(a)]) + 1
<1>1. PICK c : c = Len(readBuf[Peer(a)])
  BY Zenon
<1>2. Peer(a) \in Ends
  BY Peers, SMTT(30)
<1>3. c \in Nat /\ x \in Entry /\ x.payload \in Nat
  BY <1>1, <1>2, SMTT(30) DEF Types, Entry
<1>4. /\ recvRel[Peer(a)].packetID = c % IDSpace /\ x.packetID = (x.payload - 1) % IDSpace
      /\ x.payload > c /\ x.payload <= c + NSendBuffers
  BY <1>1, Zenon DEF Receiver
<1>5. PICK n : n = x.payload - 1
  OBVIOUS
<1>6. n \in Int /\ c \in Int /\ n - c < IDSpace /\ c - n < IDSpace /\ IDSpace \in Nat \ {0}
  BY <1>3, <1>4, <1>5, Sizes, SMTT(30)
<1>7. (n % IDSpace) = (c % IDSpace) => n = c
  BY <1>6, ModEqual
<1>8. n = c <=> x.payload = c + 1
  BY <1>3, <1>5
<1> QED
  BY <1>1, <1>3, <1>4, <1>5, <1>7, <1>8

\* A step of the pump of b within the receive window.
LEMMA WindowStep ==
    ASSUME ControlInv, NEW b \in Ends, Types',
           UNCHANGED <<load, sendSeq, acks, sendVars, wireVars, net>>,
           recvRel'[Peer(b)] = recvRel[Peer(b)], readBuf'[Peer(b)] = readBuf[Peer(b)],
           deliverer'[Peer(b)] = deliverer[Peer(b)],
           IsFiniteSet(recvRel'[b].entries) /\ Cardinality(recvRel'[b].entries) <= NRecBuffers,
           \A n : Has(b, n)' <=> Has(b, n),
           Receiver(Peer(b))'
    PROVE  ControlInv'
<1>0. /\ sendRel' = sendRel /\ packetID' = packetID /\ writer' = writer /\ written' = written
      /\ replay' = replay /\ inbound' = inbound /\ net' = net
      /\ load' = load /\ sendSeq' = sendSeq /\ acks' = acks
  BY SMTT(30) DEF sendVars, wireVars
<1>1. PICK a : a = Peer(b)
  BY SMTT(30)
<1>2. a \in Ends /\ a # b /\ Peer(a) = b /\ Direction(a) /\ Direction(b) /\ Types
  BY <1>1, Peers DEF ControlInv
<1>3. \A e \in Ends : SenderSame(e) /\ Queued(e)' = Queued(e) /\ Known(e)' = Known(e)
  BY <1>0, Zenon DEF SenderSame, Queued, Known
<1>4. \A e \in Ends : Live(e)' = Live(e)
  BY <1>0, <1>3, Zenon DEF Live
<1>5. ReceiverSame(a)
  BY <1>1, Zenon DEF ReceiverSame
<1>6. \A n : Has(a, n)' <=> Has(a, n)
  BY <1>2, <1>5, HasKept, Zenon
<1>7. Direction(a)'
  <2>1. Bounds(a)' /\ Wire(a)' /\ Queue(a)'
    BY <1>0, <1>1, <1>2, <1>3, BoundsKept, WireKept, QueueKept, Zenon DEF Direction
  <2>2. Sender(a)' /\ Receiver(a)'
    BY <1>1, <1>2, <1>3, SenderKept, Zenon DEF Direction
  <2>3. Outstanding(a)' /\ Tokens(a)'
    BY <1>0, <1>2, <1>3, <1>4, OutstandingKept, TokensKept, Zenon DEF Direction
  <2> QED BY <2>1, <2>2, <2>3, Zenon DEF Direction
<1>8. Direction(b)'
  <2>1. Bounds(b)'
    BY <1>0, <1>2, Zenon DEF Direction, Bounds
  <2>2. Wire(b)' /\ Queue(b)' /\ Sender(b)'
    BY <1>0, <1>2, <1>3, WireKept, QueueKept, SenderKept, Zenon DEF Direction
  <2>3. Receiver(b)'
    BY <1>0, <1>1, <1>2, <1>5, ReceiverKept, Zenon DEF Direction
  <2>4. Outstanding(b)' /\ Tokens(b)'
    BY <1>0, <1>1, <1>2, <1>3, <1>4, <1>6, OutstandingKept, TokensKept, Zenon DEF Direction
  <2> QED BY <2>1, <2>2, <2>3, <2>4, Zenon DEF Direction
<1>9. \A e \in Ends : e = a \/ e = b
  BY <1>2 DEF Ends
<1> QED
  BY <1>7, <1>8, <1>9, Zenon DEF ControlInv

\* The end of absorb preserves the invariant: what follows the stream has not arrived.
LEMMA PeekStep ==
    ASSUME ControlInv, NEW b \in Ends, PeekAcks(b), load' = load
    PROVE  ControlInv'
<1>0. /\ UNCHANGED <<load, sendSeq, acks, sendVars, wireVars, net>>
      /\ recvRel' = recvRel /\ readBuf' = readBuf /\ written' = written
      /\ sequenced(recvRel[b]) = {}
      /\ deliverer' = [deliverer EXCEPT ![b] = IF acks[b] = <<>> THEN "idle" ELSE "flush"]
  BY DEF PeekAcks, sendVars
<1>1. PICK a : a = Peer(b)
  OBVIOUS
<1>2. a \in Ends /\ a # b /\ Peer(a) = b /\ Types /\ Receiver(a) /\ Bounds(b)
  BY <1>1, Peers, SMTT(30) DEF ControlInv, Direction
<1>3. Types'
  <2>1. deliverer' \in [Ends -> {"idle", "get", "flush"}]
    BY <1>0, <1>2, Zenon DEF Types
  <2> QED BY <1>0, <1>2, <2>1, SMTT(30) DEF Types, sendVars, wireVars
<1>4. ASSUME NEW n PROVE Has(b, n)' <=> Has(b, n)
  BY <1>0, Zenon DEF Has
<1>5. Receiver(a)'
  <2>1. \A x \in recvRel[b].entries : x.payload # Len(readBuf[b]) + 1
    <3>1. \A x \in recvRel[b].entries : x.packetID # recvRel[b].packetID
      BY <1>0, SMTT(30) DEF sequenced
    <3> QED BY <1>2, <3>1, EntryNumber, ZenonT(30)
  <2> QED BY <1>0, <1>2, <2>1, Zenon DEF Receiver
<1>6. /\ recvRel'[a] = recvRel[a] /\ readBuf'[a] = readBuf[a] /\ deliverer'[a] = deliverer[a]
      /\ IsFiniteSet(recvRel'[b].entries) /\ Cardinality(recvRel'[b].entries) <= NRecBuffers
  BY <1>0, <1>2, Zenon DEF Types, Bounds
<1> QED
  BY <1>0, <1>1, <1>3, <1>4, <1>5, <1>6, WindowStep, Zenon

\* Active entries with the same id are the same.
LEMMA UniqueIds ==
    ASSUME NEW e \in Ends, Types, Sender(e),
           NEW i \in Active(sendRel[e]), NEW j \in Active(sendRel[e]),
           sendRel[e][i].packetID = sendRel[e][j].packetID
    PROVE  i = j
<1>1. PICK m, n : m = num(e, i) - 1 /\ n = num(e, j) - 1
  OBVIOUS
<1>2. /\ sendRel[e][i].packetID = m % IDSpace /\ sendRel[e][j].packetID = n % IDSpace
      /\ num(e, i) \in Nat /\ num(e, j) \in Nat
      /\ num(e, i) <= Top(e) /\ Top(e) < num(e, i) + NSendBuffers
      /\ num(e, j) <= Top(e) /\ Top(e) < num(e, j) + NSendBuffers
  BY <1>1, ZenonT(30) DEF Sender
<1>3. Top(e) \in Nat
  BY DEF Types, Top
<1>4. m \in Int /\ n \in Int /\ m - n < IDSpace /\ n - m < IDSpace /\ IDSpace \in Nat \ {0}
  BY <1>1, <1>2, <1>3, Sizes
<1>5. m = n
  BY <1>2, <1>4, ModEqual, Zenon
<1>6. num(e, i) = num(e, j)
  BY <1>1, <1>2, <1>5
<1> QED
  BY <1>6, Zenon DEF Sender

\* While the pump is between packets, the chunks of the peer's send window reach at
\* most NSendBuffers past the stream.
LEMMA ChunksReach ==
    ASSUME NEW a \in Ends, Types, Sender(a), Receiver(a), Outstanding(a),
           deliverer[Peer(a)] # "get", NEW n \in Nat, n <= Top(a)
    PROVE  n <= Len(readBuf[Peer(a)]) + NSendBuffers
<1>1. PICK c : c = Len(readBuf[Peer(a)])
  BY ZenonT(30)
<1>2. c \in Nat /\ written[a] \in Nat /\ Peer(a) \in Ends
  BY <1>1, Peers DEF Types
<1>3. ~ Has(Peer(a), c + 1)
  <2>1. \A x \in recvRel[Peer(a)].entries : x.payload # c + 1
    BY <1>1, Zenon DEF Receiver
  <2>2. ~ (c + 1 \in 1 .. c)
    BY <1>2
  <2> QED BY <1>1, <2>1, <2>2, Zenon DEF Has
<1>4. CASE c + 1 <= written[a]
  <2>1. c + 1 \in Nat /\ 1 <= c + 1
    BY <1>2
  <2>2. PICK j \in Filled(a) : sendRel[a][j].payload.payload = c + 1
    BY <1>3, <1>4, <2>1, Zenon DEF Outstanding
  <2>3. j \in Active(sendRel[a]) /\ num(a, j) = c + 1
    BY <2>2, Zenon DEF Filled, num
  <2>4. Top(a) < c + 1 + NSendBuffers
    BY <2>3, Zenon DEF Sender
  <2>5. Top(a) \in Nat
    BY DEF Types, Top
  <2> QED BY <1>1, <1>2, <2>4, <2>5, Sizes, SMTT(30)
<1>5. CASE ~ (c + 1 <= written[a])
  <2>1. Top(a) <= written[a] + 1
    BY <1>2 DEF Top
  <2>2. Top(a) \in Nat
    BY DEF Types, Top
  <2> QED BY <1>1, <1>2, <1>5, <2>1, <2>2, Sizes, SMTT(30)
<1> QED
  BY <1>4, <1>5

\* Ack frees the entries with an acknowledged id.
LEMMA AckedSlots ==
    ASSUME NEW slots \in [Slots -> Slot], NEW ids
    PROVE  LET acked == Ack(slots, ids)
           IN  /\ acked \in [Slots -> Slot]
               /\ \A j \in Slots : /\ acked[j].packetID = slots[j].packetID
                                   /\ acked[j].payload = slots[j].payload
                                   /\ acked[j].active <=> slots[j].active /\ slots[j].packetID \notin ids
<1>1. ASSUME NEW j \in Slots
      PROVE  LET s == [slots[j] EXCEPT !.active = @ /\ slots[j].packetID \notin ids]
             IN  /\ s \in Slot /\ s.packetID = slots[j].packetID /\ s.payload = slots[j].payload
                 /\ s.active <=> slots[j].active /\ slots[j].packetID \notin ids
  <2>1. slots[j] \in Slot
    OBVIOUS
  <2> QED BY <2>1, Zenon DEF Slot
<1> QED
  BY <1>1, Zenon DEF Ack

\* Acknowledged entries become free; the peer has their chunks.
LEMMA FreedSlots ==
    ASSUME NEW b \in Ends, Types, Sender(b), NEW ids, \A x \in ids : Stored(b, x),
           sendRel'[b] = Ack(sendRel[b], ids), writer'[b] = writer[b]
    PROVE  /\ \A i \in Slots : /\ sendRel'[b][i].payload = sendRel[b][i].payload
                               /\ sendRel'[b][i].packetID = sendRel[b][i].packetID
           /\ Active(sendRel[b])' \subseteq Active(sendRel[b])
           /\ Filled(b)' \subseteq Filled(b)
           /\ \A i \in Filled(b) : sendRel[b][i].packetID \notin ids => i \in Filled(b)'
           /\ \A i \in Filled(b) : i \in Filled(b)' \/ Has(Peer(b), sendRel[b][i].payload.payload)
           /\ writer[b] \in Active(sendRel[b]) => writer[b] \in Active(sendRel[b])'
<1>1. sendRel[b] \in [Slots -> Slot]
  BY DEF Types
<1>2. \A i \in Slots :
         /\ sendRel'[b][i].payload = sendRel[b][i].payload
         /\ sendRel'[b][i].packetID = sendRel[b][i].packetID
         /\ sendRel'[b][i].active <=> sendRel[b][i].active /\ sendRel[b][i].packetID \notin ids
  BY <1>1, AckedSlots
<1>3. \A i \in Slots : i \in Active(sendRel[b])' <=>
                          i \in Active(sendRel[b]) /\ sendRel[b][i].packetID \notin ids
  BY <1>2, Zenon DEF Active
<1>4. Active(sendRel[b])' \subseteq Slots /\ Active(sendRel[b]) \subseteq Slots
  BY Zenon DEF Active
<1>5. ASSUME NEW i \in Active(sendRel[b]), sendRel[b][i].packetID \in ids
      PROVE  i \in Filled(b) /\ Has(Peer(b), sendRel[b][i].payload.payload)
  <2>1. PICK j \in Filled(b) : /\ sendRel[b][j].packetID = sendRel[b][i].packetID
                               /\ Has(Peer(b), sendRel[b][j].payload.payload)
    BY <1>5, Zenon DEF Stored
  <2>2. j \in Active(sendRel[b])
    BY Zenon DEF Filled
  <2>3. i = j
    BY <2>1, <2>2, UniqueIds, Zenon
  <2> QED BY <2>1, <2>3
<1>6. writer[b] \notin Filled(b)
  BY Zenon DEF Filled
<1>7. Filled(b)' = Active(sendRel[b])' \ {writer[b]}
  BY Zenon DEF Filled
<1>8. Filled(b) = Active(sendRel[b]) \ {writer[b]}
  BY Zenon DEF Filled
<1>9. /\ Active(sendRel[b])' \subseteq Active(sendRel[b])
      /\ Filled(b)' \subseteq Filled(b)
      /\ \A i \in Filled(b) : sendRel[b][i].packetID \notin ids => i \in Filled(b)'
  BY <1>3, <1>4, <1>7, <1>8, Zenon
<1>10. \A i \in Filled(b) : i \in Filled(b)' \/ Has(Peer(b), sendRel[b][i].payload.payload)
  BY <1>5, <1>8, <1>9, Zenon
<1>11. writer[b] \in Active(sendRel[b]) => writer[b] \in Active(sendRel[b])'
  BY <1>3, <1>4, <1>5, <1>6, Zenon
<1> QED
  BY <1>2, <1>9, <1>10, <1>11, ZenonT(30)

\* The direction whose chunks are acknowledged.
LEMMA AckedDirection ==
    ASSUME NEW b \in Ends, Types, Direction(b), NEW d \in Live(Peer(b)),
           sendRel'[b] = Ack(sendRel[b], d.acks), writer'[b] = writer[b],
           written'[b] = written[b], packetID'[b] = packetID[b], sendSeq'[b] = sendSeq[b],
           load' = load,
           ReceiverSame(Peer(b)), acks'[Peer(b)] = acks[Peer(b)],
           inbound'[Peer(b)] = inbound[Peer(b)], replay'[Peer(b)] = replay[Peer(b)],
           Known(b)' \subseteq Known(b), Live(b)' \subseteq Live(b),
           Live(Peer(b))' \subseteq Live(Peer(b)) \ {d}
    PROVE  /\ Wire(b)' /\ Queue(b)' /\ Sender(b)' /\ Receiver(b)' /\ Outstanding(b)' /\ Tokens(b)'
           /\ written'[b] <= load'.chunks[b]
           /\ writer'[b] # 0 => written'[b] < load'.chunks[b] /\ sendRel'[b][writer'[b]].active
<1>0. Bounds(b) /\ Wire(b) /\ Queue(b) /\ Sender(b) /\ Receiver(b) /\ Outstanding(b) /\ Tokens(b)
  BY Zenon DEF Direction
<1>1. \A x \in d.acks : Stored(b, x)
  BY <1>0, Zenon DEF Tokens
<1>2. /\ \A i \in Slots : /\ sendRel'[b][i].payload = sendRel[b][i].payload
                          /\ sendRel'[b][i].packetID = sendRel[b][i].packetID
      /\ Active(sendRel[b])' \subseteq Active(sendRel[b])
      /\ Filled(b)' \subseteq Filled(b)
      /\ \A i \in Filled(b) : sendRel[b][i].packetID \notin d.acks => i \in Filled(b)'
      /\ \A i \in Filled(b) : i \in Filled(b)' \/ Has(Peer(b), sendRel[b][i].payload.payload)
      /\ writer[b] \in Active(sendRel[b]) => writer[b] \in Active(sendRel[b])'
  <2> QED BY <1>0, <1>1, FreedSlots, Zenon
<1>3. Filled(b) \subseteq Slots /\ Active(sendRel[b]) \subseteq Slots
  BY Zenon DEF Filled, Active
<1>4. Peer(b) \in Ends
  <2> QED BY Peers
<1>5. \A n : Has(Peer(b), n)' <=> Has(Peer(b), n)
  BY <1>4, HasKept, Zenon
<1>6. Wire(b)' /\ Queue(b)' /\ Receiver(b)'
  BY <1>0, WireKept, QueueKept, ReceiverKept, Zenon
<1>7. Sender(b)'
  <2>1. Top(b)' = Top(b)
    BY Zenon DEF Top
  <2>2. \A i \in Slots : num(b, i)' = num(b, i)
    BY <1>2, Zenon DEF num
  <2>3. packetID'[b] = Top(b)' % IDSpace
    BY <1>0, <2>1, Zenon DEF Sender
  <2>4. \A i \in Filled(b)' :
           sendRel'[b][i].payload # Nil /\ sendRel'[b][i].payload.opcode = "CONTROL_V1"
    BY <1>0, <1>2, <1>3, Zenon DEF Sender
  <2>5. \A i \in Active(sendRel[b])' :
           /\ sendRel'[b][i].packetID = (num(b, i)' - 1) % IDSpace
           /\ num(b, i)' \in Nat /\ 1 <= num(b, i)' /\ num(b, i)' <= Top(b)'
           /\ Top(b)' < num(b, i)' + NSendBuffers
    <3> SUFFICES ASSUME NEW i \in Active(sendRel[b])'
                 PROVE  /\ sendRel'[b][i].packetID = (num(b, i)' - 1) % IDSpace
                        /\ num(b, i)' \in Nat /\ 1 <= num(b, i)' /\ num(b, i)' <= Top(b)'
                        /\ Top(b)' < num(b, i)' + NSendBuffers
      OBVIOUS
    <3>1. i \in Active(sendRel[b]) /\ i \in Slots
      BY <1>2, <1>3, Zenon
    <3>2. /\ sendRel[b][i].packetID = (num(b, i) - 1) % IDSpace
          /\ num(b, i) \in Nat /\ 1 <= num(b, i) /\ num(b, i) <= Top(b)
          /\ Top(b) < num(b, i) + NSendBuffers
      BY <1>0, <3>1, Zenon DEF Sender
    <3>3. num(b, i)' = num(b, i) /\ sendRel'[b][i].packetID = sendRel[b][i].packetID
      BY <1>2, <2>2, <3>1, Zenon
    <3> QED BY <2>1, <3>2, <3>3, ZenonT(30)
  <2>6. \A i \in Active(sendRel[b])' : \A j \in Active(sendRel[b])' :
           num(b, i)' = num(b, j)' => i = j
    <3> SUFFICES ASSUME NEW i \in Active(sendRel[b])', NEW j \in Active(sendRel[b])',
                        num(b, i)' = num(b, j)'
                 PROVE  i = j
      OBVIOUS
    <3>1. /\ i \in Active(sendRel[b]) /\ i \in Slots /\ j \in Active(sendRel[b]) /\ j \in Slots
      BY <1>2, <1>3, Zenon
    <3>2. num(b, i) = num(b, j)
      BY <2>2, <3>1, Zenon
    <3> QED BY <1>0, <3>1, <3>2, ZenonT(30) DEF Sender
  <2> QED BY <2>3, <2>4, <2>5, <2>6, Zenon DEF Sender
<1>8. Outstanding(b)'
  <2>1. ASSUME NEW f \in Live(b)', f.opcode = "CONTROL_V1"
        PROVE  (\E i \in Filled(b)' : sendRel'[b][i].payload = f) /\ ~ Has(Peer(b), f.payload)'
    <3>1. PICK i \in Filled(b) : sendRel[b][i].payload = f
      BY <1>0, <2>1, Zenon DEF Outstanding
    <3>2. ~ Has(Peer(b), f.payload)
      BY <1>0, <2>1, Zenon DEF Outstanding
    <3>3. i \in Filled(b)' /\ i \in Slots
      BY <1>2, <1>3, <3>1, <3>2, Zenon
    <3>4. sendRel'[b][i].payload = f
      BY <1>2, <3>1, <3>3, Zenon
    <3> QED BY <1>5, <3>2, <3>3, <3>4, Zenon
  <2>2. ASSUME NEW n \in Nat, 1 <= n, n <= written'[b]
        PROVE  Has(Peer(b), n)' \/ \E i \in Filled(b)' : sendRel'[b][i].payload.payload = n
    <3>1. Has(Peer(b), n) \/ \E i \in Filled(b) : sendRel[b][i].payload.payload = n
      BY <1>0, <2>2, Zenon DEF Outstanding
    <3> QED BY <1>2, <1>3, <1>5, <3>1, Zenon
  <2> QED BY <2>1, <2>2, Zenon DEF Outstanding
<1>9. Tokens(b)'
  <2>1. ASSUME NEW x, Stored(b, x), x \notin d.acks
        PROVE  Stored(b, x)'
    <3>1. PICK i \in Filled(b) : /\ sendRel[b][i].packetID = x
                                 /\ Has(Peer(b), sendRel[b][i].payload.payload)
      BY <2>1, Zenon DEF Stored
    <3>2. i \in Filled(b)' /\ i \in Slots
      BY <1>2, <1>3, <2>1, <3>1, Zenon
    <3>3. sendRel'[b][i].packetID = x /\ sendRel'[b][i].payload = sendRel[b][i].payload
      BY <1>2, <3>1, <3>2, ZenonT(30)
    <3>4. PICK n : n = sendRel[b][i].payload.payload
      OBVIOUS
    <3>5. Has(Peer(b), n)' /\ sendRel'[b][i].payload.payload = n
      BY <1>5, <3>1, <3>3, <3>4, Zenon
    <3> QED BY <3>5,  <3>2, <3>3, <3>4, Zenon DEF Stored
  <2>2. \A x \in Range(acks[Peer(b)]) : Stored(b, x) /\ x \notin d.acks
    BY <1>0, Zenon DEF Tokens
  <2>3. \A f \in Live(Peer(b))' : \A x \in f.acks :
           Stored(b, x) /\ x \notin d.acks /\ x \notin Range(acks[Peer(b)])
    BY <1>0, Zenon DEF Tokens
  <2>4. \A f \in Live(Peer(b))' : \A g \in Live(Peer(b))' : \A x \in f.acks : x \in g.acks => f = g
    BY <1>0, Zenon DEF Tokens
  <2> QED BY <2>1, <2>2, <2>3, <2>4, Zenon DEF Tokens
<1>10. /\ written'[b] <= load'.chunks[b]
       /\ writer'[b] # 0 => written'[b] < load'.chunks[b] /\ sendRel'[b][writer'[b]].active
  <2>1. writer[b] # 0 => writer[b] \in Active(sendRel[b])
    <3>1. writer[b] \in Slots \union {0}
      <4> QED BY DEF Types
    <3> QED BY <1>0, <3>1, ZenonT(30) DEF Bounds, Active
  <2> QED BY <1>0, <1>2, <2>1, Zenon DEF Bounds, Active
<1> QED
  BY <1>6, <1>7, <1>8, <1>9, <1>10, Zenon

\* The entry of the send window that holds a chunk the peer can still store, and no
\* ACK for it.
LEMMA HolderOf ==
    ASSUME NEW a \in Ends, Types, Direction(a), NEW d \in Live(a), d.opcode = "CONTROL_V1"
    PROVE  /\ \E i \in Filled(a) : sendRel[a][i].payload = d /\ sendRel[a][i].packetID = d.packetID
           /\ ~ Stored(a, d.packetID)
<1>0. Wire(a) /\ Sender(a) /\ Outstanding(a)
  BY DEF Direction
<1>1. PICK i \in Filled(a) : sendRel[a][i].payload = d
  BY <1>0, Zenon DEF Outstanding
<1>2. ~ Has(Peer(a), d.payload)
  BY <1>0, Zenon DEF Outstanding
<1>3. d \in Known(a)
  BY Zenon DEF Live, Known
<1>4. i \in Active(sendRel[a]) /\ i # writer[a]
  BY Zenon DEF Filled
<1>5. num(a, i) = d.payload
  BY <1>1, <1>4, Zenon DEF num
<1>6. sendRel[a][i].packetID = (d.payload - 1) % IDSpace
  BY <1>0, <1>4, <1>5, Zenon DEF Sender
<1>7. d.packetID = (d.payload - 1) % IDSpace
  BY <1>0, <1>3, Zenon DEF Wire
<1>8. sendRel[a][i].packetID = d.packetID
  BY <1>6, <1>7, Zenon
<1>9. ASSUME Stored(a, d.packetID) PROVE FALSE
  <2>1. PICK j \in Filled(a) : /\ sendRel[a][j].packetID = d.packetID
                               /\ Has(Peer(a), sendRel[a][j].payload.payload)
    BY <1>9, Zenon DEF Stored
  <2>2. j \in Active(sendRel[a])
    BY Zenon DEF Filled
  <2>3. i = j
    BY <1>0, <1>4, <1>8, <2>1, <2>2, UniqueIds, ZenonT(30)
  <2> QED BY <1>1, <1>2, <2>1, <2>3, Zenon
<1> QED
  BY <1>1, <1>8, <1>9, Zenon

\* The direction whose chunk is stored, if the packet carries one.
LEMMA StoredDirection ==
    ASSUME NEW a \in Ends, Types, Direction(a), NEW d \in Queued(a),
           SenderSame(a), sendSeq'[a] = sendSeq[a],
           Known(a)' \subseteq Known(a), Live(a)' \subseteq Live(a) \ {d},
           Live(Peer(a))' \subseteq Live(Peer(a)),
           readBuf'[Peer(a)] = readBuf[Peer(a)], deliverer'[Peer(a)] = "get",
           \/ /\ d.opcode = "ACK_V1" /\ recvRel'[Peer(a)] = recvRel[Peer(a)]
              /\ Range(acks'[Peer(a)]) = Range(acks[Peer(a)])
           \/ /\ d.opcode = "CONTROL_V1"
              /\ recvRel'[Peer(a)].packetID = recvRel[Peer(a)].packetID
              /\ recvRel'[Peer(a)].entries = recvRel[Peer(a)].entries
                   \union {[packetID |-> d.packetID, payload |-> d.payload]}
              /\ Range(acks'[Peer(a)]) = Range(acks[Peer(a)]) \union {d.packetID}
              /\ d.payload > Len(readBuf[Peer(a)])
              /\ d.payload <= Len(readBuf[Peer(a)]) + NSendBuffers
    PROVE  Wire(a)' /\ Sender(a)' /\ Receiver(a)' /\ Outstanding(a)' /\ Tokens(a)'
<1>0. Wire(a) /\ Sender(a) /\ Receiver(a) /\ Outstanding(a) /\ Tokens(a)
  BY Zenon DEF Direction
<1>1. PICK b : b = Peer(a)
  OBVIOUS
<1>2. written'[a] = written[a] /\ sendRel'[a] = sendRel[a]
  BY DEF SenderSame
<1>3. Wire(a)' /\ Sender(a)'
  BY <1>0, <1>2, WireKept, SenderKept, Zenon
<1>4. d \in Live(a) /\ d \in Known(a)
  BY Zenon DEF Live, Known
<1>5. Filled(a)' = Filled(a)
  BY ZenonT(30) DEF Filled, Active, SenderSame
<1>6. CASE d.opcode = "ACK_V1"
  <2>1. recvRel'[b] = recvRel[b] /\ Range(acks'[b]) = Range(acks[b])
    BY <1>1, <1>6
  <2>2. Receiver(a)'
    BY <1>0, <1>1, <1>2, <2>1, Zenon DEF Receiver
  <2>3. \A n : Has(b, n)' <=> Has(b, n)
    BY <1>1, <2>1, Zenon DEF Has
  <2>4. Outstanding(a)'
    <3>1. Live(a)' \subseteq Live(a)
      OBVIOUS
    <3> QED BY <1>0, <1>1, <2>3, <3>1, OutstandingKept, Zenon
  <2>5. \A x : Stored(a, x)' <=> Stored(a, x)
    BY <1>1, <2>3, StoredKept, Zenon
  <2>6. Tokens(a)'
    BY <1>0, <1>1, <2>1, <2>5, ZenonT(30) DEF Tokens
  <2> QED BY <1>3, <2>2, <2>4, <2>6, Zenon, SMTT(30)
<1>7. CASE d.opcode = "CONTROL_V1"
  <2>0. PICK y : y = [packetID |-> d.packetID, payload |-> d.payload]
    BY ZenonT(30)
  <2>1. /\ recvRel'[b].packetID = recvRel[b].packetID
        /\ recvRel'[b].entries = recvRel[b].entries \union {y}
        /\ Range(acks'[b]) = Range(acks[b]) \union {d.packetID}
        /\ d.payload > Len(readBuf[b]) /\ d.payload <= Len(readBuf[b]) + NSendBuffers
        /\ readBuf'[b] = readBuf[b] /\ deliverer'[b] = "get"
    BY <1>1, <1>7, <2>0, SMTT(30)
  <2>2. y.payload = d.payload /\ y.packetID = d.packetID
    BY <2>0
  <2>3. d.payload <= written[a] /\ d.packetID = (d.payload - 1) % IDSpace
    BY <1>0, <1>4, <1>7, Zenon DEF Wire
  <2>4. Receiver(a)'
    <3>1. \A x \in recvRel[b].entries :
             /\ x.payload > Len(readBuf[b]) /\ x.payload <= Len(readBuf[b]) + NSendBuffers
             /\ x.payload <= written[a] /\ x.packetID = (x.payload - 1) % IDSpace
      BY <1>0, <1>1, Zenon DEF Receiver
    <3>2. \A x \in recvRel'[b].entries :
             /\ x.payload > Len(readBuf[b]) /\ x.payload <= Len(readBuf[b]) + NSendBuffers
             /\ x.payload <= written[a] /\ x.packetID = (x.payload - 1) % IDSpace
      BY <2>1, <2>2, <2>3, <3>1, ZenonT(30)
    <3>3. deliverer'[b] = "get"
      BY <2>1
    <3>4. /\ Len(readBuf[b]) <= written[a] /\ \A k \in 1 .. Len(readBuf[b]) : readBuf[b][k] = k
          /\ recvRel[b].packetID = Len(readBuf[b]) % IDSpace
      BY <1>0, <1>1, Zenon DEF Receiver
    <3> QED BY <1>1, <1>2, <2>1, <3>2, <3>3, <3>4, Zenon DEF Receiver
  <2>5. \A n : Has(b, n)' <=> Has(b, n) \/ n = d.payload
    BY <2>1, <2>2, Zenon DEF Has
  <2>6. Outstanding(a)'
    <3>1. ASSUME NEW f \in Live(a)', f.opcode = "CONTROL_V1"
          PROVE  (\E i \in Filled(a)' : sendRel'[a][i].payload = f) /\ ~ Has(b, f.payload)'
      <4>1. f \in Live(a) /\ f # d
        BY Zenon
      <4>2. f \in Known(a)
        BY <4>1, Zenon DEF Live, Known
      <4>3. f.payload # d.payload
        BY <1>0, <1>4, <1>7, <3>1, <4>1, <4>2, Zenon DEF Wire
      <4>4. (\E i \in Filled(a) : sendRel[a][i].payload = f) /\ ~ Has(b, f.payload)
        BY <1>0, <1>1, <3>1, <4>1, Zenon DEF Outstanding
      <4> QED BY <1>2, <1>5, <2>5, <4>3, <4>4, Zenon
    <3>2. ASSUME NEW n \in Nat, 1 <= n, n <= written'[a]
          PROVE  Has(b, n)' \/ \E i \in Filled(a)' : sendRel'[a][i].payload.payload = n
      <4>1. Has(b, n) \/ \E i \in Filled(a) : sendRel[a][i].payload.payload = n
        BY <1>0, <1>1, <1>2, <3>2, Zenon DEF Outstanding
      <4> QED BY <1>2, <1>5, <2>5, <4>1, Zenon
    <3> QED BY <1>1, <3>1, <3>2, Zenon DEF Outstanding
  <2>7. PICK i \in Filled(a) : sendRel[a][i].payload = d /\ sendRel[a][i].packetID = d.packetID
    BY <1>4, <1>7, HolderOf, Zenon
  <2>8. ~ Stored(a, d.packetID)
    BY <1>4, <1>7, HolderOf, ZenonT(30)
  <2>9. ASSUME NEW x, Stored(a, x) \/ x = d.packetID PROVE Stored(a, x)'
    <3>1. CASE Stored(a, x)
      BY <1>1, <1>2, <1>5, <2>5, <3>1, Zenon DEF Stored
    <3>2. CASE x = d.packetID
      BY <1>1, <1>2, <1>5, <2>5, <2>7, <3>2, Zenon DEF Stored
    <3> QED BY <2>9, <3>1, <3>2
  <2>10. Tokens(a)'
    <3>1. \A x \in Range(acks'[b]) : Stored(a, x)'
      BY <1>0, <1>1, <2>1, <2>9, Zenon DEF Tokens
    <3>2. ASSUME NEW f \in Live(b)', NEW x \in f.acks
          PROVE  Stored(a, x)' /\ x \notin Range(acks'[b])
      <4>1. f \in Live(b)
        BY <1>1
      <4>2. Stored(a, x) /\ x \notin Range(acks[b])
        BY <1>0, <1>1, <4>1, ZenonT(30) DEF Tokens
      <4>3. x # d.packetID
        BY <2>8, <4>2
      <4> QED BY <2>1, <2>9, <4>2, <4>3, Zenon
    <3>3. \A f \in Live(b)' : \A g \in Live(b)' : \A x \in f.acks : x \in g.acks => f = g
      BY <1>0, <1>1, Zenon DEF Tokens
    <3> QED BY <1>1, <3>1, <3>2, <3>3, Zenon DEF Tokens
  <2> QED BY <1>3, <2>4, <2>6, <2>10, Zenon, SMTT(30)
<1> QED
  BY <1>6, <1>7, Zenon, SMTT(30)

=============================================================================
