------------------------ MODULE ControlChannelProofs ------------------------
(***************************************************************************)
(* Proofs about the control channel: its buffers suffice, an empty send    *)
(* window means that the peer has everything, and the two streams are      *)
(* reliable, for all sizes of the windows and all loads.                   *)
(***************************************************************************)
EXTENDS ControlInvariantProofs, FiniteSetTheorems, WellFoundedInduction

-----------------------------------------------------------------------------
(* Resending.                                                              *)

\* A nonempty set of naturals has a least element.
LEMMA LeastNat ==
    ASSUME NEW T, T \subseteq Nat, T # {}
    PROVE  \E m \in T : \A n \in T : m <= n
<1>1. PICK R : R = OpToRel(<, Nat)
  BY Zenon
<1>2. IsWellFoundedOn(R, Nat)
  BY <1>1, NatLessThanWellFounded, Zenon
<1>3. ASSUME NEW m \in Nat, NEW n \in Nat, n < m PROVE <<n, m>> \in R
  BY <1>1, <1>3 DEF OpToRel
<1>4. PICK m \in T : \A n \in T : ~ (<<n, m>> \in R)
  BY <1>2, WFMin, Zenon
<1>5. ASSUME NEW n \in T PROVE m <= n
  <2>1. m \in Nat /\ n \in Nat
    OBVIOUS
  <2>2. ~ (n < m)
    BY <1>3, <1>4, <2>1, Zenon
  <2> QED BY <2>1, <2>2
<1> QED BY <1>5

\* Next gives an id only while every active entry is less than a window behind.
LEMMA WindowOpen ==
    ASSUME NEW e \in Ends, Types, Sender(e), writer[e] = 0, NEW i,
           nextSlot(sendRel[e], packetID[e], i), NEW j \in Active(sendRel[e])
    PROVE  written[e] + 1 < num(e, j) + NSendBuffers
<1> DEFINE T == {num(e, k) : k \in Active(sendRel[e])}
<1>1. written[e] \in Nat /\ Top(e) = written[e] /\ packetID[e] = Top(e) % IDSpace
  BY Zenon DEF Types, Top, Sender
<1>2. \A k \in Active(sendRel[e]) :
        /\ sendRel[e][k].packetID = (num(e, k) - 1) % IDSpace
        /\ num(e, k) \in Nat /\ num(e, k) <= written[e]
        /\ written[e] < num(e, k) + NSendBuffers
  BY <1>1, Zenon DEF Sender
<1>3. T \subseteq Nat /\ T # {}
  BY <1>2, Zenon
<1>4. PICK t \in T : \A n \in T : t <= n
  <2> HIDE DEF T
  <2> QED BY <1>3, LeastNat, Zenon
<1>5. PICK m \in Active(sendRel[e]) : t = num(e, m)
  BY <1>4, Zenon
<1>6. \A k \in Active(sendRel[e]) : t <= num(e, k)
  BY <1>4, Zenon
<1>7. t \in Nat /\ t <= written[e] /\ written[e] < t + NSendBuffers
      /\ sendRel[e][m].packetID = (t - 1) % IDSpace
  BY <1>2, <1>5, Zenon
<1> HIDE DEF T
<1>8. ASSUME NEW k \in Active(sendRel[e])
      PROVE  ~ pidMin(sendRel[e][k].packetID, sendRel[e][m].packetID)
  <2>1. PICK n : n = num(e, k) - 1
    OBVIOUS
  <2>2. n \in Int /\ t - 1 \in Int /\ t - 1 <= n /\ n - (t - 1) < IDSpace \div 2
    BY <1>1, <1>2, <1>6, <1>7, <2>1, Sizes, SMTT(30)
  <2>3. ~ pidMin(n % IDSpace, (t - 1) % IDSpace)
    BY <2>2, NotLess
  <2> QED
    BY <1>2, <1>7, <2>1, <2>3
<1>9. isMin(sendRel[e], m)
  BY <1>8, Zenon DEF isMin
<1>10. m \in Slots
  BY DEF Active
<1>11. pidInRange1(packetID[e], sendRel[e][m].packetID, NSendBuffers)
  BY <1>9, <1>10, Zenon DEF nextSlot
<1>12. subtractPID(written[e] % IDSpace, (t - 1) % IDSpace) = written[e] - (t - 1)
  <2>1. written[e] \in Int /\ t - 1 \in Int /\ t - 1 <= written[e] /\ written[e] - (t - 1) < IDSpace
    BY <1>1, <1>7, Sizes
  <2> QED BY <2>1, Distance
<1>13. written[e] - (t - 1) < NSendBuffers
  BY <1>1, <1>7, <1>11, <1>12 DEF pidInRange1
<1> QED
  BY <1>1, <1>2, <1>6, <1>7, <1>13, Sizes

\* MarkActive and SetPayload change one entry.
LEMMA MarkedSlots ==
    ASSUME NEW slots \in [Slots -> Slot], NEW id \in PacketID, NEW i \in Slots
    PROVE  LET marked == MarkActive(slots, id, i)
           IN  /\ marked \in [Slots -> Slot]
               /\ \A j \in Slots : j # i => marked[j] = slots[j]
               /\ marked[i].active /\ marked[i].packetID = id
               /\ marked[i].payload = slots[i].payload
<1>1. slots[i] \in Slot
  OBVIOUS
<1>2. PICK s : s = [slots[i] EXCEPT !.active = TRUE]
  BY Zenon
<1>3. s \in Slot /\ s.active /\ s.payload = slots[i].payload
  BY <1>1, <1>2, Zenon DEF Slot
<1>4. PICK u : u = [s EXCEPT !.packetID = id]
  BY Zenon
<1>5. u \in Slot /\ u.active /\ u.packetID = id /\ u.payload = slots[i].payload
  BY <1>3, <1>4 DEF Slot
<1>6. MarkActive(slots, id, i) = [slots EXCEPT ![i] = u]
  BY <1>2, <1>4, Zenon DEF MarkActive
<1> QED
  BY <1>5, <1>6

\* writeChunk up to MarkActive preserves the invariant.
LEMMA MarkStep ==
    ASSUME ControlInv, NEW a \in Ends, MarkChunk(a), load' = load
    PROVE  ControlInv'
<1> DEFINE p == Peer(a)
<1>0. /\ sendSeq' = sendSeq /\ acks' = acks /\ written' = written /\ net' = net
      /\ readBuf' = readBuf /\ recvRel' = recvRel /\ deliverer' = deliverer
      /\ replay' = replay /\ inbound' = inbound
  BY DEF MarkChunk, recvVars, wireVars
<1>1. PICK i \in Slots :
         /\ nextSlot(sendRel[a], packetID[a], i)
         /\ sendRel' = [sendRel EXCEPT ![a] = MarkActive(@, packetID[a], i)]
         /\ writer' = [writer EXCEPT ![a] = i]
  BY Zenon DEF MarkChunk
<1>2. /\ writer[a] = 0 /\ written[a] < load.chunks[a]
      /\ packetID' = [packetID EXCEPT ![a] = (@ + 1) % IDSpace]
  BY DEF MarkChunk
<1>3. p \in Ends /\ p # a /\ Peer(p) = a /\ Direction(a) /\ Direction(p)
  BY Peers DEF ControlInv
<1>4. Types
  BY DEF ControlInv
<1> HIDE DEF p
<1>5. /\ sendRel'[p] = sendRel[p] /\ writer'[p] = writer[p] /\ packetID'[p] = packetID[p]
      /\ writer'[a] = i /\ packetID'[a] = (packetID[a] + 1) % IDSpace
      /\ sendRel'[a] = MarkActive(sendRel[a], packetID[a], i)
  BY <1>1, <1>2, <1>3, <1>4 DEF Types
<1>6. /\ \A j \in Slots : j # i => sendRel'[a][j] = sendRel[a][j]
      /\ sendRel'[a] \in [Slots -> Slot]
      /\ sendRel'[a][i].active /\ sendRel'[a][i].packetID = packetID[a]
      /\ sendRel'[a][i].payload = sendRel[a][i].payload
  <2>1. sendRel[a] \in [Slots -> Slot] /\ packetID[a] \in PacketID
    BY <1>4 DEF Types
  <2>2. PICK marked : marked = MarkActive(sendRel[a], packetID[a], i)
    OBVIOUS
  <2>3. /\ marked \in [Slots -> Slot]
        /\ \A j \in Slots : j # i => marked[j] = sendRel[a][j]
        /\ marked[i].active /\ marked[i].packetID = packetID[a]
        /\ marked[i].payload = sendRel[a][i].payload
    BY <2>1, <2>2, MarkedSlots
  <2> QED BY <1>5, <2>2, <2>3, Zenon
<1>7. ~ sendRel[a][i].active
  BY <1>1, Zenon DEF nextSlot
<1>8. \A j \in Slots : sendRel'[a][j].payload = sendRel[a][j].payload
  BY <1>6, Zenon
<1>9. Types'
  <2>1. packetID' \in [Ends -> PacketID]
    <3>1. packetID[a] + 1 \in Int
      BY <1>4 DEF Types, PacketID
    <3>2. (packetID[a] + 1) % IDSpace \in PacketID
      BY <3>1, IdType
    <3> QED BY <1>2, <1>4, <3>2 DEF Types
  <2>2. sendRel' \in [Ends -> [Slots -> Slot]]
    BY <1>1, <1>4, <1>5, <1>6 DEF Types
  <2>3. writer' \in [Ends -> Slots \union {0}]
    BY <1>1, <1>4 DEF Types
  <2> QED BY <1>0, <1>4, <2>1, <2>2, <2>3 DEF Types
<1>10. i # 0 /\ \A j \in Slots : j # 0
  BY DEF Slots
<1>11. /\ Active(sendRel[a])' = Active(sendRel[a]) \union {i}
       /\ Filled(a)' = Filled(a) /\ Filled(a) = Active(sendRel[a]) /\ i \notin Active(sendRel[a])
  <2>1. Active(sendRel[a])' = Active(sendRel[a]) \union {i} /\ i \notin Active(sendRel[a])
    BY <1>6, <1>7, Zenon DEF Active
  <2>2. \A j \in Active(sendRel[a]) : j # 0
    BY <1>10, Zenon DEF Active
  <2> QED BY <1>2, <1>5, <2>1, <2>2, Zenon DEF Filled
<1>12. \A j \in Filled(a) : sendRel'[a][j] = sendRel[a][j] /\ j \in Slots
  BY <1>6, <1>11, Zenon DEF Active
<1>13. /\ \A j \in Active(sendRel[a]) : num(a, j)' = num(a, j)
       /\ num(a, i)' = written[a] + 1 /\ Top(a) = written[a] /\ Top(a)' = written[a] + 1
  <2>1. \A j \in Active(sendRel[a]) : j # i /\ j # 0
    BY <1>10, <1>11, Zenon DEF Active
  <2> QED BY <1>0, <1>2, <1>5, <1>8, <1>10, <1>11, <1>12, <2>1, Zenon DEF num, Top
<1>14. \A e \in Ends : Queued(e)' = Queued(e) /\ Known(e)' = Known(e)
  <2>1. \A e \in Ends : Queued(e)' = Queued(e)
    BY <1>0, Zenon DEF Queued
  <2>2. \A e \in Ends : \A j \in Slots : sendRel'[e][j].payload = sendRel[e][j].payload
    <3>1. \A e \in Ends : e = a \/ e = p
      BY <1>3 DEF Ends
    <3> QED BY <1>5, <1>8, <3>1, Zenon
  <2>3. \A e \in Ends : {sendRel'[e][j].payload : j \in Slots} = {sendRel[e][j].payload : j \in Slots}
    BY <2>2, Zenon
  <2> QED BY <1>0, <2>1, <2>3, Zenon DEF Known
<1>15. \A e \in Ends : Live(e)' = Live(e)
  BY <1>0, <1>14, Zenon DEF Live
<1>16. \A e \in Ends : ReceiverSame(e)
  BY <1>0, Zenon DEF ReceiverSame
<1>17. \A e \in Ends : \A n : Has(e, n)' <=> Has(e, n)
  BY <1>16, HasKept, Zenon
<1>18. SenderSame(p)
  BY <1>0, <1>5, Zenon DEF SenderSame
<1>19. Sender(a)'
  <2>1. Sender(a) /\ written[a] \in Nat
    BY <1>3, <1>4 DEF Direction, Types
  <2>2. packetID'[a] = Top(a)' % IDSpace
    <3>1. packetID[a] = written[a] % IDSpace
      BY <1>13, <2>1, Zenon DEF Sender
    <3>2. ((written[a] % IDSpace) + 1) % IDSpace = (written[a] + 1) % IDSpace
      <4>1. written[a] \in Int /\ IDSpace \in Nat \ {0}
        BY <2>1, Sizes
      <4> QED BY <4>1, ModNext, Zenon
    <3> QED BY <1>5, <1>13, <3>1, <3>2
  <2>3. \A j \in Filled(a)' :
          sendRel'[a][j].payload # Nil /\ sendRel'[a][j].payload.opcode = "CONTROL_V1"
    BY <1>11, <1>12, <2>1, Zenon DEF Sender
  <2>4. ASSUME NEW j \in Active(sendRel[a])
        PROVE  /\ sendRel'[a][j].packetID = (num(a, j) - 1) % IDSpace
               /\ num(a, j) \in Nat /\ 1 <= num(a, j) /\ num(a, j) <= written[a] + 1
               /\ num(a, j) # written[a] + 1
               /\ written[a] + 1 < num(a, j) + NSendBuffers
    <3>1. written[a] + 1 < num(a, j) + NSendBuffers
      BY <1>1, <1>2, <1>4, <2>1, WindowOpen
    <3>2. /\ sendRel'[a][j].packetID = (num(a, j) - 1) % IDSpace
          /\ num(a, j) \in Nat /\ 1 <= num(a, j) /\ num(a, j) <= written[a]
      BY <1>11, <1>12, <1>13, <2>1, Zenon DEF Sender
    <3> QED BY <2>1, <3>1, <3>2
  <2>5. PICK top : top = written[a] + 1
    OBVIOUS
  <2>8. /\ sendRel'[a][i].packetID = (top - 1) % IDSpace
        /\ top \in Nat /\ 1 <= top /\ top <= top /\ top < top + NSendBuffers
    <3>1. sendRel'[a][i].packetID = written[a] % IDSpace
      BY <1>6, <1>13, <2>1, Zenon DEF Sender
    <3>2. top - 1 = written[a]
      BY <2>1, <2>5
    <3>3. top \in Nat /\ 1 <= top /\ top <= top /\ top < top + NSendBuffers
      BY <2>1, <2>5, Sizes
    <3> QED BY <3>1, <3>2, <3>3, Zenon
  <2>6. \A j \in Active(sendRel[a])' :
          /\ sendRel'[a][j].packetID = (num(a, j)' - 1) % IDSpace
          /\ num(a, j)' \in Nat /\ 1 <= num(a, j)' /\ num(a, j)' <= Top(a)'
          /\ Top(a)' < num(a, j)' + NSendBuffers
    <3> SUFFICES ASSUME NEW j \in Active(sendRel[a])'
                 PROVE  /\ sendRel'[a][j].packetID = (num(a, j)' - 1) % IDSpace
                        /\ num(a, j)' \in Nat /\ 1 <= num(a, j)' /\ num(a, j)' <= Top(a)'
                        /\ Top(a)' < num(a, j)' + NSendBuffers
      OBVIOUS
    <3>1. CASE j = i
      <4>1. num(a, j)' = top /\ Top(a)' = top
        BY <1>13, <2>5, <3>1, Zenon
      <4> QED BY <2>8, <3>1, <4>1, Zenon
    <3>2. CASE j \in Active(sendRel[a])
      <4>1. num(a, j)' = num(a, j)
        BY <1>13, <3>2
      <4> QED BY <1>13, <2>4, <3>2, <4>1
    <3> QED BY <1>11, <3>1, <3>2
  <2>7. \A j \in Active(sendRel[a])' : \A k \in Active(sendRel[a])' :
          num(a, j)' = num(a, k)' => j = k
    <3> SUFFICES ASSUME NEW j \in Active(sendRel[a])', NEW k \in Active(sendRel[a])',
                        num(a, j)' = num(a, k)'
                 PROVE  j = k
      OBVIOUS
    <3>1. ASSUME NEW l \in Active(sendRel[a])
          PROVE  num(a, l)' = num(a, l) /\ num(a, l)' # num(a, i)'
      <4>1. num(a, l)' = num(a, l)
        BY <1>13, Zenon
      <4> QED BY <1>13, <2>4, <4>1
    <3>2. CASE j = i \/ k = i
      BY <1>11, <3>1, <3>2
    <3>3. CASE j \in Active(sendRel[a]) /\ k \in Active(sendRel[a])
      BY <2>1, <3>1, <3>3, Zenon DEF Sender
    <3> QED BY <1>11, <3>2, <3>3
  <2> QED BY <2>2, <2>3, <2>6, <2>7, Zenon DEF Sender
<1>20. Outstanding(a)'
  <2>1. Outstanding(a)
    BY <1>3 DEF Direction
  <2> QED BY <1>0, <1>3, <1>11, <1>12, <1>15, <1>17, <2>1, Zenon DEF Outstanding, p
<1>21. Tokens(a)'
  <2>1. \A x : Stored(a, x) => Stored(a, x)'
    BY <1>3, <1>11, <1>12, <1>17, Zenon DEF Stored, p
  <2> QED BY <1>0, <1>3, <1>15, <2>1, TokensStay, Zenon DEF Direction, p
<1>22. Direction(a)'
  <2>1. Bounds(a)'
    BY <1>0, <1>2, <1>3, <1>5, <1>6, Zenon DEF Direction, Bounds
  <2>2. Wire(a)' /\ Queue(a)' /\ Receiver(a)'
    BY <1>0, <1>3, <1>14, <1>16, WireKept, QueueKept, ReceiverKept, Zenon DEF Direction, p
  <2> QED BY <1>19, <1>20, <1>21, <2>1, <2>2, Zenon DEF Direction
<1>23. Direction(p)'
  <2>1. Bounds(p)' /\ Wire(p)' /\ Queue(p)'
    BY <1>0, <1>3, <1>14, <1>18, BoundsKept, WireKept, QueueKept, Zenon DEF Direction
  <2>2. Sender(p)' /\ Receiver(p)'
    BY <1>0, <1>3, <1>16, <1>18, SenderKept, ReceiverKept, Zenon DEF Direction
  <2>3. Outstanding(p)' /\ Tokens(p)'
    BY <1>0, <1>3, <1>15, <1>17, <1>18, OutstandingKept, TokensKept, Zenon DEF Direction
  <2> QED BY <2>1, <2>2, <2>3, Zenon DEF Direction
<1>24. \A e \in Ends : e = a \/ e = p
  BY <1>3 DEF Ends
<1> QED
  BY <1>9, <1>22, <1>23, <1>24, Zenon DEF ControlInv

-----------------------------------------------------------------------------
(* Receiving.                                                              *)

\* Get preserves the invariant: it takes the chunk that follows the stream.
LEMMA GetStep ==
    ASSUME ControlInv, NEW b \in Ends, GetChunk(b), load' = load
    PROVE  ControlInv'
<1>0. /\ UNCHANGED <<load, sendSeq, acks, sendVars, wireVars, net>>
      /\ deliverer' = deliverer /\ deliverer[b] = "get" /\ written' = written
  BY DEF GetChunk, sendVars
<1>1. PICK x \in sequenced(recvRel[b]) :
         /\ recvRel' = [recvRel EXCEPT ![b] = Get(@, x)]
         /\ readBuf' = [readBuf EXCEPT ![b] = Append(@, x.payload)]
  BY Zenon DEF GetChunk
<1>2. PICK a : a = Peer(b)
  OBVIOUS
<1>3. a \in Ends /\ a # b /\ Peer(a) = b /\ Types /\ Receiver(a) /\ Bounds(b)
  BY <1>2, Peers DEF ControlInv, Direction
<1>4. x \in recvRel[b].entries /\ x.packetID = recvRel[b].packetID
  BY <1>1 DEF sequenced
<1>5. PICK c : c = Len(readBuf[b])
  BY Zenon
<1>6. /\ c \in Nat /\ readBuf[b] \in Seq(Nat) /\ x \in Entry /\ x.payload \in Nat
      /\ recvRel[b].entries \subseteq Entry /\ written[a] \in Nat
  BY <1>3, <1>4, <1>5 DEF Types, Entry
<1>7. x.payload = c + 1
  BY <1>3, <1>4, <1>5, EntryNumber, SMTT(30)
<1>8. /\ recvRel'[b] = [packetID |-> (x.packetID + 1) % IDSpace, entries |-> recvRel[b].entries \ {x}]
      /\ recvRel'[a] = recvRel[a]
      /\ readBuf'[b] = Append(readBuf[b], x.payload) /\ readBuf'[a] = readBuf[a]
  BY <1>1, <1>3 DEF Types, Get
<1>9. /\ Len(readBuf'[b]) = c + 1 /\ readBuf'[b] \in Seq(Nat)
      /\ \A k \in 1 .. c : readBuf'[b][k] = readBuf[b][k]
      /\ readBuf'[b][c + 1] = c + 1
  BY <1>5, <1>6, <1>7, <1>8
<1>10. /\ recvRel'[b].entries = recvRel[b].entries \ {x}
       /\ recvRel'[b].packetID = (x.packetID + 1) % IDSpace
  BY <1>8
<1>11. /\ recvRel[b].packetID = c % IDSpace /\ c <= written[a] /\ \A k \in 1 .. c : readBuf[b][k] = k
       /\ \A y \in recvRel[b].entries :
             /\ y.payload > c /\ y.payload <= c + NSendBuffers /\ y.payload <= written[a]
             /\ y.packetID = (y.payload - 1) % IDSpace
  BY <1>3, <1>5, Zenon DEF Receiver
<1>12. recvRel'[b].packetID = (c + 1) % IDSpace
  <2>1. c \in Int /\ IDSpace \in Nat \ {0}
    BY <1>6, Sizes
  <2>2. ((c % IDSpace) + 1) % IDSpace = (c + 1) % IDSpace
    BY <2>1, ModNext, Zenon
  <2> QED BY <1>4, <1>10, <1>11, <2>2, Zenon
<1>13. Types'
  <2>1. (x.packetID + 1) % IDSpace \in PacketID
    <3>1. x.packetID + 1 \in Int
      BY <1>6 DEF Entry, PacketID
    <3> QED BY <3>1, IdType
  <2>2. recvRel' \in [Ends -> [packetID : PacketID, entries : SUBSET Entry]]
    <3>1. Get(recvRel[b], x) \in [packetID : PacketID, entries : SUBSET Entry]
      BY <1>6, <2>1, SMTT(30) DEF Get
    <3> QED BY <1>1, <1>3, <3>1, SMTT(30) DEF Types
  <2>3. readBuf' \in [Ends -> Seq(Nat)]
    BY <1>1, <1>3, <1>8, <1>9, SMTT(30) DEF Types
  <2> QED BY <1>0, <1>3, <2>2, <2>3, Zenon DEF Types, sendVars, wireVars
<1>14. IsFiniteSet(recvRel'[b].entries) /\ Cardinality(recvRel'[b].entries) <= NRecBuffers
  <2>1. IsFiniteSet(recvRel[b].entries) /\ Cardinality(recvRel[b].entries) <= NRecBuffers
    BY <1>3 DEF Bounds
  <2>2. /\ IsFiniteSet(recvRel[b].entries \ {x})
        /\ Cardinality(recvRel[b].entries \ {x}) = Cardinality(recvRel[b].entries) - 1
    BY <1>4, <2>1, FS_RemoveElement, Zenon
  <2>3. Cardinality(recvRel[b].entries) \in Nat
    BY <2>1, FS_CardinalityType
  <2> QED BY <1>10, <2>1, <2>2, <2>3, Sizes, SMTT(30)
<1>15. ASSUME NEW y \in recvRel[b].entries, y # x PROVE y.payload # c + 1
  <2>1. y \in Entry
    BY <1>6
  <2>2. y.payload = x.payload => y.packetID = x.packetID
    BY <1>4, <1>11, Zenon
  <2>3. y.payload # x.payload
    BY <1>6, <1>15, <2>1, <2>2 DEF Entry
  <2> QED BY <1>7, <2>3
<1>16. \A n : n \in 1 .. c + 1 <=> n \in 1 .. c \/ n = c + 1
  BY <1>6
<1>17. ASSUME NEW n PROVE Has(b, n)' <=> Has(b, n)
  <2>1. Has(b, n)' <=> \/ n \in 1 .. c + 1 \/ \E y \in recvRel[b].entries \ {x} : y.payload = n
    BY <1>9, <1>10, Zenon DEF Has
  <2>2. Has(b, n) <=> \/ n \in 1 .. c \/ \E y \in recvRel[b].entries : y.payload = n
    BY <1>5, Zenon DEF Has
  <2>3. (\E y \in recvRel[b].entries : y.payload = n) <=>
           \/ n = c + 1 \/ \E y \in recvRel[b].entries \ {x} : y.payload = n
    BY <1>4, <1>7, Zenon
  <2> QED BY <1>16, <2>1, <2>2, <2>3, Zenon
<1>18. Receiver(a)'
  <2>1. c + 1 <= written[a]
    BY <1>4, <1>6, <1>7, <1>11
  <2>2. \A k \in 1 .. c + 1 : readBuf'[b][k] = k
    BY <1>9, <1>11, <1>16, Zenon
  <2>3. ASSUME NEW y \in recvRel'[b].entries
        PROVE  /\ y.payload > c + 1 /\ y.payload <= c + 1 + NSendBuffers /\ y.payload <= written[a]
               /\ y.packetID = (y.payload - 1) % IDSpace
    <3>1. y \in recvRel[b].entries /\ y # x /\ y.payload \in Nat
      BY <1>6, <1>10 DEF Entry
    <3>2. /\ y.payload > c /\ y.payload <= c + NSendBuffers /\ y.payload <= written[a]
          /\ y.packetID = (y.payload - 1) % IDSpace /\ y.payload # c + 1
      BY <1>11, <1>15, <3>1, ZenonT(30)
    <3>3. y.payload > c + 1 /\ y.payload <= c + 1 + NSendBuffers
      BY <1>6, <3>1, <3>2, Sizes, SMTT(30)
    <3> QED BY <3>2, <3>3, Zenon
  <2> QED BY <1>0, <1>3, <1>9, <1>12, <2>1, <2>2, <2>3, Zenon DEF Receiver
<1> QED
  <2>1. deliverer'[a] = deliverer[a]
    BY <1>0
  <2> QED BY <1>0, <1>2, <1>8, <1>13, <1>14, <1>17, <1>18, <2>1, WindowStep, Zenon

\* A set no two elements of which share a value of f has no more elements than f has
\* values.
LEMMA FewerThanValues ==
    ASSUME NEW S, NEW T, IsFiniteSet(T), NEW f \in [S -> T],
           \A x \in S : \A y \in S : f[x] = f[y] => x = y
    PROVE  IsFiniteSet(S) /\ Cardinality(S) <= Cardinality(T)
<1>1. f \in Injection(S, T)
  BY Zenon DEF Injection, IsInjective
<1> QED
  BY <1>1, FS_Injection

\* Put accepts every chunk in the queue of an end whose pump is between packets.
LEMMA Welcome ==
    ASSUME ControlInv, NEW b \in Ends, deliverer[b] # "get", NEW d \in Queued(Peer(b)),
           d.opcode = "CONTROL_V1"
    PROVE  /\ PutAccepted(recvRel[b], d.packetID)
           /\ d.payload > Len(readBuf[b]) /\ d.payload <= Len(readBuf[b]) + NSendBuffers
<1>1. PICK a : a = Peer(b)
  OBVIOUS
<1>2. a \in Ends /\ a # b /\ Peer(a) = b /\ Types /\ Direction(a) /\ Direction(b)
  BY <1>1, Peers DEF ControlInv
<1>3. d \in Queued(a) /\ d \in Live(a) /\ d \in Known(a)
  BY <1>1, Zenon DEF Live, Known
<1>4. PICK c, n : c = Len(readBuf[b]) /\ n = d.payload
  BY Zenon
<1>5. c \in Nat /\ n \in Nat /\ d \in Datagram /\ written[a] \in Nat
  <2>1. d \in Datagram
    BY <1>2, <1>3, KnownTypes
  <2> QED BY <1>2, <1>4, <2>1, SMTT(30) DEF Types, Datagram
<1>6. n >= 1 /\ n <= written[a] /\ d.packetID = (n - 1) % IDSpace
  BY <1>2, <1>3, <1>4, Zenon DEF Direction, Wire
<1>7. ~ Has(b, n)
  BY <1>2, <1>3, <1>4, Zenon DEF Direction, Outstanding
<1>8. n > c /\ \A y \in recvRel[b].entries : y.payload # n
  <2>1. n \notin 1 .. c /\ \A y \in recvRel[b].entries : y.payload # n
    BY <1>4, <1>7, Zenon DEF Has
  <2> QED BY <1>5, <1>6, <2>1
<1>9. n <= c + NSendBuffers
  <2>1. n <= Top(a)
    BY <1>5, <1>6 DEF Top
  <2>2. Sender(a) /\ Receiver(a) /\ Outstanding(a)
    BY <1>2 DEF Direction
  <2>3. n <= Len(readBuf[Peer(a)]) + NSendBuffers
    BY <1>2, <1>5, <2>1, <2>2, ChunksReach
  <2> QED BY <1>2, <1>4, <2>3
<1>10. /\ recvRel[b].packetID = c % IDSpace
       /\ \A y \in recvRel[b].entries :
             /\ y.payload > c /\ y.payload <= c + NSendBuffers /\ y.payload # c + 1
             /\ y.packetID = (y.payload - 1) % IDSpace
  BY <1>2, <1>4, Zenon DEF Direction, Receiver
<1>11. recvRel[b].entries \subseteq Entry /\ \A y \in Entry : y.payload \in Nat
  BY <1>2 DEF Types, Entry
<1>12. PICK m : m = n - 1
  OBVIOUS
<1>13. m \in Int /\ c \in Int /\ c <= m /\ m - c < NRecBuffers /\ m - c < IDSpace \div 2
  BY <1>5, <1>8, <1>9, <1>12, Sizes, SMTT(30)
<1>14. ~ pidMin(m % IDSpace, c % IDSpace)
  BY <1>13, NotLess
<1>15. pidInRange2(m % IDSpace, c % IDSpace, NRecBuffers)
  BY <1>13, InWindow
<1>16. ASSUME NEW y \in recvRel[b].entries PROVE y.packetID # d.packetID
  <2>1. PICK k : k = y.payload - 1
    OBVIOUS
  <2>2. y.packetID = k % IDSpace /\ y.payload \in Nat /\ y.payload > c /\ y.payload <= c + NSendBuffers
    BY <1>10, <1>11, <2>1, Zenon
  <2>3. k \in Int /\ m \in Int /\ k - m < IDSpace /\ m - k < IDSpace /\ IDSpace \in Nat \ {0}
    BY <1>5, <1>8, <1>9, <1>12, <2>1, <2>2, Sizes, SMTT(30)
  <2>4. (k % IDSpace) = (m % IDSpace) => k = m
    BY <2>3, ModEqual, Zenon
  <2>5. k # m
    BY <1>5, <1>8, <1>12, <2>1, <2>2, SMTT(30)
  <2> QED BY <1>6, <1>12, <2>2, <2>4, <2>5
<1>17. Cardinality(recvRel[b].entries) < NRecBuffers
  <2> DEFINE E == recvRel[b].entries
             f == [y \in E |-> y.payload]
             T == (c + 2) .. (c + NSendBuffers)
  <2>1. f \in [E -> T]
    <3>1. ASSUME NEW y \in E PROVE y.payload \in T
      <4>1. y.payload \in Nat /\ y.payload > c /\ y.payload <= c + NSendBuffers /\ y.payload # c + 1
        BY <1>10, <1>11, Zenon
      <4> QED BY <1>5, <4>1, Sizes
    <3> HIDE DEF E, T
    <3> QED BY <3>1
  <2>2. \A x \in E : \A y \in E : f[x] = f[y] => x = y
    <3>1. ASSUME NEW x \in E, NEW y \in E, x.payload = y.payload PROVE x = y
      <4>1. x.packetID = y.packetID
        BY <1>10, <3>1, Zenon
      <4>2. x \in Entry /\ y \in Entry
        BY <1>11
      <4> QED BY <3>1, <4>1, <4>2 DEF Entry
    <3> QED BY <3>1, Zenon
  <2>3. IsFiniteSet(T) /\ Cardinality(T) = NSendBuffers - 1
    <3>1. PICK lo, hi : lo = c + 2 /\ hi = c + NSendBuffers
      OBVIOUS
    <3>2. lo \in Int /\ hi \in Int
      BY <1>5, <3>1, Sizes
    <3>3. IsFiniteSet(lo .. hi) /\ Cardinality(lo .. hi) = IF lo > hi THEN 0 ELSE hi - lo + 1
      BY <3>2, FS_Interval
    <3>4. (IF lo > hi THEN 0 ELSE hi - lo + 1) = NSendBuffers - 1
      BY <1>5, <3>1, Sizes
    <3> QED BY <3>1, <3>3, <3>4
  <2>4. IsFiniteSet(E) /\ Cardinality(E) <= Cardinality(T)
    <3> HIDE DEF E, f, T
    <3> QED BY <2>1, <2>2, <2>3, FewerThanValues, SMTT(30)
  <2>5. Cardinality(E) \in Nat
    BY <2>4, FS_CardinalityType
  <2> HIDE DEF T
  <2> QED BY <2>3, <2>4, <2>5, Sizes
<1>18. PutAccepted(recvRel[b], d.packetID)
  BY <1>6, <1>10, <1>12, <1>14, <1>15, <1>16, <1>17, Zenon DEF PutAccepted
<1> QED
  BY <1>4, <1>8, <1>9, <1>18

\* What Deliver changes: the ACKs free entries of the send window, and a chunk goes
\* to the receive window and its id to the pending ACKs.
LEMMA DeliverEffects ==
    ASSUME ControlInv, NEW b \in Ends, Deliver(b), NEW d, d = Head(inbound[b])
    PROVE  /\ d \in Queued(Peer(b))
           /\ sendRel' = [sendRel EXCEPT ![b] = Ack(sendRel[b], d.acks)]
           /\ inbound' = [inbound EXCEPT ![b] = Tail(inbound[b])]
           /\ deliverer' = [deliverer EXCEPT ![b] = "get"] /\ deliverer[b] = "idle"
           /\ inbound[b] # <<>>
           /\ sendSeq' = sendSeq /\ packetID' = packetID /\ writer' = writer /\ written' = written
           /\ readBuf' = readBuf /\ replay' = replay /\ net' = net
           /\ \/ d.opcode = "ACK_V1" /\ recvRel' = recvRel /\ acks' = acks
              \/ /\ d.opcode = "CONTROL_V1"
                 /\ recvRel' = [recvRel EXCEPT ![b].entries =
                                  @ \union {[packetID |-> d.packetID, payload |-> d.payload]}]
                 /\ acks' = [acks EXCEPT ![b] = Add(acks[b], d.packetID)]
                 /\ PutAccepted(recvRel[b], d.packetID)
                 /\ d.payload > Len(readBuf[b]) /\ d.payload <= Len(readBuf[b]) + NSendBuffers
<1>1. /\ sendRel' = [sendRel EXCEPT ![b] = Ack(sendRel[b], d.acks)]
      /\ inbound' = [inbound EXCEPT ![b] = Tail(inbound[b])]
      /\ deliverer' = [deliverer EXCEPT ![b] = "get"] /\ deliverer[b] = "idle" /\ inbound[b] # <<>>
      /\ sendSeq' = sendSeq /\ packetID' = packetID /\ writer' = writer /\ written' = written
      /\ readBuf' = readBuf /\ replay' = replay /\ net' = net
  BY DEF Deliver
<1>2. Types /\ inbound[b] \in Seq(Datagram) /\ Peer(Peer(b)) = b /\ Peer(b) \in Ends
      /\ recvRel[b] \in [packetID : PacketID, entries : SUBSET Entry]
  BY Peers DEF ControlInv, Types
<1>3. d \in Queued(Peer(b)) /\ d \in Datagram
  <2>1. 1 \in DOMAIN inbound[b] /\ Head(inbound[b]) = inbound[b][1] /\ inbound[b][1] \in Datagram
    BY <1>1, <1>2
  <2> QED BY <1>2, <2>1, SMTT(30) DEF Queued, Range
<1>4. d.opcode \in {"CONTROL_V1", "ACK_V1"}
  BY <1>3 DEF Datagram
<1>5. CASE d.opcode = "ACK_V1"
  <2>1. recvRel' = recvRel /\ acks' = acks
    BY <1>5 DEF Deliver
  <2> QED BY <1>1, <1>3, <1>5, <2>1, SMTT(30)
<1>6. CASE d.opcode = "CONTROL_V1"
  <2>0. d.opcode # "ACK_V1" /\ deliverer[b] # "get"
    BY <1>1, <1>6
  <2>1. /\ PutAccepted(recvRel[b], d.packetID)
        /\ d.payload > Len(readBuf[b]) /\ d.payload <= Len(readBuf[b]) + NSendBuffers
    BY <1>3, <1>6, <2>0, Welcome, SMTT(30)
  <2>2. /\ recvRel' = [recvRel EXCEPT ![b] = Put(recvRel[b], d.packetID, d.payload)]
        /\ acks' = [acks EXCEPT ![b] = Add(acks[b], d.packetID)]
    BY <2>0, <2>1 DEF Deliver
  <2>3. Put(recvRel[b], d.packetID, d.payload) =
           [recvRel[b] EXCEPT !.entries = @ \union {[packetID |-> d.packetID, payload |-> d.payload]}]
    BY <2>1, Zenon DEF Put
  <2>4. recvRel' = [recvRel EXCEPT ![b].entries =
                      @ \union {[packetID |-> d.packetID, payload |-> d.payload]}]
    BY <2>2, <2>3, Zenon
  <2> QED BY <1>1, <1>3, <1>6, <2>1, <2>2, <2>4, Zenon
<1> QED
  BY <1>4, <1>5, <1>6, SMTT(30)

\* pump takes a packet.
LEMMA DeliverStep ==
    ASSUME ControlInv, NEW b \in Ends, Deliver(b), load' = load
    PROVE  ControlInv'
<1>0. PICK d : d = Head(inbound[b])
  OBVIOUS
<1>1. PICK a : a = Peer(b)
  OBVIOUS
<1>2. a \in Ends /\ a # b /\ Peer(a) = b /\ Types /\ Direction(a) /\ Direction(b)
  BY <1>1, Peers DEF ControlInv
<1>3. /\ d \in Queued(a)
      /\ sendRel' = [sendRel EXCEPT ![b] = Ack(sendRel[b], d.acks)]
      /\ inbound' = [inbound EXCEPT ![b] = Tail(inbound[b])]
      /\ deliverer' = [deliverer EXCEPT ![b] = "get"] /\ deliverer[b] = "idle"
      /\ inbound[b] # <<>>
      /\ sendSeq' = sendSeq /\ packetID' = packetID /\ writer' = writer /\ written' = written
      /\ readBuf' = readBuf /\ replay' = replay /\ net' = net
  BY <1>0, <1>1, DeliverEffects
<1>4. \/ d.opcode = "ACK_V1" /\ recvRel' = recvRel /\ acks' = acks
      \/ /\ d.opcode = "CONTROL_V1"
         /\ recvRel' = [recvRel EXCEPT ![b].entries =
                          @ \union {[packetID |-> d.packetID, payload |-> d.payload]}]
         /\ acks' = [acks EXCEPT ![b] = Add(acks[b], d.packetID)]
         /\ PutAccepted(recvRel[b], d.packetID)
         /\ d.payload > Len(readBuf[b]) /\ d.payload <= Len(readBuf[b]) + NSendBuffers
  BY <1>0, <1>1, DeliverEffects
<1>5. d \in Live(a) /\ d \in Known(a) /\ d \in Datagram
  <2>1. d \in Live(a) /\ d \in Known(a)
    BY <1>3, Zenon DEF Live, Known
  <2> QED BY <1>2, <2>1, KnownTypes
<1>6. /\ sendRel[b] \in [Slots -> Slot] /\ inbound[b] \in Seq(Datagram) /\ acks[b] \in Seq(PacketID)
      /\ recvRel[b] \in [packetID : PacketID, entries : SUBSET Entry]
      /\ d.packetID \in PacketID /\ d.payload \in Nat
  BY <1>2, <1>5, ZenonT(30) DEF Types, Datagram
<1>7. /\ Tail(inbound[b]) \in Seq(Datagram) /\ Len(Tail(inbound[b])) = Len(inbound[b]) - 1
      /\ IsInjective(Tail(inbound[b]))
      /\ Range(Tail(inbound[b])) \subseteq Range(inbound[b]) \ {d}
  <2>1. IsInjective(inbound[b])
    BY <1>2, ZenonT(30) DEF Direction, Queue
  <2> QED BY <1>0, <1>3, <1>6, <2>1, TailRest, SMTT(30)
<1>8. /\ sendRel'[b] = Ack(sendRel[b], d.acks) /\ sendRel'[a] = sendRel[a]
      /\ inbound'[b] = Tail(inbound[b]) /\ inbound'[a] = inbound[a]
      /\ deliverer'[b] = "get" /\ deliverer'[a] = deliverer[a]
  BY <1>2, <1>3 DEF Types
<1>9. recvRel'[a] = recvRel[a] /\ acks'[a] = acks[a]
  BY <1>2, <1>4 DEF Types
<1>10. \/ d.opcode = "ACK_V1" /\ recvRel'[b] = recvRel[b] /\ acks'[b] = acks[b]
       \/ /\ d.opcode = "CONTROL_V1"
          /\ recvRel'[b] = [recvRel[b] EXCEPT !.entries =
                              @ \union {[packetID |-> d.packetID, payload |-> d.payload]}]
          /\ acks'[b] = Add(acks[b], d.packetID)
          /\ PutAccepted(recvRel[b], d.packetID)
          /\ d.payload > Len(readBuf[b]) /\ d.payload <= Len(readBuf[b]) + NSendBuffers
  BY <1>2, <1>4, ZenonT(30) DEF Types
<1>11. IsInjective(acks[b]) /\ IsFiniteSet(recvRel[b].entries)
       /\ Cardinality(recvRel[b].entries) <= NRecBuffers
  BY <1>2, Zenon DEF Direction, Bounds
<1>12. /\ recvRel'[b] \in [packetID : PacketID, entries : SUBSET Entry]
       /\ acks'[b] \in Seq(PacketID) /\ IsInjective(acks'[b])
       /\ IsFiniteSet(recvRel'[b].entries) /\ Cardinality(recvRel'[b].entries) <= NRecBuffers
       /\ \/ /\ d.opcode = "ACK_V1" /\ recvRel'[b] = recvRel[b]
             /\ Range(acks'[b]) = Range(acks[b])
          \/ /\ d.opcode = "CONTROL_V1"
             /\ recvRel'[b].packetID = recvRel[b].packetID
             /\ recvRel'[b].entries = recvRel[b].entries
                  \union {[packetID |-> d.packetID, payload |-> d.payload]}
             /\ Range(acks'[b]) = Range(acks[b]) \union {d.packetID}
             /\ d.payload > Len(readBuf[b])
             /\ d.payload <= Len(readBuf[b]) + NSendBuffers
  <2>1. CASE d.opcode = "ACK_V1"
    BY <1>6, <1>10, <1>11, <2>1, SMTT(30)
  <2>2. CASE d.opcode = "CONTROL_V1"
    <3>0. PICK y : y = [packetID |-> d.packetID, payload |-> d.payload]
      BY Zenon
    <3>1. /\ recvRel'[b] = [recvRel[b] EXCEPT !.entries = @ \union {y}]
          /\ acks'[b] = Add(acks[b], d.packetID) /\ PutAccepted(recvRel[b], d.packetID)
          /\ d.payload > Len(readBuf[b]) /\ d.payload <= Len(readBuf[b]) + NSendBuffers
      BY <1>10, <2>2, <3>0, SMTT(30)
    <3>2. y \in Entry
      BY <1>6, <3>0 DEF Entry
    <3>3. /\ recvRel'[b].packetID = recvRel[b].packetID
          /\ recvRel'[b].entries = recvRel[b].entries \union {y}
          /\ recvRel'[b] \in [packetID : PacketID, entries : SUBSET Entry]
      BY <1>6, <3>1, <3>2
    <3>4. /\ acks'[b] \in Seq(PacketID) /\ IsInjective(acks'[b])
          /\ Range(acks'[b]) = Range(acks[b]) \union {d.packetID}
      BY <1>6, <1>11, <3>1, AddOnce, ZenonT(30)
    <3>5. Cardinality(recvRel[b].entries) < NRecBuffers
          /\ \A x \in recvRel[b].entries : x.packetID # d.packetID
      BY <3>1, SMTT(30) DEF PutAccepted
    <3>6. y \notin recvRel[b].entries
      BY <3>0, <3>5, SMTT(30)
    <3>7. /\ IsFiniteSet(recvRel[b].entries \union {y})
          /\ Cardinality(recvRel[b].entries \union {y}) = Cardinality(recvRel[b].entries) + 1
      BY <1>11, <3>6, FS_AddElement, SMTT(30)
    <3>8. Cardinality(recvRel[b].entries) \in Nat
      BY <1>11, FS_CardinalityType, SMTT(30)
    <3>9. IsFiniteSet(recvRel'[b].entries) /\ Cardinality(recvRel'[b].entries) <= NRecBuffers
      BY <3>3, <3>5, <3>7, <3>8, Sizes, SMTT(30)
    <3> QED BY <2>2, <3>0, <3>1, <3>3, <3>4, <3>9, SMTT(30)
  <2> QED BY <1>10, <2>1, <2>2, SMTT(30)
<1>13. Types'
  <2>1. Ack(sendRel[b], d.acks) \in [Slots -> Slot]
    BY <1>6, AckedSlots, SMTT(30)
  <2>2. sendRel' \in [Ends -> [Slots -> Slot]]
    BY <1>2, <1>3, <2>1, ZenonT(30) DEF Types
  <2>3. inbound' \in [Ends -> Seq(Datagram)]
    BY <1>2, <1>3, <1>7, SMTT(30) DEF Types
  <2>4. deliverer' \in [Ends -> {"idle", "get", "flush"}]
    BY <1>2, <1>3, Zenon DEF Types
  <2>5. recvRel' = [recvRel EXCEPT ![b] = recvRel'[b]] /\ acks' = [acks EXCEPT ![b] = acks'[b]]
    BY <1>2, <1>4 DEF Types
  <2>6. /\ recvRel' \in [Ends -> [packetID : PacketID, entries : SUBSET Entry]]
        /\ acks' \in [Ends -> Seq(PacketID)]
    BY <1>2, <1>12, <2>5, Zenon DEF Types
  <2> QED BY <1>2, <1>3, <2>2, <2>3, <2>4, <2>6, Zenon DEF Types
<1>14. Queued(a)' \subseteq Queued(a) \ {d} /\ Queued(b)' = Queued(b)
  BY <1>1, <1>2, <1>7, <1>8, ZenonT(30) DEF Queued
<1>15. \A i \in Slots : sendRel'[b][i].payload = sendRel[b][i].payload
  BY <1>6, <1>8, AckedSlots
<1>16. Known(b)' \subseteq Known(b)
  <2>1. \A i \in Slots : sendRel'[b][i].payload \in Known(b) \union {Nil}
    BY <1>15, Zenon DEF Known
  <2>2. Queued(b)' \subseteq Known(b) /\ \A f \in net' : f.from = b => f \in Known(b)
    BY <1>3, <1>14, Zenon DEF Known
  <2> QED BY <2>1, <2>2, KnownKept, Zenon
<1>17. Known(a)' \subseteq Known(a)
  <2>1. \A i \in Slots : sendRel'[a][i].payload \in Known(a) \union {Nil}
    BY <1>8, Zenon DEF Known
  <2>2. Queued(a)' \subseteq Known(a) /\ \A f \in net' : f.from = a => f \in Known(a)
    BY <1>3, <1>14, Zenon DEF Known
  <2> QED BY <1>2, <2>1, <2>2, KnownKept, Zenon
<1>18. Live(b)' \subseteq Live(b)
  BY <1>3, <1>14, <1>16, LiveKept, Zenon
<1>19. Live(a)' \subseteq Live(a) \ {d}
  <2>1. ~ acceptable(replay[b], d.seq)
    BY <1>2, <1>3, Zenon DEF Direction, Queue, Refuses
  <2> QED BY <1>2, <1>3, <1>14, <1>17, <2>1, Zenon DEF Live
<1>20. /\ SenderSame(a) /\ ReceiverSame(a)
  BY <1>3, <1>8, <1>9, Zenon DEF SenderSame, ReceiverSame
<1>21. Direction(a)'
  <2>1. Bounds(a)'
    BY <1>2, <1>8, <1>9, <1>20, BoundsKept, Zenon DEF Direction
  <2>2. Queue(a)'
    <3>1. Refuses(replay[b], {f.seq : f \in Queued(a)})
      BY <1>2, Zenon DEF Direction, Queue
    <3>2. Refuses(replay'[b], {f.seq : f \in Queued(a)'})
      BY <1>3, <1>14, <3>1, Zenon DEF Refuses
    <3>3. IsInjective(inbound'[b])
      BY <1>7, <1>8
    <3> QED BY <1>2, <3>2, <3>3, Zenon DEF Queue
  <2>3. Wire(a)' /\ Sender(a)' /\ Receiver(a)' /\ Outstanding(a)' /\ Tokens(a)'
    <3>1. readBuf'[b] = readBuf[b] /\ sendSeq'[a] = sendSeq[a]
      BY <1>3
    <3>2. Live(b)' \subseteq Live(b)
      BY <1>18
    <3> QED BY <1>1, <1>2, <1>3, <1>8, <1>12, <1>17, <1>19, <1>20, <3>1, <3>2, StoredDirection, Zenon
  <2> QED BY <2>1, <2>2, <2>3, Zenon DEF Direction
<1>22. Direction(b)'
  <2>1. /\ Wire(b)' /\ Queue(b)' /\ Sender(b)' /\ Receiver(b)' /\ Outstanding(b)' /\ Tokens(b)'
        /\ written'[b] <= load'.chunks[b]
        /\ writer'[b] # 0 => written'[b] < load'.chunks[b] /\ sendRel'[b][writer'[b]].active
    <3>1. /\ writer'[b] = writer[b] /\ written'[b] = written[b] /\ packetID'[b] = packetID[b]
          /\ sendSeq'[b] = sendSeq[b] /\ replay'[a] = replay[a]
      BY <1>3
    <3> QED BY <1>1, <1>2, <1>5, <1>8, <1>9, <1>16, <1>18, <1>19, <1>20, <3>1, AckedDirection, Zenon
  <2>2. Len(inbound'[b]) <= inboundQueueSize
    <3>1. Len(inbound[b]) <= inboundQueueSize
      BY <1>2 DEF Direction, Bounds
    <3>2. Len(inbound[b]) \in Nat /\ inboundQueueSize \in Nat
      BY <1>6, LoadsAssumption
    <3> QED BY <1>7, <1>8, <3>1, <3>2, SMTT(30)
  <2>3. Bounds(b)'
    BY <1>12, <2>1, <2>2, Zenon DEF Bounds
  <2> QED BY <2>1, <2>3, Zenon DEF Direction
<1>23. \A e \in Ends : e = a \/ e = b
  BY <1>2 DEF Ends
<1> QED
  BY <1>13, <1>21, <1>22, <1>23, Zenon DEF ControlInv

-----------------------------------------------------------------------------
(* The theorems.                                                           *)

\* Nothing has been sent at the beginning.
LEMMA ControlInit == Init => ControlInv
<1> SUFFICES ASSUME Init PROVE ControlInv
  OBVIOUS
<1>1. 0 \in PacketID /\ newReplayWindow \in replayWindow
  BY Sizes DEF PacketID, newReplayWindow, replayWindow
<1>2. newSlots(Nil) \in [Slots -> Slot]
  BY <1>1 DEF newSlots, Slot, Payload
<1>3. Types
  <2>1. load.chunks \in [Ends -> Nat]
    BY LoadsAssumption DEF Init
  <2>2. /\ sendRel \in [Ends -> [Slots -> Slot]] /\ replay \in [Ends -> replayWindow]
    BY <1>1, <1>2 DEF Init
  <2> QED BY <1>1, <2>1, <2>2, SMTT(30) DEF Types, Init
<1>4. ASSUME NEW e \in Ends PROVE Direction(e)
  <2>1. PICK p : p = Peer(e)
    OBVIOUS
  <2>2. p \in Ends
    BY <2>1, Peers
  <2>3. /\ sendRel[e] = newSlots(Nil) /\ packetID[e] = 0 /\ writer[e] = 0 /\ written[e] = 0
        /\ recvRel[e].entries = {} /\ recvRel[p].entries = {} /\ recvRel[p].packetID = 0
        /\ acks[e] = <<>> /\ acks[p] = <<>> /\ inbound[e] = <<>> /\ inbound[p] = <<>>
        /\ readBuf[p] = <<>> /\ net = {} /\ sendSeq[e] = 0
    BY <2>2 DEF Init
  <2>4. Active(sendRel[e]) = {} /\ Filled(e) = {}
    BY <2>3 DEF newSlots, Active, Filled
  <2>5. \A i \in Slots : sendRel[e][i].payload = Nil
    BY <2>3 DEF newSlots
  <2>6. Range(<<>>) = {} /\ IsInjective(<<>>) /\ Len(<<>>) = 0
    BY DEF Range, IsInjective
  <2>7. Known(e) = {} /\ Queued(e) = {}
    BY <2>1, <2>3, <2>5, <2>6, Zenon DEF Known, Queued
  <2>8. Live(e) = {}
    BY <2>7, Zenon DEF Live
  <2>9. Live(p) = {}
    <3>1. \A i \in Slots : sendRel[p][i].payload = Nil
      BY <2>2 DEF Init, newSlots
    <3>2. Peer(p) = e
      BY <2>1, Peers
    <3> QED BY <2>3, <2>6, <3>1, <3>2, ZenonT(30) DEF Known, Queued, Live
  <2>10. Bounds(e)
    <3>1. Cardinality({}) = 0 /\ IsFiniteSet({})
      BY FS_EmptySet, SMTT(30)
    <3>2. load.chunks[e] \in Nat /\ inboundQueueSize \in Nat
      BY <1>3, LoadsAssumption DEF Types
    <3>3. 0 <= load.chunks[e] /\ 0 <= inboundQueueSize /\ 0 <= NRecBuffers
      BY <3>2, Sizes
    <3> QED BY <2>3, <2>6, <3>1, <3>3, Zenon DEF Bounds
  <2>11. Wire(e) /\ Queue(e)
    BY <2>1, <2>3, <2>6, <2>7, Zenon DEF Wire, Queue, Refuses
  <2>12. 0 % IDSpace = 0
    BY Sizes, ModSmall
  <2>13. Sender(e)
    BY <2>3, <2>4, <2>12, Zenon DEF Sender, Top
  <2>14. Receiver(e)
    <3>1. 0 <= 0 /\ \A k \in 1 .. 0 : FALSE
      OBVIOUS
    <3> QED BY <2>1, <2>3, <2>6, <2>12, <3>1, Zenon DEF Receiver
  <2>15. Outstanding(e)
    <3>1. \A n \in Nat : ~ (1 <= n /\ n <= 0)
      OBVIOUS
    <3> QED BY <2>3, <2>8, <3>1, Zenon DEF Outstanding
  <2>16. Tokens(e)
    BY <2>1, <2>3, <2>6, <2>9, Zenon DEF Tokens
  <2> QED BY <2>10, <2>11, <2>13, <2>14, <2>15, <2>16, SMTT(30) DEF Direction
<1> QED
  BY <1>3, <1>4, Zenon DEF ControlInv

\* Every step of either end or of the network preserves the invariant.
LEMMA ControlNext == ControlInv /\ [Next]_vars => ControlInv'
<1> SUFFICES ASSUME ControlInv, [Next]_vars PROVE ControlInv'
  OBVIOUS
<1>0. Types /\ net \subseteq Datagram
  BY DEF ControlInv, Types
<1>1. \A d \in net : d \in Known(d.from)
  BY Zenon DEF Known
<1>2. ASSUME NEW e \in Ends, Step(e), load' = load PROVE ControlInv'
  BY <1>2, MarkStep, SendStep, DeliverStep, GetStep, PeekStep, FlushStep, Zenon DEF Step
<1>3. ASSUME NEW e \in Ends, Close(e), load' = load PROVE ControlInv'
  <2>1. UNCHANGED <<load, sendSeq, acks, sendVars, recvVars, wireVars>> /\ net' = net
    BY <1>3 DEF Close
  <2> QED BY <1>0, <1>1, <2>1, NetworkStep, Zenon
<1>4. ASSUME NEW e \in Ends, NEW i \in Slots, Retransmit(e, i), load' = load PROVE ControlInv'
  <2>1. /\ UNCHANGED <<load, sendSeq, acks, sendVars, recvVars, wireVars>>
        /\ sendRel[e][i].payload # Nil /\ net' = net \union {sendRel[e][i].payload}
    BY <1>4 DEF Retransmit, transmit
  <2>2. sendRel[e][i].payload \in Known(e)
    BY <2>1, Zenon DEF Known
  <2>3. sendRel[e][i].payload \in Datagram /\ sendRel[e][i].payload.from = e
    <3>1. Known(e) \subseteq Datagram
      BY <1>0, KnownTypes
    <3> QED BY <2>2, <3>1, Zenon DEF ControlInv, Direction, Wire
  <2>4. net' \subseteq Datagram /\ \A d \in net' : d \in Known(d.from)
    BY <1>0, <1>1, <2>1, <2>2, <2>3, Zenon
  <2> QED BY <2>1, <2>4, NetworkStep, Zenon
<1>5. ASSUME NEW d \in net, Lose(d), load' = load PROVE ControlInv'
  <2>1. UNCHANGED <<load, sendSeq, acks, sendVars, recvVars, wireVars>> /\ net' \subseteq net
    BY <1>5 DEF Lose
  <2>2. net' \subseteq Datagram /\ \A f \in net' : f \in Known(f.from)
    BY <1>0, <1>1, <2>1, Zenon
  <2> QED BY <2>1, <2>2, NetworkStep, Zenon
<1>6. CASE UNCHANGED vars
  <2>1. UNCHANGED <<load, sendSeq, acks, sendVars, recvVars, wireVars>> /\ net' = net
    BY <1>6 DEF vars
  <2> QED BY <1>0, <1>1, <2>1, NetworkStep, Zenon
<1> QED
  BY <1>2, <1>3, <1>4, <1>5, <1>6, ReceiveStep, Zenon DEF Next, Keeping

\* The two directions of a control connection keep the invariant, whatever the
\* network loses, duplicates or reorders.
THEOREM ControlCorrect == Spec => []ControlInv
BY ControlInit, ControlNext, PTL DEF Spec

\* What maps the elements of a set to entries of a send window, apart from one
\* another, has at most NSendBuffers elements.
LEMMA WindowfulAtMost ==
    ASSUME NEW S, NEW f \in [S -> Slots], \A x \in S : \A y \in S : f[x] = f[y] => x = y
    PROVE  Cardinality(S) <= NSendBuffers
<1>1. PICK lo, hi : lo = 1 /\ hi = NSendBuffers
  OBVIOUS
<1>2. lo \in Int /\ hi \in Int
  BY <1>1, Sizes
<1>3. IsFiniteSet(lo .. hi) /\ Cardinality(lo .. hi) = IF lo > hi THEN 0 ELSE hi - lo + 1
  BY <1>2, FS_Interval
<1>4. IsFiniteSet(Slots) /\ Cardinality(Slots) = NSendBuffers
  BY <1>1, <1>3, Sizes DEF Slots
<1>5. Cardinality(S) <= Cardinality(Slots)
  BY <1>4, FewerThanValues
<1> QED
  BY <1>4, <1>5

\* The bounds of the type invariant.
LEMMA TypesFollow == ControlInv => TypeOK
<1> SUFFICES ASSUME ControlInv, NEW e \in Ends
             PROVE  /\ sendSeq[e] \in Nat /\ written[e] \in 0 .. load.chunks[e]
                    /\ replay[e] \in replayWindow
                    /\ writer[e] \in {0} \union Active(sendRel[e])
                    /\ packetID[e] \in PacketID /\ recvRel[e].packetID \in PacketID
                    /\ Cardinality(recvRel[e].entries) <= NRecBuffers
                    /\ IsInjective(acks[e])
                    /\ Len(inbound[e]) <= inboundQueueSize
                    /\ deliverer[e] \in {"idle", "get", "flush"}
  BY Zenon DEF TypeOK
<1>1. Types /\ Bounds(e)
  BY SMTT(30) DEF ControlInv, Direction
<1>2. /\ sendSeq[e] \in Nat /\ replay[e] \in replayWindow /\ packetID[e] \in PacketID
      /\ recvRel[e].packetID \in PacketID /\ deliverer[e] \in {"idle", "get", "flush"}
      /\ written[e] \in Nat /\ load.chunks[e] \in Nat /\ writer[e] \in Slots \union {0}
  BY <1>1 DEF Types
<1>3. written[e] \in 0 .. load.chunks[e]
  BY <1>1, <1>2 DEF Bounds
<1>4. writer[e] \in {0} \union Active(sendRel[e])
  BY <1>1, <1>2, ZenonT(30) DEF Bounds, Active
<1> QED
  BY <1>1, <1>2, <1>3, <1>4, Zenon DEF Bounds

\* The ids of the send window are within the receive window or just behind it.
LEMMA WindowFollows == ControlInv => WindowFits
<1> SUFFICES ASSUME ControlInv, NEW e \in Ends, NEW i \in Active(sendRel[e]),
                    deliverer[Peer(e)] # "get"
             PROVE  LET ahead == subtractPID(sendRel[e][i].packetID, recvRel[Peer(e)].packetID)
                    IN  ahead < NRecBuffers \/ ahead >= IDSpace - NSendBuffers
  BY ZenonT(30) DEF WindowFits
<1>1. Types /\ Sender(e) /\ Receiver(e) /\ Outstanding(e) /\ Peer(e) \in Ends
  BY Peers DEF ControlInv, Direction
<1>2. PICK c, m : c = Len(readBuf[Peer(e)]) /\ m = num(e, i) - 1
  BY Zenon
<1>3. /\ sendRel[e][i].packetID = m % IDSpace /\ num(e, i) \in Nat
      /\ num(e, i) <= Top(e) /\ Top(e) < num(e, i) + NSendBuffers
  BY <1>1, <1>2, Zenon DEF Sender
<1>4. recvRel[Peer(e)].packetID = c % IDSpace /\ c <= written[e]
  BY <1>1, <1>2, ZenonT(30) DEF Receiver
<1>5. c \in Nat /\ written[e] \in Nat /\ Top(e) \in Nat /\ written[e] <= Top(e)
  BY <1>1, <1>2, SMTT(30) DEF Types, Top
<1>6. num(e, i) <= c + NSendBuffers
  BY <1>1, <1>2, <1>3, ChunksReach, SMTT(30)
<1>7. CASE c <= m
  <2>1. m \in Int /\ c \in Int /\ m - c < IDSpace /\ m - c < NRecBuffers
    <3>1. PICK s, w, d : s = IDSpace /\ w = NRecBuffers /\ d = NSendBuffers
      OBVIOUS
    <3>2. s \in Nat /\ w \in Nat /\ d \in Nat /\ d <= w /\ w < s
      BY <3>1, Sizes
    <3>3. m \in Int /\ c \in Int /\ m - c < d
      BY <1>2, <1>3, <1>5, <1>6, <3>1, <3>2, SMTT(30)
    <3> QED BY <3>1, <3>2, <3>3
  <2>2. subtractPID(m % IDSpace, c % IDSpace) = m - c
    BY <1>7, <2>1, Distance, SMTT(30)
  <2> QED BY <1>3, <1>4, <2>1, <2>2
<1>8. CASE m < c
  <2>1. m \in Int /\ c \in Int /\ c - m <= IDSpace /\ c - m <= NSendBuffers
    <3>1. PICK n, t, w : n = num(e, i) /\ t = Top(e) /\ w = written[e]
      BY Zenon
    <3>2. n \in Nat /\ t \in Nat /\ w \in Nat /\ c \in Nat
      BY <1>3, <1>5, <3>1, Zenon
    <3>3. m = n - 1 /\ t < n + NSendBuffers /\ c <= w /\ w <= t
      BY <1>2, <1>3, <1>4, <1>5, <3>1, Zenon
    <3> QED BY <3>2, <3>3, Sizes
  <2>2. subtractPID(m % IDSpace, c % IDSpace) = IDSpace - (c - m)
    BY <1>8, <2>1, DistanceBack
  <2>3. IDSpace - (c - m) >= IDSpace - NSendBuffers
    BY <2>1, Sizes, SMTT(30)
  <2> QED BY <1>3, <1>4, <2>2, <2>3, SMTT(30)
<1> QED
  BY <1>2, <1>3, <1>5, <1>7, <1>8, SMTT(30)

\* Put takes what is queued.
LEMMA WelcomeFollows == ControlInv => ChunksWelcome
<1> SUFFICES ASSUME ControlInv, NEW e \in Ends, NEW k \in DOMAIN inbound[e],
                    deliverer[e] = "idle", inbound[e][k].opcode = "CONTROL_V1"
             PROVE  PutAccepted(recvRel[e], inbound[e][k].packetID)
  BY Zenon DEF ChunksWelcome
<1>1. inbound[e][k] \in Queued(Peer(e))
  BY Peers DEF Queued, Range
<1>2. deliverer[e] # "get"
  OBVIOUS
<1> QED
  BY <1>1, <1>2, Welcome

\* The queue holds at most one datagram for an entry of a send window, of either kind.
LEMMA QueueFollows == ControlInv => QueueHolds
<1> SUFFICES ASSUME ControlInv, NEW e \in Ends
             PROVE  /\ Cardinality({k \in DOMAIN inbound[e] : inbound[e][k].opcode = "CONTROL_V1"})
                          <= NSendBuffers
                    /\ Cardinality({k \in DOMAIN inbound[e] : inbound[e][k].acks # {}})
                          <= NSendBuffers
  BY Zenon DEF QueueHolds
<1>1. PICK a : a = Peer(e)
  OBVIOUS
<1>2. a \in Ends /\ Peer(a) = e /\ Direction(a) /\ Direction(e)
  BY <1>1, Peers DEF ControlInv
<1>3. \A k \in DOMAIN inbound[e] : inbound[e][k] \in Live(a)
  BY <1>2, Zenon DEF Live, Queued, Range
<1>4. IsInjective(inbound[e])
  BY <1>2, Zenon DEF Direction, Queue
<1>5. Filled(e) \subseteq Slots /\ Filled(a) \subseteq Slots
  BY Zenon DEF Filled, Active
<1>6. Cardinality({k \in DOMAIN inbound[e] : inbound[e][k].opcode = "CONTROL_V1"}) <= NSendBuffers
  <2> DEFINE S == {k \in DOMAIN inbound[e] : inbound[e][k].opcode = "CONTROL_V1"}
             f == [k \in S |-> CHOOSE i \in Slots : sendRel[a][i].payload = inbound[e][k]]
  <2>1. ASSUME NEW k \in S PROVE f[k] \in Slots /\ sendRel[a][f[k]].payload = inbound[e][k]
    <3>1. \E i \in Slots : sendRel[a][i].payload = inbound[e][k]
      BY <1>2, <1>3, <1>5, Zenon DEF Direction, Outstanding
    <3>2. f[k] = CHOOSE i \in Slots : sendRel[a][i].payload = inbound[e][k]
      BY Zenon
    <3> HIDE DEF f
    <3> QED BY <3>1, <3>2, Zenon
  <2>2. f \in [S -> Slots]
    <3>1. \A k \in S : (CHOOSE i \in Slots : sendRel[a][i].payload = inbound[e][k]) \in Slots
      BY <2>1, Zenon
    <3> HIDE DEF S
    <3> QED BY <3>1
  <2>3. S \subseteq DOMAIN inbound[e]
    OBVIOUS
  <2> HIDE DEF f, S
  <2>4. \A x \in S : \A y \in S : f[x] = f[y] => x = y
    BY <1>4, <2>1, <2>3, Zenon DEF IsInjective
  <2>5. Cardinality(S) <= NSendBuffers
    BY <2>2, <2>4, WindowfulAtMost
  <2> QED BY <2>5 DEF S
<1>7. Cardinality({k \in DOMAIN inbound[e] : inbound[e][k].acks # {}}) <= NSendBuffers
  <2> DEFINE S == {k \in DOMAIN inbound[e] : inbound[e][k].acks # {}}
             f == [k \in S |-> CHOOSE i \in Slots : sendRel[e][i].packetID \in inbound[e][k].acks]
  <2>1. ASSUME NEW k \in S PROVE f[k] \in Slots /\ sendRel[e][f[k]].packetID \in inbound[e][k].acks
    <3>1. \E i \in Slots : sendRel[e][i].packetID \in inbound[e][k].acks
      <4>1. PICK x \in inbound[e][k].acks : TRUE
        OBVIOUS
      <4>2. Stored(e, x)
        BY <1>1, <1>2, <1>3, Zenon DEF Direction, Tokens
      <4> QED BY <1>5, <4>2, Zenon DEF Stored
    <3>2. f[k] = CHOOSE i \in Slots : sendRel[e][i].packetID \in inbound[e][k].acks
      BY Zenon
    <3> HIDE DEF f
    <3> QED BY <3>1, <3>2, Zenon
  <2>2. f \in [S -> Slots]
    <3>1. \A k \in S : (CHOOSE i \in Slots : sendRel[e][i].packetID \in inbound[e][k].acks) \in Slots
      BY <2>1, Zenon
    <3> HIDE DEF S
    <3> QED BY <3>1
  <2>3. S \subseteq DOMAIN inbound[e]
    OBVIOUS
  <2> HIDE DEF f, S
  <2>4. ASSUME NEW x \in S, NEW y \in S, f[x] = f[y] PROVE x = y
    <3>1. inbound[e][x] \in Live(a) /\ inbound[e][y] \in Live(a)
      BY <1>3, <2>3
    <3>2. /\ sendRel[e][f[x]].packetID \in inbound[e][x].acks
          /\ sendRel[e][f[x]].packetID \in inbound[e][y].acks
      BY <2>1, <2>4, Zenon
    <3>3. inbound[e][x] = inbound[e][y]
      BY <1>1, <1>2, <3>1, <3>2, Zenon DEF Direction, Tokens
    <3> QED BY <1>4, <2>3, <3>3, Zenon DEF IsInjective
  <2>5. Cardinality(S) <= NSendBuffers
    BY <2>2, <2>4, WindowfulAtMost
  <2> QED BY <2>5 DEF S
<1> QED
  BY <1>6, <1>7

\* The buffers of the control channel suffice, for all sizes of the windows, of the
\* queue and of the id space that ReliableAssumption and LoadsAssumption allow, and
\* however many chunks the ends write.
THEOREM BuffersAlwaysSuffice == Spec => []BuffersSuffice
<1>1. ControlInv => BuffersSuffice
  BY TypesFollow, WindowFollows, WelcomeFollows, QueueFollows DEF BuffersSuffice
<1> QED
  BY <1>1, ControlCorrect, PTL

\* WaitDrained may take an empty send window for delivery.
THEOREM DrainedIsReceived == Spec => []DrainedMeansReceived
<1>1. ControlInv => DrainedMeansReceived
  <2> SUFFICES ASSUME ControlInv, NEW e \in Ends, Empty(sendRel[e]), NEW n \in 1 .. written[e]
               PROVE  \/ n \in Range(readBuf[Peer(e)])
                      \/ \E x \in recvRel[Peer(e)].entries : x.payload = n
    BY Zenon DEF DrainedMeansReceived
  <2>1. Types /\ Outstanding(e) /\ Receiver(e) /\ Peer(e) \in Ends
    BY Peers DEF ControlInv, Direction
  <2>2. Filled(e) = {}
    BY SMTT(30) DEF Empty, Filled
  <2>3. n \in Nat /\ 1 <= n /\ n <= written[e]
    BY <2>1 DEF Types
  <2>4. Has(Peer(e), n)
    BY <2>1, <2>2, <2>3, Zenon DEF Outstanding
  <2>5. CASE n \in 1 .. Len(readBuf[Peer(e)])
    <3>1. readBuf[Peer(e)][n] = n
      BY <2>1, <2>5, ZenonT(30) DEF Receiver
    <3>2. DOMAIN readBuf[Peer(e)] = 1 .. Len(readBuf[Peer(e)])
      BY <2>1 DEF Types
    <3> QED BY <2>5, <3>1, <3>2, Zenon DEF Range
  <2> QED BY <2>4, <2>5, Zenon DEF Has
<1> QED
  BY <1>1, ControlCorrect, PTL

\* Each end reads what the other wrote, in order and once: the steps that append to
\* readBuf or transmit a chunk for the first time are steps of the abstract stream,
\* and all others leave it as it is.
THEOREM ControlStreamImplemented == Spec => StreamRefined
<1>1. Init => Stream!Init
  BY DEF Init, Stream!Init
<1>2. ASSUME ControlInv, [Next]_vars PROVE [Stream!Next]_<<written, readBuf>>
  <2>1. ASSUME NEW e \in Ends, SendChunk(e) PROVE Stream!Write(e)
    <3>1. written' = [written EXCEPT ![e] = @ + 1] /\ readBuf' = readBuf
      BY <2>1 DEF SendChunk, recvVars
    <3> QED BY <3>1 DEF Stream!Write
  <2>2. ASSUME NEW e \in Ends, GetChunk(e) PROVE Stream!Receive(e)
    <3>1. PICK x \in sequenced(recvRel[e]) : readBuf' = [readBuf EXCEPT ![e] = Append(@, x.payload)]
      BY <2>2, Zenon DEF GetChunk
    <3>2. PICK a : a = Peer(e)
      OBVIOUS
    <3>3. a \in Ends /\ Peer(a) = e /\ Types /\ Receiver(a)
      BY <1>2, <3>2, Peers, SMTT(30) DEF ControlInv, Direction
    <3>4. x \in recvRel[e].entries /\ x.packetID = recvRel[e].packetID
      BY DEF sequenced
    <3>5. x.payload = Len(readBuf[e]) + 1
      BY <3>3, <3>4, EntryNumber
    <3>6. x.payload <= written[a]
      BY <3>3, <3>4, ZenonT(30) DEF Receiver
    <3>7. written[a] \in Nat /\ Len(readBuf[e]) \in Nat
      BY <3>3 DEF Types
    <3>8. Len(readBuf[e]) < written[Peer(e)]
      BY <3>2, <3>5, <3>6, <3>7, SMTT(30)
    <3>9. readBuf' = [readBuf EXCEPT ![e] = Append(@, Len(@) + 1)] /\ written' = written
      BY <2>2, <3>1, <3>5, ZenonT(30) DEF GetChunk, sendVars
    <3> QED BY <3>8, <3>9 DEF Stream!Receive
  <2>3. ASSUME NEW e \in Ends,
               MarkChunk(e) \/ Deliver(e) \/ PeekAcks(e) \/ FlushAckOnly(e) \/ Close(e)
                  \/ \E i \in Slots : Retransmit(e, i)
        PROVE  written' = written /\ readBuf' = readBuf
    BY <2>3, ZenonT(30) DEF MarkChunk, Deliver, PeekAcks, FlushAckOnly, Close, Retransmit, recvVars, sendVars
  <2>4. ASSUME NEW d, Receive(d) \/ Lose(d) PROVE written' = written /\ readBuf' = readBuf
    BY <2>4 DEF Receive, Lose, recvVars, sendVars
  <2>5. CASE UNCHANGED vars
    BY <2>5 DEF vars, recvVars, sendVars
  <2>6. CASE Next
    BY <2>1, <2>2, <2>3, <2>4, <2>6, Zenon DEF Next, Keeping, Step, Stream!Next
  <2> QED BY <1>2, <2>5, <2>6
<1> QED
  BY <1>1, <1>2, ControlCorrect, PTL DEF Spec, StreamRefined, Stream!Spec
=============================================================================
