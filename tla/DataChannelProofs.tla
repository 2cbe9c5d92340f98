------------------------- MODULE DataChannelProofs -------------------------
(***************************************************************************)
(* Proofs about the data path of a session, for any number of packets,     *)
(* packet ids and renegotiations, any queue and any width of the replay    *)
(* window.                                                                 *)
(***************************************************************************)
EXTENDS SessionKeysProofs, ReplayWindowProofs

-----------------------------------------------------------------------------
(* Types.                                                                  *)

PacketTyped ==
    packet = Nil \/ (/\ packet.pkt \in Packet
                     /\ packet.primary \in Conn
                     /\ packet.lameDuck \in Conn \union {Nil}
                     /\ packet.live \in BOOLEAN)

QueueTyped ==
    /\ ipInbound \in Seq(Packet) /\ Len(ipInbound) <= ipInboundQueueSize
    /\ pendingRead \in Packet \union {Nil}
    /\ delivered \subseteq Packet
    /\ dropped \in Nat /\ packetsIn \in Nat

InTyped ==
    /\ network \subseteq Packet /\ IsFiniteSet(network)
    /\ replay \in [Conn -> replayWindow]
    /\ PacketTyped
    /\ QueueTyped

OutTyped ==
    /\ sendSeq \in [Conn -> 0 .. MaxIDs] /\ \A c \in Conn : sendSeq[c] <= limits.ids
    /\ writer \in [Writer -> Conn \union {Nil}]
    /\ sealed \in [Conn \X (1 .. MaxIDs) -> Nat]

HistoryTyped ==
    /\ silence \in 0 .. reapWindow /\ heard \in 0 .. reapWindow
    /\ retired \in [Conn -> 0 .. transitionWindow \union {Nil}]

DataTyped == InTyped /\ OutTyped /\ HistoryTyped

LEMMA DataConstants ==
    /\ MaxPackets \in Nat /\ MaxIDs \in Nat /\ ipInboundQueueSize \in Nat \ {0}
    /\ \A l \in Limits : /\ l.packets \in Nat /\ l.packets <= MaxPackets
                         /\ l.ids \in Nat /\ l.ids <= MaxIDs
BY DataAssumption

LEMMA DataTypedInit ==
    ASSUME Init
    PROVE  DataTyped
<1>1. newReplayWindow \in replayWindow
    BY DEF newReplayWindow, replayWindow
<1>2. network \subseteq Packet /\ IsFiniteSet(network) /\ replay \in [Conn -> replayWindow]
    BY <1>1, FS_EmptySet DEF Init
<1>3. PacketTyped /\ QueueTyped
    BY DataConstants DEF Init, PacketTyped, QueueTyped
<1>4. OutTyped
    BY DataConstants DEF Init, KeysInit, OutTyped
<1>5. HistoryTyped
    BY Constants DEF Init, HistoryTyped
<1> QED
    BY <1>2, <1>3, <1>4, <1>5 DEF DataTyped, InTyped

\* What a step leaves alone keeps its type.
LEMMA InUnchanged ==
    ASSUME InTyped, UNCHANGED inVars
    PROVE  InTyped'
BY DEF InTyped, PacketTyped, QueueTyped, inVars

LEMMA OutUnchanged ==
    ASSUME OutTyped, UNCHANGED outVars
    PROVE  OutTyped'
BY DEF OutTyped, outVars

LEMMA HistoryUnchanged ==
    ASSUME HistoryTyped, UNCHANGED historyVars
    PROVE  HistoryTyped'
BY DEF HistoryTyped, historyVars

\* The client's next packet has an id in range: fewer than limits.packets were
\* sealed before.
LEMMA ClientSealsTypes ==
    ASSUME DataTyped, limits \in Limits, NEW c \in Conn, NEW k \in Kind, ClientSeals(c, k)
    PROVE  InTyped'
<1> DEFINE mine == {p \in network : p.conn = c}
           seq == Cardinality(mine) + 1
           new == [conn |-> c, seq |-> seq, kind |-> k]
<1>1. IsFiniteSet(network) /\ mine \subseteq network
    BY DEF DataTyped, InTyped
<1>2. Cardinality(mine) \in Nat /\ Cardinality(network) \in Nat
      /\ Cardinality(mine) <= Cardinality(network)
    BY <1>1, FS_Subset, FS_CardinalityType
<1>3. Cardinality(network) < limits.packets /\ network' = network \union {new}
    BY DEF ClientSeals
<1>4. seq \in 1 .. MaxPackets
    BY <1>2, <1>3, DataConstants
<1>5. new \in Packet
    BY <1>4 DEF Packet
<1>6. network' \subseteq Packet /\ IsFiniteSet(network')
    BY <1>1, <1>3, <1>5, FS_AddElement, ZenonT(60) DEF DataTyped, InTyped
<1> QED
    BY <1>6 DEF ClientSeals, DataTyped, InTyped, PacketTyped, QueueTyped

\* The Conn whose key opens the packet of handleDataPacket.
opener == openedBy(packet)

\* A packet is opened with the key that sealed it, its id is one the window
\* accepts, and the slot was the primary's or a lame duck's before its deadline.
LEMMA Opener ==
    ASSUME DataTyped, OpenData
    PROVE  /\ packet # Nil /\ packet.pkt \in Packet
           /\ opener \in Conn
           /\ packet.pkt.conn = opener /\ packet.pkt.seq \in Nat
           /\ acceptable(replay[opener], packet.pkt.seq)
           /\ opener = packet.primary
                \/ (opener = packet.lameDuck /\ packet.lameDuck # Nil /\ packet.live)
<1>1. packet # Nil /\ opener # Nil
    BY DEF OpenData, opener
<1>2. packet.pkt \in Packet /\ packet.primary \in Conn /\ packet.lameDuck \in Conn \union {Nil}
    BY <1>1 DEF DataTyped, InTyped, PacketTyped
<1>3. packet.pkt.seq \in Nat
    BY <1>2, DataConstants DEF Packet
<1>4. \/ opener = packet.primary /\ authentic(opener, packet.pkt)
      \/ /\ opener = packet.lameDuck /\ packet.lameDuck # Nil /\ packet.live
         /\ authentic(opener, packet.pkt)
    BY <1>1 DEF opener, openedBy
<1> QED
    BY <1>1, <1>2, <1>3, <1>4 DEF authentic, accept

\* What OpenData changes.
LEMMA OpenDataEffect ==
    ASSUME OpenData
    PROVE  /\ replay' = [replay EXCEPT ![opener] = accepted(@, packet.pkt.seq)]
           /\ packet' = Nil /\ idle' = 0 /\ silence' = 0
           /\ UNCHANGED <<network, pendingRead, delivered, outVars, heard, retired, slotVars,
                          age, ttl, lastReneg, attemptVars, actorVars>>
           /\ \/ UNCHANGED <<ipInbound, dropped, packetsIn>>
              \/ /\ packetsIn' = packetsIn + 1
                 /\ Len(ipInbound) < ipInboundQueueSize
                 /\ ipInbound' = Append(ipInbound, packet.pkt)
                 /\ UNCHANGED dropped
              \/ /\ packetsIn' = packetsIn + 1
                 /\ dropped' = dropped + 1
                 /\ UNCHANGED ipInbound
<1>1. AbsorbPing(opener) \/ ExitNotify(opener) \/ Enqueue(opener)
    BY DEF OpenData, opener
<1>2. Opened(opener)
    BY <1>1 DEF AbsorbPing, ExitNotify, Enqueue
<1>3. \/ UNCHANGED <<ipInbound, dropped, packetsIn>>
      \/ /\ packetsIn' = packetsIn + 1
         /\ Len(ipInbound) < ipInboundQueueSize
         /\ ipInbound' = Append(ipInbound, packet.pkt)
         /\ UNCHANGED dropped
      \/ /\ packetsIn' = packetsIn + 1
         /\ dropped' = dropped + 1
         /\ UNCHANGED ipInbound
    BY <1>1, ZenonT(60) DEF AbsorbPing, ExitNotify, Enqueue
<1>4. UNCHANGED <<network, pendingRead, delivered, outVars, heard, retired, slotVars,
                  age, ttl, lastReneg, attemptVars, actorVars>>
    BY ZenonT(60) DEF OpenData
<1> QED
    BY <1>2, <1>3, <1>4, ZenonT(60) DEF Opened

LEMMA OpenDataTypes ==
    ASSUME DataTyped, OpenData
    PROVE  DataTyped'
<1>1. accepted(replay[opener], packet.pkt.seq) \in replayWindow
    BY Opener, AcceptedTypes DEF DataTyped, InTyped
<1>2. replay' \in [Conn -> replayWindow]
    BY <1>1, Opener, OpenDataEffect DEF DataTyped, InTyped
<1>3. ipInbound' \in Seq(Packet) /\ Len(ipInbound') <= ipInboundQueueSize
  <2>1. ipInbound \in Seq(Packet) /\ Len(ipInbound) <= ipInboundQueueSize
    BY DEF DataTyped, InTyped, QueueTyped
  <2>2. packet.pkt \in Packet
    BY Opener
  <2>3. \/ ipInbound' = ipInbound
        \/ Len(ipInbound) < ipInboundQueueSize /\ ipInbound' = Append(ipInbound, packet.pkt)
    BY OpenDataEffect
  <2> QED
    BY <2>1, <2>2, <2>3, DataConstants
<1>4. dropped' \in Nat /\ packetsIn' \in Nat
    BY OpenDataEffect DEF DataTyped, InTyped, QueueTyped
<1>5. UNCHANGED <<network, pendingRead, delivered, outVars, heard, retired>>
      /\ packet' = Nil /\ silence' = 0
    BY OpenDataEffect
<1>6. InTyped'
    BY <1>2, <1>3, <1>4, <1>5 DEF DataTyped, InTyped, PacketTyped, QueueTyped
<1>7. OutTyped'
    BY <1>5, OutUnchanged DEF DataTyped
<1>8. HistoryTyped'
    BY <1>5, Constants DEF DataTyped, HistoryTyped
<1> QED
    BY <1>6, <1>7, <1>8 DEF DataTyped

\* Read moves a packet from the queue to the caller, by way of pendingRead when the
\* caller's buffer is too small.
LEMMA ReadTypes ==
    ASSUME QueueTyped, ReadPacket, UNCHANGED <<dropped, packetsIn>>
    PROVE  QueueTyped'
<1>1. CASE pendingRead # Nil /\ delivered' = delivered \union {pendingRead}
           /\ pendingRead' = Nil /\ UNCHANGED ipInbound
    BY <1>1 DEF QueueTyped
<1>2. CASE /\ ipInbound # <<>> /\ ipInbound' = Tail(ipInbound)
           /\ \/ delivered' = delivered \union {Head(ipInbound)} /\ UNCHANGED pendingRead
              \/ pendingRead' = Head(ipInbound) /\ UNCHANGED delivered
  <2>1. Head(ipInbound) \in Packet /\ Tail(ipInbound) \in Seq(Packet)
        /\ Len(Tail(ipInbound)) <= ipInboundQueueSize
    BY <1>2, DataConstants DEF QueueTyped
  <2> QED
    BY <1>2, <2>1 DEF QueueTyped
<1> QED
    BY <1>1, <1>2 DEF ReadPacket

LEMMA SealTypes ==
    ASSUME OutTyped, limits \in Limits, NEW w \in Writer, WriterSeals(w)
    PROVE  OutTyped'
<1> DEFINE c == writer[w]
           seq == nextPacketID(sendSeq[c])
<1>1. c \in Conn
    BY DEF WriterSeals, OutTyped
<1>2. seq # Nil => seq = sendSeq[c] + 1 /\ seq \in 1 .. MaxIDs /\ seq <= limits.ids
    BY <1>1, DataConstants DEF nextPacketID, OutTyped
<1>3. writer' \in [Writer -> Conn \union {Nil}]
    BY DEF WriterSeals, OutTyped
<1>4. CASE /\ seq # Nil
           /\ sendSeq' = [sendSeq EXCEPT ![c] = seq]
           /\ sealed' = [sealed EXCEPT ![sealWithSeq(c, seq)] = @ + 1]
  <2>1. sendSeq' \in [Conn -> 0 .. MaxIDs] /\ \A d \in Conn : sendSeq'[d] <= limits.ids
    BY <1>1, <1>2, <1>4, DataConstants DEF OutTyped
  <2>2. <<c, seq>> \in Conn \X (1 .. MaxIDs)
    BY <1>1, <1>2, <1>4
  <2>3. sealed' \in [Conn \X (1 .. MaxIDs) -> Nat]
    BY <1>4, <2>2 DEF OutTyped, sealWithSeq
  <2> QED
    BY <1>3, <2>1, <2>3 DEF OutTyped, WriterSeals
<1>5. CASE UNCHANGED <<sendSeq, sealed>>
    BY <1>3, <1>5 DEF OutTyped, WriterSeals
<1> QED
    BY <1>4, <1>5 DEF WriterSeals

\* The clock, the reaper, and a rollover keep the types of the history.
LEMMA HistoryTypes ==
    ASSUME HistoryTyped, KeysTypeOK,
           Quiet(KeysStep) \/ ControlTraffic \/ ReaperReads \/ ReaperCloses \/ TimePasses
    PROVE  HistoryTyped'
<1>1. CASE Quiet(KeysStep)
  <2>1. retired' \in {retired, [retired EXCEPT ![primary] = 0]} /\ UNCHANGED <<silence, heard>>
    BY <1>1 DEF Quiet
  <2> QED
    BY <2>1, Constants DEF HistoryTyped, KeysTypeOK
<1>2. CASE ControlTraffic \/ ReaperReads \/ ReaperCloses
    BY <1>2, Constants DEF ControlTraffic, ReaperReads, ReaperCloses, HistoryTyped
<1>3. CASE TimePasses
  <2>1. \A n \in Nat : \A t \in 0 .. n : older(t, n) \in 0 .. n
    BY DEF older
  <2>2. retired' = [c \in Conn |-> IF retired[c] = Nil THEN Nil
                                   ELSE older(retired[c], transitionWindow)]
        /\ silence' = older(silence, reapWindow) /\ UNCHANGED heard
    BY <1>3 DEF TimePasses
  <2>3. \A c \in Conn : retired[c] # Nil => retired[c] \in 0 .. transitionWindow
    BY DEF HistoryTyped
  <2> QED
    BY <2>1, <2>2, <2>3, Constants DEF HistoryTyped
<1> QED
    BY <1>1, <1>2, <1>3

\* Every step keeps the types.
LEMMA DataTypedStep ==
    ASSUME DataTyped, KeysTypeOK, Next
    PROVE  DataTyped'
<1> USE DEF DataTyped
<1>0. limits \in Limits
    BY DEF KeysTypeOK
<1>1. CASE Quiet(KeysStep) \/ ControlTraffic \/ ReaperReads \/ ReaperCloses \/ TimePasses
  <2>1. UNCHANGED <<inVars, outVars>>
    BY <1>1 DEF Quiet, ControlTraffic, ReaperReads, ReaperCloses, TimePasses, dataVars
  <2> QED
    BY <1>1, <2>1, HistoryTypes, InUnchanged, OutUnchanged
<1>2. ASSUME NEW c \in Conn, NEW k \in Kind, ClientSeals(c, k)
      PROVE  DataTyped'
    BY <1>0, <1>2, ClientSealsTypes, OutUnchanged, HistoryUnchanged DEF ClientSeals
<1>3. ASSUME NEW p \in network, DataArrives(p)
      PROVE  DataTyped'
  <2>1. PacketTyped'
    BY <1>3 DEF DataArrives, InTyped, PacketTyped, KeysTypeOK
  <2>2. InTyped'
    BY <1>3, <2>1 DEF DataArrives, InTyped, QueueTyped
  <2> QED
    BY <1>3, <2>2, OutUnchanged, HistoryUnchanged DEF DataArrives
<1>4. CASE DropForged
  <2>1. InTyped'
    BY <1>4 DEF DropForged, InTyped, PacketTyped, QueueTyped
  <2> QED
    BY <1>4, <2>1, OutUnchanged, HistoryUnchanged DEF DropForged
<1>5. CASE OpenData
    BY <1>5, OpenDataTypes
<1>6. CASE Read
  <2>1. QueueTyped'
    BY <1>6, ReadTypes DEF Read, InTyped
  <2>2. InTyped'
    BY <1>6, <2>1 DEF Read, InTyped, PacketTyped
  <2> QED
    BY <1>6, <2>2, OutUnchanged, HistoryUnchanged DEF Read
<1>7. ASSUME NEW w \in Writer, WriterSnapshot(w)
      PROVE  DataTyped'
  <2>1. OutTyped'
    BY <1>7 DEF WriterSnapshot, OutTyped, KeysTypeOK
  <2> QED
    BY <1>7, <2>1, InUnchanged, HistoryUnchanged DEF WriterSnapshot
<1>8. ASSUME NEW w \in Writer, WriterSeals(w)
      PROVE  DataTyped'
  <2>1. OutTyped'
    BY <1>0, <1>8, SealTypes
  <2> QED
    BY <1>8, <2>1, InUnchanged, HistoryUnchanged DEF WriterSeals
<1> QED
    BY <1>1, <1>2, <1>3, <1>4, <1>5, <1>6, <1>7, <1>8 DEF Next

-----------------------------------------------------------------------------
(* The inductive invariants of the data path.                              *)

\* Packet ids above a key's counter have not been used.
Nonces ==
    \A c \in Conn, i \in 1 .. MaxIDs :
        sealed[<<c, i>>] <= 1 /\ (i > sendSeq[c] => sealed[<<c, i>>] = 0)

\* A key is retired when it is demoted and not before, and its age and the lame
\* duck's remaining time make up transitionWindow.  While handleDataPacket is
\* between its snapshot and Open no time passes, so that a slot it copied is the
\* primary's, or has just been demoted, or is as young a lame duck as it was.
Ages ==
    /\ idle = silence
    /\ reaper => heard >= reapWindow
    /\ retired[primary] = Nil
    /\ pending # Nil => retired[pending] = Nil
    /\ \A c \in Conn : c >= built => retired[c] = Nil
    /\ lameDuck # Nil => retired[lameDuck] = transitionWindow - ttl
    /\ packet # Nil =>
         /\ packet.primary = primary \/ retired[packet.primary] = 0
         /\ packet.lameDuck # Nil /\ packet.live =>
              retired[packet.lameDuck] \in 0 .. transitionWindow - 1

\* What Read has returned or will return.
received == delivered \union queued \union retained

\* Every packet received is counted once, and the window of its key refuses it.
Conserved ==
    /\ IsFiniteSet(received)
    /\ packetsIn = Cardinality(received) + dropped
    /\ \A p \in received : replay[p.conn].init /\ ~ acceptable(replay[p.conn], p.seq)

DataInv == DataTyped /\ Nonces /\ Ages /\ Conserved

LEMMA DataInvInit ==
    ASSUME Init
    PROVE  DataInv
<1>1. Nonces
    BY DEF Init, Nonces
<1>2. Ages
    BY Constants DEF Init, KeysInit, Ages
<1>3. received = {}
    BY DEF Init, received, queued, retained
<1>4. Conserved
    BY <1>3, FS_EmptySet DEF Init, Conserved
<1> QED
    BY <1>1, <1>2, <1>4, DataTypedInit DEF DataInv

\* A writer seals with the next id of its key, which nobody has used.
LEMMA NoncesStep ==
    ASSUME DataTyped, Nonces, KeysTypeOK, Next
    PROVE  Nonces'
<1>1. CASE \E w \in Writer : WriterSeals(w)
  <2>1. PICK w \in Writer : WriterSeals(w)
    BY <1>1
  <2> DEFINE c == writer[w]
             seq == nextPacketID(sendSeq[c])
  <2>2. c \in Conn
    BY <2>1 DEF WriterSeals, DataTyped, OutTyped
  <2>3. CASE UNCHANGED <<sendSeq, sealed>>
    BY <2>3 DEF Nonces
  <2>4. CASE /\ seq # Nil
             /\ sendSeq' = [sendSeq EXCEPT ![c] = seq]
             /\ sealed' = [sealed EXCEPT ![sealWithSeq(c, seq)] = @ + 1]
    <3>1. seq = sendSeq[c] + 1 /\ sendSeq[c] \in Nat
      BY <2>2, <2>4 DEF nextPacketID, DataTyped, OutTyped
    <3>2. /\ sendSeq'[c] = seq
          /\ \A d \in Conn : d # c => sendSeq'[d] = sendSeq[d]
      BY <2>2, <2>4 DEF DataTyped, OutTyped
    <3>3. \A d \in Conn, i \in 1 .. MaxIDs :
              sealed'[<<d, i>>] = IF d = c /\ i = seq THEN sealed[<<d, i>>] + 1
                                  ELSE sealed[<<d, i>>]
      BY <2>4 DEF DataTyped, OutTyped, sealWithSeq
    <3>4. ASSUME NEW d \in Conn, NEW i \in 1 .. MaxIDs
          PROVE  sealed'[<<d, i>>] <= 1 /\ (i > sendSeq'[d] => sealed'[<<d, i>>] = 0)
      <4>1. sealed[<<d, i>>] \in Nat /\ sendSeq[d] \in Nat
        BY DEF DataTyped, OutTyped
      <4>2. sealed[<<d, i>>] <= 1 /\ (i > sendSeq[d] => sealed[<<d, i>>] = 0)
        BY DEF Nonces
      <4> QED
        BY <3>1, <3>2, <3>3, <4>1, <4>2
    <3> QED
      BY <3>4 DEF Nonces
  <2> QED
    BY <2>1, <2>3, <2>4 DEF WriterSeals
<1>2. CASE ~ \E w \in Writer : WriterSeals(w)
  <2>1. UNCHANGED <<sendSeq, sealed>>
    <3>1. CASE Quiet(KeysStep) \/ ControlTraffic \/ ReaperReads \/ ReaperCloses \/ TimePasses
      BY <3>1 DEF Quiet, ControlTraffic, ReaperReads, ReaperCloses, TimePasses, dataVars,
                  outVars
    <3>2. CASE \E k \in Conn, kind \in Kind : ClientSeals(k, kind)
      BY <3>2 DEF ClientSeals, outVars
    <3>3. CASE (\E p \in network : DataArrives(p)) \/ DropForged \/ Read
      BY <3>3 DEF DataArrives, DropForged, Read, outVars
    <3>4. CASE OpenData
      BY <3>4, OpenDataEffect DEF outVars
    <3>5. CASE \E w \in Writer : WriterSnapshot(w)
      BY <3>5 DEF WriterSnapshot
    <3> QED
      BY <1>2, <3>1, <3>2, <3>3, <3>4, <3>5 DEF Next
  <2> QED
    BY <2>1 DEF Nonces
<1> QED
    BY <1>1, <1>2

\* What a step of the renegotiations and the teardown does to the slots.
SlotsStay == UNCHANGED <<primary, lameDuck, ttl, built>> /\ pending' \in {pending, Nil}

AttemptStarts ==
    /\ pending' = built /\ built' = built + 1
    /\ UNCHANGED <<primary, lameDuck, ttl>>

DuckSwept == lameDuck' = Nil /\ UNCHANGED <<primary, pending, ttl, built>>

KeyDemoted ==
    /\ pending # Nil
    /\ primary' = pending /\ pending' = Nil
    /\ lameDuck' = primary /\ ttl' = transitionWindow
    /\ UNCHANGED built

LEMMA SlotEffects ==
    ASSUME KeysTypeOK, KeysStep
    PROVE  /\ UNCHANGED <<idle, reaper>>
           /\ SlotsStay \/ AttemptStarts \/ DuckSwept \/ KeyDemoted
<1>1. ASSUME NEW c \in Conn, StartRun(c) \/ RejectUser(c) \/ CloseAttempt(c) \/ Superseded(c)
                               \/ RejectedCloses(c) \/ Derive(c) \/ FailHandshake(c)
      PROVE  UNCHANGED <<idle, reaper>> /\ SlotsStay
    BY <1>1, ZenonT(60) DEF StartRun, RejectUser, CloseAttempt, Superseded, RejectedCloses,
                Derive, FailHandshake, slotVars, timeVars, actorVars, SlotsStay
<1>2. ASSUME NEW c \in Conn, Abandon(c) \/ WrapperFails(c)
      PROVE  UNCHANGED <<idle, reaper>> /\ SlotsStay
    BY <1>2 DEF Abandon, WrapperFails, timeVars, actorVars, SlotsStay
<1>3. ASSUME NEW c \in Conn, Rollover(c)
      PROVE  UNCHANGED <<idle, reaper>> /\ KeyDemoted
  <2>1. c # Nil
    BY Constants DEF Conn
  <2> QED
    BY <1>3, <2>1 DEF Rollover, stillMine, actorVars, KeyDemoted
<1>4. ASSUME NEW c \in Conn, WatchStep(c)
      PROVE  UNCHANGED <<idle, reaper>> /\ SlotsStay
    BY <1>4 DEF WatchStep, WatchDone, WatchExpires, WatchCloses, slotVars, timeVars,
                actorVars, SlotsStay
<1>5. CASE TickerStep
  <2>1. CASE sweepLameDuck
    BY <2>1 DEF sweepLameDuck, timeVars, DuckSwept
  <2>2. CASE closeExpired \/ checkReneg
    BY <2>2 DEF closeExpired, checkReneg, slotVars, timeVars, SlotsStay
  <2>3. CASE initiateRenegotiation
    BY <2>3 DEF initiateRenegotiation, startRenegotiation, slotVars, SlotsStay, AttemptStarts
  <2> QED
    BY <1>5, <2>1, <2>2, <2>3 DEF TickerStep
<1>6. ASSUME NEW h \in Handler, beginRenegotiation(h)
      PROVE  UNCHANGED <<idle, reaper>> /\ (SlotsStay \/ AttemptStarts)
    BY <1>6 DEF beginRenegotiation, startRenegotiation, slotVars, SlotsStay, AttemptStarts
<1>7. ASSUME NEW h \in Handler, NEW k \in KeyID, ResetUnrouted(h, k)
      PROVE  UNCHANGED <<idle, reaper>> /\ SlotsStay
    BY <1>7 DEF ResetUnrouted, slotVars, timeVars, SlotsStay
<1>8. CASE EmbedderCloses \/ CloseSnapshot \/ CloseConns
    BY <1>8 DEF EmbedderCloses, CloseSnapshot, CloseConns, slotVars, timeVars, actorVars,
                SlotsStay
<1> QED
    BY <1>1, <1>2, <1>3, <1>4, <1>5, <1>6, <1>7, <1>8, ZenonT(60)
       DEF KeysStep, RunStep, RunForced

\* Renegotiations, and the teardown, keep the ages: a Conn that is built has never
\* been retired, and the one that is demoted begins to age at 0.
LEMMA AgesQuiet ==
    ASSUME KeysInv, DataTyped, Ages, Quiet(KeysStep)
    PROVE  Ages'
<1>1. /\ primary \in Conn /\ built \in Nat /\ ttl \in 0 .. transitionWindow
      /\ pending \in Conn \union {Nil} /\ lameDuck \in Conn \union {Nil}
      /\ transitionWindow \in Nat \ {0}
      /\ retired \in [Conn -> 0 .. transitionWindow \union {Nil}]
    BY Constants DEF KeysInv, KeysTyped, KeysTypeOK, DataTyped, HistoryTyped
<1>2. pending # Nil => pending < built /\ pending # primary
    BY DEF KeysInv, Slots
<1>3. UNCHANGED <<silence, heard, packet, idle, reaper>>
    BY SlotEffects DEF Quiet, dataVars, inVars, KeysInv, KeysTyped
<1>4. retired' = IF primary' = primary THEN retired ELSE [retired EXCEPT ![primary] = 0]
    BY DEF Quiet
<1>5. CASE SlotsStay
    BY <1>3, <1>4, <1>5 DEF SlotsStay, Ages
<1>6. CASE DuckSwept
    BY <1>3, <1>4, <1>6 DEF DuckSwept, Ages
<1>7. CASE AttemptStarts
  <2>1. pending' \in Conn \union {Nil} /\ pending' = built
    BY <1>7, KeysTypedStep DEF AttemptStarts, KeysInv, KeysTyped, KeysTypeOK, Next
  <2>2. built # Nil
    BY <1>1, KeysAssumption
  <2>3. built \in Conn /\ built >= built
    BY <1>1, <2>1, <2>2
  <2>4. retired[built] = Nil
    BY <2>3 DEF Ages
  <2> QED
    BY <1>1, <1>3, <1>4, <1>7, <2>3, <2>4 DEF AttemptStarts, Ages, Conn
<1>8. CASE KeyDemoted
  <2>1. retired' = [retired EXCEPT ![primary] = 0] /\ primary' = pending /\ pending \in Conn
    BY <1>1, <1>2, <1>4, <1>8 DEF KeyDemoted
  <2>2. retired'[primary] = 0 /\ \A c \in Conn : c # primary => retired'[c] = retired[c]
    BY <1>1, <2>1
  <2>3. retired'[primary'] = Nil
    BY <1>2, <1>8, <2>1, <2>2 DEF KeyDemoted, Ages
  <2>4. \A c \in Conn : c >= built' => retired'[c] = Nil
    <3>1. primary < built
      BY DEF KeysInv, Slots
    <3> QED
      BY <1>1, <1>8, <2>2, <3>1 DEF KeyDemoted, Ages, Conn
  <2>5. retired'[lameDuck'] = transitionWindow - ttl'
    BY <1>1, <1>8, <2>2 DEF KeyDemoted
  <2>6. packet # Nil => packet.primary \in Conn /\ packet.lameDuck \in Conn \union {Nil}
    BY DEF DataTyped, InTyped, PacketTyped
  <2>7. packet # Nil => packet.primary = primary' \/ retired'[packet.primary] = 0
    BY <2>2, <2>6 DEF Ages
  <2>8. packet # Nil /\ packet.lameDuck # Nil /\ packet.live =>
            retired'[packet.lameDuck] \in 0 .. transitionWindow - 1
    BY <1>1, <2>2, <2>6 DEF Ages
  <2> QED
    BY <1>3, <1>8, <2>3, <2>4, <2>5, <2>7, <2>8 DEF KeyDemoted, Ages
<1> QED
    BY <1>5, <1>6, <1>7, <1>8, SlotEffects DEF Quiet, KeysInv, KeysTyped

\* Every step keeps the ages.
LEMMA AgesStep ==
    ASSUME KeysInv, DataTyped, Ages, Next
    PROVE  Ages'
<1>1. CASE Quiet(KeysStep)
    BY <1>1, AgesQuiet
<1>2. CASE ControlTraffic
  <2>1. idle' = 0 /\ silence' = 0
        /\ UNCHANGED <<reaper, heard, retired, primary, pending, built, lameDuck, ttl, packet>>
    BY <1>2 DEF ControlTraffic, Traffic, ResetDelivered, Pump, slotVars, actorVars,
                dataVars, inVars
  <2> QED
    BY <2>1 DEF Ages
<1>3. CASE ReaperReads
  <2>1. heard' = silence /\ idle >= reapWindow
        /\ UNCHANGED <<idle, silence, retired, primary, pending, built, lameDuck, ttl, packet>>
    BY <1>3 DEF ReaperReads, ReapRead, slotVars, timeVars, dataVars, inVars
  <2> QED
    BY <2>1 DEF Ages
<1>4. CASE ReaperCloses
  <2>1. ~ reaper'
        /\ UNCHANGED <<idle, silence, retired, primary, pending, built, lameDuck, ttl, packet>>
    BY <1>4 DEF ReaperCloses, ReapClose, slotVars, timeVars, dataVars, inVars
  <2> QED
    BY <2>1 DEF Ages
<1>5. CASE TimePasses
  <2>1. /\ packet' = Nil
        /\ silence' = older(silence, reapWindow) /\ idle' = older(idle, reapWindow)
        /\ retired' = [c \in Conn |-> IF retired[c] = Nil THEN Nil
                                      ELSE older(retired[c], transitionWindow)]
        /\ ttl' = (IF ttl > 0 THEN ttl - 1 ELSE 0)
        /\ UNCHANGED <<heard, reaper, primary, pending, built, lameDuck>>
    BY <1>5 DEF TimePasses, Tick, slotVars, actorVars, dataVars, inVars
  <2>2. /\ primary \in Conn /\ ttl \in 0 .. transitionWindow
        /\ pending \in Conn \union {Nil} /\ lameDuck \in Conn \union {Nil}
        /\ transitionWindow \in Nat \ {0} /\ Nil \notin Int
    BY Constants, KeysAssumption DEF KeysInv, KeysTyped, KeysTypeOK
  <2>3. \A c \in Conn : retired[c] = Nil => retired'[c] = Nil
    BY <2>1
  <2>4. ASSUME lameDuck # Nil
        PROVE  retired'[lameDuck] = transitionWindow - ttl'
    <3>1. retired[lameDuck] = transitionWindow - ttl /\ transitionWindow - ttl # Nil
      BY <2>2, <2>4 DEF Ages
    <3>2. retired'[lameDuck] = older(transitionWindow - ttl, transitionWindow)
      BY <2>1, <2>2, <2>4, <3>1
    <3> QED
      BY <2>1, <2>2, <3>2 DEF older
  <2> QED
    BY <2>1, <2>2, <2>3, <2>4 DEF Ages
<1>6. ASSUME NEW p \in network, DataArrives(p)
      PROVE  Ages'
  <2>1. /\ UNCHANGED <<idle, silence, heard, reaper, retired, primary, pending, built,
                       lameDuck, ttl>>
        /\ packet' = [pkt |-> p, primary |-> primary, lameDuck |-> lameDuck, live |-> ttl > 0]
    BY <1>6 DEF DataArrives, keyVars, slotVars, timeVars, actorVars, historyVars
  <2>2. ttl \in 0 .. transitionWindow /\ transitionWindow \in Nat
    BY Constants DEF KeysInv, KeysTyped, KeysTypeOK
  <2>3. lameDuck # Nil /\ ttl > 0 => retired[lameDuck] \in 0 .. transitionWindow - 1
    BY <2>2 DEF Ages
  <2> QED
    BY <2>1, <2>3 DEF Ages
<1>7. CASE OpenData
  <2>1. idle' = 0 /\ silence' = 0 /\ packet' = Nil
        /\ UNCHANGED <<heard, reaper, retired, primary, pending, built, lameDuck, ttl>>
    BY <1>7, OpenDataEffect DEF slotVars, actorVars
  <2> QED
    BY <2>1 DEF Ages
<1>8. CASE DropForged
  <2>1. packet' = Nil
        /\ UNCHANGED <<idle, silence, heard, reaper, retired, primary, pending, built,
                       lameDuck, ttl>>
    BY <1>8 DEF DropForged, keyVars, slotVars, timeVars, actorVars, historyVars
  <2> QED
    BY <2>1 DEF Ages
<1>9. CASE (\E c \in Conn, k \in Kind : ClientSeals(c, k)) \/ Read
             \/ (\E w \in Writer : WriterSnapshot(w) \/ WriterSeals(w))
  <2>1. UNCHANGED <<keyVars, packet, historyVars>>
    BY <1>9, ZenonT(60) DEF ClientSeals, Read, WriterSnapshot, WriterSeals, inVars
  <2> QED
    BY <2>1 DEF keyVars, slotVars, timeVars, actorVars, historyVars, Ages
<1> QED
    BY <1>1, <1>2, <1>3, <1>4, <1>5, <1>6, <1>7, <1>8, <1>9 DEF Next

\* Nothing of the inbound path changes.
LEMMA ConservedUnchanged ==
    ASSUME Conserved, UNCHANGED <<replay, ipInbound, pendingRead, delivered, dropped, packetsIn>>
    PROVE  Conserved'
<1>1. received' = received
    BY DEF received, queued, retained
<1> QED
    BY <1>1 DEF Conserved

\* Read only moves packets between the queue, pendingRead and the caller.
LEMMA ConservedRead ==
    ASSUME DataTyped, Conserved, Read
    PROVE  Conserved'
<1>1. ipInbound \in Seq(Packet) /\ pendingRead \in Packet \union {Nil}
    BY DEF DataTyped, InTyped, QueueTyped
<1>2. \A p \in Packet : p # Nil
    BY NilAssumption
<1>3. received' = received
  <2>1. CASE pendingRead # Nil /\ delivered' = delivered \union {pendingRead}
             /\ pendingRead' = Nil /\ UNCHANGED ipInbound
    BY <2>1 DEF received, queued, retained
  <2>2. CASE pendingRead = Nil /\ ipInbound # <<>> /\ ipInbound' = Tail(ipInbound)
             /\ \/ delivered' = delivered \union {Head(ipInbound)} /\ UNCHANGED pendingRead
                \/ pendingRead' = Head(ipInbound) /\ UNCHANGED delivered
    <3>1. queued = queued' \union {Head(ipInbound)}
      BY <1>1, <2>2 DEF queued
    <3>2. Head(ipInbound) # Nil
      BY <1>1, <1>2, <2>2
    <3> QED
      BY <2>2, <3>1, <3>2 DEF received, retained
  <2> QED
    BY <2>1, <2>2 DEF Read, ReadPacket
<1> QED
    BY <1>3 DEF Read, Conserved

\* A packet that is opened is one the window has not let in before: counting it
\* counts a new packet, and from then on the window refuses it too.
LEMMA ConservedOpen ==
    ASSUME DataTyped, Conserved, OpenData
    PROVE  Conserved'
<1> DEFINE pkt == packet.pkt
           seen(c) == {p.seq : p \in {q \in received : q.conn = c}}
<1>1. received \subseteq Packet
  <2>1. queued \subseteq Packet
    BY DEF DataTyped, InTyped, QueueTyped, queued
  <2> QED
    BY <2>1 DEF DataTyped, InTyped, QueueTyped, received, retained
<1>2. /\ opener \in Conn /\ pkt \in Packet /\ pkt.conn = opener /\ pkt.seq \in Nat
      /\ replay[opener] \in replayWindow /\ acceptable(replay[opener], pkt.seq)
    BY Opener DEF DataTyped, InTyped
<1>3. seen(opener) \in SUBSET Nat
    BY <1>1, DataConstants DEF Packet
<1>4. Refuses(replay[opener], seen(opener))
    BY DEF Refuses, Conserved
<1>5. /\ pkt.seq \notin seen(opener)
      /\ Refuses(accepted(replay[opener], pkt.seq), seen(opener) \union {pkt.seq})
    BY <1>2, <1>3, <1>4, NothingTwice
<1>6. pkt \notin received
    BY <1>2, <1>5
<1>7. /\ replay'[opener] = accepted(replay[opener], pkt.seq)
      /\ \A c \in Conn : c # opener => replay'[c] = replay[c]
    BY <1>2, OpenDataEffect DEF DataTyped, InTyped
<1>8. \A p \in received \union {pkt} :
          replay'[p.conn].init /\ ~ acceptable(replay'[p.conn], p.seq)
  <2>1. accepted(replay[opener], pkt.seq).init
    BY DEF accepted
  <2>2. ASSUME NEW p \in received \union {pkt}, p.conn = opener
        PROVE  replay'[p.conn].init /\ ~ acceptable(replay'[p.conn], p.seq)
    <3>1. p.seq \in seen(opener) \union {pkt.seq}
      BY <2>2
    <3> QED
      BY <1>5, <1>7, <2>1, <2>2, <3>1 DEF Refuses
  <2>3. ASSUME NEW p \in received, p.conn # opener
        PROVE  replay'[p.conn].init /\ ~ acceptable(replay'[p.conn], p.seq)
    <3>1. p.conn \in Conn
      BY <1>1 DEF Packet
    <3> QED
      BY <1>7, <2>3, <3>1 DEF Conserved
  <2> QED
    BY <1>2, <2>2, <2>3
<1>9. UNCHANGED <<delivered, pendingRead>>
    BY OpenDataEffect
<1>10. CASE UNCHANGED <<ipInbound, dropped, packetsIn>>
  <2>1. received' = received
    BY <1>9, <1>10 DEF received, queued, retained
  <2> QED
    BY <1>8, <1>10, <2>1 DEF Conserved
<1>11. CASE packetsIn' = packetsIn + 1 /\ dropped' = dropped + 1 /\ UNCHANGED ipInbound
  <2>1. received' = received
    BY <1>9, <1>11 DEF received, queued, retained
  <2>2. Cardinality(received) \in Nat /\ packetsIn \in Nat /\ dropped \in Nat
    BY FS_CardinalityType DEF Conserved, DataTyped, InTyped, QueueTyped
  <2>3. packetsIn' = Cardinality(received') + dropped'
    BY <1>11, <2>1, <2>2 DEF Conserved
  <2> QED
    BY <1>8, <2>1, <2>3 DEF Conserved
<1>12. CASE packetsIn' = packetsIn + 1 /\ ipInbound' = Append(ipInbound, pkt)
            /\ UNCHANGED dropped
  <2>1. queued' = queued \union {pkt}
    <3>1. ipInbound \in Seq(Packet)
      BY DEF DataTyped, InTyped, QueueTyped
    <3> QED
      BY <1>2, <1>12, <3>1 DEF queued
  <2>2. received' = received \union {pkt}
    BY <1>9, <2>1 DEF received, retained
  <2>3. IsFiniteSet(received') /\ Cardinality(received') = Cardinality(received) + 1
    BY <1>6, <2>2, FS_AddElement DEF Conserved
  <2>4. Cardinality(received) \in Nat /\ packetsIn \in Nat /\ dropped \in Nat
    BY FS_CardinalityType DEF Conserved, DataTyped, InTyped, QueueTyped
  <2>5. packetsIn' = Cardinality(received') + dropped'
    BY <1>12, <2>3, <2>4 DEF Conserved
  <2> QED
    BY <1>8, <2>2, <2>3, <2>5 DEF Conserved
<1> QED
    BY <1>10, <1>11, <1>12, OpenDataEffect

\* Every step keeps the count.
LEMMA ConservedStep ==
    ASSUME DataTyped, Conserved, Next
    PROVE  Conserved'
<1>1. CASE Quiet(KeysStep) \/ ControlTraffic \/ ReaperReads \/ ReaperCloses \/ TimePasses
    BY <1>1, ConservedUnchanged DEF Quiet, ControlTraffic, ReaperReads, ReaperCloses,
                TimePasses, dataVars, inVars
<1>2. CASE (\E c \in Conn, k \in Kind : ClientSeals(c, k))
             \/ (\E p \in network : DataArrives(p)) \/ DropForged
    BY <1>2, ConservedUnchanged DEF ClientSeals, DataArrives, DropForged
<1>3. CASE \E w \in Writer : WriterSnapshot(w) \/ WriterSeals(w)
    BY <1>3, ConservedUnchanged DEF WriterSnapshot, WriterSeals, inVars
<1> QED
    BY <1>1, <1>2, <1>3, ConservedRead, ConservedOpen DEF Next

-----------------------------------------------------------------------------
(* Theorems.                                                               *)

\* The invariant of the data path holds in every reachable state, beside that of
\* the key slots, on which it rests.
THEOREM DataInvariant == Spec => [](KeysInv /\ DataInv)
<1>1. Init => DataInv
    BY DataInvInit
<1>2. KeysInv /\ DataInv /\ [Next]_vars => DataInv'
  <2>1. ASSUME KeysInv, DataInv, Next
        PROVE  DataInv'
    <3>1. KeysTypeOK /\ DataTyped /\ Nonces /\ Ages /\ Conserved
      BY <2>1 DEF KeysInv, KeysTyped, DataInv
    <3> QED
      BY <2>1, <3>1, DataTypedStep, NoncesStep, AgesStep, ConservedStep DEF DataInv
  <2>2. ASSUME DataInv, UNCHANGED vars
        PROVE  DataInv'
    <3>1. UNCHANGED <<keyVars, inVars, outVars, historyVars>>
      BY <2>2 DEF vars, dataVars
    <3>2. DataTyped'
      BY <2>2, <3>1, InUnchanged, OutUnchanged, HistoryUnchanged DEF DataInv, DataTyped
    <3>3. Nonces'
      BY <2>2, <3>1 DEF outVars, DataInv, Nonces
    <3>4. Ages'
      BY <2>2, <3>1 DEF keyVars, slotVars, timeVars, actorVars, inVars, historyVars,
                        DataInv, Ages
    <3>5. Conserved'
      BY <2>2, <3>1, ConservedUnchanged DEF inVars, DataInv
    <3> QED
      BY <3>2, <3>3, <3>4, <3>5 DEF DataInv
  <2> QED
    BY <2>1, <2>2
<1> QED
    BY <1>1, <1>2, KeysInvariant, PTL DEF Spec

\* Every variable keeps to its type: no slot, key-id, queue, counter or timer leaves
\* the range of the Go state it stands for.
THEOREM TypeCorrect == Spec => []TypeOK
<1>1. KeysInv /\ DataInv => TypeOK
    BY DEF KeysInv, KeysTyped, DataInv, DataTyped, InTyped, PacketTyped, QueueTyped,
           OutTyped, HistoryTyped, TypeOK
<1> QED
    BY <1>1, DataInvariant, PTL

\* However the network duplicates and reorders what the client sealed, and whatever
\* the size of the queue and of the replay window, every packet that was counted is
\* one packet that Read has returned or will return, or that was dropped.
THEOREM AlwaysConserved == Spec => []InboundConserved
<1>1. DataInv => InboundConserved
    BY DEF DataInv, Conserved, received, InboundConserved
<1> QED
    BY <1>1, DataInvariant, PTL

\* No nonce is used for two packets, however Write, emitPing and the rollovers
\* interleave, up to the last packet id and past it.
THEOREM NoncesUnique == Spec => []NonceUnique
<1>1. DataInv => NonceUnique
    BY DEF DataInv, DataTyped, OutTyped, Nonces, NonceUnique
<1> QED
    BY <1>1, DataInvariant, PTL

\* A key that was demoted transitionWindow ago opens nothing, nor does one whose
\* renegotiation never completed.
THEOREM ExpiredKeysDead == Spec => ExpiredKeyDead
<1> DEFINE Dead == \A c \in Conn : replay'[c] # replay[c] =>
                       c = primary \/ retired[c] \in 0 .. transitionWindow - 1
<1>1. ASSUME DataInv, Next
      PROVE  Dead
  <2>1. CASE OpenData
    <3>1. DataTyped /\ Ages
      BY <1>1 DEF DataInv
    <3>2. \A c \in Conn : c # opener => replay'[c] = replay[c]
      BY <2>1, <3>1, OpenDataEffect DEF DataTyped, InTyped
    <3>3. opener = primary \/ retired[opener] \in 0 .. transitionWindow - 1
      <4>1. /\ packet.primary = primary \/ retired[packet.primary] = 0
            /\ packet.lameDuck # Nil /\ packet.live =>
                 retired[packet.lameDuck] \in 0 .. transitionWindow - 1
        BY <2>1, <3>1, Opener DEF Ages
      <4>2. 0 \in 0 .. transitionWindow - 1
        BY Constants
      <4>3. \/ opener = packet.primary
            \/ opener = packet.lameDuck /\ packet.lameDuck # Nil /\ packet.live
        BY <2>1, <3>1, Opener
      <4> QED
        BY <4>1, <4>2, <4>3
    <3> QED
      BY <3>2, <3>3
  <2>2. CASE ~ OpenData
    <3>1. replay' = replay
      BY <1>1, <2>2 DEF Next, Quiet, ControlTraffic, ReaperReads, ReaperCloses, TimePasses,
                        ClientSeals, DataArrives, DropForged, Read, WriterSnapshot,
                        WriterSeals, dataVars, inVars
    <3> QED
      BY <3>1
  <2> QED
    BY <2>1, <2>2
<1>2. ASSUME UNCHANGED vars
      PROVE  Dead
    BY <1>2 DEF vars, dataVars, inVars
<1>3. DataInv /\ [Next]_vars => [Dead]_vars
    BY <1>1, <1>2
<1> QED
    BY <1>3, DataInvariant, PTL DEF Spec, ExpiredKeyDead

\* A session is reaped only when it was silent for the whole window at the moment
\* runReap looked.
THEOREM OnlySilentReaped == Spec => ReapedOnlyWhenSilent
<1> DEFINE Silent == (reaper /\ ~ reaper' /\ stop' # stop) => heard >= reapWindow
<1>1. DataInv => (reaper => heard >= reapWindow)
    BY DEF DataInv, Ages
<1>2. DataInv /\ [Next]_vars => [Silent]_vars
    BY <1>1
<1> QED
    BY <1>2, DataInvariant, PTL DEF Spec, ReapedOnlyWhenSilent
=============================================================================
