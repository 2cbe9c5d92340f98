---------------------------- MODULE DataChannel ----------------------------
(***************************************************************************)
(* The data channel of an established session: handleDataPacket, Read,     *)
(* Write and emitPing of src/session.go over the datachan.Wrappers of      *)
(* src/internal/datachan, while SessionKeys' renegotiations replace the    *)
(* key slots under them and its timers may end the session.                *)
(*                                                                         *)
(* A data packet is the Conn whose keys sealed it, its packet id and what  *)
(* it carries.  The network keeps every packet the client has sealed and   *)
(* hands the server any of them, at any time and any number of times.      *)
(***************************************************************************)
EXTENDS SessionKeys, ReplayWindow, Sequences

CONSTANTS
    MaxPackets,          \* most packets a client seals in a behaviour
    MaxIDs,              \* largest last packet id of a behaviour
    ipInboundQueueSize   \* capacity of Session.ipInbound

ASSUME DataAssumption ==
    /\ MaxPackets \in Nat /\ MaxIDs \in Nat
    /\ \A l \in Limits : l.packets \in 0 .. MaxPackets /\ l.ids \in 0 .. MaxIDs
    /\ ipInboundQueueSize \in Nat \ {0}

VARIABLES
    network,      \* packets the client has sealed
    replay,       \* Wrapper.replay
    packet,       \* handleDataPacket: its packet and snapshots, or Nil
    ipInbound,    \* Session.ipInbound
    pendingRead,  \* Session.pendingRead
    delivered,    \* the set of packets Read has returned
    dropped,      \* Session.inboundQueueDropped and drops at teardown
    packetsIn,    \* Session.packetsIn
    sendSeq,      \* Wrapper.sendSeq
    writer,       \* Write and emitPing: the Wrapper they snapshotted, or Nil
    sealed,       \* how many packets the server has sealed under a key and id
    silence,      \* history: ticks since a packet was last authenticated
    heard,        \* history: silence when runReap read lastAuthTraffic
    retired       \* history: ticks since a key was demoted, Nil before that

\* limits.packets bounds the packets a client seals; limits.ids is
\* 0xFFFFFFFF, the last packet id of the server's counter.
Kind == {"ip", "ping", "exit"}
Packet == [conn : Conn, seq : 1 .. MaxPackets, kind : Kind]
Writer == {"Write", "emitPing"}

ASSUME NilAssumption == Nil \notin Packet

inVars == <<network, replay, packet, ipInbound, pendingRead, delivered, dropped,
            packetsIn>>
outVars == <<sendSeq, writer, sealed, limits>>
dataVars == <<inVars, outVars>>
historyVars == <<silence, heard, retired>>
vars == <<keyVars, dataVars, historyVars>>

\* Every variable keeps to the type of the Go state it stands for.
TypeOK ==
    /\ KeysTypeOK
    /\ network \subseteq Packet
    /\ replay \in [Conn -> replayWindow]
    /\ packet = Nil \/ (/\ packet.pkt \in Packet
                        /\ packet.primary \in Conn
                        /\ packet.lameDuck \in Conn \union {Nil}
                        /\ packet.live \in BOOLEAN)
    /\ ipInbound \in Seq(Packet) /\ Len(ipInbound) <= ipInboundQueueSize
    /\ pendingRead \in Packet \union {Nil}
    /\ delivered \subseteq Packet
    /\ dropped \in Nat /\ packetsIn \in Nat
    /\ sendSeq \in [Conn -> 0 .. MaxIDs]
    /\ writer \in [Writer -> Conn \union {Nil}]
    /\ sealed \in [Conn \X (1 .. MaxIDs) -> Nat]
    /\ silence \in 0 .. reapWindow /\ heard \in 0 .. reapWindow
    /\ retired \in [Conn -> 0 .. transitionWindow \union {Nil}]

Init ==
    /\ KeysInit
    /\ network = {} /\ packet = Nil
    /\ replay = [c \in Conn |-> newReplayWindow]
    /\ ipInbound = <<>> /\ pendingRead = Nil /\ delivered = {}
    /\ dropped = 0 /\ packetsIn = 0
    /\ sendSeq = [c \in Conn |-> 0]
    /\ writer = [w \in Writer |-> Nil]
    /\ sealed = [n \in Conn \X (1 .. MaxIDs) |-> 0]
    /\ silence = 0 /\ heard = 0
    /\ retired = [c \in Conn |-> Nil]

(***************************************************************************)
(* Inbound                                                                 *)
(***************************************************************************)

\* The client seals its next packet with a key it has.
ClientSeals(c, kind) ==
    LET seq == Cardinality({p \in network : p.conn = c}) + 1
    IN  /\ stop = "open"
        /\ c \in derived
        /\ Cardinality(network) < limits.packets
        /\ network' = network \union {[conn |-> c, seq |-> seq, kind |-> kind]}
        /\ UNCHANGED <<keyVars, replay, packet, ipInbound, pendingRead, delivered,
                       dropped, packetsIn, outVars, historyVars>>

\* handleDataDatagram finds the session by its peer-id, and handleDataPacket
\* copies the slots under Session.mu.
DataArrives(p) ==
    /\ packet = Nil
    /\ stop \in {"open", "stopped"}
    /\ packet' = [pkt |-> p, primary |-> primary, lameDuck |-> lameDuck,
                  live |-> ttl > 0]
    /\ UNCHANGED <<keyVars, network, replay, ipInbound, pendingRead, delivered,
                   dropped, packetsIn, outVars, historyVars>>

\* The data channel's own replay window accepts a packet id.
accept(c, seq) == acceptable(replay[c], seq)

\* Wrapper.Open: the AEAD only opens what the same key sealed; then the window.
authentic(c, p) == p.conn = c /\ accept(c, p.seq)

\* Mutant: a demoted key is tried whatever its deadline.
openedByEver(h) ==
    IF authentic(h.primary, h.pkt) THEN h.primary
    ELSE IF h.lameDuck # Nil /\ authentic(h.lameDuck, h.pkt) THEN h.lameDuck
    ELSE Nil

\* The slot that opens the packet: the primary first, then the lame duck while
\* it is before its deadline.
openedBy(h) ==
    IF authentic(h.primary, h.pkt) THEN h.primary
    ELSE IF h.lameDuck # Nil /\ h.live /\ authentic(h.lameDuck, h.pkt) THEN h.lameDuck
    ELSE Nil

Opened(c) ==
    /\ c # Nil
    /\ replay' = [replay EXCEPT ![c] = accepted(@, packet.pkt.seq)]
    /\ packet' = Nil
    /\ idle' = 0
    /\ silence' = 0

\* Mutant: a packet that is dropped counts as traffic.
DropForgedTouching ==
    /\ packet # Nil
    /\ openedBy(packet) = Nil
    /\ packet' = Nil
    /\ idle' = 0
    /\ UNCHANGED <<slotVars, age, ttl, lastReneg, attemptVars, actorVars, stopVars,
                   network, replay, ipInbound, pendingRead, delivered, dropped,
                   packetsIn, outVars, historyVars>>

\* Neither slot opens it: dropped, and no traffic.
DropForged ==
    /\ packet # Nil
    /\ openedBy(packet) = Nil
    /\ packet' = Nil
    /\ UNCHANGED <<keyVars, network, replay, ipInbound, pendingRead, delivered,
                   dropped, packetsIn, outVars, historyVars>>

\* ErrPingAbsorbed: authenticated, and nothing to deliver.
AbsorbPing(c) ==
    /\ packet.pkt.kind = "ping"
    /\ Opened(c)
    /\ UNCHANGED <<ipInbound, dropped, packetsIn, stopVars>>

\* isExitNotify: the client ends the session.
ExitNotify(c) ==
    /\ packet.pkt.kind = "exit"
    /\ Opened(c)
    /\ CloseSession \/ (stop # "open" /\ UNCHANGED stopVars)
    /\ UNCHANGED <<ipInbound, dropped, packetsIn>>

\* An IP packet is counted, and queued unless the queue is full; once stopCh is
\* closed select may drop it although there is room.
Enqueue(c) ==
    /\ packet.pkt.kind = "ip"
    /\ Opened(c)
    /\ packetsIn' = packetsIn + 1
    /\ \/ /\ Len(ipInbound) < ipInboundQueueSize
          /\ ipInbound' = Append(ipInbound, packet.pkt)
          /\ UNCHANGED dropped
       \/ /\ Len(ipInbound) = ipInboundQueueSize \/ stop # "open"
          /\ dropped' = dropped + 1
          /\ UNCHANGED ipInbound
    /\ UNCHANGED stopVars

\* handleDataPacket from Open on: only this goroutine opens packets, so that
\* nothing can come between Open, touchAuthTraffic and the select.
OpenData ==
    /\ packet # Nil
    /\ LET c == openedBy(packet)
       IN  c # Nil /\ (AbsorbPing(c) \/ ExitNotify(c) \/ Enqueue(c))
    /\ UNCHANGED <<slotVars, age, ttl, lastReneg, attemptVars, actorVars, network,
                   pendingRead, delivered, outVars, heard, retired>>

\* Mutant: a packet the caller's buffer is too small for is discarded.
ReadDiscarding ==
    /\ ipInbound # <<>>
    /\ ipInbound' = Tail(ipInbound)
    /\ delivered' = delivered \union {Head(ipInbound)} \/ UNCHANGED delivered
    /\ UNCHANGED pendingRead

\* Read, with a buffer that is large enough or too small: what does not fit is
\* retained for the next call.
ReadPacket ==
    \/ /\ pendingRead # Nil
       /\ delivered' = delivered \union {pendingRead}
       /\ pendingRead' = Nil
       /\ UNCHANGED ipInbound
    \/ /\ pendingRead = Nil /\ ipInbound # <<>>
       /\ ipInbound' = Tail(ipInbound)
       /\ \/ delivered' = delivered \union {Head(ipInbound)} /\ UNCHANGED pendingRead
          \/ pendingRead' = Head(ipInbound) /\ UNCHANGED delivered

Read ==
    /\ ReadPacket
    /\ UNCHANGED <<keyVars, network, replay, packet, dropped, packetsIn, outVars,
                   historyVars>>

(***************************************************************************)
(* Outbound                                                                *)
(***************************************************************************)

\* Write, unless the session is closing, and emitPing copy the primary's Wrapper.
WriterSnapshot(w) ==
    /\ writer[w] = Nil
    /\ limits.ids > 0
    /\ w = "Write" => stop = "open"
    /\ stop # "finished"
    /\ writer' = [writer EXCEPT ![w] = primary]
    /\ UNCHANGED <<keyVars, inVars, sendSeq, sealed, limits, historyVars>>

\* Mutant: the counter rolls over.
nextPacketIDRolls(seq) == IF seq = limits.ids THEN 1 ELSE seq + 1

\* The next packet id, or Nil: ErrPacketIDExhausted.
nextPacketID(seq) == IF seq = limits.ids THEN Nil ELSE seq + 1

\* What makes a sealed packet's nonce: the key's implicit IV and the packet id.
sealWithSeq(c, seq) == <<c, seq>>

\* Wrapper.Seal and WriteTo; a writer that finds the counter spent sends nothing.
WriterSeals(w) ==
    LET c == writer[w]
        seq == nextPacketID(sendSeq[c])
    IN  /\ c # Nil
        /\ writer' = [writer EXCEPT ![w] = Nil]
        /\ \/ /\ seq # Nil
              /\ sendSeq' = [sendSeq EXCEPT ![c] = seq]
              /\ sealed' = [sealed EXCEPT ![sealWithSeq(c, seq)] = @ + 1]
           \/ seq = Nil /\ UNCHANGED <<sendSeq, sealed>>
        /\ UNCHANGED <<keyVars, inVars, limits, historyVars>>

(***************************************************************************)
(* The composition                                                         *)
(***************************************************************************)

\* A step of the keys' machine that neither is traffic nor reads its age.
Quiet(A) ==
    /\ A
    /\ retired' = IF primary' = primary THEN retired ELSE [retired EXCEPT ![primary] = 0]
    /\ UNCHANGED <<dataVars, silence, heard>>

\* A control packet that is delivered is traffic like an authenticated data
\* packet.
ControlTraffic ==
    /\ Traffic
    /\ silence' = 0
    /\ UNCHANGED <<dataVars, heard, retired>>

ReaperReads ==
    /\ ReapRead
    /\ heard' = silence
    /\ UNCHANGED <<dataVars, silence, retired>>

ReaperCloses ==
    /\ ReapClose
    /\ heard' = 0
    /\ UNCHANGED <<dataVars, silence, retired>>

\* Time does not pass while handleDataPacket is between its snapshot and Open.
TimePasses ==
    /\ packet = Nil
    /\ Tick
    /\ silence' = older(silence, reapWindow)
    /\ retired' = [c \in Conn |-> IF retired[c] = Nil THEN Nil
                                  ELSE older(retired[c], transitionWindow)]
    /\ UNCHANGED <<dataVars, heard>>

Next ==
    \/ Quiet(KeysStep)
    \/ ControlTraffic \/ ReaperReads \/ ReaperCloses \/ TimePasses
    \/ \E c \in Conn, k \in Kind : ClientSeals(c, k)
    \/ \E p \in network : DataArrives(p)
    \/ DropForged \/ OpenData \/ Read
    \/ \E w \in Writer : WriterSnapshot(w) \/ WriterSeals(w)

\* Goroutines that can run do, timers fire and time passes; a handshake whose
\* Conn is closed fails.  Nothing is assumed of the peer or the embedder.
Fairness ==
    /\ WF_vars(Quiet(Forced))
    /\ WF_vars(Quiet(TickerStep))
    /\ WF_vars(ReaperReads \/ ReaperCloses)
    /\ SF_vars(TimePasses)
    /\ WF_vars(DropForged \/ OpenData)
    /\ \A w \in Writer : WF_vars(WriterSeals(w))

Spec == Init /\ [][Next]_vars

FairSpec == Spec /\ Fairness

(***************************************************************************)
(* Properties                                                              *)
(***************************************************************************)

queued == {ipInbound[i] : i \in 1 .. Len(ipInbound)}
retained == {pendingRead} \ {Nil}

\* However the network duplicates and reorders packets and keys roll over under
\* them, every packet handleDataPacket counted is one packet: Read has returned
\* it, will return it, or a full queue or the teardown dropped it.  Nothing is
\* delivered twice and nothing is lost to a buffer that was too small.
InboundConserved ==
    packetsIn = Cardinality(delivered \union queued \union retained) + dropped

\* No two packets leave under the same key and packet id, and so under the same
\* nonce, whatever Write, emitPing and a rollover do at the same time and when
\* the counter is spent.
NonceUnique == \A n \in DOMAIN sealed : sealed[n] <= 1

\* A packet is opened only with the primary's key or with one that was demoted
\* less than transitionWindow ago: a key whose renegotiation was abandoned and one
\* that has expired open nothing, although the slots are copied before they are
\* used and the sweep runs on a timer of its own.
ExpiredKeyDead ==
    [][\A c \in Conn : replay'[c] # replay[c] =>
         c = primary \/ retired[c] \in 0 .. transitionWindow - 1]_vars

\* runReap ends a session only when nothing the peer sent was authenticated for
\* the whole window, a keepalive included.
ReapedOnlyWhenSilent ==
    [][(reaper /\ ~ reaper' /\ stop' # stop) => heard >= reapWindow]_vars

\* A peer that is never heard again loses its session: it is heard from for ever
\* or the session ends.
SilenceEndsSession == []<>(silence = 0) \/ <>(stop = "finished")

\* Once the session closes, its teardown ends, and so does every goroutine that a
\* renegotiation started.
TeardownEnds ==
    (stop = "stopped") ~>
        /\ stop = "finished"
        /\ open = {}
        /\ \A c \in Conn : run[c] \in {"none", "ended"} /\ watch[c] \in {"none", "ended"}
=============================================================================
