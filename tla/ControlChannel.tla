--------------------------- MODULE ControlChannel ---------------------------
(***************************************************************************)
(* One control connection over UDP: a Conn (src/internal/ctrlconn) at each *)
(* end, with its reliability windows and the tls-crypt wrapper below them, *)
(* and a network that loses, duplicates and reorders datagrams.  The       *)
(* server queues what it receives for its pump; the client hands it to its *)
(* Conn at once, as the clients of the repository's tests do.              *)
(*                                                                         *)
(* Each end has one writer (the TLS connection above it), one deliverer    *)
(* (the pump) and one retransmitter.  Chunk n of a stream is the number n. *)
(***************************************************************************)
EXTENDS Reliable, ReplayWindow

CONSTANTS
    inboundQueueSize,   \* capacity of the server's inbound queue
    Loads               \* workloads, one of which the behaviour picks

Ends == {"client", "server"}

\* A workload gives each end a number of chunks.
ASSUME LoadsAssumption ==
    /\ inboundQueueSize \in Nat
    /\ \A l \in Loads : l.chunks \in [Ends -> Nat]

Peer(e) == IF e = "client" THEN "server" ELSE "client"

Nil == [opcode |-> "none"]   \* an entry's payload before its first use

VARIABLES
    load,       \* [chunks, closers]: the number of chunks each end writes (a
                \* bound), and the ends that may close their Conn
    sendSeq,    \* the wrapper's counter of datagrams
    replay,     \* the wrapper's replay window
    sendRel,    \* the send window: its entries
    packetID,   \* the send window: next id to assign
    writer,     \* entry writeChunk has marked active and not yet filled, or 0
    written,    \* number of chunks transmitted at least once
    recvRel,    \* the receive window
    acks,       \* ids pending acknowledgment
    inbound,    \* the inbound queue
    deliverer,  \* what the pump does: "idle", "get", "flush"
    readBuf,    \* all chunks appended to the stream Read consumes
    closed,     \* the Conn is closed
    dropped,    \* a datagram was dropped because the queue was full
    net         \* datagrams in flight

sendVars == <<sendRel, packetID, writer, written>>
recvVars == <<recvRel, readBuf, deliverer>>
wireVars == <<replay, inbound, dropped>>
vars == <<load, sendSeq, acks, sendVars, recvVars, wireVars, closed, net>>

Init ==
    /\ load \in Loads
    /\ sendSeq = [e \in Ends |-> 0]
    /\ replay = [e \in Ends |-> newReplayWindow]
    /\ sendRel = [e \in Ends |-> newSlots(Nil)]
    /\ packetID = [e \in Ends |-> 0]
    /\ writer = [e \in Ends |-> 0]
    /\ written = [e \in Ends |-> 0]
    /\ recvRel = [e \in Ends |-> [packetID |-> 0, entries |-> {}]]
    /\ acks = [e \in Ends |-> <<>>]
    /\ inbound = [e \in Ends |-> <<>>]
    /\ deliverer = [e \in Ends |-> "idle"]
    /\ readBuf = [e \in Ends |-> <<>>]
    /\ closed = [e \in Ends |-> FALSE]
    /\ dropped = FALSE
    /\ net = {}

-----------------------------------------------------------------------------
(* Sending.                                                                *)

\* buildControlPacket: drain the pending ACKs and wrap under the next tls-crypt
\* sequence number.
controlPacket(e, opcode, id, payload) ==
    [from |-> e, seq |-> sendSeq[e] + 1, opcode |-> opcode,
     acks |-> Range(drained(acks[e])), packetID |-> id, payload |-> payload]

buildControlPacket(e) ==
    /\ sendSeq' = [sendSeq EXCEPT ![e] = @ + 1]
    /\ acks' = [acks EXCEPT ![e] = remaining(@)]

transmit(datagram) == net' = net \union {datagram}

\* writeChunk, up to MarkActive.  A full window is polled; Next is asked before
\* closed, so a closed Conn still takes chunks while it has a free entry.
MarkChunk(e) ==
    /\ writer[e] = 0
    /\ written[e] < load.chunks[e]
    /\ \E i \in Slots :
          /\ nextSlot(sendRel[e], packetID[e], i)
          /\ sendRel' = [sendRel EXCEPT ![e] = MarkActive(@, packetID[e], i)]
          /\ writer' = [writer EXCEPT ![e] = i]
    /\ packetID' = [packetID EXCEPT ![e] = (@ + 1) % IDSpace]
    /\ UNCHANGED <<sendSeq, acks, written, recvVars, wireVars, closed, net>>

\* The rest of writeChunk.
SendChunk(e) ==
    /\ writer[e] # 0
    /\ LET i == writer[e]
           datagram == controlPacket(e, "CONTROL_V1", sendRel[e][i].packetID, written[e] + 1)
       IN  /\ sendRel' = [sendRel EXCEPT ![e] = SetPayload(@, i, datagram)]
           /\ transmit(datagram)
    /\ buildControlPacket(e)
    /\ writer' = [writer EXCEPT ![e] = 0]
    /\ written' = [written EXCEPT ![e] = @ + 1]
    /\ UNCHANGED <<packetID, recvVars, wireVars, closed>>

\* One turn of retransmitLoop: the bytes of a due entry again, as they were.
\* An entry marked and not yet filled sends the datagram of its previous use.
Retransmit(e, i) ==
    /\ ~ closed[e]
    /\ due(sendRel[e], i)
    /\ sendRel[e][i].payload # Nil
    /\ transmit(sendRel[e][i].payload)
    /\ UNCHANGED <<sendSeq, acks, sendVars, recvVars, wireVars, closed>>

-----------------------------------------------------------------------------
(* Receiving.                                                              *)

\* The client's reader (demux of conn_test.go) delivers each datagram before it reads
\* the next one.
readsNext(e) == e = "client" => inbound[e] = <<>> /\ deliverer[e] = "idle"

\* Unwrap succeeds: whatever arrives is authentic, so the replay window decides.
unwraps(e, d) == acceptable(replay[e], d.seq)

\* handleDatagram: Unwrap, then queue, or drop when the queue is full.  The
\* network may keep a copy of d.
Receive(d) ==
    LET e == Peer(d.from)
        fresh == unwraps(e, d)
        full == Len(inbound[e]) >= inboundQueueSize
    IN  /\ ~ closed[e]
        /\ readsNext(e)
        /\ replay' = IF fresh THEN [replay EXCEPT ![e] = accepted(@, d.seq)] ELSE replay
        /\ inbound' = IF fresh /\ ~ full
                      THEN [inbound EXCEPT ![e] = Append(@, d)] ELSE inbound
        /\ dropped' = (dropped \/ (fresh /\ full))
        /\ net' \in {net, net \ {d}}
        /\ UNCHANGED <<sendSeq, acks, sendVars, recvVars, closed>>

\* pump takes a packet: Deliver, absorb up to its loop over Get.
Deliver(e) ==
    /\ deliverer[e] = "idle"
    /\ inbound[e] # <<>>
    /\ ~ closed[e]
    /\ LET d == Head(inbound[e])
           stored == \/ PutAccepted(recvRel[e], d.packetID)
                     \/ PutDuplicate(recvRel[e], d.packetID)
       IN  /\ sendRel' = [sendRel EXCEPT ![e] = Ack(@, d.acks)]
           /\ IF d.opcode = "ACK_V1" THEN UNCHANGED <<recvRel, acks>>
              ELSE /\ recvRel' = [recvRel EXCEPT ![e] = Put(@, d.packetID, d.payload)]
                   /\ acks' = IF stored THEN [acks EXCEPT ![e] = Add(@, d.packetID)]
                              ELSE acks
    /\ inbound' = [inbound EXCEPT ![e] = Tail(@)]
    /\ deliverer' = [deliverer EXCEPT ![e] = "get"]
    /\ UNCHANGED <<sendSeq, packetID, writer, written, readBuf, replay, dropped, closed, net>>

\* absorb's loop: append what is next in order to the stream.
GetChunk(e) ==
    /\ deliverer[e] = "get"
    /\ \E entry \in sequenced(recvRel[e]) :
          /\ recvRel' = [recvRel EXCEPT ![e] = Get(@, entry)]
          /\ readBuf' = [readBuf EXCEPT ![e] = Append(@, entry.payload)]
    /\ UNCHANGED <<sendSeq, acks, sendVars, deliverer, wireVars, closed, net>>

\* The end of absorb, and the Peek of flushAckOnly.
PeekAcks(e) ==
    /\ deliverer[e] = "get"
    /\ sequenced(recvRel[e]) = {}
    /\ deliverer' = [deliverer EXCEPT ![e] = IF acks[e] = <<>> THEN "idle" ELSE "flush"]
    /\ UNCHANGED <<sendSeq, acks, sendVars, recvRel, readBuf, wireVars, closed, net>>

\* The rest of flushAckOnly; the writer may have drained the ACKs meanwhile.
FlushAckOnly(e) ==
    /\ deliverer[e] = "flush"
    /\ transmit(controlPacket(e, "ACK_V1", 0, 0))
    /\ buildControlPacket(e)
    /\ deliverer' = [deliverer EXCEPT ![e] = "idle"]
    /\ UNCHANGED <<sendVars, recvRel, readBuf, wireVars, closed>>

-----------------------------------------------------------------------------

Close(e) ==
    /\ e \in load.closers
    /\ ~ closed[e]
    /\ closed' = [closed EXCEPT ![e] = TRUE]
    /\ UNCHANGED <<sendSeq, acks, sendVars, recvVars, wireVars, net>>

\* The network loses a datagram.
Lose(d) ==
    /\ net' = net \ {d}
    /\ UNCHANGED <<sendSeq, acks, sendVars, recvVars, wireVars, closed>>

Step(e) ==
    \/ MarkChunk(e)
    \/ SendChunk(e)
    \/ Deliver(e)
    \/ GetChunk(e)
    \/ PeekAcks(e)
    \/ FlushAckOnly(e)

Keeping(A) == A /\ UNCHANGED load

Next ==
    \/ \E e \in Ends : Keeping(Step(e) \/ Close(e) \/ \E i \in Slots : Retransmit(e, i))
    \/ \E d \in net : Keeping(Receive(d) \/ Lose(d))

Spec == Init /\ [][Next]_vars

\* The goroutines of an end keep running.  An active entry becomes due again and
\* again, and a datagram that is sent again and again arrives in the end; nothing
\* is assumed of a datagram that is sent once.
Fairness ==
    /\ WF_vars(Keeping(\E e \in Ends : Step(e)))
    /\ \A e \in Ends, i \in Slots :
          /\ WF_vars(Keeping(Retransmit(e, i)))
          /\ SF_vars(/\ sendRel[e][i].active
                     /\ sendRel[e][i].payload \in net
                     /\ Keeping(Receive(sendRel[e][i].payload)))

FairSpec == Spec /\ Fairness

-----------------------------------------------------------------------------
(* Properties.                                                             *)

\* Types: the receive window never holds more than its entries, and an id is
\* pending acknowledgment at most once.
TypeOK ==
    \A e \in Ends :
        /\ sendSeq[e] \in Nat /\ written[e] \in 0 .. load.chunks[e]
        /\ replay[e] \in replayWindow
        /\ writer[e] \in {0} \union Active(sendRel[e])
        /\ packetID[e] \in PacketID /\ recvRel[e].packetID \in PacketID
        /\ Cardinality(recvRel[e].entries) <= NRecBuffers
        /\ IsInjective(acks[e])
        /\ Len(inbound[e]) <= inboundQueueSize
        /\ deliverer[e] \in {"idle", "get", "flush"}

Stream == INSTANCE ControlStream WITH wrote <- written, got <- readBuf

\* The reader of each end sees the chunks the other end wrote, in order and each
\* once, whatever the network does: absorb's claim that concatenating in-order
\* payloads is reassembly.
StreamRefined == Stream!Spec

\* While its pump is between two packets, an end finds every chunk of the peer's send
\* window consumed already or among its next NRecBuffers ids (the reason reliable.go
\* gives for the check in Next).  While the pump is still consuming, the window may
\* reach further: a writer of this end can drain the ACKs before.
WindowFits ==
    \A e \in Ends : \A i \in Active(sendRel[e]) :
        LET ahead == subtractPID(sendRel[e][i].packetID, recvRel[Peer(e)].packetID)
        IN  deliverer[Peer(e)] # "get" =>
                ahead < NRecBuffers \/ ahead >= IDSpace - NSendBuffers

\* When WaitDrained sees the send window empty, the peer has every chunk, in the
\* stream or in its receive window.
DrainedMeansReceived ==
    \A e \in Ends :
        Empty(sendRel[e]) =>
            1 .. written[e] \subseteq
                Range(readBuf[Peer(e)])
                    \union {entry.payload : entry \in recvRel[Peer(e)].entries}

\* The receive window has an entry for every chunk the pump takes: Put never refuses
\* one that a peer running this code sends.
ChunksWelcome ==
    \A e \in Ends : \A k \in DOMAIN inbound[e] :
        deliverer[e] = "idle" /\ inbound[e][k].opcode = "CONTROL_V1" =>
            PutAccepted(recvRel[e], inbound[e][k].packetID)

\* However long the pump stalls, what the queue holds for it is at most a send window
\* of chunks and one datagram with ACKs for each entry of its own send window: the
\* rest are ACK_V1 packets without an id, whose ACKs a writer has drained.
QueueHolds ==
    \A e \in Ends :
        LET queue == inbound[e]
        IN  /\ Cardinality({k \in DOMAIN queue : queue[k].opcode = "CONTROL_V1"}) <= NSendBuffers
            /\ Cardinality({k \in DOMAIN queue : queue[k].acks # {}}) <= NSendBuffers

\* No buffer of the control channel is too small for what a peer that runs this code
\* sends, however slow the pump and lossy the network: not the receive window, not
\* the set of pending ACKs, and not a queue of two send windows, empty ACKs aside.
BuffersSuffice == TypeOK /\ WindowFits /\ ChunksWelcome /\ QueueHolds

\* A chunk that was transmitted once arrives, however often the network loses
\* it, unless an end is closed, a full queue drops a datagram, or so many later
\* datagrams arrive first that it falls below the replay window.
TransmittedArrives ==
    []<>(\/ \A e \in Ends : Len(readBuf[Peer(e)]) >= written[e]
         \/ dropped \/ \E e \in Ends : closed[e])
=============================================================================
