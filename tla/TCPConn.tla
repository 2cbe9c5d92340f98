------------------------------ MODULE TCPConn -------------------------------
(***************************************************************************)
(* One TCP connection of the netstack (src/netstack/tcp_conn.go,           *)
(* tcp_state.go, tcp_timer.go) from SYN_RCVD to CLOSED: the goroutine that *)
(* delivers segments, the timer goroutine, one reader, one writer and a    *)
(* closer, against a peer on a network that loses and reorders.            *)
(*                                                                         *)
(* Bytes are numbered: byte n of the peer is n, and byte n of the writer   *)
(* is n. Sequence numbers are taken modulo seqMod.                         *)
(***************************************************************************)
EXTENDS Integers, Sequences, FiniteSetsExt

CONSTANTS
    seqMod,                \* size of the sequence space, 2^32 in the code
    iss,                   \* the server's initial sequence number
    irs,                   \* the client's
    sndMSS,
    defaultReceiveWindow,
    maxInFlightBytes,
    maxReorderSegments,
    maxRetransmits,
    maxPersistProbes,
    Loads                  \* workloads, one of which the behaviour picks

ASSUME SequenceSpace ==
    /\ seqMod \in Nat /\ seqMod % 2 = 0
    /\ \A l \in Loads : l.in + 1 < seqMod \div 2 /\ l.out + 1 < seqMod \div 2

VARIABLES
    load,      \* [in, out, windows]: bytes of the peer and of the writer, and
               \* the windows the peer may advertise
    conn,      \* the tcpConn
    loop,      \* timerLoop: "select", "fired" (in onRTOFired) or "done"
    detached,  \* the attachment's stopCh is closed
    heard,     \* bytes (and FIN) of the server the peer has received in order
    heardFIN   \* the last of them was the FIN

peerVars == <<heard, heardFIN>>
vars == <<load, conn, loop, detached, peerVars>>

States == {"SYN_RCVD", "ESTABLISHED", "FIN_WAIT_1", "FIN_WAIT_2", "CLOSING",
           "TIME_WAIT", "CLOSE_WAIT", "LAST_ACK", "CLOSED"}

plus(s, n) == (s + n) % seqMod
seqGT(a, b) == (a - b) % seqMod \in 1..(seqMod \div 2 - 1)
seqGE(a, b) == a = b \/ seqGT(a, b)

\* Byte n + 1 of the writer and of the peer.
sndSeq(n) == plus(iss, n + 1)
rcvSeq(n) == plus(irs, n + 1)

\* A tcpSegment this stack sends; the ports, and ack and window, which every
\* segment takes from rcvNxt and the free buffer, are left out.
segment(flags, seq, data) == [flags |-> flags, seq |-> seq, data |-> data]

-----------------------------------------------------------------------------
\* newTCPConn, and the SYN-ACK of handleSYN.
newTCPConn(window) ==
    [state |-> "SYN_RCVD", err |-> FALSE,
     sndUna |-> iss, sndWnd |-> window, outBuf |-> <<>>, sentBytes |-> 0,
     rcvNxt |-> rcvSeq(0), recvBuf |-> <<>>, reorder |-> <<>>,
     pendingFIN |-> {}, peerClosed |-> FALSE,
     finSent |-> FALSE, finAcked |-> FALSE, finSeq |-> iss,
     timerArmed |-> TRUE, clock |-> "running", stopTimers |-> FALSE,
     retransmitCount |-> 0, persistProbeCount |-> 0, inTimeWait |-> FALSE,
     reader |-> "absent", writer |-> "absent", left |-> 0, wrote |-> 0,
     got |-> <<>>, ended |-> "open", closeWrite |-> FALSE, closedAt |-> 0,
     toSend |-> {segment({"SYN", "ACK"}, iss, <<>>)}]

Init ==
    /\ load \in Loads
    /\ \E w \in load.windows : conn = newTCPConn(w)
    /\ loop = "select"
    /\ detached = FALSE
    /\ heard = 0 /\ heardFIN = FALSE

-----------------------------------------------------------------------------
(* Helpers on the connection, all called with its mutex held.              *)

send(c, segs) == [c EXCEPT !.toSend = @ \cup segs]

\* rtoTimer.Reset and rtoTimer.Stop with the flag the code keeps beside them.
arm(c) == [c EXCEPT !.timerArmed = TRUE, !.clock = "running"]
disarm(c) == [c EXCEPT !.timerArmed = FALSE, !.clock = "stopped"]

broadcastLocked(c) ==
    LET wake(pc) == IF pc = "parked" THEN "running" ELSE pc
    IN [c EXCEPT !.reader = wake(@), !.writer = wake(@)]

\* Mutant: the timer goroutine is not told.
stopClockOnly(c) == [c EXCEPT !.clock = "stopped"]

stopTimersLocked(c) == [c EXCEPT !.clock = "stopped", !.stopTimers = TRUE]

\* Mutant: blocked readers and writers are not woken.
terminateQuietly(c, fail) ==
    stopTimersLocked([c EXCEPT !.state = "CLOSED", !.err = @ \/ fail])

\* The end of the connection; fail is whether the sticky error is set.
terminate(c, fail) ==
    broadcastLocked(stopTimersLocked(
        [c EXCEPT !.state = "CLOSED", !.err = @ \/ fail]))

recvWindowRemainingLocked(c) ==
    LET used == Len(c.recvBuf)
                + MapThenSumSet(LAMBDA s : Len(c.reorder[s]), DOMAIN c.reorder)
    IN IF used >= defaultReceiveWindow THEN 0 ELSE defaultReceiveWindow - used

buildACKLocked(c) == segment({"ACK"}, plus(c.sndUna, c.sentBytes), <<>>)

rstInWindowLocked(c, seg) ==
    LET wnd == recvWindowRemainingLocked(c)
    IN IF wnd = 0 THEN seg.seq = c.rcvNxt
       ELSE seqGE(seg.seq, c.rcvNxt) /\ seqGT(plus(c.rcvNxt, wnd), seg.seq)

startTimeWaitLocked(c) ==
    arm([c EXCEPT !.state = "TIME_WAIT", !.inTimeWait = TRUE])

-----------------------------------------------------------------------------
(* Sending.                                                                *)

allowedInFlightLocked(c) == Min({c.sndWnd, maxInFlightBytes})

\* Bytes i+1 .. i+n of outBuf, in segments of at most sndMSS.
segments(c, i, n) ==
    {segment({"ACK"}, plus(c.sndUna, k),
             SubSeq(c.outBuf, k + 1, Min({k + sndMSS, i + n}))) :
        k \in {j \in i..(i + n - 1) : (j - i) % sndMSS = 0}}

\* Mutant: data queued behind a closed window arms no timer.
sendPendingUnarmed(c, forceProbe) ==
    LET limit == IF allowedInFlightLocked(c) = 0 THEN c.sentBytes + 1
                                                ELSE allowedInFlightLocked(c)
        n == Min({limit, Len(c.outBuf)}) - c.sentBytes
        pushed == send([c EXCEPT !.sentBytes = @ + n],
                       segments(c, c.sentBytes, n))
    IN IF n <= 0 \/ (allowedInFlightLocked(c) = 0 /\ ~forceProbe) THEN c
       ELSE IF forceProbe THEN pushed
       ELSE arm([pushed EXCEPT !.retransmitCount = 0])

sendPendingLocked(c, forceProbe) ==
    LET queued == Len(c.outBuf) > c.sentBytes
        closedWindow == allowedInFlightLocked(c) = 0
        limit == IF closedWindow THEN c.sentBytes + 1
                                 ELSE allowedInFlightLocked(c)
        n == Min({limit, Len(c.outBuf)}) - c.sentBytes
        pushed == send([c EXCEPT !.sentBytes = @ + n],
                       segments(c, c.sentBytes, n))
    IN IF closedWindow /\ ~forceProbe
       THEN IF queued /\ ~c.timerArmed THEN arm(c) ELSE c
       ELSE IF n <= 0 THEN c
       ELSE IF forceProbe THEN pushed
       ELSE arm([pushed EXCEPT !.retransmitCount = 0])

\* Mutant: the FIN follows what was sent, not what was queued.
sendFINEarly(c) ==
    LET seq == plus(c.sndUna, c.sentBytes)
    IN arm(send([c EXCEPT !.finSeq = seq, !.finSent = TRUE,
                          !.retransmitCount = 0],
                {segment({"FIN", "ACK"}, seq, <<>>)}))

sendFINLocked(c) ==
    LET seq == plus(c.sndUna, Len(c.outBuf))
    IN arm(send([c EXCEPT !.finSeq = seq, !.finSent = TRUE,
                          !.retransmitCount = 0],
                {segment({"FIN", "ACK"}, seq, <<>>)}))

\* The part of handleAckLocked that retires acknowledged bytes.
retire(c, ack) ==
    LET maxCovered == plus(c.sndUna, c.sentBytes)
        covered == IF seqGT(ack, maxCovered) THEN maxCovered ELSE ack
        amount == (covered - c.sndUna) % seqMod
        rest == [c EXCEPT !.outBuf = SubSeq(@, amount + 1, Len(@)),
                          !.sentBytes = @ - amount,
                          !.sndUna = covered,
                          !.retransmitCount = 0]
    IN IF c.sentBytes = 0 \/ ~seqGT(ack, c.sndUna) THEN c
       ELSE broadcastLocked(IF rest.sentBytes = 0 THEN disarm(rest) ELSE arm(rest))

\* The part that notices the acknowledgement of the FIN.
retireFIN(c, ack) ==
    LET acked == [c EXCEPT !.finAcked = TRUE]
    IN IF ~c.finSent \/ c.finAcked \/ ~seqGE(ack, plus(c.finSeq, 1)) THEN c
       ELSE IF c.sentBytes = 0 THEN disarm(acked) ELSE acked

handleAckLocked(c, seg) ==
    LET a == retireFIN(retire(c, seg.ack), seg.ack)
    IN IF "ACK" \notin seg.flags THEN c
       ELSE sendPendingLocked(
                [a EXCEPT !.persistProbeCount =
                              IF a.sndWnd = 0 /\ seg.window > 0 THEN 0 ELSE @,
                          !.sndWnd = seg.window], FALSE)

-----------------------------------------------------------------------------
(* Receiving.                                                              *)

\* The loop that moves buffered segments the gap of which has closed.
RECURSIVE drain(_)
drain(c) ==
    LET data == c.reorder[c.rcvNxt]
    IN IF c.rcvNxt \in DOMAIN c.reorder /\ Len(data) <= recvWindowRemainingLocked(c)
       THEN drain([c EXCEPT
                !.reorder = [s \in DOMAIN @ \ {c.rcvNxt} |-> @[s]],
                !.recvBuf = @ \o data,
                !.rcvNxt = plus(@, Len(data))])
       ELSE c

\* Mutant: a buffered FIN is taken as soon as anything in order arrives.
takeFINAhead(c, seg) ==
    IF "FIN" \in seg.flags \/ c.pendingFIN # {}
    THEN [c EXCEPT !.rcvNxt = plus(@, 1), !.peerClosed = TRUE, !.pendingFIN = {}]
    ELSE c

takeFIN(c, seg) ==
    LET taken == [c EXCEPT !.rcvNxt = plus(@, 1), !.peerClosed = TRUE]
    IN IF "FIN" \in seg.flags /\ plus(seg.seq, Len(seg.data)) = c.rcvNxt THEN taken
       ELSE IF c.rcvNxt \in c.pendingFIN THEN [taken EXCEPT !.pendingFIN = {}]
       ELSE c

inOrder(c, seg) ==
    LET accept == Min({Len(seg.data), recvWindowRemainingLocked(c)})
        a == [c EXCEPT !.recvBuf = @ \o SubSeq(seg.data, 1, accept),
                       !.rcvNxt = plus(@, accept)]
    IN broadcastLocked(IF accept < Len(seg.data) THEN a ELSE takeFIN(drain(a), seg))

outOfOrder(c, seg) ==
    IF \/ seg.seq \in DOMAIN c.reorder
       \/ Cardinality(DOMAIN c.reorder) >= maxReorderSegments
       \/ Len(seg.data) > recvWindowRemainingLocked(c)
    THEN c
    ELSE [c EXCEPT
            !.reorder = [s \in DOMAIN @ \cup {seg.seq} |->
                            IF s = seg.seq THEN seg.data ELSE @[s]],
            !.pendingFIN = IF "FIN" \in seg.flags
                           THEN {plus(seg.seq, Len(seg.data))} ELSE @]

handleEstablishedDataLocked(c, seg) ==
    LET r == IF seg.seq = c.rcvNxt THEN inOrder(c, seg)
             ELSE IF seqGT(seg.seq, c.rcvNxt) THEN outOfOrder(c, seg)
             ELSE c
    IN IF seg.data = <<>> /\ "FIN" \notin seg.flags THEN c
       ELSE send(r, {buildACKLocked(r)})

\* The FIN was consumed by the step from c to d.
finConsumed(c, d) == d.peerClosed /\ ~c.peerClosed

-----------------------------------------------------------------------------
(* handleSegment, by the state it finds. Each starts a new batch of        *)
(* segments; the batch before it is lost, if the peer has not heard it.    *)

fresh == [conn EXCEPT !.toSend = {}]
leaves(c) == conn' = broadcastLocked(c) /\ UNCHANGED <<load, loop, detached, peerVars>>

ResetArrives(seg) ==
    /\ "RST" \in seg.flags
    /\ rstInWindowLocked(conn, seg)
    /\ leaves(terminate(fresh, TRUE))

\* A segment other than the ACK of the SYN-ACK is answered with a reset.
HandshakeRefused(seg) ==
    /\ conn.state = "SYN_RCVD"
    /\ "ACK" \notin seg.flags \/ seg.ack # plus(conn.sndUna, 1)
    /\ leaves(send(terminate(fresh, FALSE), {segment({"RST"}, 0, <<>>)}))

HandshakeCompletes(seg) ==
    /\ conn.state = "SYN_RCVD"
    /\ "ACK" \in seg.flags /\ seg.ack = plus(conn.sndUna, 1)
    /\ leaves(handleEstablishedDataLocked(
            disarm([fresh EXCEPT !.sndUna = seg.ack, !.state = "ESTABLISHED",
                                 !.reader = "queued"]), seg))

\* ESTABLISHED, FIN_WAIT_1 and FIN_WAIT_2: both directions are looked at.
InData(seg) ==
    LET a == handleAckLocked(fresh, seg)
        d == handleEstablishedDataLocked(a, seg)
        fin == finConsumed(a, d)
    IN \/ /\ conn.state = "ESTABLISHED"
          /\ leaves(IF fin THEN [d EXCEPT !.state = "CLOSE_WAIT"] ELSE d)
       \/ /\ conn.state = "FIN_WAIT_1"
          /\ leaves(IF fin /\ d.finAcked THEN startTimeWaitLocked(d)
                    ELSE IF fin THEN [d EXCEPT !.state = "CLOSING"]
                    ELSE IF d.finAcked THEN [d EXCEPT !.state = "FIN_WAIT_2"]
                    ELSE d)
       \/ /\ conn.state = "FIN_WAIT_2"
          /\ leaves(IF fin THEN startTimeWaitLocked(d) ELSE d)

\* After the peer's FIN only its acknowledgements count.
PastFIN(seg) ==
    LET a == handleAckLocked(fresh, seg)
    IN \/ /\ conn.state = "CLOSING"
          /\ leaves(IF a.finAcked THEN startTimeWaitLocked(a) ELSE a)
       \/ /\ conn.state = "CLOSE_WAIT"
          /\ leaves(a)
       \/ /\ conn.state = "LAST_ACK"
          /\ leaves(IF a.finAcked THEN terminate(a, FALSE) ELSE a)

InTimeWait(seg) ==
    /\ conn.state = "TIME_WAIT"
    /\ "FIN" \in seg.flags
    /\ leaves(send(fresh, {buildACKLocked(conn)}))

handleSegment(seg) ==
    \/ ResetArrives(seg)
    \/ /\ "RST" \notin seg.flags
       /\ \/ HandshakeRefused(seg) \/ HandshakeCompletes(seg)
          \/ InData(seg) \/ PastFIN(seg) \/ InTimeWait(seg)

-----------------------------------------------------------------------------
(* The timer goroutine.                                                    *)

\* The select takes the timer's channel; the lock is not yet held.
TimerFires ==
    /\ loop = "select"
    /\ conn.clock = "running"
    /\ conn' = [conn EXCEPT !.clock = "stopped"]
    /\ loop' = "fired"
    /\ UNCHANGED <<load, detached, peerVars>>

giveUp(c) ==
    send(terminate(c, TRUE),
         {segment({"RST", "ACK"}, plus(c.sndUna, c.sentBytes), <<>>)})

\* Mutant: retransmissions are not counted.
retransmitForever(c, seg) == send([c EXCEPT !.clock = "running"], {seg})

retransmit(c, seg) ==
    IF c.retransmitCount >= maxRetransmits THEN giveUp(c)
    ELSE send([c EXCEPT !.retransmitCount = @ + 1, !.clock = "running"], {seg})

persist(c) ==
    IF c.persistProbeCount >= maxPersistProbes THEN giveUp(c)
    ELSE [sendPendingLocked([c EXCEPT !.persistProbeCount = @ + 1], TRUE)
            EXCEPT !.clock = "running"]

expire(c) ==
    CASE c.state = "CLOSED" -> c
      [] c.inTimeWait /\ c.state # "CLOSED" -> terminate(c, FALSE)
      [] c.state = "SYN_RCVD" ->
            retransmit(c, segment({"SYN", "ACK"}, c.sndUna, <<>>))
      [] OTHER ->
            IF c.sentBytes > 0
            THEN retransmit(c, segment({"ACK"}, c.sndUna,
                                SubSeq(c.outBuf, 1, Min({c.sentBytes, sndMSS}))))
            ELSE IF c.finSent /\ ~c.finAcked
            THEN retransmit(c, segment({"FIN", "ACK"}, c.finSeq, <<>>))
            ELSE IF c.sndWnd = 0 /\ Len(c.outBuf) > c.sentBytes THEN persist(c)
            ELSE [c EXCEPT !.timerArmed = FALSE]

onRTOFired ==
    /\ loop = "fired"
    /\ conn' = expire(fresh)
    /\ loop' = "select"
    /\ UNCHANGED <<load, detached, peerVars>>

onAttachmentDetached ==
    /\ loop = "select"
    /\ detached
    /\ conn' = IF conn.state = "CLOSED" THEN conn ELSE terminate(conn, TRUE)
    /\ loop' = "done"
    /\ UNCHANGED <<load, detached, peerVars>>

TimersStopped ==
    /\ loop = "select"
    /\ conn.stopTimers
    /\ loop' = "done"
    /\ UNCHANGED <<load, conn, detached, peerVars>>

timerLoop == TimerFires \/ onRTOFired \/ onAttachmentDetached \/ TimersStopped

-----------------------------------------------------------------------------
(* The application and the stack around the connection.                    *)

app(c) == conn' = c /\ UNCHANGED <<load, loop, detached, peerVars>>

\* Accept hands the connection to the application.
Accept ==
    /\ conn.reader = "queued"
    /\ app([conn EXCEPT !.reader = "running", !.writer = "idle"])

\* The accept queue is full, or its listener closes first.
abort ==
    /\ conn.reader = "queued"
    /\ app([IF conn.state = "CLOSED" THEN conn ELSE giveUp(conn)
            EXCEPT !.reader = "done"])

Read ==
    /\ conn.reader = "running"
    /\ \/ \E n \in 1..Len(conn.recvBuf) :
            app([conn EXCEPT !.got = @ \o SubSeq(conn.recvBuf, 1, n),
                             !.recvBuf = SubSeq(@, n + 1, Len(@))])
       \/ /\ conn.recvBuf = <<>>
          /\ conn.err \/ conn.peerClosed
          /\ app([conn EXCEPT !.reader = "done",
                              !.ended = IF conn.err THEN "reset" ELSE "eof"])
       \/ /\ conn.recvBuf = <<>>
          /\ ~conn.err /\ ~conn.peerClosed
          /\ app([conn EXCEPT !.reader = "parked"])

\* One turn of Write's loop: fill the send buffer, or wait for room in it.
writeTurn(c) ==
    LET capacity == Min({maxInFlightBytes - Len(c.outBuf), c.left})
        filled == [c EXCEPT
                     !.outBuf = @ \o [k \in 1..capacity |-> c.wrote + k],
                     !.wrote = @ + capacity,
                     !.left = @ - capacity,
                     !.writer = IF c.left > capacity THEN "running" ELSE "idle"]
    IN IF c.err THEN [c EXCEPT !.writer = "idle", !.left = 0]
       ELSE IF Len(c.outBuf) >= maxInFlightBytes THEN [c EXCEPT !.writer = "parked"]
       ELSE sendPendingLocked(filled, FALSE)

Write ==
    \/ /\ conn.writer = "idle"
       /\ ~conn.err /\ ~conn.finSent
       /\ \E n \in 1..(load.out - conn.wrote) :
            app(writeTurn([fresh EXCEPT !.left = n]))
    \/ /\ conn.writer = "running"
       /\ app(writeTurn(fresh))

\* A deadline ends a call and leaves the connection as it is.
DeadlinePasses ==
    \/ /\ conn.reader = "parked"
       /\ app([conn EXCEPT !.reader = "running"])
    \/ /\ conn.writer \in {"parked", "running"}
       /\ app([conn EXCEPT !.writer = "idle", !.left = 0])

\* Close and CloseWrite, of which closeWriteOnce lets one act, also while a Write
\* is in its loop. closedAt remembers how much had been written by then.
CloseWrite ==
    LET next == IF conn.state = "ESTABLISHED" THEN "FIN_WAIT_1" ELSE "LAST_ACK"
        c == [fresh EXCEPT !.closeWrite = TRUE, !.closedAt = conn.wrote]
    IN /\ conn.writer # "absent"
       /\ ~conn.closeWrite
       /\ app(broadcastLocked(
            IF conn.state \in {"ESTABLISHED", "CLOSE_WAIT"}
            THEN [sendFINLocked(c) EXCEPT !.state = next] ELSE c))

Detach ==
    /\ ~detached
    /\ detached' = TRUE
    /\ UNCHANGED <<load, conn, loop, peerVars>>

-----------------------------------------------------------------------------
(* The peer and the network. The peer's segments carry any piece of its    *)
(* stream, old or new, acknowledge anything it has received, and arrive in *)
(* any order or not at all.                                                *)

Pieces ==
    {p \in (0..load.in) \X (0..load.in) : p[1] <= p[2] /\ p[2] - p[1] <= sndMSS}

PeerSegments ==
    {[flags |-> {"ACK"} \cup f, seq |-> rcvSeq(p[1]),
      data |-> [k \in 1..(p[2] - p[1]) |-> p[1] + k],
      ack |-> sndSeq(a), window |-> w] :
        p \in Pieces, f \in {{}, {"FIN"}}, a \in 0..heard, w \in load.windows}

\* A FIN follows the last byte.
PeerStream ==
    {s \in PeerSegments :
        "FIN" \in s.flags => plus(s.seq, Len(s.data)) = rcvSeq(load.in)}

\* A retransmitted SYN, and a reset at any place of the stream.
PeerControl ==
    {[flags |-> {"SYN"}, seq |-> irs, data |-> <<>>, ack |-> 0, window |-> 0]}
    \cup {[flags |-> {"RST"}, seq |-> rcvSeq(i), data |-> <<>>, ack |-> 0,
           window |-> 0] : i \in 0..load.in}

SegmentArrives == \E seg \in PeerStream \cup PeerControl : handleSegment(seg)

\* The peer receives a segment of the last batch that extends its prefix; it
\* takes nothing behind a FIN it has received.
PeerHears ==
    \E s \in conn.toSend :
        LET first == (s.seq - sndSeq(0)) % seqMod
            last == first + Len(s.data) + (IF "FIN" \in s.flags THEN 1 ELSE 0)
        IN /\ ~heardFIN
           /\ first <= heard /\ heard < last
           /\ heard' = last
           /\ heardFIN' = ("FIN" \in s.flags)
           /\ UNCHANGED <<load, conn, loop, detached>>

-----------------------------------------------------------------------------
Next ==
    \/ SegmentArrives \/ PeerHears
    \/ timerLoop
    \/ Accept \/ abort \/ Read \/ Write \/ DeadlinePasses \/ CloseWrite
    \/ Detach

Spec == Init /\ [][Next]_vars

\* The Go scheduler runs the timer goroutine.
FairSpec == Spec /\ WF_vars(timerLoop)

-----------------------------------------------------------------------------
\* Every field of the connection keeps to its type: states, sequence numbers within
\* the sequence space, counters within their limits (tcp_conn.go:81).
TypeOK ==
    /\ conn.state \in States
    /\ conn.sndUna \in 0..(seqMod - 1) /\ conn.rcvNxt \in 0..(seqMod - 1)
    /\ conn.sentBytes \in 0..Len(conn.outBuf)
    /\ Len(conn.outBuf) <= maxInFlightBytes
    /\ conn.retransmitCount \in 0..maxRetransmits
    /\ conn.persistProbeCount \in 0..maxPersistProbes
    /\ conn.clock \in {"running", "stopped"} /\ loop \in {"select", "fired", "done"}
    /\ conn.reader \in {"absent", "queued", "running", "parked", "done"}
    /\ conn.writer \in {"absent", "idle", "running", "parked"}

\* Everything this connection holds for its peer, in order or not, fits the
\* receive window, whatever the peer sends and however slowly the reader reads.
HeldBounded ==
    Len(conn.recvBuf)
        + MapThenSumSet(LAMBDA s : Len(conn.reorder[s]), DOMAIN conn.reorder)
        <= defaultReceiveWindow

Stream == INSTANCE ByteStream WITH
    source <- [k \in 1..load.in |-> k], got <- conn.got, ended <- conn.ended

\* Read returns the peer's bytes in order and once each, and end of file only
\* after the last, through loss, reordering, a full window and a reset
\* (tcp_conn.go, Read).
StreamImplemented == Stream!Spec

\* Every byte put on the wire, first or again, carries the sequence number of
\* its place in what the application wrote; every FIN, first or again, follows
\* just what had been written when CloseWrite or Close was called.
SegmentsTruthful ==
    \A s \in conn.toSend :
        /\ \A k \in 1..Len(s.data) : plus(s.seq, k - 1) = sndSeq(s.data[k] - 1)
        /\ "FIN" \in s.flags => s.seq = sndSeq(conn.closedAt)

\* The connection's bookkeeping is consistent with both streams: what is held for the
\* reader fits the window that was advertised, and what goes out is what was
\* written, at its place (handleEstablishedDataLocked, sendPendingLocked,
\* sendFINLocked).
ConnConsistent == TypeOK /\ HeldBounded /\ SegmentsTruthful

\* While a SYN-ACK, sent bytes, bytes behind a closed window or TIME_WAIT wait
\* for something, the connection's one timer is running or about to be handled.
ClockCovers ==
    \/ conn.state = "CLOSED"
    \/ conn.clock = "running" \/ loop = "fired"
    \/ ~(\/ conn.state \in {"SYN_RCVD", "TIME_WAIT"}
         \/ conn.sentBytes > 0
         \/ conn.sndWnd = 0 /\ Len(conn.outBuf) > 0)

\* Nobody sleeps on notifyCh although what it waits for is there.
NoLostWakeup ==
    /\ conn.reader = "parked" =>
            conn.recvBuf = <<>> /\ ~conn.err /\ ~conn.peerClosed
    /\ conn.writer = "parked" =>
            ~conn.err /\ Len(conn.outBuf) >= maxInFlightBytes

\* A timer that runs ends in an acknowledgement or in the end of the connection,
\* whatever the peer does: retransmissions and probes are bounded.
ClockSettles == conn.timerArmed ~> (~conn.timerArmed \/ conn.state = "CLOSED")

\* The timer goroutine of a connection that is over, or whose session is gone,
\* exits.
LoopExits == (conn.state = "CLOSED" \/ detached) ~> (loop = "done")
=============================================================================
