------------------------------ MODULE UDPDemux ------------------------------
(***************************************************************************)
(* The UDP demultiplexer and its sockets (src/netstack/udp.go) on one port *)
(* of the stack: read loops queue datagrams under the demux's read lock,   *)
(* a reader takes them, the embedder sets deadlines, closes and binds the  *)
(* port again.                                                             *)
(***************************************************************************)
EXTENDS Stack, DeadlineTimer

CONSTANTS
    Sock,       \* sockets: each is made by one call of ListenUDP
    queueDepth

VARIABLES
    bound,      \* ports[port], Nil when the port is free
    sock,       \* [state, queue, read, ch, got, dl] of each socket; got is the
                \* last datagram of each session that the reader has had
    sets        \* deadlines the embedder may still set

udpVars == <<bound, sock, sets>>

UDPInit ==
    /\ bound = Nil
    /\ sock = [s \in Sock |-> [state |-> "new", queue |-> <<>>, read |-> "out",
                               ch |-> 0, got |-> [a \in Att |-> load.budget[a] + 1], dl |-> newDeadlineTimer]]
    /\ sets = load.sets

\* The read loops that hold the demux's mutex for reading.
holders == {a \in Att : att[a].loop \in {"udpSend", "udpEvict", "udpResend"}}

-----------------------------------------------------------------------------
(* handlePacket, on the read loop of a, with att[a].on the socket found.   *)

Lookup(a) ==
    /\ att[a].loop = "udp"
    /\ att' = [att EXCEPT ![a] = IF bound = Nil THEN turned(a)
                                 ELSE [@ EXCEPT !.loop = "udpSend", !.on = bound]]
    /\ UNCHANGED sock

queued(s, a) == [sock EXCEPT ![s].queue = Append(@, [from |-> a, n |-> att[a].n])]

\* Mutant: a send that succeeds falls through to the eviction.
SendTwice(a) ==
    /\ att[a].loop = "udpSend"
    /\ LET s == att[a].on
           room == Len(sock[s].queue) < queueDepth
       IN /\ sock' = IF room THEN queued(s, a) ELSE sock
          /\ att' = [att EXCEPT ![a] = IF load.policy = "DropNewest"
                                       THEN turned(a) ELSE [@ EXCEPT !.loop = "udpEvict"]]

\* Neither send ever blocks. A full queue drops the datagram, or (DropOldest)
\* makes room by taking one out: a reader may have been faster.
Send(a) ==
    /\ att[a].loop = "udpSend"
    /\ LET s == att[a].on
           room == Len(sock[s].queue) < queueDepth
       IN /\ sock' = IF room THEN queued(s, a) ELSE sock
          /\ att' = [att EXCEPT ![a] = IF room \/ load.policy = "DropNewest"
                                       THEN turned(a) ELSE [@ EXCEPT !.loop = "udpEvict"]]

Evict(a) ==
    /\ att[a].loop = "udpEvict"
    /\ sock' = [sock EXCEPT ![att[a].on].queue = IF @ = <<>> THEN @ ELSE Tail(@)]
    /\ att' = [att EXCEPT ![a].loop = "udpResend"]

Resend(a) ==
    /\ att[a].loop = "udpResend"
    /\ sock' = IF Len(sock[att[a].on].queue) < queueDepth
               THEN queued(att[a].on, a) ELSE sock
    /\ att' = [att EXCEPT ![a] = turned(a)]

UDPPacket(a) ==
    /\ Lookup(a) \/ Send(a) \/ Evict(a) \/ Resend(a)
    /\ UNCHANGED <<bound, sets>>

-----------------------------------------------------------------------------
(* The embedder's calls.                                                   *)

ListenUDP(s) ==
    /\ s \in load.socks /\ sock[s].state = "new"
    /\ s = CHOOSE r \in load.socks : sock[r].state = "new"
    /\ bound = Nil /\ holders = {}
    /\ bound' = s
    /\ sock' = [sock EXCEPT ![s].state = "open"]
    /\ UNCHANGED <<att, sets>>

\* Mutant: Close does not wait for the demux's mutex.
CloseUnlocked(s) ==
    /\ bound' = IF bound = s THEN Nil ELSE bound
    /\ sock' = [sock EXCEPT ![s].state = "unbound"]

\* Close frees the port under the demux's mutex, ...
Unbind(s) ==
    /\ holders = {}
    /\ bound' = IF bound = s THEN Nil ELSE bound
    /\ sock' = [sock EXCEPT ![s].state = "unbound"]

CloseUDP(s) ==
    /\ sock[s].state = "open"
    /\ Unbind(s)
    /\ UNCHANGED <<att, sets>>

\* Mutant: the channel readers wait on is never closed.
ClosedSilently(s) ==
    /\ sock[s].state = "unbound"
    /\ sock' = [sock EXCEPT ![s].state = "silent", ![s].dl = stopTimer(@)]
    /\ UNCHANGED <<att, bound, sets>>

\* ... then stops the deadline and closes the channel readers wait on.
Closed(s) ==
    /\ sock[s].state = "unbound"
    /\ sock' = [sock EXCEPT ![s].state = "closed", ![s].dl = stopTimer(@)]
    /\ UNCHANGED <<att, bound, sets>>

SetReadDeadline(s, t) ==
    /\ sets > 0 /\ sock[s].state # "new"
    /\ sets' = sets - 1
    /\ sock' = [sock EXCEPT ![s].dl = set(@, t)]
    /\ UNCHANGED <<att, bound>>

DeadlinePasses(s) ==
    /\ sock[s].dl.timer
    /\ sock' = [sock EXCEPT ![s].dl = passes(@)]
    /\ UNCHANGED <<att, bound, sets>>

DeadlineFires(s) ==
    /\ \E i \in DOMAIN sock[s].dl.started :
         sock' = [sock EXCEPT ![s].dl = callback(@, i)]
    /\ UNCHANGED <<att, bound, sets>>

\* ReadFrom: the two checks, ...
ReadFrom(s) ==
    /\ sock[s].state # "new" /\ sock[s].read = "out"
    /\ sock[s].state # "closed" /\ sock[s].dl.ch \notin sock[s].dl.closedChs
    /\ sock' = [sock EXCEPT ![s].read = "checked"]
    /\ UNCHANGED <<att, bound, sets>>

\* ... the select, on the deadline's channel of that moment, ...
Select(s) ==
    /\ sock[s].read = "checked"
    /\ sock' = [sock EXCEPT ![s].read = "waiting", ![s].ch = sock[s].dl.ch]
    /\ UNCHANGED <<att, bound, sets>>

\* ... and any of its cases that is ready.
Selected(s) ==
    /\ sock[s].read = "waiting"
    /\ \/ /\ sock[s].queue # <<>>
          /\ sock' = [sock EXCEPT ![s].read = "out", ![s].ch = 0,
                                  ![s].queue = Tail(@),
                                  ![s].got[Head(sock[s].queue).from] = Head(sock[s].queue).n]
       \/ /\ sock[s].state = "closed" \/ sock[s].ch \in sock[s].dl.closedChs
          /\ sock' = [sock EXCEPT ![s].read = "out", ![s].ch = 0]
    /\ UNCHANGED <<att, bound, sets>>

UDPSteps ==
    \/ \E a \in Att : UDPPacket(a)
    \/ \E s \in Sock : Closed(s) \/ DeadlineFires(s) \/ Select(s) \/ Selected(s)

UDPCalls ==
    \E s \in Sock :
        \/ ListenUDP(s) \/ CloseUDP(s) \/ ReadFrom(s) \/ DeadlinePasses(s)
        \/ \E t \in {"zero", "past", "future"} : SetReadDeadline(s, t)

-----------------------------------------------------------------------------
(* Properties of the sockets.                                              *)

\* A second close of a deadline's channel ends the process.
Panicked == \E s \in Sock : sock[s].dl.panicked

\* A socket's reader sees each session's datagrams in the order they came in,
\* none of them twice, whatever was dropped, also when queueing a datagram
\* takes a failed send, an eviction and a second send with readers and other
\* sessions in between (udp.go:265).
DatagramsInOrder ==
    \A s \in Sock :
        LET q == sock[s].queue
        IN \A i \in DOMAIN q :
             /\ q[i].n < sock[s].got[q[i].from]
             /\ \A j \in 1..i - 1 : q[j].from = q[i].from => q[i].n < q[j].n

\* Once Close has freed the port, nothing is queued for the socket any more:
\* a datagram that arrives goes to the port's next owner or to nobody
\* (udp.go:239).
NothingAfterClose ==
    \A s \in Sock : sock[s].state \in {"unbound", "closed"} =>
        Len(sock'[s].queue) <= Len(sock[s].queue)

\* A reader that waits will hear of its deadline: the channel it waits on is
\* the one the deadline will close, or is closed already, although set may
\* replace the channel while the reader waits (deadline.go:79).
DeadlineHeard ==
    \A s \in Sock : sock[s].read = "waiting" =>
        sock[s].ch = sock[s].dl.ch \/ sock[s].ch \in sock[s].dl.closedChs

\* Close releases the reader, in whatever step of ReadFrom it is (udp.go:501).
CloseReleasesReader ==
    []<>(Panicked \/ \A s \in Sock : sock[s].state \in {"new", "open"} \/ sock[s].read = "out")
=============================================================================
