------------------------------- MODULE Stack --------------------------------
(***************************************************************************)
(* The netstack's core (src/netstack/stack.go): the routing table, one     *)
(* read loop per attached session, source check, reassembly and dispatch   *)
(* to the UDP and the TCP demultiplexer. The embedder attaches, detaches   *)
(* and closes; sessions come and go under it.                              *)
(***************************************************************************)
EXTENDS Reassembly

CONSTANTS
    Att,      \* attachments: each is made by one call of Attach
    Addr,     \* tunnel addresses of clients
    Loads,    \* workloads, one of which the behaviour picks
    Nil

VARIABLES
    load,     \* [atts, addrs, packets, budget, calls, ...]: attachments and
              \* addresses in use, the packets each client may send, how many, and
              \* what else may happen; the rest is the demuxes'
    left,     \* packets each client may still send
    now,      \* the stack's clock
    closed,   \* Stack.Close has begun
    routes,   \* s.routes, Nil where there is no entry
    att,      \* [ip, phase, sess, loop, big, pkt, n, on] of each attachment
    reasm,    \* its reassembler
    whole     \* ghost: the datagram reassembled last, and its buffer's expiry

stackVars == <<load, left, now, closed, routes, att, reasm, whole>>

\* The bound of the clock.
maxNow == 2 * reassemblyTimeout

Phases == {"new", "routed", "unrouted", "stopping", "stopped"}

StackInit ==
    /\ load \in Loads
    /\ left = load.budget
    /\ now = 0
    /\ closed = FALSE
    /\ routes = [ip \in Addr |-> Nil]
    /\ att = [a \in Att |-> [ip |-> Nil, phase |-> "new", sess |-> "open",
                             loop |-> "none", big |-> FALSE, pkt |-> Nil, n |-> 0,
                             on |-> Nil]]
    /\ reasm = [a \in Att |-> newReassembler]
    /\ whole = Nil

-----------------------------------------------------------------------------
(* The embedder.                                                           *)

Attach(a, ip) ==
    /\ a \in load.atts /\ att[a].phase = "new"
    /\ a = CHOOSE b \in load.atts : att[b].phase = "new"
    /\ ip \in load.addrs /\ routes[ip] = Nil
    /\ routes' = [routes EXCEPT ![ip] = a]
    /\ att' = [att EXCEPT ![a].ip = ip, ![a].phase = "routed", ![a].loop = "read"]
    /\ UNCHANGED <<load, left, now, closed, reasm, whole>>

\* The entries of addresses D are deleted in one critical section.
unroute(D) ==
    /\ routes' = [ip \in Addr |-> IF ip \in D THEN Nil ELSE routes[ip]]
    /\ att' = [a \in Att |->
                IF att[a].ip \in D /\ routes[att[a].ip] = a
                THEN [att[a] EXCEPT !.phase = "unrouted"] ELSE att[a]]

Detach(ip) ==
    /\ "Detach" \in load.calls
    /\ routes[ip] # Nil
    /\ unroute({ip})
    /\ UNCHANGED <<load, left, now, closed, reasm, whole>>

Close ==
    /\ "Close" \in load.calls /\ ~closed
    /\ closed' = TRUE
    /\ unroute(Addr)
    /\ UNCHANGED <<load, left, now, reasm, whole>>

\* attachment.stop, by whoever deleted the entry: it closes stopCh, then
\* discards the fragments.
stop(a) ==
    \/ /\ att[a].phase = "unrouted"
       /\ att' = [att EXCEPT ![a].phase = "stopping"]
       /\ UNCHANGED reasm
    \/ /\ att[a].phase = "stopping"
       /\ att' = [att EXCEPT ![a].phase = "stopped"]
       /\ reasm' = [reasm EXCEPT ![a] = discardAll(@)]

stopChClosed(a) == att[a].phase \in {"stopping", "stopped"}

-----------------------------------------------------------------------------
(* The read loop.                                                          *)

\* The end of a turn and the check at the head of the next.
turned(a) ==
    [att[a] EXCEPT !.loop = IF stopChClosed(a) THEN "done" ELSE "read",
                   !.pkt = Nil, !.n = 0, !.on = Nil]

\* Read fails for a packet the buffer cannot hold, which the session keeps.
ShortBuffer(a) ==
    /\ "ShortBuffer" \in load.calls
    /\ att[a].loop = "read" /\ att[a].sess = "open" /\ ~att[a].big /\ left[a] > 0
    /\ att' = [att EXCEPT ![a] = [turned(a) EXCEPT !.big = TRUE]]
    /\ UNCHANGED <<load, left, now, closed, routes, reasm, whole>>

ReadPacket(a) ==
    /\ att[a].loop = "read" /\ att[a].sess = "open" /\ left[a] > 0
    /\ left' = [left EXCEPT ![a] = @ - 1]
    /\ \E p \in load.packets[a] :
         att' = [att EXCEPT ![a] =
                   IF stopChClosed(a) THEN turned(a)
                   ELSE [@ EXCEPT !.loop = "deliver", !.pkt = p, !.n = left[a]]]
    /\ UNCHANGED <<load, now, closed, routes, reasm, whole>>

\* Mutant: the entry is deleted whoever owns it.
detachAddress(a) ==
    /\ routes' = [routes EXCEPT ![att[a].ip] = Nil]
    /\ att' = [att EXCEPT ![a].loop = "done",
                          ![a].phase = IF @ = "routed" THEN "unrouted" ELSE @]

\* detachAttachment, the deletion: only its own entry.
detachAttachment(a) ==
    /\ routes' = [routes EXCEPT ![att[a].ip] = IF @ = a THEN Nil ELSE @]
    /\ att' = [att EXCEPT ![a].loop = "done",
                          ![a].phase = IF @ = "routed" THEN "unrouted" ELSE @]

\* Mutant: every failed Read is taken for a short buffer.
ReadFailsForever(a) ==
    /\ att[a].loop = "read" /\ att[a].sess = "closed"
    /\ att' = [att EXCEPT ![a] = [turned(a) EXCEPT !.big = TRUE]]
    /\ UNCHANGED <<load, left, now, closed, routes, reasm, whole>>

\* Read fails because the session is closed: the first time, the loop cannot
\* tell this from a short buffer, grows the buffer and tries again.
ReadFails(a) ==
    /\ att[a].loop = "read" /\ att[a].sess = "closed"
    /\ IF att[a].big THEN detachAttachment(a)
       ELSE /\ att' = [att EXCEPT ![a] = [turned(a) EXCEPT !.big = TRUE]]
            /\ UNCHANGED routes
    /\ UNCHANGED <<load, left, now, closed, reasm, whole>>

\* dispatch hands what has been checked to the demux of its protocol; a
\* datagram that was reassembled is UDP.
dispatch(a, proto) == [att EXCEPT ![a].loop = proto]

\* deliver, for a packet that is malformed or not from the client's own
\* address to the server's ("stray"), a fragment, or a whole packet.
deliver(a) ==
    /\ att[a].loop = "deliver"
    /\ LET p == att[a].pkt
       IN \/ /\ p.proto = "stray"
             /\ att' = [att EXCEPT ![a] = turned(a)]
             /\ UNCHANGED <<reasm, whole>>
          \/ /\ p.proto \in {"udp", "tcp"}
             /\ att' = dispatch(a, p.proto)
             /\ UNCHANGED <<reasm, whole>>
          \/ /\ p.proto = "frag"
             /\ LET res == add(reasm[a], now, p.frag)
                IN /\ reasm' = [reasm EXCEPT ![a] = res.r]
                   /\ IF res.out = "Complete"
                      THEN /\ whole' = [id |-> p.frag.id, data |-> res.datagram,
                                        expires |-> reasm[a].bufs[p.frag.id].expires]
                           /\ att' = dispatch(a, "udp")
                      ELSE /\ att' = [att EXCEPT ![a] = turned(a)]
                           /\ UNCHANGED whole
    /\ UNCHANGED <<load, left, now, closed, routes>>

-----------------------------------------------------------------------------
\* The client's session is closed by the server that owns it.
SessionCloses(a) ==
    /\ "SessionCloses" \in load.calls
    /\ att[a].phase # "new" /\ att[a].sess = "open"
    /\ att' = [att EXCEPT ![a].sess = "closed"]
    /\ UNCHANGED <<load, left, now, closed, routes, reasm, whole>>

\* Time matters to reassembly alone.
Tick ==
    /\ now < maxNow
    /\ \E a \in Att : DOMAIN reasm[a].bufs # {}
    /\ now' = now + 1
    /\ UNCHANGED <<load, left, closed, routes, att, reasm, whole>>

StackSteps(a) ==
    \/ (stop(a) /\ UNCHANGED <<load, left, now, closed, routes, whole>>)
    \/ deliver(a) \/ ReadFails(a)

StackCalls ==
    \/ Close \/ Tick
    \/ \E a \in Att, ip \in Addr : Attach(a, ip)
    \/ \E ip \in Addr : Detach(ip)
    \/ \E a \in Att : ShortBuffer(a) \/ ReadPacket(a) \/ SessionCloses(a)

-----------------------------------------------------------------------------
(* Properties of the core.                                                 *)

\* The routing table has an entry for an attachment exactly while nobody has
\* begun to detach it, and never two for one. Detach, Close and the read loop's
\* own detachAttachment race for the entry, and a slow read loop may find its
\* address attached again (stack.go:583).
RouteExact ==
    \A a \in Att, ip \in Addr :
        routes[ip] = a <=> att[a].phase = "routed" /\ att[a].ip = ip

\* Fragments outlive no attachment, the hole lists name exactly the bytes that
\* are missing and the budget counts exactly the bytes that are held, whatever
\* the order of arrival, duplicates, overlaps, refusals and expiries
\* (reassembly.go:203).
FragmentsAccounted ==
    \A a \in Att :
        /\ HolesExact(reasm[a]) /\ BudgetExact(reasm[a])
        /\ att[a].phase = "stopped" => reasm[a].bufs = <<>>

\* A datagram that reassembly hands on is one that was sent, all of its bytes
\* in their places. Payloads are those of the workload, by identification
\* (reassembly.go:219, 323).
DatagramsWhole ==
    whole # Nil => whole.data = load.payload[whole.id]

\* Reassembly keeps exact books, and what it hands on is right (reassembly.go).
ReassemblyExact == FragmentsAccounted /\ DatagramsWhole

\* A datagram is handed on only if its first fragment had not timed out when the
\* last one arrived: add sweeps before it looks for the buffer (reassembly.go:203).
NotTooLate == whole' # whole => now < whole'.expires

\* A session that is closed loses its route, and its read loop ends: one failed
\* Read is taken for a short buffer, the second detaches (stack.go:612).
ClosedSessionsLeave ==
    []<>(\A a \in Att : att[a].sess = "closed" => att[a].phase = "stopped" /\ att[a].loop = "done")
=============================================================================
