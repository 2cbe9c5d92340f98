------------------------------ MODULE TCPDemux ------------------------------
(***************************************************************************)
(* The TCP demultiplexer and one listener (src/netstack/tcp_listener.go):  *)
(* the connection table, the per-address counts of half-open and of live   *)
(* connections, the accept backlog. A connection is what the demux sees of *)
(* a tcpConn: SYN_RCVD, ESTABLISHED, FINISHING (the application has closed *)
(* it) or CLOSED; TCPConn models the rest. Whoever closes one (a read      *)
(* loop, its timer goroutine, the application, the listener) then walks    *)
(* through removeConn step by step.                                        *)
(***************************************************************************)
EXTENDS Stack

CONSTANTS
    Conn,                    \* connections: each is made by one SYN
    maxHalfOpenPerSession,
    maxLiveConnsPerSession,
    defaultBacklog

VARIABLES
    conns,       \* d.conns: the connection of a key, as far as there is one
    conn,        \* [state, key, att, half, live, app, timer, work] of each
    halfOpen,    \* d.halfOpen and d.liveConns
    liveConns,
    listener,    \* "open", then Close's steps: "closed", "removed", "drained"
    backlog

tcpVars == <<conns, conn, halfOpen, liveConns, listener, backlog>>

\* The goroutines besides the read loops that tear a connection down.
Others == {"timer", "app", "closer"}

TCPInit ==
    /\ conns = <<>>
    /\ conn = [c \in Conn |-> [state |-> "none", key |-> Nil, att |-> Nil,
                               half |-> FALSE, live |-> FALSE,
                               app |-> FALSE, timer |-> "none",
                               work |-> [w \in Att \cup Others |-> "none"]]]
    /\ halfOpen = [ip \in Addr |-> 0]
    /\ liveConns = [ip \in Addr |-> 0]
    /\ listener = "open"
    /\ backlog = <<>>

key(a) == <<att[a].ip, att[a].pkt.port>>
finished(a) == [att EXCEPT ![a] = turned(a)]
at(a, step) == [att EXCEPT ![a].loop = step]

-----------------------------------------------------------------------------
(* Tearing a connection down.                                              *)

\* The critical section that ends c, and the removeConn that follows it.
terminate(cn, w) ==
    [cn EXCEPT !.state = "CLOSED",
               !.timer = IF @ = "run" THEN "stop" ELSE @,
               !.work[w] = "unmap"]

unmap(c) == [k \in {x \in DOMAIN conns : x # conn[c].key \/ conns[x] # c} |-> conns[k]]

less(counts, ip) == [counts EXCEPT ![ip] = IF @ <= 1 THEN 0 ELSE @ - 1]

\* Mutant: the flag is read and not cleared.
takeHalfKept(c) == conn[c]

\* releaseHalfOpen takes the flag under the connection's mutex, then counts
\* under the demux's.
takeHalf(c) == [conn[c] EXCEPT !.half = FALSE]
takeLive(c) == [conn[c] EXCEPT !.live = FALSE]

working(cn, w, step) == [cn EXCEPT !.work[w] = step]

\* One step of w in removeConn(c), or in the releaseHalfOpen of a handshake.
removeConn(c, w) ==
    LET pc == conn[c].work[w]
        ip == conn[c].key[1]
        goto(step) == [conn EXCEPT ![c] = working(@, w, step)]
    IN \/ /\ pc = "unmap"
          /\ conns' = unmap(c)
          /\ conn' = goto("half")
          /\ UNCHANGED <<halfOpen, liveConns>>
       \/ /\ pc \in {"half", "established"}
          /\ conn' = [conn EXCEPT ![c] = working(takeHalf(c), w,
                        IF pc = "half" THEN IF conn[c].half THEN "uncount" ELSE "live"
                        ELSE IF conn[c].half THEN "uncountEst" ELSE "enqueue")]
          /\ UNCHANGED <<conns, halfOpen, liveConns>>
       \/ /\ pc \in {"uncount", "uncountEst"}
          /\ halfOpen' = less(halfOpen, ip)
          /\ conn' = goto(IF pc = "uncount" THEN "live" ELSE "enqueue")
          /\ UNCHANGED <<conns, liveConns>>
       \/ /\ pc = "live"
          /\ conn' = [conn EXCEPT ![c] = working(takeLive(c), w,
                        IF conn[c].live THEN "uncountLive" ELSE "none")]
          /\ UNCHANGED <<conns, halfOpen, liveConns>>
       \/ /\ pc = "uncountLive"
          /\ liveConns' = less(liveConns, ip)
          /\ conn' = goto("none")
          /\ UNCHANGED <<conns, halfOpen>>

-----------------------------------------------------------------------------
(* handlePacket, on the read loop of a.                                    *)

\* The table and the listeners; whatever else is not for a connection is
\* answered with an RST or ignored.
Route(a) ==
    /\ att[a].loop = "tcp"
    /\ att' = IF key(a) \in DOMAIN conns
              THEN [att EXCEPT ![a].loop = "tcpSegment", ![a].on = conns[key(a)]]
              ELSE IF att[a].pkt.flag = "SYN" /\ listener \in {"open", "closed"}
              THEN at(a, "tcpSYN")
              ELSE finished(a)
    /\ UNCHANGED tcpVars

\* handleSYN looks at the listener's closed flag under the listener's mutex, ...
Admit(a) ==
    /\ att[a].loop = "tcpSYN"
    /\ att' = IF listener = "open" THEN at(a, "tcpReserve") ELSE finished(a)
    /\ UNCHANGED tcpVars

hasRoom(ip) ==
    /\ halfOpen[ip] < maxHalfOpenPerSession
    /\ liveConns[ip] < maxLiveConnsPerSession

\* ... counts the connection under the demux's, whether or not the listener has
\* been closed since, ...
Reserve(a) ==
    /\ att[a].loop = "tcpReserve"
    /\ IF hasRoom(att[a].ip)
       THEN /\ att' = at(a, "tcpInsert")
            /\ halfOpen' = [halfOpen EXCEPT ![att[a].ip] = @ + 1]
            /\ liveConns' = [liveConns EXCEPT ![att[a].ip] = @ + 1]
       ELSE att' = finished(a) /\ UNCHANGED <<halfOpen, liveConns>>
    /\ UNCHANGED <<conns, conn, listener, backlog>>

\* ... and enters it into the table in a second critical section.
Insert(a) ==
    /\ att[a].loop = "tcpInsert"
    /\ \E c \in Conn : conn[c].state = "none"
    /\ LET c == CHOOSE x \in Conn : conn[x].state = "none"
       IN /\ conns' = with(conns, key(a), c)
          /\ conn' = [conn EXCEPT ![c].state = "SYN_RCVD", ![c].key = key(a),
                                  ![c].att = a, ![c].half = TRUE,
                                  ![c].live = TRUE, ![c].timer = "run"]
    /\ att' = finished(a)
    /\ UNCHANGED <<halfOpen, liveConns, listener, backlog>>

\* handleSegment. An RST ends the connection if it is in the window, whatever
\* the state; in SYN_RCVD so does all but the right ACK; and once the
\* application has closed, the peer's last ACK may.
endsBy(flag, state) ==
    \/ flag = "RST" \/ state = "FINISHING"
    \/ flag = "SYN" /\ state = "SYN_RCVD"

Segment(a) ==
    /\ att[a].loop = "tcpSegment"
    /\ LET c == att[a].on
           flag == att[a].pkt.flag
       IN \/ /\ endsBy(flag, conn[c].state)
             /\ conn' = [conn EXCEPT ![c] = terminate(@, a)]
             /\ att' = at(a, "tcpWork")
          \/ /\ flag = "RST" \/ conn[c].state # "SYN_RCVD"
             /\ att' = finished(a)
             /\ UNCHANGED conn
          \/ /\ flag = "ACK" /\ conn[c].state = "SYN_RCVD"
             /\ conn' = [conn EXCEPT ![c].state = "ESTABLISHED",
                                     ![c].work[a] = "established"]
             /\ att' = at(a, "tcpWork")
    /\ UNCHANGED <<conns, halfOpen, liveConns, listener, backlog>>

\* abort, by w: a connection that is closed already is left alone.
abort(cn, w) ==
    IF cn.state = "CLOSED" THEN working(cn, w, "none") ELSE terminate(cn, w)

\* Mutant: the backlog takes connections after the listener is closed.
acceptsAlways == Len(backlog) < defaultBacklog

accepts == listener = "open" /\ Len(backlog) < defaultBacklog

\* enqueue, one critical section with the listener's closed flag.
Enqueue(a) ==
    /\ att[a].loop = "tcpWork"
    /\ LET c == att[a].on
       IN /\ conn[c].work[a] = "enqueue"
          /\ IF accepts
             THEN /\ backlog' = Append(backlog, c)
                  /\ conn' = [conn EXCEPT ![c] = working(@, a, "none")]
             ELSE /\ conn' = [conn EXCEPT ![c] = abort(@, a)]
                  /\ UNCHANGED backlog
    /\ UNCHANGED <<att, conns, halfOpen, liveConns, listener>>

\* The read loop has nothing left to do for the connection.
Worked(a) ==
    /\ att[a].loop = "tcpWork" /\ conn[att[a].on].work[a] = "none"
    /\ att' = finished(a)
    /\ UNCHANGED tcpVars

-----------------------------------------------------------------------------
(* timerLoop, the application and the listener.                            *)

\* Mutant: the loop ends without closing the connection.
onAttachmentDetachedQuietly(cn) == [cn EXCEPT !.timer = "stop"]

onAttachmentDetached(cn) ==
    IF cn.state = "CLOSED" THEN [cn EXCEPT !.timer = "stop"] ELSE terminate(cn, "timer")

TimerLoop(c) ==
    /\ \/ /\ conn[c].timer = "run" /\ stopChClosed(conn[c].att)
          /\ conn' = [conn EXCEPT ![c] = onAttachmentDetached(@)]
       \/ /\ conn[c].timer = "stop" /\ conn[c].work["timer"] = "none"
          /\ conn' = [conn EXCEPT ![c].timer = "done"]
    /\ UNCHANGED <<att, conns, halfOpen, liveConns, listener, backlog>>

\* onRTOFired, when it gives up or TIME_WAIT is over.
TimerEnds(c) ==
    /\ "TimerEnds" \in load.calls
    /\ conn[c].timer = "run" /\ conn[c].state # "CLOSED"
    /\ conn' = [conn EXCEPT ![c] = terminate(@, "timer")]
    /\ UNCHANGED <<att, conns, halfOpen, liveConns, listener, backlog>>

Accept ==
    /\ "Accept" \in load.calls
    /\ backlog # <<>>
    /\ conn' = [conn EXCEPT ![Head(backlog)].app = TRUE]
    /\ backlog' = Tail(backlog)
    /\ UNCHANGED <<att, conns, halfOpen, liveConns, listener>>

CloseConn(c) ==
    /\ conn[c].app /\ conn[c].state = "ESTABLISHED"
    /\ conn' = [conn EXCEPT ![c].state = "FINISHING"]
    /\ UNCHANGED <<att, conns, halfOpen, liveConns, listener, backlog>>

CloseListener ==
    /\ "CloseListener" \in load.calls
    /\ listener = "open"
    /\ listener' = "closed"
    /\ UNCHANGED <<att, conns, conn, halfOpen, liveConns, backlog>>

\* The rest of Close: out of the table, then abort what nobody accepted.
ListenerCloses ==
    /\ \/ listener = "closed" /\ listener' = "removed" /\ UNCHANGED <<conn, backlog>>
       \/ /\ listener = "removed" /\ \A c \in Conn : conn[c].work["closer"] = "none"
          /\ IF backlog = <<>>
             THEN listener' = "drained" /\ UNCHANGED <<conn, backlog>>
             ELSE /\ conn' = [conn EXCEPT ![Head(backlog)] = abort(@, "closer")]
                  /\ backlog' = Tail(backlog)
                  /\ UNCHANGED listener
    /\ UNCHANGED <<att, conns, halfOpen, liveConns>>

TCPSteps ==
    \/ \E a \in Att :
         \/ Route(a) \/ Admit(a) \/ Reserve(a) \/ Insert(a)
         \/ Segment(a) \/ Enqueue(a) \/ Worked(a)
    \/ \E c \in Conn :
         \/ TimerLoop(c)
         \/ \E w \in Att \cup Others : removeConn(c, w) /\ UNCHANGED <<att, listener, backlog>>
    \/ ListenerCloses

TCPCalls ==
    \/ CloseListener \/ Accept
    \/ \E c \in Conn : TimerEnds(c) \/ CloseConn(c)

-----------------------------------------------------------------------------
(* Properties of the demux.                                                *)

of(ip) == {c \in Conn : conn[c].state # "none" /\ conn[c].key[1] = ip}
doing(ip, steps) ==
    {<<c, w>> \in of(ip) \X (Att \cup Others) : conn[c].work[w] \in steps}
entering(ip) == {a \in Att : att[a].ip = ip /\ att[a].loop = "tcpInsert"}

\* The counts are exact: each counts the connections that still carry its flag,
\* the SYNs between their count and their connection, and the goroutines
\* between taking a flag and counting down. In particular no connection is
\* counted down twice, though a handshake that completes, a detached session,
\* the application and the peer's RST may all release it at once
\* (tcp_listener.go:163).
CountsExact ==
    \A ip \in Addr :
        /\ halfOpen[ip] = Cardinality({c \in of(ip) : conn[c].half})
                          + Cardinality(doing(ip, {"uncount", "uncountEst"}))
                          + Cardinality(entering(ip))
        /\ liveConns[ip] = Cardinality({c \in of(ip) : conn[c].live})
                           + Cardinality(doing(ip, {"uncountLive"}))
                           + Cardinality(entering(ip))

\* No address has more connections that are not CLOSED, or more of them half
\* open, than it may have, however many read loops handle its SYNs
\* (tcp_listener.go:298).
WithinLimits ==
    \A ip \in Addr :
        /\ Cardinality({c \in of(ip) : conn[c].state # "CLOSED"}) <= maxLiveConnsPerSession
        /\ Cardinality({c \in of(ip) : conn[c].state = "SYN_RCVD"}) <= maxHalfOpenPerSession

\* An established connection always has somebody who will hand it on, use it or
\* abort it: a read loop on the way to the backlog, the backlog of a listener
\* that somebody may still accept from or that Close has yet to drain, or the
\* application (tcp_listener.go:374).
NobodyForgotten ==
    /\ listener = "drained" => backlog = <<>>
    /\ \A c \in Conn : conn[c].state = "ESTABLISHED" =>
         \/ conn[c].app
         \/ \E i \in DOMAIN backlog : backlog[i] = c
         \/ \E a \in Att : conn[c].work[a] \in {"established", "uncountEst", "enqueue"}

\* A connection leaves the table only when it is CLOSED: a late removal of an
\* old connection never takes its successor's entry (tcp_listener.go:165).
OnlyClosedLeave ==
    \A k \in DOMAIN conns : k \notin DOMAIN conns' => conn[conns[k]].state = "CLOSED"

\* Once its session is detached, a connection ends, leaves the table, gives
\* back what it was counted for, and its timer goroutine exits
\* (tcp_timer.go:376).
DetachedConnsEnd ==
    []<>(\A c \in Conn :
            conn[c].state # "none" /\ stopChClosed(conn[c].att) =>
                /\ conn[c].state = "CLOSED" /\ conn[c].timer = "done"
                /\ ~conn[c].half /\ ~conn[c].live
                /\ c \notin {conns[k] : k \in DOMAIN conns}
                /\ \A w \in Att \cup Others : conn[c].work[w] = "none")
=============================================================================
