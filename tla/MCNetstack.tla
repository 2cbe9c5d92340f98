----------------------------- MODULE MCNetstack -----------------------------
(* Instances of Netstack for TLC.                                          *)
EXTENDS Netstack

CONSTANTS x, y, a1, a2, s1, s2

\* Three datagrams, the third too long for its header; the first is sent twice,
\* cut for two different MTUs.
Payload == <<<<11, 12, 13, 14, 15>>, <<21, 22, 23>>, <<31, 32, 33, 34, 35, 36>>>>
Frags == fragmentIPv4(Payload[1], 2, 1) \cup fragmentIPv4(Payload[1], 5, 1)
         \cup fragmentIPv4(Payload[2], 2, 2) \cup fragmentIPv4(Payload[3], 4, 3)

workload(addrs, packets, n1, n2, calls) ==
    [atts |-> {a \in Att : a = a1 \/ n2 > 0}, addrs |-> addrs, packets |-> [a \in Att |-> packets], budget |-> [a \in Att |-> IF a = a1 THEN n1 ELSE n2],
     calls |-> calls, payload |-> Payload,
     socks |-> {}, policy |-> "DropNewest", sets |-> 0]
Udp == [proto |-> "udp"]
Stray == [proto |-> "stray"]
segment(port, flag) == [proto |-> "tcp", port |-> port, flag |-> flag]

Routing ==
    workload({x}, {Stray, Udp}, 1, 1, {"Detach", "Close", "SessionCloses", "ShortBuffer"})
Fragments ==
    workload({x}, {[proto |-> "frag", frag |-> f] : f \in Frags}, 5, 0, {"Detach"})
Queueing ==
    [workload({x, y}, {Udp}, 3, 2, {}) EXCEPT !.socks = {s1}, !.policy = "DropOldest"]
Rebinding ==
    [workload({x, y}, {Udp}, 2, 1, {}) EXCEPT !.socks = {s1, s2}]
Deadlines ==
    [workload({x}, {Udp}, 1, 0, {}) EXCEPT !.socks = {s1}, !.sets = 3]
Connections ==
    [workload({x}, {segment(1, "SYN")}, 2, 1, {"Detach"})
        EXCEPT !.packets[a1] = {segment(1, "SYN"), segment(1, "RST")}]
Listening ==
    workload({x, y}, {segment(1, f) : f \in {"SYN", "ACK"}}, 2, 2, {"Accept", "CloseListener"})
Timers ==
    workload({x}, {segment(1, f) : f \in {"SYN", "ACK", "RST"}} \cup {segment(2, "SYN")}, 4, 0,
             {"Accept", "TimerEnds", "Detach"})

Traffic == {Routing, Fragments, Queueing, Rebinding, Deadlines, Connections, Listening, Timers}
OnlyDeadlines == {Deadlines}
=============================================================================
