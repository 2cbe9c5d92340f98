----------------------------- MODULE ByteStream -----------------------------
(***************************************************************************)
(* What a netstack TCP connection (src/netstack/tcp_conn.go) promises the  *)
(* reader of an accepted connection: the peer's bytes, in order, each      *)
(* once; end of file only after the last of them; an error at any moment.  *)
(***************************************************************************)
EXTENDS Naturals, Sequences

VARIABLES
    source,   \* the bytes the peer sends in the life of the connection
    got,      \* the bytes Read has returned
    ended     \* what Read last returned: "open" (bytes), "eof" or "reset"

Init ==
    /\ got = <<>>
    /\ ended = "open"

Deliver ==
    /\ ended = "open"
    /\ Len(got) < Len(source)
    /\ \E n \in (Len(got) + 1)..Len(source) : got' = SubSeq(source, 1, n)
    /\ UNCHANGED <<source, ended>>

EndOfFile ==
    /\ ended = "open"
    /\ got = source
    /\ ended' = "eof"
    /\ UNCHANGED <<source, got>>

Fail ==
    /\ ended' = "reset"
    /\ UNCHANGED <<source, got>>

Next == Deliver \/ EndOfFile \/ Fail

Spec == Init /\ [][Next]_<<source, got, ended>>
=============================================================================
