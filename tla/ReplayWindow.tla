---------------------------- MODULE ReplayWindow ----------------------------
(***************************************************************************)
(* The sliding anti-replay window of src/internal/tlscrypt/tlscrypt.go,    *)
(* and its independent copy in src/internal/datachan/replay.go.  The bit   *)
(* mask seen is the set of its bits: i is in seen when highest - i has     *)
(* been seen.                                                              *)
(***************************************************************************)
EXTENDS Integers

CONSTANT replayWindowSize   \* width of the mask

ASSUME ReplayAssumption == replayWindowSize \in Nat \ {0}

Bits == 0 .. replayWindowSize - 1

replayWindow == [init : BOOLEAN, highest : Nat, seen : SUBSET Bits]

newReplayWindow == [init |-> FALSE, highest |-> 0, seen |-> {}]

\* Mutant: no late packet is let in.
acceptableInOrder(w, seq) == w.init => seq > w.highest

\* accept(seq) returns true.
acceptable(w, seq) ==
    \/ ~ w.init
    \/ seq > w.highest
    \/ w.highest - seq < replayWindowSize /\ w.highest - seq \notin w.seen

\* The mask shifted left: what moves past its width is lost.
shifted(seen, by) == {i \in Bits : i - by \in seen}

\* The window after accept(seq) returned true.
accepted(w, seq) ==
    [init |-> TRUE,
     highest |-> IF ~ w.init \/ seq > w.highest THEN seq ELSE w.highest,
     seen |->
        IF ~ w.init THEN {0}
        ELSE IF seq > w.highest THEN shifted(w.seen, seq - w.highest) \union {0}
        ELSE w.seen \union {w.highest - seq}]
=============================================================================
