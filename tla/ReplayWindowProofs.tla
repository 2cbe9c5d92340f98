------------------------- MODULE ReplayWindowProofs -------------------------
(***************************************************************************)
(* What the anti-replay window guarantees, for every width of the mask and *)
(* every sequence number: nothing is accepted twice.                       *)
(***************************************************************************)
EXTENDS ReplayWindow, TLAPS

\* accept keeps the window in its type.
LEMMA AcceptedTypes ==
    ASSUME NEW w \in replayWindow, NEW seq \in Nat, acceptable(w, seq)
    PROVE  accepted(w, seq) \in replayWindow
<1>1. w.highest \in Nat /\ w.seen \in SUBSET Bits /\ 0 \in Bits
    BY ReplayAssumption DEF replayWindow, Bits
<1>2. shifted(w.seen, seq - w.highest) \in SUBSET Bits
    BY DEF shifted
<1>3. w.init /\ ~ (seq > w.highest) => w.highest - seq \in Bits
    BY <1>1, ReplayAssumption DEF acceptable, Bits
<1> QED
    BY <1>1, <1>2, <1>3 DEF accepted, replayWindow

\* The window refuses every number of S.
Refuses(w, S) == (w.init \/ S = {}) /\ \A a \in S : ~ acceptable(w, a)

\* A window that refuses what it has accepted so far accepts none of it again, and
\* refuses it still, the new number included, after the next accept, whether that
\* shifts the mask by less than its width, by its width or by more, or fills a hole.
THEOREM NothingTwice ==
    ASSUME NEW w \in replayWindow, NEW S \in SUBSET Nat, NEW seq \in Nat,
           Refuses(w, S), acceptable(w, seq)
    PROVE  seq \notin S /\ Refuses(accepted(w, seq), S \union {seq})
<1> DEFINE v == accepted(w, seq)
<1>1. w.highest \in Nat /\ w.seen \subseteq Bits
    BY DEF replayWindow
<1>2. seq \notin S
    BY DEF Refuses
<1>3. v.init
    BY DEF accepted
<1>4. ~ acceptable(v, seq)
  <2>1. CASE ~ w.init \/ seq > w.highest
    <3>1. v.highest = seq /\ 0 \in v.seen
      BY <2>1 DEF accepted
    <3> QED
      BY <1>3, <3>1 DEF acceptable
  <2>2. CASE w.init /\ ~ (seq > w.highest)
    <3>1. v.highest = w.highest /\ w.highest - seq \in v.seen
      BY <2>2 DEF accepted
    <3> QED
      BY <1>1, <1>3, <2>2, <3>1 DEF acceptable
  <2> QED
    BY <2>1, <2>2
<1>5. ASSUME NEW a \in S
      PROVE  ~ acceptable(v, a)
  <2>1. /\ w.init /\ a <= w.highest
        /\ w.highest - a >= replayWindowSize \/ w.highest - a \in w.seen
    BY <1>1, ReplayAssumption DEF Refuses, acceptable
  <2>2. CASE seq > w.highest
    <3>1. v.highest = seq /\ v.seen = shifted(w.seen, seq - w.highest) \union {0}
      BY <2>1, <2>2 DEF accepted
    <3>2. seq - a >= replayWindowSize \/ seq - a \in v.seen
      <4>1. CASE w.highest - a >= replayWindowSize
        BY <1>1, <2>2, <4>1, ReplayAssumption
      <4>2. CASE w.highest - a \in w.seen /\ seq - a < replayWindowSize
        <5>1. seq - a \in Bits /\ (seq - a) - (seq - w.highest) = w.highest - a
          BY <1>1, <2>1, <2>2, <4>2, ReplayAssumption DEF Bits
        <5> QED
          BY <3>1, <4>2, <5>1 DEF shifted
      <4> QED
        BY <1>1, <2>1, <4>1, <4>2, ReplayAssumption
    <3> QED
      BY <1>1, <1>3, <2>1, <2>2, <3>1, <3>2, ReplayAssumption DEF acceptable
  <2>3. CASE ~ (seq > w.highest)
    <3>1. v.highest = w.highest /\ w.seen \subseteq v.seen
      BY <2>1, <2>3 DEF accepted
    <3> QED
      BY <1>1, <1>3, <2>1, <3>1, ReplayAssumption DEF acceptable
  <2> QED
    BY <2>2, <2>3
<1> QED
    BY <1>2, <1>3, <1>4, <1>5 DEF Refuses
=============================================================================
