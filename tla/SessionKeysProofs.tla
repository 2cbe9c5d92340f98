------------------------- MODULE SessionKeysProofs -------------------------
(***************************************************************************)
(* Proofs about the key slots of a session, in the composition DataChannel *)
(* makes of SessionKeys and the data path: for any number of               *)
(* renegotiations and of goroutines that start them, any timing parameters *)
(* and any range of at least four key-ids.                                 *)
(***************************************************************************)
EXTENDS DataChannel, FiniteSetTheorems, TLAPS

\* nextKeyID stays in range, never gives 0, and neither of the two ids that
\* follow an id is that id again.
LEMMA NextKeyID ==
    \A k \in KeyID : /\ nextKeyID(k) \in KeyID \ {0}
                     /\ nextKeyID(k) # k
                     /\ nextKeyID(nextKeyID(k)) # k
<1> SUFFICES ASSUME NEW k \in KeyID
             PROVE  /\ nextKeyID(k) \in KeyID \ {0}
                    /\ nextKeyID(k) # k
                    /\ nextKeyID(nextKeyID(k)) # k
    OBVIOUS
<1>1. \A i \in KeyID : nextKeyID(i) = IF i = keyIDMask THEN 1 ELSE i + 1
    BY KeysAssumption DEF nextKeyID, KeyID
<1>2. 1 \in KeyID /\ (k # keyIDMask => k + 1 \in KeyID)
    BY KeysAssumption DEF KeyID
<1> QED
    BY <1>1, <1>2, KeysAssumption DEF KeyID

-----------------------------------------------------------------------------
(* The steps of the composition, as the keys see them.                     *)

\* closeWithReason is entered, or it has been.
closes == CloseSession \/ (stop # "open" /\ UNCHANGED stopVars) \/ UNCHANGED stopVars

\* A step of handleDataPacket changes nothing of the keys but the age of the last
\* traffic, and an exit-notify closes the session.
opens ==
    /\ UNCHANGED <<slotVars, age, ttl, lastReneg, attemptVars, actorVars>>
    /\ idle' = 0
    /\ closes

\* Every step is one of the keys' machine, or leaves its state alone; the bounds
\* never change.
LEMMA KeySteps ==
    ASSUME Next
    PROVE  /\ limits' = limits
           /\ \/ KeysStep \/ Traffic \/ ReapRead \/ ReapClose \/ Tick
              \/ opens
              \/ UNCHANGED keyVars
<1>1. CASE Quiet(KeysStep)
    BY <1>1 DEF Quiet, dataVars, outVars
<1>2. CASE ControlTraffic
    BY <1>2 DEF ControlTraffic, dataVars, outVars
<1>3. CASE ReaperReads
    BY <1>3 DEF ReaperReads, dataVars, outVars
<1>4. CASE ReaperCloses
    BY <1>4 DEF ReaperCloses, dataVars, outVars
<1>5. CASE TimePasses
    BY <1>5 DEF TimePasses, dataVars, outVars
<1>6. CASE \E c \in Conn, k \in Kind : ClientSeals(c, k)
    BY <1>6 DEF ClientSeals, outVars
<1>7. CASE \E p \in network : DataArrives(p)
    BY <1>7 DEF DataArrives, outVars
<1>8. CASE DropForged
    BY <1>8 DEF DropForged, outVars
<1>9. CASE OpenData
    BY <1>9 DEF OpenData, outVars, opens, closes, AbsorbPing, ExitNotify, Enqueue,
                Opened
<1>10. CASE Read
    BY <1>10 DEF Read, outVars
<1>11. CASE \E w \in Writer : WriterSnapshot(w) \/ WriterSeals(w)
    BY <1>11 DEF WriterSnapshot, WriterSeals
<1> QED
    BY <1>1, <1>2, <1>3, <1>4, <1>5, <1>6, <1>7, <1>8, <1>9, <1>10, <1>11 DEF Next

-----------------------------------------------------------------------------
(* Types, and the room startRenegotiation finds for its Conn.              *)

starters == {h \in Handler : handler[h] # Nil}

\* The goroutines on their way to startRenegotiation have a Conn left to build.
Room ==
    built + Cardinality(starters) + (IF ticker = "due" THEN 1 ELSE 0)
        <= limits.conns + 1

KeysTyped == KeysTypeOK /\ Room

LEMMA Constants ==
    /\ MaxConn \in Nat /\ 0 \in Conn
    /\ \A l \in Limits : l.conns \in Nat /\ l.conns <= MaxConn
    /\ \A c \in Conn : c \in Int /\ c # Nil
    /\ \A k \in KeyID : k # Nil
    /\ renegSec \in Nat /\ renegMinInterval \in Nat
    /\ transitionWindow \in Nat \ {0} /\ reapWindow \in Nat \ {0}
BY KeysAssumption DEF Conn, KeyID

LEMMA StartersFinite == IsFiniteSet(starters) /\ Cardinality(starters) \in Nat
BY FS_Subset, FS_CardinalityType, KeysAssumption DEF starters

\* A goroutine that is on its way leaves room for one more Conn.
LEMMA RoomToBuild ==
    ASSUME KeysTyped, ticker = "due" \/ \E h \in Handler : handler[h] # Nil
    PROVE  built \in Conn
<1>1. built \in Nat /\ limits.conns \in Nat /\ limits.conns <= MaxConn
    BY Constants DEF KeysTyped, KeysTypeOK
<1>2. CASE ticker = "due"
    BY <1>1, <1>2, StartersFinite, Constants DEF KeysTyped, Room, Conn
<1>3. CASE \E h \in Handler : handler[h] # Nil
  <2>1. starters # {}
    BY <1>3 DEF starters
  <2>2. Cardinality(starters) # 0
    BY <2>1, StartersFinite, FS_EmptySet
  <2>3. ticker = "due" \/ ticker # "due"
    OBVIOUS
  <2> QED
    BY <1>1, <2>2, <2>3, StartersFinite, Constants DEF KeysTyped, Room, Conn
<1> QED
    BY <1>2, <1>3

\* A handler that returns makes room, one that starts takes it.
LEMMA StartersChange ==
    ASSUME NEW h \in Handler, NEW v, handler \in [Handler -> KeyID \union {Nil}],
           handler' = [handler EXCEPT ![h] = v]
    PROVE  /\ handler[h] # Nil /\ v = Nil => Cardinality(starters)' = Cardinality(starters) - 1
           /\ handler[h] = Nil /\ v # Nil => Cardinality(starters)' = Cardinality(starters) + 1
<1>1. CASE handler[h] # Nil /\ v = Nil
  <2>1. starters' = starters \ {h} /\ h \in starters
    BY <1>1 DEF starters
  <2> QED
    BY <1>1, <2>1, StartersFinite, FS_RemoveElement
<1>2. CASE handler[h] = Nil /\ v # Nil
  <2>1. starters' = starters \union {h} /\ h \notin starters
    BY <1>2 DEF starters
  <2> QED
    BY <1>2, <2>1, StartersFinite, FS_AddElement
<1> QED
    BY <1>1, <1>2

\* startRenegotiation keeps the types of what it publishes.
LEMMA StartTypes ==
    ASSUME KeysTypeOK, built \in Conn, startRenegotiation
    PROVE  /\ built' \in 1 .. MaxConn + 1
           /\ keyID' \in [Conn -> KeyID]
           /\ open' \subseteq Conn
           /\ primary' \in Conn /\ lameDuck' \in Conn \union {Nil}
           /\ pending' \in Conn \union {Nil}
           /\ lastReneg' \in 0 .. renegMinInterval
           /\ run' \in [Conn -> RunStates] /\ watch' \in [Conn -> WatchStates]
           /\ derived' \subseteq Conn
<1>1. nextKeyID(keyID[primary]) \in KeyID
    BY NextKeyID DEF KeysTypeOK
<1>2. keyID' \in [Conn -> KeyID]
    BY <1>1 DEF startRenegotiation, KeysTypeOK
<1>3. run' \in [Conn -> RunStates]
    BY DEF startRenegotiation, KeysTypeOK, RunStates
<1>4. built' \in 1 .. MaxConn + 1 /\ lastReneg' \in 0 .. renegMinInterval
    BY Constants DEF startRenegotiation, KeysTypeOK, Conn
<1> QED
    BY <1>2, <1>3, <1>4 DEF startRenegotiation, KeysTypeOK

\* routeControlPacket finds a Conn.
LEMMA RouteTypes ==
    ASSUME KeysTypeOK, NEW k
    PROVE  routeControlPacket(k) \in Conn \union {Nil}
BY DEF routeControlPacket, KeysTypeOK

\* A step of runReneg, of a SOFT_RESET handler or of the reaper keeps the types.
LEMMA ActorTypes ==
    ASSUME KeysTyped, limits' = limits,
           \/ \E h \in Handler : beginRenegotiation(h) \/ \E k \in KeyID : ResetUnrouted(h, k)
           \/ TickerStep
    PROVE  KeysTyped'
<1>1. ASSUME NEW h \in Handler, beginRenegotiation(h)
      PROVE  KeysTyped'
  <2>1. handler' \in [Handler -> KeyID \union {Nil}]
    BY <1>1 DEF beginRenegotiation, KeysTyped, KeysTypeOK
  <2>2. Cardinality(starters)' = Cardinality(starters) - 1
    <3>1. handler \in [Handler -> KeyID \union {Nil}] /\ handler[h] # Nil
          /\ handler' = [handler EXCEPT ![h] = Nil]
      BY <1>1 DEF beginRenegotiation, KeysTyped, KeysTypeOK
    <3> QED
      BY <3>1, StartersChange, Zenon
  <2>3. built \in Conn
    BY <1>1, RoomToBuild DEF beginRenegotiation
  <2>4. CASE startRenegotiation /\ fed' = fed \union {built}
    <3>1. KeysTypeOK'
      BY <1>1, <2>1, <2>3, <2>4, StartTypes, ZenonT(60)
         DEF beginRenegotiation, KeysTyped, KeysTypeOK, stopVars
    <3>2. Room'
      BY <1>1, <2>2, <2>4, StartersFinite, Constants
         DEF beginRenegotiation, startRenegotiation, KeysTyped, KeysTypeOK, Room
    <3> QED
      BY <3>1, <3>2 DEF KeysTyped
  <2>5. CASE UNCHANGED <<slotVars, lastReneg, attemptVars>>
    <3>1. KeysTypeOK'
      BY <1>1, <2>1, <2>5 DEF beginRenegotiation, KeysTyped, KeysTypeOK, slotVars,
                              attemptVars, stopVars
    <3>2. Room'
      BY <1>1, <2>2, <2>5, StartersFinite, Constants
         DEF beginRenegotiation, slotVars, KeysTyped, KeysTypeOK, Room
    <3> QED
      BY <3>1, <3>2 DEF KeysTyped
  <2> QED
    BY <1>1, <2>4, <2>5 DEF beginRenegotiation
<1>2. ASSUME NEW h \in Handler, NEW k \in KeyID, ResetUnrouted(h, k)
      PROVE  KeysTyped'
  <2>1. handler' \in [Handler -> KeyID \union {Nil}]
    BY <1>2 DEF ResetUnrouted, KeysTyped, KeysTypeOK
  <2>2. Cardinality(starters)' = Cardinality(starters) + 1
    <3>1. handler \in [Handler -> KeyID \union {Nil}] /\ handler[h] = Nil /\ k # Nil
          /\ handler' = [handler EXCEPT ![h] = k]
      BY <1>2, Constants DEF ResetUnrouted, KeysTyped, KeysTypeOK
    <3> QED
      BY <3>1, StartersChange, Zenon
  <2>3. KeysTypeOK'
    BY <1>2, <2>1 DEF ResetUnrouted, KeysTyped, KeysTypeOK, slotVars, timeVars,
                      attemptVars, stopVars
  <2>4. spare > 0 /\ built \in Int /\ limits.conns \in Int /\ UNCHANGED <<built, ticker>>
    BY <1>2, Constants DEF ResetUnrouted, slotVars, KeysTyped, KeysTypeOK
  <2>5. Room'
    BY <2>2, <2>4, StartersFinite DEF spare, starters, Room
  <2> QED
    BY <2>3, <2>5 DEF KeysTyped
<1>3. CASE sweepLameDuck
  <2>1. KeysTypeOK'
    BY <1>3 DEF sweepLameDuck, lameDuckExpired, KeysTyped, KeysTypeOK, timeVars,
                attemptVars, stopVars
  <2>2. Room'
    BY <1>3 DEF sweepLameDuck, KeysTyped, Room, starters
  <2> QED
    BY <2>1, <2>2 DEF KeysTyped
<1>4. CASE closeExpired
  <2>1. KeysTypeOK'
    BY <1>4 DEF closeExpired, KeysTyped, KeysTypeOK, timeVars, attemptVars, stopVars
  <2>2. Room'
    BY <1>4 DEF closeExpired, KeysTyped, Room, starters
  <2> QED
    BY <2>1, <2>2 DEF KeysTyped
<1>5. CASE checkReneg
  <2>1. KeysTypeOK'
    BY <1>5 DEF checkReneg, KeysTyped, KeysTypeOK, slotVars, timeVars, attemptVars,
                stopVars
  <2>2. spare > 0 /\ built \in Int /\ limits.conns \in Int /\ ticker' = "due"
            /\ ticker = "waiting" /\ UNCHANGED <<built, handler>>
    BY <1>5, Constants DEF checkReneg, slotVars, KeysTyped, KeysTypeOK
  <2>3. Room'
    BY <2>2, StartersFinite DEF spare, starters, Room
  <2> QED
    BY <2>1, <2>3 DEF KeysTyped
<1>6. CASE initiateRenegotiation
  <2>1. built \in Conn
    BY <1>6, RoomToBuild DEF initiateRenegotiation
  <2>2. CASE startRenegotiation
    <3>1. KeysTypeOK'
      BY <1>6, <2>1, <2>2, StartTypes, ZenonT(60)
         DEF initiateRenegotiation, KeysTyped, KeysTypeOK, stopVars
    <3>2. Room'
      BY <1>6, <2>2, StartersFinite, Constants
         DEF initiateRenegotiation, startRenegotiation, KeysTyped, KeysTypeOK, Room,
             starters
    <3> QED
      BY <3>1, <3>2 DEF KeysTyped
  <2>3. CASE UNCHANGED <<slotVars, lastReneg, derived, run, watch>>
    <3>1. KeysTypeOK'
      BY <1>6, <2>3 DEF initiateRenegotiation, KeysTyped, KeysTypeOK, slotVars,
                        stopVars
    <3>2. Room'
      BY <1>6, <2>3, StartersFinite, Constants
         DEF initiateRenegotiation, slotVars, KeysTyped, KeysTypeOK, Room, starters
    <3> QED
      BY <3>1, <3>2 DEF KeysTyped
  <2> QED
    BY <1>6, <2>2, <2>3 DEF initiateRenegotiation
<1> QED
    BY <1>1, <1>2, <1>3, <1>4, <1>5, <1>6 DEF TickerStep

\* A step of runRenegotiation keeps the types.
LEMMA RunTypes ==
    ASSUME KeysTyped, limits' = limits, NEW c \in Conn, RunStep(c)
    PROVE  KeysTyped'
<1>1. run' \in [Conn -> RunStates]
    BY DEF RunStep, RunForced, StartRun, RejectUser, Abandon, CloseAttempt, Superseded,
           WrapperFails, Rollover, RejectedCloses, Derive, FailHandshake, RunTo,
           KeysTyped, KeysTypeOK, RunStates
<1>2. watch' \in [Conn -> WatchStates]
    BY DEF RunStep, RunForced, StartRun, RejectUser, Abandon, CloseAttempt, Superseded,
           WrapperFails, Rollover, RejectedCloses, Derive, FailHandshake,
           KeysTyped, KeysTypeOK, WatchStates
<1>3. Room'
  <2>1. UNCHANGED <<built, handler, ticker>>
    BY DEF RunStep, RunForced, StartRun, RejectUser, Abandon, CloseAttempt, Superseded,
           WrapperFails, Rollover, RejectedCloses, Derive, FailHandshake, slotVars,
           actorVars
  <2> QED
    BY <2>1 DEF KeysTyped, Room, starters
<1>4. CASE StartRun(c) \/ Derive(c) \/ FailHandshake(c) \/ RejectUser(c) \/ Superseded(c)
  <2>1. KeysTypeOK'
    BY <1>1, <1>2, <1>4 DEF StartRun, Derive, FailHandshake, RejectUser, Superseded,
       KeysTyped, KeysTypeOK, slotVars, timeVars, actorVars, stopVars
  <2> QED
    BY <1>3, <2>1 DEF KeysTyped
<1>5. CASE Abandon(c) \/ WrapperFails(c)
  <2>1. KeysTypeOK'
    BY <1>1, <1>2, <1>5 DEF Abandon, WrapperFails, KeysTyped, KeysTypeOK, timeVars,
       actorVars, stopVars
  <2> QED
    BY <1>3, <2>1 DEF KeysTyped
<1>6. CASE CloseAttempt(c) \/ RejectedCloses(c)
  <2>1. KeysTypeOK'
    BY <1>1, <1>2, <1>6 DEF CloseAttempt, RejectedCloses, CloseSession, KeysTyped,
       KeysTypeOK, timeVars, actorVars, stopVars
  <2> QED
    BY <1>3, <2>1 DEF KeysTyped
<1>7. CASE Rollover(c)
  <2>1. /\ UNCHANGED <<limits, built, keyID, lastReneg, idle, fed, derived>>
        /\ UNCHANGED <<handler, ticker, expired, reaper, stop, closing>>
    BY <1>7 DEF Rollover, actorVars, stopVars
  <2>2. /\ primary' \in Conn /\ lameDuck' \in Conn \union {Nil}
        /\ pending' \in Conn \union {Nil} /\ open' \subseteq Conn
    BY <1>7 DEF Rollover, openAfterSwap, KeysTyped, KeysTypeOK
  <2>3. age' \in 0 .. renegSec /\ ttl' \in 0 .. transitionWindow
    BY <1>7, Constants DEF Rollover
  <2>4. KeysTypeOK'
    BY <1>1, <1>2, <2>1, <2>2, <2>3, ZenonT(60) DEF KeysTyped, KeysTypeOK
  <2> QED
    BY <1>3, <2>4 DEF KeysTyped
<1> QED
    BY <1>4, <1>5, <1>6, <1>7 DEF RunStep, RunForced

\* The steps of the watchdog, the teardown, the reaper and the clock, and the
\* delivery of packets, keep the types.
LEMMA OtherTypes ==
    ASSUME KeysTyped, limits' = limits,
           \/ \E c \in Conn : WatchStep(c)
           \/ EmbedderCloses \/ CloseSnapshot \/ CloseConns
           \/ Traffic \/ ReapRead \/ ReapClose \/ Tick \/ opens \/ UNCHANGED keyVars
    PROVE  KeysTyped'
<1>1. Room'
  <2>1. CASE \E c \in Conn : WatchStep(c)
    <3>1. UNCHANGED <<built, handler, ticker>>
      BY <2>1 DEF WatchStep, WatchDone, WatchExpires, WatchCloses, slotVars, actorVars
    <3> QED
      BY <3>1 DEF KeysTyped, Room, starters
  <2>2. CASE EmbedderCloses \/ CloseSnapshot \/ CloseConns \/ Traffic
    BY <2>2 DEF EmbedderCloses, CloseSnapshot, CloseConns, Traffic, ResetDelivered, Pump,
                slotVars, actorVars, KeysTyped, Room, starters
  <2>3. CASE ReapRead \/ ReapClose \/ Tick \/ opens \/ UNCHANGED keyVars
    BY <2>3 DEF ReapRead, ReapClose, Tick, opens, keyVars, slotVars, actorVars,
                KeysTyped, Room, starters
  <2> QED
    BY <2>1, <2>2, <2>3
<1> SUFFICES KeysTypeOK'
    BY <1>1 DEF KeysTyped
<1>2. ASSUME NEW c \in Conn, WatchStep(c)
      PROVE  KeysTypeOK'
  <2>1. watch' \in [Conn -> WatchStates]
    BY <1>2 DEF WatchStep, WatchDone, WatchExpires, WatchCloses, KeysTyped, KeysTypeOK,
                WatchStates
  <2> QED
    BY <1>2, <2>1 DEF WatchStep, WatchDone, WatchExpires, WatchCloses, KeysTyped,
                      KeysTypeOK, slotVars, timeVars, actorVars, stopVars
<1>3. CASE EmbedderCloses \/ CloseSnapshot \/ CloseConns
  <2>1. ownedConns \subseteq Conn
    BY Constants DEF ownedConns, KeysTyped, KeysTypeOK
  <2> QED
    BY <1>3, <2>1 DEF EmbedderCloses, CloseSnapshot, CloseConns, CloseSession, KeysTyped,
                      KeysTypeOK, slotVars, timeVars, attemptVars, actorVars
<1>4. CASE Traffic
  <2>1. PICK k \in KeyID : ResetDelivered(k) \/ Pump(k)
    BY <1>4 DEF Traffic
  <2>2. routeControlPacket(k) # Nil => routeControlPacket(k) \in Conn
    BY RouteTypes DEF KeysTyped
  <2>3. fed' \subseteq Conn /\ idle' \in 0 .. reapWindow
    BY <2>1, <2>2, Constants DEF ResetDelivered, Pump, KeysTyped, KeysTypeOK
  <2> QED
    BY <2>1, <2>3 DEF ResetDelivered, Pump, KeysTyped, KeysTypeOK, slotVars, actorVars,
                      stopVars
<1>5. CASE ReapRead \/ ReapClose
  <2>0. reaper' \in BOOLEAN
    BY <1>5, Zenon DEF ReapRead, ReapClose
  <2>1. stop' \in {"open", "stopped", "detached", "finished"} /\ UNCHANGED closing
    BY <1>5 DEF ReapRead, ReapClose, CloseSession, KeysTyped, KeysTypeOK, stopVars
  <2>2. UNCHANGED <<slotVars, timeVars, attemptVars, handler, ticker, expired>>
    BY <1>5 DEF ReapRead, ReapClose
  <2> QED
    BY <2>0, <2>1, <2>2 DEF KeysTyped, KeysTypeOK, slotVars, timeVars, attemptVars
<1>6. CASE Tick
  <2>1. \A n \in Nat : \A t \in 0 .. n : older(t, n) \in 0 .. n
    BY DEF older
  <2>2. /\ age' \in 0 .. renegSec /\ lastReneg' \in 0 .. renegMinInterval
        /\ idle' \in 0 .. reapWindow /\ ttl' \in 0 .. transitionWindow
    BY <1>6, <2>1, Constants DEF Tick, KeysTyped, KeysTypeOK
  <2> QED
    BY <1>6, <2>2 DEF Tick, KeysTyped, KeysTypeOK, slotVars, attemptVars, actorVars,
                      stopVars
<1>7. CASE opens
    BY <1>7, Constants DEF opens, closes, CloseSession, KeysTyped, KeysTypeOK, slotVars,
                attemptVars, actorVars, stopVars
<1>8. CASE UNCHANGED keyVars
    BY <1>8 DEF keyVars, KeysTyped, KeysTypeOK, slotVars, timeVars, attemptVars,
                actorVars, stopVars
<1> QED
    BY <1>2, <1>3, <1>4, <1>5, <1>6, <1>7, <1>8

\* Every step keeps the types of the keys' machine.
LEMMA KeysTypedStep ==
    ASSUME KeysTyped, Next
    PROVE  KeysTyped'
BY KeySteps, ActorTypes, RunTypes, OtherTypes DEF KeysStep

-----------------------------------------------------------------------------
(* The inductive invariant of the key slots.                               *)

\* The slots and the Conn runReneg is closing are different Conns that have been
\* built; nothing has happened to the others.
Slots ==
    /\ primary < built
    /\ lameDuck # Nil => lameDuck < built /\ lameDuck # primary
    /\ pending # Nil => pending < built /\ pending # primary /\ pending # lameDuck
    /\ expired # Nil => expired < built /\ expired # primary /\ expired # pending
    /\ \A c \in Conn : c >= built => c \notin open /\ run[c] = "none" /\ watch[c] = "none"

\* Nobody is about to close the primary's Conn, or that of an attempt that is
\* still pending: whoever means to clears pendingReneg first.
Attempts ==
    /\ run[primary] \in {"none", "ended"} /\ watch[primary] # "close"
    /\ stop = "open" /\ pending # Nil =>
         /\ run[pending] \in {"starting", "handshake", "derived", "abandon", "rejectedAbandon"}
         /\ watch[pending] # "close"
    /\ \A c \in Conn : run[c] = "starting" => watch[c] = "none"

Usable == stop = "open" => primary \in open /\ (pending # Nil => pending \in open)

\* The three slots hold consecutive key-ids, and 0 is not used again.
Numbered ==
    /\ \A c \in Conn : 0 < c /\ c < built => keyID[c] # 0
    /\ lameDuck # Nil => keyID[primary] = nextKeyID(keyID[lameDuck])
    /\ pending # Nil => keyID[pending] = nextKeyID(keyID[primary])

\* A Conn that is open is in a slot, or in the teardown's snapshot of the slots,
\* or some goroutine is about to close it.
Owned ==
    \A c \in open :
        \/ stop \in {"open", "stopped"} /\ c \in slots
        \/ stop = "detached" /\ c \in closing
        \/ beingClosed(c)

\* runReneg holds a Conn only while it closes it.
Sweeping == expired # Nil => ticker = "expired"

KeysInv == KeysTyped /\ Sweeping /\ Slots /\ Attempts /\ Usable /\ Numbered /\ Owned

LEMMA KeysInvInit ==
    ASSUME Init
    PROVE  KeysInv
<1>1. KeysTypeOK
  <2>1. limits \in Limits /\ limits.first \in KeyID
    BY KeysAssumption DEF Init, KeysInit
  <2>2. keyID \in [Conn -> KeyID] /\ run \in [Conn -> RunStates]
        /\ watch \in [Conn -> WatchStates] /\ handler \in [Handler -> KeyID \union {Nil}]
    BY <2>1 DEF Init, KeysInit, RunStates, WatchStates
  <2>3. built \in 1 .. MaxConn + 1 /\ age \in 0 .. renegSec /\ ttl \in 0 .. transitionWindow
        /\ lastReneg \in 0 .. renegMinInterval /\ idle \in 0 .. reapWindow
    BY Constants DEF Init, KeysInit
  <2> QED
    BY <2>1, <2>2, <2>3, Constants, ZenonT(60) DEF Init, KeysInit, KeysTypeOK
<1>2. starters = {}
    BY DEF Init, KeysInit, starters
<1>3. Room
    BY <1>1, <1>2, FS_EmptySet, Constants DEF Init, KeysInit, Room, KeysTypeOK
<1>4. Slots /\ Attempts /\ Usable
    BY Constants DEF Init, KeysInit, Slots, Attempts, Usable, Conn
<1>5. Numbered /\ Owned /\ Sweeping
    BY Constants DEF Init, KeysInit, Numbered, Owned, Sweeping, slots, Conn
<1> QED
    BY <1>1, <1>3, <1>4, <1>5 DEF KeysInv, KeysTyped

\* What a step must keep beside the types.
SlotsInv == Slots /\ Attempts /\ Usable /\ Numbered /\ Owned

\* Steps that leave the slots and the attempts alone; the teardown may begin, or
\* take its snapshot.
LEMMA SlotsUntouched ==
    ASSUME KeysInv, UNCHANGED <<slotVars, run, watch, expired>>,
           \/ UNCHANGED stopVars
           \/ CloseSession
           \/ stop = "stopped" /\ stop' = "detached" /\ closing' = ownedConns
    PROVE  SlotsInv'
<1>1. Slots' /\ Attempts' /\ Usable' /\ Numbered'
    BY DEF KeysInv, Slots, Attempts, Usable, Numbered, slotVars, stopVars, CloseSession
<1>2. UNCHANGED <<open, slots>> /\ \A c : beingClosed(c)' = beingClosed(c)
    BY DEF slotVars, slots, beingClosed
<1>3. CASE UNCHANGED stopVars
    BY <1>1, <1>2, <1>3 DEF SlotsInv, Owned, KeysInv, stopVars
<1>4. CASE CloseSession
    BY <1>1, <1>2, <1>4 DEF SlotsInv, Owned, KeysInv, CloseSession
<1>5. CASE stop = "stopped" /\ stop' = "detached" /\ closing' = ownedConns
    BY <1>1, <1>2, <1>5 DEF SlotsInv, Owned, KeysInv, slots, ownedConns
<1> QED
    BY <1>3, <1>4, <1>5

\* startRenegotiation puts a Conn that nobody knows yet into an empty slot, at the
\* key-id after the primary's.
LEMMA StartKeeps ==
    ASSUME KeysInv, built \in Conn, startRenegotiation, stop = "open", pending = Nil,
           UNCHANGED <<expired, stopVars>>
    PROVE  SlotsInv'
<1> DEFINE c == built
<1>1. /\ c \in Int /\ primary \in Int /\ primary # c /\ c # Nil
      /\ (lameDuck # Nil => lameDuck \in Int /\ lameDuck < c)
      /\ (expired # Nil => expired \in Int /\ expired < c)
    BY Constants DEF KeysInv, KeysTyped, KeysTypeOK, Slots
<1>2. /\ UNCHANGED <<primary, lameDuck, expired, watch, stop, closing>>
      /\ built' = c + 1 /\ pending' = c /\ open' = open \union {c}
      /\ run' = [run EXCEPT ![c] = "starting"]
      /\ keyID' = [keyID EXCEPT ![c] = nextKeyID(keyID[primary])]
    BY DEF startRenegotiation, stopVars
<1>3. /\ run'[c] = "starting" /\ \A d \in Conn : d # c => run'[d] = run[d]
      /\ keyID'[c] = nextKeyID(keyID[primary]) /\ \A d \in Conn : d # c => keyID'[d] = keyID[d]
    BY <1>2 DEF KeysInv, KeysTyped, KeysTypeOK
<1>4. primary \in Conn /\ (lameDuck # Nil => lameDuck \in Conn)
      /\ nextKeyID(keyID[primary]) # 0
    BY NextKeyID DEF KeysInv, KeysTyped, KeysTypeOK
<1>5. Slots'
  <2>1. \A d \in Conn : d >= c + 1 => d \in Int /\ d >= c /\ d # c
    BY <1>1, Constants
  <2> QED
    BY <1>1, <1>2, <1>3, <2>1 DEF Slots, KeysInv
<1>6. Attempts'
    BY <1>1, <1>2, <1>3, <1>4 DEF Attempts, KeysInv, Slots
<1>7. Usable'
    BY <1>2 DEF Usable, KeysInv
<1>8. Numbered'
  <2>1. \A d \in Conn : d < c + 1 => d < c \/ d = c
    BY <1>1, Constants
  <2>2. lameDuck # Nil => lameDuck # c
    BY <1>1
  <2> QED
    BY <1>1, <1>2, <1>3, <1>4, <2>1, <2>2 DEF Numbered, KeysInv
<1>9. Owned'
  <2>1. \A d \in open : d \in Conn /\ d # c
    BY <1>1 DEF KeysInv, KeysTyped, KeysTypeOK, Slots
  <2>2. c \in slots' /\ slots \subseteq slots'
    BY <1>1, <1>2 DEF slots
  <2>3. \A d \in open : beingClosed(d) => beingClosed(d)'
    BY <1>2, <1>3, <2>1 DEF beingClosed
  <2> QED
    BY <1>2, <2>1, <2>2, <2>3 DEF Owned, KeysInv
<1> QED
    BY <1>5, <1>6, <1>7, <1>8, <1>9 DEF SlotsInv

\* A step of runRenegotiation that only goes on: it leaves the slots alone, and
\* means to close its Conn only when the Conn is no slot's any more or the session
\* is closing.
LEMMA RunMoves ==
    ASSUME KeysInv, NEW c \in Conn,
           \/ StartRun(c) \/ Derive(c) \/ FailHandshake(c) \/ RejectUser(c) \/ Superseded(c)
    PROVE  SlotsInv'
<1>1. /\ UNCHANGED <<slotVars, expired, stop, closing>>
      /\ run[c] \in {"starting", "handshake", "derived"}
      /\ \A d \in Conn : d # c => run'[d] = run[d] /\ watch'[d] = watch[d]
      /\ watch'[c] # "close" \/ watch'[c] = watch[c]
    BY DEF StartRun, Derive, FailHandshake, RejectUser, Superseded, RunTo, actorVars,
           stopVars, KeysInv, KeysTyped, KeysTypeOK
<1>2. c < built /\ c # primary
    BY <1>1, Constants DEF KeysInv, KeysTyped, KeysTypeOK, Slots, Attempts
<1>3. \/ run'[c] \in {"handshake", "derived", "abandon", "rejectedAbandon"}
      \/ run'[c] = "close" /\ ~ (stop = "open" /\ pending = c)
    BY DEF StartRun, Derive, FailHandshake, RejectUser, Superseded, stillMine, RunTo,
           KeysInv, KeysTyped, KeysTypeOK
<1>4. Slots'
    BY <1>1, <1>2, Constants DEF Slots, KeysInv, KeysTyped, KeysTypeOK, slotVars
<1>5. Attempts'
    BY <1>1, <1>2, <1>3 DEF Attempts, KeysInv, KeysTyped, KeysTypeOK, slotVars
<1>6. Usable' /\ Numbered'
    BY <1>1 DEF Usable, Numbered, KeysInv, slotVars
<1>7. Owned'
  <2>1. \A d \in Conn : beingClosed(d) => beingClosed(d)'
    <3>1. watch[c] = "close" => watch'[c] = "close"
      <4>1. CASE StartRun(c)
        BY <4>1 DEF StartRun, RunTo, KeysInv, Attempts
      <4>2. CASE ~ StartRun(c)
        BY <4>2 DEF Derive, FailHandshake, RejectUser, Superseded
      <4> QED
        BY <4>1, <4>2, ZenonT(60)
    <3> QED
      BY <1>1, <3>1, ZenonT(60) DEF beingClosed
  <2> QED
    BY <1>1, <2>1, ZenonT(60) DEF Owned, KeysInv, KeysTyped, KeysTypeOK, slots, slotVars
<1> QED
    BY <1>4, <1>5, <1>6, <1>7 DEF SlotsInv

\* abandon and a failing NewWrapper clear pendingReneg before the Conn is closed.
LEMMA GivingUp ==
    ASSUME KeysInv, NEW c \in Conn, Abandon(c) \/ WrapperFails(c)
    PROVE  SlotsInv'
<1>1. /\ UNCHANGED <<built, keyID, open, primary, lameDuck, expired, watch, stop, closing>>
      /\ run[c] \in {"abandon", "rejectedAbandon", "derived"}
      /\ run'[c] \in {"close", "closeSession"}
      /\ \A d \in Conn : d # c => run'[d] = run[d]
      /\ pending' \in {pending, Nil} /\ (pending = c => pending' = Nil)
      /\ (pending # c => pending' = pending)
    BY DEF Abandon, WrapperFails, stillMine, RunTo, actorVars, stopVars, KeysInv,
           KeysTyped, KeysTypeOK
<1>2. c < built /\ c # primary
    BY <1>1, Constants DEF KeysInv, KeysTyped, KeysTypeOK, Slots, Attempts
<1>3. Slots'
    BY <1>1, <1>2, Constants DEF Slots, KeysInv, KeysTyped, KeysTypeOK
<1>4. Attempts'
    BY <1>1, <1>2, Constants DEF Attempts, KeysInv, KeysTyped, KeysTypeOK
<1>5. Usable' /\ Numbered'
    BY <1>1 DEF Usable, Numbered, KeysInv
<1>6. Owned'
  <2>1. \A d \in Conn : beingClosed(d) => beingClosed(d)'
    BY <1>1, ZenonT(60) DEF beingClosed
  <2>2. beingClosed(c)'
    BY <1>1 DEF beingClosed
  <2>3. \A d \in slots : d # c => d \in slots'
    BY <1>1 DEF slots
  <2> QED
    BY <1>1, <2>1, <2>2, <2>3 DEF Owned, KeysInv, KeysTyped, KeysTypeOK
<1> QED
    BY <1>3, <1>4, <1>5, <1>6 DEF SlotsInv

\* An attempt that failed closes its Conn, and that of a refused client closes the
\* session.
LEMMA AttemptCloses ==
    ASSUME KeysInv, NEW c \in Conn, CloseAttempt(c) \/ RejectedCloses(c)
    PROVE  SlotsInv'
<1>1. /\ UNCHANGED <<built, keyID, primary, lameDuck, pending, expired, watch>>
      /\ open' = open \ {c}
      /\ run[c] \in {"close", "closeSession"} /\ run'[c] = "ended"
      /\ \A d \in Conn : d # c => run'[d] = run[d]
      /\ UNCHANGED stopVars \/ CloseSession
    BY DEF CloseAttempt, RejectedCloses, RunTo, actorVars, stopVars, KeysInv,
           KeysTyped, KeysTypeOK
<1>2. c # primary /\ (stop = "open" => pending # c)
    BY <1>1, Constants DEF KeysInv, KeysTyped, KeysTypeOK, Attempts
<1>3. (stop' = "open" => stop = "open") /\ (stop' = stop \/ (stop = "open" /\ stop' = "stopped"))
      /\ UNCHANGED closing
    BY <1>1, ZenonT(60) DEF stopVars, CloseSession
<1>4. Slots'
    BY <1>1, Constants DEF Slots, KeysInv, KeysTyped, KeysTypeOK
<1>5. Attempts'
    BY <1>1, <1>2, <1>3 DEF Attempts, KeysInv, KeysTyped, KeysTypeOK
<1>6. Usable' /\ Numbered'
    BY <1>1, <1>2, <1>3 DEF Usable, Numbered, KeysInv
<1>7. Owned'
  <2>1. \A d \in Conn : d # c /\ beingClosed(d) => beingClosed(d)'
    BY <1>1 DEF beingClosed
  <2>2. slots' = slots
    BY <1>1 DEF slots
  <2> QED
    BY <1>1, <1>3, <2>1, <2>2 DEF Owned, KeysInv, KeysTyped, KeysTypeOK
<1> QED
    BY <1>4, <1>5, <1>6, <1>7 DEF SlotsInv

\* The rollover moves the pending Conn up and the primary down, and closes the
\* Conn that was the lame duck.
LEMMA RollsOver ==
    ASSUME KeysInv, NEW c \in Conn, Rollover(c)
    PROVE  SlotsInv'
<1>1. /\ UNCHANGED <<built, keyID, expired, watch, stop, closing>>
      /\ stop = "open" /\ pending = c /\ run[c] = "derived" /\ run'[c] = "ended"
      /\ \A d \in Conn : d # c => run'[d] = run[d]
      /\ open' = open \ {lameDuck} /\ lameDuck' = primary /\ primary' = c /\ pending' = Nil
    BY DEF Rollover, stillMine, openAfterSwap, RunTo, actorVars, stopVars, KeysInv,
           KeysTyped, KeysTypeOK
<1>2. c # Nil /\ primary # Nil /\ primary \in Conn
    BY Constants DEF KeysInv, KeysTyped, KeysTypeOK
<1>3. Slots'
    BY <1>1, <1>2 DEF Slots, KeysInv, KeysTyped, KeysTypeOK
<1>4. Attempts'
    BY <1>1, <1>2 DEF Attempts, KeysInv, KeysTyped, KeysTypeOK
<1>5. Usable'
    BY <1>1, <1>2, ZenonT(60) DEF Usable, Slots, KeysInv
<1>6. Numbered'
    BY <1>1, <1>2 DEF Numbered, KeysInv
<1>7. Owned'
  <2>1. \A d \in Conn : beingClosed(d) => beingClosed(d)'
    BY <1>1 DEF beingClosed
  <2>2. \A d \in slots : d # lameDuck => d \in slots'
    BY <1>1, <1>2 DEF slots
  <2> QED
    BY <1>1, <2>1, <2>2 DEF Owned, KeysInv, KeysTyped, KeysTypeOK
<1> QED
    BY <1>3, <1>4, <1>5, <1>6, <1>7 DEF SlotsInv

\* The watchdog closes the Conn of an attempt only after it took the attempt out
\* of pendingReneg.
LEMMA Watches ==
    ASSUME KeysInv, NEW c \in Conn, WatchStep(c)
    PROVE  SlotsInv'
<1>1. /\ UNCHANGED <<built, keyID, primary, lameDuck, expired, run, stop, closing>>
      /\ watch[c] \in {"waiting", "close"}
      /\ \A d \in Conn : d # c => watch'[d] = watch[d]
      /\ pending' \in {pending, Nil} /\ (pending # c => pending' = pending)
      /\ \/ watch[c] = "close" /\ open' = open \ {c} /\ pending' = pending /\ watch'[c] = "ended"
         \/ watch[c] = "waiting" /\ open' = open /\ pending = c /\ pending' = Nil
              /\ watch'[c] = "close"
         \/ watch[c] = "waiting" /\ open' = open /\ pending' = pending /\ watch'[c] = "ended"
    BY ZenonT(60) DEF WatchStep, WatchDone, WatchExpires, WatchCloses, slotVars, actorVars, stopVars,
           KeysInv, KeysTyped, KeysTypeOK
<1>2. c < built
    BY <1>1, Constants DEF KeysInv, KeysTyped, KeysTypeOK, Slots
<1>3. Slots'
    BY <1>1, <1>2, Constants DEF Slots, KeysInv, KeysTyped, KeysTypeOK
<1>4. Attempts'
  <2>1. primary \in Conn /\ (pending # Nil => pending \in Conn)
    BY DEF KeysInv, KeysTyped, KeysTypeOK
  <2>2. c # Nil /\ pending = c => c # primary
    BY Constants DEF KeysInv, Slots
  <2>3. run[primary]' \in {"none", "ended"} /\ watch[primary]' # "close"
    BY <1>1, <2>1, <2>2, Constants DEF Attempts, KeysInv
  <2>4. pending' # Nil => watch[pending]' # "close" \/ watch[pending]' = watch[pending]
    BY <1>1, <2>1
  <2>5. \A d \in Conn : run[d] = "starting" => watch'[d] = "none"
    BY <1>1 DEF Attempts, KeysInv
  <2> QED
    BY <1>1, <2>1, <2>3, <2>4, <2>5, ZenonT(60) DEF Attempts, KeysInv
<1>5. Usable'
    BY <1>1 DEF Usable, Attempts, KeysInv
<1>6. Numbered'
    BY <1>1 DEF Numbered, KeysInv
<1>7. Owned'
  <2>1. \A d \in Conn : d # c /\ beingClosed(d) => beingClosed(d)'
    BY <1>1 DEF beingClosed
  <2>2. \A d \in slots : d # c => d \in slots'
    BY <1>1 DEF slots
  <2>3. c \in open' /\ beingClosed(c) => beingClosed(c)'
    BY <1>1 DEF beingClosed
  <2>4. c \in open' /\ c \in slots => c \in slots' \/ beingClosed(c)'
    BY <1>1 DEF slots, beingClosed
  <2>5. open' \subseteq open /\ open \subseteq Conn
    BY <1>1 DEF KeysInv, KeysTyped, KeysTypeOK
  <2> QED
    BY <1>1, <2>1, <2>2, <2>3, <2>4, <2>5 DEF Owned, KeysInv
<1> QED
    BY <1>3, <1>4, <1>5, <1>6, <1>7 DEF SlotsInv

\* runReneg empties the lame duck's slot and then closes its Conn.
LEMMA Sweeps ==
    ASSUME KeysInv, sweepLameDuck \/ closeExpired
    PROVE  SlotsInv'
<1>1. CASE sweepLameDuck
  <2>1. /\ UNCHANGED <<built, keyID, open, primary, pending, run, watch, stop, closing>>
        /\ lameDuck # Nil /\ expired = Nil /\ expired' = lameDuck /\ lameDuck' = Nil
    BY <1>1 DEF sweepLameDuck, lameDuckExpired, attemptVars, stopVars, KeysInv, Sweeping
  <2>2. Slots' /\ Attempts' /\ Usable' /\ Numbered'
    BY <2>1 DEF Slots, Attempts, Usable, Numbered, KeysInv
  <2>3. \A c \in open : c \in slots \/ beingClosed(c) => c \in slots' \/ beingClosed(c)'
    BY <2>1, Constants DEF slots, beingClosed, KeysInv, KeysTyped, KeysTypeOK
  <2>4. \A c \in open : beingClosed(c) => beingClosed(c)'
    BY <2>1, Constants DEF beingClosed, KeysInv, KeysTyped, KeysTypeOK
  <2>5. Owned'
    BY <2>1, <2>3, <2>4 DEF Owned, KeysInv
  <2> QED
    BY <2>2, <2>5 DEF SlotsInv
<1>2. CASE closeExpired
  <2>1. /\ UNCHANGED <<built, keyID, primary, lameDuck, pending, run, watch, stop, closing>>
        /\ expired' = Nil /\ open' = open \ {expired}
    BY <1>2 DEF closeExpired, attemptVars, stopVars
  <2>2. Slots' /\ Attempts' /\ Numbered'
    BY <2>1 DEF Slots, Attempts, Numbered, KeysInv
  <2>3. Usable'
    BY <2>1, Constants DEF Usable, Slots, KeysInv, KeysTyped, KeysTypeOK
  <2>4. slots' = slots /\ \A c \in open' : c \in open /\ (beingClosed(c) => beingClosed(c)')
    BY <2>1 DEF slots, beingClosed
  <2>5. Owned'
    BY <2>1, <2>4 DEF Owned, KeysInv
  <2> QED
    BY <2>2, <2>3, <2>5 DEF SlotsInv
<1> QED
    BY <1>1, <1>2

\* closeWithReason closes the Conns of its snapshot.
LEMMA TeardownCloses ==
    ASSUME KeysInv, CloseConns
    PROVE  SlotsInv'
<1>1. /\ UNCHANGED <<built, keyID, primary, lameDuck, pending, run, watch, expired>>
      /\ stop = "detached" /\ stop' = "finished" /\ open' = open \ closing
    BY DEF CloseConns, attemptVars, actorVars
<1>2. Slots' /\ Attempts' /\ Usable' /\ Numbered'
    BY <1>1 DEF Slots, Attempts, Usable, Numbered, KeysInv
<1>3. Owned'
    BY <1>1 DEF Owned, beingClosed, KeysInv
<1> QED
    BY <1>2, <1>3 DEF SlotsInv

\* What runReneg holds is its own.
LEMMA SweepingStep ==
    ASSUME KeysInv, Next
    PROVE  Sweeping'
<1>1. CASE TickerStep
    BY <1>1 DEF TickerStep, sweepLameDuck, closeExpired, checkReneg,
                initiateRenegotiation, KeysInv, Sweeping
<1>2. CASE \E h \in Handler : beginRenegotiation(h) \/ \E k \in KeyID : ResetUnrouted(h, k)
    BY <1>2 DEF beginRenegotiation, ResetUnrouted, KeysInv, Sweeping
<1>3. CASE \E c \in Conn : RunStep(c)
  <2>1. UNCHANGED actorVars
    BY <1>3, ZenonT(60) DEF RunStep, RunForced, StartRun, RejectUser, Abandon, CloseAttempt,
                Superseded, WrapperFails, Rollover, RejectedCloses, Derive, FailHandshake
  <2> QED
    BY <2>1 DEF actorVars, KeysInv, Sweeping
<1>4. CASE \E c \in Conn : WatchStep(c)
    BY <1>4, ZenonT(60) DEF WatchStep, WatchDone, WatchExpires, WatchCloses, actorVars, KeysInv,
                Sweeping
<1>5. CASE EmbedderCloses \/ CloseSnapshot \/ CloseConns \/ Traffic
    BY <1>5 DEF EmbedderCloses, CloseSnapshot, CloseConns, Traffic, ResetDelivered, Pump,
                actorVars, KeysInv, Sweeping
<1>6. CASE ReapRead \/ ReapClose \/ Tick \/ opens \/ UNCHANGED keyVars
    BY <1>6 DEF ReapRead, ReapClose, Tick, opens, keyVars, actorVars, KeysInv, Sweeping
<1> QED
    BY <1>1, <1>2, <1>3, <1>4, <1>5, <1>6, KeySteps DEF KeysStep

\* Every step keeps the invariant of the key slots.
LEMMA KeysInvStep ==
    ASSUME KeysInv, Next
    PROVE  KeysInv'
<1>1. KeysTyped' /\ Sweeping'
    BY KeysTypedStep, SweepingStep DEF KeysInv
<1> SUFFICES SlotsInv'
    BY <1>1 DEF KeysInv, SlotsInv
<1>2. ASSUME NEW h \in Handler, beginRenegotiation(h)
      PROVE  SlotsInv'
  <2>1. built \in Conn
    BY <1>2, RoomToBuild DEF beginRenegotiation, KeysInv
  <2>2. CASE mayRenegotiate({handler[h]}) /\ startRenegotiation
    BY <1>2, <2>1, <2>2, StartKeeps DEF beginRenegotiation, mayRenegotiate
  <2>3. CASE UNCHANGED <<slotVars, lastReneg, attemptVars>>
    BY <1>2, <2>3, SlotsUntouched DEF beginRenegotiation, attemptVars
  <2> QED
    BY <1>2, <2>2, <2>3 DEF beginRenegotiation
<1>3. ASSUME NEW h \in Handler, NEW k \in KeyID, ResetUnrouted(h, k)
      PROVE  SlotsInv'
    BY <1>3, SlotsUntouched DEF ResetUnrouted, attemptVars
<1>4. CASE TickerStep
  <2>1. CASE sweepLameDuck \/ closeExpired
    BY <2>1, Sweeps
  <2>2. CASE checkReneg
    BY <2>2, SlotsUntouched DEF checkReneg, attemptVars
  <2>3. CASE initiateRenegotiation
    <3>1. built \in Conn
      BY <2>3, RoomToBuild DEF initiateRenegotiation, KeysInv
    <3>2. CASE mayRenegotiate(KeyID) /\ startRenegotiation
      BY <2>3, <3>1, <3>2, StartKeeps DEF initiateRenegotiation, mayRenegotiate
    <3>3. CASE UNCHANGED <<slotVars, lastReneg, derived, run, watch>>
      BY <2>3, <3>3, SlotsUntouched DEF initiateRenegotiation
    <3> QED
      BY <2>3, <3>2, <3>3 DEF initiateRenegotiation
  <2> QED
    BY <1>4, <2>1, <2>2, <2>3 DEF TickerStep
<1>5. ASSUME NEW c \in Conn, RunStep(c) \/ WatchStep(c)
      PROVE  SlotsInv'
    BY <1>5, RunMoves, GivingUp, AttemptCloses, RollsOver, Watches DEF RunStep, RunForced
<1>6. CASE EmbedderCloses \/ CloseSnapshot
    BY <1>6, SlotsUntouched DEF EmbedderCloses, CloseSnapshot, attemptVars, actorVars
<1>7. CASE Traffic
    BY <1>7, SlotsUntouched DEF Traffic, ResetDelivered, Pump, actorVars
<1>8. CASE ReapRead \/ ReapClose \/ Tick
    BY <1>8, SlotsUntouched DEF ReapRead, ReapClose, Tick, attemptVars, actorVars
<1>9. CASE opens
    BY <1>9, SlotsUntouched DEF opens, closes, attemptVars, actorVars
<1>10. CASE UNCHANGED keyVars
    BY <1>10, SlotsUntouched DEF keyVars, attemptVars, actorVars
<1> QED
    BY <1>2, <1>3, <1>4, <1>5, <1>6, <1>7, <1>8, <1>9, <1>10, TeardownCloses, KeySteps
       DEF KeysStep

-----------------------------------------------------------------------------
(* Theorems.                                                               *)

\* The invariant of the key slots holds in every reachable state.
THEOREM KeysInvariant == Spec => []KeysInv
<1>1. Init => KeysInv
    BY KeysInvInit
<1>2. KeysInv /\ [Next]_vars => KeysInv'
  <2>1. ASSUME KeysInv, UNCHANGED vars
        PROVE  KeysInv'
    <3>1. UNCHANGED keyVars /\ limits' = limits
      BY <2>1 DEF vars, dataVars, outVars
    <3>2. KeysTyped'
      BY <2>1, <3>1, OtherTypes DEF KeysInv
    <3>3. SlotsInv'
      BY <2>1, <3>1, SlotsUntouched DEF keyVars, attemptVars, actorVars
    <3>4. Sweeping'
      BY <2>1, <3>1 DEF keyVars, actorVars, KeysInv, Sweeping
    <3> QED
      BY <3>2, <3>3, <3>4 DEF KeysInv, SlotsInv
  <2> QED
    BY <2>1, KeysInvStep
<1> QED
    BY <1>1, <1>2, PTL DEF Spec

\* While the session is not closing, the Conn of its live key is open, whatever the
\* watchdogs, the superseded attempts and the sweep of the lame duck do.
THEOREM PrimaryAlwaysUsable == Spec => []PrimaryUsable
<1>1. KeysInv => PrimaryUsable
    BY DEF KeysInv, Usable, PrimaryUsable
<1> QED
    BY <1>1, KeysInvariant, PTL

\* Key-ids wrap, and still no two slots share one: routeControlPacket finds every
\* Conn that a slot holds.
THEOREM SlotsAlwaysReachable == Spec => []SlotsReachable
<1>1. ASSUME KeysInv
      PROVE  SlotsReachable
  <2>1. /\ primary \in Conn /\ primary # Nil /\ keyID[primary] \in KeyID
        /\ (lameDuck # Nil => lameDuck \in Conn /\ keyID[lameDuck] \in KeyID)
        /\ (pending # Nil => pending \in Conn /\ keyID[pending] \in KeyID)
    BY <1>1, Constants DEF KeysInv, KeysTyped, KeysTypeOK
  <2>2. /\ (lameDuck # Nil => keyID[lameDuck] # keyID[primary])
        /\ (pending # Nil => keyID[pending] # keyID[primary])
        /\ (lameDuck # Nil /\ pending # Nil => keyID[pending] # keyID[lameDuck])
    BY <1>1, <2>1, NextKeyID DEF KeysInv, Numbered
  <2>3. \A c \in slots : routeControlPacket(keyID[c]) = c
    BY <2>1, <2>2 DEF slots, routeControlPacket
  <2>4. \A c \in slots : c \in Conn /\ c < built
    BY <1>1, <2>1 DEF slots, KeysInv, Slots
  <2>5. \A c \in slots : c > 0 => keyID[c] # 0
    BY <1>1, <2>4, Constants DEF KeysInv, Numbered
  <2> QED
    BY <2>3, <2>5 DEF SlotsReachable
<1> QED
    BY <1>1, KeysInvariant, PTL

\* A session whose teardown has returned has left no Conn open that no goroutine is
\* about to close, at whatever point of a renegotiation it was closed.
THEOREM AlwaysTornDown == Spec => []TornDown
<1>1. KeysInv => TornDown
    BY DEF KeysInv, Owned, TornDown
<1> QED
    BY <1>1, KeysInvariant, PTL

\* Only the attempt in flight ever becomes the primary, at the next key-id, and the
\* key it replaces becomes the lame duck.
THEOREM RolloversInOrder == Spec => RolloverInOrder
<1> DEFINE InOrder == primary' # primary =>
                        /\ primary' = pending
                        /\ keyID'[primary'] = nextKeyID(keyID[primary])
                        /\ lameDuck' = primary
<1>1. ASSUME KeysInv, Next
      PROVE  InOrder
  <2>1. \/ \E c \in Conn : Rollover(c)
        \/ UNCHANGED primary
    <3>1. CASE \E c \in Conn : RunStep(c)
      BY <3>1, ZenonT(60) DEF RunStep, RunForced, StartRun, RejectUser, Abandon, CloseAttempt,
                  Superseded, WrapperFails, RejectedCloses, Derive, FailHandshake,
                  slotVars
    <3>2. CASE \E c \in Conn : WatchStep(c)
      BY <3>2, ZenonT(60) DEF WatchStep, WatchDone, WatchExpires, WatchCloses, slotVars
    <3>3. CASE TickerStep
      BY <3>3, ZenonT(60) DEF TickerStep, sweepLameDuck, closeExpired, checkReneg,
                  initiateRenegotiation, startRenegotiation, slotVars
    <3>4. CASE \E h \in Handler : beginRenegotiation(h) \/ \E k \in KeyID : ResetUnrouted(h, k)
      BY <3>4 DEF beginRenegotiation, ResetUnrouted, startRenegotiation, slotVars
    <3>5. CASE EmbedderCloses \/ CloseSnapshot \/ CloseConns \/ Traffic
      BY <3>5 DEF EmbedderCloses, CloseSnapshot, CloseConns, Traffic, ResetDelivered,
                  Pump, slotVars
    <3>6. CASE ReapRead \/ ReapClose \/ Tick \/ opens \/ UNCHANGED keyVars
      BY <3>6 DEF ReapRead, ReapClose, Tick, opens, keyVars, slotVars
    <3> QED
      BY <1>1, <3>1, <3>2, <3>3, <3>4, <3>5, <3>6, KeySteps DEF KeysStep
  <2>2. ASSUME NEW c \in Conn, Rollover(c)
        PROVE  InOrder
    BY <1>1, <2>2, Constants DEF Rollover, stillMine, KeysInv, Numbered
  <2> QED
    BY <2>1, <2>2
<1>2. UNCHANGED vars => UNCHANGED keyVars
    BY DEF vars
<1>3. KeysInv /\ [Next]_vars => [InOrder]_keyVars
    BY <1>1, <1>2, ZenonT(60)
<1> QED
    BY <1>3, KeysInvariant, PTL DEF Spec, RolloverInOrder
=============================================================================
