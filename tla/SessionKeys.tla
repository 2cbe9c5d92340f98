---------------------------- MODULE SessionKeys ----------------------------
(***************************************************************************)
(* The key slots of an established session: the renegotiation of           *)
(* src/ovpn.go (startRenegotiation, runRenegotiation and its watchdog) and *)
(* the timers of src/session.go (runReneg, runReap), beside the session's  *)
(* teardown.                                                               *)
(*                                                                         *)
(* A Conn stands for a ctrlconn.Conn and for the datachan.Wrapper of the   *)
(* keySlot that holds it; Conns are numbered in the order in which they    *)
(* are built, 0 being the Conn of the session's first handshake.  A step   *)
(* is a critical section of Session.mu, or what a goroutine does between   *)
(* two of them.  A time.Time is its age in ticks, kept up to the largest   *)
(* age a comparison can tell apart.                                        *)
(***************************************************************************)
EXTENDS Integers, FiniteSets

CONSTANTS
    Limits,            \* bounds a behaviour may have
    MaxConn,           \* largest number of renegotiations of a behaviour
    Handler,           \* goroutines that run handleDatagram on a SOFT_RESET
    keyIDMask,         \* largest key-id
    renegSec,          \* age at which the server renegotiates a key
    renegMinInterval,  \* least time between two renegotiations
    transitionWindow,  \* how long a demoted key stays usable
    reapWindow,        \* how long a session may be silent
    Nil                \* Go's nil

Conn == 0 .. MaxConn
KeyID == 0 .. keyIDMask

ASSUME KeysAssumption ==
    /\ MaxConn \in Nat
    /\ \A l \in Limits : l.conns \in Conn /\ l.first \in KeyID
    /\ IsFiniteSet(Handler)
    /\ keyIDMask \in Nat /\ keyIDMask >= 3
    /\ {renegSec, renegMinInterval, transitionWindow, reapWindow} \subseteq Nat \ {0}
    /\ Nil \notin Int

VARIABLES
    limits,    \* bounds of this behaviour: Conns, packets, packet ids, and the
               \* key-id the session is at when it begins
    built,     \* Conns built so far, the first one included
    keyID,     \* keySlot.keyID, Conn.keyID
    open,      \* Conns not closed yet
    primary,   \* Session.primary
    lameDuck,  \* Session.lameDuck
    pending,   \* Session.pendingReneg
    age,       \* age of primary.established
    ttl,       \* time left until lameDuck.mustDie
    lastReneg,  \* age of lastRenegAccepted, renegMinInterval when it is zero
    fed,       \* Conns the peer's opening flight has been delivered to
    derived,   \* Conns whose data keys both ends can have
    run,       \* where runRenegotiation stands
    watch,     \* where enforceRenegotiationWindow stands
    handler,   \* where a SOFT_RESET handler stands
    ticker,    \* where runReneg stands
    expired,   \* runReneg: the Conn sweepLameDuck has yet to close
    idle,      \* age of lastAuthTraffic
    reaper,    \* runReap read an age at which the session is to be reaped
    stop,      \* how far closeWithReason has come
    closing    \* Conns closeWithReason has yet to close

slotVars == <<built, keyID, open, primary, lameDuck, pending>>
timeVars == <<age, ttl, lastReneg, idle>>
attemptVars == <<fed, derived, run, watch>>
actorVars == <<handler, ticker, expired, reaper>>
stopVars == <<stop, closing>>
keyVars == <<slotVars, timeVars, attemptVars, actorVars, stopVars>>

RunStates == {"none", "starting", "handshake", "derived", "abandon",
              "rejectedAbandon", "close", "closeSession", "ended"}
WatchStates == {"none", "waiting", "close", "ended"}

\* Every variable keeps to the type of the Go state it stands for.
KeysTypeOK ==
    /\ limits \in Limits
    /\ built \in 1 .. MaxConn + 1
    /\ keyID \in [Conn -> KeyID]
    /\ open \subseteq Conn /\ fed \subseteq Conn /\ derived \subseteq Conn
    /\ primary \in Conn
    /\ lameDuck \in Conn \union {Nil}
    /\ pending \in Conn \union {Nil}
    /\ age \in 0 .. renegSec
    /\ ttl \in 0 .. transitionWindow
    /\ lastReneg \in 0 .. renegMinInterval
    /\ run \in [Conn -> RunStates]
    /\ watch \in [Conn -> WatchStates]
    /\ handler \in [Handler -> KeyID \union {Nil}]
    /\ ticker \in {"waiting", "expired", "due"}
    /\ expired \in Conn \union {Nil}
    /\ idle \in 0 .. reapWindow
    /\ reaper \in BOOLEAN
    /\ stop \in {"open", "stopped", "detached", "finished"}
    /\ closing \subseteq Conn

\* performPushExchange has published the primary slot; the session may be at any
\* key-id of its life.
KeysInit ==
    /\ limits \in Limits
    /\ built = 1
    /\ keyID = [c \in Conn |-> limits.first]
    /\ open = {0}
    /\ primary = 0 /\ lameDuck = Nil /\ pending = Nil
    /\ age = 0 /\ idle = 0 /\ ttl = 0
    /\ lastReneg = renegMinInterval
    /\ fed = {0} /\ derived = {0}
    /\ run = [c \in Conn |-> "none"]
    /\ watch = [c \in Conn |-> "none"]
    /\ handler = [h \in Handler |-> Nil]
    /\ ticker = "waiting" /\ expired = Nil
    /\ reaper = FALSE
    /\ stop = "open" /\ closing = {}

(***************************************************************************)
(* Routing and the start of a renegotiation                                *)
(***************************************************************************)

nextKeyID(current) ==
    LET next == (current + 1) % (keyIDMask + 1)
    IN  IF next = 0 THEN 1 ELSE next

\* Mutant: a Conn whose renegotiation is in flight is not looked at.
routeEstablished(k) ==
    IF k = keyID[primary] THEN primary
    ELSE IF lameDuck # Nil /\ k = keyID[lameDuck] THEN lameDuck
    ELSE Nil

\* The Conn that receives control packets at key-id k.
routeControlPacket(k) ==
    IF k = keyID[primary] THEN primary
    ELSE IF lameDuck # Nil /\ k = keyID[lameDuck] THEN lameDuck
    ELSE IF pending # Nil /\ k = keyID[pending] THEN pending
    ELSE Nil

\* startRenegotiation's checks; wants is the key-id the peer named, or all of
\* them when the server initiates.
mayRenegotiate(wants) ==
    /\ stop = "open"
    /\ pending = Nil
    /\ lastReneg >= renegMinInterval
    /\ nextKeyID(keyID[primary]) \in wants

\* What startRenegotiation publishes, under Session.mu.
startRenegotiation ==
    LET c == built
    IN  /\ built' = built + 1
        /\ keyID' = [keyID EXCEPT ![c] = nextKeyID(keyID[primary])]
        /\ open' = open \union {c}
        /\ pending' = c
        /\ lastReneg' = 0
        /\ run' = [run EXCEPT ![c] = "starting"]
        /\ UNCHANGED <<primary, lameDuck, derived, watch>>

\* Goroutines on their way to startRenegotiation may each build a Conn.
spare == limits.conns + 1 - built
             - Cardinality({h \in Handler : handler[h] # Nil})
             - (IF ticker = "due" THEN 1 ELSE 0)

(***************************************************************************)
(* The two initiators                                                      *)
(***************************************************************************)

\* handleDatagram on a SOFT_RESET at key-id k that some Conn serves: it is
\* delivered there, and counts as traffic.
ResetDelivered(k) ==
    LET target == routeControlPacket(k)
    IN  /\ stop # "finished"
        /\ target # Nil
        /\ fed' = fed \union {target}
        /\ idle' = 0
        /\ UNCHANGED <<slotVars, age, ttl, lastReneg, derived, run, watch,
                       actorVars, stopVars>>

\* handleDatagram on a SOFT_RESET no Conn serves: on to beginRenegotiation.
ResetUnrouted(h, k) ==
    /\ handler[h] = Nil
    /\ stop # "finished"
    /\ spare > 0
    /\ routeControlPacket(k) = Nil
    /\ handler' = [handler EXCEPT ![h] = k]
    /\ UNCHANGED <<slotVars, timeVars, attemptVars, ticker, expired, reaper,
                   stopVars>>

\* beginRenegotiation: the peer's reset is absorbed by the new Conn, or dropped.
beginRenegotiation(h) ==
    /\ handler[h] # Nil
    /\ handler' = [handler EXCEPT ![h] = Nil]
    /\ \/ /\ mayRenegotiate({handler[h]})
          /\ startRenegotiation
          /\ fed' = fed \union {built}
       \/ /\ ~ mayRenegotiate({handler[h]})
          /\ UNCHANGED <<slotVars, lastReneg, attemptVars>>
    /\ UNCHANGED <<age, ttl, idle, ticker, expired, reaper, stopVars>>

\* A tick of runReneg's ticker.  Sweeping a slot that is not due, and checking a
\* key that is not, changes nothing and is left out.
lameDuckExpired == lameDuck # Nil /\ ttl = 0

\* Mutant: the slot is cleared and its Conn forgotten.
sweepForgetting ==
    /\ ticker = "waiting"
    /\ lameDuckExpired
    /\ lameDuck' = Nil
    /\ UNCHANGED <<built, keyID, open, primary, pending, timeVars, attemptVars,
                   actorVars, stopVars>>

\* sweepLameDuck clears a slot past its deadline under Session.mu ...
sweepLameDuck ==
    /\ ticker = "waiting"
    /\ lameDuckExpired
    /\ ticker' = "expired"
    /\ expired' = lameDuck
    /\ lameDuck' = Nil
    /\ UNCHANGED <<built, keyID, open, primary, pending, timeVars, attemptVars,
                   handler, reaper, stopVars>>

\* ... and closes its Conn without it.
closeExpired ==
    /\ ticker = "expired"
    /\ ticker' = "waiting"
    /\ open' = open \ {expired}
    /\ expired' = Nil
    /\ UNCHANGED <<built, keyID, primary, lameDuck, pending, timeVars, attemptVars,
                   handler, reaper, stopVars>>

\* checkReneg reads the age of the primary, and finds it due.
checkReneg ==
    /\ ticker = "waiting"
    /\ ~ lameDuckExpired
    /\ age >= renegSec
    /\ spare > 0
    /\ ticker' = "due"
    /\ UNCHANGED <<slotVars, timeVars, attemptVars, handler, expired, reaper,
                   stopVars>>

\* It goes on to startRenegotiation decides afresh.
initiateRenegotiation ==
    /\ ticker = "due"
    /\ ticker' = "waiting"
    /\ \/ mayRenegotiate(KeyID) /\ startRenegotiation
       \/ /\ ~ mayRenegotiate(KeyID)
          /\ UNCHANGED <<slotVars, lastReneg, derived, run, watch>>
    /\ UNCHANGED <<age, ttl, idle, fed, handler, expired, reaper, stopVars>>

(***************************************************************************)
(* runRenegotiation, its watchdog, and the rollover                        *)
(***************************************************************************)

RunTo(c, from, to) == run[c] = from /\ run' = [run EXCEPT ![c] = to]

\* Mutant: the attempt has no watchdog.
StartRunUnwatched(c) ==
    /\ RunTo(c, "starting", "handshake")
    /\ UNCHANGED <<slotVars, timeVars, fed, derived, watch, actorVars, stopVars>>

\* The goroutine starts: done is made and the watchdog armed.
StartRun(c) ==
    /\ RunTo(c, "starting", "handshake")
    /\ watch' = [watch EXCEPT ![c] = "waiting"]
    /\ UNCHANGED <<slotVars, timeVars, fed, derived, actorVars, stopVars>>

\* TLS and Key Method 2 succeed: the peer has been heard and the Conn is open.
\* Both ends can have the keys from here on.
Derive(c) ==
    /\ RunTo(c, "handshake", "derived")
    /\ c \in fed \intersect open
    /\ derived' = derived \union {c}
    /\ UNCHANGED <<slotVars, timeVars, fed, watch, actorVars, stopVars>>

\* They fail, and do when the Conn is closed under them.
FailHandshake(c) ==
    /\ RunTo(c, "handshake", "abandon")
    /\ UNCHANGED <<slotVars, timeVars, fed, derived, watch, actorVars, stopVars>>

\* verifyUserPass refuses the client: AUTH_FAILED is sent and drained first.
RejectUser(c) ==
    /\ RunTo(c, "derived", "rejectedAbandon")
    /\ UNCHANGED <<slotVars, timeVars, fed, derived, watch, actorVars, stopVars>>

\* abandon(): clear pendingReneg if it is still this attempt's.
Abandon(c) ==
    /\ \/ RunTo(c, "abandon", "close")
       \/ RunTo(c, "rejectedAbandon", "closeSession")
    /\ pending' = IF pending = c THEN Nil ELSE pending
    /\ UNCHANGED <<built, keyID, open, primary, lameDuck, timeVars, fed, derived,
                   watch, actorVars, stopVars>>

\* Mutant: the attempt returns without closing its Conn.
CloseAttemptForgetting(c) ==
    /\ RunTo(c, "close", "ended")
    /\ UNCHANGED <<slotVars, timeVars, fed, derived, watch, actorVars, stopVars>>

\* newConn.Close() and the return, which closes done.
CloseAttempt(c) ==
    /\ RunTo(c, "close", "ended")
    /\ open' = open \ {c}
    /\ UNCHANGED <<built, keyID, primary, lameDuck, pending, timeVars, fed,
                   derived, watch, actorVars, stopVars>>

\* The swap's own check, symmetric with the watchdog's.
stillMine(c) == stop = "open" /\ pending = c

\* The attempt was superseded: the watchdog or the teardown got there first.
Superseded(c) ==
    /\ ~ stillMine(c)
    /\ RunTo(c, "derived", "close")
    /\ UNCHANGED <<slotVars, timeVars, fed, derived, watch, actorVars, stopVars>>

\* NewWrapper fails.
WrapperFails(c) ==
    /\ stillMine(c)
    /\ RunTo(c, "derived", "close")
    /\ pending' = Nil
    /\ UNCHANGED <<built, keyID, open, primary, lameDuck, timeVars, fed, derived,
                   watch, actorVars, stopVars>>

\* The Conn that was the lame duck is closed.
openAfterSwap == open \ {lameDuck}

\* The rollover: the primary slot is demoted and the new one takes its place.
Rollover(c) ==
    /\ stillMine(c)
    /\ RunTo(c, "derived", "ended")
    /\ lameDuck' = primary
    /\ ttl' = transitionWindow
    /\ open' = openAfterSwap
    /\ primary' = c
    /\ age' = 0
    /\ pending' = Nil
    /\ UNCHANGED <<built, keyID, lastReneg, idle, fed, derived, watch, actorVars,
                   stopVars>>

\* done is closed before the window ends.
WatchDone(c) ==
    /\ watch[c] = "waiting"
    /\ run[c] = "ended"
    /\ watch' = [watch EXCEPT ![c] = "ended"]
    /\ UNCHANGED <<slotVars, timeVars, fed, derived, run, actorVars, stopVars>>

\* Mutant: the watchdog closes the Conn whether or not the attempt is pending.
WatchExpiresBlindly(c) ==
    /\ watch[c] = "waiting"
    /\ pending' = IF pending = c THEN Nil ELSE pending
    /\ watch' = [watch EXCEPT ![c] = "close"]
    /\ UNCHANGED <<built, keyID, open, primary, lameDuck, timeVars, fed, derived,
                   run, actorVars, stopVars>>

\* The window ends first; select may find both true.  Only an attempt that is
\* still pending is cleared, and its Conn closed.
WatchExpires(c) ==
    /\ watch[c] = "waiting"
    /\ pending' = IF pending = c THEN Nil ELSE pending
    /\ watch' = [watch EXCEPT ![c] = IF pending = c THEN "close" ELSE "ended"]
    /\ UNCHANGED <<built, keyID, open, primary, lameDuck, timeVars, fed, derived,
                   run, actorVars, stopVars>>

\* newConn.Close(): the stalled handshake returns.
WatchCloses(c) ==
    /\ watch[c] = "close"
    /\ watch' = [watch EXCEPT ![c] = "ended"]
    /\ open' = open \ {c}
    /\ UNCHANGED <<built, keyID, primary, lameDuck, pending, timeVars, fed,
                   derived, run, actorVars, stopVars>>

(***************************************************************************)
(* Traffic, time, the reaper and the teardown                              *)
(***************************************************************************)

\* pump: a control packet at key-id k reaches its Conn, or is dropped.  One that
\* is delivered counts as traffic.
Pump(k) ==
    LET target == routeControlPacket(k)
    IN  /\ stop = "open"
        /\ target # Nil
        /\ fed' = fed \union {target}
        /\ idle' = 0
        /\ UNCHANGED <<slotVars, age, ttl, lastReneg, derived, run, watch,
                       actorVars, stopVars>>

\* closeWithReason, from whichever goroutine enters stopOnce first: stopCh is
\* closed.
CloseSession ==
    /\ stop = "open"
    /\ stop' = "stopped"
    /\ UNCHANGED closing

\* The embedder, Server.Close or a reconnecting client.
EmbedderCloses ==
    /\ CloseSession
    /\ UNCHANGED <<slotVars, timeVars, attemptVars, actorVars>>

\* runRenegotiation closes the Conn and then the session of a refused client.
RejectedCloses(c) ==
    /\ RunTo(c, "closeSession", "ended")
    /\ open' = open \ {c}
    /\ CloseSession \/ (stop # "open" /\ UNCHANGED stopVars)
    /\ UNCHANGED <<built, keyID, primary, lameDuck, pending, timeVars, fed,
                   derived, watch, actorVars>>

\* Mutant: the Conn of a renegotiation in flight is not part of the snapshot.
ownedConnsEstablished == {primary, lameDuck, 0} \ {Nil}

\* The Conns closeWithReason finds under Session.mu, and Session.conn.
ownedConns == {primary, lameDuck, pending, 0} \ {Nil}

\* The snapshot, together with the removal of the dataSessions entry.
CloseSnapshot ==
    /\ stop = "stopped"
    /\ stop' = "detached"
    /\ closing' = ownedConns
    /\ UNCHANGED <<slotVars, timeVars, attemptVars, actorVars>>

\* Every Conn of the snapshot is closed.
CloseConns ==
    /\ stop = "detached"
    /\ stop' = "finished"
    /\ open' = open \ closing
    /\ closing' = {}
    /\ UNCHANGED <<built, keyID, primary, lameDuck, pending, timeVars,
                   attemptVars, actorVars>>

\* runReap reads lastAuthTraffic under Session.mu, and finds the window over ...
ReapRead ==
    /\ stop = "open"
    /\ ~ reaper
    /\ idle >= reapWindow
    /\ reaper' = TRUE
    /\ UNCHANGED <<slotVars, timeVars, attemptVars, handler, ticker, expired,
                   stopVars>>

\* ... and closes the session without it.
ReapClose ==
    /\ reaper
    /\ reaper' = FALSE
    /\ CloseSession \/ (stop # "open" /\ UNCHANGED stopVars)
    /\ UNCHANGED <<slotVars, timeVars, attemptVars, handler, ticker, expired>>

older(t, limit) == IF t < limit THEN t + 1 ELSE limit

\* Time passes.
Tick ==
    /\ stop = "open"
    /\ age' = older(age, renegSec)
    /\ lastReneg' = older(lastReneg, renegMinInterval)
    /\ idle' = older(idle, reapWindow)
    /\ ttl' = IF ttl > 0 THEN ttl - 1 ELSE 0
    /\ UNCHANGED <<slotVars, attemptVars, actorVars, stopVars>>

\* What runRenegotiation does without waiting for the peer.
RunForced(c) ==
    \/ StartRun(c) \/ RejectUser(c) \/ Abandon(c) \/ CloseAttempt(c)
    \/ Superseded(c) \/ WrapperFails(c) \/ Rollover(c) \/ RejectedCloses(c)

RunStep(c) == RunForced(c) \/ Derive(c) \/ FailHandshake(c)

WatchStep(c) == WatchDone(c) \/ WatchExpires(c) \/ WatchCloses(c)

TickerStep == sweepLameDuck \/ closeExpired \/ checkReneg \/ initiateRenegotiation

\* What the goroutines of a renegotiation and of the teardown do by themselves.
\* There are finitely many of these steps.
Forced ==
    \/ \E c \in Conn : RunForced(c) \/ WatchStep(c) \/ (c \notin open /\ FailHandshake(c))
    \/ CloseSnapshot \/ CloseConns

\* Control packets that are delivered.
Traffic == \E k \in KeyID : ResetDelivered(k) \/ Pump(k)

\* Every other step but the reaper's and Tick.
KeysStep ==
    \/ \E h \in Handler : beginRenegotiation(h) \/ \E k \in KeyID : ResetUnrouted(h, k)
    \/ \E c \in Conn : RunStep(c) \/ WatchStep(c)
    \/ TickerStep
    \/ EmbedderCloses \/ CloseSnapshot \/ CloseConns

(***************************************************************************)
(* Properties                                                              *)
(***************************************************************************)

slots == {primary, lameDuck, pending} \ {Nil}

\* As long as the session is not closing, the control channel of its live key is
\* open: neither the watchdog nor a superseded attempt ever closes the Conn that
\* runRenegotiation installed, nor does it install one that was closed.
PrimaryUsable == stop = "open" => primary \in open

\* routeControlPacket takes the packets of a key-id to the Conn that a slot holds
\* at that key-id, although key-ids wrap: no two slots share one, a renegotiation
\* in flight is always found, and 0 stays the id of a session's first key.
SlotsReachable ==
    \A c \in slots : routeControlPacket(keyID[c]) = c /\ (c > 0 => keyID[c] # 0)

\* A goroutine is already on its way to closing c.
beingClosed(c) ==
    \/ run[c] \in {"abandon", "rejectedAbandon", "close", "closeSession"}
    \/ watch[c] = "close"
    \/ expired = c

\* When closeWithReason has returned, no Conn is left open, and with it no
\* retransmit goroutine, but one that another goroutine is about to close.
TornDown == stop = "finished" => \A c \in open : beingClosed(c)

\* A rollover installs the attempt in flight, at the key-id that follows the
\* primary's, and demotes the key it replaces: an attempt that outlived its window
\* or was overtaken never gets in.
RolloverInOrder ==
    [][primary' # primary =>
         /\ primary' = pending
         /\ keyID'[primary'] = nextKeyID(keyID[primary])
         /\ lameDuck' = primary]_keyVars

\* A renegotiation does not stay in flight for good, whatever the peer does: the
\* next one is not refused for ever because of it.
RenegotiationSettles == \A c \in Conn : pending = c ~> (pending # c \/ stop # "open")

\* A Conn no slot holds is closed in the end, and its goroutines with it; a slot
\* that was demoted is emptied.
DemotedRetired ==
    \A c \in Conn : (c < built /\ c # primary /\ c # pending) ~> c \notin open
=============================================================================
