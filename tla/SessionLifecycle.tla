-------------------------- MODULE SessionLifecycle --------------------------
(***************************************************************************)
(* The life of a client session of src/ovpn.go and src/session.go, from    *)
(* the HARD_RESET that creates it to the end of its teardown.              *)
(*                                                                         *)
(* Four kinds of goroutine share a session: the one that reads its         *)
(* HARD_RESET (handleDatagram) and then runs the bring-up (runHandshake),  *)
(* the handshake-window watchdog (enforceHandshakeWindow), whichever       *)
(* goroutine is the first to call closeWithReason, and the one that runs   *)
(* Config.OnSessionClosed.  Callers of Server.Close run beside them.  A    *)
(* step is what a goroutine does between two points at which another one   *)
(* can observe or disturb it: a critical section of Server.mu, of          *)
(* Session.mu with Server.mu nested in it, of ipPool.mu or cbMu, an atomic *)
(* store, or the close of a channel.                                       *)
(*                                                                         *)
(* What a client sends, what the embedder's hooks answer and when timers   *)
(* fire is the environment's choice, bounded by the constants below.  The  *)
(* content of the TLS, Key Method 2 and PUSH messages is abstracted to     *)
(* whether the stage succeeds, but for the choice of a cipher.             *)
(***************************************************************************)
EXTENDS IPPool, CipherNegotiation, FiniteSets

CONSTANTS
    Session,        \* Session objects handleDatagram may construct
    Key,            \* sessionKey values: client address and client session id
    Closer,         \* goroutines that call Server.Close, once each
    Nil,            \* Go's nil
    Faults,         \* ways in which a bring-up may fail
    Causes,         \* reasons for which a live session may be closed
    Slow,           \* sessions whose bring-up may outlast the handshake window
    dataCiphers,    \* Server.dataCiphers
    Offers,         \* what clients may say of the ciphers they have
    Answers,        \* Answers[s]: what Config.AssignIP may return for s
    OnSessionSet,   \* Config.OnSession # nil
    OnClosedSet     \* Config.OnSessionClosed # nil

BringUpFaults == {"negotiate", "auth", "wrapper", "reply"}

\* Why a live session is closed. No step depends on Session.closeReason, which is
\* only handed to OnSessionClosed: it is left out.
LiveReasons == {"Embedder", "ClientExitNotify", "IdleReap", "AuthFailed"}

Outcomes == {"Completed", "Failed", "TimedOut", "AuthFailed", "CipherFailed"}

\* A result of Config.AssignIP: an error (or a recovered panic), nil (also an
\* unset hook), an address with no IPv4 form, or an IPv4 address.
Answer == [kind : {"error", "nil", "notIPv4", "ip"}, ip : Int]

ASSUME SessionAssumption ==
    /\ Nil \notin Session /\ Nil \notin Key /\ Nil \notin Closer /\ Nil \notin Lease
    /\ Faults \subseteq BringUpFaults
    /\ Causes \subseteq LiveReasons
    /\ Slow \subseteq Session
    /\ \A s \in Session : \A a \in Answers[s] :
          a.kind \in {"error", "nil", "notIPv4", "ip"} /\ a.ip \in Int
    /\ OnSessionSet \in BOOLEAN /\ OnClosedSet \in BOOLEAN

VARIABLES
    sessions,      \* Server.sessions
    dataSessions,  \* Server.dataSessions
    key,           \* Session.key
    hs,            \* where the session's bring-up goroutine stands
    want,          \* runHandshake: the address Config.AssignIP asked for
    scan,          \* runHandshake: sessions sessionByIP has yet to look at,
                   \* and then the one it found
    held,          \* runHandshake: ip and peer-id taken but not yet published
    assigned,      \* Session.assignedIP and Session.peerID
    window,        \* where enforceHandshakeWindow stands
    doneCh,        \* Session.doneCh is closed
    outcome,       \* the counter Session.outcomeOnce was spent on
    established,   \* Session.established
    published,     \* Session.published
    stop,          \* how far the stopOnce body of closeWithReason has come
    callback,      \* the OnSessionClosed goroutine
    cbCount,       \* Server.cbCount
    cbDone,        \* Server.cbDone: the Closer that waits on the channel
    closer,        \* where a caller of Server.Close stands
    left,          \* Server.Close: sessions of its snapshot still to close
    current,       \* Server.Close: the session whose closeWithReason it is in
    pcClosed       \* the PacketConn is closed

tableVars == <<sessions, dataSessions, key>>
assignVars == <<want, scan, held, assigned>>
flagVars == <<doneCh, outcome, established, published>>
cbVars == <<callback, cbCount, cbDone>>
serverVars == <<closer, left, current, pcClosed>>
vars == <<poolVars, tableVars, hs, assignVars, window, flagVars, stop,
          cbVars, serverVars>>

\* Positions of the bring-up goroutine.
HsStates ==
    {"free", "candidate", "discarded", "negotiate", "assign", "lookup",
     "scan", "evict", "retry", "held", "reply", "recheck", "handing",
     "handed", "rejectAuth", "rejectCipher", "end"}

\* Positions inside closeWithReason's stopOnce body, in order: not entered,
\* stopCh closed, dataSessions entry removed, pool entry released, sessions
\* entry removed, returned with the Conns closed.
StopStates ==
    {"open", "stopped", "detached", "released", "removed", "finished"}

PoolTypes == usedIPs \subseteq HostOffsets /\ usedPeerIDs \subseteq PeerIDs

TableTypes ==
    /\ sessions \in [Key -> Session \union {Nil}]
    /\ dataSessions \in [PeerIDs -> Session \union {Nil}]
    /\ key \in [Session -> Key \union {Nil}]

AssignTypes ==
    /\ want \in [Session -> Int]
    /\ scan \in [Session -> SUBSET Session]
    /\ held \in [Session -> Lease \union {Nil}]
    /\ assigned \in [Session -> Lease \union {Nil}]

FlagTypes ==
    /\ doneCh \in [Session -> BOOLEAN]
    /\ outcome \in [Session -> Outcomes \union {"none"}]
    /\ established \in [Session -> BOOLEAN]
    /\ published \in [Session -> BOOLEAN]

StopTypes == stop \in [Session -> StopStates]

CallbackTypes ==
    /\ callback \in [Session -> {"none", "running", "returned"}]
    /\ cbCount \in Int
    /\ cbDone \in Closer \union {Nil}

ServerTypes ==
    /\ closer \in [Closer -> {"idle", "closing", "waiting", "closePc", "done"}]
    /\ left \in [Closer -> SUBSET Session]
    /\ current \in [Closer -> Session \union {Nil}]
    /\ pcClosed \in BOOLEAN

\* Every variable, and so every field of the Go structs it stands for, keeps to
\* its type through every step of every goroutine.
TypeOK ==
    /\ PoolTypes
    /\ TableTypes
    /\ hs \in [Session -> HsStates]
    /\ AssignTypes
    /\ window \in [Session -> {"none", "waiting", "expired", "done"}]
    /\ FlagTypes
    /\ StopTypes
    /\ CallbackTypes
    /\ ServerTypes

Init ==
    /\ newIPPool
    /\ sessions = [k \in Key |-> Nil]
    /\ dataSessions = [p \in PeerIDs |-> Nil]
    /\ key = [s \in Session |-> Nil]
    /\ hs = [s \in Session |-> "free"]
    /\ want = [s \in Session |-> 0]
    /\ scan = [s \in Session |-> {}]
    /\ held = [s \in Session |-> Nil]
    /\ assigned = [s \in Session |-> Nil]
    /\ window = [s \in Session |-> "none"]
    /\ doneCh = [s \in Session |-> FALSE]
    /\ outcome = [s \in Session |-> "none"]
    /\ established = [s \in Session |-> FALSE]
    /\ published = [s \in Session |-> FALSE]
    /\ stop = [s \in Session |-> "open"]
    /\ callback = [s \in Session |-> "none"]
    /\ cbCount = 0
    /\ cbDone = Nil
    /\ closer = [c \in Closer |-> "idle"]
    /\ left = [c \in Closer |-> {}]
    /\ current = [c \in Closer |-> Nil]
    /\ pcClosed = FALSE

-----------------------------------------------------------------------------
(* Helpers.                                                                *)

\* Session.closing: stopCh is closed.
closing(s) == stop[s] # "open"

\* The stopOnce body of closeWithReason has given the address back.
Released(s) == stop[s] \in {"released", "removed", "finished"}

\* recordHandshakeOutcome: outcomeOnce lets the first counter through.
recordHandshakeOutcome(s, o) ==
    outcome' = IF outcome[s] = "none" THEN [outcome EXCEPT ![s] = o] ELSE outcome

\* Entering closeWithReason: the first caller closes stopCh; the steps Close...
\* below are the rest of the body.  A later caller changes nothing; where its wait
\* for the body matters, it is modelled at the caller.
closeWithReason(s) ==
    stop' = IF stop[s] = "open" THEN [stop EXCEPT ![s] = "stopped"] ELSE stop

Goto(s, pc) == hs' = [hs EXCEPT ![s] = pc]

\* runHandshake goes on at pc, with doneCh still open.
proceed(s, pc) == Goto(s, pc) /\ UNCHANGED <<doneCh, outcome, stop>>

\* Mutant: an error return records no outcome.
failUncounted(s) ==
    /\ doneCh' = [doneCh EXCEPT ![s] = TRUE]
    /\ closeWithReason(s)
    /\ Goto(s, "end")
    /\ UNCHANGED outcome

\* runHandshake leaves through an error return: it records the failure,
\* closes doneCh and tears the session down.
fail(s) ==
    /\ recordHandshakeOutcome(s, "Failed")
    /\ doneCh' = [doneCh EXCEPT ![s] = TRUE]
    /\ closeWithReason(s)
    /\ Goto(s, "end")

\* A fault may befall s: the run allows it, or the Conn under s is closed and
\* its reads and writes return errors.
MayFail(s, fault) == fault \in Faults \/ stop[s] = "finished"

-----------------------------------------------------------------------------
(* handleDatagram: a HARD_RESET_CLIENT_V2 opens a control channel.         *)

\* Serve hands the datagram to a goroutine of its own, which constructs a
\* candidate Session and authenticates the datagram.
Dispatch(s, k) ==
    /\ ~ pcClosed
    /\ hs[s] = "free"
    /\ Goto(s, "candidate")
    /\ key' = [key EXCEPT ![s] = k]
    /\ UNCHANGED <<poolVars, sessions, dataSessions, assignVars, window,
                   flagVars, stop, cbVars, serverVars>>

\* Mutant: the key is not looked up again under Server.mu.
InsertSessionUnchecked(s) ==
    /\ hs[s] = "candidate"
    /\ sessions' = [sessions EXCEPT ![key[s]] = s]
    /\ Goto(s, "negotiate")
    /\ window' = [window EXCEPT ![s] = "waiting"]
    /\ UNCHANGED <<poolVars, dataSessions, key, assignVars, flagVars,
                   stop, cbVars, serverVars>>

\* Under Server.mu: insert the candidate and start runHandshake and
\* enforceHandshakeWindow, unless the key is taken by now.
InsertSession(s) ==
    /\ hs[s] = "candidate"
    /\ IF sessions[key[s]] = Nil
       THEN /\ sessions' = [sessions EXCEPT ![key[s]] = s]
            /\ Goto(s, "negotiate")
            /\ window' = [window EXCEPT ![s] = "waiting"]
       ELSE /\ Goto(s, "discarded")
            /\ UNCHANGED <<sessions, window>>
    /\ UNCHANGED <<poolVars, dataSessions, key, assignVars, flagVars,
                   stop, cbVars, serverVars>>

-----------------------------------------------------------------------------
(* runHandshake up to the assignment of an address.                        *)

\* Some client has a cipher in common with the server, or has none.
Shared == \E offer \in Offers : negotiated(dataCiphers, offer) # NoCipher
NotShared == \E offer \in Offers : negotiated(dataCiphers, offer) = NoCipher

\* The TLS handshake, Key Method 2 and the read of PUSH_REQUEST: success, an
\* error of any of the three, no shared cipher, or rejected credentials.  The
\* last two are counted at once and then answered with AUTH_FAILED.
Negotiate(s) ==
    /\ hs[s] = "negotiate"
    /\ \/ Shared /\ proceed(s, "assign")
       \/ MayFail(s, "negotiate") /\ fail(s)
       \/ /\ NotShared
          /\ recordHandshakeOutcome(s, "CipherFailed")
          /\ Goto(s, "rejectCipher")
          /\ UNCHANGED <<doneCh, stop>>
       \/ /\ "auth" \in Faults
          /\ recordHandshakeOutcome(s, "AuthFailed")
          /\ Goto(s, "rejectAuth")
          /\ UNCHANGED <<doneCh, stop>>
    /\ UNCHANGED <<poolVars, tableVars, assignVars, window, established,
                   published, cbVars, serverVars>>

\* rejectAuthAfterPushRequest is through, at the latest when authFailedWindow
\* is over: close doneCh and tear the session down.
Reject(s) ==
    /\ hs[s] \in {"rejectAuth", "rejectCipher"}
    /\ doneCh' = [doneCh EXCEPT ![s] = TRUE]
    /\ closeWithReason(s)
    /\ Goto(s, "end")
    /\ UNCHANGED <<poolVars, tableVars, assignVars, window, outcome,
                   established, published, cbVars, serverVars>>

-----------------------------------------------------------------------------
(* assignTunnelIP.                                                         *)

\* reserve fails for good.
NotReserved(s) == fail(s) /\ UNCHANGED <<poolVars, held>>

\* reserve succeeds for the address ip.
Reserved(s, ip) ==
    \E l \in Lease :
        /\ l.ip = ip
        /\ reserve(l)
        /\ held' = [held EXCEPT ![s] = l]
        /\ proceed(s, "held")

\* allocateFromPool: the hook is unset or answered (nil, nil).
AllocateFromPool(s) ==
    /\ hs[s] = "assign"
    /\ \E a \in Answers[s] : a.kind = "nil"
    /\ \/ exhausted /\ NotReserved(s)
       \/ \E l \in Lease :
             /\ allocate(l)
             /\ held' = [held EXCEPT ![s] = l]
             /\ proceed(s, "held")
    /\ UNCHANGED <<tableVars, want, scan, assigned, window, established,
                   published, cbVars, serverVars>>

\* The hook returned an error or panicked, or its address is not IPv4.
AssignRefused(s) ==
    /\ hs[s] = "assign"
    /\ \E a \in Answers[s] : a.kind \in {"error", "notIPv4"}
    /\ NotReserved(s)
    /\ UNCHANGED <<tableVars, want, scan, assigned, window, established,
                   published, cbVars, serverVars>>

\* The hook asked for an address: the first reserve.
AssignReserve(s) ==
    /\ hs[s] = "assign"
    /\ \E a \in Answers[s] :
          /\ a.kind = "ip"
          /\ want' = [want EXCEPT ![s] = a.ip]
          /\ \/ reserveInUse(a.ip) /\ proceed(s, "lookup") /\ UNCHANGED <<poolVars, held>>
             \/ reserveRefused(a.ip) /\ NotReserved(s)
             \/ Reserved(s, a.ip)
    /\ UNCHANGED <<tableVars, scan, assigned, window, established, published,
                   cbVars, serverVars>>

\* sessionByIP: the snapshot of Server.sessions.
LookupSnapshot(s) ==
    /\ hs[s] = "lookup"
    /\ scan' = [scan EXCEPT ![s] = {sessions[k] : k \in Key} \ {Nil}]
    /\ Goto(s, "scan")
    /\ UNCHANGED <<poolVars, tableVars, want, held, assigned, window,
                   flagVars, stop, cbVars, serverVars>>

\* sessionByIP: look at one more session's AssignedIP, in map order, that is
\* in any order, and evict the first whose address matches; with none left
\* there is nobody to evict.
LookupNext(s) ==
    /\ hs[s] = "scan"
    /\ \/ /\ scan[s] = {}
          /\ Goto(s, "retry")
          /\ UNCHANGED <<scan, stop>>
       \/ \E t \in scan[s] :
             IF assigned[t] # Nil /\ assigned[t].ip = want[s]
             THEN /\ closeWithReason(t)
                  /\ scan' = [scan EXCEPT ![s] = {t}]
                  /\ Goto(s, "evict")
             ELSE /\ scan' = [scan EXCEPT ![s] = @ \ {t}]
                  /\ UNCHANGED <<hs, stop>>
    /\ UNCHANGED <<poolVars, tableVars, want, held, assigned, window,
                   flagVars, cbVars, serverVars>>

\* closeWithReason of the evicted session returns, whoever ran its body.
Evicted(s) ==
    /\ hs[s] = "evict"
    /\ \A t \in scan[s] : stop[t] = "finished"
    /\ Goto(s, "retry")
    /\ UNCHANGED <<poolVars, tableVars, assignVars, window, flagVars,
                   stop, cbVars, serverVars>>

\* The second and last reserve.
RetryReserve(s) ==
    /\ hs[s] = "retry"
    /\ \/ (reserveInUse(want[s]) \/ reserveRefused(want[s])) /\ NotReserved(s)
       \/ Reserved(s, want[s])
    /\ scan' = [scan EXCEPT ![s] = {}]
    /\ UNCHANGED <<tableVars, want, assigned, window, established, published,
                   cbVars, serverVars>>

-----------------------------------------------------------------------------
(* performPushExchange with the address in hand, and the end of            *)
(* runHandshake.                                                           *)

\* datachan.NewWrapper fails: give the pair back and leave.
WrapperFailed(s) ==
    /\ hs[s] = "held"
    /\ "wrapper" \in Faults
    /\ release(held[s])
    /\ held' = [held EXCEPT ![s] = Nil]
    /\ fail(s)
    /\ UNCHANGED <<tableVars, want, scan, assigned, window, established,
                   published, cbVars, serverVars>>

\* Mutant: the publish does not look whether the session is closing.
PublishUnchecked(s) ==
    /\ hs[s] = "held"
    /\ assigned' = [assigned EXCEPT ![s] = held[s]]
    /\ dataSessions' = [dataSessions EXCEPT ![held[s].peer] = s]
    /\ proceed(s, "reply")
    /\ held' = [held EXCEPT ![s] = Nil]
    /\ UNCHANGED <<poolVars, sessions, key, want, scan, window, established,
                   published, cbVars, serverVars>>

\* Under Session.mu with Server.mu nested: publish the address, the peer-id
\* and the routing entry, unless the session is closing.
Publish(s) ==
    /\ hs[s] = "held"
    /\ IF closing(s)
       THEN /\ release(held[s])
            /\ fail(s)
            /\ UNCHANGED <<assigned, dataSessions>>
       ELSE /\ assigned' = [assigned EXCEPT ![s] = held[s]]
            /\ dataSessions' = [dataSessions EXCEPT ![held[s].peer] = s]
            /\ proceed(s, "reply")
            /\ UNCHANGED poolVars
    /\ held' = [held EXCEPT ![s] = Nil]
    /\ UNCHANGED <<sessions, key, want, scan, window, established, published,
                   cbVars, serverVars>>

\* Write PUSH_REPLY, once more for every PUSH_REQUEST already buffered, and
\* close doneCh.
PushReply(s) ==
    /\ hs[s] = "reply"
    /\ \/ /\ Goto(s, "recheck")
          /\ doneCh' = [doneCh EXCEPT ![s] = TRUE]
          /\ UNCHANGED <<outcome, stop>>
       \/ MayFail(s, "reply") /\ fail(s)
    /\ UNCHANGED <<poolVars, tableVars, assignVars, window, established,
                   published, cbVars, serverVars>>

\* The last look at closing(); then the handshake counts as completed and the
\* session as established.
Establish(s) ==
    /\ hs[s] = "recheck"
    /\ IF closing(s)
       THEN /\ recordHandshakeOutcome(s, "Failed")
            /\ Goto(s, "end")
            /\ UNCHANGED established
       ELSE /\ recordHandshakeOutcome(s, "Completed")
            /\ established' = [established EXCEPT ![s] = TRUE]
            /\ Goto(s, IF OnSessionSet THEN "handing" ELSE "end")
    /\ UNCHANGED <<poolVars, tableVars, assignVars, window, doneCh,
                   published, stop, cbVars, serverVars>>

\* published.Store(true).
SetPublished(s) ==
    /\ hs[s] = "handing"
    /\ ~ published[s]
    /\ published' = [published EXCEPT ![s] = TRUE]
    /\ UNCHANGED <<poolVars, tableVars, hs, assignVars, window, doneCh,
                   outcome, established, stop, cbVars, serverVars>>

\* callOnSession calls the embedder's hook; its return, or the recovery of its
\* panic, changes nothing.
CallOnSession(s) ==
    /\ hs[s] = "handing"
    /\ published[s]
    /\ Goto(s, "handed")
    /\ UNCHANGED <<poolVars, tableVars, assignVars, window, flagVars,
                   stop, cbVars, serverVars>>

-----------------------------------------------------------------------------
(* enforceHandshakeWindow.                                                 *)

\* The select sees doneCh.
WindowDone(s) ==
    /\ window[s] = "waiting"
    /\ doneCh[s]
    /\ window' = [window EXCEPT ![s] = "done"]
    /\ UNCHANGED <<poolVars, tableVars, hs, assignVars, flagVars, stop,
                   cbVars, serverVars>>

\* The select takes the timer, which it may do with doneCh closed as well:
\* with both ready it picks either.
WindowExpire(s) ==
    /\ s \in Slow
    /\ window[s] = "waiting"
    /\ window' = [window EXCEPT ![s] = "expired"]
    /\ recordHandshakeOutcome(s, "TimedOut")
    /\ UNCHANGED <<poolVars, tableVars, hs, assignVars, doneCh, established,
                   published, stop, cbVars, serverVars>>

\* The watchdog's closeWithReason.
WindowClose(s) ==
    /\ window[s] = "expired"
    /\ window' = [window EXCEPT ![s] = "done"]
    /\ closeWithReason(s)
    /\ UNCHANGED <<poolVars, tableVars, hs, assignVars, flagVars, cbVars,
                   serverVars>>

-----------------------------------------------------------------------------
(* What closes a live session: Session.Close by an embedder who has the    *)
(* session from OnSession or Server.Sessions, an exit-notify routed to it  *)
(* by dataSessions, the idle reaper started when it was published, and a   *)
(* renegotiation whose credentials are rejected.                           *)

CloseLive(s, r) ==
    /\ r \in Causes
    /\ stop[s] = "open"
    /\ closeWithReason(s)
    /\ UNCHANGED <<poolVars, tableVars, hs, assignVars, window, flagVars,
                   cbVars, serverVars>>

EmbedderClose(s) == established[s] /\ CloseLive(s, "Embedder")

ClientExit(s) ==
    /\ \E p \in PeerIDs : dataSessions[p] = s
    /\ CloseLive(s, "ClientExitNotify")

IdleReap(s) == assigned[s] # Nil /\ CloseLive(s, "IdleReap")

RenegotiationRejected(s) == assigned[s] # Nil /\ CloseLive(s, "AuthFailed")

-----------------------------------------------------------------------------
(* The rest of closeWithReason's stopOnce body, in order.                  *)

StopStep(s, from, to) ==
    /\ stop[s] = from
    /\ stop' = [stop EXCEPT ![s] = to]

\* Mutant: the routing entry stays.
CloseDetachKeeps(s) ==
    /\ StopStep(s, "stopped", "detached")
    /\ UNCHANGED <<poolVars, tableVars, hs, assignVars, window, flagVars,
                   cbVars, serverVars>>

\* Under Session.mu with Server.mu nested: take the snapshot (assigned no
\* longer changes once stopCh is closed) and delete the routing entry.
CloseDetach(s) ==
    /\ StopStep(s, "stopped", "detached")
    /\ dataSessions' =
          [p \in PeerIDs |->
             IF assigned[s] # Nil /\ p = assigned[s].peer /\ dataSessions[p] = s
             THEN Nil ELSE dataSessions[p]]
    /\ UNCHANGED <<poolVars, sessions, key, hs, assignVars, window, flagVars,
                   cbVars, serverVars>>

\* pool.release.
CloseRelease(s) ==
    /\ StopStep(s, "detached", "released")
    /\ IF assigned[s] # Nil THEN release(assigned[s]) ELSE UNCHANGED poolVars
    /\ UNCHANGED <<tableVars, hs, assignVars, window, flagVars, 
                   cbVars, serverVars>>

\* Mutant: only an established session leaves the session table.
CloseRemoveEstablished(s) ==
    /\ StopStep(s, "released", "removed")
    /\ sessions' = IF established[s] /\ sessions[key[s]] = s
                   THEN [sessions EXCEPT ![key[s]] = Nil] ELSE sessions
    /\ UNCHANGED <<poolVars, dataSessions, key, hs, assignVars, window,
                   flagVars, cbVars, serverVars>>

\* removeSession.
CloseRemove(s) ==
    /\ StopStep(s, "released", "removed")
    /\ sessions' = IF sessions[key[s]] = s
                   THEN [sessions EXCEPT ![key[s]] = Nil] ELSE sessions
    /\ UNCHANGED <<poolVars, dataSessions, key, hs, assignVars, window,
                   flagVars, cbVars, serverVars>>

\* Mutant: OnSessionClosed also runs for a session that was never handed out.
CloseNotifyAlways(s) ==
    /\ StopStep(s, "removed", "finished")
    /\ IF OnClosedSet
       THEN /\ cbCount' = cbCount + 1
            /\ callback' = [callback EXCEPT ![s] = "running"]
       ELSE UNCHANGED <<cbCount, callback>>
    /\ UNCHANGED <<poolVars, tableVars, hs, assignVars, window, flagVars,
                   cbDone, serverVars>>

\* Close the session's Conns and, if it was published, register OnSessionClosed
\* (cbBegin) and start it on a goroutine of its own.
CloseNotify(s) ==
    /\ StopStep(s, "removed", "finished")
    /\ IF OnClosedSet /\ published[s]
       THEN /\ cbCount' = cbCount + 1
            /\ callback' = [callback EXCEPT ![s] = "running"]
       ELSE UNCHANGED <<cbCount, callback>>
    /\ UNCHANGED <<poolVars, tableVars, hs, assignVars, window, flagVars,
                   cbDone, serverVars>>

\* The hook returns, or its panic is recovered, and cbEnd runs: the last
\* callback wakes the Closer that waits on cbDone.
CallbackReturns(s) ==
    /\ callback[s] = "running"
    /\ callback' = [callback EXCEPT ![s] = "returned"]
    /\ cbCount' = cbCount - 1
    /\ IF cbCount = 1 /\ cbDone # Nil
       THEN closer' = [closer EXCEPT ![cbDone] = "closePc"] /\ cbDone' = Nil
       ELSE UNCHANGED <<closer, cbDone>>
    /\ UNCHANGED <<poolVars, tableVars, hs, assignVars, window, flagVars,
                   stop, left, current, pcClosed>>

-----------------------------------------------------------------------------
(* Server.Close.                                                           *)

\* Under Server.mu: take the snapshot of the session table.
ServerCloseSnapshot(c) ==
    /\ closer[c] = "idle"
    /\ closer' = [closer EXCEPT ![c] = "closing"]
    /\ left' = [left EXCEPT ![c] = {sessions[k] : k \in Key} \ {Nil}]
    /\ UNCHANGED <<poolVars, tableVars, hs, assignVars, window, flagVars,
                   stop, cbVars, current, pcClosed>>

\* Mutant: the loop does not move on to the next session.
ServerCloseSessionAgain(c) ==
    /\ closer[c] = "closing"
    /\ current[c] = Nil
    /\ \E s \in left[c] :
          /\ closeWithReason(s)
          /\ current' = [current EXCEPT ![c] = s]
    /\ UNCHANGED <<poolVars, tableVars, hs, assignVars, window, flagVars,
                   cbVars, closer, left, pcClosed>>

\* Call closeWithReason for the next session of the snapshot.
ServerCloseSession(c) ==
    /\ closer[c] = "closing"
    /\ current[c] = Nil
    /\ \E s \in left[c] :
          /\ closeWithReason(s)
          /\ current' = [current EXCEPT ![c] = s]
          /\ left' = [left EXCEPT ![c] = @ \ {s}]
    /\ UNCHANGED <<poolVars, tableVars, hs, assignVars, window, flagVars,
                   cbVars, closer, pcClosed>>

\* That call returns: stopOnce makes it wait for the body, whoever runs it.
ServerCloseReturned(c) ==
    /\ current[c] # Nil
    /\ stop[current[c]] = "finished"
    /\ current' = [current EXCEPT ![c] = Nil]
    /\ UNCHANGED <<poolVars, tableVars, hs, assignVars, window, flagVars,
                   stop, cbVars, closer, left, pcClosed>>

\* Mutant: cbWait returns with one callback still running.
cbWaitEarly(c) ==
    /\ closer[c] = "closing"
    /\ current[c] = Nil
    /\ left[c] = {}
    /\ IF cbCount <= 1
       THEN closer' = [closer EXCEPT ![c] = "closePc"] /\ UNCHANGED cbDone
       ELSE closer' = [closer EXCEPT ![c] = "waiting"] /\ cbDone' = c
    /\ UNCHANGED <<poolVars, tableVars, hs, assignVars, window, flagVars,
                   stop, callback, cbCount, left, current, pcClosed>>

\* cbWait: return at once, or leave a fresh channel in cbDone and wait on it.
cbWait(c) ==
    /\ closer[c] = "closing"
    /\ current[c] = Nil
    /\ left[c] = {}
    /\ IF cbCount = 0
       THEN closer' = [closer EXCEPT ![c] = "closePc"] /\ UNCHANGED cbDone
       ELSE closer' = [closer EXCEPT ![c] = "waiting"] /\ cbDone' = c
    /\ UNCHANGED <<poolVars, tableVars, hs, assignVars, window, flagVars,
                   stop, callback, cbCount, left, current, pcClosed>>

\* pc.Close, after which Serve returns.
ServerClosePc(c) ==
    /\ closer[c] = "closePc"
    /\ closer' = [closer EXCEPT ![c] = "done"]
    /\ pcClosed' = TRUE
    /\ UNCHANGED <<poolVars, tableVars, hs, assignVars, window, flagVars,
                   stop, cbVars, left, current>>

-----------------------------------------------------------------------------
(* The specification.                                                      *)

\* Steps of the bring-up goroutine that wait for the client.
ClientStep(s) == Negotiate(s) \/ PushReply(s)

\* Steps of the bring-up goroutine that wait for nobody but other goroutines
\* of the server.
LocalStep(s) ==
    \/ InsertSession(s)
    \/ Reject(s)
    \/ AllocateFromPool(s)
    \/ AssignRefused(s)
    \/ AssignReserve(s)
    \/ LookupSnapshot(s)
    \/ LookupNext(s)
    \/ Evicted(s)
    \/ RetryReserve(s)
    \/ WrapperFailed(s)
    \/ Publish(s)
    \/ Establish(s)
    \/ SetPublished(s)
    \/ CallOnSession(s)

WindowStep(s) == WindowDone(s) \/ WindowExpire(s) \/ WindowClose(s)

CloseStep(s) ==
    \/ CloseDetach(s)
    \/ CloseRelease(s)
    \/ CloseRemove(s)
    \/ CloseNotify(s)

\* What the client or the embedder decides.
EnvStep(s) ==
    \/ \E k \in Key : Dispatch(s, k)
    \/ EmbedderClose(s)
    \/ ClientExit(s)
    \/ IdleReap(s)
    \/ RenegotiationRejected(s)

CloserStep(c) ==
    \/ ServerCloseSession(c)
    \/ ServerCloseReturned(c)
    \/ cbWait(c)
    \/ ServerClosePc(c)

\* Nothing is left to run: what is live stays so, what was closed is closed.
Quiescent ==
    /\ \A s \in Session :
          /\ hs[s] \in {"free", "discarded", "handed", "end"}
          /\ window[s] \in {"none", "done"}
          /\ stop[s] \in {"open", "finished"}
          /\ callback[s] # "running"
    /\ \A c \in Closer : closer[c] \in {"idle", "done"}
    /\ UNCHANGED vars

Next ==
    \/ \E s \in Session :
          \/ ClientStep(s)
          \/ LocalStep(s)
          \/ WindowStep(s)
          \/ CloseStep(s)
          \/ CallbackReturns(s)
          \/ EnvStep(s)
    \/ \E c \in Closer : ServerCloseSnapshot(c) \/ CloserStep(c)
    \/ Quiescent

Spec == Init /\ [][Next]_vars

\* Goroutines that wait for nobody keep running, timers fire, an I/O call on
\* a closed Conn returns, and OnSessionClosed returns.  Nothing is assumed of
\* the client, of OnSession, or of whoever might close a session. No goroutine
\* ever comes back to a place it has left, so fairness of all these steps
\* together makes each of them happen.
Forced ==
    \/ \E s \in Session :
          \/ stop[s] = "finished" /\ ClientStep(s)
          \/ LocalStep(s)
          \/ WindowStep(s)
          \/ CloseStep(s)
          \/ CallbackReturns(s)
    \/ \E c \in Closer : CloserStep(c)

FairSpec == Spec /\ WF_vars(Forced)

-----------------------------------------------------------------------------
(* Properties that hold.                                                   *)

\* The pair each session is answerable for: taken by its bring-up goroutine, or
\* published and not yet released by its teardown.
lease ==
    [s \in Session |->
        IF held[s] # Nil THEN held[s]
        ELSE IF assigned[s] # Nil /\ ~ Released(s) THEN assigned[s] ELSE Nil]

Holders == {s \in Session : lease[s] # Nil}

\* No two sessions hold the same tunnel address or the same peer-id, however
\* allocate, the eviction of assignTunnelIP, the publish of performPushExchange
\* and the release of closeWithReason interleave.
ExclusiveLeases ==
    \A s, t \in Holders :
        s # t => lease[s].ip # lease[t].ip /\ lease[s].peer # lease[t].peer

\* The pool marks exactly the addresses and peer-ids some session still has to
\* give back: none is lost by a session closed in mid bring-up (WR-05), none is
\* free while it is in use.
NoPoolLeak ==
    /\ usedIPs = {lease[s].ip : s \in Holders}
    /\ usedPeerIDs = {lease[s].peer : s \in Holders}

\* closeWithReason has removed the routing entry of s.
Detached(s) == stop[s] = "detached" \/ Released(s)

\* dataSessions routes a peer-id to s exactly while s has it published and has
\* not been torn down past the delete: a peer-id is never routed to a session
\* that has given it back (WR-04), nor does a teardown cut off a newer owner.
RoutingExact ==
    \A p \in PeerIDs, s \in Session :
        dataSessions[p] = s <=>
            assigned[s] # Nil /\ assigned[s].peer = p /\ ~ Detached(s)

\* Where a pair can be: in the hands of the bring-up goroutine exactly between
\* assignTunnelIP and the publish, and published only from there on.
PairPlaces ==
    \A s \in Session :
        /\ held[s] # Nil <=> hs[s] = "held"
        /\ assigned[s] # Nil =>
              hs[s] \in {"reply", "recheck", "handing", "handed", "end"}

\* The ownership of addresses, peer-ids and routes as an inductive invariant:
\* what every critical section of ipPool.mu, Session.mu and Server.mu that
\* touches them may rely on and has to leave behind.
OwnershipInv ==
    /\ TypeOK
    /\ PairPlaces
    /\ ExclusiveLeases
    /\ NoPoolLeak
    /\ RoutingExact

\* A session whose goroutines run is in the session table, under its own key,
\* until its teardown removes it, so Server.Close can find it: the second
\* HARD_RESET of a key that races the first never displaces its session.
SessionReachable ==
    \A s \in Session :
        /\ hs[s] \notin {"free", "candidate", "discarded"}
        /\ stop[s] \notin {"removed", "finished"}
        => sessions[key[s]] = s

\* OnSessionClosed starts only once the teardown of a session that was handed
\* out is complete: no table entry, no routing entry, no address, Conn closed.
CallbackAfterTeardown ==
    \A s \in Session :
        callback[s] # "none" =>
            /\ published[s]
            /\ stop[s] = "finished"
            /\ lease[s] = Nil
            /\ \A k \in Key : sessions[k] # s
            /\ \A p \in PeerIDs : dataSessions[p] # s

\* A session that Server.Close found in its snapshot is torn down when that call
\* comes to pc.Close, and its OnSessionClosed callback has returned for good, also
\* when another goroutine began or ran the teardown; it stays so whatever other
\* callers of Server.Close do (Server.Close, cbWait).
CloseWaitsForCallbacks ==
    \A c \in Closer, s \in Session :
        [](s \in left[c] =>
              [](closer[c] \in {"closePc", "done"} =>
                    stop[s] = "finished" /\ callback[s] # "running"))

\* The bring-up and its teardown implement AddressLeases.
Leases == INSTANCE AddressLeases
            WITH Client <- Session, Pair <- Lease, None <- Nil, lease <- lease

\* Every step of the server maps to a grant of a free pair, a return of a held
\* one, or to no change of who holds what.
LeasesImplemented == Leases!Spec

\* The cipher of a session is the right one, however embedder and client announce
\* what they have: what the client ends up with, by PUSH_REPLY or by its own options,
\* is what the server keys its data channel with; it is the first of the embedder's
\* list that the client can use, whatever the order of the client's own; and no client
\* is refused that has one (performKeyMethod2Exchange, selectCipher).
CiphersAgree ==
    \A s \in Session : hs[s] \in {"assign", "rejectCipher"} => allAgree /\ firstUsable

\* Every handshake that starts is counted under some outcome: at the latest the
\* handshake window ends it, whatever the client and the hooks do.
HandshakeSettles ==
    []<>(\A s \in Session :
            hs[s] \notin {"free", "candidate", "discarded"} => outcome[s] # "none")

\* A session that is closed, at whatever point of its bring-up, is torn down to
\* the end, its bring-up goroutine leaves, and nothing of it stays behind or
\* comes back: no address, no table entry, no routing entry.
TeardownIsFinal ==
    <>[](\A s \in Session :
            stop[s] # "open" =>
                /\ stop[s] = "finished"
                /\ hs[s] \in {"handed", "end"}
                /\ lease[s] = Nil
                /\ \A k \in Key : sessions[k] # s
                /\ \A p \in PeerIDs : dataSessions[p] # s)

\* A single Server.Close returns, provided OnSessionClosed does.
ServerCloseReturns ==
    []<>(\A c \in Closer : closer[c] \in {"idle", "done"})
=============================================================================
