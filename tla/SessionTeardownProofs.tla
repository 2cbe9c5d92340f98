----------------------- MODULE SessionTeardownProofs ------------------------
(***************************************************************************)
(* Proofs about how a session of SessionLifecycle ends: the session table, *)
(* the OnSessionClosed callbacks and the callers of Server.Close, for      *)
(* every set of sessions, keys and callers.                                *)
(***************************************************************************)
EXTENDS SessionLifecycleProofs, FiniteSetTheorems

-----------------------------------------------------------------------------
(* The inductive invariant.                                                *)

\* The bring-up of s got past the insertion into Server.sessions.
Started(s) == hs[s] \notin {"free", "candidate", "discarded"}

\* removeSession has run for s.
Removed(s) == stop[s] \in {"removed", "finished"}

\* Server.sessions maps a key to s exactly from the insertion to removeSession,
\* and the key is the session's own.
TableInv ==
    /\ \A s \in Session : hs[s] # "free" => key[s] \in Key
    /\ \A k \in Key, s \in Session :
          sessions[k] = s => key[s] = k /\ Started(s) /\ ~ Removed(s)
    /\ SessionReachable

\* Nothing happens to a candidate that was not inserted: no watchdog, no close,
\* no place in the snapshot of a Server.Close.
LiveInv ==
    /\ \A s \in Session :
          stop[s] # "open" \/ window[s] # "none" \/ established[s] => Started(s)
    /\ \A c \in Closer : \A s \in left[c] : Started(s)

Running == {s \in Session : callback[s] = "running"}

\* OnSessionClosed belongs to a session that was handed out and is torn down, and
\* Server.cbCount counts the ones that have not returned.
CallbackInv ==
    /\ \A s \in Session : published[s] => hs[s] \in {"handing", "handed"}
    /\ \A s \in Session :
          callback[s] # "none" => published[s] /\ stop[s] = "finished"
    /\ IsFiniteSet(Running)
    /\ cbCount = Cardinality(Running)

\* A caller of Server.Close that is inside closeWithReason, or has sessions of its
\* snapshot left, has not come to cbWait, and one whose channel is in cbDone is still
\* waiting.
CloserInv ==
    /\ \A c \in Closer : current[c] # Nil => closer[c] = "closing"
    /\ \A c \in Closer : left[c] # {} => closer[c] = "closing"
    /\ cbDone # Nil => closer[cbDone] = "waiting"

TeardownInv ==
    OwnershipInv /\ TableInv /\ LiveInv /\ CallbackInv /\ CloserInv

-----------------------------------------------------------------------------
(* Most steps neither touch the session table, the callbacks and the       *)
(* callers of Server.Close, nor bring a teardown to its end.               *)

\* The bring-up of t stays put, or moves between positions past the insertion.
HsOnward ==
    \A t \in Session :
        \/ hs'[t] = hs[t]
        \/ /\ Started(t) /\ Started(t)'
           /\ hs[t] \in {"handing", "handed"} => hs'[t] \in {"handing", "handed"}

\* The close of t stays put, or moves while t is still in the table.
StopOnward ==
    \A t \in Session :
        \/ stop'[t] = stop[t]
        \/ Started(t) /\ ~ Removed(t) /\ ~ Removed(t)'

\* Only a started bring-up makes a session established or hands it out.
FlagsOnward ==
    \A t \in Session :
        /\ window'[t] # "none" => window[t] # "none"
        /\ established'[t] => established[t] \/ Started(t)
        /\ published[t] => published'[t]
        /\ published'[t] => published[t] \/ (hs[t] = "handing" /\ hs'[t] = "handing")

\* A step that stays within the life of the sessions in the table.
Onward ==
    /\ UNCHANGED <<sessions, key, cbVars, closer, left, current>>
    /\ HsOnward
    /\ StopOnward
    /\ FlagsOnward

\* Such a step keeps the table exact.
LEMMA OnwardTable ==
    ASSUME TypeOK, TableInv, Onward
    PROVE  TableInv'
<1>1. \A s \in Session : Started(s)' <=> Started(s)
  BY ZenonT(60) DEF Onward, HsOnward, Started
<1>2. \A s \in Session : Removed(s)' <=> Removed(s)
  BY ZenonT(60) DEF Onward, StopOnward, Removed
<1>3. \A s \in Session : hs'[s] # "free" => hs[s] # "free"
  BY ZenonT(60) DEF Onward, HsOnward, Started
<1>4. SessionReachable'
  BY <1>1, <1>2, ZenonT(60) DEF TableInv, SessionReachable, Onward, Started, Removed
<1> QED
  BY <1>1, <1>2, <1>3, <1>4, ZenonT(60) DEF TableInv, Onward

\* Such a step keeps what is known of the sessions that were never inserted.
LEMMA OnwardLive ==
    ASSUME TypeOK, LiveInv, Onward
    PROVE  LiveInv'
<1>1. \A s \in Session : Started(s)' <=> Started(s)
  BY ZenonT(60) DEF Onward, HsOnward, Started
<1>2. \A c \in Closer : left[c] \subseteq Session
  BY ZenonT(60) DEF TypeOK, ServerTypes
<1>3. \A s \in Session : stop'[s] # "open" => stop[s] # "open" \/ Started(s)
  BY ZenonT(60) DEF Onward, StopOnward
<1>4. \A s \in Session : window'[s] # "none" \/ established'[s] =>
          window[s] # "none" \/ established[s] \/ Started(s)
  BY ZenonT(60) DEF Onward, FlagsOnward
<1> QED
  BY <1>1, <1>2, <1>3, <1>4, ZenonT(60) DEF LiveInv, Onward

\* Such a step keeps the account of the callbacks that are running.
LEMMA OnwardCallback ==
    ASSUME TypeOK, CallbackInv, Onward
    PROVE  CallbackInv'
<1>1. callback' = callback /\ cbCount' = cbCount
  BY DEF Onward, cbVars
<1>2. Running' = Running
  BY <1>1 DEF Running
<1>3. \A s \in Session : stop[s] = "finished" => stop'[s] = "finished"
  BY ZenonT(60) DEF Onward, StopOnward, Removed
<1>4. \A s \in Session : published[s] => published'[s]
  BY ZenonT(60) DEF Onward, FlagsOnward
<1>5. \A s \in Session : published'[s] => hs'[s] \in {"handing", "handed"}
  BY ZenonT(60) DEF Onward, FlagsOnward, HsOnward, CallbackInv
<1>6. IsFiniteSet(Running') /\ cbCount' = Cardinality(Running')
  BY <1>1, <1>2 DEF CallbackInv
<1> QED
  BY <1>1, <1>3, <1>4, <1>5, <1>6, ZenonT(60) DEF CallbackInv

\* Such a step keeps what each caller of Server.Close has still to wait for.
LEMMA OnwardCloser ==
    ASSUME TypeOK, CloserInv, Onward
    PROVE  CloserInv'
<1>1. UNCHANGED <<cbDone, closer, left, current>>
  BY DEF Onward, cbVars
<1> QED
  BY <1>1 DEF CloserInv

\* A step of the bring-up goroutine from one started position to another.
LEMMA GotoOnward ==
    ASSUME TypeOK, NEW s \in Session, NEW pc, Goto(s, pc), Started(s),
           pc \notin {"free", "candidate", "discarded"},
           hs[s] \in {"handing", "handed"} => pc \in {"handing", "handed"}
    PROVE  HsOnward
BY DEF TypeOK, Goto, HsOnward, Started

\* A step that leaves every bring-up where it is is onward for them.
LEMMA HsStays ==
    ASSUME UNCHANGED hs
    PROVE  HsOnward
BY DEF HsOnward

\* Entering closeWithReason of a started session.
LEMMA CloseOnward ==
    ASSUME TypeOK, NEW s \in Session, Started(s), closeWithReason(s)
    PROVE  StopOnward
<1>1. stop \in [Session -> StopStates]
  BY DEF TypeOK, StopTypes
<1>2. CASE stop[s] = "open"
  <2>1. stop' = [stop EXCEPT ![s] = "stopped"]
    BY <1>2 DEF closeWithReason
  <2>2. ASSUME NEW t \in Session, t # s
        PROVE  stop'[t] = stop[t]
    BY <1>1, <2>1, <2>2
  <2>3. stop'[s] = "stopped"
    BY <1>1, <2>1
  <2> QED
    BY <1>2, <2>2, <2>3 DEF StopOnward, Removed
<1>3. CASE stop[s] # "open"
  BY <1>3 DEF closeWithReason, StopOnward
<1> QED
  BY <1>2, <1>3

\* A step that leaves every close where it is is onward for them.
LEMMA StopStays ==
    ASSUME UNCHANGED stop
    PROVE  StopOnward
BY DEF StopOnward

\* A step that leaves the flags of the sessions alone is onward for them.
LEMMA FlagsStay ==
    ASSUME UNCHANGED <<window, established, published>>
    PROVE  FlagsOnward
<1>1. window' = window /\ established' = established /\ published' = published
  OBVIOUS
<1> QED
  BY <1>1, ZenonT(60) DEF FlagsOnward

\* What the bring-up of s may do with doneCh, outcome, hs and the close.
LEMMA FailOnward ==
    ASSUME TypeOK, NEW s \in Session, Started(s), hs[s] \notin {"handing", "handed"}, fail(s)
    PROVE  HsOnward /\ StopOnward
<1>1. HsOnward
  BY GotoOnward DEF fail
<1>2. StopOnward
  BY CloseOnward DEF fail
<1> QED
  BY <1>1, <1>2

\* A started bring-up that goes on is an onward step.
LEMMA ProceedOnward ==
    ASSUME TypeOK, NEW s \in Session, Started(s), hs[s] \notin {"handing", "handed"},
           NEW pc, pc \notin {"free", "candidate", "discarded"}, proceed(s, pc)
    PROVE  HsOnward /\ StopOnward
<1>1. HsOnward
  BY GotoOnward DEF proceed
<1>2. StopOnward
  BY StopStays DEF proceed
<1> QED
  BY <1>1, <1>2

\* The steps that leave the table, the callbacks and Server.Close alone.
LEMMA OnwardActions ==
    ASSUME OwnershipInv, LiveInv, [Next]_vars
    PROVE  \/ Onward
           \/ \E s \in Session :
                 \/ \E k \in Key : Dispatch(s, k)
                 \/ InsertSession(s)
                 \/ CloseRemove(s)
                 \/ CloseNotify(s)
                 \/ CallbackReturns(s)
           \/ \E c \in Closer :
                 \/ ServerCloseSnapshot(c)
                 \/ ServerCloseSession(c)
                 \/ ServerCloseReturned(c)
                 \/ cbWait(c)
                 \/ ServerClosePc(c)
<1>0. TypeOK
  BY DEF OwnershipInv
<1>1. ASSUME NEW s \in Session, Negotiate(s) PROVE Onward
  <2>1. HsOnward /\ StopOnward
    BY <1>0, <1>1, FailOnward, ProceedOnward, GotoOnward, StopStays, CloseOnward,
       ZenonT(60)
    DEF Negotiate, Started
  <2>2. FlagsOnward
    BY <1>1, FlagsStay, ZenonT(60) DEF Negotiate, flagVars
  <2> QED
    BY <1>1, <2>1, <2>2, ZenonT(60) DEF Negotiate, Onward, tableVars, serverVars
<1>2. ASSUME NEW s \in Session, PushReply(s) PROVE Onward
  <2>1. HsOnward /\ StopOnward
    BY <1>0, <1>2, FailOnward, ProceedOnward, GotoOnward, StopStays, CloseOnward,
       ZenonT(60)
    DEF PushReply, Started
  <2>2. FlagsOnward
    BY <1>2, FlagsStay, ZenonT(60) DEF PushReply, flagVars
  <2> QED
    BY <1>2, <2>1, <2>2, ZenonT(60) DEF PushReply, Onward, tableVars, serverVars
<1>3. ASSUME NEW s \in Session, Reject(s) PROVE Onward
  <2>1. HsOnward /\ StopOnward
    BY <1>0, <1>3, FailOnward, ProceedOnward, GotoOnward, StopStays, CloseOnward,
       ZenonT(60)
    DEF Reject, Started
  <2>2. FlagsOnward
    BY <1>3, FlagsStay, ZenonT(60) DEF Reject, flagVars
  <2> QED
    BY <1>3, <2>1, <2>2, ZenonT(60) DEF Reject, Onward, tableVars, serverVars
<1>4. ASSUME NEW s \in Session, AllocateFromPool(s) PROVE Onward
  <2>1. HsOnward /\ StopOnward
    BY <1>0, <1>4, FailOnward, ProceedOnward, GotoOnward, StopStays, CloseOnward,
       ZenonT(60)
    DEF AllocateFromPool, NotReserved, Started
  <2>2. FlagsOnward
    BY <1>4, FlagsStay, ZenonT(60) DEF AllocateFromPool, flagVars
  <2> QED
    BY <1>4, <2>1, <2>2, ZenonT(60) DEF AllocateFromPool, Onward, tableVars, serverVars
<1>5. ASSUME NEW s \in Session, AssignRefused(s) PROVE Onward
  <2>1. HsOnward /\ StopOnward
    BY <1>0, <1>5, FailOnward, ProceedOnward, GotoOnward, StopStays, CloseOnward,
       ZenonT(60)
    DEF AssignRefused, NotReserved, Started
  <2>2. FlagsOnward
    BY <1>5, FlagsStay, ZenonT(60) DEF AssignRefused, flagVars
  <2> QED
    BY <1>5, <2>1, <2>2, ZenonT(60) DEF AssignRefused, Onward, tableVars, serverVars
<1>6. ASSUME NEW s \in Session, AssignReserve(s) PROVE Onward
  <2>1. HsOnward /\ StopOnward
    BY <1>0, <1>6, FailOnward, ProceedOnward, GotoOnward, StopStays, CloseOnward,
       ZenonT(60)
    DEF AssignReserve, NotReserved, Reserved, Started
  <2>2. FlagsOnward
    BY <1>6, FlagsStay, ZenonT(60) DEF AssignReserve, flagVars
  <2> QED
    BY <1>6, <2>1, <2>2, ZenonT(60) DEF AssignReserve, Onward, tableVars, serverVars
<1>7. ASSUME NEW s \in Session, LookupSnapshot(s) PROVE Onward
  <2>1. HsOnward /\ StopOnward
    BY <1>0, <1>7, FailOnward, ProceedOnward, GotoOnward, StopStays, CloseOnward,
       ZenonT(60)
    DEF LookupSnapshot, Started
  <2>2. FlagsOnward
    BY <1>7, FlagsStay, ZenonT(60) DEF LookupSnapshot, flagVars
  <2> QED
    BY <1>7, <2>1, <2>2, ZenonT(60) DEF LookupSnapshot, Onward, tableVars, serverVars
<1>8. ASSUME NEW s \in Session, Evicted(s) PROVE Onward
  <2>1. HsOnward /\ StopOnward
    BY <1>0, <1>8, FailOnward, ProceedOnward, GotoOnward, StopStays, CloseOnward,
       ZenonT(60)
    DEF Evicted, Started
  <2>2. FlagsOnward
    BY <1>8, FlagsStay, ZenonT(60) DEF Evicted, flagVars
  <2> QED
    BY <1>8, <2>1, <2>2 DEF Evicted, Onward, tableVars, serverVars
<1>9. ASSUME NEW s \in Session, RetryReserve(s) PROVE Onward
  <2>1. HsOnward /\ StopOnward
    BY <1>0, <1>9, FailOnward, ProceedOnward, GotoOnward, StopStays, CloseOnward,
       ZenonT(60)
    DEF RetryReserve, NotReserved, Reserved, Started
  <2>2. FlagsOnward
    BY <1>9, FlagsStay, ZenonT(60) DEF RetryReserve, flagVars
  <2> QED
    BY <1>9, <2>1, <2>2, ZenonT(60) DEF RetryReserve, Onward, tableVars, serverVars
<1>10. ASSUME NEW s \in Session, WrapperFailed(s) PROVE Onward
  <2>1. HsOnward /\ StopOnward
    BY <1>0, <1>10, FailOnward, ProceedOnward, GotoOnward, StopStays, CloseOnward,
       ZenonT(60)
    DEF WrapperFailed, Started
  <2>2. FlagsOnward
    BY <1>10, FlagsStay, ZenonT(60) DEF WrapperFailed, flagVars
  <2> QED
    BY <1>10, <2>1, <2>2, ZenonT(60) DEF WrapperFailed, Onward, tableVars, serverVars
<1>11. ASSUME NEW s \in Session, Publish(s) PROVE Onward
  <2>1. HsOnward /\ StopOnward
    BY <1>0, <1>11, FailOnward, ProceedOnward, GotoOnward, StopStays, CloseOnward,
       ZenonT(60)
    DEF Publish, Started
  <2>2. FlagsOnward
    BY <1>11, FlagsStay, ZenonT(60) DEF Publish, flagVars
  <2> QED
    BY <1>11, <2>1, <2>2, ZenonT(60) DEF Publish, Onward, tableVars, serverVars
<1>12. ASSUME NEW s \in Session, CallOnSession(s) PROVE Onward
  <2>1. HsOnward /\ StopOnward
    BY <1>0, <1>12, FailOnward, ProceedOnward, GotoOnward, StopStays, CloseOnward,
       ZenonT(60)
    DEF CallOnSession, Started
  <2>2. FlagsOnward
    BY <1>12, FlagsStay, ZenonT(60) DEF CallOnSession, flagVars
  <2> QED
    BY <1>12, <2>1, <2>2, ZenonT(60) DEF CallOnSession, Onward, tableVars, serverVars
<1>13. ASSUME NEW s \in Session, LookupNext(s) PROVE Onward
  <2>1. HsOnward
    BY <1>0, <1>13, GotoOnward, HsStays, ZenonT(60) DEF LookupNext, Started
  <2>2. ASSUME NEW t \in Session, assigned[t] # Nil PROVE Started(t)
    BY <2>2, ZenonT(60) DEF OwnershipInv, PairPlaces, Started
  <2>3. \A t \in scan[s] : t \in Session
    BY <1>0, ZenonT(60) DEF TypeOK, AssignTypes
  <2>4. StopOnward
    BY <1>0, <1>13, <2>2, <2>3, CloseOnward, StopStays, ZenonT(60) DEF LookupNext
  <2>5. FlagsOnward
    BY <1>13, FlagsStay, ZenonT(60) DEF LookupNext, flagVars
  <2> QED
    BY <1>13, <2>1, <2>4, <2>5, ZenonT(60) DEF LookupNext, Onward, tableVars, serverVars
<1>14. ASSUME NEW s \in Session, Establish(s) PROVE Onward
  <2>1. HsOnward /\ StopOnward
    BY <1>0, <1>14, GotoOnward, StopStays, ZenonT(60) DEF Establish, Started
  <2>2. ASSUME NEW t \in Session, established'[t] PROVE established[t] \/ Started(t)
    BY <1>0, <1>14, <2>2, ZenonT(60) DEF Establish, Started, TypeOK, FlagTypes
  <2>3. FlagsOnward
    BY <1>14, <2>2, ZenonT(60) DEF Establish, FlagsOnward
  <2> QED
    BY <1>14, <2>1, <2>3, ZenonT(60) DEF Establish, Onward, tableVars, serverVars
<1>15. ASSUME NEW s \in Session, SetPublished(s) PROVE Onward
  <2>1. HsOnward /\ StopOnward
    BY <1>15, HsStays, StopStays, ZenonT(60) DEF SetPublished
  <2>2. ASSUME NEW t \in Session
        PROVE  /\ published[t] => published'[t]
               /\ published'[t] => published[t] \/ (hs[t] = "handing" /\ hs'[t] = "handing")
    BY <1>0, <1>15, <2>2, ZenonT(60) DEF SetPublished, TypeOK, FlagTypes
  <2>3. FlagsOnward
    BY <1>15, <2>2, ZenonT(60) DEF SetPublished, FlagsOnward
  <2> QED
    BY <1>15, <2>1, <2>3, ZenonT(60) DEF SetPublished, Onward, tableVars, serverVars
<1>16. ASSUME NEW s \in Session, WindowDone(s) PROVE Onward
  <2>1. HsOnward /\ StopOnward
    BY <1>16, HsStays, StopStays, ZenonT(60) DEF WindowDone
  <2>2. FlagsOnward
    BY <1>0, <1>16, ZenonT(60) DEF WindowDone, FlagsOnward, TypeOK, flagVars
  <2> QED
    BY <1>16, <2>1, <2>2, ZenonT(60) DEF WindowDone, Onward, tableVars, serverVars
<1>17. ASSUME NEW s \in Session, WindowExpire(s) PROVE Onward
  <2>1. HsOnward /\ StopOnward
    BY <1>17, HsStays, StopStays, ZenonT(60) DEF WindowExpire
  <2>2. FlagsOnward
    BY <1>0, <1>17, ZenonT(60) DEF WindowExpire, FlagsOnward, TypeOK
  <2> QED
    BY <1>17, <2>1, <2>2, ZenonT(60) DEF WindowExpire, Onward, tableVars, serverVars
<1>18. ASSUME NEW s \in Session, WindowClose(s) PROVE Onward
  <2>1. Started(s)
    BY <1>18, ZenonT(60) DEF WindowClose, LiveInv
  <2>2. HsOnward /\ StopOnward
    BY <1>0, <1>18, <2>1, HsStays, CloseOnward, ZenonT(60) DEF WindowClose
  <2>3. FlagsOnward
    BY <1>0, <1>18, ZenonT(60) DEF WindowClose, FlagsOnward, TypeOK, flagVars
  <2> QED
    BY <1>18, <2>2, <2>3, ZenonT(60) DEF WindowClose, Onward, tableVars, serverVars
<1>19. ASSUME NEW s \in Session, NEW to \in {"detached", "released"},
              StopStep(s, "stopped", to) \/ StopStep(s, "detached", to),
              UNCHANGED <<sessions, key, hs, window, flagVars, cbVars, serverVars>>
      PROVE  Onward
  <2>1. Started(s) /\ ~ Removed(s)
    BY <1>19, ZenonT(60) DEF StopStep, LiveInv, Removed
  <2>2. /\ \A t \in Session : t # s => stop'[t] = stop[t]
        /\ stop'[s] = to
    BY <1>0, <1>19, ZenonT(60) DEF StopStep, TypeOK, StopTypes
  <2>3. StopOnward
    BY <1>19, <2>1, <2>2, ZenonT(60) DEF StopOnward, Removed
  <2> QED
    BY <1>19, <2>3, HsStays, FlagsStay, ZenonT(60) DEF Onward, flagVars, serverVars
<1>20. ASSUME NEW s \in Session, CloseDetach(s) \/ CloseRelease(s) PROVE Onward
  BY <1>19, <1>20, ZenonT(60) DEF CloseDetach, CloseRelease, tableVars
<1>21. ASSUME NEW s \in Session, NEW r \in LiveReasons, CloseLive(s, r), Started(s)
      PROVE  Onward
  <2>1. StopOnward
    BY <1>0, <1>21, CloseOnward, ZenonT(60) DEF CloseLive, LiveReasons
  <2> QED
    BY <1>21, <2>1, HsStays, FlagsStay, ZenonT(60)
    DEF CloseLive, Onward, tableVars, flagVars, serverVars
<1>22. ASSUME NEW s \in Session,
              EmbedderClose(s) \/ ClientExit(s) \/ IdleReap(s) \/ RenegotiationRejected(s)
      PROVE  Onward
  <2>1. established[s] \/ assigned[s] # Nil
    BY <1>22, ZenonT(60)
    DEF EmbedderClose, ClientExit, IdleReap, RenegotiationRejected, OwnershipInv,
        RoutingExact
  <2>2. Started(s)
    BY <2>1, ZenonT(60) DEF LiveInv, OwnershipInv, PairPlaces, Started
  <2> QED
    BY <1>21, <1>22, <2>2, ZenonT(60)
    DEF EmbedderClose, ClientExit, IdleReap, RenegotiationRejected, LiveReasons
<1>23. CASE UNCHANGED vars
  BY <1>23, HsStays, StopStays, FlagsStay, ZenonT(60)
  DEF vars, Onward, tableVars, flagVars, serverVars
<1> QED
  BY <1>1, <1>2, <1>3, <1>4, <1>5, <1>6, <1>7, <1>8, <1>9, <1>10, <1>11,
     <1>12, <1>13, <1>14, <1>15, <1>16, <1>17, <1>18, <1>20, <1>22, <1>23,
     ZenonT(60)
  DEF Next, ClientStep, LocalStep, WindowStep, CloseStep, EnvStep, CloserStep,
      Quiescent

-----------------------------------------------------------------------------
(* The other steps, one at a time.                                         *)

\* Each part of the invariant depends on few variables.
LEMMA PartsKept ==
    /\ TableInv /\ UNCHANGED <<sessions, key, hs, stop>> => TableInv'
    /\ LiveInv /\ UNCHANGED <<hs, stop, window, established, left>> => LiveInv'
    /\ CallbackInv /\ UNCHANGED <<published, hs, stop, callback, cbCount>> => CallbackInv'
    /\ CloserInv /\ UNCHANGED <<cbDone, closer, left, current>> => CloserInv'
<1>1. TableInv /\ UNCHANGED <<sessions, key, hs, stop>> => TableInv'
  BY ZenonT(60) DEF TableInv, SessionReachable, Started, Removed
<1>2. LiveInv /\ UNCHANGED <<hs, stop, window, established, left>> => LiveInv'
  BY ZenonT(60) DEF LiveInv, Started
<1>3. CallbackInv /\ UNCHANGED <<published, hs, stop, callback, cbCount>> => CallbackInv'
  <2> SUFFICES ASSUME CallbackInv, UNCHANGED <<published, hs, stop, callback, cbCount>>
               PROVE  CallbackInv'
    OBVIOUS
  <2>1. Running' = Running
    BY DEF Running
  <2>2. IsFiniteSet(Running') /\ cbCount' = Cardinality(Running')
    BY <2>1 DEF CallbackInv
  <2> QED
    BY <2>2, ZenonT(60) DEF CallbackInv
<1>4. CloserInv /\ UNCHANGED <<cbDone, closer, left, current>> => CloserInv'
  BY DEF CloserInv
<1> QED
  BY <1>1, <1>2, <1>3, <1>4

\* What every step of the proof below has to show.
TeardownKept == TableInv' /\ LiveInv' /\ CallbackInv' /\ CloserInv'

\* dispatch takes a free session for a new peer; it is not in the table yet.
LEMMA DispatchTeardown ==
    ASSUME TeardownInv, NEW s \in Session, NEW k \in Key, Dispatch(s, k)
    PROVE  TeardownKept
<1>1. TypeOK /\ TableInv /\ LiveInv /\ CallbackInv /\ CloserInv
  BY DEF TeardownInv, OwnershipInv
<1>2. /\ hs[s] = "free" /\ hs' = [hs EXCEPT ![s] = "candidate"]
      /\ key' = [key EXCEPT ![s] = k]
      /\ UNCHANGED <<sessions, window, established, published, stop>>
      /\ UNCHANGED <<callback, cbCount, cbDone, closer, left, current>>
  BY ZenonT(60) DEF Dispatch, Goto, flagVars, cbVars, serverVars
<1>3. hs \in [Session -> HsStates] /\ key \in [Session -> Key \union {Nil}]
  BY <1>1 DEF TypeOK, TableTypes
<1>4. \A t \in Session : Started(t)' <=> Started(t)
  BY <1>2, <1>3, ZenonT(60) DEF Started
<1>5. ~ Started(s) /\ \A t \in Session : Started(t) => key'[t] = key[t]
  BY <1>2, <1>3, ZenonT(60) DEF Started
<1>6. \A t \in Session : hs'[t] # "free" => key'[t] \in Key
  BY <1>1, <1>2, <1>3, ZenonT(60) DEF TableInv
<1>7. \A t \in Session : Removed(t)' <=> Removed(t)
  BY <1>2 DEF Removed
<1>8. SessionReachable'
  <2> SUFFICES ASSUME NEW t \in Session, Started(t)', ~ Removed(t)'
               PROVE  sessions'[key'[t]] = t
    BY DEF SessionReachable, Started, Removed
  <2>1. Started(t) /\ ~ Removed(t) /\ key'[t] = key[t]
    BY <1>4, <1>5, <1>7
  <2>2. sessions[key[t]] = t
    BY <1>1, <2>1, ZenonT(60) DEF TableInv, SessionReachable, Started, Removed
  <2> QED
    BY <1>2, <2>1, <2>2, ZenonT(60)
<1>9. TableInv'
  BY <1>1, <1>2, <1>4, <1>5, <1>6, <1>7, <1>8, ZenonT(60) DEF TableInv
<1>10. LiveInv'
  <2>1. \A c \in Closer : left[c] \subseteq Session
    BY <1>1, ZenonT(60) DEF TypeOK, ServerTypes
  <2> QED
    BY <1>1, <1>2, <1>4, <2>1, ZenonT(60) DEF LiveInv
<1>11. CallbackInv'
  <2>1. Running' = Running
    BY <1>2 DEF Running
  <2>2. IsFiniteSet(Running') /\ cbCount' = Cardinality(Running')
    BY <1>1, <1>2, <2>1 DEF CallbackInv
  <2>3. \A t \in Session : published'[t] => hs'[t] \in {"handing", "handed"}
    BY <1>1, <1>2, <1>3, ZenonT(60) DEF CallbackInv
  <2> QED
    BY <1>1, <1>2, <2>2, <2>3, ZenonT(60) DEF CallbackInv
<1>12. CloserInv'
  BY <1>1, <1>2, PartsKept, ZenonT(60)
<1> QED
  BY <1>9, <1>10, <1>11, <1>12 DEF TeardownKept

\* The insertion into Server.sessions puts the session at its key and nowhere else.
LEMMA InsertTeardown ==
    ASSUME TeardownInv, NEW s \in Session, InsertSession(s)
    PROVE  TeardownKept
<1>1. TypeOK /\ TableInv /\ LiveInv /\ CallbackInv /\ CloserInv /\ Nil \notin Session
  BY SessionAssumption DEF TeardownInv, OwnershipInv
<1>2. /\ hs[s] = "candidate"
      /\ UNCHANGED <<key, established, published, stop>>
      /\ UNCHANGED <<callback, cbCount, cbDone, closer, left, current>>
  BY ZenonT(60) DEF InsertSession, flagVars, cbVars, serverVars
<1>3. /\ hs \in [Session -> HsStates] /\ key \in [Session -> Key \union {Nil}]
      /\ sessions \in [Key -> Session \union {Nil}]
      /\ window \in [Session -> {"none", "waiting", "expired", "done"}]
  BY <1>1 DEF TypeOK, TableTypes
<1>4. ~ Started(s) /\ key[s] \in Key
  BY <1>1, <1>2, ZenonT(60) DEF Started, TableInv
<1>5. stop[s] = "open"
  BY <1>1, <1>4, ZenonT(60) DEF LiveInv
<1>6. \A c \in Closer : left[c] \subseteq Session
  BY <1>1, ZenonT(60) DEF TypeOK, ServerTypes
<1>7. \A t \in Session : Removed(t)' <=> Removed(t)
  BY <1>2 DEF Removed
<1>8. ASSUME sessions[key[s]] = Nil
      PROVE  /\ TableInv' /\ LiveInv'
             /\ \A t \in Session : published'[t] => hs'[t] \in {"handing", "handed"}
  <2>1. /\ sessions' = [sessions EXCEPT ![key[s]] = s]
        /\ hs' = [hs EXCEPT ![s] = "negotiate"]
        /\ window' = [window EXCEPT ![s] = "waiting"]
    BY <1>8 DEF InsertSession, Goto
  <2>2. \A t \in Session : Started(t)' <=> Started(t) \/ t = s
    BY <1>3, <2>1, ZenonT(60) DEF Started
  <2>3. \A t \in Session : hs'[t] # "free" => hs[t] # "free"
    BY <1>2, <1>3, <2>1, ZenonT(60)
  <2>4. ASSUME NEW j \in Key, NEW t \in Session, sessions'[j] = t
        PROVE  key[t] = j /\ (Started(t) \/ t = s) /\ ~ Removed(t)
    <3>1. CASE j = key[s]
      BY <1>3, <1>5, <2>1, <2>4, <3>1, ZenonT(60) DEF Removed
    <3>2. CASE j # key[s]
      <4>1. sessions[j] = t
        BY <1>3, <2>1, <2>4, <3>2
      <4> QED
        BY <1>1, <4>1, ZenonT(60) DEF TableInv
    <3> QED
      BY <3>1, <3>2
  <2>5. ASSUME NEW t \in Session, Started(t)', ~ Removed(t)'
        PROVE  sessions'[key'[t]] = t
    <3>1. CASE t = s
      BY <1>2, <1>3, <1>4, <2>1, <3>1, ZenonT(60)
    <3>2. CASE t # s
      <4>1. sessions[key[t]] = t
        BY <1>1, <1>7, <2>2, <2>5, <3>2, ZenonT(60) DEF TableInv, SessionReachable, Started, Removed
      <4>2. key[t] # key[s] /\ key[t] \in Key
        BY <1>1, <1>8, <2>2, <2>5, <3>2, <4>1, ZenonT(60) DEF TableInv, Started
      <4> QED
        BY <1>2, <1>3, <2>1, <4>1, <4>2, ZenonT(60)
    <3> QED
      BY <3>1, <3>2
  <2>6. SessionReachable'
    BY <2>5, ZenonT(60) DEF SessionReachable, Started, Removed
  <2>7. TableInv'
    BY <1>1, <1>2, <1>7, <2>2, <2>3, <2>4, <2>6, ZenonT(60) DEF TableInv
  <2>8. \A t \in Session : window'[t] # "none" => window[t] # "none" \/ t = s
    BY <1>3, <2>1, ZenonT(60)
  <2>9. LiveInv'
    BY <1>1, <1>2, <1>6, <2>2, <2>8, ZenonT(60) DEF LiveInv
  <2>10. \A t \in Session : published'[t] => hs'[t] \in {"handing", "handed"}
    BY <1>1, <1>2, <1>3, <2>1, ZenonT(60) DEF CallbackInv
  <2> QED
    BY <2>7, <2>9, <2>10
<1>9. ASSUME sessions[key[s]] # Nil
      PROVE  /\ TableInv' /\ LiveInv'
             /\ \A t \in Session : published'[t] => hs'[t] \in {"handing", "handed"}
  <2>1. /\ sessions' = sessions /\ window' = window
        /\ hs' = [hs EXCEPT ![s] = "discarded"]
    BY <1>9 DEF InsertSession, Goto
  <2>2. \A t \in Session : Started(t)' <=> Started(t)
    BY <1>3, <1>4, <2>1, ZenonT(60) DEF Started
  <2>3. \A t \in Session : hs'[t] # "free" => hs[t] # "free"
    BY <1>2, <1>3, <2>1, ZenonT(60)
  <2>4. SessionReachable'
    BY <1>1, <1>2, <1>7, <2>1, <2>2, ZenonT(60) DEF TableInv, SessionReachable, Started, Removed
  <2>5. TableInv'
    BY <1>1, <1>2, <1>7, <2>1, <2>2, <2>3, <2>4, ZenonT(60) DEF TableInv
  <2>6. LiveInv'
    BY <1>1, <1>2, <1>6, <2>1, <2>2, ZenonT(60) DEF LiveInv
  <2>7. \A t \in Session : published'[t] => hs'[t] \in {"handing", "handed"}
    BY <1>1, <1>2, <1>3, <2>1, ZenonT(60) DEF CallbackInv
  <2> QED
    BY <2>5, <2>6, <2>7
<1>10. CallbackInv'
  <2>1. Running' = Running
    BY <1>2 DEF Running
  <2>2. IsFiniteSet(Running') /\ cbCount' = Cardinality(Running')
    BY <1>1, <1>2, <2>1 DEF CallbackInv
  <2> QED
    BY <1>1, <1>2, <1>8, <1>9, <2>2, ZenonT(60) DEF CallbackInv
<1>11. CloserInv'
  BY <1>1, <1>2, PartsKept, ZenonT(60)
<1> QED
  BY <1>8, <1>9, <1>10, <1>11, ZenonT(60) DEF TeardownKept

\* teardown deletes the entry of the session, and only that one.
LEMMA RemoveTeardown ==
    ASSUME TeardownInv, NEW s \in Session, CloseRemove(s)
    PROVE  TeardownKept
<1>1. TypeOK /\ TableInv /\ LiveInv /\ CallbackInv /\ CloserInv /\ Nil \notin Session
  BY SessionAssumption DEF TeardownInv, OwnershipInv
<1>2. /\ stop[s] = "released" /\ stop' = [stop EXCEPT ![s] = "removed"]
      /\ sessions' = IF sessions[key[s]] = s
                     THEN [sessions EXCEPT ![key[s]] = Nil] ELSE sessions
      /\ UNCHANGED <<key, hs, window, established, published>>
      /\ UNCHANGED <<callback, cbCount, cbDone, closer, left, current>>
  BY ZenonT(60) DEF CloseRemove, StopStep, flagVars, cbVars, serverVars
<1>3. /\ sessions \in [Key -> Session \union {Nil}] /\ stop \in [Session -> StopStates]
      /\ \A c \in Closer : left[c] \subseteq Session
  BY <1>1, ZenonT(60) DEF TypeOK, TableTypes, StopTypes, ServerTypes
<1>4. Started(s) /\ key[s] \in Key
  BY <1>1, <1>2, ZenonT(60) DEF LiveInv, TableInv, Started
<1>5. \A t \in Session : Started(t)' <=> Started(t)
  BY <1>2 DEF Started
<1>6. \A t \in Session : (Removed(t)' <=> Removed(t) \/ t = s)
  BY <1>2, <1>3, ZenonT(60) DEF Removed
<1>7. \A j \in Key, t \in Session : sessions'[j] = t => sessions[j] = t /\ t # s
  <2> SUFFICES ASSUME NEW j \in Key, NEW t \in Session, sessions'[j] = t
               PROVE  sessions[j] = t /\ t # s
    OBVIOUS
  <2>1. sessions[j] = t
    BY <1>1, <1>2, <1>3, ZenonT(60)
  <2>2. CASE t = s
    <3>1. j = key[s]
      BY <1>1, <2>1, <2>2, ZenonT(60) DEF TableInv
    <3>2. sessions'[j] = Nil
      BY <1>2, <1>3, <1>4, <2>1, <2>2, <3>1, ZenonT(60)
    <3> QED
      BY <1>1, <3>2
  <2> QED
    BY <2>1, <2>2
<1>8. ASSUME NEW t \in Session, Started(t), ~ Removed(t), t # s
      PROVE  sessions'[key[t]] = t
  <2>1. sessions[key[t]] = t /\ key[t] \in Key
    BY <1>1, <1>8, ZenonT(60) DEF TableInv, SessionReachable, Started, Removed
  <2>2. sessions[key[s]] = s => key[t] # key[s]
    BY <1>8, <2>1, ZenonT(60)
  <2> QED
    BY <1>2, <1>3, <2>1, <2>2, ZenonT(60)
<1>9. SessionReachable'
  BY <1>2, <1>5, <1>6, <1>8, ZenonT(60) DEF SessionReachable, Started, Removed
<1>10. TableInv'
  BY <1>1, <1>2, <1>5, <1>6, <1>7, <1>9, ZenonT(60) DEF TableInv
<1>11. \A t \in Session : stop'[t] # "open" => stop[t] # "open"
  BY <1>2, <1>3, ZenonT(60)
<1>12. LiveInv'
  BY <1>1, <1>2, <1>3, <1>5, <1>11, ZenonT(60) DEF LiveInv
<1>13. \A t \in Session : stop[t] = "finished" => stop'[t] = "finished"
  BY <1>2, <1>3, ZenonT(60)
<1>14. CallbackInv'
  <2>1. Running' = Running
    BY <1>2 DEF Running
  <2>2. IsFiniteSet(Running') /\ cbCount' = Cardinality(Running')
    BY <1>1, <1>2, <2>1 DEF CallbackInv
  <2> QED
    BY <1>1, <1>2, <1>13, <2>2, ZenonT(60) DEF CallbackInv
<1>15. CloserInv'
  BY <1>1, <1>2, PartsKept, ZenonT(60)
<1> QED
  BY <1>10, <1>12, <1>14, <1>15 DEF TeardownKept

\* The end of teardown starts the callback of a session that was handed out.
LEMMA NotifyTeardown ==
    ASSUME TeardownInv, NEW s \in Session, CloseNotify(s)
    PROVE  TeardownKept
<1>1. TypeOK /\ TableInv /\ LiveInv /\ CallbackInv /\ CloserInv
  BY DEF TeardownInv, OwnershipInv
<1>2. /\ stop[s] = "removed" /\ stop' = [stop EXCEPT ![s] = "finished"]
      /\ UNCHANGED <<sessions, key, hs, window, established, published>>
      /\ UNCHANGED <<cbDone, closer, left, current>>
  BY ZenonT(60) DEF CloseNotify, StopStep, flagVars, tableVars, serverVars
<1>3. /\ stop \in [Session -> StopStates]
      /\ callback \in [Session -> {"none", "running", "returned"}]
      /\ \A c \in Closer : left[c] \subseteq Session
  BY <1>1, ZenonT(60) DEF TypeOK, StopTypes, CallbackTypes, ServerTypes
<1>4. \A t \in Session : Started(t)' <=> Started(t)
  BY <1>2 DEF Started
<1>5. \A t \in Session : Removed(t)' <=> Removed(t)
  BY <1>2, <1>3, ZenonT(60) DEF Removed
<1>6. SessionReachable'
  BY <1>1, <1>2, <1>4, <1>5, ZenonT(60) DEF TableInv, SessionReachable, Started, Removed
<1>7. TableInv'
  BY <1>1, <1>2, <1>4, <1>5, <1>6, ZenonT(60) DEF TableInv
<1>8. \A t \in Session : stop'[t] # "open" => stop[t] # "open"
  BY <1>2, <1>3, ZenonT(60)
<1>9. LiveInv'
  BY <1>1, <1>2, <1>3, <1>4, <1>8, ZenonT(60) DEF LiveInv
<1>10. /\ \A t \in Session : stop[t] = "finished" => stop'[t] = "finished"
       /\ stop'[s] = "finished"
  BY <1>2, <1>3, ZenonT(60)
<1>11. callback[s] = "none"
  BY <1>1, <1>2, ZenonT(60) DEF CallbackInv
<1>12. CASE OnClosedSet /\ published[s]
  <2>1. cbCount' = cbCount + 1 /\ callback' = [callback EXCEPT ![s] = "running"]
    BY <1>12 DEF CloseNotify
  <2>2. Running' = Running \union {s} /\ s \notin Running
    BY <1>3, <1>11, <2>1 DEF Running
  <2>3. IsFiniteSet(Running') /\ cbCount' = Cardinality(Running')
    <3>1. IsFiniteSet(Running) /\ cbCount = Cardinality(Running)
      BY <1>1 DEF CallbackInv
    <3>2. IsFiniteSet(Running \union {s})
      BY <3>1, FS_AddElement
    <3>3. Cardinality(Running \union {s}) = cbCount + 1
      BY <2>2, <3>1, FS_AddElement, SMTT(30)
    <3> QED
      BY <2>1, <2>2, <3>2, <3>3
  <2>4. \A t \in Session : t # s => callback'[t] = callback[t]
    BY <1>3, <2>1
  <2>5. CallbackInv'
    BY <1>1, <1>2, <1>10, <1>12, <2>3, <2>4, ZenonT(60) DEF CallbackInv
  <2>6. CloserInv'
    BY <1>1, <1>2, PartsKept, ZenonT(60)
  <2> QED
    BY <1>7, <1>9, <2>5, <2>6 DEF TeardownKept
<1>13. CASE ~ (OnClosedSet /\ published[s])
  <2>1. UNCHANGED <<cbCount, callback>>
    BY <1>13 DEF CloseNotify
  <2>2. Running' = Running
    BY <2>1 DEF Running
  <2>3. IsFiniteSet(Running') /\ cbCount' = Cardinality(Running')
    BY <1>1, <2>1, <2>2 DEF CallbackInv
  <2>4. CallbackInv'
    BY <1>1, <1>2, <1>10, <2>1, <2>3, ZenonT(60) DEF CallbackInv
  <2>5. CloserInv'
    BY <1>1, <1>2, PartsKept, ZenonT(60)
  <2> QED
    BY <1>7, <1>9, <2>4, <2>5 DEF TeardownKept
<1> QED
  BY <1>12, <1>13

\* A callback that returns leaves the wait group and stays done.
LEMMA ReturnTeardown ==
    ASSUME TeardownInv, NEW s \in Session, CallbackReturns(s)
    PROVE  TeardownKept
<1>1. TypeOK /\ TableInv /\ LiveInv /\ CallbackInv /\ CloserInv
  BY DEF TeardownInv, OwnershipInv
<1>2. /\ callback[s] = "running" /\ callback' = [callback EXCEPT ![s] = "returned"]
      /\ cbCount' = cbCount - 1
      /\ UNCHANGED <<sessions, key, hs, window, established, published, stop>>
      /\ UNCHANGED <<left, current>>
  BY ZenonT(60) DEF CallbackReturns, flagVars, tableVars
<1>3. /\ callback \in [Session -> {"none", "running", "returned"}]
      /\ closer \in [Closer -> {"idle", "closing", "waiting", "closePc", "done"}]
      /\ cbDone \in Closer \union {Nil}
  BY <1>1, ZenonT(60) DEF TypeOK, CallbackTypes, ServerTypes
<1>4. TableInv' /\ LiveInv'
  BY <1>1, <1>2, PartsKept
<1>5. Running' = Running \ {s} /\ s \in Running
  BY <1>2, <1>3 DEF Running
<1>6. IsFiniteSet(Running) /\ cbCount = Cardinality(Running)
  BY <1>1 DEF CallbackInv
<1>7. IsFiniteSet(Running') /\ cbCount' = Cardinality(Running')
  BY <1>2, <1>5, <1>6, FS_RemoveElement
<1>8. \A t \in Session : callback'[t] # "none" => callback[t] # "none"
  BY <1>2, <1>3
<1>9. CallbackInv'
  BY <1>1, <1>2, <1>7, <1>8, ZenonT(60) DEF CallbackInv
<1>10. CASE cbCount = 1 /\ cbDone # Nil
  <2>1. closer' = [closer EXCEPT ![cbDone] = "closePc"] /\ cbDone' = Nil
    BY <1>10 DEF CallbackReturns
  <2>2. /\ \A c \in Closer : current'[c] # Nil => closer'[c] = "closing"
        /\ \A c \in Closer : left'[c] # {} => closer'[c] = "closing"
    BY <1>1, <1>2, <1>3, <1>10, <2>1 DEF CloserInv
  <2>3. CloserInv'
    BY <2>1, <2>2, ZenonT(60) DEF CloserInv
  <2> QED
    BY <1>4, <1>9, <2>3 DEF TeardownKept
<1>11. CASE ~ (cbCount = 1 /\ cbDone # Nil)
  <2>1. UNCHANGED <<closer, cbDone>>
    BY <1>11 DEF CallbackReturns
  <2>2. CloserInv'
    BY <1>1, <1>2, <2>1, PartsKept
  <2> QED
    BY <1>4, <1>9, <2>2 DEF TeardownKept
<1> QED
  BY <1>10, <1>11

\* The steps of a caller of Server.Close but the one that closes a session.
LEMMA ServerTeardown ==
    ASSUME TeardownInv, NEW c \in Closer,
           \/ ServerCloseSnapshot(c)
           \/ ServerCloseReturned(c)
           \/ cbWait(c)
           \/ ServerClosePc(c)
    PROVE  TeardownKept
<1>1. TypeOK /\ TableInv /\ LiveInv /\ CallbackInv /\ CloserInv /\ Nil \notin Session
  BY SessionAssumption DEF TeardownInv, OwnershipInv
<1>2. UNCHANGED <<sessions, key, hs, window, established, published, stop,
                  callback, cbCount>>
  BY ZenonT(60) DEF ServerCloseSnapshot, ServerCloseReturned, cbWait, ServerClosePc,
       flagVars, tableVars, cbVars
<1>3. /\ closer \in [Closer -> {"idle", "closing", "waiting", "closePc", "done"}]
      /\ left \in [Closer -> SUBSET Session]
      /\ current \in [Closer -> Session \union {Nil}]
      /\ cbDone \in Closer \union {Nil}
      /\ sessions \in [Key -> Session \union {Nil}]
      /\ Nil \notin Closer
  BY <1>1, SessionAssumption, ZenonT(60) DEF TypeOK, CallbackTypes, ServerTypes, TableTypes
<1>4. TableInv' /\ CallbackInv'
  BY <1>1, <1>2, PartsKept
<1>5. CASE ServerCloseSnapshot(c)
  <2>1. /\ closer[c] = "idle" /\ closer' = [closer EXCEPT ![c] = "closing"]
        /\ left' = [left EXCEPT ![c] = {sessions[k] : k \in Key} \ {Nil}]
        /\ UNCHANGED <<cbDone, current>>
    BY <1>5, ZenonT(60) DEF ServerCloseSnapshot, cbVars
  <2>2. ASSUME NEW d \in Closer, NEW s \in left'[d] PROVE Started(s)
    <3>1. CASE d = c
      <4>1. s \in {sessions[k] : k \in Key} \ {Nil}
        BY <1>3, <2>1, <2>2, <3>1
      <4>2. PICK k \in Key : sessions[k] = s /\ s # Nil
        BY <4>1
      <4>3. s \in Session
        BY <1>3, <4>2
      <4> QED
        BY <1>1, <4>2, <4>3, ZenonT(60) DEF TableInv
    <3>2. CASE d # c
      BY <1>1, <1>3, <2>1, <2>2, <3>2, ZenonT(60) DEF LiveInv
    <3> QED
      BY <3>1, <3>2
  <2>3. LiveInv'
    BY <1>1, <1>2, <2>2, ZenonT(60) DEF LiveInv, Started
  <2>4. current[c] = Nil /\ cbDone # c
    BY <1>1, <1>3, <2>1 DEF CloserInv
  <2>5. \A d \in Closer : closer[d] \in {"closing", "waiting"} => closer'[d] = closer[d]
    BY <1>3, <2>1
  <2>6. /\ \A d \in Closer : current'[d] # Nil => closer'[d] = "closing"
        /\ \A d \in Closer : left'[d] # {} => closer'[d] = "closing"
        /\ cbDone' # Nil => closer'[cbDone'] = "waiting"
    BY <1>1, <1>3, <2>1, <2>4, <2>5 DEF CloserInv
  <2>7. CloserInv'
    BY <2>6, ZenonT(60) DEF CloserInv
  <2> QED
    BY <1>4, <2>3, <2>7 DEF TeardownKept
<1>6. CASE ServerCloseReturned(c)
  <2>1. /\ current[c] # Nil /\ stop[current[c]] = "finished"
        /\ current' = [current EXCEPT ![c] = Nil]
        /\ UNCHANGED <<cbDone, closer, left>>
    BY <1>6, ZenonT(60) DEF ServerCloseReturned, cbVars
  <2>2. LiveInv'
    BY <1>1, <1>2, <2>1, PartsKept
  <2>3. \A d \in Closer : current'[d] # Nil => current[d] # Nil
    BY <1>3, <2>1
  <2>4. CloserInv'
    BY <1>1, <2>1, <2>3, ZenonT(60) DEF CloserInv
  <2> QED
    BY <1>4, <2>2, <2>4 DEF TeardownKept
<1>7. ASSUME closer[c] \in {"closing", "closePc"}, current[c] = Nil, left[c] = {},
             \A d \in Closer : d # c => closer'[d] = closer[d],
             cbDone' = cbDone \/ (cbDone' = c /\ closer'[c] = "waiting"),
             left' = left, current' = current
      PROVE  TeardownKept
  <2>1. LiveInv'
    BY <1>1, <1>2, <1>7, PartsKept
  <2>2. cbDone # c
    BY <1>1, <1>3, <1>7 DEF CloserInv
  <2>3. \A d \in Closer : d # c => closer'[d] = closer[d]
    BY <1>7
  <2>4. /\ \A d \in Closer : current'[d] # Nil => closer'[d] = "closing"
        /\ \A d \in Closer : left'[d] # {} => closer'[d] = "closing"
        /\ cbDone' # Nil => closer'[cbDone'] = "waiting"
    BY <1>1, <1>3, <1>7, <2>2, <2>3 DEF CloserInv
  <2>5. CloserInv'
    BY <2>4, ZenonT(60) DEF CloserInv
  <2> QED
    BY <1>4, <2>1, <2>5 DEF TeardownKept
<1>8. CASE cbWait(c)
  <2>1. /\ closer[c] = "closing" /\ current[c] = Nil /\ left[c] = {}
        /\ left' = left /\ current' = current
    BY <1>8 DEF cbWait
  <2>2. CASE cbCount = 0
    <3>1. /\ \A d \in Closer : d # c => closer'[d] = closer[d]
          /\ cbDone' = cbDone
      BY <1>3, <1>8, <2>2 DEF cbWait
    <3> QED
      BY <1>7, <2>1, <3>1
  <2>3. CASE cbCount # 0
    <3>1. /\ \A d \in Closer : d # c => closer'[d] = closer[d]
          /\ closer'[c] = "waiting" /\ cbDone' = c
      BY <1>3, <1>8, <2>3 DEF cbWait
    <3> QED
      BY <1>7, <2>1, <3>1
  <2> QED
    BY <2>2, <2>3
<1>9. CASE ServerClosePc(c)
  <2>1. current[c] = Nil /\ left[c] = {}
    BY <1>1, <1>9 DEF CloserInv, ServerClosePc
  <2>2. /\ closer[c] = "closePc"
        /\ \A d \in Closer : d # c => closer'[d] = closer[d]
        /\ cbDone' = cbDone /\ left' = left /\ current' = current
    BY <1>3, <1>9 DEF ServerClosePc, cbVars
  <2> QED
    BY <1>7, <2>1, <2>2
<1> QED
  BY <1>5, <1>6, <1>8, <1>9

\* Server.Close enters closeWithReason of the next session of its snapshot.
LEMMA ServerCloseTeardown ==
    ASSUME TeardownInv, NEW c \in Closer, ServerCloseSession(c)
    PROVE  TeardownKept
<1>1. TypeOK /\ TableInv /\ LiveInv /\ CallbackInv /\ CloserInv /\ Nil \notin Session
  BY SessionAssumption DEF TeardownInv, OwnershipInv
<1>2. /\ closer[c] = "closing" /\ current[c] = Nil
      /\ UNCHANGED <<sessions, key, hs, window, established, published>>
      /\ UNCHANGED <<callback, cbCount, cbDone, closer>>
  BY ZenonT(60) DEF ServerCloseSession, flagVars, tableVars, cbVars
<1>3. PICK s \in left[c] :
         /\ closeWithReason(s)
         /\ current' = [current EXCEPT ![c] = s]
         /\ left' = [left EXCEPT ![c] = left[c] \ {s}]
  BY ZenonT(60) DEF ServerCloseSession
<1>4. /\ stop \in [Session -> StopStates]
      /\ left \in [Closer -> SUBSET Session]
      /\ current \in [Closer -> Session \union {Nil}]
  BY <1>1, ZenonT(60) DEF TypeOK, StopTypes, ServerTypes
<1>5. s \in Session /\ Started(s)
  BY <1>1, <1>3, <1>4, ZenonT(60) DEF LiveInv
<1>6. \A t \in Session : stop'[t] # stop[t] =>
          t = s /\ stop[t] = "open" /\ stop'[t] = "stopped"
  <2>1. CASE stop[s] = "open"
    <3>1. stop' = [stop EXCEPT ![s] = "stopped"]
      BY <1>3, <2>1 DEF closeWithReason
    <3> QED
      BY <1>4, <1>5, <2>1, <3>1
  <2>2. CASE stop[s] # "open"
    BY <1>3, <2>2 DEF closeWithReason
  <2> QED
    BY <2>1, <2>2
<1>7. \A t \in Session : (Removed(t)' <=> Removed(t)) /\ (Started(t)' <=> Started(t))
  BY <1>2, <1>6, ZenonT(60) DEF Removed, Started
<1>8. SessionReachable'
  BY <1>1, <1>2, <1>7, ZenonT(60) DEF TableInv, SessionReachable, Started, Removed
<1>9. TableInv'
  BY <1>1, <1>2, <1>7, <1>8, ZenonT(60) DEF TableInv
<1>10. \A d \in Closer : left'[d] \subseteq left[d] /\ left[d] \subseteq Session
  BY <1>3, <1>4
<1>11. \A t \in Session : stop'[t] # "open" => stop[t] # "open" \/ Started(t)
  BY <1>5, <1>6, ZenonT(60)
<1>12. LiveInv'
  BY <1>1, <1>2, <1>7, <1>10, <1>11, ZenonT(60) DEF LiveInv
<1>13. \A t \in Session : stop[t] = "finished" => stop'[t] = "finished"
  BY <1>6, ZenonT(60)
<1>14. CallbackInv'
  <2>1. Running' = Running
    BY <1>2 DEF Running
  <2>2. IsFiniteSet(Running') /\ cbCount' = Cardinality(Running')
    BY <1>1, <1>2, <2>1 DEF CallbackInv
  <2> QED
    BY <1>1, <1>2, <1>13, <2>2, ZenonT(60) DEF CallbackInv
<1>15. current'[c] = s /\ \A d \in Closer : d # c => current'[d] = current[d]
  BY <1>3, <1>4
<1>16. \A d \in Closer : left'[d] # {} => left[d] # {}
  BY <1>10
<1>17. /\ \A d \in Closer : current'[d] # Nil => closer'[d] = "closing"
       /\ \A d \in Closer : left'[d] # {} => closer'[d] = "closing"
       /\ cbDone' # Nil => closer'[cbDone'] = "waiting"
  BY <1>1, <1>2, <1>15, <1>16 DEF CloserInv
<1>18. CloserInv'
  BY <1>17, ZenonT(60) DEF CloserInv
<1> QED
  BY <1>9, <1>12, <1>14, <1>18 DEF TeardownKept

\* Every step keeps the teardown invariant.
LEMMA TeardownStep ==
    ASSUME TeardownInv, OwnershipInv', [Next]_vars
    PROVE  TeardownInv'
<1>1. TypeOK /\ OwnershipInv /\ TableInv /\ LiveInv /\ CallbackInv /\ CloserInv
  BY DEF TeardownInv, OwnershipInv
<1>2. ASSUME Onward PROVE TeardownKept
  BY <1>1, <1>2, OnwardTable, OnwardLive, OnwardCallback, OnwardCloser, ZenonT(60)
     DEF TeardownKept
<1>3. TeardownKept
  BY <1>1, <1>2, OnwardActions, DispatchTeardown, InsertTeardown, RemoveTeardown,
     NotifyTeardown, ReturnTeardown, ServerTeardown, ServerCloseTeardown, ZenonT(60)
<1> QED
  BY <1>3 DEF TeardownInv, TeardownKept

\* The invariant holds when the server starts.
LEMMA TeardownInit ==
    ASSUME Init, OwnershipInv
    PROVE  TeardownInv
<1>1. TableInv
  BY SessionAssumption, ZenonT(60) DEF Init, TableInv, SessionReachable, Started
<1>2. LiveInv
  BY ZenonT(60) DEF Init, LiveInv
<1>3. Running = {}
  BY DEF Init, Running
<1>4. CallbackInv
  <2>1. IsFiniteSet(Running) /\ cbCount = Cardinality(Running)
    BY <1>3, FS_EmptySet DEF Init
  <2> QED
    BY <2>1, ZenonT(60) DEF Init, CallbackInv
<1>5. CloserInv
  BY ZenonT(60) DEF Init, CloserInv
<1> QED
  BY <1>1, <1>2, <1>4, <1>5 DEF TeardownInv

\* The teardown invariant holds of every server, whatever the number of sessions,
\* keys and callers of Server.Close.
THEOREM TeardownCorrect == Spec => []TeardownInv
<1>1. Init => TeardownInv
  BY TypeInit, InitOwnership, TeardownInit
<1>2. TeardownInv /\ [Next]_vars => TeardownInv'
  BY OwnershipStep, TeardownStep DEF TeardownInv
<1> QED
  BY <1>1, <1>2, PTL DEF Spec

\* A session whose goroutines run is in Server.sessions under its own key until its
\* teardown removes it.
THEOREM SessionsReachable == Spec => []SessionReachable
<1>1. TeardownInv => SessionReachable
  BY DEF TeardownInv, TableInv
<1> QED
  BY <1>1, TeardownCorrect, PTL

\* OnSessionClosed only runs for a session that was handed out and of which nothing
\* is left: no table entry, no route, no address.
THEOREM CallbacksAfterTeardown == Spec => []CallbackAfterTeardown
<1>1. TeardownInv => CallbackAfterTeardown
  <2> SUFFICES ASSUME TeardownInv, NEW s \in Session, callback[s] # "none"
               PROVE  /\ published[s] /\ stop[s] = "finished" /\ lease[s] = Nil
                      /\ \A k \in Key : sessions[k] # s
                      /\ \A p \in PeerIDs : dataSessions[p] # s
    BY DEF CallbackAfterTeardown
  <2>1. published[s] /\ stop[s] = "finished" /\ hs[s] \in {"handing", "handed"}
    BY ZenonT(60) DEF TeardownInv, CallbackInv
  <2>2. held[s] = Nil
    BY <2>1 DEF TeardownInv, OwnershipInv, PairPlaces
  <2>3. lease[s] = Nil
    BY <2>1, <2>2 DEF lease, Released
  <2>4. \A k \in Key : sessions[k] # s
    BY <2>1, ZenonT(60) DEF TeardownInv, TableInv, Removed
  <2>5. \A p \in PeerIDs : dataSessions[p] # s
    BY <2>1, ZenonT(60) DEF TeardownInv, OwnershipInv, RoutingExact, Detached, Released
  <2> QED
    BY <2>1, <2>3, <2>4, <2>5
<1> QED
  BY <1>1, TeardownCorrect, PTL

-----------------------------------------------------------------------------
(* Server.Close waits for the callbacks of the sessions in its snapshot.   *)

\* Where the call c of Server.Close stands with session s, once s was in its snapshot:
\* s is still to be closed, is being closed, or is torn down, and past cbWait its
\* callback is not running.
Waited(c, s) ==
    \/ /\ closer[c] = "closing"
       /\ s \in left[c] \/ current[c] = s \/ stop[s] = "finished"
    \/ closer[c] = "waiting" /\ stop[s] = "finished"
    \/ /\ closer[c] \in {"closePc", "done"}
       /\ stop[s] = "finished" /\ callback[s] # "running"

\* A teardown that has ended stays so, and starts no callback any more.
LEMMA FinishedStays ==
    ASSUME TeardownInv, [Next]_vars, NEW t \in Session, stop[t] = "finished"
    PROVE  stop'[t] = "finished" /\ (callback'[t] = "running" => callback[t] = "running")
<1>1. /\ OwnershipInv /\ LiveInv
      /\ stop \in [Session -> StopStates]
      /\ callback \in [Session -> {"none", "running", "returned"}]
      /\ left \in [Closer -> SUBSET Session]
  BY ZenonT(60) DEF TeardownInv, OwnershipInv, TypeOK, StopTypes, CallbackTypes, ServerTypes
<1>2. CASE Onward
  BY <1>2, ZenonT(60) DEF Onward, StopOnward, Removed, cbVars
<1>3. ASSUME NEW s \in Session,
             (\E k \in Key : Dispatch(s, k)) \/ InsertSession(s)
      PROVE  UNCHANGED <<stop, callback>>
  BY <1>3, ZenonT(60) DEF Dispatch, InsertSession, cbVars
<1>4. ASSUME NEW s \in Session, CloseRemove(s)
      PROVE  stop'[t] = "finished" /\ callback' = callback
  <2>1. stop[s] = "released" /\ stop' = [stop EXCEPT ![s] = "removed"] /\ callback' = callback
    BY <1>4, ZenonT(60) DEF CloseRemove, StopStep, cbVars
  <2> QED
    BY <1>1, <2>1
<1>5. ASSUME NEW s \in Session, CloseNotify(s)
      PROVE  stop'[t] = "finished" /\ callback'[t] = callback[t]
  <2>1. /\ stop[s] = "removed" /\ stop' = [stop EXCEPT ![s] = "finished"]
        /\ callback' = callback \/ callback' = [callback EXCEPT ![s] = "running"]
    BY <1>5, ZenonT(60) DEF CloseNotify, StopStep
  <2> QED
    BY <1>1, <2>1
<1>6. ASSUME NEW s \in Session, CallbackReturns(s)
      PROVE  stop' = stop /\ (callback'[t] = "running" => callback[t] = "running")
  <2>1. stop' = stop /\ callback' = [callback EXCEPT ![s] = "returned"]
    BY <1>6 DEF CallbackReturns
  <2> QED
    BY <1>1, <2>1
<1>7. ASSUME NEW c \in Closer,
             \/ ServerCloseSnapshot(c)
             \/ ServerCloseReturned(c)
             \/ cbWait(c)
             \/ ServerClosePc(c)
      PROVE  UNCHANGED <<stop, callback>>
  BY <1>7, ZenonT(60) DEF ServerCloseSnapshot, ServerCloseReturned, cbWait, ServerClosePc, cbVars
<1>8. ASSUME NEW c \in Closer, ServerCloseSession(c)
      PROVE  stop'[t] = "finished" /\ callback' = callback
  <2>1. PICK s \in left[c] : closeWithReason(s)
    BY <1>8, ZenonT(60) DEF ServerCloseSession
  <2>2. stop'[t] = "finished"
    BY <1>1, <2>1 DEF closeWithReason
  <2> QED
    BY <1>8, <2>2 DEF ServerCloseSession, cbVars
<1> QED
  BY <1>1, <1>2, <1>3, <1>4, <1>5, <1>6, <1>7, <1>8, OnwardActions, ZenonT(60)

\* No step makes a caller of Server.Close forget a session of its snapshot.
LEMMA WaitedStep ==
    ASSUME TeardownInv, [Next]_vars, NEW c \in Closer, NEW s \in Session, Waited(c, s)
    PROVE  Waited(c, s)'
<1>1. /\ OwnershipInv /\ LiveInv /\ CloserInv /\ Nil \notin Session
      /\ closer \in [Closer -> {"idle", "closing", "waiting", "closePc", "done"}]
      /\ left \in [Closer -> SUBSET Session]
      /\ current \in [Closer -> Session \union {Nil}]
      /\ cbDone \in Closer \union {Nil}
  BY SessionAssumption, ZenonT(60)
     DEF TeardownInv, OwnershipInv, TypeOK, CallbackTypes, ServerTypes
<1>2. /\ IsFiniteSet(Running) /\ cbCount = Cardinality(Running)
      /\ callback \in [Session -> {"none", "running", "returned"}]
  BY ZenonT(60) DEF TeardownInv, CallbackInv, OwnershipInv, TypeOK, CallbackTypes
<1>3. stop[s] = "finished" =>
          stop'[s] = "finished" /\ (callback'[s] = "running" => callback[s] = "running")
  BY FinishedStays
<1>4. ASSUME closer'[c] = closer[c], left'[c] = left[c], current'[c] = current[c]
      PROVE  Waited(c, s)'
  BY <1>3, <1>4 DEF Waited
<1>5. ASSUME \/ Onward
             \/ \E t \in Session :
                   \/ \E k \in Key : Dispatch(t, k)
                   \/ InsertSession(t)
                   \/ CloseRemove(t)
                   \/ CloseNotify(t)
      PROVE  Waited(c, s)'
  <2>1. closer' = closer /\ left' = left /\ current' = current
    BY <1>5, ZenonT(60)
    DEF Onward, Dispatch, InsertSession, CloseRemove, CloseNotify, serverVars
  <2> QED
    BY <1>4, <2>1
<1>6. ASSUME NEW t \in Session, CallbackReturns(t) PROVE Waited(c, s)'
  <2>1. UNCHANGED <<left, current>>
    BY <1>6 DEF CallbackReturns
  <2>2. CASE cbCount = 1 /\ cbDone = c
    <3>1. closer[c] = "waiting" /\ closer'[c] = "closePc"
      BY <1>1, <1>6, <2>2, SessionAssumption DEF CallbackReturns, CloserInv
    <3>2. Running = {t}
      <4>1. t \in Running
        BY <1>6 DEF Running, CallbackReturns
      <4>2. PICK u : Running = {u}
        BY <1>2, <2>2, FS_Singleton
      <4> QED
        BY <4>1, <4>2
    <3>3. callback'[s] # "running"
      BY <1>2, <1>6, <3>2 DEF Running, CallbackReturns
    <3> QED
      BY <1>3, <3>1, <3>3 DEF Waited
  <2>3. CASE ~ (cbCount = 1 /\ cbDone = c)
    <3>1. closer'[c] = closer[c]
      BY <1>1, <1>6, <2>3 DEF CallbackReturns
    <3> QED
      BY <1>4, <2>1, <3>1
  <2> QED
    BY <2>2, <2>3
<1>7. ASSUME NEW d \in Closer, d # c,
             \/ ServerCloseSnapshot(d)
             \/ ServerCloseSession(d)
             \/ ServerCloseReturned(d)
             \/ cbWait(d)
             \/ ServerClosePc(d)
      PROVE  Waited(c, s)'
  <2>1. closer'[c] = closer[c]
    BY <1>1, <1>7
    DEF ServerCloseSnapshot, ServerCloseSession, ServerCloseReturned, cbWait, ServerClosePc
  <2>2. left'[c] = left[c] /\ current'[c] = current[c]
    BY <1>1, <1>7
    DEF ServerCloseSnapshot, ServerCloseSession, ServerCloseReturned, cbWait, ServerClosePc
  <2> QED
    BY <1>4, <2>1, <2>2
<1>8. CASE ServerCloseSnapshot(c)
  BY <1>8 DEF ServerCloseSnapshot, Waited
<1>9. CASE ServerCloseSession(c)
  <2>1. closer[c] = "closing" /\ closer' = closer /\ current[c] = Nil
    BY <1>9 DEF ServerCloseSession
  <2>2. PICK t \in left[c] : /\ current' = [current EXCEPT ![c] = t]
                             /\ left' = [left EXCEPT ![c] = left[c] \ {t}]
    BY <1>9 DEF ServerCloseSession
  <2>3. s \in left[c] => s \in left'[c] \/ current'[c] = s
    BY <1>1, <2>2
  <2> QED
    BY <1>1, <1>3, <2>1, <2>3 DEF Waited
<1>10. CASE ServerCloseReturned(c)
  <2>1. /\ stop[current[c]] = "finished" /\ UNCHANGED <<closer, left>>
        /\ current[c] # Nil
    BY <1>10 DEF ServerCloseReturned
  <2>2. closer[c] = "closing"
    BY <1>1, <2>1 DEF CloserInv
  <2> QED
    BY <1>3, <2>1, <2>2 DEF Waited
<1>11. CASE cbWait(c)
  <2>1. closer[c] = "closing" /\ current[c] = Nil /\ left[c] = {}
    BY <1>11 DEF cbWait
  <2>2. stop'[s] = "finished" /\ (callback'[s] = "running" => callback[s] = "running")
    BY <1>1, <1>3, <2>1 DEF Waited
  <2>3. CASE cbCount = 0
    <3>1. callback[s] # "running"
      BY <1>2, <2>3, FS_EmptySet DEF Running
    <3>2. closer'[c] = "closePc"
      BY <1>1, <1>11, <2>3 DEF cbWait
    <3> QED
      BY <2>2, <3>1, <3>2 DEF Waited
  <2>4. CASE cbCount # 0
    <3>1. closer'[c] = "waiting"
      BY <1>1, <1>11, <2>4 DEF cbWait
    <3> QED
      BY <2>2, <3>1 DEF Waited
  <2> QED
    BY <2>3, <2>4
<1>12. CASE ServerClosePc(c)
  <2>1. closer[c] = "closePc" /\ closer'[c] = "done"
    BY <1>1, <1>12 DEF ServerClosePc
  <2> QED
    BY <1>3, <2>1 DEF Waited
<1> QED
  BY <1>1, <1>5, <1>6, <1>7, <1>8, <1>9, <1>10, <1>11, <1>12, OnwardActions, ZenonT(60)

\* A call of Server.Close gets past cbWait only when every session of its snapshot is
\* torn down and its callback has returned, whoever ran the teardown, and for any
\* number of concurrent callers.
THEOREM CloseWaits == Spec => CloseWaitsForCallbacks
<1> SUFFICES ASSUME NEW c \in Closer, NEW s \in Session
             PROVE  Spec => [](s \in left[c] => [](closer[c] \in {"closePc", "done"} =>
                                  stop[s] = "finished" /\ callback[s] # "running"))
  BY DEF CloseWaitsForCallbacks
<1>1. TeardownInv /\ s \in left[c] => Waited(c, s)
  BY DEF TeardownInv, CloserInv, Waited
<1>2. TeardownInv /\ [Next]_vars /\ Waited(c, s) => Waited(c, s)'
  BY WaitedStep
<1>3. Waited(c, s) => (closer[c] \in {"closePc", "done"} =>
                          stop[s] = "finished" /\ callback[s] # "running")
  BY DEF Waited
<1> QED
  BY <1>1, <1>2, <1>3, TeardownCorrect, PTL DEF Spec
=============================================================================
