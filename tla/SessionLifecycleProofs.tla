----------------------- MODULE SessionLifecycleProofs -----------------------
(***************************************************************************)
(* Proofs about SessionLifecycle, for every set of sessions, keys and      *)
(* callers of Server.Close, every pool size and every behaviour of the     *)
(* environment.                                                            *)
(***************************************************************************)
EXTENDS SessionLifecycle, WellFoundedInduction, TLAPS

-----------------------------------------------------------------------------
(* Type correctness.  A group of variables that a step leaves alone keeps  *)
(* its types; the helpers keep the types of what they change.              *)

\* What each group of variables needs to keep its type is that it does not
\* change.
LEMMA GroupsUnchanged ==
    /\ PoolTypes /\ UNCHANGED poolVars => PoolTypes'
    /\ TableTypes /\ UNCHANGED tableVars => TableTypes'
    /\ AssignTypes /\ UNCHANGED assignVars => AssignTypes'
    /\ FlagTypes /\ UNCHANGED flagVars => FlagTypes'
    /\ StopTypes /\ UNCHANGED stop => StopTypes'
    /\ CallbackTypes /\ UNCHANGED cbVars => CallbackTypes'
    /\ ServerTypes /\ UNCHANGED serverVars => ServerTypes'
BY DEF PoolTypes, TableTypes, AssignTypes, FlagTypes, StopTypes, CallbackTypes,
       ServerTypes, poolVars, tableVars, assignVars, flagVars, cbVars,
       serverVars

\* closeWithReason keeps the type of stop.
LEMMA CloseTypes ==
    ASSUME StopTypes, NEW s \in Session, closeWithReason(s)
    PROVE  StopTypes'
BY DEF StopTypes, closeWithReason, StopStates

\* An outcome is recorded in its type.
LEMMA OutcomeTypes ==
    ASSUME FlagTypes, NEW s \in Session, NEW o \in Outcomes,
           recordHandshakeOutcome(s, o)
    PROVE  outcome' \in [Session -> Outcomes \union {"none"}]
BY DEF FlagTypes, recordHandshakeOutcome

\* Goto keeps the type of hs.
LEMMA GotoTypes ==
    ASSUME hs \in [Session -> HsStates], NEW s \in Session, NEW pc \in HsStates,
           Goto(s, pc)
    PROVE  hs' \in [Session -> HsStates]
BY DEF Goto

\* The error return of runHandshake keeps the types.
LEMMA FailTypes ==
    ASSUME TypeOK, NEW s \in Session, fail(s), UNCHANGED <<established, published>>
    PROVE  hs' \in [Session -> HsStates] /\ FlagTypes' /\ StopTypes'
<1>1. hs' \in [Session -> HsStates]
  BY GotoTypes DEF fail, TypeOK, HsStates
<1>2. StopTypes'
  BY CloseTypes DEF fail, TypeOK
<1>3. outcome' \in [Session -> Outcomes \union {"none"}]
  BY OutcomeTypes DEF fail, TypeOK, Outcomes
<1>4. FlagTypes'
  BY <1>3, ZenonT(60) DEF fail, TypeOK, FlagTypes
<1> QED  BY <1>1, <1>2, <1>4

\* So does a step that goes on to another position.
LEMMA ProceedTypes ==
    ASSUME TypeOK, NEW s \in Session, NEW pc \in HsStates, proceed(s, pc),
           UNCHANGED <<established, published>>
    PROVE  hs' \in [Session -> HsStates] /\ FlagTypes' /\ StopTypes'
<1>1. hs' \in [Session -> HsStates]
  BY GotoTypes DEF proceed, TypeOK
<1>2. UNCHANGED stop /\ UNCHANGED flagVars
  BY DEF proceed, flagVars
<1> QED  BY <1>1, <1>2, GroupsUnchanged DEF TypeOK

\* Taking a pair from the pool for s keeps the types of the pool and of held.
LEMMA TakeTypes ==
    ASSUME TypeOK, NEW s \in Session, NEW l \in Lease, take(l),
           held' = [held EXCEPT ![s] = l]
    PROVE  PoolTypes' /\ held' \in [Session -> Lease \union {Nil}]
BY ZenonT(60) DEF TypeOK, PoolTypes, AssignTypes, take, Lease

\* A step of the server, of a client or of the embedder keeps every type.
LEMMA TypeStep ==
    ASSUME TypeOK, [Next]_vars
    PROVE  TypeOK'
<1>1. ASSUME NEW s \in Session, Negotiate(s) PROVE TypeOK'
  <2>1. hs' \in [Session -> HsStates] /\ FlagTypes' /\ StopTypes'
    BY <1>1, FailTypes, ProceedTypes, GotoTypes, OutcomeTypes, GroupsUnchanged
       DEF Negotiate, TypeOK, FlagTypes, HsStates, Outcomes
  <2> QED
    BY <1>1, <2>1, GroupsUnchanged, ZenonT(60) DEF Negotiate, TypeOK
<1>2. ASSUME NEW s \in Session, PushReply(s) PROVE TypeOK'
  <2>1. hs' \in [Session -> HsStates] /\ FlagTypes' /\ StopTypes'
    BY <1>2, FailTypes, GotoTypes, GroupsUnchanged, ZenonT(60)
       DEF PushReply, TypeOK, FlagTypes, HsStates
  <2> QED
    BY <1>2, <2>1, GroupsUnchanged DEF PushReply, TypeOK
<1>3. ASSUME NEW s \in Session, InsertSession(s) PROVE TypeOK'
  <2>1. hs' \in [Session -> HsStates]
    BY <1>3, GotoTypes DEF InsertSession, TypeOK, HsStates
  <2>2. TableTypes'
    BY <1>3 DEF InsertSession, TypeOK, TableTypes
  <2>3. window' \in [Session -> {"none", "waiting", "expired", "done"}]
    BY <1>3 DEF InsertSession, TypeOK
  <2> QED
    BY <1>3, <2>1, <2>2, <2>3, GroupsUnchanged DEF InsertSession, TypeOK
<1>4. ASSUME NEW s \in Session, Reject(s) PROVE TypeOK'
  <2>1. hs' \in [Session -> HsStates]
    BY <1>4, GotoTypes DEF Reject, TypeOK, HsStates
  <2>2. StopTypes'
    BY <1>4, CloseTypes DEF Reject, TypeOK, LiveReasons
  <2>3. FlagTypes'
    BY <1>4 DEF Reject, TypeOK, FlagTypes
  <2> QED
    BY <1>4, <2>1, <2>2, <2>3, GroupsUnchanged DEF Reject, TypeOK
<1>5. ASSUME NEW s \in Session, AllocateFromPool(s) PROVE TypeOK'
  <2>1. hs' \in [Session -> HsStates] /\ FlagTypes' /\ StopTypes'
    BY <1>5, FailTypes, ProceedTypes, ZenonT(60) DEF AllocateFromPool, NotReserved, HsStates
  <2>2. PoolTypes' /\ held' \in [Session -> Lease \union {Nil}]
    BY <1>5, TakeTypes, GroupsUnchanged, ZenonT(60)
       DEF AllocateFromPool, NotReserved, allocate, TypeOK, AssignTypes
  <2>3. AssignTypes'
    BY <1>5, <2>2, ZenonT(60) DEF AllocateFromPool, TypeOK, AssignTypes
  <2> QED
    BY <1>5, <2>1, <2>2, <2>3, GroupsUnchanged DEF AllocateFromPool, TypeOK
<1>6. ASSUME NEW s \in Session, AssignRefused(s) PROVE TypeOK'
  <2>1. hs' \in [Session -> HsStates] /\ FlagTypes' /\ StopTypes'
    BY <1>6, FailTypes DEF AssignRefused, NotReserved
  <2>2. UNCHANGED assignVars /\ UNCHANGED poolVars
    BY <1>6, ZenonT(60) DEF AssignRefused, NotReserved, assignVars
  <2> QED
    BY <1>6, <2>1, <2>2, GroupsUnchanged, ZenonT(60) DEF AssignRefused, TypeOK
<1>7. ASSUME NEW s \in Session, AssignReserve(s) PROVE TypeOK'
  <2>1. hs' \in [Session -> HsStates] /\ FlagTypes' /\ StopTypes'
    BY <1>7, FailTypes, ProceedTypes, ZenonT(60)
       DEF AssignReserve, NotReserved, Reserved, HsStates
  <2>2. PoolTypes' /\ held' \in [Session -> Lease \union {Nil}]
    BY <1>7, TakeTypes, GroupsUnchanged, ZenonT(60)
       DEF AssignReserve, NotReserved, Reserved, reserve, TypeOK, AssignTypes
  <2>3. want' \in [Session -> Int]
    BY <1>7, SessionAssumption, ZenonT(60) DEF AssignReserve, TypeOK, AssignTypes
  <2>4. AssignTypes'
    BY <1>7, <2>2, <2>3 DEF AssignReserve, TypeOK, AssignTypes
  <2> QED
    BY <1>7, <2>1, <2>2, <2>3, <2>4, GroupsUnchanged DEF AssignReserve, TypeOK
<1>8. ASSUME NEW s \in Session, LookupSnapshot(s) PROVE TypeOK'
  <2>1. hs' \in [Session -> HsStates]
    BY <1>8, GotoTypes DEF LookupSnapshot, TypeOK, HsStates
  <2>2. AssignTypes'
    BY <1>8, SMTT(30) DEF LookupSnapshot, TypeOK, AssignTypes, TableTypes
  <2> QED
    BY <1>8, <2>1, <2>2, GroupsUnchanged DEF LookupSnapshot, TypeOK
<1>9. ASSUME NEW s \in Session, LookupNext(s) PROVE TypeOK'
  <2>1. scan' \in [Session -> SUBSET Session]
    BY <1>9, SMTT(30) DEF LookupNext, TypeOK, AssignTypes
  <2>2. hs' \in [Session -> HsStates]
    BY <1>9, GotoTypes, ZenonT(60) DEF LookupNext, TypeOK, HsStates
  <2>3. StopTypes'
    BY <1>9, CloseTypes, GroupsUnchanged
       DEF LookupNext, TypeOK, AssignTypes
  <2>4. AssignTypes'
    BY <1>9, <2>1 DEF LookupNext, TypeOK, AssignTypes
  <2> QED
    BY <1>9, <2>1, <2>2, <2>3, <2>4, GroupsUnchanged DEF LookupNext, TypeOK
<1>10. ASSUME NEW s \in Session, Evicted(s) PROVE TypeOK'
  <2>1. hs' \in [Session -> HsStates]
    BY <1>10, GotoTypes DEF Evicted, TypeOK, HsStates
  <2> QED
    BY <1>10, <2>1, GroupsUnchanged, ZenonT(60) DEF Evicted, TypeOK
<1>11. ASSUME NEW s \in Session, RetryReserve(s) PROVE TypeOK'
  <2>1. hs' \in [Session -> HsStates] /\ FlagTypes' /\ StopTypes'
    BY <1>11, FailTypes, ProceedTypes, ZenonT(60)
       DEF RetryReserve, NotReserved, Reserved, HsStates
  <2>2. PoolTypes' /\ held' \in [Session -> Lease \union {Nil}]
    BY <1>11, TakeTypes, GroupsUnchanged
       DEF RetryReserve, NotReserved, Reserved, reserve, TypeOK, AssignTypes
  <2>3. AssignTypes'
    BY <1>11, <2>2, ZenonT(60) DEF RetryReserve, TypeOK, AssignTypes
  <2> QED
    BY <1>11, <2>1, <2>2, <2>3, GroupsUnchanged, ZenonT(60) DEF RetryReserve, TypeOK
<1>12. ASSUME NEW s \in Session, WrapperFailed(s) PROVE TypeOK'
  <2>1. hs' \in [Session -> HsStates] /\ FlagTypes' /\ StopTypes'
    BY <1>12, FailTypes, ZenonT(60) DEF WrapperFailed
  <2>2. PoolTypes' /\ AssignTypes'
    BY <1>12 DEF WrapperFailed, TypeOK, PoolTypes, AssignTypes, release
  <2> QED
    BY <1>12, <2>1, <2>2, GroupsUnchanged DEF WrapperFailed, TypeOK
<1>13. ASSUME NEW s \in Session, Publish(s) PROVE TypeOK'
  <2>1. hs' \in [Session -> HsStates] /\ FlagTypes' /\ StopTypes'
    BY <1>13, FailTypes, ProceedTypes, ZenonT(60) DEF Publish, HsStates
  <2>2. PoolTypes'
    BY <1>13, GroupsUnchanged DEF Publish, TypeOK, PoolTypes, release
  <2>3. AssignTypes'
    BY <1>13 DEF Publish, TypeOK, AssignTypes
  <2>4. TableTypes'
    BY <1>13 DEF Publish, TypeOK, TableTypes
  <2> QED
    BY <1>13, <2>1, <2>2, <2>3, <2>4, GroupsUnchanged, ZenonT(60) DEF Publish, TypeOK
<1>14. ASSUME NEW s \in Session, Establish(s) PROVE TypeOK'
  <2>1. hs' \in [Session -> HsStates]
    BY <1>14, GotoTypes DEF Establish, TypeOK, HsStates
  <2>2. outcome' \in [Session -> Outcomes \union {"none"}]
    BY <1>14, OutcomeTypes DEF Establish, TypeOK, Outcomes
  <2>3. FlagTypes'
    BY <1>14, <2>2, ZenonT(60) DEF Establish, TypeOK, FlagTypes
  <2> QED
    BY <1>14, <2>1, <2>2, <2>3, GroupsUnchanged, ZenonT(60) DEF Establish, TypeOK
<1>15. ASSUME NEW s \in Session, SetPublished(s) PROVE TypeOK'
  <2>1. FlagTypes'
    BY <1>15 DEF SetPublished, TypeOK, FlagTypes
  <2> QED
    BY <1>15, <2>1, GroupsUnchanged DEF SetPublished, TypeOK
<1>16. ASSUME NEW s \in Session, CallOnSession(s) PROVE TypeOK'
  <2>1. hs' \in [Session -> HsStates]
    BY <1>16, GotoTypes DEF CallOnSession, TypeOK, HsStates
  <2> QED
    BY <1>16, <2>1, GroupsUnchanged DEF CallOnSession, TypeOK
<1>17. ASSUME NEW s \in Session, WindowDone(s) PROVE TypeOK'
  BY <1>17, GroupsUnchanged DEF WindowDone, TypeOK
<1>18. ASSUME NEW s \in Session, WindowExpire(s) PROVE TypeOK'
  <2>1. FlagTypes'
    BY <1>18, OutcomeTypes DEF WindowExpire, TypeOK, FlagTypes, Outcomes
  <2> QED
    BY <1>18, <2>1, GroupsUnchanged, ZenonT(60) DEF WindowExpire, TypeOK
<1>19. ASSUME NEW s \in Session, WindowClose(s) PROVE TypeOK'
  <2>1. StopTypes'
    BY <1>19, CloseTypes, SMTT(30) DEF WindowClose, TypeOK
  <2> QED
    BY <1>19, <2>1, GroupsUnchanged DEF WindowClose, TypeOK
<1>20. ASSUME NEW s \in Session, CloseDetach(s) PROVE TypeOK'
  <2>1. StopTypes'
    BY <1>20, ZenonT(60) DEF CloseDetach, StopStep, TypeOK, StopTypes, StopStates
  <2>2. TableTypes'
    BY <1>20, ZenonT(60) DEF CloseDetach, TypeOK, TableTypes
  <2> QED
    BY <1>20, <2>1, <2>2, GroupsUnchanged, ZenonT(60) DEF CloseDetach, TypeOK
<1>21. ASSUME NEW s \in Session, CloseRelease(s) PROVE TypeOK'
  <2>1. StopTypes'
    BY <1>21, ZenonT(60) DEF CloseRelease, StopStep, TypeOK, StopTypes, StopStates
  <2>2. PoolTypes'
    BY <1>21, GroupsUnchanged, ZenonT(60) DEF CloseRelease, TypeOK, PoolTypes, release
  <2> QED
    BY <1>21, <2>1, <2>2, GroupsUnchanged DEF CloseRelease, TypeOK
<1>22. ASSUME NEW s \in Session, CloseRemove(s) PROVE TypeOK'
  <2>1. StopTypes'
    BY <1>22 DEF CloseRemove, StopStep, TypeOK, StopTypes, StopStates
  <2>2. TableTypes'
    BY <1>22, ZenonT(60) DEF CloseRemove, TypeOK, TableTypes
  <2> QED
    BY <1>22, <2>1, <2>2, GroupsUnchanged, ZenonT(60) DEF CloseRemove, TypeOK
<1>23. ASSUME NEW s \in Session, CloseNotify(s) PROVE TypeOK'
  <2>1. StopTypes'
    BY <1>23 DEF CloseNotify, StopStep, TypeOK, StopTypes, StopStates
  <2>2. CallbackTypes'
    BY <1>23, SMTT(30) DEF CloseNotify, TypeOK, CallbackTypes
  <2> QED
    BY <1>23, <2>1, <2>2, GroupsUnchanged, ZenonT(60) DEF CloseNotify, TypeOK
<1>24. ASSUME NEW s \in Session, CallbackReturns(s) PROVE TypeOK'
  <2>1. CallbackTypes'
    BY <1>24, SMTT(30) DEF CallbackReturns, TypeOK, CallbackTypes
  <2>2. ServerTypes'
    BY <1>24, ZenonT(60) DEF CallbackReturns, TypeOK, CallbackTypes, ServerTypes
  <2> QED
    BY <1>24, <2>1, <2>2, GroupsUnchanged, ZenonT(60) DEF CallbackReturns, TypeOK
<1>25. ASSUME NEW s \in Session, NEW k \in Key, Dispatch(s, k) PROVE TypeOK'
  <2>1. hs' \in [Session -> HsStates]
    BY <1>25, GotoTypes, ZenonT(60) DEF Dispatch, TypeOK, HsStates
  <2>2. TableTypes'
    BY <1>25, ZenonT(60) DEF Dispatch, TypeOK, TableTypes
  <2> QED
    BY <1>25, <2>1, <2>2, GroupsUnchanged, ZenonT(60) DEF Dispatch, TypeOK
<1>26. ASSUME NEW s \in Session, NEW r \in LiveReasons, CloseLive(s, r)
      PROVE  TypeOK'
  <2>1. StopTypes'
    BY <1>26, CloseTypes, SMTT(30) DEF CloseLive, TypeOK
  <2> QED
    BY <1>26, <2>1, GroupsUnchanged DEF CloseLive, TypeOK
<1>27. ASSUME NEW c \in Closer, ServerCloseSnapshot(c) PROVE TypeOK'
  <2>1. ServerTypes'
    BY <1>27, SMTT(30) DEF ServerCloseSnapshot, TypeOK, ServerTypes, TableTypes
  <2> QED
    BY <1>27, <2>1, GroupsUnchanged, ZenonT(60) DEF ServerCloseSnapshot, TypeOK
<1>28. ASSUME NEW c \in Closer, ServerCloseSession(c) PROVE TypeOK'
  <2>1. StopTypes'
    BY <1>28, CloseTypes DEF ServerCloseSession, TypeOK, ServerTypes
  <2>2. ServerTypes'
    BY <1>28, ZenonT(60) DEF ServerCloseSession, TypeOK, ServerTypes
  <2> QED
    BY <1>28, <2>1, <2>2, GroupsUnchanged, ZenonT(60) DEF ServerCloseSession, TypeOK
<1>29. ASSUME NEW c \in Closer, ServerCloseReturned(c) PROVE TypeOK'
  <2>1. ServerTypes'
    BY <1>29, ZenonT(60) DEF ServerCloseReturned, TypeOK, ServerTypes
  <2> QED
    BY <1>29, <2>1, GroupsUnchanged, ZenonT(60) DEF ServerCloseReturned, TypeOK
<1>30. ASSUME NEW c \in Closer, cbWait(c) PROVE TypeOK'
  <2>1. ServerTypes'
    BY <1>30, ZenonT(60) DEF cbWait, TypeOK, ServerTypes
  <2>2. CallbackTypes'
    BY <1>30, ZenonT(60) DEF cbWait, TypeOK, CallbackTypes
  <2> QED
    BY <1>30, <2>1, <2>2, GroupsUnchanged, ZenonT(60) DEF cbWait, TypeOK
<1>31. ASSUME NEW c \in Closer, ServerClosePc(c) PROVE TypeOK'
  <2>1. ServerTypes'
    BY <1>31 DEF ServerClosePc, TypeOK, ServerTypes
  <2> QED
    BY <1>31, <2>1, GroupsUnchanged DEF ServerClosePc, TypeOK
<1>32. CASE UNCHANGED vars
  BY <1>32, GroupsUnchanged DEF vars, TypeOK
<1> QED
  BY <1>1, <1>2, <1>3, <1>4, <1>5, <1>6, <1>7, <1>8, <1>9, <1>10, <1>11,
     <1>12, <1>13, <1>14, <1>15, <1>16, <1>17, <1>18, <1>19, <1>20, <1>21,
     <1>22, <1>23, <1>24, <1>25, <1>26, <1>27, <1>28, <1>29, <1>30, <1>31,
     <1>32, ZenonT(60)
  DEF Next, ClientStep, LocalStep, WindowStep, CloseStep, EnvStep, CloserStep,
      Quiescent, EmbedderClose, ClientExit, IdleReap, RenegotiationRejected,
      LiveReasons

\* The types hold before the first HARD_RESET.
LEMMA TypeInit ==
    ASSUME Init
    PROVE  TypeOK
<1>1. PoolTypes
  BY DEF Init, newIPPool, PoolTypes
<1>2. TableTypes /\ AssignTypes
  BY DEF Init, TableTypes, AssignTypes
<1>3. hs \in [Session -> HsStates]
  BY DEF Init, HsStates
<1>4. window \in [Session -> {"none", "waiting", "expired", "done"}]
  BY ZenonT(60) DEF Init
<1>5. FlagTypes
  BY DEF Init, FlagTypes
<1>6. StopTypes
  BY ZenonT(60) DEF Init, StopTypes, StopStates
<1>7. CallbackTypes
  BY DEF Init, CallbackTypes
<1>8. ServerTypes
  BY ZenonT(60) DEF Init, ServerTypes
<1> QED
  BY <1>1, <1>2, <1>3, <1>4, <1>5, <1>6, <1>7, <1>8, ZenonT(60) DEF TypeOK

\* Every variable keeps its type in every reachable state.
THEOREM TypeCorrect == Spec => []TypeOK
<1>1. Init => TypeOK
  BY TypeInit
<1>2. TypeOK /\ [Next]_vars => TypeOK'
  BY TypeStep, ZenonT(60)
<1> QED
  BY <1>1, <1>2, PTL DEF Spec

-----------------------------------------------------------------------------
(* Who owns which address.  Most steps move neither a pair nor a route;    *)
(* the few that do take a free pair, give a held one back, or hand one on  *)
(* inside the same session.                                                *)

\* Positions of the bring-up at which the session may have a published pair.
Late == {"reply", "recheck", "handing", "handed", "end"}

\* No bring-up takes hold of a pair, lets go of one or steps back.
HsQuiet ==
    \A t \in Session :
        /\ hs'[t] = "held" <=> hs[t] = "held"
        /\ hs[t] \in Late => hs'[t] \in Late

\* No teardown passes the delete of its route or the release of its pair.
StopQuiet ==
    \A t \in Session :
        /\ Released(t)' <=> Released(t)
        /\ Detached(t)' <=> Detached(t)

QuietStep ==
    /\ UNCHANGED <<poolVars, dataSessions, held, assigned>>
    /\ HsQuiet
    /\ StopQuiet

\* Entering closeWithReason only closes stopCh.
LEMMA CloseQuiet ==
    ASSUME TypeOK, NEW s \in Session, closeWithReason(s)
    PROVE  StopQuiet
BY DEF TypeOK, StopTypes, closeWithReason, StopQuiet, Released, Detached

LEMMA StopKept ==
    ASSUME UNCHANGED stop
    PROVE  StopQuiet
BY DEF StopQuiet, Released, Detached

LEMMA HsKept ==
    ASSUME UNCHANGED hs
    PROVE  HsQuiet
BY DEF HsQuiet

LEMMA GotoQuiet ==
    ASSUME TypeOK, NEW s \in Session, NEW pc, Goto(s, pc),
           hs[s] # "held", pc # "held", hs[s] \in Late => pc \in Late
    PROVE  HsQuiet
BY DEF TypeOK, Goto, HsQuiet

\* The steps that move no pair and no route are quiet.
LEMMA QuietActions ==
    ASSUME TypeOK, [Next]_vars
    PROVE  \/ QuietStep
           \/ \E s \in Session :
                 \/ AllocateFromPool(s)
                 \/ AssignReserve(s)
                 \/ RetryReserve(s)
                 \/ WrapperFailed(s)
                 \/ Publish(s)
                 \/ CloseDetach(s)
                 \/ CloseRelease(s)
<1>1. ASSUME NEW s \in Session, Negotiate(s) PROVE QuietStep
  <2>1. HsQuiet
    BY <1>1, GotoQuiet, ZenonT(60) DEF Negotiate, proceed, fail, Late
  <2>2. StopQuiet
    BY <1>1, CloseQuiet, StopKept, ZenonT(60) DEF Negotiate, proceed, fail
  <2> QED
    BY <1>1, <2>1, <2>2, ZenonT(60)
    DEF Negotiate, QuietStep, tableVars, assignVars
<1>2. ASSUME NEW s \in Session, PushReply(s) PROVE QuietStep
  <2>1. HsQuiet
    BY <1>2, GotoQuiet, ZenonT(60) DEF PushReply, fail, Late
  <2>2. StopQuiet
    BY <1>2, CloseQuiet, StopKept, ZenonT(60) DEF PushReply, fail
  <2> QED
    BY <1>2, <2>1, <2>2, ZenonT(60)
    DEF PushReply, QuietStep, tableVars, assignVars
<1>3. ASSUME NEW s \in Session, InsertSession(s) PROVE QuietStep
  <2>1. HsQuiet
    BY <1>3, GotoQuiet, ZenonT(60) DEF InsertSession, Late
  <2>2. StopQuiet
    BY <1>3, StopKept, ZenonT(60) DEF InsertSession
  <2> QED
    BY <1>3, <2>1, <2>2, ZenonT(60)
    DEF InsertSession, QuietStep, tableVars, assignVars
<1>4. ASSUME NEW s \in Session, Reject(s) PROVE QuietStep
  <2>1. HsQuiet
    BY <1>4, GotoQuiet DEF Reject, Late
  <2>2. StopQuiet
    BY <1>4, CloseQuiet, ZenonT(60) DEF Reject
  <2> QED
    BY <1>4, <2>1, <2>2
    DEF Reject, QuietStep, tableVars, assignVars
<1>5. ASSUME NEW s \in Session, AssignRefused(s) PROVE QuietStep
  <2>1. HsQuiet
    BY <1>5, GotoQuiet, ZenonT(60) DEF AssignRefused, NotReserved, fail, Late
  <2>2. StopQuiet
    BY <1>5, CloseQuiet, ZenonT(60) DEF AssignRefused, NotReserved, fail
  <2> QED
    BY <1>5, <2>1, <2>2, ZenonT(60)
    DEF AssignRefused, NotReserved, QuietStep, tableVars, assignVars
<1>6. ASSUME NEW s \in Session, LookupSnapshot(s) PROVE QuietStep
  <2>1. HsQuiet
    BY <1>6, GotoQuiet, ZenonT(60) DEF LookupSnapshot, Late
  <2>2. StopQuiet
    BY <1>6, StopKept, ZenonT(60) DEF LookupSnapshot
  <2> QED
    BY <1>6, <2>1, <2>2, ZenonT(60)
    DEF LookupSnapshot, QuietStep, tableVars, assignVars
<1>7. ASSUME NEW s \in Session, Evicted(s) PROVE QuietStep
  <2>1. HsQuiet
    BY <1>7, GotoQuiet, ZenonT(60) DEF Evicted, Late
  <2>2. StopQuiet
    BY <1>7, StopKept, ZenonT(60) DEF Evicted
  <2> QED
    BY <1>7, <2>1, <2>2, ZenonT(60)
    DEF Evicted, QuietStep, tableVars, assignVars
<1>8. ASSUME NEW s \in Session, Establish(s) PROVE QuietStep
  <2>1. HsQuiet
    BY <1>8, GotoQuiet, ZenonT(60) DEF Establish, Late
  <2>2. StopQuiet
    BY <1>8, StopKept, ZenonT(60) DEF Establish
  <2> QED
    BY <1>8, <2>1, <2>2, ZenonT(60)
    DEF Establish, QuietStep, tableVars, assignVars
<1>9. ASSUME NEW s \in Session, SetPublished(s) PROVE QuietStep
  <2>1. HsQuiet
    BY <1>9, HsKept, ZenonT(60) DEF SetPublished
  <2>2. StopQuiet
    BY <1>9, StopKept, ZenonT(60) DEF SetPublished
  <2> QED
    BY <1>9, <2>1, <2>2, ZenonT(60)
    DEF SetPublished, QuietStep, tableVars, assignVars
<1>10. ASSUME NEW s \in Session, CallOnSession(s) PROVE QuietStep
  <2>1. HsQuiet
    BY <1>10, GotoQuiet, ZenonT(60) DEF CallOnSession, Late
  <2>2. StopQuiet
    BY <1>10, StopKept, ZenonT(60) DEF CallOnSession
  <2> QED
    BY <1>10, <2>1, <2>2, ZenonT(60)
    DEF CallOnSession, QuietStep, tableVars, assignVars
<1>11. ASSUME NEW s \in Session, WindowDone(s) PROVE QuietStep
  <2>1. HsQuiet
    BY <1>11, HsKept DEF WindowDone
  <2>2. StopQuiet
    BY <1>11, StopKept, ZenonT(60) DEF WindowDone
  <2> QED
    BY <1>11, <2>1, <2>2
    DEF WindowDone, QuietStep, tableVars, assignVars
<1>12. ASSUME NEW s \in Session, WindowExpire(s) PROVE QuietStep
  <2>1. HsQuiet
    BY <1>12, HsKept DEF WindowExpire
  <2>2. StopQuiet
    BY <1>12, StopKept DEF WindowExpire
  <2> QED
    BY <1>12, <2>1, <2>2
    DEF WindowExpire, QuietStep, tableVars, assignVars
<1>13. ASSUME NEW s \in Session, WindowClose(s) PROVE QuietStep
  <2>1. HsQuiet
    BY <1>13, HsKept DEF WindowClose
  <2>2. StopQuiet
    BY <1>13, CloseQuiet, ZenonT(60) DEF WindowClose
  <2> QED
    BY <1>13, <2>1, <2>2
    DEF WindowClose, QuietStep, tableVars, assignVars
<1>14. ASSUME NEW s \in Session, CallbackReturns(s) PROVE QuietStep
  <2>1. HsQuiet
    BY <1>14, HsKept, ZenonT(60) DEF CallbackReturns
  <2>2. StopQuiet
    BY <1>14, StopKept, ZenonT(60) DEF CallbackReturns
  <2> QED
    BY <1>14, <2>1, <2>2, ZenonT(60)
    DEF CallbackReturns, QuietStep, tableVars, assignVars
<1>15. ASSUME NEW s \in Session, LookupNext(s) PROVE QuietStep
  <2>1. HsQuiet
    BY <1>15, GotoQuiet, HsKept, ZenonT(60) DEF LookupNext, Late
  <2>2. StopQuiet
    <3>1. \A t \in scan[s] : t \in Session
      BY ZenonT(60) DEF TypeOK, AssignTypes
    <3> QED
      BY <1>15, <3>1, CloseQuiet, StopKept, ZenonT(60) DEF LookupNext
  <2> QED
    BY <1>15, <2>1, <2>2, ZenonT(60) DEF LookupNext, QuietStep, tableVars
<1>16. ASSUME NEW s \in Session, CloseRemove(s) PROVE QuietStep
  <2>1. HsQuiet
    BY <1>16, HsKept, ZenonT(60) DEF CloseRemove
  <2>2. StopQuiet
    BY <1>16, ZenonT(60) DEF CloseRemove, StopStep, TypeOK, StopTypes, StopQuiet, Released, Detached
  <2> QED
    BY <1>16, <2>1, <2>2, ZenonT(60) DEF CloseRemove, QuietStep, tableVars, assignVars
<1>17. ASSUME NEW s \in Session, CloseNotify(s) PROVE QuietStep
  <2>1. HsQuiet
    BY <1>17, HsKept, ZenonT(60) DEF CloseNotify
  <2>2. StopQuiet
    BY <1>17, ZenonT(60) DEF CloseNotify, StopStep, TypeOK, StopTypes, StopQuiet, Released, Detached
  <2> QED
    BY <1>17, <2>1, <2>2 DEF CloseNotify, QuietStep, tableVars, assignVars
<1>18. ASSUME NEW s \in Session, NEW k \in Key, Dispatch(s, k) PROVE QuietStep
  <2>1. HsQuiet
    BY <1>18, GotoQuiet DEF Dispatch, Late
  <2>2. StopQuiet
    BY <1>18, StopKept, ZenonT(60) DEF Dispatch
  <2> QED
    BY <1>18, <2>1, <2>2, ZenonT(60) DEF Dispatch, QuietStep, assignVars
<1>19. ASSUME NEW s \in Session, NEW r \in LiveReasons, CloseLive(s, r)
      PROVE  QuietStep
  <2>1. HsQuiet
    BY <1>19, HsKept DEF CloseLive
  <2>2. StopQuiet
    BY <1>19, CloseQuiet, ZenonT(60) DEF CloseLive
  <2> QED
    BY <1>19, <2>1, <2>2 DEF CloseLive, QuietStep, tableVars, assignVars
<1>20. ASSUME NEW c \in Closer, ServerCloseSnapshot(c) PROVE QuietStep
  BY <1>20, HsKept, StopKept, ZenonT(60) DEF ServerCloseSnapshot, QuietStep, tableVars, assignVars
<1>21. ASSUME NEW c \in Closer, ServerCloseReturned(c) PROVE QuietStep
  BY <1>21, HsKept, StopKept, ZenonT(60) DEF ServerCloseReturned, QuietStep, tableVars, assignVars
<1>22. ASSUME NEW c \in Closer, cbWait(c) PROVE QuietStep
  BY <1>22, HsKept, StopKept, ZenonT(60) DEF cbWait, QuietStep, tableVars, assignVars
<1>23. ASSUME NEW c \in Closer, ServerClosePc(c) PROVE QuietStep
  BY <1>23, HsKept, StopKept, SMTT(30) DEF ServerClosePc, QuietStep, tableVars, assignVars
<1>24. ASSUME NEW c \in Closer, ServerCloseSession(c) PROVE QuietStep
  <2>1. HsQuiet
    BY <1>24, HsKept, ZenonT(60) DEF ServerCloseSession
  <2>2. StopQuiet
    BY <1>24, CloseQuiet, ZenonT(60) DEF ServerCloseSession, TypeOK, ServerTypes
  <2> QED
    BY <1>24, <2>1, <2>2, ZenonT(60) DEF ServerCloseSession, QuietStep, tableVars, assignVars
<1>25. CASE UNCHANGED vars
  BY <1>25, HsKept, StopKept, ZenonT(60)
  DEF vars, QuietStep, tableVars, assignVars
<1> QED
  BY <1>1, <1>2, <1>3, <1>4, <1>5, <1>6, <1>7, <1>8, <1>9, <1>10, <1>11,
     <1>12, <1>13, <1>14, <1>15, <1>16, <1>17, <1>18, <1>19, <1>20, <1>21,
     <1>22, <1>23, <1>24, <1>25, ZenonT(60)
  DEF Next, ClientStep, LocalStep, WindowStep, CloseStep, EnvStep, CloserStep,
      Quiescent, EmbedderClose, ClientExit, IdleReap, RenegotiationRejected,
      LiveReasons

-----------------------------------------------------------------------------
(* The three ways in which a step changes who holds what.                  *)

LeaseKept == UNCHANGED <<lease, poolVars>>

LeaseGranted(s, l) ==
    /\ lease[s] = Nil
    /\ l.ip \notin usedIPs /\ l.peer \notin usedPeerIDs
    /\ take(l)
    /\ lease' = [lease EXCEPT ![s] = l]

LeaseReturned(s) ==
    /\ lease[s] # Nil
    /\ release(lease[s])
    /\ lease' = [lease EXCEPT ![s] = Nil]

LeaseMove ==
    \/ LeaseKept
    \/ \E s \in Session : LeaseReturned(s) \/ \E l \in Lease : LeaseGranted(s, l)

LEMMA LeaseType ==
    ASSUME TypeOK
    PROVE  lease \in [Session -> Lease \union {Nil}]
BY DEF TypeOK, AssignTypes, lease

\* What allocate and reserve hand out was free.
LEMMA FreshPair ==
    ASSUME NEW l \in Lease, allocate(l) \/ reserve(l)
    PROVE  l.ip \notin usedIPs /\ l.peer \notin usedPeerIDs /\ take(l)
BY DEF allocate, reserve, nextFreeOffset, nextFreePeerID, FreeOffsets, FreePeerIDs

\* Each move keeps pairs exclusive and the pool's books in order, and is a step
\* of AddressLeases.
LEMMA MoveSound ==
    ASSUME TypeOK, TypeOK', ExclusiveLeases, NoPoolLeak, LeaseMove
    PROVE  ExclusiveLeases' /\ NoPoolLeak' /\ [Leases!Next]_lease
<1> DEFINE L == Lease \union {Nil}
<1>1. lease \in [Session -> L] /\ lease' \in [Session -> L]
  BY LeaseType, ZenonT(60) DEF TypeOK, AssignTypes, lease
<1>2. Nil \notin Lease
  BY SessionAssumption, ZenonT(60)
<1>3. CASE LeaseKept
  BY <1>3 DEF LeaseKept, ExclusiveLeases, NoPoolLeak, Holders, poolVars
<1>4. ASSUME NEW s \in Session, LeaseReturned(s)
      PROVE  ExclusiveLeases' /\ NoPoolLeak' /\ Leases!Next
  <2>1. Holders' = Holders \ {s}
    BY <1>1, <1>4 DEF LeaseReturned, Holders
  <2>2. \A t \in Holders' : lease'[t] = lease[t]
    BY <1>1, <1>4, <2>1, ZenonT(60) DEF LeaseReturned, Holders
  <2>3. ExclusiveLeases'
    BY <2>1, <2>2 DEF ExclusiveLeases
  <2>4. s \in Holders
    BY <1>4, ZenonT(60) DEF LeaseReturned, Holders
  <2>5. NoPoolLeak'
    BY <1>4, <2>1, <2>2, <2>4 DEF LeaseReturned, release, NoPoolLeak, ExclusiveLeases
  <2>6. Leases!Next
    BY <1>4, ZenonT(60) DEF LeaseReturned, Leases!Next, Leases!Drop
  <2> QED
    BY <2>3, <2>5, <2>6
<1>5. ASSUME NEW s \in Session, NEW l \in Lease, LeaseGranted(s, l)
      PROVE  ExclusiveLeases' /\ NoPoolLeak' /\ Leases!Next
  <2>1. Holders' = Holders \union {s} /\ s \notin Holders
    BY <1>1, <1>2, <1>5, ZenonT(60) DEF LeaseGranted, Holders
  <2>2. lease'[s] = l /\ \A t \in Holders : lease'[t] = lease[t]
    BY <1>1, <1>5, <2>1, ZenonT(60) DEF LeaseGranted, Holders
  <2>3. \A t \in Holders : lease[t].ip # l.ip /\ lease[t].peer # l.peer
    BY <1>5, ZenonT(60) DEF LeaseGranted, NoPoolLeak
  <2>4. ExclusiveLeases'
    BY <2>1, <2>2, <2>3, SMTT(30) DEF ExclusiveLeases
  <2>5. NoPoolLeak'
    BY <1>5, <2>1, <2>2, ZenonT(60) DEF LeaseGranted, take, NoPoolLeak
  <2>6. Leases!Free(l)
    BY <2>3 DEF Leases!Free, Holders
  <2>7. Leases!Next
    BY <1>5, <2>6, ZenonT(60) DEF LeaseGranted, Leases!Next, Leases!Grant
  <2> QED
    BY <2>4, <2>5, <2>7, ZenonT(60)
<1> QED
  BY <1>3, <1>4, <1>5, ZenonT(60) DEF LeaseMove
-----------------------------------------------------------------------------
(* The ownership invariant, one kind of step at a time.                    *)

\* What a step has to show besides the types.
OwnershipKept == PairPlaces' /\ LeaseMove /\ RoutingExact'

LEMMA QuietOwnership ==
    ASSUME OwnershipInv, QuietStep
    PROVE  OwnershipKept
<1>1. PairPlaces'
  BY DEF OwnershipInv, PairPlaces, QuietStep, HsQuiet, Late
<1>2. lease' = lease
  BY ZenonT(60) DEF lease, QuietStep, StopQuiet
<1>3. RoutingExact'
  BY ZenonT(60) DEF OwnershipInv, RoutingExact, QuietStep, StopQuiet
<1> QED
  BY <1>1, <1>2, <1>3, ZenonT(60) DEF OwnershipKept, LeaseMove, LeaseKept, QuietStep

\* A bring-up that gives up before it holds a pair moves nothing.
LEMMA FailedEmptyHanded ==
    ASSUME OwnershipInv, NEW s \in Session, hs[s] \in {"assign", "retry"},
           NotReserved(s), UNCHANGED <<dataSessions, assigned>>
    PROVE  OwnershipKept
<1>1. HsQuiet
  BY GotoQuiet DEF OwnershipInv, NotReserved, fail, Late
<1>2. StopQuiet
  BY CloseQuiet DEF OwnershipInv, NotReserved, fail
<1>3. QuietStep
  BY <1>1, <1>2 DEF QuietStep, NotReserved
<1> QED
  BY <1>3, QuietOwnership

\* A bring-up that takes a pair from the pool.
LEMMA PairTaken ==
    ASSUME OwnershipInv, NEW s \in Session, NEW l \in Lease,
           hs[s] \in {"assign", "retry"}, allocate(l) \/ reserve(l),
           held' = [held EXCEPT ![s] = l], proceed(s, "held"),
           UNCHANGED <<dataSessions, assigned>>
    PROVE  OwnershipKept
<1>1. Nil \notin Lease /\ l # Nil
  BY SessionAssumption, ZenonT(60)
<1>2. /\ hs \in [Session -> HsStates]
      /\ held \in [Session -> Lease \union {Nil}]
  BY SMTT(30) DEF OwnershipInv, TypeOK, AssignTypes
<1>3. held[s] = Nil /\ assigned[s] = Nil
  BY ZenonT(60) DEF OwnershipInv, PairPlaces
<1>4. UNCHANGED stop /\ hs' = [hs EXCEPT ![s] = "held"]
  BY ZenonT(60) DEF proceed, Goto
<1>5. PairPlaces'
  BY <1>1, <1>2, <1>3, <1>4, SMTT(30) DEF OwnershipInv, PairPlaces
<1>6. lease' = [lease EXCEPT ![s] = l] /\ lease[s] = Nil
  BY <1>1, <1>2, <1>3, <1>4, ZenonT(60) DEF lease, Released
<1>7. LeaseMove
  BY <1>6, FreshPair, ZenonT(60) DEF LeaseMove, LeaseGranted
<1>8. \A t \in Session : Detached(t)' <=> Detached(t)
  BY <1>4, ZenonT(60) DEF Detached, Released
<1>9. RoutingExact'
  BY <1>8, ZenonT(60) DEF OwnershipInv, RoutingExact
<1> QED
  BY <1>5, <1>7, <1>9, ZenonT(60) DEF OwnershipKept

\* A bring-up that gives its unpublished pair back.
LEMMA PairGivenUp ==
    ASSUME OwnershipInv, NEW s \in Session, hs[s] = "held",
           release(held[s]), fail(s), held' = [held EXCEPT ![s] = Nil],
           UNCHANGED <<dataSessions, assigned>>
    PROVE  OwnershipKept
<1>1. /\ hs \in [Session -> HsStates]
      /\ held \in [Session -> Lease \union {Nil}]
  BY ZenonT(60) DEF OwnershipInv, TypeOK, AssignTypes
<1>2. held[s] # Nil /\ assigned[s] = Nil
  BY DEF OwnershipInv, PairPlaces
<1>3. hs' = [hs EXCEPT ![s] = "end"] /\ StopQuiet
  BY CloseQuiet, ZenonT(60) DEF OwnershipInv, fail, Goto
<1>4. PairPlaces'
  BY <1>1, <1>2, <1>3 DEF OwnershipInv, PairPlaces
<1>5. lease[s] = held[s] /\ lease' = [lease EXCEPT ![s] = Nil]
  BY <1>1, <1>2, <1>3, ZenonT(60) DEF lease, StopQuiet
<1>6. LeaseMove
  BY <1>2, <1>5, ZenonT(60) DEF LeaseMove, LeaseReturned
<1>7. RoutingExact'
  BY <1>3, ZenonT(60) DEF OwnershipInv, RoutingExact, StopQuiet
<1> QED
  BY <1>4, <1>6, <1>7 DEF OwnershipKept

\* The publish under Session.mu and Server.mu hands the pair on inside the
\* session; nobody else's route is overwritten.
LEMMA PairPublished ==
    ASSUME OwnershipInv, NEW s \in Session, Publish(s), ~ closing(s)
    PROVE  OwnershipKept
<1>1. /\ hs \in [Session -> HsStates]
      /\ held \in [Session -> Lease \union {Nil}]
      /\ assigned \in [Session -> Lease \union {Nil}]
      /\ dataSessions \in [PeerIDs -> Session \union {Nil}]
      /\ Nil \notin Session
  BY SessionAssumption, ZenonT(60) DEF OwnershipInv, TypeOK, AssignTypes, TableTypes
<1>2. /\ hs[s] = "held" /\ held[s] # Nil /\ held[s] \in Lease
      /\ assigned[s] = Nil /\ held[s].peer \in PeerIDs
  BY <1>1, ZenonT(60) DEF OwnershipInv, PairPlaces, Publish, Lease
<1>3. /\ stop[s] = "open" /\ UNCHANGED <<stop, poolVars>>
      /\ hs' = [hs EXCEPT ![s] = "reply"]
      /\ held' = [held EXCEPT ![s] = Nil]
      /\ assigned' = [assigned EXCEPT ![s] = held[s]]
      /\ dataSessions' = [dataSessions EXCEPT ![held[s].peer] = s]
  BY ZenonT(60) DEF Publish, closing, proceed, Goto
<1>4. PairPlaces'
  BY <1>1, <1>2, <1>3 DEF OwnershipInv, PairPlaces
<1>5. lease' = lease
  BY <1>1, <1>2, <1>3, ZenonT(60) DEF lease, Released
<1>6. \A t \in Session :
         assigned[t] # Nil /\ ~ Detached(t) => assigned[t].peer # held[s].peer
  <2> TAKE t \in Session
  <2> HAVE assigned[t] # Nil /\ ~ Detached(t)
  <2>1. held[t] = Nil /\ t # s
    BY <1>2, SMTT(30) DEF OwnershipInv, PairPlaces
  <2>2. lease[t] = assigned[t] /\ lease[s] = held[s]
    BY <1>2, <2>1, ZenonT(60) DEF lease, Detached
  <2> QED
    BY <1>2, <2>1, <2>2, ZenonT(60) DEF OwnershipInv, ExclusiveLeases, Holders
<1>7. \A t \in Session : Detached(t)' <=> Detached(t)
  BY <1>3 DEF Detached, Released
<1>8. ~ Detached(s)
  BY <1>3, ZenonT(60) DEF Detached, Released
<1>9. ASSUME NEW p \in PeerIDs, NEW t \in Session
      PROVE  dataSessions'[p] = t <=>
                assigned'[t] # Nil /\ assigned'[t].peer = p /\ ~ Detached(t)
  <2>1. dataSessions[p] = t <=>
           assigned[t] # Nil /\ assigned[t].peer = p /\ ~ Detached(t)
    BY ZenonT(60) DEF OwnershipInv, RoutingExact
  <2>2. CASE t = s
    <3>1. assigned'[t] = held[s]
      BY <1>1, <1>3, <2>2, ZenonT(60)
    <3>2. dataSessions[p] # s
      BY <1>2, <2>1, <2>2, ZenonT(60)
    <3>3. dataSessions'[p] = s <=> p = held[s].peer
      BY <1>1, <1>2, <1>3, <3>2, ZenonT(60)
    <3> QED
      BY <1>2, <1>8, <2>2, <3>1, <3>3
  <2>3. CASE t # s
    <3>1. assigned'[t] = assigned[t]
      BY <1>1, <1>3, <2>3, SMTT(30)
    <3>2. CASE p = held[s].peer
      <4>1. dataSessions'[p] = s
        BY <1>1, <1>2, <1>3, <3>2, ZenonT(60)
      <4> QED
        BY <1>6, <2>3, <3>1, <3>2, <4>1, ZenonT(60)
    <3>3. CASE p # held[s].peer
      <4>1. dataSessions'[p] = dataSessions[p]
        BY <1>1, <1>3, <3>3, ZenonT(60)
      <4> QED
        BY <2>1, <3>1, <4>1
    <3> QED
      BY <3>2, <3>3, ZenonT(60)
  <2> QED
    BY <2>2, <2>3
<1>10. RoutingExact'
  BY <1>7, <1>9 DEF RoutingExact
<1> QED
  BY <1>3, <1>4, <1>5, <1>10, ZenonT(60) DEF OwnershipKept, LeaseMove, LeaseKept

\* The first critical section of a teardown deletes the session's own route and
\* no other.
LEMMA RouteDeleted ==
    ASSUME OwnershipInv, NEW s \in Session, CloseDetach(s)
    PROVE  OwnershipKept
<1>1. /\ stop \in [Session -> StopStates]
      /\ dataSessions \in [PeerIDs -> Session \union {Nil}]
      /\ Nil \notin Session
  BY SessionAssumption, SMTT(30) DEF OwnershipInv, TypeOK, StopTypes, TableTypes
<1>2. /\ stop[s] = "stopped" /\ stop' = [stop EXCEPT ![s] = "detached"]
      /\ UNCHANGED <<hs, held, assigned, poolVars>>
  BY ZenonT(60) DEF CloseDetach, StopStep, assignVars
<1>3. PairPlaces'
  BY <1>2, ZenonT(60) DEF OwnershipInv, PairPlaces
<1>4. lease' = lease
  BY <1>1, <1>2 DEF lease, Released
<1>5. \A t \in Session :
         (Detached(t)' <=> Detached(t) \/ t = s)
  BY <1>1, <1>2, ZenonT(60) DEF Detached, Released
<1>6. \A q \in PeerIDs : \A t \in Session :
         dataSessions'[q] = t <=> dataSessions[q] = t /\ t # s
  BY <1>1, ZenonT(60) DEF OwnershipInv, RoutingExact, CloseDetach
<1>7. RoutingExact'
  BY <1>2, <1>5, <1>6, ZenonT(60) DEF OwnershipInv, RoutingExact
<1> QED
  BY <1>2, <1>3, <1>4, <1>7, ZenonT(60) DEF OwnershipKept, LeaseMove, LeaseKept

\* The release of a teardown gives back the published pair, if there is one;
\* its route is gone by then.
LEMMA PairReleased ==
    ASSUME OwnershipInv, NEW s \in Session, CloseRelease(s)
    PROVE  OwnershipKept
<1>1. stop \in [Session -> StopStates]
  BY DEF OwnershipInv, TypeOK, StopTypes
<1>2. /\ stop[s] = "detached" /\ stop' = [stop EXCEPT ![s] = "released"]
      /\ UNCHANGED <<hs, held, assigned, dataSessions>>
  BY DEF CloseRelease, StopStep, assignVars, tableVars
<1>3. PairPlaces'
  BY <1>2, ZenonT(60) DEF OwnershipInv, PairPlaces
<1>4. \A t \in Session : Detached(t)' <=> Detached(t)
  BY <1>1, <1>2, ZenonT(60) DEF Detached, Released
<1>5. RoutingExact'
  BY <1>2, <1>4 DEF OwnershipInv, RoutingExact
<1>6. CASE assigned[s] # Nil
  <2>1. held[s] = Nil
    BY <1>6 DEF OwnershipInv, PairPlaces
  <2>2. lease[s] = assigned[s] /\ lease' = [lease EXCEPT ![s] = Nil]
    BY <1>1, <1>2, <1>6, <2>1, ZenonT(60) DEF lease, Released
  <2>3. release(lease[s])
    BY <1>6, <2>2 DEF CloseRelease
  <2> QED
    BY <1>3, <1>5, <1>6, <2>2, <2>3, ZenonT(60) DEF OwnershipKept, LeaseMove, LeaseReturned
<1>7. CASE assigned[s] = Nil
  <2>1. lease' = lease
    BY <1>1, <1>2, <1>7 DEF lease, Released
  <2> QED
    BY <1>3, <1>5, <1>7, <2>1, ZenonT(60) DEF CloseRelease, OwnershipKept, LeaseMove, LeaseKept
<1> QED
  BY <1>6, <1>7

\* Every step keeps the ownership invariant and moves pairs as AddressLeases
\* allows.
LEMMA OwnershipStep ==
    ASSUME OwnershipInv, [Next]_vars
    PROVE  OwnershipInv' /\ [Leases!Next]_lease
<1>1. TypeOK /\ TypeOK'
  BY TypeStep, SMTT(30) DEF OwnershipInv
<1>2. ASSUME NEW s \in Session, AllocateFromPool(s) PROVE OwnershipKept
  BY <1>2, FailedEmptyHanded, PairTaken, ZenonT(60) DEF AllocateFromPool, tableVars
<1>3. ASSUME NEW s \in Session, AssignReserve(s) PROVE OwnershipKept
  <2>1. hs[s] = "assign" /\ UNCHANGED <<dataSessions, assigned>>
    BY <1>3, ZenonT(60) DEF AssignReserve, tableVars
  <2>2. CASE proceed(s, "lookup") /\ UNCHANGED <<poolVars, held>>
    <3>1. HsQuiet /\ StopQuiet
      BY <1>1, <2>1, <2>2, GotoQuiet, StopKept, ZenonT(60) DEF proceed, Late
    <3> QED
      BY <2>1, <2>2, <3>1, QuietOwnership, ZenonT(60) DEF QuietStep
  <2>3. CASE NotReserved(s)
    BY <2>1, <2>3, FailedEmptyHanded
  <2>4. ASSUME NEW ip, Reserved(s, ip) PROVE OwnershipKept
    BY <2>1, <2>4, PairTaken, ZenonT(60) DEF Reserved
  <2> QED
    BY <1>3, <2>2, <2>3, <2>4, ZenonT(60) DEF AssignReserve
<1>4. ASSUME NEW s \in Session, RetryReserve(s) PROVE OwnershipKept
  BY <1>4, FailedEmptyHanded, PairTaken, ZenonT(60) DEF RetryReserve, Reserved, tableVars
<1>5. ASSUME NEW s \in Session, WrapperFailed(s) PROVE OwnershipKept
  BY <1>5, PairGivenUp, ZenonT(60) DEF WrapperFailed, tableVars
<1>6. ASSUME NEW s \in Session, Publish(s) PROVE OwnershipKept
  <2>1. CASE closing(s)
    BY <1>6, <2>1, PairGivenUp, ZenonT(60) DEF Publish
  <2> QED
    BY <1>6, <2>1, PairPublished
<1>7. OwnershipKept
  BY <1>1, <1>2, <1>3, <1>4, <1>5, <1>6, QuietActions, QuietOwnership,
     RouteDeleted, PairReleased, ZenonT(60)
<1>8. ExclusiveLeases' /\ NoPoolLeak' /\ [Leases!Next]_lease
  BY <1>1, <1>7, MoveSound DEF OwnershipInv, OwnershipKept
<1> QED
  BY <1>1, <1>7, <1>8 DEF OwnershipInv, OwnershipKept

\* Before the first HARD_RESET nobody holds anything.
LEMMA InitOwnership ==
    ASSUME Init, TypeOK
    PROVE  OwnershipInv /\ Leases!Init
<1>1. lease = [s \in Session |-> Nil]
  BY DEF Init, lease
<1>2. Holders = {}
  BY <1>1, ZenonT(60) DEF Holders
<1>3. PairPlaces
  BY SMTT(30) DEF Init, PairPlaces
<1>4. RoutingExact
  BY SessionAssumption, ZenonT(60) DEF Init, RoutingExact
<1>5. ExclusiveLeases /\ NoPoolLeak
  BY <1>2, ZenonT(60) DEF Init, newIPPool, ExclusiveLeases, NoPoolLeak
<1> QED
  BY <1>1, <1>3, <1>4, <1>5, ZenonT(60) DEF OwnershipInv, Leases!Init

\* The ownership invariant holds of every server, whatever the number of
\* sessions, keys and addresses: no two sessions ever hold the same address or
\* peer-id, the pool marks exactly what is held, and dataSessions routes exactly
\* to the live owners.
THEOREM OwnershipCorrect == Spec => []OwnershipInv
<1>1. Init => OwnershipInv
  BY TypeInit, InitOwnership
<1>2. OwnershipInv /\ [Next]_vars => OwnershipInv'
  BY OwnershipStep
<1> QED
  BY <1>1, <1>2, PTL DEF Spec

\* No two sessions hold the same address or the same peer-id.
THEOREM LeasesExclusive == Spec => []ExclusiveLeases
<1>1. OwnershipInv => ExclusiveLeases
  BY DEF OwnershipInv
<1> QED
  BY <1>1, OwnershipCorrect, PTL

\* No address and no peer-id is lost to a session closed in mid bring-up, and
\* none is free while a session has it.
THEOREM PoolNeverLeaks == Spec => []NoPoolLeak
<1>1. OwnershipInv => NoPoolLeak
  BY DEF OwnershipInv
<1> QED
  BY <1>1, OwnershipCorrect, PTL

\* dataSessions routes a peer-id to a session exactly while the session has it
\* published and its teardown has not deleted the route.
THEOREM RoutesExact == Spec => []RoutingExact
<1>1. OwnershipInv => RoutingExact
  BY DEF OwnershipInv
<1> QED
  BY <1>1, OwnershipCorrect, PTL

\* The server implements AddressLeases.
THEOREM LeasesRefined == Spec => LeasesImplemented
<1>1. Init => Leases!Init
  BY TypeInit, InitOwnership
<1>2. OwnershipInv /\ [Next]_vars => [Leases!Next]_lease
  BY OwnershipStep
<1> QED
  BY <1>1, <1>2, OwnershipCorrect, PTL DEF Spec, LeasesImplemented, Leases!Spec

-----------------------------------------------------------------------------
(* The choice of the cipher.  selectCipher is a loop over the allow-list,  *)
(* here a recursive function; the least position at which it could go      *)
(* wrong shows that it finds the first usable entry of a list of any       *)
(* length.                                                                 *)

\* A nonempty set of naturals has a least element.
LEMMA LeastNat ==
    ASSUME NEW T, T \subseteq Nat, T # {}
    PROVE  \E m \in T : \A n \in T : m <= n
<1>1. PICK R : R = OpToRel(<, Nat)
  OBVIOUS
<1>2. IsWellFoundedOn(R, Nat)
  BY <1>1, NatLessThanWellFounded
<1>3. ASSUME NEW m \in Nat, NEW n \in Nat, n < m PROVE <<n, m>> \in R
  BY <1>1, <1>3 DEF OpToRel
<1>4. PICK m \in T : \A n \in T : ~ (<<n, m>> \in R)
  BY <1>2, WFMin
<1>5. ASSUME NEW n \in T PROVE m <= n
  <2>1. m \in Nat /\ n \in Nat
    OBVIOUS
  <2>2. ~ (n < m)
    BY <1>3, <1>4, <2>1
  <2> QED BY <2>1, <2>2
<1> QED BY <1>5

\* The positions of the allow-list that hold a cipher the client can use.
Usable(allowList, peerCiphers, occCipher) ==
    {i \in 1 .. Len(allowList) :
        contains(peerCiphers, allowList[i]) \/ allowList[i] = occCipher}

\* A scan of the positions 1 .. n from the front that stops at the first one in U.
Scan(n, U, list, f) ==
    [i \in 1 .. n + 1 |->
        IF i > n THEN NoCipher ELSE IF i \in U THEN list[i] ELSE f[i + 1]]

\* The entry of list at the least position in A.
AtLeast(A, list) ==
    IF A = {} THEN NoCipher ELSE list[CHOOSE m \in A : \A j \in A : m <= j]

\* The recursion of a scan has a solution: what is left to find from each position.
LEMMA ScanExists ==
    ASSUME NEW n \in Nat, NEW U, U \subseteq 1 .. n, NEW list
    PROVE  \E f : f = Scan(n, U, list, f)
<1> DEFINE After(i) == {j \in U : i <= j}
           val(i) == AtLeast(After(i), list)
           g == [i \in 1 .. n + 1 |-> val(i)]
<1>0. \A j \in U : j \in Int /\ 1 <= j /\ j <= n
  OBVIOUS
<1>1. ASSUME NEW i \in U PROVE val(i) = list[i]
  <2>1. i \in After(i) /\ \A j \in After(i) : i <= j
    BY <1>0, <1>1
  <2> DEFINE first == CHOOSE m \in After(i) : \A j \in After(i) : m <= j
  <2>2. first \in After(i) /\ \A j \in After(i) : first <= j
    BY <2>1, Zenon
  <2>3. \A j \in After(i) : j \in Int
    BY <1>0
  <2>4. first = i
    <3> HIDE DEF first, After
    <3>1. first <= i /\ i <= first
      BY <2>1, <2>2
    <3> QED BY <2>1, <2>2, <2>3, <3>1
  <2>5. After(i) # {}
    BY <2>1, Zenon
  <2> QED
    BY <2>4, <2>5, Zenon DEF AtLeast
<1>2. ASSUME NEW i \in 1 .. n, i \notin U PROVE val(i) = val(i + 1)
  <2>1. ASSUME NEW j \in U PROVE i <= j <=> i + 1 <= j
    <3>1. j # i /\ j \in Int /\ i \in Int
      BY <1>0, <1>2
    <3> QED BY <3>1
  <2>2. After(i) = After(i + 1)
    BY <2>1, Zenon
  <2> QED
    BY <2>2, Zenon
<1>3. val(n + 1) = NoCipher
  <2>1. ASSUME NEW j \in U PROVE ~ (n + 1 <= j)
    BY <1>0
  <2>2. After(n + 1) = {}
    BY <2>1, Zenon
  <2> QED
    BY <2>2, Zenon DEF AtLeast
<1> HIDE DEF val
<1>4. g = Scan(n, U, list, g)
  <2>1. ASSUME NEW i \in 1 .. n + 1
        PROVE  val(i) = IF i > n THEN NoCipher ELSE IF i \in U THEN list[i] ELSE g[i + 1]
    <3>1. CASE i > n
      <4>1. i = n + 1
        BY <3>1
      <4> QED BY <1>3, <3>1, <4>1, Zenon
    <3>2. CASE i \in U
      <4>1. ~ (i > n)
        BY <1>0, <3>2
      <4> QED BY <1>1, <3>2, <4>1, Zenon
    <3>3. CASE i \in 1 .. n /\ i \notin U
      <4>1. i + 1 \in 1 .. n + 1 /\ ~ (i > n)
        BY <3>3
      <4>2. g[i + 1] = val(i + 1)
        BY <4>1, Zenon
      <4> QED
        BY <1>2, <3>3, <4>1, <4>2, Zenon
    <3>4. i > n \/ i \in 1 .. n
      OBVIOUS
    <3> QED
      BY <3>1, <3>2, <3>3, <3>4, Zenon
  <2>2. Scan(n, U, list, g) =
           [i \in 1 .. n + 1 |-> IF i > n THEN NoCipher ELSE IF i \in U THEN list[i] ELSE g[i + 1]]
    BY Zenon DEF Scan
  <2>3. [i \in 1 .. n + 1 |-> IF i > n THEN NoCipher ELSE IF i \in U THEN list[i] ELSE g[i + 1]] = g
    <3> HIDE DEF val
    <3> QED BY <2>1
  <2> HIDE DEF g
  <2> QED
    BY <2>2, <2>3
<1> QED
  BY <1>4, Zenon

\* A scan finds the entry at the least position of U: by induction, as an
\* entry before that position passes the search on to the next.
LEMMA ScanFinds ==
    ASSUME NEW n \in Nat, NEW U, U \subseteq 1 .. n, NEW list, NEW f,
           f = Scan(n, U, list, f)
    PROVE  f[1] = AtLeast(U, list)
<1>1. \A i \in 1 .. n + 1 :
         f[i] = IF i > n THEN NoCipher ELSE IF i \in U THEN list[i] ELSE f[i + 1]
  <2> SUFFICES ASSUME NEW i \in 1 .. n + 1
               PROVE  f[i] = IF i > n THEN NoCipher ELSE IF i \in U THEN list[i] ELSE f[i + 1]
    OBVIOUS
  <2>1. f[i] = Scan(n, U, list, f)[i]
    OBVIOUS
  <2> QED
    BY <2>1 DEF Scan
<1>2. ASSUME NEW m \in 1 .. n + 1, \A j \in U : m <= j PROVE f[1] = f[m]
  <2> DEFINE T == {i \in Nat : i >= 1 /\ i <= m /\ f[i] = f[m]}
  <2>1. m \in T /\ T \subseteq Nat
    OBVIOUS
  <2>2. PICK i \in T : \A j \in T : i <= j
    <3> HIDE DEF T
    <3> QED BY <2>1, LeastNat
  <2>3. CASE i = 1
    BY <2>2, <2>3
  <2>4. CASE i # 1
    <3>1. i \in Nat /\ i >= 1 /\ i <= m /\ f[i] = f[m]
      BY <2>2
    <3>4. i - 1 \in 1 .. n /\ i - 1 < m
      BY <2>4, <3>1
    <3>5. i - 1 \notin U
      BY <1>2, <3>4
    <3>2. f[i - 1] = f[i]
      <4>1. i - 1 \in 1 .. n + 1 /\ ~ (i - 1 > n) /\ (i - 1) + 1 = i
        BY <3>1, <3>4
      <4> QED BY <1>1, <3>5, <4>1
    <3>3. i - 1 \in T
      BY <3>1, <3>2, <3>4
    <3>6. ~ (i <= i - 1)
      BY <3>1
    <3> QED
      BY <2>2, <3>3, <3>6, Zenon
  <2> QED
    BY <2>3, <2>4
<1>3. U = {} => f[1] = NoCipher
  <2> SUFFICES ASSUME U = {} PROVE f[1] = NoCipher
    OBVIOUS
  <2>1. n + 1 \in 1 .. n + 1 /\ n + 1 > n
    OBVIOUS
  <2>2. f[n + 1] = NoCipher
    BY <1>1, <2>1, Zenon
  <2>3. f[1] = f[n + 1]
    BY <1>2, <2>1, Zenon
  <2> QED BY <2>2, <2>3
<1>4. ASSUME NEW m \in U, \A j \in U : m <= j PROVE f[1] = list[m]
  <2>1. m \in 1 .. n + 1 /\ ~ (m > n)
    OBVIOUS
  <2>2. f[m] = list[m]
    BY <1>1, <2>1, Zenon
  <2>3. f[1] = f[m]
    BY <1>2, <1>4, <2>1, Zenon
  <2> QED BY <2>2, <2>3
<1>5. CASE U = {}
  BY <1>3, <1>5, Zenon DEF AtLeast
<1>6. CASE U # {}
  <2>1. U \subseteq Nat
    OBVIOUS
  <2>2. \E m \in U : \A j \in U : m <= j
    BY <1>6, <2>1, LeastNat
  <2>3. PICK m : m = CHOOSE k \in U : \A j \in U : k <= j
    OBVIOUS
  <2>4. m \in U /\ \A j \in U : m <= j
    BY <2>2, <2>3, Zenon
  <2>5. AtLeast(U, list) = list[m]
    BY <1>6, <2>3, Zenon DEF AtLeast
  <2> QED
    BY <1>4, <2>4, <2>5, Zenon
<1> QED
  BY <1>5, <1>6

\* selectCipher gives the first usable entry of the allow-list.
LEMMA SelectFirst ==
    ASSUME NEW S, NEW allowList \in Seq(S), NEW peerCiphers, NEW occCipher
    PROVE  selectCipher(allowList, peerCiphers, occCipher) =
              AtLeast(Usable(allowList, peerCiphers, occCipher), allowList)
<1>0. PICK U : U = Usable(allowList, peerCiphers, occCipher)
  OBVIOUS
<1> DEFINE n == Len(allowList)
           Body(f) == [i \in 1 .. n + 1 |->
                         IF i > n THEN NoCipher
                         ELSE IF contains(peerCiphers, allowList[i]) \/ allowList[i] = occCipher
                              THEN allowList[i]
                         ELSE f[i + 1]]
           from == CHOOSE f : f = Body(f)
<1>1. n \in Nat /\ U \subseteq 1 .. n
  BY <1>0 DEF Usable
<1>2. selectCipher(allowList, peerCiphers, occCipher) = from[1]
  BY DEF selectCipher
<1>3. ASSUME NEW f PROVE Body(f) = Scan(n, U, allowList, f)
  <2>1. \A i \in 1 .. n : i \in U <=> contains(peerCiphers, allowList[i]) \/ allowList[i] = occCipher
    BY <1>0 DEF Usable
  <2>2. ASSUME NEW i \in 1 .. n + 1
        PROVE  (IF i > n THEN NoCipher
                ELSE IF contains(peerCiphers, allowList[i]) \/ allowList[i] = occCipher
                     THEN allowList[i] ELSE f[i + 1])
               = IF i > n THEN NoCipher ELSE IF i \in U THEN allowList[i] ELSE f[i + 1]
    <3> HIDE DEF n
    <3>1. i > n \/ i \in 1 .. n
      BY <1>1
    <3> QED BY <2>1, <3>1, Zenon
  <2> QED
    BY <2>2, Zenon DEF Scan
<1>4. \E f : f = Body(f)
  <2>1. PICK f : f = Scan(n, U, allowList, f)
    BY <1>1, ScanExists
  <2> HIDE DEF Body
  <2> QED BY <1>3, <2>1, Zenon
<1>5. from = Body(from)
  <2> HIDE DEF Body
  <2> QED BY <1>4, Zenon
<1>6. from = Scan(n, U, allowList, from)
  <2> HIDE DEF Body, from
  <2> QED BY <1>3, <1>5, Zenon
<1> HIDE DEF from, n
<1>7. from[1] = AtLeast(U, allowList)
  BY <1>1, <1>6, ScanFinds
<1> QED
  BY <1>0, <1>2, <1>7, Zenon

\* resolveDataCiphers gives a list of supported ciphers, whatever the embedder writes.
LEMMA ResolvedSupported ==
    ASSUME NEW list \in Seq(Names), NEW cipher
    PROVE  resolveDataCiphers(list, cipher) \in Seq(Ciphers)
<1>1. CASE list = <<>>
  <2>1. supportedDataCiphers \in Seq(Ciphers) /\ <<>> \in Seq(Ciphers)
    BY DEF supportedDataCiphers, Ciphers
  <2>2. cipher \in Ciphers => <<cipher>> \in Seq(Ciphers)
    OBVIOUS
  <2>3. \/ resolveDataCiphers(list, cipher) = supportedDataCiphers
        \/ resolveDataCiphers(list, cipher) = IF cipher \in Ciphers THEN <<cipher>> ELSE <<>>
    BY <1>1, Zenon DEF resolveDataCiphers
  <2> QED
    BY <2>1, <2>2, <2>3
<1>2. CASE list # <<>>
  <2> DEFINE canonical == [i \in DOMAIN list |-> canonicalCipherName(list[i])]
  <2>1. resolveDataCiphers(list, cipher) =
           IF \A i \in DOMAIN canonical :
                 /\ canonical[i] # NoCipher
                 /\ \A j \in 1 .. i - 1 : canonical[j] # canonical[i]
           THEN canonical ELSE <<>>
    BY <1>2, Zenon DEF resolveDataCiphers
  <2>2. \A i \in DOMAIN list : canonicalCipherName(list[i]) # NoCipher => canonicalCipherName(list[i]) \in Ciphers
    BY DEF canonicalCipherName
  <2>3. DOMAIN list = 1 .. Len(list) /\ Len(list) \in Nat
    OBVIOUS
  <2>4. CASE \A i \in DOMAIN canonical : canonical[i] # NoCipher
    <3>1. \A i \in 1 .. Len(list) : canonicalCipherName(list[i]) \in Ciphers
      BY <2>2, <2>3, <2>4
    <3>2. canonical \in Seq(Ciphers)
      BY <2>3, <3>1
    <3> HIDE DEF canonical
    <3> QED BY <2>1, <3>2
  <2>5. CASE ~ \A i \in DOMAIN canonical : canonical[i] # NoCipher
    <3>1. resolveDataCiphers(list, cipher) = <<>>
      BY <2>1, <2>5, Zenon
    <3> QED BY <3>1
  <2> QED BY <2>4, <2>5
<1> QED BY <1>1, <1>2

\* What is selected is an entry of the allow-list that the client can use.
LEMMA SelectedUsable ==
    ASSUME NEW S, NEW allowList \in Seq(S), NEW peerCiphers, NEW occCipher,
           selectCipher(allowList, peerCiphers, occCipher) # NoCipher
    PROVE  \E i \in Usable(allowList, peerCiphers, occCipher) :
              selectCipher(allowList, peerCiphers, occCipher) = allowList[i]
<1>1. PICK U : U = Usable(allowList, peerCiphers, occCipher)
  OBVIOUS
<1>2. selectCipher(allowList, peerCiphers, occCipher) = AtLeast(U, allowList)
  BY <1>1, SelectFirst, Zenon
<1>3. U \subseteq Nat /\ U # {}
  BY <1>1, <1>2 DEF Usable, AtLeast
<1>4. \E m \in U : \A j \in U : m <= j
  BY <1>3, LeastNat
<1>5. PICK m : m = CHOOSE k \in U : \A j \in U : k <= j
  OBVIOUS
<1>6. m \in U
  BY <1>4, <1>5, Zenon
<1>7. AtLeast(U, allowList) = allowList[m]
  BY <1>3, <1>5, Zenon DEF AtLeast
<1> QED
  BY <1>1, <1>2, <1>6, <1>7, Zenon

\* Client and server end up with the same cipher, for allow-lists and client lists of
\* any length.
THEOREM SameCipher ==
    ASSUME NEW allowList \in Seq(Ciphers), NEW offer,
           negotiated(allowList, offer) # NoCipher
    PROVE  clientCipher(allowList, offer) = negotiated(allowList, offer)
<1> DEFINE sel == negotiated(allowList, offer)
<1>1. PICK i \in Usable(allowList, peerCipherList(offer), parseOCCCipher(offer)) : sel = allowList[i]
  BY SelectedUsable, Zenon DEF negotiated
<1>2. contains(peerCipherList(offer), sel) \/ sel = parseOCCCipher(offer)
  BY <1>1, Zenon DEF Usable
<1>3. sel \in Ciphers
  BY <1>1 DEF Usable
<1> HIDE DEF sel
<1>4. sel # NoCipher
  BY DEF sel
<1>5. CASE peerSupportsNCP(offer)
  <2>1. pushedCipher(allowList, offer) = sel
    BY <1>5 DEF pushedCipher, sel
  <2>2. contains(peerCipherList(offer), sel)
    <3>1. CASE sentIVCiphers(offer)
      BY <1>2, <1>4, <3>1 DEF parseOCCCipher
    <3>2. CASE ~ sentIVCiphers(offer)
      <4>1. peerCipherList(offer) = supportedDataCiphers
        BY <1>5, <3>2 DEF peerCipherList, peerSupportsNCP
      <4>2. contains(supportedDataCiphers, sel)
        BY <1>3 DEF contains, supportedDataCiphers, Ciphers
      <4> QED BY <4>1, <4>2
    <3> QED BY <3>1, <3>2
  <2> QED
    BY <1>4, <2>1, <2>2 DEF clientCipher, sel
<1>6. CASE ~ peerSupportsNCP(offer)
  <2>1. pushedCipher(allowList, offer) = NoCipher /\ ~ sentIVCiphers(offer)
    BY <1>6 DEF pushedCipher, peerSupportsNCP
  <2>2. peerCipherList(offer) = <<>> /\ parseOCCCipher(offer) = offer.occ
    BY <1>6, <2>1 DEF peerCipherList, peerSupportsNCP, parseOCCCipher
  <2>3. ~ contains(<<>>, sel)
    BY DEF contains
  <2>4. sel = offer.occ
    BY <1>2, <2>2, <2>3, Zenon
  <2> QED
    BY <2>1, <2>4 DEF clientCipher, sel
<1> QED
  BY <1>5, <1>6

\* The cipher is the first of the embedder's list that the client can use, for lists
\* of any length.
THEOREM FirstUsableCipher ==
    ASSUME NEW list \in Seq(Names), NEW offer, list # <<>>,
           resolveDataCiphers(list, NoCipher) # <<>>
    PROVE  LET usable == {i \in DOMAIN list :
                            IF sentIVCiphers(offer) THEN contains(offer.ciphers, list[i])
                            ELSE offer.ncp >= 2 \/ offer.occ = list[i]}
           IN  negotiated(resolveDataCiphers(list, NoCipher), offer) =
                  IF usable = {} THEN NoCipher
                  ELSE list[CHOOSE i \in usable : \A j \in usable : i <= j]
<1> DEFINE canonical == [i \in DOMAIN list |-> canonicalCipherName(list[i])]
           usable == {i \in DOMAIN list :
                        IF sentIVCiphers(offer) THEN contains(offer.ciphers, list[i])
                        ELSE offer.ncp >= 2 \/ offer.occ = list[i]}
<1>1. DOMAIN list = 1 .. Len(list) /\ Len(list) \in Nat
  OBVIOUS
<1>2. resolveDataCiphers(list, NoCipher) =
         IF \A i \in DOMAIN canonical :
               /\ canonical[i] # NoCipher
               /\ \A j \in 1 .. i - 1 : canonical[j] # canonical[i]
         THEN canonical ELSE <<>>
  BY Zenon DEF resolveDataCiphers
<1>3. /\ resolveDataCiphers(list, NoCipher) = canonical
      /\ \A i \in DOMAIN list : canonicalCipherName(list[i]) # NoCipher
  BY <1>2, Zenon
<1>4. \A i \in DOMAIN list : list[i] \in Ciphers /\ canonicalCipherName(list[i]) = list[i]
  BY <1>3, Zenon DEF canonicalCipherName
<1>5. canonical = list
  BY <1>4
<1>6. NoCipher \notin Ciphers
  BY Zenon DEF NoCipher, Ciphers
<1>7. ASSUME NEW c \in Ciphers PROVE contains(supportedDataCiphers, c) /\ ~ contains(<<>>, c)
  BY DEF contains, supportedDataCiphers, Ciphers
<1>8. ASSUME NEW i \in 1 .. Len(list)
      PROVE  (contains(peerCipherList(offer), list[i]) \/ list[i] = parseOCCCipher(offer))
             <=> IF sentIVCiphers(offer) THEN contains(offer.ciphers, list[i])
                 ELSE offer.ncp >= 2 \/ offer.occ = list[i]
  <2>1. list[i] \in Ciphers
    BY <1>1, <1>4
  <2>2. CASE sentIVCiphers(offer)
    BY <1>6, <2>1, <2>2, Zenon DEF peerCipherList, parseOCCCipher
  <2>3. CASE ~ sentIVCiphers(offer) /\ offer.ncp >= 2
    BY <1>7, <2>1, <2>3, Zenon DEF peerCipherList, parseOCCCipher
  <2>4. CASE ~ sentIVCiphers(offer) /\ ~ (offer.ncp >= 2)
    BY <1>7, <2>1, <2>4, Zenon DEF peerCipherList, parseOCCCipher
  <2> QED
    BY <2>2, <2>3, <2>4, Zenon
<1>9. Usable(list, peerCipherList(offer), parseOCCCipher(offer)) = usable
  BY <1>1, <1>8, Zenon DEF Usable
<1>10. negotiated(list, offer) =
          AtLeast(Usable(list, peerCipherList(offer), parseOCCCipher(offer)), list)
  BY SelectFirst, Zenon DEF negotiated
<1>11. negotiated(resolveDataCiphers(list, NoCipher), offer) = AtLeast(usable, list)
  <2> HIDE DEF canonical, usable
  <2> QED BY <1>3, <1>5, <1>9, <1>10
<1> QED
  BY <1>11, Zenon DEF AtLeast

\* Client and server agree on a cipher and it is the first usable one, in every state.
THEOREM CiphersAlwaysAgree == Spec => []CiphersAgree
<1>1. ASSUME NEW list \in Lists PROVE list \in Seq(Names)
  <2>1. PICK n \in 0 .. 3 : list \in [1 .. n -> Names]
    BY DEF Lists
  <2> QED BY <2>1
<1>2. allAgree
  BY <1>1, ResolvedSupported, SameCipher, Zenon DEF allAgree
<1>3. firstUsable
  BY <1>1, FirstUsableCipher, Zenon DEF firstUsable
<1>4. CiphersAgree
  BY <1>2, <1>3, Zenon DEF CiphersAgree
<1> QED
  BY <1>4, PTL
=============================================================================
