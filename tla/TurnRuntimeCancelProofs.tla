---------------------- MODULE TurnRuntimeCancelProofs ----------------------
(***************************************************************************)
(* What a cancel reaches and why a turn ends as cancelled, for any number  *)
(* of rooms, turns, requests, agents and tokens, on top of the invariant   *)
(* of TurnRuntimeProofs.                                                   *)
(***************************************************************************)
EXTENDS TurnRuntimeProofs

(* A turn's context can be cancelled only once its goroutine has registered *)
(* the handle, and a request holds no handle before that.                   *)
PastRegister == Running \cup {"release", "finished"}

CancelReach ==
    /\ \A t \in ctxDone : pc[t] \in PastRegister
    /\ \A q \in Requests : reqCancel[q] # None => pc[reqCancel[q]] \in PastRegister

(* Rounds grow: CurrentTurn is the latest turn of its room.                 *)
Admitted(t) == pc[t] # "unused"

IsUpTo(t, u) ==
    /\ u \in Turns /\ Admitted(u)
    /\ turnRoom[u] = turnRoom[t]
    /\ t = u \/ round[t] < round[u]

RoundsGrow ==
    \A t \in Turns : Admitted(t) => IsUpTo(t, currentTurn[turnRoom[t]])

(* What a request has read: a turn of its room, then the handle of that or  *)
(* of a later one.                                                          *)
RequestRead ==
    \A q \in Requests : reqPc[q] # "unused" =>
        /\ reqTurn[q] \in Turns /\ Admitted(reqTurn[q])
        /\ turnRoom[reqTurn[q]] = reqRoom[q]

RequestFresh ==
    \A q \in Requests : reqPc[q] \in {"unused", "lookup"} => reqCancel[q] = None

(* A request that has called the cancel func of t.                          *)
Called(t) == \E q \in Requests : reqCancel[q] = t /\ reqPc[q] \in {"emit", "done"}
RoomGone(t) == roomState[turnRoom[t]] = "deleted"

(* Why a running turn may end without completing.                           *)
StopHasCause ==
    \A t \in Turns :
        /\ t \in ctxDone /\ pc[t] \in Running => Called(t)
        /\ pc[t] = "notfound" => RoomGone(t)
        /\ pc[t] = "unregister" /\ turnState[t] = "streaming" =>
              RoomGone(t) \/ Called(t)

CancelInv ==
    /\ IInv
    /\ CancelReach
    /\ RoundsGrow
    /\ RequestRead
    /\ RequestFresh
    /\ StopHasCause
    /\ CancelledOnlyOnRequest
    /\ CancelNeverReachesBack

-----------------------------------------------------------------------------
(* The initial state satisfies CancelInv.                                   *)
LEMMA InitCancelInv == Init => CancelInv
<1> SUFFICES ASSUME Init PROVE CancelInv
  OBVIOUS
<1>1. IInv
  BY InitIInv
<1>2. CancelReach /\ RoundsGrow /\ RequestRead /\ RequestFresh
  BY DEF Init, CancelReach, RoundsGrow, RequestRead, RequestFresh, Admitted
<1>3. StopHasCause /\ CancelledOnlyOnRequest /\ CancelNeverReachesBack
  BY DEF Init, StopHasCause, CancelledOnlyOnRequest, CancelNeverReachesBack,
         Running
<1> QED
  BY <1>1, <1>2, <1>3 DEF CancelInv

(* A turn's goroutine moves itself only, and never back before Register.    *)
LEMMA GoroutineFrame ==
    ASSUME TypeOK, NEW t \in Turns,
           AnnounceTurn(t) \/ Register(t) \/ InLoop(t) \/ Unregister(t)
               \/ ReleaseRoom(t)
    PROVE  /\ Admitted(t)
           /\ \E l \in InFlight \cup {"finished"} :
                 /\ pc' = [pc EXCEPT ![t] = l]
                 /\ pc[t] \in PastRegister => l \in PastRegister
           /\ UNCHANGED <<currentTurn, turnRoom, round, reqVars>>
<1> USE DEF TypeOK, Admitted, PastRegister, PCs, InFlight, Before, Running, Goto,
            roomVars, turnVars, reqVars
<1>1. CASE InLoop(t)
  BY <1>1, InLoopFrame
<1>2. CASE AnnounceTurn(t)
  BY <1>2 DEF AnnounceTurn
<1>3. CASE Register(t)
  BY <1>3 DEF Register
<1>4. CASE Unregister(t)
  BY <1>4 DEF Unregister
<1>5. CASE ReleaseRoom(t)
  BY <1>5 DEF ReleaseRoom
<1> QED
  BY <1>1, <1>2, <1>3, <1>4, <1>5

(* Contexts are cancelled, and handles handed out, only past Register.      *)
LEMMA CancelReachNext ==
    ASSUME CancelInv, Next
    PROVE  CancelReach'
<1> USE TurnRuntimeAssumption
        DEF CancelInv, IInv, TypeOK, CancelReach, roomVars, turnVars, ctxVars,
            reqVars
<1>1. ASSUME NEW r \in Rooms, SaveRoom(r) \/ AnnounceRoom(r) \/ DeleteRoom(r)
      PROVE  CancelReach'
  BY <1>1 DEF SaveRoom, AnnounceRoom, DeleteRoom
<1>2. ASSUME NEW t \in Turns, NEW r \in Rooms, SubmitAnswer(t, r)
      PROVE  CancelReach'
  BY <1>2 DEF SubmitAnswer, Goto, PastRegister, Running
<1>3. ASSUME NEW t \in Turns, AnnounceTurn(t) \/ Register(t) \/ InLoop(t)
                                \/ Unregister(t) \/ ReleaseRoom(t)
      PROVE  CancelReach'
  <2>1. PICK l \in InFlight \cup {"finished"} :
               /\ pc' = [pc EXCEPT ![t] = l]
               /\ pc[t] \in PastRegister => l \in PastRegister
    BY <1>3, GoroutineFrame
  <2>2. UNCHANGED reqCancel
    BY <1>3, GoroutineFrame
  <2>3. UNCHANGED ctxDone \/ Unregister(t)
    BY <1>3, InLoopFrame DEF AnnounceTurn, Register, ReleaseRoom
  <2>4. ASSUME Unregister(t) PROVE ctxDone' = ctxDone \cup {t} /\ pc[t] \in PastRegister
    BY <2>4 DEF Unregister, PastRegister, Running
  <2> QED
    BY <2>1, <2>2, <2>3, <2>4
<1>4. ASSUME NEW q \in Requests, NEW r \in Rooms, CancelTurn(q, r)
      PROVE  CancelReach'
  BY <1>4 DEF CancelTurn
<1>5. ASSUME NEW q \in Requests, LookupCancel(q) PROVE CancelReach'
  BY <1>5 DEF LookupCancel, HandleIsRunningTurn, PastRegister
<1>6. ASSUME NEW q \in Requests, CallCancel(q) PROVE CancelReach'
  BY <1>6 DEF CallCancel
<1>7. ASSUME NEW q \in Requests, EmitCancelled(q) PROVE CancelReach'
  BY <1>7 DEF EmitCancelled
<1> QED
  BY <1>1, <1>2, <1>3, <1>4, <1>5, <1>6, <1>7, NextCases DEF Cancel

(* SubmitAnswer gives a turn a higher round than all turns of its room.     *)
LEMMA RoundsGrowNext ==
    ASSUME CancelInv, Next
    PROVE  RoundsGrow'
<1> USE TurnRuntimeAssumption
        DEF CancelInv, IInv, TypeOK, RoundsGrow, IsUpTo, Admitted, roomVars,
            turnVars
<1>1. ASSUME NEW r \in Rooms, SaveRoom(r) \/ AnnounceRoom(r) \/ DeleteRoom(r)
      PROVE  RoundsGrow'
  BY <1>1 DEF SaveRoom, AnnounceRoom, DeleteRoom
<1>2. ASSUME NEW t \in Turns, NEW r \in Rooms, SubmitAnswer(t, r)
      PROVE  RoundsGrow'
  <2>1. /\ pc[t] = "unused" /\ pc' = [pc EXCEPT ![t] = "announce"]
        /\ turnRoom' = [turnRoom EXCEPT ![t] = r]
        /\ round' = [round EXCEPT ![t] = NextRound(r)]
        /\ currentTurn' = [currentTurn EXCEPT ![r] = t]
    BY <1>2 DEF SubmitAnswer, Goto
  <2>2. ASSUME NEW u \in Turns, Admitted(u), turnRoom[u] = r
        PROVE  round[u] < NextRound(r)
    <3>1. IsUpTo(u, currentTurn[r]) /\ currentTurn[r] # None
      BY <2>2
    <3>2. round[u] \in Nat /\ round[currentTurn[r]] \in Nat
      BY <3>1
    <3> QED
      BY <3>1, <3>2 DEF NextRound
  <2>3. ASSUME NEW u \in Turns, Admitted(u)'
        PROVE  IsUpTo(u, currentTurn[turnRoom[u]])'
    <3>1. CASE u = t
      BY <2>1, <3>1
    <3>2. CASE u # t /\ turnRoom[u] = r
      BY <2>1, <2>2, <2>3, <3>2
    <3>3. CASE u # t /\ turnRoom[u] # r
      BY <2>1, <2>3, <3>3
    <3> QED
      BY <3>1, <3>2, <3>3
  <2> QED
    BY <2>3
<1>3. ASSUME NEW t \in Turns, AnnounceTurn(t) \/ Register(t) \/ InLoop(t)
                                \/ Unregister(t) \/ ReleaseRoom(t)
      PROVE  RoundsGrow'
  <2>1. PICK l \in InFlight \cup {"finished"} : pc' = [pc EXCEPT ![t] = l]
    BY <1>3, GoroutineFrame
  <2>2. l # "unused" /\ pc[t] # "unused"
    BY <1>3, GoroutineFrame DEF InFlight, Before, Running
  <2>3. UNCHANGED <<currentTurn, turnRoom, round>>
    BY <1>3, GoroutineFrame
  <2> QED
    BY <2>1, <2>2, <2>3
<1>4. ASSUME NEW q \in Requests,
             Cancel(q) \/ \E r \in Rooms : CancelTurn(q, r)
      PROVE  RoundsGrow'
  BY <1>4, RequestFrame
<1> QED
  BY <1>1, <1>2, <1>3, <1>4, NextCases
(* A step of a turn changes no request.                                     *)
LEMMA TurnStepFrame ==
    ASSUME TypeOK, NEW t \in Turns,
           AnnounceTurn(t) \/ Register(t) \/ InLoop(t) \/ Unregister(t)
               \/ ReleaseRoom(t)
    PROVE  /\ UNCHANGED <<turnRoom, round, reqPc, reqRoom, reqTurn, reqCancel>>
           /\ \A u \in Turns : Admitted(u) <=> Admitted(u)'
<1>1. PICK l \in InFlight \cup {"finished"} : pc' = [pc EXCEPT ![t] = l]
  BY GoroutineFrame
<1>2. Admitted(t) /\ l # "unused"
  BY GoroutineFrame DEF InFlight, Before, Running
<1>3. UNCHANGED <<turnRoom, round, reqVars>>
  BY GoroutineFrame
<1> QED
  BY <1>1, <1>2, <1>3 DEF Admitted, TypeOK, reqVars

(* The turn of a streaming room, and the turn that a handle belongs to.     *)
LEMMA StreamingTurn ==
    ASSUME TypeOK, SingleFlight, NEW r \in Rooms, roomState[r] = "streaming"
    PROVE  /\ currentTurn[r] \in Turns /\ Admitted(currentTurn[r])
           /\ turnRoom[currentTurn[r]] = r
<1>1. currentTurn[r] \in Turns
  BY DEF TypeOK, SingleFlight
<1> QED
  BY <1>1 DEF SingleFlight, Admitted, InFlight, Before, Running

LEMMA HandleIsCurrent ==
    ASSUME TypeOK, SingleFlight, HandleIsRunningTurn,
           NEW r \in Rooms, cancels[r] # None
    PROVE  /\ cancels[r] \in Turns /\ turnRoom[cancels[r]] = r
           /\ currentTurn[r] = cancels[r]
<1>1. cancels[r] \in Turns
  BY DEF TypeOK
<1>2. turnRoom[cancels[r]] = r /\ pc[cancels[r]] \in InFlight
  BY DEF HandleIsRunningTurn, InFlight
<1> QED
  BY <1>1, <1>2 DEF SingleFlight

(* What requests have read stays true: rooms and rounds of turns are fixed, *)
(* and a lookup finds the turn that runs, which no other is newer than.     *)
LEMMA RequestsNext ==
    ASSUME CancelInv, Next
    PROVE  RequestRead' /\ RequestFresh' /\ CancelNeverReachesBack'
<1> DEFINE Goal == RequestRead /\ RequestFresh /\ CancelNeverReachesBack
<1> USE TurnRuntimeAssumption
        DEF CancelInv, IInv, TypeOK, RequestRead, RequestFresh,
            CancelNeverReachesBack, Admitted, GoRequest, roomVars, turnVars,
            ctxVars, reqVars
<1>1. ASSUME NEW r \in Rooms, SaveRoom(r) \/ AnnounceRoom(r) \/ DeleteRoom(r)
      PROVE  Goal'
  BY <1>1 DEF SaveRoom, AnnounceRoom, DeleteRoom
<1>2. ASSUME NEW t \in Turns, NEW r \in Rooms, SubmitAnswer(t, r) PROVE Goal'
  <2>1. \A q \in Requests : /\ reqPc[q] # "unused" => reqTurn[q] # t
                            /\ reqCancel[q] # t
    BY <1>2 DEF SubmitAnswer, CancelReach, PastRegister, Running
  <2> QED
    BY <1>2, <2>1 DEF SubmitAnswer, Goto
<1>3. ASSUME NEW t \in Turns, AnnounceTurn(t) \/ Register(t) \/ InLoop(t)
                                \/ Unregister(t) \/ ReleaseRoom(t)
      PROVE  Goal'
  BY <1>3, TurnStepFrame
<1>4. ASSUME NEW q \in Requests, NEW r \in Rooms, CancelTurn(q, r) PROVE Goal'
  <2>1. /\ currentTurn[r] \in Turns /\ turnRoom[currentTurn[r]] = r
        /\ Admitted(currentTurn[r])
    BY <1>4, StreamingTurn DEF CancelTurn, IsStreaming
  <2> QED
    BY <1>4, <2>1 DEF CancelTurn
<1>5. ASSUME NEW q \in Requests, LookupCancel(q) PROVE Goal'
  <2>1. ASSUME cancels[reqRoom[q]] # None
        PROVE  LET t == cancels[reqRoom[q]] IN
               /\ turnRoom[t] = reqRoom[q]
               /\ t = reqTurn[q] \/ round[t] > round[reqTurn[q]]
    <3> DEFINE t == cancels[reqRoom[q]]
    <3>1. reqRoom[q] \in Rooms /\ reqPc[q] = "lookup"
      BY <1>5 DEF LookupCancel
    <3>2. /\ t \in Turns /\ turnRoom[t] = reqRoom[q]
          /\ currentTurn[reqRoom[q]] = t
      BY <3>1, <2>1, HandleIsCurrent
    <3>3. /\ reqTurn[q] \in Turns /\ Admitted(reqTurn[q])
          /\ turnRoom[reqTurn[q]] = reqRoom[q]
      BY <3>1
    <3>4. IsUpTo(reqTurn[q], currentTurn[turnRoom[reqTurn[q]]])
      BY <3>3 DEF RoundsGrow
    <3> QED
      BY <3>2, <3>3, <3>4 DEF IsUpTo
  <2>2. /\ reqPc[q] = "lookup" /\ reqPc' = [reqPc EXCEPT ![q] = "call"]
        /\ reqCancel' = [reqCancel EXCEPT ![q] = cancels[reqRoom[q]]]
        /\ UNCHANGED <<turnRoom, round, pc, reqRoom, reqTurn>>
    BY <1>5 DEF LookupCancel
  <2>3. RequestRead' /\ RequestFresh'
    BY <2>2
  <2>4. CancelNeverReachesBack'
    BY <2>1, <2>2
  <2> QED
    BY <2>3, <2>4
<1>6. ASSUME NEW q \in Requests, CallCancel(q) PROVE Goal'
  BY <1>6 DEF CallCancel
<1>7. ASSUME NEW q \in Requests, EmitCancelled(q) PROVE Goal'
  BY <1>7 DEF EmitCancelled
<1> QED
  BY <1>1, <1>2, <1>3, <1>4, <1>5, <1>6, <1>7, NextCases DEF Cancel

(* A request that has called a handle keeps it, and a deleted room stays.   *)
LEMMA CauseStays ==
    ASSUME CancelInv, Next, NEW t \in Turns, Admitted(t)
    PROVE  /\ Called(t) => Called(t)'
           /\ RoomGone(t) => RoomGone(t)'
<1> USE TurnRuntimeAssumption
        DEF CancelInv, IInv, TypeOK, Called, RoomGone, Admitted, GoRequest,
            roomVars, turnVars, ctxVars, reqVars
<1> DEFINE Goal == (Called(t) => Called(t)') /\ (RoomGone(t) => RoomGone(t)')
<1>1. ASSUME NEW r \in Rooms, SaveRoom(r) \/ AnnounceRoom(r) \/ DeleteRoom(r)
      PROVE  Goal
  BY <1>1 DEF SaveRoom, AnnounceRoom, DeleteRoom
<1>2. ASSUME NEW u \in Turns, NEW r \in Rooms, SubmitAnswer(u, r) PROVE Goal
  BY <1>2 DEF SubmitAnswer, CanStartTurn
<1>3. ASSUME NEW u \in Turns, AnnounceTurn(u) \/ Register(u) \/ InLoop(u)
                                \/ Unregister(u) \/ ReleaseRoom(u)
      PROVE  Goal
  <2>1. UNCHANGED <<turnRoom, reqPc, reqCancel>>
    BY <1>3, TurnStepFrame
  <2>2. UNCHANGED roomState \/ ReleaseRoom(u)
    BY <1>3, InLoopFrame DEF AnnounceTurn, Register, Unregister
  <2>3. RoomGone(t) => RoomGone(t)'
    BY <2>1, <2>2 DEF ReleaseRoom
  <2> QED
    BY <2>1, <2>3
<1>4. ASSUME NEW q \in Requests, NEW r \in Rooms, CancelTurn(q, r) PROVE Goal
  BY <1>4 DEF CancelTurn
<1>5. ASSUME NEW q \in Requests, LookupCancel(q) PROVE Goal
  BY <1>5 DEF LookupCancel
<1>6. ASSUME NEW q \in Requests, CallCancel(q) PROVE Goal
  BY <1>6 DEF CallCancel
<1>7. ASSUME NEW q \in Requests, EmitCancelled(q) PROVE Goal
  BY <1>7 DEF EmitCancelled
<1> QED
  BY <1>1, <1>2, <1>3, <1>4, <1>5, <1>6, <1>7, NextCases DEF Cancel
(* A context that becomes done was cancelled by a request, or by the        *)
(* clean-up of its own turn.                                                *)
LEMMA DoneContextCalled ==
    ASSUME CancelInv, Next, NEW t \in Turns, t \in ctxDone', t \notin ctxDone,
           ~Unregister(t)
    PROVE  Called(t)'
<1> USE DEF CancelInv, IInv, TypeOK, roomVars, turnVars, ctxVars, reqVars
<1>1. ASSUME NEW r \in Rooms, SaveRoom(r) \/ AnnounceRoom(r) \/ DeleteRoom(r)
      PROVE  FALSE
  BY <1>1 DEF SaveRoom, AnnounceRoom, DeleteRoom
<1>2. ASSUME NEW u \in Turns, NEW r \in Rooms, SubmitAnswer(u, r) PROVE FALSE
  BY <1>2 DEF SubmitAnswer
<1>3. ASSUME NEW u \in Turns, AnnounceTurn(u) \/ Register(u) \/ InLoop(u)
                                \/ Unregister(u) \/ ReleaseRoom(u)
      PROVE  FALSE
  BY <1>3, InLoopFrame DEF AnnounceTurn, Register, Unregister, ReleaseRoom
<1>4. ASSUME NEW q \in Requests, NEW r \in Rooms, CancelTurn(q, r) PROVE FALSE
  BY <1>4 DEF CancelTurn
<1>5. ASSUME NEW q \in Requests, LookupCancel(q) PROVE FALSE
  BY <1>5 DEF LookupCancel
<1>6. ASSUME NEW q \in Requests, CallCancel(q) PROVE Called(t)'
  BY <1>6 DEF CallCancel, Called, GoRequest
<1>7. ASSUME NEW q \in Requests, EmitCancelled(q) PROVE FALSE
  BY <1>7 DEF EmitCancelled
<1> QED
  BY <1>1, <1>2, <1>3, <1>4, <1>5, <1>6, <1>7, NextCases DEF Cancel

(* How a turn can come to the places that StopHasCause speaks of.           *)
LEMMA StopSteps ==
    ASSUME CancelInv, Next, NEW t \in Turns
    PROVE  /\ pc'[t] \in Running => pc[t] \in Running \/ t \notin ctxDone
           /\ pc'[t] = "notfound" =>
                 \/ pc[t] = "notfound"
                 \/ pc[t] = "load" /\ RoomGone(t)
           /\ pc'[t] = "unregister" /\ turnState'[t] = "streaming" =>
                 \/ pc[t] = "notfound"
                 \/ pc[t] = "unregister" /\ turnState[t] = "streaming"
                 \/ pc[t] \in Running /\ t \in ctxDone
<1> USE DEF CancelInv, IInv, TypeOK, PCs, InFlight, Before, Running, Goto,
            roomVars, turnVars
<1> DEFINE Goal ==
    /\ pc'[t] \in Running => pc[t] \in Running \/ t \notin ctxDone
    /\ pc'[t] = "notfound" =>
          \/ pc[t] = "notfound"
          \/ pc[t] = "load" /\ RoomGone(t)
    /\ pc'[t] = "unregister" /\ turnState'[t] = "streaming" =>
          \/ pc[t] = "notfound"
          \/ pc[t] = "unregister" /\ turnState[t] = "streaming"
          \/ pc[t] \in Running /\ t \in ctxDone
<1>1. ASSUME NEW r \in Rooms, SaveRoom(r) \/ AnnounceRoom(r) \/ DeleteRoom(r)
      PROVE  Goal
  BY <1>1 DEF SaveRoom, AnnounceRoom, DeleteRoom
<1>2. ASSUME NEW u \in Turns, NEW r \in Rooms, SubmitAnswer(u, r) PROVE Goal
  BY <1>2 DEF SubmitAnswer
<1>3. ASSUME NEW u \in Turns, AnnounceTurn(u) \/ Register(u) PROVE Goal
  BY <1>3 DEF AnnounceTurn, Register, CancelReach, PastRegister
<1>4. ASSUME NEW u \in Turns, InLoop(u) PROVE Goal
  <2>1. CASE LoadRoom(u)
    BY <2>1 DEF LoadRoom, RoomGone
  <2>2. CASE EmitRoomNotFound(u) \/ StopAgents(u)
    BY <2>2 DEF EmitRoomNotFound, StopAgents
  <2>3. CASE StartAgent(u) \/ FinishAgents(u) \/ EmitToken(u)
    BY <2>3 DEF StartAgent, FinishAgents, EmitToken
  <2>4. CASE EmitStreamError(u) \/ StreamCancelled(u) \/ ReceiveDone(u)
    BY <2>4 DEF EmitStreamError, StreamCancelled, ReceiveDone, ReturnFromStream
  <2>5. CASE ReceiveToken(u) \/ ReceiveError(u)
    BY <2>5 DEF ReceiveToken, ReceiveError
  <2>6. CASE CompleteTurn(u) \/ EmitCompleted(u)
    BY <2>6 DEF CompleteTurn, EmitCompleted, StateAtPc
  <2> QED
    BY <1>4, <2>1, <2>2, <2>3, <2>4, <2>5, <2>6 DEF InLoop, Provider
<1>5. ASSUME NEW u \in Turns, Unregister(u) PROVE Goal
  BY <1>5 DEF Unregister
<1>6. ASSUME NEW u \in Turns, ReleaseRoom(u) PROVE Goal
  BY <1>6 DEF ReleaseRoom, SingleFlight, StateAtPc
<1>7. ASSUME NEW q \in Requests,
             Cancel(q) \/ \E r \in Rooms : CancelTurn(q, r)
      PROVE  Goal
  BY <1>7, RequestFrame
<1> QED
  BY <1>1, <1>2, <1>3, <1>4, <1>5, <1>6, <1>7, NextCases

(* A turn stops short of its completion for a cause.                        *)
LEMMA StopHasCauseNext ==
    ASSUME CancelInv, Next
    PROVE  StopHasCause'
<1> SUFFICES ASSUME NEW t \in Turns
             PROVE  /\ t \in ctxDone' /\ pc'[t] \in Running => Called(t)'
                    /\ pc'[t] = "notfound" => RoomGone(t)'
                    /\ pc'[t] = "unregister" /\ turnState'[t] = "streaming" =>
                          RoomGone(t)' \/ Called(t)'
  BY DEF StopHasCause
<1> USE DEF StopHasCause
<1>1. Admitted(t) => (Called(t) => Called(t)') /\ (RoomGone(t) => RoomGone(t)')
  BY CauseStays
<1>2. ASSUME t \in ctxDone', pc'[t] \in Running PROVE Called(t)'
  <2>1. ~Unregister(t)
    BY <1>2 DEF Unregister, Goto, Running, CancelInv, IInv, TypeOK
  <2>2. CASE t \in ctxDone
    BY <1>1, <1>2, <2>2, StopSteps DEF CancelInv, Running, Admitted
  <2>3. CASE t \notin ctxDone
    BY <1>2, <2>1, <2>3, DoneContextCalled
  <2> QED
    BY <2>2, <2>3
<1>3. ASSUME pc'[t] = "notfound" PROVE RoomGone(t)'
  BY <1>1, <1>3, StopSteps DEF CancelInv, Admitted
<1>4. ASSUME pc'[t] = "unregister", turnState'[t] = "streaming"
      PROVE  RoomGone(t)' \/ Called(t)'
  BY <1>1, <1>4, StopSteps DEF CancelInv, Admitted, Running
<1> QED
  BY <1>2, <1>3, <1>4

(* Only the clean-up of a turn records it as cancelled.                     *)
LEMMA CancelledStep ==
    ASSUME CancelInv, Next, NEW t \in Turns, turnState'[t] = "cancelled"
    PROVE  \/ turnState[t] = "cancelled"
           \/ pc[t] = "unregister" /\ turnState[t] = "streaming"
<1> USE DEF CancelInv, IInv, TypeOK, roomVars, turnVars
<1>1. ASSUME NEW r \in Rooms, SaveRoom(r) \/ AnnounceRoom(r) \/ DeleteRoom(r)
      PROVE  turnState[t] = "cancelled"
  BY <1>1 DEF SaveRoom, AnnounceRoom, DeleteRoom
<1>2. ASSUME NEW u \in Turns, NEW r \in Rooms, SubmitAnswer(u, r)
      PROVE  turnState[t] = "cancelled"
  BY <1>2 DEF SubmitAnswer
<1>3. ASSUME NEW u \in Turns, AnnounceTurn(u) \/ Register(u)
      PROVE  turnState[t] = "cancelled"
  BY <1>3 DEF AnnounceTurn, Register
<1>4. ASSUME NEW u \in Turns, InLoop(u) PROVE turnState[t] = "cancelled"
  BY <1>4 DEF InLoop, LoadRoom, EmitRoomNotFound, StopAgents, StartAgent,
              FinishAgents, EmitToken, EmitStreamError, CompleteTurn,
              EmitCompleted, Provider, StreamCancelled, ReceiveToken, ReceiveDone, ReceiveError
<1>5. ASSUME NEW u \in Turns, Unregister(u)
      PROVE  \/ turnState[t] = "cancelled"
             \/ pc[t] = "unregister" /\ turnState[t] = "streaming"
  BY <1>5 DEF Unregister
<1>6. ASSUME NEW u \in Turns, ReleaseRoom(u) PROVE turnState[t] = "cancelled"
  BY <1>6 DEF ReleaseRoom, SingleFlight, InFlight
<1>7. ASSUME NEW q \in Requests,
             Cancel(q) \/ \E r \in Rooms : CancelTurn(q, r)
      PROVE  turnState[t] = "cancelled"
  BY <1>7, RequestFrame
<1> QED
  BY <1>1, <1>2, <1>3, <1>4, <1>5, <1>6, <1>7, NextCases

LEMMA CancelledNext ==
    ASSUME CancelInv, Next
    PROVE  CancelledOnlyOnRequest'
<1> SUFFICES ASSUME NEW t \in Turns, turnState'[t] = "cancelled"
             PROVE  RoomGone(t)' \/ Called(t)'
  BY DEF CancelledOnlyOnRequest, RoomGone, Called
<1>1. Admitted(t)
  BY CancelledStep DEF CancelInv, IInv, StateAtPc, TypeOK, PCs, Admitted
<1>2. RoomGone(t) \/ Called(t)
  BY CancelledStep
     DEF CancelInv, StopHasCause, CancelledOnlyOnRequest, RoomGone, Called
<1> QED
  BY <1>1, <1>2, CauseStays

(* CancelInv is inductive.                                                  *)
LEMMA CancelInvNext == CancelInv /\ [Next]_vars => CancelInv'
<1>1. ASSUME CancelInv, Next PROVE CancelInv'
  BY <1>1, IInvNext, CancelReachNext, RoundsGrowNext, RequestsNext,
     StopHasCauseNext, CancelledNext
     DEF CancelInv
<1>2. ASSUME CancelInv, UNCHANGED vars PROVE CancelInv'
  <2>1. IInv'
    BY <1>2, IInvNext DEF CancelInv
  <2> QED
    BY <1>2, <2>1 DEF CancelInv, CancelReach, RoundsGrow, IsUpTo, Admitted,
       RequestRead, RequestFresh, StopHasCause, CancelledOnlyOnRequest, Called,
       RoomGone, CancelNeverReachesBack, vars, roomVars, turnVars, ctxVars,
       reqVars
<1> QED
  BY <1>1, <1>2

THEOREM CancelInductive == Spec => []CancelInv
BY InitCancelInv, CancelInvNext, PTL DEF Spec

(* A cancel that comes late reaches its turn or a later one of the room,    *)
(* never one that is over.                                                  *)
THEOREM LateCancelReachesForward == Spec => []CancelNeverReachesBack
<1>1. CancelInv => CancelNeverReachesBack
  BY DEF CancelInv
<1> QED
  BY <1>1, CancelInductive, PTL

(* Nothing but a request that called its cancel func, or the deletion of    *)
(* its room, makes a turn end as cancelled.                                 *)
THEOREM CancelledHasCause == Spec => []CancelledOnlyOnRequest
<1>1. CancelInv => CancelledOnlyOnRequest
  BY DEF CancelInv
<1> QED
  BY <1>1, CancelInductive, PTL
=============================================================================
