-------------------------- MODULE TurnRuntimeProofs --------------------------
(***************************************************************************)
(* Theorems about TurnRuntime, for any number of rooms, turns, requests,   *)
(* agents and tokens.                                                      *)
(***************************************************************************)
EXTENDS TurnRuntime, TLAPS

(* What the state of a turn is at each point of its execution.              *)
StateAtPc ==
    \A t \in Turns :
        /\ pc[t] = "unused" => turnState[t] = "none"
        /\ pc[t] \in Before => turnState[t] = "pending"
        /\ pc[t] \in Running \ {"completed", "unregister"} =>
              turnState[t] = "streaming"
        /\ pc[t] = "completed" => turnState[t] = "done"
        /\ pc[t] = "unregister" => turnState[t] \in {"streaming", "done"}
        /\ pc[t] \in {"release", "finished"} =>
              turnState[t] \in {"done", "cancelled"}

(* How many agents have run when a turn is in, or past, the agent loop.     *)
AgentsAtPc ==
    \A t \in Turns :
        /\ pc[t] \in {"stream", "token", "error"} => Len(responses[t]) < NumAgents
        /\ pc[t] \in {"complete", "completed"} => Len(responses[t]) = NumAgents

IInv ==
    /\ TypeOK
    /\ StateAtPc
    /\ AgentsAtPc
    /\ DoneMeansAllAgents
    /\ SingleFlight
    /\ HandleIsRunningTurn

-----------------------------------------------------------------------------
(* Appending an event of the right type keeps the type of the log.          *)
LEMMA EmitType ==
    ASSUME log \in [Rooms -> Seq(Event)],
           NEW r \in Rooms, NEW e \in Event, Emit(r, e)
    PROVE  log' \in [Rooms -> Seq(Event)]
BY DEF Emit

(* NewEvent builds an event.                                                *)
LEMMA NewEventType ==
    ASSUME NEW type \in EventTypes, NEW t \in Turns \cup {None},
           NEW a \in 0..NumAgents
    PROVE  NewEvent(type, t, a) \in Event
BY DEF NewEvent, Event

(* The initial state satisfies the inductive invariant.                     *)
LEMMA InitIInv == Init => IInv
<1> SUFFICES ASSUME Init PROVE IInv
  OBVIOUS
<1> USE TurnRuntimeAssumption
<1>1. TypeOK
  BY DEF Init, TypeOK, RoomStates, TurnStates, PCs
<1>2. StateAtPc /\ AgentsAtPc /\ DoneMeansAllAgents
  BY DEF Init, StateAtPc, AgentsAtPc, DoneMeansAllAgents, Before, Running
<1>3. SingleFlight /\ HandleIsRunningTurn
  BY DEF Init, SingleFlight, HandleIsRunningTurn, InFlight, Before, Running
<1>4. QED
  BY <1>1, <1>2, <1>3 DEF IInv

-----------------------------------------------------------------------------
(* The steps of a turn's goroutine between Register and Unregister.         *)
InLoop(t) ==
    \/ LoadRoom(t) \/ EmitRoomNotFound(t)
    \/ StopAgents(t) \/ StartAgent(t) \/ FinishAgents(t)
    \/ EmitToken(t) \/ EmitStreamError(t)
    \/ CompleteTurn(t) \/ EmitCompleted(t)
    \/ Provider(t)

(* Next, with those steps and those of a cancel request put together.       *)
LEMMA NextCases ==
    ASSUME Next
    PROVE  \/ \E r \in Rooms : SaveRoom(r) \/ AnnounceRoom(r) \/ DeleteRoom(r)
           \/ \E t \in Turns, r \in Rooms : SubmitAnswer(t, r)
           \/ \E t \in Turns : \/ AnnounceTurn(t) \/ Register(t) \/ InLoop(t)
                               \/ Unregister(t) \/ ReleaseRoom(t)
           \/ \E q \in Requests : Cancel(q) \/ \E r \in Rooms : CancelTurn(q, r)
BY DEF Next, Goroutine, InLoop

(* Inside the loop a turn's goroutine moves itself only, touches no room,   *)
(* no handle and no context, and stays a running turn.                      *)
LEMMA InLoopFrame ==
    ASSUME TypeOK, NEW t \in Turns, InLoop(t)
    PROVE  /\ pc[t] \in Running \ {"unregister"}
           /\ \E l \in Running : pc' = [pc EXCEPT ![t] = l]
           /\ UNCHANGED <<roomVars, turnRoom, round, ctxVars, reqVars>>
BY DEF TypeOK, InLoop, LoadRoom, EmitRoomNotFound, StopAgents, StartAgent,
       FinishAgents, EmitToken, EmitStreamError, CompleteTurn, EmitCompleted,
       Provider, StreamCancelled, ReceiveToken, ReceiveDone, ReceiveError,
       ReturnFromStream, Goto, Running, roomVars, turnVars, ctxVars, reqVars

(* A cancel request changes no room, no turn and no handle.                 *)
LEMMA RequestFrame ==
    ASSUME NEW q \in Requests,
           Cancel(q) \/ \E r \in Rooms : CancelTurn(q, r)
    PROVE  UNCHANGED <<roomVars, turnVars, cancels, pc, tokens>>
BY DEF Cancel, CancelTurn, LookupCancel, CallCancel, EmitCancelled, ctxVars

(* A step of the loop keeps the types: the provider sends at most MaxTokens *)
(* tokens, and an agent's events carry the index of an agent that exists.   *)
LEMMA TypeOKInLoop ==
    ASSUME IInv, NEW t \in Turns, InLoop(t)
    PROVE  TypeOK'
<1> USE TurnRuntimeAssumption
        DEF IInv, TypeOK, AgentsAtPc, PCs, InFlight, Before, Running, Goto,
            roomVars, turnVars, ctxVars, reqVars
<1>1. CASE LoadRoom(t)
  BY <1>1 DEF LoadRoom
<1>2. CASE EmitRoomNotFound(t)
  BY <1>2, EmitType, NewEventType DEF EmitRoomNotFound, EventTypes, TurnEvents
<1>3a. CASE StopAgents(t)
  BY <1>3a DEF StopAgents
<1>3b. CASE StartAgent(t)
  BY <1>3b DEF StartAgent
<1>3c. CASE FinishAgents(t)
  BY <1>3c DEF FinishAgents
<1>4. CASE EmitToken(t)
  BY <1>4, EmitType, NewEventType DEF EmitToken, Agent, EventTypes, TurnEvents
<1>5. CASE EmitStreamError(t)
  BY <1>5, EmitType, NewEventType
     DEF EmitStreamError, Agent, ReturnFromStream, EventTypes, TurnEvents
<1>6. CASE CompleteTurn(t)
  BY <1>6 DEF CompleteTurn, TurnStates
<1>6b. CASE EmitCompleted(t)
  BY <1>6b, EmitType, NewEventType DEF EmitCompleted, EventTypes, TurnEvents
<1>7a. CASE StreamCancelled(t)
  BY <1>7a DEF StreamCancelled, ReturnFromStream
<1>7b. CASE ReceiveDone(t)
  BY <1>7b DEF ReceiveDone, ReturnFromStream
<1>8a. CASE ReceiveToken(t)
  BY <1>8a DEF ReceiveToken
<1>8b. CASE ReceiveError(t)
  BY <1>8b DEF ReceiveError
<1>9. QED
  BY <1>1, <1>2, <1>3a, <1>3b, <1>3c, <1>4, <1>5, <1>6, <1>7a, <1>7b, <1>8a,
     <1>8b, <1>6b
     DEF InLoop, Provider

(* The event of a cancel request names a turn, or nil.                      *)
LEMMA CancelEventType ==
    ASSUME TypeOK, NEW q \in Requests
    PROVE  NewEvent("turn_cancelled", reqTurn[q], 0) \in Event
<1>1. reqTurn[q] \in Turns \cup {None} /\ 0 \in 0..NumAgents
  BY TurnRuntimeAssumption DEF TypeOK
<1>2. QED
  BY <1>1, NewEventType DEF EventTypes

(* The event of a new room names no turn.                                   *)
LEMMA RoomEventType == NewEvent("room_created", None, 0) \in Event
<1>1. 0 \in 0..NumAgents
  BY TurnRuntimeAssumption
<1>2. QED
  BY <1>1, NewEventType DEF EventTypes

(* Type correctness is preserved by every step.                             *)
LEMMA TypeOKNext ==
    ASSUME IInv, Next
    PROVE  TypeOK'
<1> USE TurnRuntimeAssumption
        DEF IInv, TypeOK, PCs, InFlight, Before, Running, RoomStates, TurnStates,
            Goto, GoRequest, roomVars, turnVars, ctxVars, reqVars
<1>1a. ASSUME NEW r \in Rooms, SaveRoom(r) PROVE TypeOK'
  BY <1>1a DEF SaveRoom
<1>1b. ASSUME NEW r \in Rooms, DeleteRoom(r) PROVE TypeOK'
  BY <1>1b DEF DeleteRoom
<1>2. ASSUME NEW r \in Rooms, AnnounceRoom(r) PROVE TypeOK'
  BY <1>2, EmitType, RoomEventType DEF AnnounceRoom
<1>3. ASSUME NEW t \in Turns, NEW r \in Rooms, SubmitAnswer(t, r) PROVE TypeOK'
  BY <1>3 DEF SubmitAnswer, NextRound
<1>4. ASSUME NEW t \in Turns, AnnounceTurn(t) PROVE TypeOK'
  BY <1>4, EmitType, NewEventType DEF AnnounceTurn, EventTypes, TurnEvents
<1>5. ASSUME NEW t \in Turns, Register(t) PROVE TypeOK'
  BY <1>5 DEF Register
<1>6. ASSUME NEW t \in Turns, InLoop(t) PROVE TypeOK'
  BY <1>6, TypeOKInLoop
<1>7. ASSUME NEW t \in Turns, Unregister(t) PROVE TypeOK'
  BY <1>7 DEF Unregister
<1>8. ASSUME NEW t \in Turns, ReleaseRoom(t) PROVE TypeOK'
  BY <1>8 DEF ReleaseRoom
<1>9. ASSUME NEW q \in Requests, NEW r \in Rooms, CancelTurn(q, r) PROVE TypeOK'
  BY <1>9 DEF CancelTurn
<1>10a. ASSUME NEW q \in Requests, LookupCancel(q) PROVE TypeOK'
  BY <1>10a DEF LookupCancel
<1>10b. ASSUME NEW q \in Requests, CallCancel(q) PROVE TypeOK'
  BY <1>10b DEF CallCancel
<1>11. ASSUME NEW q \in Requests, EmitCancelled(q) PROVE TypeOK'
  BY <1>11, EmitType, CancelEventType DEF EmitCancelled
<1>12. QED
  BY <1>1a, <1>1b, <1>2, <1>3, <1>4, <1>5, <1>6, <1>7, <1>8, <1>9, <1>10a,
     <1>10b, <1>11, NextCases DEF Cancel

(* The state of a turn keeps in step with its execution; the write-back to  *)
(* CurrentTurn in ReleaseRoom writes the turn's own state.                  *)
LEMMA StateAtPcNext ==
    ASSUME IInv, Next
    PROVE  StateAtPc'
<1> USE DEF IInv, TypeOK, StateAtPc, PCs, InFlight, Before, Running, Goto,
            roomVars, turnVars, ctxVars
<1>1. ASSUME NEW r \in Rooms, SaveRoom(r) \/ AnnounceRoom(r) \/ DeleteRoom(r)
      PROVE  StateAtPc'
  BY <1>1 DEF SaveRoom, AnnounceRoom, DeleteRoom
<1>2. ASSUME NEW t \in Turns, NEW r \in Rooms, SubmitAnswer(t, r)
      PROVE  StateAtPc'
  BY <1>2 DEF SubmitAnswer
<1>3. ASSUME NEW t \in Turns, AnnounceTurn(t) \/ Register(t) PROVE StateAtPc'
  BY <1>3 DEF AnnounceTurn, Register
<1>4. ASSUME NEW t \in Turns, InLoop(t) PROVE StateAtPc'
  BY <1>4 DEF InLoop, LoadRoom, EmitRoomNotFound, StopAgents, StartAgent,
              FinishAgents, EmitToken, EmitStreamError, CompleteTurn,
              EmitCompleted, Provider, StreamCancelled, ReceiveToken, ReceiveDone, ReceiveError,
              ReturnFromStream
<1>5. ASSUME NEW t \in Turns, Unregister(t) PROVE StateAtPc'
  BY <1>5 DEF Unregister
<1>6. ASSUME NEW t \in Turns, ReleaseRoom(t) PROVE StateAtPc'
  BY <1>6 DEF ReleaseRoom, SingleFlight
<1>7. ASSUME NEW q \in Requests,
             Cancel(q) \/ \E r \in Rooms : CancelTurn(q, r)
      PROVE  StateAtPc'
  BY <1>7, RequestFrame
<1>8. QED
  BY <1>1, <1>2, <1>3, <1>4, <1>5, <1>6, <1>7, NextCases

(* The agent loop counts: an agent starts only while one is left, and the   *)
(* turn completes only when none is.                                        *)
LEMMA AgentsNext ==
    ASSUME IInv, Next
    PROVE  AgentsAtPc' /\ DoneMeansAllAgents'
<1> DEFINE Goal == AgentsAtPc /\ DoneMeansAllAgents
<1> USE TurnRuntimeAssumption
        DEF IInv, TypeOK, StateAtPc, AgentsAtPc, DoneMeansAllAgents, PCs,
            InFlight, Before, Running, Goto, roomVars, turnVars, ctxVars
<1>1. ASSUME NEW r \in Rooms, SaveRoom(r) \/ AnnounceRoom(r) \/ DeleteRoom(r)
      PROVE  Goal'
  BY <1>1 DEF SaveRoom, AnnounceRoom, DeleteRoom
<1>2. ASSUME NEW t \in Turns, NEW r \in Rooms, SubmitAnswer(t, r) PROVE Goal'
  BY <1>2 DEF SubmitAnswer
<1>3. ASSUME NEW t \in Turns, AnnounceTurn(t) \/ Register(t) PROVE Goal'
  BY <1>3 DEF AnnounceTurn, Register
<1>4. ASSUME NEW t \in Turns, InLoop(t) PROVE Goal'
  <2>1. CASE \/ LoadRoom(t) \/ EmitRoomNotFound(t) \/ EmitToken(t)
             \/ ReceiveToken(t) \/ ReceiveError(t)
             \/ CompleteTurn(t) \/ EmitCompleted(t)
    BY <2>1 DEF LoadRoom, EmitRoomNotFound, EmitToken, ReceiveToken,
                ReceiveError, CompleteTurn, EmitCompleted
  <2>2. CASE StopAgents(t) \/ StartAgent(t) \/ FinishAgents(t)
    BY <2>2 DEF StopAgents, StartAgent, FinishAgents, MoreAgents
  <2>3. CASE EmitStreamError(t)
    BY <2>3 DEF EmitStreamError, ReturnFromStream
  <2>4. CASE StreamCancelled(t)
    BY <2>4 DEF StreamCancelled, ReturnFromStream
  <2>5. CASE ReceiveDone(t)
    BY <2>5 DEF ReceiveDone, ReturnFromStream
  <2>6. QED
    BY <1>4, <2>1, <2>2, <2>3, <2>4, <2>5 DEF InLoop, Provider
<1>5. ASSUME NEW t \in Turns, Unregister(t) PROVE Goal'
  BY <1>5 DEF Unregister
<1>6. ASSUME NEW t \in Turns, ReleaseRoom(t) PROVE Goal'
  BY <1>6 DEF ReleaseRoom, SingleFlight
<1>7. ASSUME NEW q \in Requests,
             Cancel(q) \/ \E r \in Rooms : CancelTurn(q, r)
      PROVE  Goal'
  BY <1>7, RequestFrame
<1>8. QED
  BY <1>1, <1>2, <1>3, <1>4, <1>5, <1>6, <1>7, NextCases

(* One turn in flight per room.                                             *)
LEMMA SingleFlightNext ==
    ASSUME IInv, Next
    PROVE  SingleFlight'
<1> USE TurnRuntimeAssumption
        DEF IInv, TypeOK, SingleFlight, PCs, InFlight, Before, Running, Goto,
            roomVars, turnVars
<1>1. ASSUME NEW r \in Rooms, SaveRoom(r) \/ AnnounceRoom(r) \/ DeleteRoom(r)
      PROVE  SingleFlight'
  <2>1. CASE SaveRoom(r)
    BY <2>1 DEF SaveRoom
  <2>2. CASE AnnounceRoom(r)
    BY <2>2 DEF AnnounceRoom
  <2>3. CASE DeleteRoom(r)
    BY <2>3 DEF DeleteRoom
  <2>4. QED
    BY <1>1, <2>1, <2>2, <2>3
<1>2. ASSUME NEW t \in Turns, NEW r \in Rooms, SubmitAnswer(t, r)
      PROVE  SingleFlight'
  <2>1. \A u \in Turns : pc[u] \in InFlight => turnRoom[u] # r /\ u # t
    BY <1>2 DEF SubmitAnswer, CanStartTurn
  <2>2. QED
    BY <1>2, <2>1 DEF SubmitAnswer
<1>3a. ASSUME NEW t \in Turns, AnnounceTurn(t) PROVE SingleFlight'
  BY <1>3a DEF AnnounceTurn
<1>3b. ASSUME NEW t \in Turns, Register(t) PROVE SingleFlight'
  BY <1>3b DEF Register
<1>4. ASSUME NEW t \in Turns, InLoop(t) PROVE SingleFlight'
  <2>1. PICK l \in Running : pc' = [pc EXCEPT ![t] = l]
    BY <1>4, InLoopFrame
  <2>2. /\ pc[t] \in Running
        /\ UNCHANGED <<roomState, currentTurn, turnRoom, cancels>>
    BY <1>4, InLoopFrame DEF ctxVars
  <2>3. QED
    BY <2>1, <2>2
<1>5. ASSUME NEW t \in Turns, Unregister(t) PROVE SingleFlight'
  BY <1>5 DEF Unregister
<1>6. ASSUME NEW t \in Turns, ReleaseRoom(t) PROVE SingleFlight'
  BY <1>6 DEF ReleaseRoom
<1>7. ASSUME NEW q \in Requests,
             Cancel(q) \/ \E r \in Rooms : CancelTurn(q, r)
      PROVE  SingleFlight'
  BY <1>7, RequestFrame
<1>8. QED
  BY <1>1, <1>2, <1>3a, <1>3b, <1>4, <1>5, <1>6, <1>7, NextCases

(* The handle in the map is that of the running turn: it rests on           *)
(* SingleFlight, without which a second Register would replace the entry.   *)
LEMMA HandleNext ==
    ASSUME IInv, Next
    PROVE  HandleIsRunningTurn'
<1> USE TurnRuntimeAssumption
        DEF IInv, TypeOK, SingleFlight, HandleIsRunningTurn, PCs, InFlight,
            Before, Running, Goto, roomVars, turnVars, ctxVars
<1>1. ASSUME NEW r \in Rooms, SaveRoom(r) \/ AnnounceRoom(r) \/ DeleteRoom(r)
      PROVE  HandleIsRunningTurn'
  <2>1. CASE SaveRoom(r)
    BY <2>1 DEF SaveRoom
  <2>2. CASE AnnounceRoom(r)
    BY <2>2 DEF AnnounceRoom
  <2>3. CASE DeleteRoom(r)
    BY <2>3 DEF DeleteRoom
  <2>4. QED
    BY <1>1, <2>1, <2>2, <2>3
<1>2. ASSUME NEW t \in Turns, NEW r \in Rooms, SubmitAnswer(t, r)
      PROVE  HandleIsRunningTurn'
  BY <1>2 DEF SubmitAnswer
<1>3a. ASSUME NEW t \in Turns, AnnounceTurn(t) PROVE HandleIsRunningTurn'
  BY <1>3a DEF AnnounceTurn
<1>3b. ASSUME NEW t \in Turns, Register(t) PROVE HandleIsRunningTurn'
  BY <1>3b DEF Register
<1>4. ASSUME NEW t \in Turns, InLoop(t) PROVE HandleIsRunningTurn'
  <2>1. PICK l \in Running : pc' = [pc EXCEPT ![t] = l]
    BY <1>4, InLoopFrame
  <2>2. /\ pc[t] \in Running
        /\ UNCHANGED <<roomState, currentTurn, turnRoom, cancels>>
    BY <1>4, InLoopFrame DEF ctxVars
  <2>3. QED
    BY <2>1, <2>2
<1>5. ASSUME NEW t \in Turns, Unregister(t) PROVE HandleIsRunningTurn'
  BY <1>5 DEF Unregister
<1>6. ASSUME NEW t \in Turns, ReleaseRoom(t) PROVE HandleIsRunningTurn'
  BY <1>6 DEF ReleaseRoom
<1>7. ASSUME NEW q \in Requests,
             Cancel(q) \/ \E r \in Rooms : CancelTurn(q, r)
      PROVE  HandleIsRunningTurn'
  BY <1>7, RequestFrame
<1>8. QED
  BY <1>1, <1>2, <1>3a, <1>3b, <1>4, <1>5, <1>6, <1>7, NextCases

(* IInv is inductive.                                                       *)
LEMMA IInvNext == IInv /\ [Next]_vars => IInv'
<1>1. ASSUME IInv, Next PROVE IInv'
  BY <1>1, TypeOKNext, StateAtPcNext, AgentsNext, SingleFlightNext, HandleNext
     DEF IInv
<1>2. ASSUME IInv, UNCHANGED vars PROVE IInv'
  BY <1>2 DEF IInv, TypeOK, StateAtPc, AgentsAtPc, DoneMeansAllAgents,
              SingleFlight, HandleIsRunningTurn, vars, roomVars, turnVars,
              ctxVars, reqVars
<1>3. QED
  BY <1>1, <1>2

THEOREM Inductive == Spec => []IInv
BY InitIInv, IInvNext, PTL DEF Spec

(* The types of the state, for every instance.                              *)
THEOREM TypeCorrect == Spec => []TypeOK
<1>1. IInv => TypeOK
  BY DEF IInv
<1>2. QED
  BY <1>1, Inductive, PTL

(* However submits, cancels, deletions and clean-ups interleave, a room is  *)
(* streaming exactly while one turn of it is in flight.                     *)
THEOREM OneTurnPerRoom == Spec => []SingleFlight
<1>1. IInv => SingleFlight
  BY DEF IInv
<1>2. QED
  BY <1>1, Inductive, PTL

(* A running turn can always be reached through TurnRuntime.cancels, and    *)
(* nothing else can.                                                        *)
THEOREM RunningTurnReachable == Spec => []HandleIsRunningTurn
<1>1. IInv => HandleIsRunningTurn
  BY DEF IInv
<1>2. QED
  BY <1>1, Inductive, PTL

(* A turn that is done has run every agent of its scenery, each once.       *)
THEOREM AllAgentsRun == Spec => []DoneMeansAllAgents
<1>1. IInv => DoneMeansAllAgents
  BY DEF IInv
<1>2. QED
  BY <1>1, Inductive, PTL

-----------------------------------------------------------------------------
Lifecycle ==
    \A t \in Turns : turnState'[t] # turnState[t] =>
        <<turnState[t], turnState'[t]>> \in
            {<<"none", "pending">>, <<"pending", "streaming">>,
             <<"streaming", "done">>, <<"streaming", "cancelled">>}

(* Each step moves the state of a turn along an edge of its life.           *)
LEMMA LifecycleStep ==
    ASSUME IInv, Next
    PROVE  Lifecycle
<1> USE DEF IInv, TypeOK, StateAtPc, Lifecycle, PCs, InFlight, Before, Running,
            roomVars, turnVars
<1>1. ASSUME NEW r \in Rooms, SaveRoom(r) \/ AnnounceRoom(r) \/ DeleteRoom(r)
      PROVE  Lifecycle
  BY <1>1 DEF SaveRoom, AnnounceRoom, DeleteRoom
<1>2. ASSUME NEW t \in Turns, NEW r \in Rooms, SubmitAnswer(t, r)
      PROVE  Lifecycle
  BY <1>2 DEF SubmitAnswer
<1>3. ASSUME NEW t \in Turns, AnnounceTurn(t) \/ Register(t) PROVE Lifecycle
  BY <1>3 DEF AnnounceTurn, Register
<1>4. ASSUME NEW t \in Turns, InLoop(t) PROVE Lifecycle
  BY <1>4 DEF InLoop, LoadRoom, EmitRoomNotFound, StopAgents, StartAgent,
              FinishAgents, EmitToken, EmitStreamError, CompleteTurn,
              EmitCompleted, Provider, StreamCancelled, ReceiveToken, ReceiveDone, ReceiveError
<1>5. ASSUME NEW t \in Turns, Unregister(t) PROVE Lifecycle
  BY <1>5 DEF Unregister
<1>6. ASSUME NEW t \in Turns, ReleaseRoom(t) PROVE Lifecycle
  BY <1>6 DEF ReleaseRoom, SingleFlight
<1>7. ASSUME NEW q \in Requests,
             Cancel(q) \/ \E r \in Rooms : CancelTurn(q, r)
      PROVE  Lifecycle
  BY <1>7, RequestFrame
<1>8. QED
  BY <1>1, <1>2, <1>3, <1>4, <1>5, <1>6, <1>7, NextCases

(* No step of any process takes a turn back or changes its outcome.         *)
THEOREM LifecycleHolds == Spec => TurnLifecycle
<1>1. IInv /\ [Next]_vars => [Lifecycle]_vars
  BY LifecycleStep
<1>2. QED
  BY <1>1, Inductive, PTL DEF Spec, TurnLifecycle, Lifecycle
=============================================================================
