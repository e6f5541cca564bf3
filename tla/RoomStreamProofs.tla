-------------------------- MODULE RoomStreamProofs --------------------------
(***************************************************************************)
(* What clients read of the turns, for any number of rooms, turns, cancel  *)
(* requests, clients and connections and any capacity of the channels.     *)
(*                                                                         *)
(* Nothing is proved again here of the engine or of the streams.  A step   *)
(* of the composition is a step of the engine, so that what holds of its   *)
(* log and its turns holds; and it is a step of a server that runs, so     *)
(* that the invariant of the streams is kept.  What is new is that the two *)
(* logs have the same length.                                              *)
(***************************************************************************)
EXTENDS RoomStream, TurnRuntimeLogProofs

(* The streams' theorems, of a process that serves and does not shut down.  *)
Process == INSTANCE ServerProofs WITH phase <- "serving", late <- {}

SameLength == Len(events) = Len(log[StreamedRoom])

(* An event that a turn's request or goroutine appended names its turn.     *)
TurnsNamed ==
    \A r \in Rooms : \A i \in DOMAIN log[r] :
        log[r][i].type \in TurnEvents => log[r][i].turn \in Turns

-----------------------------------------------------------------------------
(* Both sides of the composition.                                           *)
LEMMA EngineRuns == RoomStreamSpec => Spec
<1>1. RoomStreamInit => Init
  BY DEF RoomStreamInit
<1>2. [RoomStreamNext]_roomStreamVars => [Next]_vars
  BY DEF RoomStreamNext, EngineStep, ClientStep, HandlerStep, roomStreamVars
<1> QED
  BY <1>1, <1>2, PTL DEF RoomStreamSpec, Spec

LEMMA StreamsStart ==
    RoomStreamParameters /\ RoomStreamInit => Process!StreamsInv
<1>1. RoomStreamInit => Process!StreamInit
  BY DEF RoomStreamInit, Streams!StreamInit, Streams!Init, Process!StreamInit, Process!Init
<1> QED
  BY <1>1, Process!InitStreamsInv DEF RoomStreamParameters

(* A step is one of the server's, in which an append is Emit, or leaves the *)
(* streams alone.                                                           *)
LEMMA StreamsStep ==
    ASSUME [RoomStreamNext]_roomStreamVars
    PROVE  [Process!ServerNext]_(Process!vars)
<1> USE DEF Process!ServerNext, Process!serverVars, Process!Running
<1>1. CASE EngineStep
  <2>1. CASE UNCHANGED sinkVars
    BY <1>1, <2>1
       DEF EngineStep, sinkVars, handlerVars, Process!vars, Process!allVars,
           Process!sinkVars, Process!streamVars
  <2>2. CASE Streams!AppendEvent
    <3>1. Process!AppendEvent /\ UNCHANGED Process!streamVars
      BY <1>1, <2>2
         DEF EngineStep, Streams!AppendEvent, Process!AppendEvent, handlerVars,
             Process!streamVars
    <3> QED
      BY <3>1 DEF Process!Emit
  <2> QED
    BY <1>1, <2>1, <2>2 DEF EngineStep
<1>2. ASSUME NEW k \in Clients, ClientStep(k) PROVE Process!ServerNext
  <2>1. CASE Streams!Read(k)
    <3>1. Process!Read(k)
      BY <2>1 DEF Streams!Read, Process!Read, Streams!sinkVars, Process!sinkVars
    <3> QED
      BY <3>1 DEF Process!Receive
  <2>2. CASE Streams!Disconnect(k)
    <3>1. Process!Disconnect(k)
      BY <2>2 DEF Streams!Disconnect, Process!Disconnect, Streams!sinkVars,
                  Process!sinkVars
    <3> QED
      BY <3>1 DEF Process!BreakOff
  <2>3. ASSUME NEW c \in Chans, Streams!Connect(k, c) PROVE Process!ServerNext
    <3>1. Process!Connect(k, c)
      BY <2>3 DEF Streams!Connect, Process!Connect,
                  Streams!ReadFromOffsetAndSubscribe,
                  Process!ReadFromOffsetAndSubscribe,
                  Streams!History, Process!History, Streams!Query, Process!Query,
                  Streams!ParseOffset, Process!ParseOffset
    <3> QED
      BY <3>1 DEF Process!Request
  <2> QED
    BY <1>2, <2>1, <2>2, <2>3 DEF ClientStep, StreamEvents
<1>3. ASSUME NEW c \in Chans, HandlerStep(c) PROVE Process!ServerNext
  <2>1. Process!Handler(c)
    BY <1>3 DEF HandlerStep, Streams!Handler, Process!Handler,
                Streams!WriteHistory, Process!WriteHistory,
                Streams!EndHistory, Process!EndHistory,
                Streams!WriteLive, Process!WriteLive, Streams!Leave, Process!Leave,
                Streams!Write, Process!Write,
                Streams!TakeSnapshot, Process!TakeSnapshot,
                Streams!TakeLive, Process!TakeLive,
                Streams!Unsubscribe, Process!Unsubscribe,
                Streams!sinkVars, Process!sinkVars
  <2> QED
    BY <2>1 DEF Process!Serve
<1>4. CASE UNCHANGED roomStreamVars
  BY <1>4 DEF roomStreamVars, sinkVars, handlerVars, Process!vars,
              Process!allVars, Process!sinkVars, Process!streamVars
<1> QED
  BY <1>1, <1>2, <1>3, <1>4 DEF RoomStreamNext

LEMMA StreamsKept ==
    ASSUME RoomStreamParameters, Process!StreamsInv, [RoomStreamNext]_roomStreamVars
    PROVE  Process!StreamsInv'
BY StreamsStep, Process!StreamsInvNext DEF RoomStreamParameters

(* An append lengthens both logs by one.                                    *)
LEMMA LogGrows ==
    ASSUME RoomStreamParameters, CancelInv, Next
    PROVE  \/ log'[StreamedRoom] = log[StreamedRoom]
           \/ Len(log'[StreamedRoom]) = Len(log[StreamedRoom]) + 1
<1>1. log \in [Rooms -> Seq(Event)] /\ StreamedRoom \in Rooms
  BY DEF RoomStreamParameters, CancelInv, IInv, TypeOK
<1>2. ASSUME NEW r \in Rooms, NEW e \in Event, Emit(r, e)
      PROVE  \/ log'[StreamedRoom] = log[StreamedRoom]
             \/ Len(log'[StreamedRoom]) = Len(log[StreamedRoom]) + 1
  <2>1. CASE StreamedRoom # r
    BY <1>1, <1>2, <2>1 DEF Emit
  <2>2. CASE StreamedRoom = r
    <3>1. log'[r] = Append(log[r], e) /\ log[r] \in Seq(Event)
      BY <1>1, <1>2 DEF Emit
    <3> QED
      BY <2>2, <3>1, AppendProperties
  <2> QED
    BY <2>1, <2>2
<1>3. ASSUME NEW t \in Turns, NEW e \in Event, Speaks(t, e)
      PROVE  \/ log'[StreamedRoom] = log[StreamedRoom]
             \/ Len(log'[StreamedRoom]) = Len(log[StreamedRoom]) + 1
  <2>1. turnRoom[t] \in Rooms /\ Emit(turnRoom[t], e)
    BY <1>3, TurnRuntimeAssumption
       DEF Speaks, Speaking, CancelInv, IInv, TypeOK, StateAtPc, Admitted
  <2> QED
    BY <1>2, <2>1
<1> QED
  BY <1>2, <1>3, StepKinds DEF Silent, Announces

LEMMA SameLengthKept ==
    ASSUME RoomStreamParameters, CancelInv, Process!StreamsInv, SameLength,
           [RoomStreamNext]_roomStreamVars
    PROVE  SameLength'
<1> SUFFICES Len(events') = Len(log'[StreamedRoom])
  BY DEF SameLength
<1>1. CASE EngineStep /\ Streams!AppendEvent /\ log'[StreamedRoom] # log[StreamedRoom]
  <2>1. Len(log'[StreamedRoom]) = Len(log[StreamedRoom]) + 1
    BY <1>1, LogGrows DEF EngineStep
  <2>2. Len(events') = Len(events) + 1
    <3>1. /\ events \in Seq(Process!Event) /\ Len(events) \in Nat
          /\ Len(events) < MaxEvents
      BY <1>1, LenProperties
         DEF RoomStreamParameters, Process!StreamsInv, Process!SinkInv,
             Process!SinkTypeOK, Streams!AppendEvent
    <3>2. PICK e \in Process!Event : events' = Append(events, e)
      BY <1>1, <3>1
         DEF RoomStreamParameters, Streams!AppendEvent, Process!Event,
             Process!Offsets
    <3> QED
      BY <3>1, <3>2, AppendProperties
  <2> QED
    BY <2>1, <2>2 DEF SameLength
<1>2. CASE UNCHANGED <<events>> /\ log'[StreamedRoom] = log[StreamedRoom]
  BY <1>2 DEF SameLength
<1>3. \/ EngineStep /\ Streams!AppendEvent /\ log'[StreamedRoom] # log[StreamedRoom]
      \/ UNCHANGED <<events>> /\ log'[StreamedRoom] = log[StreamedRoom]
  <2>1. ASSUME NEW c \in Chans, HandlerStep(c)
        PROVE  UNCHANGED <<events, log>>
    BY <2>1 DEF HandlerStep, vars, Streams!Handler, Streams!WriteHistory,
                Streams!EndHistory, Streams!WriteLive, Streams!Leave,
                Streams!TakeSnapshot, Streams!TakeLive, Streams!Unsubscribe,
                Streams!sinkVars
  <2>2. ASSUME NEW k \in Clients, ClientStep(k)
        PROVE  UNCHANGED <<events, log>>
    BY <2>2 DEF ClientStep, StreamEvents, vars, Streams!Read, Streams!Disconnect,
                Streams!Connect, Streams!ReadFromOffsetAndSubscribe,
                Streams!sinkVars
  <2>3. CASE UNCHANGED roomStreamVars
    BY <2>3 DEF roomStreamVars, sinkVars, vars
  <2>4. CASE EngineStep
    BY <2>4 DEF EngineStep, sinkVars
  <2> QED
    BY <2>1, <2>2, <2>3, <2>4 DEF RoomStreamNext
<1> QED
  BY <1>1, <1>2, <1>3

-----------------------------------------------------------------------------
(* What the logs say of each other.                                         *)
LEMMA NamesKept ==
    ASSUME CancelInv, TurnsNamed, [Next]_vars
    PROVE  TurnsNamed'
<1>1. log \in [Rooms -> Seq(Event)]
  BY DEF CancelInv, IInv, TypeOK
<1>2. ASSUME NEW r \in Rooms, NEW e \in Event, Emit(r, e),
             e.type \in TurnEvents => e.turn \in Turns
      PROVE  TurnsNamed'
  <2> SUFFICES ASSUME NEW s \in Rooms, NEW i \in DOMAIN log'[s],
                      log'[s][i].type \in TurnEvents
               PROVE  log'[s][i].turn \in Turns
    BY DEF TurnsNamed
  <2>1. CASE s # r
    BY <1>1, <1>2, <2>1, EmitEffect DEF TurnsNamed
  <2>2. CASE s = r /\ i \in DOMAIN log[r]
    BY <1>1, <1>2, <2>2, EmitEffect DEF TurnsNamed
  <2>3. CASE s = r /\ i = Len(log[r]) + 1
    BY <1>1, <1>2, <2>3, EmitEffect
  <2> QED
    BY <1>1, <1>2, <2>1, <2>2, <2>3, EmitEffect
<1>3. ASSUME NEW t \in Turns, NEW e \in Event, Speaks(t, e) PROVE TurnsNamed'
  <2>1. turnRoom[t] \in Rooms /\ Emit(turnRoom[t], e) /\ e.turn = t
    BY <1>3, TurnRuntimeAssumption
       DEF Speaks, Speaking, CancelInv, IInv, TypeOK, StateAtPc, Admitted
  <2> QED
    BY <1>2, <2>1
<1>4. CASE UNCHANGED log
  BY <1>4 DEF TurnsNamed
<1> QED
  BY <1>2, <1>3, <1>4, StepKinds DEF Silent, Announces, vars

(* The invariants of the engine and of the streams, side by side.           *)
RoomStreamInv ==
    /\ RoomStreamParameters
    /\ CancelInv
    /\ LogInv
    /\ ResponsesMatchLog
    /\ DoneMeansAllAgents
    /\ TurnsNamed
    /\ SameLength
    /\ Process!StreamsInv

LEMMA RoomStreamInvariant ==
    RoomStreamParameters /\ RoomStreamSpec => []RoomStreamInv
<1> DEFINE Side == RoomStreamParameters /\ SameLength /\ Process!StreamsInv
<1>1. Spec => [](CancelInv /\ LogInv /\ ResponsesMatchLog /\ DoneMeansAllAgents)
  BY CancelInductive, LogInductive, ResponsesCount, AllAgentsRun, PTL
<1>2. Spec => []TurnsNamed
  <2>1. Init => TurnsNamed
    BY DEF Init, TurnsNamed
  <2> QED
    BY <2>1, NamesKept, CancelInductive, PTL DEF Spec
<1>3. RoomStreamParameters /\ RoomStreamInit => Side
  <2>1. RoomStreamParameters /\ RoomStreamInit => SameLength
    BY EmptySeq
       DEF RoomStreamParameters, RoomStreamInit, Init, Streams!StreamInit,
           Streams!Init, SameLength
  <2> QED
    BY <2>1, StreamsStart
<1>4. Side /\ CancelInv /\ [RoomStreamNext]_roomStreamVars => Side'
  <2>1. RoomStreamParameters => RoomStreamParameters'
    BY DEF RoomStreamParameters
  <2> QED
    BY <2>1, StreamsKept, SameLengthKept
<1> HIDE DEF Side
<1>5. RoomStreamParameters /\ RoomStreamSpec => []Side
  <2>1. RoomStreamSpec => []CancelInv
    BY EngineRuns, CancelInductive, PTL
  <2> QED
    BY <1>3, <1>4, <2>1, PTL DEF RoomStreamSpec
<1>6. /\ CancelInv /\ LogInv /\ ResponsesMatchLog /\ DoneMeansAllAgents
      /\ TurnsNamed /\ Side
      => RoomStreamInv
  BY DEF RoomStreamInv, Side
<1> QED
  BY <1>1, <1>2, <1>5, <1>6, EngineRuns, PTL

(* What a resuming client has read is in the room's log, in its order; what *)
(* one has read that lost nothing is its beginning.                         *)
LEMMA ReadFromLog ==
    ASSUME RoomStreamInv, NEW k \in Streams!Resuming
    PROVE  /\ got[k] \in Seq(Nat) /\ DOMAIN got[k] = 1..Len(got[k])
           /\ \A i \in DOMAIN got[k] : got[k][i] + 1 \in DOMAIN log[StreamedRoom]
           /\ \A i, j \in DOMAIN got[k] : i < j => got[k][i] < got[k][j]
           /\ ~Streams!Lossy(k) => \A i \in DOMAIN got[k] : got[k][i] = i - 1
<1>1. /\ k \in Process!Resuming /\ k \in Clients
      /\ Streams!Lossy(k) <=> Process!Lossy(k)
  BY DEF Streams!Resuming, Process!Resuming, Streams!Lossy, Process!Lossy
<1>2. /\ got[k] \in Seq(Nat) /\ Process!Ascending(got[k])
      /\ Process!LastRead(k) /\ (~Process!Lossy(k) => Process!ExactInv(k))
  BY <1>1 DEF RoomStreamInv, Process!StreamsInv, Process!ConnInv, Process!ReadInv,
              Process!InOrderInv
<1>3. DOMAIN got[k] = 1..Len(got[k]) /\ Len(got[k]) \in Nat
  BY <1>2, LenProperties
<1>4. ASSUME NEW i \in DOMAIN got[k]
      PROVE  got[k][i] + 1 \in DOMAIN log[StreamedRoom]
  <2>1. /\ got[k] # <<>> /\ Len(got[k]) \in 1..Len(got[k])
        /\ got[k][i] \in Nat /\ got[k][Len(got[k])] \in Nat
    BY <1>2, <1>3, EmptySeq
  <2>2. lastId[k] = got[k][Len(got[k])] /\ lastId[k] < Len(events)
    BY <2>1, <1>2 DEF RoomStreamInv, RoomStreamParameters, Process!LastRead
  <2>3. i = Len(got[k]) \/ got[k][i] < got[k][Len(got[k])]
    BY <1>2, <1>3, <2>1 DEF Process!Ascending
  <2>4. DOMAIN log[StreamedRoom] = 1..Len(events) /\ Len(events) \in Nat
    BY LenProperties
       DEF RoomStreamInv, RoomStreamParameters, CancelInv, IInv, TypeOK, SameLength
  <2> QED
    BY <2>1, <2>2, <2>3, <2>4
<1> QED
  BY <1>1, <1>2, <1>3, <1>4 DEF Process!Ascending, Process!ExactInv

(* What a client reads of a turn is in one piece: no event of another turn  *)
(* lies between, earlier rounds come before, and nothing of a turn follows  *)
(* its turn_completed.  This needs no more than the order of the log, so it *)
(* holds for clients that have lost events too.                             *)
THEOREM TurnsReadInOrder ==
    RoomStreamParameters /\ RoomStreamSpec => []ReadsTurnsInOrder
<1>1. RoomStreamInv => ReadsTurnsInOrder
  <2> SUFFICES ASSUME RoomStreamInv, NEW k \in Streams!Resuming,
                      NEW j \in DOMAIN got[k], NEW i \in 1..(j - 1),
                      ReadEvent(k, i).type \in TurnEvents,
                      ReadEvent(k, j).type \in TurnEvents
               PROVE  IF ReadEvent(k, i).turn = ReadEvent(k, j).turn
                      THEN /\ ReadEvent(k, i).type # "turn_completed"
                           /\ ReadEvent(k, j).type # "turn_started"
                      ELSE round[ReadEvent(k, i).turn] < round[ReadEvent(k, j).turn]
    BY DEF ReadsTurnsInOrder
  <2> DEFINE p == got[k][i] + 1
             q == got[k][j] + 1
             r == StreamedRoom
  <2>1. /\ r \in Rooms /\ LogSegmented /\ TurnsNamed
        /\ log[r] \in Seq(Event)
    BY DEF RoomStreamInv, RoomStreamParameters, LogInv, CancelInv, IInv, TypeOK
  <2>2. i \in DOMAIN got[k] /\ i < j
    BY ReadFromLog
  <2>3. got[k][i] < got[k][j] /\ got[k][i] \in Nat /\ got[k][j] \in Nat
    BY <2>2, ReadFromLog
  <2>4. p \in DOMAIN log[r] /\ q \in DOMAIN log[r] /\ p \in 1..(q - 1)
    BY <2>2, <2>3, ReadFromLog
  <2>5. ReadEvent(k, i) = log[r][p] /\ ReadEvent(k, j) = log[r][q]
    BY DEF ReadEvent
  <2> HIDE DEF p, q, r
  <2>6. log[r][p].turn \in Turns /\ log[r][q].turn \in Turns
    BY <2>1, <2>4, <2>5 DEF TurnsNamed
  <2>7. Of(r, p, log[r][p].turn) /\ Of(r, q, log[r][q].turn)
    BY <2>5 DEF Of
  <2>8. \/ log[r][p].turn # log[r][q].turn
           /\ round[log[r][p].turn] < round[log[r][q].turn]
        \/ /\ log[r][p].turn = log[r][q].turn
           /\ log[r][p].type # "turn_completed"
           /\ log[r][q].type # "turn_started"
    BY <2>1, <2>4, <2>6, <2>7 DEF LogSegmented
  <2> QED
    BY <2>5, <2>8
<1> QED
  BY <1>1, RoomStreamInvariant, PTL

(* A client that has lost nothing and has read the turn_completed of a turn *)
(* has read every token of it: what the log holds of the turn lies before   *)
(* its turn_completed, and the client has read the log up to there.         *)
THEOREM WholeTurnsRead ==
    RoomStreamParameters /\ RoomStreamSpec => []ReadsWholeTurns
<1>1. RoomStreamInv => ReadsWholeTurns
  <2> SUFFICES ASSUME RoomStreamInv, NEW k \in Streams!Resuming, ~Streams!Lossy(k),
                      NEW t \in Turns, HasReadEnd(k, t)
               PROVE  /\ turnState[t] = "done"
                      /\ Len(responses[t]) = NumAgents
                      /\ \A a \in 1..NumAgents :
                            Cardinality(TokensRead(k, t, a)) = responses[t][a]
    BY DEF ReadsWholeTurns
  <2> DEFINE r == StreamedRoom
  <2>1. /\ r \in Rooms /\ LogSegmented /\ DoneMeansCompleted /\ EventsAtHome
        /\ ResponsesMatchLog /\ DoneMeansAllAgents
        /\ log[r] \in Seq(Event) /\ responses[t] \in Seq(Nat)
    BY TurnRuntimeAssumption, LogInvDone
       DEF RoomStreamInv, RoomStreamParameters, LogInv, CancelInv, IInv, TypeOK
  <2>2. /\ DOMAIN got[k] = 1..Len(got[k]) /\ Len(got[k]) \in Nat
        /\ DOMAIN got[k] \subseteq DOMAIN log[r]
        /\ \A i \in DOMAIN got[k] : ReadEvent(k, i) = log[r][i]
    <3>1. /\ got[k] \in Seq(Nat) /\ DOMAIN got[k] = 1..Len(got[k])
          /\ \A i \in DOMAIN got[k] : got[k][i] + 1 \in DOMAIN log[r]
          /\ \A i \in DOMAIN got[k] : got[k][i] = i - 1
      BY ReadFromLog
    <3>2. Len(got[k]) \in Nat /\ \A i \in DOMAIN got[k] : got[k][i] + 1 = i
      BY <3>1, LenProperties
    <3> QED
      BY <3>1, <3>2 DEF ReadEvent
  <2>3. PICK n \in DOMAIN got[k] :
            log[r][n].type = "turn_completed" /\ log[r][n].turn = t
    BY <2>2 DEF HasReadEnd
  <2>4. n \in DOMAIN log[r] /\ Of(r, n, t)
    BY <2>2, <2>3 DEF Of, TurnEvents
  <2> HIDE DEF r
  <2>5. turnState[t] = "done" /\ turnRoom[t] = r
    BY <2>1, <2>3, <2>4 DEF DoneMeansCompleted, Completed, EventsAtHome
  <2>6. Len(responses[t]) = NumAgents
    BY <2>1, <2>5 DEF DoneMeansAllAgents
  <2>7. ASSUME NEW a \in 1..NumAgents
        PROVE  Cardinality(TokensRead(k, t, a)) = responses[t][a]
    <3> DEFINE said == {i \in DOMAIN log[r] : /\ Of(r, i, t)
                                              /\ log[r][i].type = "token_received"
                                              /\ log[r][i].agent = a}
    <3>1. a \in DOMAIN responses[t]
      BY <2>1, <2>6, LenProperties
    <3>2. responses[t][a] = Cardinality(said)
      BY <2>1, <2>5, <3>1 DEF ResponsesMatchLog
    <3>3. ASSUME NEW i \in said PROVE i \in DOMAIN got[k]
      <4>1. DOMAIN log[r] = 1..Len(log[r]) /\ Len(log[r]) \in Nat
        BY <2>1, LenProperties
      <4>2. ~(n < i)
        <5>1. n < i => n \in 1..(i - 1)
          BY <2>4, <4>1
        <5> QED
          BY <2>1, <2>3, <2>4, <5>1 DEF LogSegmented
      <4> QED
        BY <2>2, <4>1, <4>2
    <3>4. TokensRead(k, t, a) = said
      BY <2>2, <3>3 DEF TokensRead, Of, TurnEvents
    <3> QED
      BY <3>2, <3>4
  <2> QED
    BY <2>5, <2>6, <2>7
<1> QED
  BY <1>1, RoomStreamInvariant, PTL
=============================================================================
