------------------------ MODULE TurnRuntimeLogProofs ------------------------
(***************************************************************************)
(* The shape of the event log and its agreement with the turns' states,    *)
(* for any number of rooms, turns, requests, agents and tokens.            *)
(***************************************************************************)
EXTENDS TurnRuntimeCancelProofs, SequenceTheorems, FiniteSetTheorems

(* Where a turn stands when it has not appended turn_started yet, where it  *)
(* appends an event, and where it is after its last late one.               *)
NotStarted == {"unused", "announce"}
Speaking == {"announce", "notfound", "token", "error", "completed"}
Silenced == {"stream", "agents", "unregister", "release", "finished"}

(* A turn that is done and has passed the append of its turn_completed.     *)
Sealed(t) == turnState[t] = "done" /\ pc[t] # "completed"

SealedIsLogged == \A t \in Turns : Sealed(t) <=> Completed(t)

(* The events of a turn are in the log of its room, once it has started.    *)
EventsAtHome ==
    \A r \in Rooms : \A i \in DOMAIN log[r] : \A t \in Turns :
        Of(r, i, t) => turnRoom[t] = r /\ pc[t] \notin NotStarted

StartLogged ==
    \A t \in Turns : pc[t] \notin NotStarted =>
        \E i \in DOMAIN log[turnRoom[t]] :
            /\ Of(turnRoom[t], i, t)
            /\ log[turnRoom[t]][i].type = "turn_started"

(* A turn that has appended an event after its context was done is silent.  *)
LateThenSilent ==
    \A r \in Rooms : \A i \in DOMAIN log[r] : \A t \in Turns :
        Of(r, i, t) /\ log[r][i].late => t \in ctxDone /\ pc[t] \in Silenced

LogInv ==
    /\ EventsAtHome
    /\ StartLogged
    /\ LateThenSilent
    /\ SealedIsLogged
    /\ AtMostOneLateEvent
    /\ LogSegmented

-----------------------------------------------------------------------------
(* What an append does to the logs.                                         *)
LEMMA EmitEffect ==
    ASSUME log \in [Rooms -> Seq(Event)],
           NEW r \in Rooms, NEW e \in Event, Emit(r, e)
    PROVE  /\ \A s \in Rooms : s # r => log'[s] = log[s]
           /\ DOMAIN log'[r] = DOMAIN log[r] \cup {Len(log[r]) + 1}
           /\ DOMAIN log[r] = 1 .. Len(log[r]) /\ Len(log[r]) \in Nat
           /\ \A i \in DOMAIN log[r] : log'[r][i] = log[r][i]
           /\ log'[r][Len(log[r]) + 1] = e
<1>1. log[r] \in Seq(Event) /\ log'[r] = Append(log[r], e)
  BY DEF Emit
<1>2. \A s \in Rooms : s # r => log'[s] = log[s]
  BY DEF Emit
<1>3. /\ DOMAIN log[r] = 1 .. Len(log[r]) /\ Len(log[r]) \in Nat
      /\ DOMAIN log'[r] = 1 .. Len(log[r]) + 1
  BY <1>1, LenProperties, AppendProperties
<1>4. \A i \in 1 .. Len(log[r]) : log'[r][i] = log[r][i]
  BY <1>1, AppendProperties
<1>5. log'[r][Len(log[r]) + 1] = e
  BY <1>1, AppendProperties
<1> QED
  BY <1>2, <1>3, <1>4, <1>5

(* An event of turn t by its own request or goroutine.                      *)
Speaks(t, e) ==
    /\ pc[t] \in Speaking
    /\ e \in Event /\ e.turn = t /\ e.type \in TurnEvents
    /\ e.late <=> t \in ctxDone
    /\ e.type = "turn_started" <=> pc[t] = "announce"
    /\ e.type = "turn_completed" <=> pc[t] = "completed"
    /\ Emit(turnRoom[t], e)
    /\ pc'[t] \notin NotStarted /\ (pc[t] # "announce" => pc'[t] \in Silenced)
    /\ Sealed(t)' <=> pc[t] = "completed"
    /\ \A u \in Turns : u # t => pc'[u] = pc[u] /\ turnState'[u] = turnState[u]
    /\ UNCHANGED <<turnRoom, round, ctxDone>>

(* An event that is not of a turn's own.                                    *)
Announces(r, e) ==
    /\ e \in Event /\ e.type \notin TurnEvents
    /\ Emit(r, e)
    /\ UNCHANGED <<turnRoom, round, ctxDone, turnState, pc>>

(* A step without an event.                                                 *)
Silent ==
    /\ UNCHANGED log
    /\ ctxDone \subseteq ctxDone'
    /\ \A t \in Turns :
          /\ Sealed(t)' <=> Sealed(t)
          /\ pc'[t] \in NotStarted <=> pc[t] \in NotStarted
          /\ t \in ctxDone /\ pc[t] \in Silenced => pc'[t] \in Silenced
          /\ Admitted(t) => turnRoom'[t] = turnRoom[t] /\ round'[t] = round[t]

(* The steps of a turn that append.                                         *)
LEMMA SpeakingSteps ==
    ASSUME CancelInv, NEW t \in Turns,
           AnnounceTurn(t) \/ EmitRoomNotFound(t) \/ EmitToken(t)
               \/ EmitStreamError(t) \/ EmitCompleted(t)
    PROVE  \E e \in Event : Speaks(t, e)
<1> USE TurnRuntimeAssumption
        DEF CancelInv, IInv, TypeOK, StateAtPc, AgentsAtPc, Speaks, Speaking,
            Silenced, NotStarted, Sealed, Before, Running, Goto, TurnEvents,
            EventTypes, turnVars, ctxVars
<1>0. 0 \in 0..NumAgents
  OBVIOUS
<1>1. CASE AnnounceTurn(t)
  <2>1. NewEvent("turn_started", t, 0) \in Event
    BY <1>0, NewEventType
  <2> QED
    BY <1>1, <2>1 DEF AnnounceTurn, NewEvent
<1>2. CASE EmitRoomNotFound(t)
  <2>1. NewEvent("error", t, 0) \in Event
    BY <1>0, NewEventType
  <2> QED
    BY <1>2, <2>1 DEF EmitRoomNotFound, NewEvent
<1>3. CASE EmitToken(t)
  <2>1. NewEvent("token_received", t, Agent(t)) \in Event
    BY <1>3, NewEventType DEF EmitToken, Agent
  <2> QED
    BY <1>3, <2>1 DEF EmitToken, NewEvent
<1>4. CASE EmitStreamError(t)
  <2>1. NewEvent("error", t, Agent(t)) \in Event
    BY <1>4, NewEventType DEF EmitStreamError, Agent
  <2> QED
    BY <1>4, <2>1 DEF EmitStreamError, ReturnFromStream, NewEvent
<1>5. CASE EmitCompleted(t)
  <2>1. NewEvent("turn_completed", t, 0) \in Event
    BY <1>0, NewEventType
  <2> QED
    BY <1>5, <2>1 DEF EmitCompleted, NewEvent
<1> QED
  BY <1>1, <1>2, <1>3, <1>4, <1>5
(* The steps of a turn that do not.                                         *)
LEMMA SilentSteps ==
    ASSUME CancelInv, NEW t \in Turns,
           \/ Register(t) \/ LoadRoom(t) \/ StopAgents(t) \/ StartAgent(t)
           \/ FinishAgents(t) \/ Provider(t) \/ CompleteTurn(t)
           \/ Unregister(t) \/ ReleaseRoom(t)
    PROVE  Silent
<1> USE DEF CancelInv, IInv, TypeOK, StateAtPc, Silent, Silenced, NotStarted,
            Sealed, Before, Running, Goto, roomVars, turnVars, ctxVars
<1>1. CASE Register(t)
  BY <1>1 DEF Register
<1>2. CASE LoadRoom(t)
  BY <1>2 DEF LoadRoom
<1>3. CASE StopAgents(t) \/ StartAgent(t) \/ FinishAgents(t)
  BY <1>3 DEF StopAgents, StartAgent, FinishAgents
<1>4. CASE Provider(t)
  BY <1>4 DEF Provider, StreamCancelled, ReceiveToken, ReceiveDone,
              ReceiveError, ReturnFromStream
<1>5. CASE CompleteTurn(t) \/ Unregister(t)
  BY <1>5 DEF CompleteTurn, Unregister
<1>6. CASE ReleaseRoom(t)
  <2>1. UNCHANGED turnState
    BY <1>6 DEF ReleaseRoom, SingleFlight, InFlight
  <2> QED
    BY <1>6, <2>1 DEF ReleaseRoom
<1> QED
  BY <1>1, <1>2, <1>3, <1>4, <1>5, <1>6

(* Every step is silent, or appends one event.                              *)
LEMMA StepKinds ==
    ASSUME CancelInv, Next
    PROVE  \/ Silent
           \/ \E t \in Turns, e \in Event : Speaks(t, e)
           \/ \E r \in Rooms, e \in Event : Announces(r, e)
<1> DEFINE Goal == \/ Silent
                   \/ \E t \in Turns, e \in Event : Speaks(t, e)
                   \/ \E r \in Rooms, e \in Event : Announces(r, e)
<1>a. TypeOK /\ SingleFlight
  BY DEF CancelInv, IInv
<1>1. ASSUME NEW r \in Rooms, SaveRoom(r) \/ DeleteRoom(r) PROVE Silent
  BY <1>1 DEF SaveRoom, DeleteRoom, Silent, Sealed, turnVars, ctxVars
<1>2. ASSUME NEW r \in Rooms, AnnounceRoom(r) PROVE Goal
  <2>1. NewEvent("room_created", None, 0) \in Event
    BY RoomEventType
  <2>2. Announces(r, NewEvent("room_created", None, 0))
    BY <1>2, <2>1 DEF AnnounceRoom, Announces, NewEvent, TurnEvents, turnVars,
                      ctxVars
  <2> QED
    BY <2>1, <2>2
<1>3. ASSUME NEW t \in Turns, NEW r \in Rooms, SubmitAnswer(t, r) PROVE Silent
  BY <1>3, <1>a DEF SubmitAnswer, Silent, TypeOK, CancelInv, IInv, StateAtPc,
                    NotStarted, Silenced, Sealed, Admitted, Goto, ctxVars
<1>4. ASSUME NEW t \in Turns, AnnounceTurn(t) \/ Register(t) \/ InLoop(t)
                                \/ Unregister(t) \/ ReleaseRoom(t)
      PROVE  Goal
  BY <1>4, SpeakingSteps, SilentSteps DEF InLoop
<1>5. ASSUME NEW q \in Requests, NEW r \in Rooms, CancelTurn(q, r) PROVE Silent
  BY <1>5 DEF CancelTurn, Silent, Sealed, turnVars, ctxVars
<1>6. ASSUME NEW q \in Requests, LookupCancel(q) PROVE Silent
  BY <1>6 DEF LookupCancel, Silent, Sealed, turnVars, ctxVars
<1>7. ASSUME NEW q \in Requests, CallCancel(q) PROVE Silent
  BY <1>7 DEF CallCancel, Silent, Sealed, turnVars
<1>8. ASSUME NEW q \in Requests, EmitCancelled(q) PROVE Goal
  <2> DEFINE e == NewEvent("turn_cancelled", reqTurn[q], 0)
  <2>1. e \in Event /\ reqRoom[q] \in Rooms
    BY <1>8, <1>a, CancelEventType DEF EmitCancelled, TypeOK
  <2>2. Announces(reqRoom[q], e)
    BY <1>8, <2>1 DEF EmitCancelled, Announces, NewEvent, TurnEvents, turnVars,
                      ctxVars
  <2> QED
    BY <2>1, <2>2
<1> QED
  BY <1>1, <1>2, <1>3, <1>4, <1>5, <1>6, <1>7, <1>8, NextCases DEF Cancel
-----------------------------------------------------------------------------
(* The initial state has no events.                                         *)
LEMMA InitLogInv == Init => LogInv
BY DEF Init, LogInv, EventsAtHome, StartLogged, LateThenSilent,
       SealedIsLogged, Sealed, Completed, AtMostOneLateEvent, LogSegmented,
       Of, NotStarted

(* A silent step keeps LogInv: rooms and rounds of turns that have started  *)
(* do not change.                                                           *)
LEMMA SilentKeepsLog ==
    ASSUME CancelInv, LogInv, Silent
    PROVE  LogInv'
<1> USE DEF Silent, Of
<1>1. \A r \in Rooms : \A i \in DOMAIN log[r] : \A t \in Turns : Of(r, i, t) =>
          Admitted(t)
  BY DEF LogInv, EventsAtHome, NotStarted, Admitted
<1>2. \A t \in Turns : pc[t] \notin NotStarted => Admitted(t)
  BY DEF NotStarted, Admitted
<1>3. EventsAtHome'
  BY <1>1 DEF LogInv, EventsAtHome
<1>4. StartLogged'
  BY <1>2 DEF LogInv, StartLogged
<1>5. LateThenSilent'
  BY DEF LogInv, LateThenSilent
<1>6. SealedIsLogged' /\ AtMostOneLateEvent'
  BY DEF LogInv, SealedIsLogged, Completed, AtMostOneLateEvent
<1>7. LogSegmented'
  <2>1. \A r \in Rooms : \A i \in DOMAIN log[r] : \A t \in Turns : Of(r, i, t) =>
            round'[t] = round[t]
    BY <1>1
  <2>2. LogSegmented
    BY DEF LogInv
  <2>3. SUFFICES ASSUME NEW r \in Rooms, NEW j \in DOMAIN log[r],
                        NEW u \in Turns, Of(r, j, u)
                 PROVE  /\ \E i \in 1..j : Of(r, i, u) /\ log[r][i].type = "turn_started"
                        /\ \A i \in 1..(j-1) : \A t \in Turns : Of(r, i, t) =>
                              \/ t # u /\ round'[t] < round'[u]
                              \/ /\ t = u
                                 /\ log[r][i].type # "turn_completed"
                                 /\ log[r][j].type # "turn_started"
    BY DEF LogSegmented
  <2>4. log[r] \in Seq(Event)
    BY DEF CancelInv, IInv, TypeOK
  <2>5. 1..(j-1) \subseteq DOMAIN log[r]
    BY <2>4
  <2> QED
    BY <2>1, <2>2, <2>3, <2>5 DEF LogSegmented
<1> QED
  BY <1>3, <1>4, <1>5, <1>6, <1>7 DEF LogInv

(* After an append, an entry of a log is an old one or the new one.         *)
LEMMA EntryAfterEmit ==
    ASSUME TypeOK, NEW h \in Rooms, NEW e \in Event, Emit(h, e)
    PROVE  /\ \A r \in Rooms : \A i \in DOMAIN log'[r] :
                 \/ i \in DOMAIN log[r] /\ log'[r][i] = log[r][i]
                 \/ r = h /\ i = Len(log[h]) + 1 /\ log'[r][i] = e
           /\ \A r \in Rooms : \A i \in DOMAIN log[r] :
                 /\ i \in DOMAIN log'[r] /\ log'[r][i] = log[r][i]
                 /\ i # Len(log[h]) + 1 \/ r # h
           /\ Len(log[h]) + 1 \in DOMAIN log'[h]
           /\ log'[h][Len(log[h]) + 1] = e
BY EmitEffect DEF TypeOK

(* The logs are indexed by an initial segment of the naturals.              *)
LEMMA Earlier ==
    ASSUME TypeOK, NEW r \in Rooms, NEW j \in DOMAIN log[r]
    PROVE  1 .. j \subseteq DOMAIN log[r] /\ j \in Nat
<1>1. log[r] \in Seq(Event)
  BY DEF TypeOK
<1> QED
  BY <1>1

(* An event that is no turn's own keeps LogInv.                             *)
LEMMA AnnouncesKeepsLog ==
    ASSUME CancelInv, LogInv, NEW h \in Rooms, NEW e \in Event, Announces(h, e)
    PROVE  LogInv'
<1>0. TypeOK
  BY DEF CancelInv, IInv
<1>1. \A r \in Rooms : \A i \in DOMAIN log'[r] :
          \/ i \in DOMAIN log[r] /\ log'[r][i] = log[r][i]
          \/ r = h /\ i = Len(log[h]) + 1 /\ log'[r][i] = e
  BY <1>0, EntryAfterEmit DEF Announces
<1>2. \A r \in Rooms : \A i \in DOMAIN log[r] :
          i \in DOMAIN log'[r] /\ log'[r][i] = log[r][i]
  BY <1>0, EntryAfterEmit DEF Announces
<1>3. e.type \notin TurnEvents /\ UNCHANGED <<turnRoom, round, ctxDone, turnState, pc>>
  BY DEF Announces
<1>4. \A r \in Rooms : \A i \in DOMAIN log'[r] : \A t \in Turns : Of(r, i, t)' =>
          i \in DOMAIN log[r] /\ log'[r][i] = log[r][i] /\ Of(r, i, t)
  BY <1>1, <1>3 DEF Of
<1>5. \A r \in Rooms : \A i \in DOMAIN log[r] : \A t \in Turns : Of(r, i, t) => Of(r, i, t)'
  BY <1>2 DEF Of
<1>6. EventsAtHome'
  BY <1>3, <1>4 DEF LogInv, EventsAtHome
<1>7. StartLogged'
  <2>1. \A t \in Turns : pc[t] \notin NotStarted => turnRoom[t] \in Rooms
    BY <1>0 DEF TypeOK, NotStarted
  <2> QED
    BY <2>1, <1>2, <1>3, <1>5 DEF LogInv, StartLogged
<1>8. LateThenSilent'
  BY <1>3, <1>4 DEF LogInv, LateThenSilent
<1>9. SealedIsLogged'
  <2>1. e.type # "turn_completed"
    BY <1>3 DEF TurnEvents
  <2> QED
    BY <2>1, <1>1, <1>2, <1>3 DEF LogInv, SealedIsLogged, Sealed, Completed
<1>10. AtMostOneLateEvent'
  BY <1>4 DEF LogInv, AtMostOneLateEvent
<1>11. LogSegmented'
  <2>1. LogSegmented
    BY DEF LogInv
  <2>2. SUFFICES ASSUME NEW r \in Rooms, NEW j \in DOMAIN log'[r],
                        NEW u \in Turns, Of(r, j, u)'
                 PROVE  /\ \E i \in 1..j : Of(r, i, u)' /\ log'[r][i].type = "turn_started"
                        /\ \A i \in 1..(j-1) : \A t \in Turns : Of(r, i, t)' =>
                              \/ t # u /\ round[t] < round[u]
                              \/ /\ t = u
                                 /\ log'[r][i].type # "turn_completed"
                                 /\ log'[r][j].type # "turn_started"
    BY <1>3 DEF LogSegmented
  <2>3. j \in DOMAIN log[r] /\ log'[r][j] = log[r][j] /\ Of(r, j, u)
    BY <1>4, <2>2
  <2>4. 1..j \subseteq DOMAIN log[r] /\ j \in Nat
    BY <1>0, <2>3, Earlier
  <2>5. \A i \in 1..j : \A t \in Turns : /\ Of(r, i, t)' <=> Of(r, i, t)
                                         /\ log'[r][i] = log[r][i]
    BY <1>2, <2>4 DEF Of
  <2>6. 1..(j-1) \subseteq 1..j
    BY <2>4
  <2> QED
    BY <2>1, <2>3, <2>5, <2>6 DEF LogSegmented
<1> QED
  BY <1>6, <1>7, <1>8, <1>9, <1>10, <1>11 DEF LogInv
(* The turn that speaks is its room's latest, has not completed, and has    *)
(* appended nothing late; before turn_started it has appended nothing.      *)
LEMMA SpeakerState ==
    ASSUME CancelInv, LogInv, NEW t \in Turns, pc[t] \in Speaking
    PROVE  /\ turnRoom[t] \in Rooms
           /\ ~Completed(t)
           /\ pc[t] = "announce" => t \notin ctxDone
           /\ \A r \in Rooms : \A i \in DOMAIN log[r] : Of(r, i, t) =>
                 ~log[r][i].late /\ pc[t] # "announce"
           /\ \A i \in DOMAIN log[turnRoom[t]] : \A u \in Turns :
                 Of(turnRoom[t], i, u) /\ u # t => round[u] < round[t]
<1>1. turnRoom[t] \in Rooms
  BY DEF CancelInv, IInv, TypeOK, Speaking
<1>2. ~Sealed(t)
  BY DEF CancelInv, IInv, StateAtPc, Speaking, Before, Running, Sealed
<1>3. ~Completed(t)
  BY <1>2 DEF LogInv, SealedIsLogged
<1>4. pc[t] = "announce" => t \notin ctxDone
  BY DEF CancelInv, CancelReach, PastRegister, Running
<1>5. \A r \in Rooms : \A i \in DOMAIN log[r] : Of(r, i, t) =>
          ~log[r][i].late /\ pc[t] # "announce"
  BY DEF LogInv, LateThenSilent, EventsAtHome, Speaking, Silenced, NotStarted
<1>6. currentTurn[turnRoom[t]] = t
  BY DEF CancelInv, IInv, SingleFlight, Speaking, InFlight, Before, Running
<1>7. ASSUME NEW i \in DOMAIN log[turnRoom[t]], NEW u \in Turns,
             Of(turnRoom[t], i, u), u # t
      PROVE  round[u] < round[t]
  <2>1. turnRoom[u] = turnRoom[t] /\ Admitted(u)
    BY <1>1, <1>7 DEF LogInv, EventsAtHome, NotStarted, Admitted
  <2> QED
    BY <1>6, <1>7, <2>1 DEF CancelInv, RoundsGrow, IsUpTo
<1> QED
  BY <1>1, <1>2, <1>3, <1>4, <1>5, <1>7

(* A turn's own event keeps LogInv.                                         *)
LEMMA SpeaksKeepsLog ==
    ASSUME CancelInv, LogInv, NEW t \in Turns, NEW e \in Event, Speaks(t, e)
    PROVE  LogInv'
<1>a. TypeOK /\ pc[t] \in Speaking /\ turnRoom[t] \in Rooms
  BY SpeakerState DEF CancelInv, IInv, Speaks
<1>b. Len(log[turnRoom[t]]) \in Nat
  BY <1>a, EmitEffect DEF TypeOK, Speaks
<1>c. PICK h \in Rooms, n \in Nat : h = turnRoom[t] /\ n = Len(log[h]) + 1
  BY <1>a, <1>b
<1>0. TypeOK /\ pc[t] \in Speaking /\ Emit(h, e)
  BY <1>a, <1>c DEF Speaks
<1>1. /\ h \in Rooms
      /\ ~Completed(t)
      /\ pc[t] = "announce" => t \notin ctxDone
      /\ \A r \in Rooms : \A i \in DOMAIN log[r] : Of(r, i, t) =>
            ~log[r][i].late /\ pc[t] # "announce"
      /\ \A i \in DOMAIN log[h] : \A u \in Turns :
            Of(h, i, u) /\ u # t => round[u] < round[t]
  BY <1>0, <1>c, SpeakerState
<1>2. \A r \in Rooms : \A i \in DOMAIN log'[r] :
          \/ i \in DOMAIN log[r] /\ log'[r][i] = log[r][i]
          \/ r = h /\ i = n /\ log'[r][i] = e
  BY <1>0, <1>c, EntryAfterEmit
<1>3. \A r \in Rooms : \A i \in DOMAIN log[r] :
          i \in DOMAIN log'[r] /\ log'[r][i] = log[r][i]
  BY <1>0, <1>c, EntryAfterEmit
<1>4. n \in DOMAIN log'[h] /\ log'[h][n] = e
  BY <1>0, <1>c, EntryAfterEmit
<1>5. /\ e.turn = t /\ e.type \in TurnEvents
      /\ e.late <=> t \in ctxDone
      /\ e.type = "turn_started" <=> pc[t] = "announce"
      /\ e.type = "turn_completed" <=> pc[t] = "completed"
      /\ pc'[t] \notin NotStarted /\ (pc[t] # "announce" => pc'[t] \in Silenced)
      /\ Sealed(t)' <=> pc[t] = "completed"
      /\ \A u \in Turns : u # t => pc'[u] = pc[u] /\ turnState'[u] = turnState[u]
      /\ UNCHANGED <<turnRoom, round, ctxDone>>
  BY DEF Speaks
<1>6. \A r \in Rooms : \A i \in DOMAIN log'[r] : \A u \in Turns : Of(r, i, u)' =>
          \/ i \in DOMAIN log[r] /\ log'[r][i] = log[r][i] /\ Of(r, i, u)
          \/ r = h /\ i = n /\ log'[r][i] = e /\ u = t
  BY <1>2, <1>5 DEF Of
<1>7. \A r \in Rooms : \A i \in DOMAIN log[r] : \A u \in Turns :
          Of(r, i, u) => Of(r, i, u)'
  BY <1>3 DEF Of
<1>8. Of(h, n, t)'
  BY <1>4, <1>5 DEF Of
<1>9. EventsAtHome'
  BY <1>c, <1>5, <1>6 DEF LogInv, EventsAtHome
<1>10. StartLogged'
  <2>1. ASSUME NEW u \in Turns, pc'[u] \notin NotStarted, pc[u] \notin NotStarted
        PROVE  \E i \in DOMAIN log'[turnRoom'[u]] :
                   /\ Of(turnRoom[u], i, u)'
                   /\ log'[turnRoom'[u]][i].type = "turn_started"
    <3>1. turnRoom[u] \in Rooms
      BY <1>0, <2>1 DEF TypeOK, NotStarted
    <3>2. PICK i \in DOMAIN log[turnRoom[u]] :
              /\ Of(turnRoom[u], i, u)
              /\ log[turnRoom[u]][i].type = "turn_started"
      BY <2>1 DEF LogInv, StartLogged
    <3> QED
      BY <1>3, <1>5, <1>7, <3>1, <3>2
  <2>2. ASSUME NEW u \in Turns, pc'[u] \notin NotStarted, pc[u] \in NotStarted
        PROVE  u = t /\ e.type = "turn_started"
    BY <1>0, <1>5, <2>2 DEF NotStarted, Speaking
  <2> QED
    BY <1>c, <1>4, <1>5, <1>8, <2>1, <2>2 DEF StartLogged
<1>11. LateThenSilent'
  BY <1>1, <1>5, <1>6 DEF LogInv, LateThenSilent
<1>12. AtMostOneLateEvent'
  BY <1>1, <1>6 DEF LogInv, AtMostOneLateEvent
<1>13. SealedIsLogged'
  <2>1. ASSUME NEW u \in Turns, u # t PROVE Completed(u)' <=> Completed(u)
    BY <1>2, <1>3, <1>5, <2>1 DEF Completed
  <2>2. Completed(t)' <=> pc[t] = "completed"
    BY <1>1, <1>2, <1>4, <1>5 DEF Completed
  <2>3. ASSUME NEW u \in Turns, u # t PROVE Sealed(u)' <=> Completed(u)'
    BY <1>5, <2>1, <2>3 DEF LogInv, SealedIsLogged, Sealed
  <2>4. Sealed(t)' <=> Completed(t)'
    BY <1>5, <2>2
  <2> QED
    BY <2>3, <2>4 DEF SealedIsLogged
<1>14. LogSegmented'
  <2> SUFFICES ASSUME NEW r \in Rooms, NEW j \in DOMAIN log'[r],
                      NEW u \in Turns, Of(r, j, u)'
               PROVE  /\ \E i \in 1..j : Of(r, i, u)' /\ log'[r][i].type = "turn_started"
                      /\ \A i \in 1..(j-1) : \A v \in Turns : Of(r, i, v)' =>
                            \/ v # u /\ round[v] < round[u]
                            \/ /\ v = u
                               /\ log'[r][i].type # "turn_completed"
                               /\ log'[r][j].type # "turn_started"
    BY <1>5 DEF LogSegmented
  <2>1. CASE j \in DOMAIN log[r] /\ log'[r][j] = log[r][j] /\ Of(r, j, u)
    <3>1. 1..j \subseteq DOMAIN log[r] /\ j \in Nat
      BY <1>0, <2>1, Earlier
    <3>2. \A i \in 1..j : \A v \in Turns : /\ Of(r, i, v)' <=> Of(r, i, v)
                                           /\ log'[r][i] = log[r][i]
      BY <1>3, <3>1 DEF Of
    <3>3. 1..(j-1) \subseteq 1..j
      BY <3>1
    <3> QED
      BY <2>1, <3>2, <3>3 DEF LogInv, LogSegmented
  <2>2. CASE r = h /\ j = n /\ log'[r][j] = e /\ u = t
    <3>1. DOMAIN log[h] = 1..(n-1) /\ n \in Nat /\ n >= 1
      BY <1>0, <1>c, EmitEffect DEF TypeOK
    <3>2. \E i \in 1..n : Of(h, i, t)' /\ log'[h][i].type = "turn_started"
      <4>1. CASE pc[t] = "announce"
        BY <1>4, <1>5, <1>8, <3>1, <4>1
      <4>2. CASE pc[t] # "announce"
        <5>1. PICK i \in DOMAIN log[h] :
                  Of(h, i, t) /\ log[h][i].type = "turn_started"
          BY <1>0, <1>c, <4>2 DEF LogInv, StartLogged, NotStarted, Speaking
        <5> QED
          BY <1>1, <1>3, <1>7, <3>1, <5>1
      <4> QED
        BY <4>1, <4>2
    <3>3. ASSUME NEW i \in 1..(n-1), NEW v \in Turns, Of(h, i, v)'
          PROVE  /\ Of(h, i, v) /\ log'[h][i] = log[h][i] /\ i \in DOMAIN log[h]
      BY <1>1, <1>3, <3>1, <3>3 DEF Of
    <3>4. ASSUME NEW i \in 1..(n-1), Of(h, i, t)'
          PROVE  log'[h][i].type # "turn_completed" /\ e.type # "turn_started"
      BY <1>1, <1>5, <3>3, <3>4 DEF Completed, Of
    <3>5. ASSUME NEW i \in 1..(n-1), NEW v \in Turns, Of(h, i, v)', v # t
          PROVE  round[v] < round[t]
      BY <1>1, <3>3, <3>5
    <3> QED
      BY <2>2, <3>2, <3>4, <3>5
  <2> QED
    BY <1>6, <2>1, <2>2
<1> QED
  BY <1>9, <1>10, <1>11, <1>12, <1>13, <1>14 DEF LogInv

(* CancelInv and LogInv together are inductive.                             *)
LEMMA LogInvNext == CancelInv /\ LogInv /\ [Next]_vars => LogInv'
<1>1. ASSUME CancelInv, LogInv, Next PROVE LogInv'
  BY <1>1, StepKinds, SilentKeepsLog, SpeaksKeepsLog, AnnouncesKeepsLog
<1>2. ASSUME CancelInv, LogInv, UNCHANGED vars PROVE LogInv'
  <2>1. Silent
    BY <1>2 DEF Silent, Sealed, vars, turnVars, ctxVars
  <2> QED
    BY <1>2, <2>1, SilentKeepsLog
<1> QED
  BY <1>1, <1>2

THEOREM LogInductive == Spec => []LogInv
<1>1. Init => LogInv
  BY InitLogInv
<1>2. CancelInv /\ LogInv /\ [Next]_vars => LogInv'
  BY LogInvNext
<1> QED
  BY <1>1, <1>2, CancelInductive, PTL DEF Spec

(* Turns do not interleave in the log of a room, come in the order of their *)
(* rounds, begin with turn_started and end with turn_completed if at all.   *)
THEOREM LogsAreSegmented == Spec => []LogSegmented
<1>1. LogInv => LogSegmented
  BY DEF LogInv
<1> QED
  BY <1>1, LogInductive, PTL

(* The invariant says it of every turn but one between the two steps.       *)
LEMMA LogInvDone == LogInv => DoneMeansCompleted
BY DEF LogInv, SealedIsLogged, Sealed, DoneMeansCompleted

(* Whoever reads turn_completed finds the turn done, and a turn that its    *)
(* clean-up counts and writes back as done was announced as completed.      *)
THEOREM DoneIsLogged == Spec => []DoneMeansCompleted
<1>1. LogInv => DoneMeansCompleted
  BY LogInvDone
<1> QED
  BY <1>1, LogInductive, PTL

(* A cancelled turn appends at most one more event of its own.              *)
THEOREM OneLateEvent == Spec => []AtMostOneLateEvent
<1>1. LogInv => AtMostOneLateEvent
  BY DEF LogInv
<1> QED
  BY <1>1, LogInductive, PTL
-----------------------------------------------------------------------------
(* The stored responses count what the log says.                            *)

InStream == {"stream", "token", "error"}

(* The tokens of an agent in the log of its turn's room.                    *)
Said(t, k) ==
    {i \in DOMAIN log[turnRoom[t]] :
        /\ Of(turnRoom[t], i, t)
        /\ log[turnRoom[t]][i].type = "token_received"
        /\ log[turnRoom[t]][i].agent = k}

(* A token that has been received and counted but not yet appended.         *)
Unsaid(t) == IF pc[t] = "token" THEN 1 ELSE 0

(* How many there should be: the response of an agent that has run, the     *)
(* count so far of the one that runs, none of those to come.                *)
Expected(t, k) ==
    IF k <= Len(responses[t]) THEN responses[t][k]
    ELSE IF k = Len(responses[t]) + 1 THEN tokens[t] - Unsaid(t)
    ELSE 0

CountInv ==
    \A t \in Turns :
        /\ pc[t] = "unused" => responses[t] = <<>>
        /\ pc[t] \notin InStream => tokens[t] = 0
        /\ pc[t] # "unused" =>
              \A k \in Nat \ {0} : Cardinality(Said(t, k)) = Expected(t, k)

(* An append adds one to the count it belongs to.                           *)
LEMMA SaidAfterEmit ==
    ASSUME TypeOK, NEW h \in Rooms, NEW e \in Event, Emit(h, e),
           UNCHANGED turnRoom, NEW t \in Turns, turnRoom[t] \in Rooms, NEW k
    PROVE  Cardinality(Said(t, k)') =
              IF turnRoom[t] = h /\ e.turn = t /\ e.type = "token_received"
                    /\ e.agent = k
              THEN Cardinality(Said(t, k)) + 1 ELSE Cardinality(Said(t, k))
<1> DEFINE n == Len(log[h]) + 1
           Counts == /\ turnRoom[t] = h /\ e.turn = t
                     /\ e.type = "token_received" /\ e.agent = k
<1>1. Said(t, k)' = IF Counts THEN Said(t, k) \cup {n} ELSE Said(t, k)
  <2> DEFINE s == turnRoom[t]
             Here(x) == /\ x.turn = t /\ x.type \in TurnEvents
                        /\ x.type = "token_received" /\ x.agent = k
  <2>1. /\ \A i \in DOMAIN log'[s] :
              \/ i \in DOMAIN log[s] /\ log'[s][i] = log[s][i]
              \/ s = h /\ i = n /\ log'[s][i] = e
        /\ \A i \in DOMAIN log[s] :
              i \in DOMAIN log'[s] /\ log'[s][i] = log[s][i]
        /\ s = h => n \in DOMAIN log'[s] /\ log'[s][n] = e
    BY EntryAfterEmit
  <2>2. /\ Said(t, k) = {i \in DOMAIN log[s] : Here(log[s][i])}
        /\ Said(t, k)' = {i \in DOMAIN log'[s] : Here(log'[s][i])}
    BY DEF Said, Of
  <2>3. Counts <=> s = h /\ Here(e)
    BY DEF TurnEvents
  <2> HIDE DEF n, s, Here, Counts
  <2> QED
    BY <2>1, <2>2, <2>3
<1>2. n \notin Said(t, k) \/ turnRoom[t] # h
  BY EntryAfterEmit DEF Said
<1>3. IsFiniteSet(Said(t, k))
  <2>1. Len(log[turnRoom[t]]) \in Nat
        /\ DOMAIN log[turnRoom[t]] = 1 .. Len(log[turnRoom[t]])
    BY LenProperties DEF TypeOK
  <2>2. IsFiniteSet(1 .. Len(log[turnRoom[t]]))
    BY <2>1, FS_Interval
  <2>3. Said(t, k) \in SUBSET (1 .. Len(log[turnRoom[t]]))
    BY <2>1 DEF Said
  <2> QED
    BY <2>2, <2>3, FS_Subset
<1>4. Cardinality(Said(t, k) \cup {n}) =
          IF n \in Said(t, k) THEN Cardinality(Said(t, k))
                             ELSE Cardinality(Said(t, k)) + 1
  BY <1>3, FS_AddElement
<1> QED
  BY <1>1, <1>2, <1>4

(* Nothing that is counted changes.                                         *)
SameCounts ==
    /\ UNCHANGED <<turnRoom, responses, tokens>>
    /\ \A u \in Turns :
          /\ pc'[u] = "unused" <=> pc[u] = "unused"
          /\ pc'[u] = "token" <=> pc[u] = "token"
          /\ pc'[u] \notin InStream => pc[u] \notin InStream \/ tokens[u] = 0

LEMMA QuietKeepsCounts ==
    ASSUME CountInv, SameCounts, UNCHANGED log
    PROVE  CountInv'
<1>1. \A t \in Turns, k \in Nat \ {0} :
          Said(t, k)' = Said(t, k) /\ Expected(t, k)' = Expected(t, k)
  BY DEF SameCounts, Said, Of, Expected, Unsaid
<1> QED
  BY <1>1 DEF CountInv, SameCounts

(* An event that is no token is not counted.                                *)
LEMMA OtherEventKeepsCounts ==
    ASSUME TypeOK, CountInv, SameCounts,
           NEW h \in Rooms, NEW e \in Event, Emit(h, e),
           e.type # "token_received"
    PROVE  CountInv'
<1>1. \A t \in Turns, k \in Nat \ {0} : Expected(t, k)' = Expected(t, k)
  BY DEF SameCounts, Expected, Unsaid
<1>2. ASSUME NEW t \in Turns, pc[t] # "unused", NEW k \in Nat \ {0}
      PROVE  Cardinality(Said(t, k)') = Cardinality(Said(t, k))
  BY <1>2, SaidAfterEmit DEF SameCounts, TypeOK
<1> QED
  BY <1>1, <1>2 DEF CountInv, SameCounts

(* Only turn t moves, and the log does not: the counts of all others stay.  *)
LEMMA OthersKeepCounts ==
    ASSUME CountInv, NEW t \in Turns, UNCHANGED <<turnRoom, log>>,
           \A u \in Turns \ {t} : /\ pc'[u] = pc[u] /\ tokens'[u] = tokens[u]
                                  /\ responses'[u] = responses[u],
           pc'[t] # "unused", pc'[t] \notin InStream => tokens'[t] = 0,
           \A k \in Nat \ {0} : Cardinality(Said(t, k)) = Expected(t, k)'
    PROVE  CountInv'
<1>1. \A u \in Turns, k \in Nat \ {0} : Said(u, k)' = Said(u, k)
  BY DEF Said, Of
<1>2. \A u \in Turns \ {t}, k \in Nat \ {0} : Expected(u, k)' = Expected(u, k)
  BY DEF Expected, Unsaid
<1> QED
  BY <1>1, <1>2 DEF CountInv

(* streamAgent returns: what was counted becomes the agent's response.      *)
LEMMA ReturnKeepsExpected ==
    ASSUME TypeOK, NEW t \in Turns, pc[t] # "token", ReturnFromStream(t),
           NEW k \in Nat \ {0}
    PROVE  /\ Expected(t, k)' = Expected(t, k)
           /\ pc'[t] = "agents" /\ tokens'[t] = 0
           /\ \A u \in Turns \ {t} : /\ pc'[u] = pc[u] /\ tokens'[u] = tokens[u]
                                     /\ responses'[u] = responses[u]
<1>1. /\ responses[t] \in Seq(0..MaxTokens) /\ tokens[t] \in 0..MaxTokens
      /\ responses'[t] = Append(responses[t], tokens[t])
      /\ tokens'[t] = 0 /\ pc'[t] = "agents"
  BY DEF ReturnFromStream, Goto, TypeOK
<1>2. /\ Len(responses[t]) \in Nat
      /\ Len(responses'[t]) = Len(responses[t]) + 1
      /\ \A i \in 1..Len(responses[t]) : responses'[t][i] = responses[t][i]
      /\ responses'[t][Len(responses[t]) + 1] = tokens[t]
  BY <1>1, AppendProperties, LenProperties
<1>3. Expected(t, k)' = Expected(t, k)
  BY <1>1, <1>2 DEF Expected, Unsaid
<1> QED
  BY <1>1, <1>3 DEF ReturnFromStream, Goto, TypeOK

LEMMA InitCounts == Init => CountInv
BY DEF Init, CountInv, InStream

(* The steps of a turn's goroutine in its agents' streams.                  *)
LEMMA StreamKeepsCounts ==
    ASSUME CancelInv, CountInv, NEW t \in Turns,
           Provider(t) \/ EmitToken(t) \/ EmitStreamError(t)
    PROVE  CountInv'
<1> USE TurnRuntimeAssumption
<1>1. TypeOK
  BY DEF CancelInv, IInv
<1>2. CASE StreamCancelled(t) \/ ReceiveDone(t)
  <2>1. /\ ReturnFromStream(t) /\ pc[t] = "stream"
        /\ UNCHANGED <<turnRoom, log>>
    BY <1>2 DEF StreamCancelled, ReceiveDone
  <2>2. \A k \in Nat \ {0} : Cardinality(Said(t, k)) = Expected(t, k)'
    BY <1>1, <2>1, ReturnKeepsExpected DEF CountInv
  <2>3. 1 \in Nat \ {0}
    OBVIOUS
  <2> QED
    BY <1>1, <2>1, <2>2, <2>3, ReturnKeepsExpected, OthersKeepCounts
<1>3. CASE ReceiveToken(t)
  <2>1. /\ pc[t] = "stream" /\ pc'[t] = "token"
        /\ tokens'[t] = tokens[t] + 1 /\ tokens[t] \in 0..MaxTokens
        /\ UNCHANGED <<turnRoom, log, responses>>
        /\ \A u \in Turns \ {t} : pc'[u] = pc[u] /\ tokens'[u] = tokens[u]
    BY <1>1, <1>3 DEF ReceiveToken, Goto, TypeOK, turnVars
  <2>2. \A k \in Nat \ {0} : Expected(t, k)' = Expected(t, k)
    BY <2>1 DEF Expected, Unsaid
  <2> QED
    BY <2>1, <2>2, OthersKeepCounts DEF CountInv, InStream
<1>4. CASE ReceiveError(t)
  BY <1>1, <1>4, QuietKeepsCounts
     DEF ReceiveError, SameCounts, InStream, Goto, TypeOK, turnVars
<1>5. CASE EmitToken(t)
  <2> DEFINE e == NewEvent("token_received", t, Agent(t))
             h == turnRoom[t]
  <2>1. /\ pc[t] = "token" /\ pc'[t] = "stream" /\ Emit(h, e)
        /\ UNCHANGED <<turnRoom, responses, tokens>>
        /\ \A u \in Turns \ {t} : pc'[u] = pc[u]
    BY <1>1, <1>5 DEF EmitToken, Goto, TypeOK, turnVars
  <2>2. /\ h \in Rooms /\ Len(responses[t]) \in Nat /\ tokens[t] \in 0..MaxTokens
        /\ Len(responses[t]) < NumAgents
    BY <1>1, <2>1 DEF TypeOK, CancelInv, IInv, AgentsAtPc
  <2>3. e \in Event
    BY <2>2, NewEventType DEF Agent, EventTypes, TurnEvents
  <2>4. e.turn = t /\ e.type = "token_received" /\ e.agent = Len(responses[t]) + 1
    BY DEF NewEvent, Agent
  <2>5. ASSUME NEW u \in Turns, pc'[u] # "unused", NEW k \in Nat \ {0}
        PROVE  Cardinality(Said(u, k)') = Expected(u, k)'
    <3>1. pc[u] # "unused" /\ turnRoom[u] \in Rooms
      BY <1>1, <2>1, <2>5 DEF TypeOK
    <3>2. Cardinality(Said(u, k)) = Expected(u, k)
      BY <3>1 DEF CountInv
    <3> HIDE DEF e
    <3>3. Cardinality(Said(u, k)') =
              IF u = t /\ k = Len(responses[t]) + 1
              THEN Cardinality(Said(u, k)) + 1 ELSE Cardinality(Said(u, k))
      BY <1>1, <2>1, <2>2, <2>3, <2>4, <3>1, SaidAfterEmit
    <3>4. Expected(u, k)' =
              IF u = t /\ k = Len(responses[t]) + 1
              THEN Expected(u, k) + 1 ELSE Expected(u, k)
      BY <2>1, <2>2 DEF Expected, Unsaid
    <3> QED
      BY <3>2, <3>3, <3>4
  <2> QED
    BY <2>1, <2>5 DEF CountInv, InStream
<1>6. CASE EmitStreamError(t)
  <2> DEFINE e == NewEvent("error", t, Agent(t))
             h == turnRoom[t]
  <2>1. /\ pc[t] = "error" /\ Emit(h, e) /\ ReturnFromStream(t)
        /\ UNCHANGED turnRoom
    BY <1>6 DEF EmitStreamError
  <2>2. /\ h \in Rooms /\ Len(responses[t]) \in Nat
        /\ Len(responses[t]) < NumAgents
    BY <1>1, <2>1 DEF TypeOK, CancelInv, IInv, AgentsAtPc
  <2>3. e \in Event /\ e.type = "error"
    BY <2>2, NewEventType DEF Agent, EventTypes, TurnEvents, NewEvent
  <2>4. ASSUME NEW u \in Turns, pc'[u] # "unused", NEW k \in Nat \ {0}
        PROVE  Cardinality(Said(u, k)') = Expected(u, k)'
    <3>1. pc[u] # "unused" /\ turnRoom[u] \in Rooms
      BY <1>1, <2>1, <2>4 DEF TypeOK, ReturnFromStream, Goto
    <3>2. Cardinality(Said(u, k)) = Expected(u, k)
      BY <3>1 DEF CountInv
    <3> HIDE DEF e
    <3>3. Cardinality(Said(u, k)') = Cardinality(Said(u, k))
      BY <1>1, <2>1, <2>2, <2>3, <3>1, SaidAfterEmit
    <3>4. Expected(u, k)' = Expected(u, k)
      <4>1. CASE u = t
        BY <1>1, <2>1, <4>1, ReturnKeepsExpected
      <4>2. CASE u # t
        BY <1>1, <2>1, <4>2, ReturnKeepsExpected DEF Expected, Unsaid
      <4> QED
        BY <4>1, <4>2
    <3> QED
      BY <3>2, <3>3, <3>4
  <2>5. \A u \in Turns : /\ pc'[u] = "unused" => responses'[u] = <<>>
                         /\ pc'[u] \notin InStream => tokens'[u] = 0
    BY <1>1, <2>1 DEF CountInv, ReturnFromStream, Goto, TypeOK, InStream
  <2> QED
    BY <2>4, <2>5 DEF CountInv
<1> QED
  BY <1>2, <1>3, <1>4, <1>5, <1>6 DEF Provider

(* The other steps of a turn.                                               *)
LEMMA TurnKeepsCounts ==
    ASSUME CancelInv, CountInv, NEW t \in Turns,
           \/ AnnounceTurn(t) \/ Register(t) \/ LoadRoom(t)
           \/ EmitRoomNotFound(t) \/ StopAgents(t) \/ StartAgent(t)
           \/ FinishAgents(t) \/ CompleteTurn(t) \/ EmitCompleted(t)
           \/ Unregister(t) \/ ReleaseRoom(t)
    PROVE  CountInv'
<1> USE TurnRuntimeAssumption DEF SameCounts, InStream, Goto, turnVars
<1>1. TypeOK
  BY DEF CancelInv, IInv
<1>2. CASE \/ Register(t) \/ LoadRoom(t) \/ StopAgents(t) \/ StartAgent(t)
           \/ FinishAgents(t) \/ CompleteTurn(t) \/ Unregister(t)
           \/ ReleaseRoom(t)
  <2>1. UNCHANGED <<log, turnRoom, responses, tokens>>
    BY <1>2 DEF Register, LoadRoom, StopAgents, StartAgent, FinishAgents,
                CompleteTurn, Unregister, ReleaseRoom
  <2>2. SameCounts
    BY <1>1, <1>2, <2>1 DEF Register, LoadRoom, StopAgents, StartAgent,
       FinishAgents, CompleteTurn, Unregister, ReleaseRoom, TypeOK, CountInv
  <2> QED
    BY <2>1, <2>2, QuietKeepsCounts
<1>3. CASE \/ AnnounceTurn(t) \/ EmitRoomNotFound(t) \/ EmitCompleted(t)
  <2>1. PICK type \in {"turn_started", "error", "turn_completed"} :
            Emit(turnRoom[t], NewEvent(type, t, 0))
    BY <1>3 DEF AnnounceTurn, EmitRoomNotFound, EmitCompleted
  <2>2. /\ NewEvent(type, t, 0) \in Event
        /\ NewEvent(type, t, 0).type # "token_received"
    BY NewEventType DEF EventTypes, TurnEvents, NewEvent
  <2>3. SameCounts /\ turnRoom[t] \in Rooms
    BY <1>1, <1>3 DEF AnnounceTurn, EmitRoomNotFound, EmitCompleted, TypeOK
  <2> QED
    BY <1>1, <2>1, <2>2, <2>3, OtherEventKeepsCounts
<1> QED
  BY <1>2, <1>3

(* A turn that is admitted has said nothing.                                *)
LEMMA SubmitKeepsCounts ==
    ASSUME TypeOK, EventsAtHome, CountInv, NEW t \in Turns, NEW r \in Rooms,
           SubmitAnswer(t, r)
    PROVE  CountInv'
<1>1. /\ pc[t] = "unused" /\ pc'[t] = "announce" /\ turnRoom'[t] = r
      /\ UNCHANGED <<log, responses, tokens>>
      /\ \A u \in Turns \ {t} : pc'[u] = pc[u] /\ turnRoom'[u] = turnRoom[u]
  BY DEF SubmitAnswer, Goto, TypeOK
<1>2. \A u \in Turns \ {t}, k \in Nat \ {0} :
          Said(u, k)' = Said(u, k) /\ Expected(u, k)' = Expected(u, k)
  BY <1>1 DEF Said, Of, Expected, Unsaid
<1>3. ASSUME NEW k \in Nat \ {0}
      PROVE  Cardinality(Said(t, k)') = Expected(t, k)'
  <2>1. Said(t, k)' = {}
    BY <1>1 DEF Said, Of, EventsAtHome, NotStarted
  <2>2. Expected(t, k)' = 0
    BY <1>1 DEF Expected, Unsaid, CountInv, InStream
  <2> QED
    BY <2>1, <2>2, FS_EmptySet
<1> QED
  BY <1>1, <1>2, <1>3 DEF CountInv, InStream

LEMMA CountInvNext ==
    CancelInv /\ LogInv /\ CountInv /\ [Next]_vars => CountInv'
<1> SUFFICES ASSUME CancelInv, LogInv, CountInv, [Next]_vars PROVE CountInv'
  OBVIOUS
<1>a. TypeOK /\ EventsAtHome
  BY DEF CancelInv, IInv, LogInv
<1>1. CASE UNCHANGED vars
  BY <1>1, QuietKeepsCounts DEF SameCounts, vars, turnVars
<1>2. ASSUME NEW r \in Rooms, SaveRoom(r) \/ DeleteRoom(r) PROVE CountInv'
  BY <1>2, QuietKeepsCounts DEF SaveRoom, DeleteRoom, SameCounts, turnVars
<1>3. ASSUME NEW r \in Rooms, AnnounceRoom(r) PROVE CountInv'
  BY <1>3, <1>a, RoomEventType, OtherEventKeepsCounts
     DEF AnnounceRoom, SameCounts, NewEvent, turnVars
<1>4. ASSUME NEW q \in Requests, NEW r \in Rooms,
             CancelTurn(q, r) \/ LookupCancel(q) \/ CallCancel(q)
      PROVE  CountInv'
  BY <1>4, QuietKeepsCounts
     DEF CancelTurn, LookupCancel, CallCancel, SameCounts, turnVars
<1>5. ASSUME NEW q \in Requests, EmitCancelled(q) PROVE CountInv'
  <2> DEFINE e == NewEvent("turn_cancelled", reqTurn[q], 0)
  <2>1. e \in Event /\ reqRoom[q] \in Rooms /\ e.type # "token_received"
    BY <1>5, <1>a, CancelEventType DEF EmitCancelled, TypeOK, NewEvent
  <2>2. Emit(reqRoom[q], e) /\ SameCounts
    BY <1>5 DEF EmitCancelled, SameCounts, turnVars
  <2> QED
    BY <1>a, <2>1, <2>2, OtherEventKeepsCounts
<1>6. ASSUME NEW q \in Requests, LookupCancel(q) \/ CallCancel(q)
      PROVE  CountInv'
  BY <1>6, QuietKeepsCounts DEF LookupCancel, CallCancel, SameCounts, turnVars
<1>7. CASE Next
  BY <1>7, <1>a, <1>2, <1>3, <1>4, <1>5, <1>6, NextCases, SubmitKeepsCounts,
     TurnKeepsCounts, StreamKeepsCounts DEF Cancel, InLoop
<1> QED
  BY <1>1, <1>7

(* The responses stored with a turn count the tokens that its subscribers   *)
(* were sent, agent by agent, whichever way each stream ended.              *)
THEOREM ResponsesCount == Spec => []ResponsesMatchLog
<1>1. CancelInv /\ CountInv => ResponsesMatchLog
  <2> SUFFICES ASSUME CancelInv, CountInv, NEW t \in Turns,
                      NEW k \in DOMAIN responses[t]
               PROVE  responses[t][k] = Cardinality(Said(t, k))
    BY DEF ResponsesMatchLog, Said
  <2>1. k \in Nat \ {0} /\ k <= Len(responses[t]) /\ pc[t] # "unused"
    BY DEF CancelInv, IInv, TypeOK, CountInv
  <2> QED
    BY <2>1 DEF CountInv, Expected
<1>2. Spec => []CountInv
  BY InitCounts, CountInvNext, LogInductive, CancelInductive, PTL DEF Spec
<1> QED
  BY <1>1, <1>2, CancelInductive, PTL
-----------------------------------------------------------------------------
(* TurnRuntime implements RoomLog.                                          *)

(* An append to a log is an append to what RoomLog sees of it.              *)
LEMMA PlainEmit ==
    ASSUME TypeOK, NEW h \in Rooms, NEW e \in Event, Emit(h, e)
    PROVE  PlainLog' = [PlainLog EXCEPT ![h] = Append(@, PlainEvent(e))]
<1> DEFINE P == {PlainEvent(x) : x \in Event}
           Plain(s) == [i \in 1..Len(s) |-> PlainEvent(s[i])]
<1>1. ASSUME NEW s \in Seq(Event)
      PROVE  Plain(s) \in Seq(P) /\ Len(Plain(s)) = Len(s)
  <2>1. Len(s) \in Nat /\ \A i \in 1..Len(s) : s[i] \in Event
    BY <1>1, ElementOfSeq, LenProperties
  <2>2. Plain(s) \in [1..Len(s) -> P]
    BY <2>1
  <2> QED
    BY <2>1, <2>2
<1>2. log[h] \in Seq(Event) /\ log'[h] = Append(log[h], e)
  BY DEF Emit, TypeOK
<1>3. Plain(Append(log[h], e)) = Append(Plain(log[h]), PlainEvent(e))
  <2>1. /\ Append(log[h], e) \in Seq(Event)
        /\ Len(Append(log[h], e)) = Len(log[h]) + 1 /\ Len(log[h]) \in Nat
        /\ \A i \in 1..Len(log[h]) : Append(log[h], e)[i] = log[h][i]
        /\ Append(log[h], e)[Len(log[h]) + 1] = e
    BY <1>2, AppendProperties, LenProperties
  <2>2. PlainEvent(e) \in P
    OBVIOUS
  <2>3. /\ Plain(log[h]) \in Seq(P) /\ Len(Plain(log[h])) = Len(log[h])
        /\ Plain(Append(log[h], e)) \in Seq(P)
        /\ Len(Plain(Append(log[h], e))) = Len(log[h]) + 1
    BY <1>1, <1>2, <2>1
  <2>4. /\ Append(Plain(log[h]), PlainEvent(e)) \in Seq(P)
        /\ Len(Append(Plain(log[h]), PlainEvent(e))) = Len(log[h]) + 1
        /\ \A i \in 1..Len(log[h]) :
              Append(Plain(log[h]), PlainEvent(e))[i] = Plain(log[h])[i]
        /\ Append(Plain(log[h]), PlainEvent(e))[Len(log[h]) + 1] = PlainEvent(e)
    <3> HIDE DEF P, Plain, PlainEvent
    <3> QED
      BY <2>2, <2>3, AppendProperties
  <2>5. \A i \in 1..(Len(log[h]) + 1) :
            Plain(Append(log[h], e))[i] = Append(Plain(log[h]), PlainEvent(e))[i]
    <3>1. \A i \in 1..Len(log[h]) : /\ Plain(log[h])[i] = PlainEvent(log[h][i])
                                   /\ i \in 1..(Len(log[h]) + 1)
      BY <2>1
    <3>2. \A i \in 1..(Len(log[h]) + 1) :
              Plain(Append(log[h], e))[i] = PlainEvent(Append(log[h], e)[i])
      BY <2>1
    <3> HIDE DEF Plain, PlainEvent
    <3> QED
      BY <2>1, <2>4, <3>1, <3>2
  <2> HIDE DEF P, Plain, PlainEvent
  <2> QED
    BY <2>3, <2>4, <2>5, SeqEqual
<1>4. PlainLog = [r \in Rooms |-> Plain(log[r])]
      /\ PlainLog' = [r \in Rooms |-> Plain(log'[r])]
  BY DEF PlainLog
<1>5. \A r \in Rooms : r # h => log'[r] = log[r]
  BY DEF Emit, TypeOK
<1> HIDE DEF Plain
<1> QED
  BY <1>2, <1>3, <1>4, <1>5

LEMMA PlainNewEvent ==
    ASSUME NEW type, NEW t, NEW a
    PROVE  PlainEvent(NewEvent(type, t, a)) = Abstract!Entry(type, t, a)
BY DEF PlainEvent, NewEvent, Abstract!Entry
(* What RoomLog sees of the state of one turn.                              *)
PhaseOf(t) ==
    CASE pc[t] = "unused"   -> "new"
      [] pc[t] = "announce" -> "admitted"
      [] pc[t] = "finished" -> "closed"
      [] OTHER -> IF turnState[t] = "done" /\ pc[t] # "completed"
                  THEN "sealed" ELSE "open"

(* If only turn t moves, so does only its phase.                            *)
LEMMA PhaseMoves ==
    ASSUME NEW t \in Turns, NEW p, PhaseOf(t)' = p,
           \A u \in Turns : u # t => pc'[u] = pc[u] /\ turnState'[u] = turnState[u]
    PROVE  Phase' = [Phase EXCEPT ![t] = p]
<1>1. \A u \in Turns : u # t => PhaseOf(u)' = PhaseOf(u)
  BY DEF PhaseOf
<1>2. /\ Phase = [u \in Turns |-> PhaseOf(u)]
      /\ Phase' = [u \in Turns |-> PhaseOf(u)']
  BY DEF Phase, PhaseOf
<1> HIDE DEF PhaseOf
<1> QED
  BY <1>1, <1>2

LEMMA PhaseStays ==
    ASSUME \A u \in Turns : PhaseOf(u)' = PhaseOf(u)
    PROVE  Phase' = Phase
<1>1. /\ Phase = [u \in Turns |-> PhaseOf(u)]
      /\ Phase' = [u \in Turns |-> PhaseOf(u)']
  BY DEF Phase, PhaseOf
<1> HIDE DEF PhaseOf
<1> QED
  BY <1>1

(* A turn is admitted to a room in which no other is active.                *)
LEMMA AdmitStep ==
    ASSUME CancelInv, NEW t \in Turns, NEW r \in Rooms, SubmitAnswer(t, r)
    PROVE  Abstract!Admit(t, r)
<1>a. TypeOK /\ SingleFlight
  BY DEF CancelInv, IInv
<1>1. Phase[t] = "new"
  BY DEF SubmitAnswer, Phase
<1>2. ASSUME NEW u \in Turns, turnRoom[u] = r PROVE ~Abstract!Active(u)
  <2>1. pc[u] \notin InFlight
    BY <1>2, <1>a DEF SubmitAnswer, CanStartTurn, SingleFlight
  <2>2. pc[u] \in {"unused", "finished"}
    BY <1>a, <2>1 DEF TypeOK, PCs
  <2>3. Phase[u] \in {"new", "closed"}
    BY <2>2 DEF Phase
  <2> QED
    BY <2>3 DEF Abstract!Active
<1>3. Phase' = [Phase EXCEPT ![t] = "admitted"]
  <2>1. PhaseOf(t)' = "admitted"
    BY <1>a DEF SubmitAnswer, Goto, TypeOK, PhaseOf
  <2>2. \A u \in Turns : u # t => pc'[u] = pc[u] /\ turnState'[u] = turnState[u]
    BY <1>a DEF SubmitAnswer, Goto, TypeOK
  <2> QED
    BY <2>1, <2>2, PhaseMoves
<1>4. /\ turnRoom' = [turnRoom EXCEPT ![t] = r]
      /\ PlainLog' = PlainLog /\ announced' = announced
  BY DEF SubmitAnswer, PlainLog
<1> QED
  BY <1>1, <1>2, <1>3, <1>4 DEF Abstract!Admit, Abstract!Move

(* The steps of a turn that append are Open, Say and Seal.                  *)
LEMMA SpeakingImplements ==
    ASSUME CancelInv, NEW t \in Turns,
           AnnounceTurn(t) \/ EmitRoomNotFound(t) \/ EmitToken(t)
               \/ EmitStreamError(t) \/ EmitCompleted(t)
    PROVE  Abstract!Next
<1>a. TypeOK /\ StateAtPc /\ AgentsAtPc /\ 0 \in 0..NumAgents
  BY TurnRuntimeAssumption DEF CancelInv, IInv
<1>b. ASSUME NEW type \in TurnEvents, NEW a \in 0..NumAgents, pc[t] # "unused",
             Emit(turnRoom[t], NewEvent(type, t, a))
      PROVE  PlainLog' = [PlainLog EXCEPT ![turnRoom[t]] =
                             Append(@, Abstract!Entry(type, t, a))]
  <2>1. NewEvent(type, t, a) \in Event /\ turnRoom[t] \in Rooms
    BY <1>a, <1>b, NewEventType DEF EventTypes, TypeOK
  <2> QED
    BY <1>a, <1>b, <2>1, PlainEmit, PlainNewEvent
<1> USE DEF Goto, roomVars, turnVars, ctxVars, TurnEvents
<1>1. CASE AnnounceTurn(t)
  <2>1. Phase[t] = "admitted"
    BY <1>1 DEF AnnounceTurn, Phase
  <2>2. Phase' = [Phase EXCEPT ![t] = "open"]
    <3>1. PhaseOf(t)' = "open"
      BY <1>1, <1>a DEF AnnounceTurn, PhaseOf, TypeOK, StateAtPc, Before
    <3> QED
      BY <1>1, <1>a, <3>1, PhaseMoves DEF AnnounceTurn, TypeOK
  <2>3. PlainLog' = [PlainLog EXCEPT ![turnRoom[t]] =
                        Append(@, Abstract!Entry("turn_started", t, 0))]
    BY <1>1, <1>a, <1>b DEF AnnounceTurn
  <2>4. Abstract!Open(t)
    BY <1>1, <2>1, <2>2, <2>3
       DEF AnnounceTurn, Abstract!Open, Abstract!Move, Abstract!Emit
  <2> QED
    BY <2>4 DEF Abstract!Next
<1>2. ASSUME NEW type \in {"token_received", "error"}, NEW a \in 0..NumAgents,
             NEW l \in {"unregister", "stream", "agents"},
             pc[t] \in {"notfound", "token", "error"},
             Emit(turnRoom[t], NewEvent(type, t, a)), Goto(t, l),
             UNCHANGED <<turnState, turnRoom, announced>>
      PROVE  Abstract!Next
  <2>1. turnState[t] = "streaming"
    BY <1>2, <1>a DEF StateAtPc, Running
  <2>2. Phase[t] = "open"
    BY <1>2, <2>1 DEF Phase
  <2>3. Phase' = Phase
    <3>1. \A u \in Turns : PhaseOf(u)' = PhaseOf(u)
      BY <1>2, <1>a, <2>1 DEF PhaseOf, TypeOK
    <3> QED
      BY <3>1, PhaseStays
  <2>4. PlainLog' = [PlainLog EXCEPT ![turnRoom[t]] =
                        Append(@, Abstract!Entry(type, t, a))]
    BY <1>2, <1>b
  <2>5. Abstract!Say(t, type, a)
    BY <1>2, <2>2, <2>3, <2>4 DEF Abstract!Say, Abstract!Emit
  <2> QED
    BY <2>5 DEF Abstract!Next
<1>3. CASE EmitRoomNotFound(t)
  BY <1>3, <1>2, <1>a DEF EmitRoomNotFound
<1>4. CASE EmitToken(t)
  <2>1. Agent(t) \in 0..NumAgents
    BY <1>4, <1>a, TurnRuntimeAssumption DEF EmitToken, Agent, AgentsAtPc, TypeOK
  <2> QED
    BY <1>4, <1>2, <2>1 DEF EmitToken
<1>5. CASE EmitStreamError(t)
  <2>1. Agent(t) \in 0..NumAgents
    BY <1>5, <1>a, TurnRuntimeAssumption
       DEF EmitStreamError, Agent, AgentsAtPc, TypeOK
  <2> QED
    BY <1>5, <1>2, <2>1 DEF EmitStreamError, ReturnFromStream
<1>6. CASE EmitCompleted(t)
  <2>1. Phase[t] = "open"
    BY <1>6 DEF EmitCompleted, Phase
  <2>2. Phase' = [Phase EXCEPT ![t] = "sealed"]
    <3>1. PhaseOf(t)' = "sealed"
      BY <1>6, <1>a DEF EmitCompleted, PhaseOf, TypeOK, StateAtPc
    <3> QED
      BY <1>6, <1>a, <3>1, PhaseMoves DEF EmitCompleted, TypeOK
  <2>3. PlainLog' = [PlainLog EXCEPT ![turnRoom[t]] =
                        Append(@, Abstract!Entry("turn_completed", t, 0))]
    BY <1>6, <1>a, <1>b DEF EmitCompleted
  <2>4. Abstract!Seal(t)
    BY <1>6, <2>1, <2>2, <2>3
       DEF EmitCompleted, Abstract!Seal, Abstract!Move, Abstract!Emit
  <2> QED
    BY <2>4 DEF Abstract!Next
<1> QED
  BY <1>1, <1>3, <1>4, <1>5, <1>6
(* The steps of a turn that append nothing are stutters, but for the last.  *)
LEMMA SilentImplements ==
    ASSUME CancelInv, NEW t \in Turns,
           \/ Register(t) \/ LoadRoom(t) \/ StopAgents(t) \/ StartAgent(t)
           \/ FinishAgents(t) \/ Provider(t) \/ CompleteTurn(t)
           \/ Unregister(t) \/ ReleaseRoom(t)
    PROVE  Abstract!Next \/ UNCHANGED Abstract!vars
<1>a. TypeOK /\ StateAtPc /\ SingleFlight
  BY DEF CancelInv, IInv
<1> USE DEF Goto, roomVars, turnVars, ctxVars
<1>1. CASE ReleaseRoom(t)
  <2>1. UNCHANGED turnState
    BY <1>1, <1>a DEF ReleaseRoom, SingleFlight, InFlight, TypeOK
  <2>2. Phase[t] \in {"open", "sealed"}
    BY <1>1 DEF ReleaseRoom, Phase
  <2>3. Phase' = [Phase EXCEPT ![t] = "closed"]
    <3>1. PhaseOf(t)' = "closed"
      BY <1>1, <1>a DEF ReleaseRoom, PhaseOf, TypeOK
    <3> QED
      BY <1>1, <1>a, <2>1, <3>1, PhaseMoves DEF ReleaseRoom, TypeOK
  <2>4. PlainLog' = PlainLog /\ UNCHANGED <<announced, turnRoom>>
    BY <1>1 DEF ReleaseRoom, PlainLog
  <2>5. Abstract!Close(t)
    BY <2>2, <2>3, <2>4 DEF Abstract!Close, Abstract!Move
  <2> QED
    BY <2>5 DEF Abstract!Next
<1>2. CASE \/ Register(t) \/ LoadRoom(t) \/ StopAgents(t) \/ StartAgent(t)
           \/ FinishAgents(t) \/ Provider(t) \/ CompleteTurn(t)
           \/ Unregister(t)
  <2>1. UNCHANGED <<log, announced, turnRoom>>
    BY <1>2 DEF Register, LoadRoom, StopAgents, StartAgent, FinishAgents,
                Provider, StreamCancelled, ReceiveToken, ReceiveDone,
                ReceiveError, ReturnFromStream, CompleteTurn, Unregister
  <2>2. PhaseOf(t)' = PhaseOf(t)
    BY <1>2, <1>a DEF Register, LoadRoom, StopAgents, StartAgent, FinishAgents,
                Provider, StreamCancelled, ReceiveToken, ReceiveDone,
                ReceiveError, ReturnFromStream, CompleteTurn, Unregister,
                PhaseOf, TypeOK, StateAtPc, Before, Running
  <2>3. \A u \in Turns : u # t => pc'[u] = pc[u] /\ turnState'[u] = turnState[u]
    BY <1>2, <1>a DEF Register, LoadRoom, StopAgents, StartAgent, FinishAgents,
                Provider, StreamCancelled, ReceiveToken, ReceiveDone,
                ReceiveError, ReturnFromStream, CompleteTurn, Unregister,
                TypeOK
  <2>4. \A u \in Turns : PhaseOf(u)' = PhaseOf(u)
    BY <2>2, <2>3 DEF PhaseOf
  <2> QED
    BY <2>1, <2>4, PhaseStays DEF Abstract!vars, PlainLog
<1> QED
  BY <1>1, <1>2

(* A turn_cancelled names an admitted turn, in the log of that turn's room. *)
LEMMA CancelledImplements ==
    ASSUME CancelInv, NEW q \in Requests, EmitCancelled(q)
    PROVE  Abstract!Next
<1> DEFINE t == reqTurn[q]
<1>a. TypeOK
  BY DEF CancelInv, IInv
<1>1. /\ t \in Turns /\ Admitted(t) /\ turnRoom[t] = reqRoom[q]
      /\ reqRoom[q] \in Rooms
  BY <1>a DEF EmitCancelled, CancelInv, RequestRead, TypeOK
<1>2. PlainLog' = [PlainLog EXCEPT ![turnRoom[t]] =
                      Append(@, Abstract!Entry("turn_cancelled", t, 0))]
  BY <1>a, <1>1, CancelEventType, PlainEmit, PlainNewEvent DEF EmitCancelled
<1>3. Phase[t] # "new"
  BY <1>1 DEF Phase, Admitted
<1>4. UNCHANGED <<Phase, announced, turnRoom>>
  BY DEF EmitCancelled, Phase, roomVars, turnVars
<1>5. Abstract!Cancelled(t)
  BY <1>2, <1>3, <1>4 DEF Abstract!Cancelled, Abstract!Emit
<1> QED
  BY <1>1, <1>5 DEF Abstract!Next

(* Every step of TurnRuntime is a step of RoomLog or leaves it alone.       *)
LEMMA StepImplements ==
    ASSUME CancelInv, [Next]_vars
    PROVE  Abstract!Next \/ UNCHANGED Abstract!vars
<1> DEFINE Goal == Abstract!Next \/ UNCHANGED Abstract!vars
<1> USE DEF roomVars, turnVars, ctxVars
<1>0. CASE UNCHANGED vars
  BY <1>0 DEF vars, Abstract!vars, PlainLog, Phase
<1>1. ASSUME NEW r \in Rooms, SaveRoom(r) \/ DeleteRoom(r) PROVE Goal
  BY <1>1 DEF SaveRoom, DeleteRoom, Abstract!vars, PlainLog, Phase
<1>2. ASSUME NEW r \in Rooms, AnnounceRoom(r) PROVE Goal
  <2>1. PlainLog' = [PlainLog EXCEPT ![r] =
                        Append(@, Abstract!Entry("room_created", None, 0))]
    BY <1>2, RoomEventType, PlainEmit, PlainNewEvent
       DEF AnnounceRoom, CancelInv, IInv
  <2>2. Abstract!Create(r)
    BY <1>2, <2>1 DEF AnnounceRoom, Abstract!Create, Abstract!Emit, Phase
  <2> QED
    BY <2>2 DEF Abstract!Next
<1>3. ASSUME NEW t \in Turns, NEW r \in Rooms, SubmitAnswer(t, r) PROVE Goal
  BY <1>3, AdmitStep DEF Abstract!Next
<1>4. ASSUME NEW t \in Turns, AnnounceTurn(t) \/ Register(t) \/ InLoop(t)
                                \/ Unregister(t) \/ ReleaseRoom(t)
      PROVE  Goal
  BY <1>4, SpeakingImplements, SilentImplements DEF InLoop
<1>5. ASSUME NEW q \in Requests, NEW r \in Rooms, CancelTurn(q, r) PROVE Goal
  BY <1>5 DEF CancelTurn, Abstract!vars, PlainLog, Phase
<1>6. ASSUME NEW q \in Requests, LookupCancel(q) \/ CallCancel(q) PROVE Goal
  BY <1>6 DEF LookupCancel, CallCancel, Abstract!vars, PlainLog, Phase
<1>7. ASSUME NEW q \in Requests, EmitCancelled(q) PROVE Goal
  BY <1>7, CancelledImplements
<1> QED
  BY <1>0, <1>1, <1>2, <1>3, <1>4, <1>5, <1>6, <1>7, NextCases DEF Cancel

LEMMA InitImplements == Init => Abstract!Init
<1> SUFFICES ASSUME Init PROVE Abstract!Init
  OBVIOUS
<1>1. PlainLog = [r \in Rooms |-> <<>>]
  BY DEF Init, PlainLog
<1>2. Phase = [t \in Turns |-> "new"]
  BY DEF Init, Phase
<1> QED
  BY <1>1, <1>2 DEF Init, Abstract!Init

(* However requests, goroutines and clean-ups interleave, the logs are those *)
(* that RoomLog promises.                                                   *)
THEOREM ImplementsLog == Spec => ImplementsRoomLog
<1>1. CancelInv /\ [Next]_vars => [Abstract!Next]_(Abstract!vars)
  BY StepImplements
<1> QED
  BY <1>1, InitImplements, CancelInductive, PTL
     DEF Spec, ImplementsRoomLog, Abstract!Spec
=============================================================================
