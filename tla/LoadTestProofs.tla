--------------------------- MODULE LoadTestProofs ---------------------------
(***************************************************************************)
(* Theorems about LoadTest for any number of workers, turns and tokens.    *)
(* Four invariants are kept together: of main (MainInv), of the offsets    *)
(* (OffsetInv), of what a worker knows of the server's log (ServeInv), and *)
(* of where each call is (CountInv).                                       *)
(***************************************************************************)
EXTENDS LoadTest, FiniteSetTheorems, SequenceTheorems, TLAPS

Places == {"profile", "refused", "rooms", "warmup", "measure", "cancel", "join",
           "close", "drain", "report", "done", "panicked"}
PastJoin == {"close", "drain", "report", "done", "panicked"}
PastClose == PastJoin \ {"close"}
WorkerPlaces == {"none", "loop", "begin", "submit", "open", "read", "report",
                 "pause", "stopped"}

(* What main has done at each of its places.                                *)
MainInv ==
    /\ mpc \in Places
    /\ closed <=> mpc \in PastClose
    /\ mpc \in PastJoin /\ ~forced => \A w \in Workers : HasEnded(w)

(* The offsets of each worker.                                              *)
OffsetInv ==
    /\ wpc \in [Workers -> WorkerPlaces]
    /\ pos \in [Workers -> Int]
    /\ roomOffsets \in [Workers -> Int]
    /\ nRead \in [Workers -> Int]
    /\ \A w \in Workers :
          /\ nRead[w] = roomOffsets[w] + 1
          /\ wpc[w] = "read" => pos[w] = roomOffsets[w] + 1

NotBegun == {"profile", "refused", "rooms"}
EventTypes == {"room_created", "turn_started", "token_received", "error",
               "turn_completed", "turn_cancelled"}
Entry == [turn : Nat, type : EventTypes]
Result == [turn : Nat, success : BOOLEAN, tokens : Nat]

At(s, n, turn, type) == {i \in 1..n : s[i] = Event(turn, type)}

(* The server's side: the last event of a room is of its latest turn, and   *)
(* nothing but a turn_cancelled comes after the turn_completed of a turn.   *)
RoomInv(w) ==
    /\ room[w] = "none" <=> log[w] = <<>>
    /\ \A i \in 1..Len(log[w]) : log[w][i].turn <= Current(w)
    /\ room[w] = "open" =>
          \A i \in 1..Len(log[w]) : log[w][i] # Event(Current(w), "turn_completed")
    /\ \A i, j \in 1..Len(log[w]) :
          i < j /\ log[w][i].type = "turn_completed" /\ log[w][j].turn = log[w][i].turn
          => log[w][j].type = "turn_cancelled"

(* What a worker has of the turn that it follows, and of one it has counted *)
(* as a success.                                                            *)
Follows(w) ==
    /\ result[w].turn = Current(w)
    /\ ~result[w].success
    /\ wpc[w] = "open" =>
          /\ result[w].tokens = 0
          /\ \A i \in 1..(roomOffsets[w] + 1) : log[w][i].turn < result[w].turn
    /\ wpc[w] = "read" =>
          LET n == roomOffsets[w] + 1
              t == result[w].turn IN
          /\ result[w].tokens = Cardinality(At(log[w], n, t, "token_received"))
          /\ At(log[w], n, t, "error") = {}
          /\ At(log[w], n, t, "turn_completed") = {}

Served(w) ==
    LET n == Len(log[w])
        t == result[w].turn IN
    /\ t = Current(w)
    /\ room[w] # "open"
    /\ \E i \in 1..n : At(log[w], n, t, "turn_completed") = {i}
    /\ At(log[w], n, t, "error") = {}
    /\ Cardinality(At(log[w], n, t, "token_received")) = result[w].tokens

ResultInv(w) ==
    /\ roomOffsets[w] + 1 \in 0..Len(log[w])
    /\ wpc[w] = "none" <=> room[w] = "none"
    /\ wpc[w] = "none" => result[w] = NoResult /\ roomOffsets[w] = -1
    /\ wpc[w] = "submit" => result[w] = NoResult
    /\ wpc[w] \in {"open", "read"} => Follows(w)
    /\ result[w].success => Served(w)

ServeTypes ==
    /\ log \in [Workers -> Seq(Entry)]
    /\ room \in [Workers -> {"none", "idle", "open", "sealed"}]
    /\ result \in [Workers -> Result]

ServeInv ==
    /\ ServeTypes
    /\ \A w \in Workers : RoomInv(w) /\ ResultInv(w)
    /\ mpc \in NotBegun => \A w \in Workers : wpc[w] = "none"

(* A call is in its worker, in the channel or in the totals, or was thrown  *)
(* away with the warm-up.                                                   *)
CountInv ==
    /\ turns \in [Workers -> Nat]
    /\ IsFiniteSet(Calls)
    /\ results \in Seq(Result)
    /\ stats.total \in Nat /\ discarded \in Nat
    /\ stats.total + discarded + Len(results) + Cardinality(InCall) = Begun
    /\ mpc \in NotBegun \cup {"warmup"} => discarded = 0
    /\ ~collecting => closed /\ results = <<>>
    /\ mpc \in {"report", "done"} => ~collecting

-----------------------------------------------------------------------------
(* Worker steps other than ReadEvent and OpenStream read nothing.           *)
LEMMA WorkerFrame ==
    ASSUME NEW w \in Workers,
           \/ NextTurn(w) \/ Begin(w) \/ Submit(w) \/ SubmitBusy(w)
           \/ SendResult(w) \/ Pause(w) \/ WorkerFails(w)
    PROVE  /\ ~HasEnded(w)
           /\ \E place \in WorkerPlaces \ {"read"} : Go(w, place)
           /\ UNCHANGED <<pos, roomOffsets, nRead, mainVars>>
<1> USE DEF Go, WorkerPlaces, mainVars, HasEnded
<1>1. CASE NextTurn(w) \/ Begin(w)
  BY <1>1 DEF NextTurn, Begin
<1>2. CASE Submit(w)
  BY <1>2 DEF Submit
<1>3. CASE SubmitBusy(w)
  BY <1>3 DEF SubmitBusy
<1>4. CASE SendResult(w) \/ Pause(w)
  BY <1>4 DEF SendResult, Pause
<1>5. CASE WorkerFails(w)
  BY <1>5 DEF WorkerFails, SubmitFails, StreamFails
<1> QED
  BY <1>1, <1>2, <1>3, <1>4, <1>5

LEMMA ReadFrame ==
    ASSUME NEW w \in Workers, OpenStream(w) \/ ReadEvent(w)
    PROVE  /\ ~HasEnded(w)
           /\ UNCHANGED wpc \/ \E place \in WorkerPlaces : Go(w, place)
           /\ UNCHANGED mainVars
<1>1. CASE OpenStream(w)
  BY <1>1 DEF OpenStream, Go, WorkerPlaces, mainVars, HasEnded
<1>2. CASE ReadEvent(w)
  <2>1. wpc[w] = "read" /\ UNCHANGED mainVars
    BY <1>2 DEF ReadEvent
  <2>2. PICK e : Take(w, e)
    BY <1>2 DEF ReadEvent
  <2>3. UNCHANGED wpc \/ \E place \in WorkerPlaces : Go(w, place)
    BY <2>2 DEF Take, WorkerPlaces
  <2> QED
    BY <2>1, <2>3 DEF HasEnded
<1> QED
  BY <1>1, <1>2

LEMMA ServerFrame ==
    ASSUME NEW w \in Workers, Server(w)
    PROVE  UNCHANGED <<workerVars, mainVars>>
  BY DEF Server, ServeEvent, ServeCompletion, ServeRelease

(* Every step keeps both invariants.                                        *)
LEMMA MainInvNext ==
    ASSUME MainInv, OffsetInv, [Next]_vars
    PROVE  MainInv'
<1> USE DEF MainInv, OffsetInv, Places, PastJoin, PastClose, HasEnded
<1>1. ASSUME NEW w \in Workers, Server(w) PROVE MainInv'
  BY <1>1, ServerFrame DEF workerVars, mainVars
<1>2. ASSUME NEW w \in Workers, WorkerRuns(w) \/ WorkerFails(w)
      PROVE  MainInv'
  <2>1. /\ ~HasEnded(w)
        /\ UNCHANGED mainVars
    BY <1>2, WorkerFrame, ReadFrame DEF WorkerRuns
  <2> QED
    BY <2>1 DEF mainVars
<1>3. CASE Collector
  BY <1>3 DEF Collector, CollectResult, CollectorReturns, workerVars, mainVars
<1>4. CASE MainBegins
  BY <1>4 DEF MainBegins, CheckProfile, CreateRooms, MainGoes, workerVars
<1>5. CASE EndWarmup \/ Stop
  BY <1>5 DEF EndWarmup, Stop, MainGoes, workerVars
<1>6. ASSUME NEW w \in Workers, CancelRoom(w) PROVE MainInv'
  BY <1>6 DEF CancelRoom, workerVars
<1>7. CASE Cancel \/ Join \/ CloseResults
  BY <1>7 DEF Cancel, Join, CloseResults, MainGoes, workerVars
<1>8. CASE Report \/ Finish
  BY <1>8 DEF Report, Finish, MainGoes, workerVars
<1>10. CASE JoinTimeout
  BY <1>10 DEF JoinTimeout, workerVars
<1>11. ASSUME NEW w \in Workers, Panic(w) PROVE MainInv'
  BY <1>11 DEF Panic, workerVars
<1>9. CASE UNCHANGED vars
  BY <1>9 DEF vars, workerVars, mainVars
<1> QED
  BY <1>1, <1>2, <1>3, <1>4, <1>5, <1>6, <1>7, <1>8, <1>9, <1>10, <1>11
     DEF Next, MainEnds

LEMMA OffsetInvNext ==
    ASSUME OffsetInv, [Next]_vars
    PROVE  OffsetInv'
<1> USE DEF OffsetInv
<1>1. ASSUME NEW w \in Workers, Server(w) PROVE OffsetInv'
  BY <1>1, ServerFrame DEF workerVars
<1>2. ASSUME NEW w \in Workers, OpenStream(w) PROVE OffsetInv'
  <2>1. /\ pos' = [pos EXCEPT ![w] = roomOffsets[w] + 1]
        /\ wpc' = [wpc EXCEPT ![w] = "read"]
        /\ UNCHANGED <<roomOffsets, nRead>>
    BY <1>2 DEF OpenStream, NextOffset, Go
  <2> QED
    BY <2>1 DEF WorkerPlaces
<1>3. ASSUME NEW w \in Workers, ReadEvent(w) PROVE OffsetInv'
  <2>1. /\ wpc[w] = "read" /\ pos[w] = roomOffsets[w] + 1
        /\ pos' = [pos EXCEPT ![w] = pos[w] + 1]
        /\ nRead' = [nRead EXCEPT ![w] = nRead[w] + 1]
        /\ CommitOffset(w, pos[w])
    BY <1>3 DEF ReadEvent
  <2>3. roomOffsets' = [roomOffsets EXCEPT ![w] = pos[w]]
    <3>1. pos[w] > roomOffsets[w]
      BY <2>1
    <3> QED
      BY <2>1, <3>1 DEF CommitOffset
  <2>2. wpc' \in [Workers -> WorkerPlaces] /\ \A v \in Workers \ {w} : wpc'[v] = wpc[v]
    BY <1>3, ReadFrame DEF Go
  <2> QED
    BY <2>1, <2>2, <2>3
<1>4. ASSUME NEW w \in Workers,
             \/ NextTurn(w) \/ Begin(w) \/ Submit(w) \/ SubmitBusy(w)
             \/ SendResult(w) \/ Pause(w) \/ WorkerFails(w)
      PROVE  OffsetInv'
  BY <1>4, WorkerFrame DEF Go
<1>5. CASE CreateRooms
  <2>1. wpc' \in [Workers -> {"none", "loop"}]
    BY <1>5 DEF CreateRooms
  <2> QED
    BY <1>5, <2>1 DEF CreateRooms, WorkerPlaces
<1>6. CASE CheckProfile \/ Collector \/ EndWarmup \/ Stop
  BY <1>6 DEF CheckProfile, Collector, CollectResult, CollectorReturns,
     EndWarmup, Stop, MainGoes, workerVars
<1>7. CASE MainEnds
  BY <1>7 DEF MainEnds, Cancel, Join, CloseResults, Report, CancelRoom, Finish,
     MainGoes, workerVars
<1>9. CASE JoinTimeout \/ \E w \in Workers : Panic(w)
  BY <1>9 DEF JoinTimeout, Panic, workerVars
<1>8. CASE UNCHANGED vars
  BY <1>8 DEF vars, workerVars
<1> QED
  BY <1>1, <1>2, <1>3, <1>4, <1>5, <1>6, <1>7, <1>8, <1>9
     DEF Next, WorkerRuns, MainBegins

-----------------------------------------------------------------------------
(* An event is appended to the log of a room.                               *)
LEMMA Emitted ==
    ASSUME ServeTypes, NEW w \in Workers, log[w] # <<>>, NEW e \in Entry, Emit(w, e)
    PROVE  /\ log' \in [Workers -> Seq(Entry)]
           /\ Len(log[w]) \in Nat \ {0} /\ Len(log'[w]) = Len(log[w]) + 1
           /\ \A i \in 1..Len(log[w]) : log'[w][i] = log[w][i] /\ log[w][i] \in Entry
           /\ log'[w][Len(log[w]) + 1] = e
           /\ log'[w] # <<>>
           /\ \A v \in Workers \ {w} : log'[v] = log[v]
           /\ Current(w)' = e.turn
           /\ Current(w) \in Nat
<1>1. log[w] \in Seq(Entry)
  BY DEF ServeTypes
<1>2. /\ Len(log[w]) \in Nat \ {0}
      /\ \A i \in 1..Len(log[w]) : log[w][i] \in Entry
  BY <1>1, EmptySeq, LenProperties
<1>3. log' = [log EXCEPT ![w] = Append(log[w], e)]
  BY DEF Emit
<1>4. /\ Append(log[w], e) \in Seq(Entry)
      /\ Len(Append(log[w], e)) = Len(log[w]) + 1
      /\ \A i \in 1..Len(log[w]) : Append(log[w], e)[i] = log[w][i]
      /\ Append(log[w], e)[Len(log[w]) + 1] = e
      /\ Append(log[w], e) # <<>>
  BY <1>1, AppendProperties
<1>5. log'[w] = Append(log[w], e) /\ \A v \in Workers \ {w} : log'[v] = log[v]
  BY <1>3 DEF ServeTypes
<1>6. Current(w)' = e.turn
  BY <1>4, <1>5 DEF Current
<1>7. Current(w) \in Nat
  BY <1>2 DEF Current, Entry
<1> QED
  BY <1>2, <1>3, <1>4, <1>5, <1>6, <1>7 DEF ServeTypes

(* The ways in which the server changes a room.                             *)
Speaks(w) ==
    /\ room[w] = "open" /\ UNCHANGED room
    /\ \E type \in {"token_received", "error"} : Emit(w, Event(Current(w), type))
Seals(w) ==
    /\ room[w] = "open" /\ room' = [room EXCEPT ![w] = "sealed"]
    /\ Emit(w, Event(Current(w), "turn_completed"))
Releases(w) ==
    /\ room[w] \in {"open", "sealed"} /\ room' = [room EXCEPT ![w] = "idle"]
    /\ UNCHANGED log
Cancels(w) ==
    /\ room[w] \in {"open", "sealed"} /\ UNCHANGED room
    /\ Emit(w, Event(Current(w), "turn_cancelled"))

LEMMA RoomKept ==
    ASSUME ServeTypes, NEW w \in Workers, \A v \in Workers : RoomInv(v),
           Speaks(w) \/ Seals(w) \/ Releases(w) \/ Cancels(w) \/ Accept(w)
    PROVE  /\ log' \in [Workers -> Seq(Entry)]
           /\ room' \in [Workers -> {"none", "idle", "open", "sealed"}]
           /\ \A v \in Workers : RoomInv(v)'
           /\ \A v \in Workers \ {w} : log'[v] = log[v] /\ room'[v] = room[v]
<1>0. /\ log[w] # <<>> /\ room[w] # "none"
      /\ Current(w) \in Nat /\ Len(log[w]) \in Nat \ {0}
      /\ \A i \in 1..Len(log[w]) : log[w][i] \in Entry
  <2>1. room[w] # "none"
    BY DEF Speaks, Seals, Releases, Cancels, Accept
  <2>2. log[w] # <<>> /\ log[w] \in Seq(Entry)
    BY <2>1 DEF RoomInv, ServeTypes
  <2>3. Len(log[w]) \in Nat \ {0} /\ \A i \in 1..Len(log[w]) : log[w][i] \in Entry
    BY <2>2, EmptySeq, LenProperties
  <2> QED
    BY <2>1, <2>2, <2>3 DEF Current, Entry
<1>1. room' \in [Workers -> {"none", "idle", "open", "sealed"}]
  BY DEF ServeTypes, Speaks, Seals, Releases, Cancels, Accept
<1>2. \A v \in Workers \ {w} : room'[v] = room[v]
  BY DEF ServeTypes, Speaks, Seals, Releases, Cancels, Accept
<1>3. ASSUME NEW type \in EventTypes, NEW turn \in Nat, Emit(w, Event(turn, type)),
             room'[w] # "none",
             turn = Current(w) \/ turn = Current(w) + 1,
             turn = Current(w) => room[w] = "open" \/ type = "turn_cancelled",
             turn = Current(w) /\ room'[w] = "open" =>
                 room[w] = "open" /\ type # "turn_completed",
             turn = Current(w) + 1 => type # "turn_completed"
      PROVE  log' \in [Workers -> Seq(Entry)] /\ RoomInv(w)'
             /\ \A v \in Workers \ {w} : log'[v] = log[v]
  <2> DEFINE e == Event(turn, type)
             n == Len(log[w])
  <2>1. e \in Entry /\ e.turn = turn /\ e.type = type
    BY <1>3 DEF Entry, Event
  <2>2. /\ log' \in [Workers -> Seq(Entry)]
        /\ n \in Nat \ {0} /\ Len(log'[w]) = n + 1
        /\ \A i \in 1..n : log'[w][i] = log[w][i] /\ log[w][i] \in Entry
        /\ log'[w][n + 1] = e /\ log'[w] # <<>>
        /\ \A v \in Workers \ {w} : log'[v] = log[v]
        /\ Current(w)' = turn /\ Current(w) \in Nat
    BY <1>0, <1>3, <2>1, Emitted
  <2> HIDE DEF e, n
  <2>3. \A i \in 1..(n + 1) : i = n + 1 \/ i \in 1..n
    BY <2>2
  <2>4. \A i \in 1..Len(log'[w]) : log'[w][i].turn <= Current(w)'
    <3>1. \A i \in 1..n : log[w][i].turn <= Current(w) /\ log[w][i].turn \in Nat
      BY <2>2 DEF RoomInv, n, Entry
    <3> QED
      BY <1>3, <2>1, <2>2, <2>3, <3>1
  <2>5. ASSUME room'[w] = "open", NEW i \in 1..Len(log'[w])
        PROVE  log'[w][i] # Event(Current(w)', "turn_completed")
    <3>1. CASE i = n + 1
      <4>1. type # "turn_completed"
        BY <1>3, <2>5
      <4> QED
        BY <2>1, <2>2, <3>1, <4>1 DEF Event
    <3>2. CASE i \in 1..n
      <4>1. CASE turn = Current(w)
        <5>1. log[w][i] # Event(Current(w), "turn_completed")
          BY <1>3, <2>5, <3>2, <4>1 DEF RoomInv, n
        <5> QED
          BY <2>2, <3>2, <4>1, <5>1
      <4>2. CASE turn = Current(w) + 1
        <5>1. log[w][i].turn <= Current(w) /\ log[w][i].turn \in Nat
          BY <2>2, <3>2 DEF RoomInv, n, Entry
        <5> QED
          BY <2>2, <3>2, <4>2, <5>1 DEF Event
      <4> QED
        BY <1>3, <4>1, <4>2
    <3> QED
      BY <2>2, <2>3, <3>1, <3>2
  <2>6. ASSUME NEW i \in 1..Len(log'[w]), NEW j \in 1..Len(log'[w]), i < j,
               log'[w][i].type = "turn_completed", log'[w][j].turn = log'[w][i].turn
        PROVE  log'[w][j].type = "turn_cancelled"
    <3>1. i \in 1..n
      BY <2>2, <2>6
    <3>2. CASE j \in 1..n
      <4>1. log'[w][i] = log[w][i] /\ log'[w][j] = log[w][j]
        BY <2>2, <3>1, <3>2
      <4>2. i < j /\ log[w][i].type = "turn_completed" /\ log[w][j].turn = log[w][i].turn
        BY <2>6, <4>1
      <4>3. log[w][j].type = "turn_cancelled"
        BY <3>1, <3>2, <4>2 DEF RoomInv, n
      <4> QED
        BY <4>1, <4>3
    <3>3. CASE j = n + 1
      <4>1. log[w][i].turn = turn /\ log[w][i].type = "turn_completed" /\ log[w][i] \in Entry
        BY <2>1, <2>2, <2>6, <3>1, <3>3
      <4>2. log[w][i].turn <= Current(w)
        BY <3>1 DEF RoomInv, n
      <4>3. turn = Current(w)
        BY <1>3, <2>2, <4>1, <4>2
      <4>4. log[w][i] = Event(Current(w), "turn_completed")
        BY <4>1, <4>3 DEF Event, Entry
      <4>5. room[w] # "open"
        BY <3>1, <4>4 DEF RoomInv, n
      <4> QED
        BY <1>3, <2>1, <2>2, <3>3, <4>3, <4>5
    <3> QED
      BY <2>2, <2>3, <3>2, <3>3
  <2>7. room'[w] = "none" <=> log'[w] = <<>>
    BY <1>3, <2>2
  <2> QED
    BY <2>2, <2>4, <2>5, <2>6, <2>7 DEF RoomInv
<1>4. /\ log' \in [Workers -> Seq(Entry)] /\ RoomInv(w)'
      /\ \A v \in Workers \ {w} : log'[v] = log[v]
  <2>1. CASE Speaks(w)
    BY <1>0, <1>3, <2>1 DEF Speaks, EventTypes
  <2>2. CASE Seals(w)
    BY <1>0, <1>3, <2>2 DEF Seals, EventTypes, ServeTypes
  <2>3. CASE Cancels(w)
    BY <1>0, <1>3, <2>3 DEF Cancels, EventTypes
  <2>4. CASE Accept(w)
    BY <1>0, <1>3, <2>4 DEF Accept, EventTypes, ServeTypes
  <2>5. CASE Releases(w)
    BY <2>5, <1>0 DEF Releases, RoomInv, ServeTypes, Current
  <2> QED
    BY <2>1, <2>2, <2>3, <2>4, <2>5
<1>5. ASSUME NEW v \in Workers \ {w} PROVE RoomInv(v)'
  <2>1. log'[v] = log[v] /\ room'[v] = room[v] /\ RoomInv(v)
    BY <1>2, <1>4
  <2> QED
    BY <2>1 DEF RoomInv, Current
<1> QED
  BY <1>1, <1>2, <1>4, <1>5

-----------------------------------------------------------------------------
(* What a worker knows of its room stays true while the log grows.          *)
LEMMA ResultFrame ==
    ASSUME NEW w \in Workers, ResultInv(w),
           log'[w] = log[w], room'[w] = room[w], result'[w] = result[w],
           roomOffsets'[w] = roomOffsets[w], wpc'[w] = wpc[w]
    PROVE  ResultInv(w)'
<1>1. \A n \in Nat : \A t, type : At(log'[w], n, t, type) = At(log[w], n, t, type)
  BY DEF At, Event
<1> QED
  BY DEF At, ResultInv, Follows, Served, Current, Event

LEMMA ResultKept ==
    ASSUME ServeTypes, NEW w \in Workers, RoomInv(w), ResultInv(w),
           Speaks(w) \/ Seals(w) \/ Releases(w) \/ Cancels(w),
           result'[w] = result[w], roomOffsets'[w] = roomOffsets[w], wpc'[w] = wpc[w]
    PROVE  ResultInv(w)'
<1>0. room[w] # "none" /\ room'[w] # "none" /\ log[w] # <<>>
  BY DEF Speaks, Seals, Releases, Cancels, RoomInv, ServeTypes
<1>1. CASE Releases(w)
  <2>1. log'[w] = log[w] /\ room'[w] # "open"
    BY <1>1 DEF Releases, ServeTypes
  <2> QED
    BY <1>0, <2>1 DEF At, ResultInv, Follows, Served, Current, Event
<1>2. CASE Speaks(w) \/ Seals(w) \/ Cancels(w)
  <2>1. PICK e \in Entry :
          /\ Emit(w, e) /\ e.turn = Current(w)
          /\ e.type = "turn_cancelled" \/ room[w] = "open"
    <3>1. Current(w) \in Nat
      <4>1. log[w] \in Seq(Entry)
        BY DEF ServeTypes
      <4>2. Len(log[w]) \in 1..Len(log[w])
        BY <1>0, <4>1, EmptySeq
      <4>3. log[w][Len(log[w])] \in Entry
        BY <4>1, <4>2, ElementOfSeq
      <4> QED
        BY <4>3 DEF Current, Entry
    <3>2. \A type \in EventTypes : Event(Current(w), type) \in Entry
      BY <3>1 DEF Entry, Event
    <3>3. PICK type \in EventTypes :
             /\ Emit(w, Event(Current(w), type))
             /\ type = "turn_cancelled" \/ room[w] = "open"
      BY <1>2 DEF Speaks, Seals, Cancels, EventTypes
    <3>4. /\ Event(Current(w), type).turn = Current(w)
          /\ Event(Current(w), type).type = type
      BY DEF Event
    <3> QED
      BY <3>2, <3>3, <3>4
  <2>2. room'[w] = room[w] \/ room'[w] = "sealed"
    BY <1>2 DEF Speaks, Seals, Cancels, ServeTypes
  <2>3. PICK n \in Nat \ {0} :
        /\ n = Len(log[w]) /\ Len(log'[w]) = n + 1
        /\ \A i \in 1..n : log'[w][i] = log[w][i]
        /\ log'[w][n + 1] = e
        /\ Current(w)' = Current(w)
    BY <1>0, <2>1, Emitted
  <2>4. roomOffsets'[w] + 1 \in 0..Len(log'[w])
    BY <2>3 DEF ResultInv
  <2>5. ASSUME wpc'[w] \in {"open", "read"} PROVE Follows(w)'
    <3>1. PICK m \in 0..n : m = roomOffsets[w] + 1
      BY <2>3 DEF ResultInv
    <3>2. Follows(w) /\ \A i \in 1..m : log'[w][i] = log[w][i]
      BY <2>3, <2>5 DEF ResultInv
    <3>3. \A t, type : At(log'[w], m, t, type) = At(log[w], m, t, type)
      BY <3>2 DEF At, Event
    <3>4. m = roomOffsets'[w] + 1
      BY <3>1
    <3> HIDE DEF ResultInv
    <3>5. CASE wpc[w] = "open"
      BY <2>3, <3>1, <3>2, <3>4, <3>5 DEF Follows
    <3>6. CASE wpc[w] = "read"
      BY <2>3, <3>1, <3>2, <3>3, <3>4, <3>6 DEF Follows
    <3> QED
      BY <2>5, <3>5, <3>6
  <2>6. ASSUME result'[w].success PROVE Served(w)'
    <3>1. Served(w)
      BY <2>6 DEF ResultInv
    <3>2. e.type = "turn_cancelled" /\ room'[w] # "open"
      BY <2>1, <2>2, <3>1 DEF Served
    <3>3. \A t : \A type \in {"turn_completed", "error", "token_received"} :
              At(log'[w], n + 1, t, type) = At(log[w], n, t, type)
      BY <2>3, <3>2 DEF At, Event
    <3>4. \A i \in 1..n : i \in 1..(n + 1)
      OBVIOUS
    <3> QED
      BY <2>3, <3>1, <3>2, <3>3, <3>4 DEF Served
  <2> QED
    BY <1>0, <2>4, <2>5, <2>6 DEF ResultInv
<1> QED
  BY <1>1, <1>2

-----------------------------------------------------------------------------
(* The reader's step: what the next event means to the turn it follows.     *)
LEMMA ReadKept ==
    ASSUME ServeTypes, OffsetInv, NEW w \in Workers, RoomInv(w), ResultInv(w),
           ReadEvent(w)
    PROVE  /\ result' \in [Workers -> Result]
           /\ \A v \in Workers \ {w} : /\ result'[v] = result[v] /\ wpc'[v] = wpc[v]
                                       /\ roomOffsets'[v] = roomOffsets[v]
           /\ UNCHANGED <<log, room, mpc>>
           /\ ResultInv(w)'
<1>1. PICK n \in 0..Len(log[w]) : /\ n = roomOffsets[w] + 1 /\ pos[w] = n
                                 /\ n + 1 \in 1..Len(log[w])
                                 /\ Len(log[w]) \in Nat
  <2>1. pos[w] = roomOffsets[w] + 1 /\ pos[w] < Len(log[w]) /\ roomOffsets[w] \in Int
    BY DEF ReadEvent, OffsetInv
  <2>2. Len(log[w]) \in Nat
    BY LenProperties DEF ServeTypes
  <2>3. roomOffsets[w] + 1 \in 0..Len(log[w])
    BY DEF ResultInv
  <2> QED
    BY <2>1, <2>2, <2>3
<1> DEFINE e == log[w][n + 1]
<1>2. /\ wpc[w] = "read" /\ Take(w, e) /\ CommitOffset(w, n)
      /\ UNCHANGED <<log, room, mpc>>
  BY <1>1 DEF ReadEvent, serverVars, mainVars
<1>3. e \in Entry
  BY <1>1, ElementOfSeq DEF ServeTypes
<1> HIDE DEF e
<1>4. roomOffsets' = [roomOffsets EXCEPT ![w] = n]
  <2>1. n > roomOffsets[w] /\ roomOffsets \in [Workers -> Int]
    BY <1>1 DEF OffsetInv
  <2> QED
    BY <1>2, <2>1 DEF CommitOffset
<1>5. roomOffsets'[w] + 1 = n + 1 /\ \A v \in Workers \ {w} : roomOffsets'[v] = roomOffsets[v]
  BY <1>1, <1>4 DEF OffsetInv
<1>6. PICK t \in Nat : t = result[w].turn
  BY DEF ServeTypes, Result
<1>7. /\ t = Current(w) /\ ~result[w].success /\ result[w] \in Result
      /\ result[w].tokens = Cardinality(At(log[w], n, t, "token_received"))
      /\ At(log[w], n, t, "error") = {}
      /\ At(log[w], n, t, "turn_completed") = {}
  BY <1>1, <1>2, <1>6 DEF ResultInv, Follows, ServeTypes
<1>8. \A type :
        /\ e = Event(t, type) =>
              At(log[w], n + 1, t, type) = At(log[w], n, t, type) \cup {n + 1}
        /\ e # Event(t, type) => At(log[w], n + 1, t, type) = At(log[w], n, t, type)
  <2>1. SUFFICES ASSUME NEW type
        PROVE  /\ e = Event(t, type) =>
                     At(log[w], n + 1, t, type) = At(log[w], n, t, type) \cup {n + 1}
               /\ e # Event(t, type) =>
                     At(log[w], n + 1, t, type) = At(log[w], n, t, type)
    OBVIOUS
  <2>2. n \in Nat
    BY <1>1
  <2> QED
    BY <2>2 DEF At, e
<1>9. \A type : At(log'[w], n + 1, t, type) = At(log[w], n + 1, t, type)
  BY <1>2 DEF At, Event
<1>10. room[w] # "none" /\ Current(w)' = Current(w)
  <2>1. room[w] # "none"
    BY <1>2 DEF ResultInv
  <2> QED
    BY <1>2, <2>1 DEF Current
<1>11. CASE e.turn # t
  <2>1. UNCHANGED <<result, wpc>>
    BY <1>2, <1>6, <1>11 DEF Take
  <2>2. \A type : At(log'[w], n + 1, t, type) = At(log[w], n, t, type)
    <3>1. \A type : e # Event(t, type)
      BY <1>11 DEF Event
    <3> QED
      BY <1>8, <1>9, <3>1
  <2>3. Follows(w)'
    BY <1>2, <1>5, <1>6, <1>7, <1>10, <2>1, <2>2 DEF Follows
  <2>4. ResultInv(w)'
    BY <1>1, <1>2, <1>5, <1>7, <1>10, <2>1, <2>3 DEF ResultInv
  <2> QED
    BY <1>2, <1>5, <2>1, <2>4 DEF ServeTypes
<1>12. CASE e.turn = t
  <2> DEFINE more == IF e.type = "token_received" THEN 1 ELSE 0
  <2>1. /\ result' = [result EXCEPT ![w].tokens = @ + more,
                                   ![w].success = e.type = "turn_completed"]
        /\ wpc' = [wpc EXCEPT ![w] =
               IF e.type \in {"error", "turn_completed"} THEN "report" ELSE "read"]
    BY <1>2, <1>6, <1>12 DEF Take, Go
  <2>2. result[w] \in [turn : Nat, success : BOOLEAN, tokens : Nat]
    BY DEF ServeTypes, Result
  <2> DEFINE done == e.type = "turn_completed"
  <2>a. result'[w] = [turn |-> t, success |-> done, tokens |-> result[w].tokens + more]
    <3>1. result'[w] = [result[w] EXCEPT !.tokens = result[w].tokens + more,
                                         !.success = done]
      BY <2>1 DEF ServeTypes
    <3> HIDE DEF more, done
    <3> QED
      BY <1>6, <2>2, <3>1
  <2>b. more \in Nat /\ done \in BOOLEAN
    OBVIOUS
  <2>3. /\ result'[w].turn = t /\ result'[w].tokens = result[w].tokens + more
        /\ result'[w].success <=> done
        /\ result'[w] \in [turn : Nat, success : BOOLEAN, tokens : Nat]
    <3> HIDE DEF more, done
    <3> QED
      BY <2>2, <2>a, <2>b
  <2>4. /\ result' \in [Workers -> Result]
        /\ \A v \in Workers \ {w} : result'[v] = result[v] /\ wpc'[v] = wpc[v]
        /\ wpc'[w] = IF e.type \in {"error", "turn_completed"} THEN "report" ELSE "read"
    BY <2>1, <2>3 DEF ServeTypes, Result, OffsetInv
  <2>5. e = Event(t, e.type)
    BY <1>3, <1>12 DEF Entry, Event
  <2>6. result'[w].tokens = Cardinality(At(log'[w], n + 1, t, "token_received"))
    <3>1. IsFiniteSet(At(log[w], n, t, "token_received"))
      <4>1. At(log[w], n, t, "token_received") \subseteq 1..n /\ IsFiniteSet(1..n)
        BY <1>1, FS_Interval DEF At
      <4> QED
        BY <4>1, FS_Subset
    <3>2. CASE e.type = "token_received"
      <4>1. At(log[w], n + 1, t, "token_received") = At(log[w], n, t, "token_received") \cup {n + 1}
        BY <1>8, <2>5, <3>2
      <4>2. n + 1 \notin At(log[w], n, t, "token_received")
        BY <1>1 DEF At
      <4>3. Cardinality(At(log[w], n + 1, t, "token_received"))
              = Cardinality(At(log[w], n, t, "token_received")) + 1
        BY <3>1, <4>1, <4>2, FS_AddElement
      <4> QED
        BY <1>7, <1>9, <2>3, <3>2, <4>3
    <3>3. CASE e.type # "token_received"
      <4>1. At(log[w], n + 1, t, "token_received") = At(log[w], n, t, "token_received")
        <5>1. e # Event(t, "token_received")
          BY <3>3 DEF Event
        <5> QED
          BY <1>8, <5>1
      <4>2. result[w].tokens \in Nat
        BY <2>2
      <4> QED
        BY <1>7, <1>9, <2>3, <3>3, <4>1, <4>2
    <3> QED
      BY <3>2, <3>3
  <2>7. ASSUME NEW type, type # e.type, At(log[w], n, t, type) = {}
        PROVE  At(log'[w], n + 1, t, type) = {}
    BY <1>8, <1>9, <2>5, <2>7 DEF Event
  <2>8. ASSUME wpc'[w] \in {"open", "read"} PROVE Follows(w)'
    <3>1. wpc'[w] = "read" /\ e.type \notin {"error", "turn_completed"}
      BY <2>4, <2>8
    <3>2. At(log'[w], n + 1, t, "error") = {} /\ At(log'[w], n + 1, t, "turn_completed") = {}
      BY <1>7, <2>7, <3>1
    <3> QED
      BY <1>5, <1>7, <1>10, <2>3, <2>6, <3>1, <3>2 DEF Follows
  <2>9. ASSUME result'[w].success PROVE Served(w)'
    <3>1. e.type = "turn_completed" /\ e = Event(t, "turn_completed")
      BY <2>3, <2>5, <2>9
    <3>2. room'[w] # "open"
      BY <1>1, <1>2, <1>7, <3>1 DEF RoomInv, e
    <3>3. \A j \in 1..Len(log[w]) : j > n + 1 /\ log[w][j].turn = t
                                    => log[w][j].type = "turn_cancelled"
      BY <1>1, <1>12, <3>1 DEF RoomInv, e
    <3>4. ASSUME NEW type \in {"turn_completed", "error", "token_received"}
          PROVE  At(log[w], Len(log[w]), t, type) = At(log[w], n + 1, t, type)
      <4>1. ASSUME NEW j \in 1..Len(log[w]), log[w][j] = Event(t, type)
            PROVE  j \in 1..(n + 1)
        <5>1. log[w][j].turn = t /\ log[w][j].type # "turn_cancelled"
          BY <4>1 DEF Event
        <5> QED
          BY <1>1, <3>3, <5>1
      <4> QED
        BY <1>1, <4>1 DEF At
    <3>5. At(log[w], n + 1, t, "turn_completed") = {n + 1}
      BY <1>7, <1>8, <3>1
    <3>6. At(log[w], n + 1, t, "error") = {}
      BY <1>7, <1>9, <2>7, <3>1
    <3>7. Cardinality(At(log[w], n + 1, t, "token_received")) = result'[w].tokens
      BY <1>9, <2>6
    <3>8. \A type : At(log'[w], Len(log'[w]), t, type) = At(log[w], Len(log[w]), t, type)
      BY <1>2 DEF At, Event
    <3>9. /\ At(log'[w], Len(log'[w]), t, "turn_completed") = {n + 1}
          /\ At(log'[w], Len(log'[w]), t, "error") = {}
          /\ Cardinality(At(log'[w], Len(log'[w]), t, "token_received")) = result'[w].tokens
      BY <3>4, <3>5, <3>6, <3>7, <3>8
    <3> QED
      BY <1>1, <1>2, <1>7, <1>10, <2>3, <3>2, <3>9 DEF Served
  <2>10. ResultInv(w)'
    BY <1>1, <1>2, <1>5, <1>10, <2>4, <2>8, <2>9 DEF ResultInv
  <2> QED
    BY <1>2, <1>5, <2>4, <2>10
<1> QED
  BY <1>11, <1>12

-----------------------------------------------------------------------------
(* What a step at one worker or room leaves of the others.                  *)
LEMMA ServeElsewhere ==
    ASSUME ServeInv, NEW w \in Workers, ServeTypes', \A v \in Workers : RoomInv(v)',
           ResultInv(w)', wpc[w] # "none" \/ UNCHANGED wpc, UNCHANGED mpc,
           \A v \in Workers \ {w} :
              /\ log'[v] = log[v] /\ room'[v] = room[v] /\ result'[v] = result[v]
              /\ roomOffsets'[v] = roomOffsets[v] /\ wpc'[v] = wpc[v]
    PROVE  ServeInv'
<1>1. ASSUME NEW v \in Workers \ {w} PROVE ResultInv(v)'
  BY <1>1, ResultFrame DEF ServeInv
<1> QED
  BY <1>1 DEF ServeInv

LEMMA ServerKeepsServe ==
    ASSUME ServeInv, NEW w \in Workers, Server(w)
    PROVE  ServeInv'
<1>1. Speaks(w) \/ Seals(w) \/ Releases(w)
  BY DEF Server, ServeEvent, ServeCompletion, ServeRelease, Speaks, Seals, Releases
<1>2. UNCHANGED <<wpc, roomOffsets, result, mpc>>
  BY ServerFrame DEF workerVars, mainVars
<1>3. ServeTypes /\ ResultInv(w) /\ \A v \in Workers : RoomInv(v)
  BY DEF ServeInv
<1>4. /\ log' \in [Workers -> Seq(Entry)]
      /\ room' \in [Workers -> {"none", "idle", "open", "sealed"}]
      /\ \A v \in Workers : RoomInv(v)'
      /\ \A v \in Workers \ {w} : log'[v] = log[v] /\ room'[v] = room[v]
  BY <1>1, <1>3, RoomKept
<1>5. ResultInv(w)'
  BY <1>1, <1>2, <1>3, ResultKept
<1> QED
  BY <1>2, <1>3, <1>4, <1>5, ServeElsewhere DEF ServeTypes

LEMMA CleanUpKeepsServe ==
    ASSUME ServeInv, NEW w \in Workers, CancelRoom(w)
    PROVE  ServeInv'
<1>1. UNCHANGED <<wpc, roomOffsets, result, mpc, room>>
  BY DEF CancelRoom, workerVars
<1>2. ServeTypes /\ ResultInv(w) /\ \A v \in Workers : RoomInv(v)
  BY DEF ServeInv
<1>3. CASE UNCHANGED log
  <2>1. \A v \in Workers : ResultInv(v)' /\ RoomInv(v)'
    BY <1>1, <1>2, <1>3, ResultFrame DEF ServeInv, RoomInv, Current
  <2> QED
    BY <1>1, <1>3, <2>1 DEF ServeInv, ServeTypes
<1>4. CASE Cancels(w)
  <2>1. /\ log' \in [Workers -> Seq(Entry)]
        /\ room' \in [Workers -> {"none", "idle", "open", "sealed"}]
        /\ \A v \in Workers : RoomInv(v)'
        /\ \A v \in Workers \ {w} : log'[v] = log[v] /\ room'[v] = room[v]
    BY <1>4, <1>2, RoomKept
  <2>2. ResultInv(w)'
    BY <1>1, <1>2, <1>4, ResultKept
  <2> QED
    BY <1>1, <1>2, <2>1, <2>2, ServeElsewhere DEF ServeTypes
<1> QED
  BY <1>1, <1>3, <1>4 DEF CancelRoom, Cancels

(* The submit, answered or not: either way a turn may have begun.           *)
LEMMA SubmitKeepsServe ==
    ASSUME ServeInv, OffsetInv, NEW w \in Workers, Submit(w) \/ SubmitFails(w)
    PROVE  ServeInv'
<1>1. /\ ServeTypes /\ ResultInv(w) /\ \A v \in Workers : RoomInv(v)
      /\ wpc[w] = "submit" /\ UNCHANGED <<mpc, roomOffsets>>
      /\ result[w] = NoResult
  BY DEF ServeInv, Submit, SubmitFails, mainVars, ResultInv
<1>2. \/ /\ Accept(w) /\ wpc' = [wpc EXCEPT ![w] = "open"]
         /\ result' = [result EXCEPT ![w].turn = Current(w) + 1]
      \/ /\ Accept(w) \/ UNCHANGED serverVars
         /\ wpc' = [wpc EXCEPT ![w] = "report"]
         /\ UNCHANGED result
  BY DEF Submit, SubmitFails, Go
<1>3. \A v \in Workers \ {w} : wpc'[v] = wpc[v] /\ result'[v] = result[v]
  BY <1>1, <1>2 DEF OffsetInv, ServeTypes
<1>4. CASE Accept(w)
  <2>1. /\ log' \in [Workers -> Seq(Entry)]
        /\ room' \in [Workers -> {"none", "idle", "open", "sealed"}]
        /\ \A v \in Workers : RoomInv(v)'
        /\ \A v \in Workers \ {w} : log'[v] = log[v] /\ room'[v] = room[v]
    BY <1>4, <1>1, RoomKept
  <2>2. /\ room[w] = "idle" /\ room'[w] = "open" /\ log[w] # <<>>
        /\ Emit(w, Event(Current(w) + 1, "turn_started"))
    BY <1>1, <1>4 DEF Accept, ServeTypes, RoomInv
  <2>3. Current(w) \in Nat
    <3>1. log[w] \in Seq(Entry)
      BY <1>1 DEF ServeTypes
    <3>2. Len(log[w]) \in 1..Len(log[w])
      BY <2>2, <3>1, EmptySeq
    <3>3. log[w][Len(log[w])] \in Entry
      BY <3>1, <3>2, ElementOfSeq
    <3> QED
      BY <3>3 DEF Current, Entry
  <2>4. PICK e \in Entry : e = Event(Current(w) + 1, "turn_started")
    <3>1. [turn |-> Current(w) + 1, type |-> "turn_started"] \in Entry
      BY <2>3 DEF Entry, EventTypes
    <3> QED
      BY <3>1 DEF Event
  <2>5. /\ Len(log[w]) \in Nat \ {0} /\ Len(log'[w]) = Len(log[w]) + 1
        /\ \A i \in 1..Len(log[w]) : log'[w][i] = log[w][i] /\ log[w][i] \in Entry
        /\ Current(w)' = e.turn
    BY <1>1, <2>2, <2>4, Emitted
  <2>6. Current(w)' = Current(w) + 1
    BY <2>4, <2>5 DEF Event
  <2>7. /\ result' \in [Workers -> Result]
        /\ ~result'[w].success /\ result'[w].tokens = 0
        /\ wpc'[w] = "open" => result'[w].turn = Current(w) + 1
        /\ wpc'[w] \in {"open", "report"}
    <3>1. PICK n \in Nat : n = Current(w) + 1
      BY <2>3
    <3>2. NoResult \in Result /\ [NoResult EXCEPT !.turn = n] \in Result
      BY DEF NoResult, Result
    <3>3. CASE wpc' = [wpc EXCEPT ![w] = "open"] /\ result' = [result EXCEPT ![w].turn = n]
      <4>1. result'[w] = [NoResult EXCEPT !.turn = n] /\ wpc'[w] = "open"
        BY <1>1, <3>3 DEF OffsetInv, ServeTypes
      <4> QED
        BY <1>1, <3>1, <3>2, <3>3, <4>1 DEF ServeTypes, NoResult
    <3>4. CASE wpc' = [wpc EXCEPT ![w] = "report"] /\ UNCHANGED result
      BY <1>1, <3>2, <3>4 DEF OffsetInv, ServeTypes, NoResult
    <3> QED
      BY <1>2, <3>1, <3>3, <3>4
  <2>8. \A i \in 1..(roomOffsets[w] + 1) :
            i \in 1..Len(log[w]) /\ log'[w][i].turn < Current(w) + 1
    <3>1. \A i \in 1..Len(log[w]) : log'[w][i].turn \in Nat /\ log'[w][i].turn <= Current(w)
      BY <1>1, <2>5 DEF RoomInv, Entry
    <3>2. roomOffsets[w] + 1 \in 0..Len(log[w])
      BY <1>1 DEF ResultInv
    <3> QED
      BY <2>3, <2>5, <3>1, <3>2
  <2>9. roomOffsets'[w] + 1 \in 0..Len(log'[w])
    BY <1>1, <2>5 DEF ResultInv
  <2>10. wpc'[w] = "open" => Follows(w)'
    BY <1>1, <2>6, <2>7, <2>8 DEF Follows
  <2>11. ResultInv(w)'
    BY <2>2, <2>7, <2>9, <2>10 DEF ResultInv
  <2> QED
    BY <1>1, <1>3, <2>1, <2>7, <2>11, ServeElsewhere DEF ServeTypes
<1>5. CASE UNCHANGED serverVars
  <2>1. UNCHANGED <<log, room, result>> /\ wpc'[w] = "report"
    BY <1>1, <1>2, <1>5 DEF serverVars, Accept, ServeTypes, OffsetInv
  <2>2. ResultInv(w)'
    BY <1>1, <2>1 DEF ResultInv, NoResult
  <2>3. \A v \in Workers : RoomInv(v)'
    BY <1>1, <2>1 DEF RoomInv, Current
  <2> QED
    BY <1>1, <1>3, <2>1, <2>2, <2>3, ServeElsewhere DEF ServeTypes
<1> QED
  BY <1>2, <1>4, <1>5

(* The other steps of a worker do not touch the server.                     *)
LEMMA WorkerKeepsServe ==
    ASSUME ServeInv, OffsetInv, NEW w \in Workers,
           \/ NextTurn(w) \/ Begin(w) \/ SubmitBusy(w) \/ OpenStream(w)
           \/ StreamFails(w) \/ SendResult(w) \/ Pause(w)
    PROVE  ServeInv'
<1>1. /\ UNCHANGED <<log, room, roomOffsets, mpc>> /\ wpc[w] # "none"
      /\ ServeTypes /\ ResultInv(w) /\ \A v \in Workers : RoomInv(v)'
  BY DEF NextTurn, Begin, SubmitBusy, OpenStream, StreamFails, SendResult, Pause,
         ServeInv, RoomInv, Current, serverVars, mainVars
<1>2. \/ /\ wpc[w] = "begin" /\ result' = [result EXCEPT ![w] = NoResult]
         /\ \E place \in {"report", "submit"} : wpc' = [wpc EXCEPT ![w] = place]
      \/ /\ UNCHANGED result
         /\ \/ \E place \in WorkerPlaces \ {"none", "submit", "open", "read"} :
                   wpc' = [wpc EXCEPT ![w] = place]
            \/ /\ wpc[w] = "submit" /\ wpc' = [wpc EXCEPT ![w] = "submit"]
            \/ /\ wpc[w] = "open" /\ wpc' = [wpc EXCEPT ![w] = "read"]
  <2>1. CASE NextTurn(w) \/ Begin(w)
    BY <2>1 DEF NextTurn, Begin, Go, WorkerPlaces
  <2>2. CASE SubmitBusy(w) \/ OpenStream(w)
    BY <2>2 DEF SubmitBusy, OpenStream, Go, WorkerPlaces
  <2>3. CASE StreamFails(w) \/ SendResult(w) \/ Pause(w)
    BY <2>3 DEF StreamFails, SendResult, Pause, Go, WorkerPlaces
  <2> QED
    BY <2>1, <2>2, <2>3
<1>3. /\ result' \in [Workers -> Result]
      /\ \A v \in Workers \ {w} : wpc'[v] = wpc[v] /\ result'[v] = result[v]
  <2>1. NoResult \in Result
    BY DEF NoResult, Result
  <2> QED
    BY <1>1, <1>2, <2>1 DEF OffsetInv, ServeTypes
<1>4. ResultInv(w)'
  <2>1. CASE result'[w] = NoResult /\ wpc'[w] \in {"report", "submit"}
    BY <1>1, <2>1 DEF ResultInv, NoResult
  <2>2. CASE result'[w] = result[w] /\ wpc'[w] \in WorkerPlaces \ {"none", "submit", "open", "read"}
    BY <1>1, <2>2 DEF ResultInv, Served, Current
  <2>3. CASE result'[w] = result[w] /\ wpc[w] = "submit" /\ wpc'[w] = "submit"
    BY <1>1, <2>3 DEF ResultInv, Served, Current
  <2>4. CASE result'[w] = result[w] /\ wpc[w] = "open" /\ wpc'[w] = "read"
    <3>1. PICK m \in 0..Len(log[w]) : m = roomOffsets[w] + 1
      BY <1>1 DEF ResultInv
    <3>2. /\ Follows(w) /\ ~result[w].success /\ result[w].turn \in Nat
          /\ log[w] \in Seq(Entry) /\ Len(log[w]) \in Nat
      BY <1>1, <2>4, LenProperties DEF ResultInv, Follows, ServeTypes, Result
    <3>3. \A i \in 1..m : log[w][i].turn < result[w].turn /\ log[w][i].turn \in Nat
      <4>1. \A i \in 1..m : i \in 1..Len(log[w])
        BY <3>2
      <4>2. \A i \in 1..m : log[w][i] \in Entry
        BY <3>2, <4>1, ElementOfSeq
      <4> QED
        BY <2>4, <3>1, <3>2, <4>2 DEF Follows, Entry
    <3>4. \A type : At(log[w], m, result[w].turn, type) = {}
      BY <3>2, <3>3 DEF At, Event
    <3>5. Cardinality({}) = 0
      BY FS_EmptySet
    <3>6. Follows(w)'
      BY <1>1, <2>4, <3>1, <3>2, <3>4, <3>5 DEF Follows, Current
    <3> QED
      BY <1>1, <2>4, <3>2, <3>6 DEF ResultInv
  <2> QED
    BY <1>1, <1>2, <2>1, <2>2, <2>3, <2>4 DEF OffsetInv, ServeTypes
<1> QED
  BY <1>1, <1>3, <1>4, ServeElsewhere DEF ServeTypes

(* Main makes the rooms.                                                    *)
LEMMA CreateKeepsServe ==
    ASSUME ServeInv, OffsetInv, CreateRooms
    PROVE  ServeInv'
<1>1. PICK rooms \in SUBSET Workers :
         /\ log' = [w \in Workers |-> IF w \in rooms
                       THEN <<Event(0, "room_created")>> ELSE <<>>]
         /\ room' = [w \in Workers |-> IF w \in rooms THEN "idle" ELSE "none"]
         /\ wpc' = [w \in Workers |-> IF w \in rooms THEN "loop" ELSE "none"]
  BY DEF CreateRooms
<1>2. /\ UNCHANGED <<result, roomOffsets>>
      /\ \A w \in Workers : result[w] = NoResult /\ roomOffsets[w] = -1
      /\ mpc' \notin NotBegun
  BY DEF CreateRooms, ServeInv, ResultInv, NotBegun
<1> DEFINE e == Event(0, "room_created")
<1>3. e \in Entry /\ e.turn = 0 /\ e.type = "room_created"
  BY DEF Event, Entry, EventTypes
<1> HIDE DEF e
<1>4. /\ <<e>> \in Seq(Entry) /\ Len(<<e>>) = 1 /\ <<e>>[1] = e /\ <<e>> # <<>>
      /\ <<>> \in Seq(Entry) /\ Len(<<>>) = 0
  BY <1>3
<1>5. ServeTypes'
  BY <1>1, <1>2, <1>4 DEF ServeTypes, ServeInv, e
<1>6. ASSUME NEW w \in Workers PROVE RoomInv(w)' /\ ResultInv(w)'
  <2>1. CASE w \in rooms
    <3>1. log'[w] = <<e>> /\ room'[w] = "idle" /\ wpc'[w] = "loop"
      BY <1>1, <2>1 DEF e
    <3>2. Current(w)' = 0 /\ \A i \in 1..Len(log'[w]) : log'[w][i] = e /\ i = 1
      BY <1>3, <1>4, <3>1 DEF Current
    <3>3. RoomInv(w)'
      BY <1>3, <1>4, <3>1, <3>2 DEF RoomInv
    <3> QED
      BY <1>2, <1>4, <3>1, <3>3 DEF ResultInv, NoResult
  <2>2. CASE w \notin rooms
    <3>1. log'[w] = <<>> /\ room'[w] = "none" /\ wpc'[w] = "none"
      BY <1>1, <2>2
    <3> QED
      BY <1>2, <1>4, <3>1 DEF RoomInv, ResultInv, NoResult
  <2> QED
    BY <2>1, <2>2
<1> QED
  BY <1>2, <1>5, <1>6 DEF ServeInv

LEMMA ServeInvNext ==
    ASSUME ServeInv, OffsetInv, [Next]_vars
    PROVE  ServeInv'
<1>1. ASSUME NEW w \in Workers, Server(w) PROVE ServeInv'
  BY <1>1, ServerKeepsServe
<1>2. ASSUME NEW w \in Workers, WorkerRuns(w) \/ WorkerFails(w) PROVE ServeInv'
  <2>1. CASE ReadEvent(w)
    <3>1. /\ ServeTypes /\ \A v \in Workers : RoomInv(v) /\ ResultInv(v)
          /\ wpc[w] # "none"
      BY <2>1 DEF ServeInv, ReadEvent
    <3>2. /\ result' \in [Workers -> Result]
          /\ \A v \in Workers \ {w} : /\ result'[v] = result[v] /\ wpc'[v] = wpc[v]
                                      /\ roomOffsets'[v] = roomOffsets[v]
          /\ UNCHANGED <<log, room, mpc>>
          /\ ResultInv(w)'
      BY <2>1, <3>1, ReadKept
    <3>3. ServeTypes' /\ \A v \in Workers : RoomInv(v)'
      BY <3>1, <3>2 DEF ServeTypes, RoomInv, Current
    <3> QED
      BY <3>1, <3>2, <3>3, ServeElsewhere
  <2>2. CASE Submit(w) \/ SubmitFails(w)
    BY <2>2, SubmitKeepsServe
  <2>3. CASE \/ NextTurn(w) \/ Begin(w) \/ SubmitBusy(w) \/ OpenStream(w)
             \/ StreamFails(w) \/ SendResult(w) \/ Pause(w)
    BY <2>3, WorkerKeepsServe
  <2> QED
    BY <1>2, <2>1, <2>2, <2>3 DEF WorkerRuns, WorkerFails
<1>3. ASSUME NEW w \in Workers, CancelRoom(w) PROVE ServeInv'
  BY <1>3, CleanUpKeepsServe
<1>4. CASE CreateRooms
  BY <1>4, CreateKeepsServe
<1>5. ASSUME UNCHANGED <<serverVars, workerVars>>,
             mpc' \in NotBegun => mpc \in NotBegun
      PROVE  ServeInv'
  <2>1. UNCHANGED <<log, room, result, roomOffsets, wpc>>
    BY <1>5 DEF serverVars, workerVars
  <2>2. \A w \in Workers : RoomInv(w)' /\ ResultInv(w)'
    BY <2>1, ResultFrame DEF ServeInv, RoomInv, Current
  <2> QED
    BY <1>5, <2>1, <2>2 DEF ServeInv, ServeTypes
<1>6. CASE CheckProfile
  BY <1>5, <1>6 DEF CheckProfile, MainGoes, NotBegun
<1>7. CASE Collector
  BY <1>5, <1>7 DEF Collector, CollectResult, CollectorReturns, mainVars
<1>8. CASE EndWarmup \/ Stop \/ Cancel
  BY <1>5, <1>8 DEF EndWarmup, Stop, Cancel, MainGoes, NotBegun
<1>9. CASE Join \/ CloseResults \/ Report \/ Finish
  BY <1>5, <1>9 DEF Join, CloseResults, Report, Finish, MainGoes, NotBegun
<1>10. CASE UNCHANGED vars
  BY <1>5, <1>10 DEF vars, mainVars
<1>11. CASE JoinTimeout \/ \E w \in Workers : Panic(w)
  BY <1>5, <1>11 DEF JoinTimeout, Panic, NotBegun
<1> QED
  BY <1>1, <1>2, <1>3, <1>4, <1>6, <1>7, <1>8, <1>9, <1>10, <1>11
     DEF Next, MainBegins, MainEnds

-----------------------------------------------------------------------------
LEMMA InCallFinite == IsFiniteSet(InCall) /\ Cardinality(InCall) \in Nat
<1>1. InCall \in SUBSET Workers
  BY DEF InCall
<1> QED
  BY <1>1, LoadTestAssumption, FS_Subset, FS_CardinalityType

(* A worker makes another call.                                             *)
LEMMA CallCounted ==
    ASSUME CountInv, OffsetInv, NEW w \in Workers, wpc[w] = "loop",
           wpc' = [wpc EXCEPT ![w] = "begin"], turns' = [turns EXCEPT ![w] = @ + 1],
           UNCHANGED <<results, stats, discarded, mpc, collecting, closed>>
    PROVE  CountInv'
<1>1. PICK n \in Nat \ {0} : n = turns[w] + 1
  BY DEF CountInv
<1>2. turns' \in [Workers -> Nat] /\ turns'[w] = n /\ \A v \in Workers \ {w} : turns'[v] = turns[v]
  BY <1>1 DEF CountInv
<1>3. Calls' = Calls \cup {<<w, n>>}
  <2>1. \A v \in Workers : {v} \X (1..turns'[v]) =
            IF v = w THEN ({w} \X (1..turns[w])) \cup {<<w, n>>}
                     ELSE {v} \X (1..turns[v])
    <3>1. 1..n = (1..turns[w]) \cup {n}
      BY <1>1 DEF CountInv
    <3> QED
      BY <1>2, <3>1
  <2> QED
    BY <2>1 DEF Calls
<1>4. <<w, n>> \notin Calls
  BY <1>1 DEF Calls, CountInv
<1>5. IsFiniteSet(Calls') /\ Begun' = Begun + 1 /\ Begun \in Nat
  BY <1>3, <1>4, FS_AddElement, FS_CardinalityType DEF Begun, CountInv
<1>6. InCall' = InCall \cup {w} /\ w \notin InCall
  BY DEF InCall, Calling, OffsetInv
<1>7. Cardinality(InCall') = Cardinality(InCall) + 1
  BY <1>6, InCallFinite, FS_AddElement
<1>8. Len(results) \in Nat
  BY LenProperties DEF CountInv
<1>9. stats'.total + discarded' + Len(results') + Cardinality(InCall') = Begun'
  <2>1. stats.total + discarded + Len(results) + Cardinality(InCall) = Begun
    BY DEF CountInv
  <2>2. /\ stats.total \in Nat /\ stats'.total = stats.total
        /\ discarded \in Nat /\ discarded' = discarded
        /\ Len(results') = Len(results)
    BY DEF CountInv
  <2> QED
    BY <1>5, <1>7, <1>8, <2>1, <2>2, InCallFinite
<1> QED
  BY <1>2, <1>5, <1>9 DEF CountInv

(* Nothing is counted where no call begins and none leaves its worker.      *)
LEMMA CountFrame ==
    ASSUME CountInv, UNCHANGED <<turns, results, stats, discarded, mpc, collecting, closed>>,
           \A w \in Workers : wpc'[w] \in Calling <=> wpc[w] \in Calling
    PROVE  CountInv'
<1>1. InCall' = InCall /\ Calls' = Calls
  BY DEF InCall, Calls
<1> QED
  BY <1>1 DEF CountInv, Begun

LEMMA CountInvNext ==
    ASSUME CountInv, MainInv, ServeInv, OffsetInv, [Next]_vars
    PROVE  CountInv'
<1>a. Len(results) \in Nat /\ IsFiniteSet(InCall) /\ Cardinality(InCall) \in Nat
  BY InCallFinite, LenProperties DEF CountInv
<1>1. ASSUME NEW w \in Workers, Server(w) PROVE CountInv'
  BY <1>1, CountFrame, ServerFrame
     DEF Server, ServeEvent, ServeCompletion, ServeRelease, workerVars, mainVars, statsVars
<1>2. ASSUME NEW w \in Workers, WorkerRuns(w) \/ WorkerFails(w) PROVE CountInv'
  <2>1. CASE NextTurn(w)
    <3>1. CASE Go(w, "stopped") /\ UNCHANGED turns
      BY <2>1, <3>1, CountFrame DEF NextTurn, Go, Calling, OffsetInv, mainVars, statsVars
    <3>2. CASE Go(w, "begin") /\ turns' = [turns EXCEPT ![w] = @ + 1]
      BY <2>1, <3>2, CallCounted DEF NextTurn, Go, mainVars, statsVars
    <3> QED
      BY <2>1, <3>1, <3>2 DEF NextTurn
  <2>2. CASE SendResult(w)
    <3>1. /\ results' = Append(results, result[w]) /\ ~closed
          /\ wpc[w] = "report" /\ wpc' = [wpc EXCEPT ![w] = "pause"]
          /\ UNCHANGED <<turns, stats, discarded, mpc, collecting, closed>>
      BY <2>2 DEF SendResult, Go, mainVars, statsVars
    <3>2. results' \in Seq(Result) /\ Len(results') = Len(results) + 1
      BY <3>1, AppendProperties DEF CountInv, ServeInv, ServeTypes
    <3>3. InCall' = InCall \ {w} /\ w \in InCall
      BY <3>1 DEF InCall, Calling, OffsetInv
    <3>4. Cardinality(InCall') = Cardinality(InCall) - 1
      BY <1>a, <3>3, FS_RemoveElement
    <3>5. Calls' = Calls /\ Begun' = Begun
      BY <3>1 DEF Calls, Begun
    <3>6. stats'.total + discarded' + Len(results') + Cardinality(InCall') = Begun'
      <4>1. stats.total + discarded + Len(results) + Cardinality(InCall) = Begun
        BY DEF CountInv
      <4>2. /\ stats.total \in Nat /\ stats'.total = stats.total
            /\ discarded \in Nat /\ discarded' = discarded
        BY <3>1 DEF CountInv
      <4> QED
        BY <1>a, <3>2, <3>4, <3>5, <4>1, <4>2
    <3> QED
      BY <3>1, <3>2, <3>5, <3>6 DEF CountInv
  <2>3. CASE Pause(w)
    BY <2>3, CountFrame DEF Pause, Go, Calling, OffsetInv, mainVars, statsVars
  <2>4. CASE Begin(w) \/ Submit(w) \/ SubmitFails(w)
    BY <2>4, CountFrame DEF Begin, Submit, SubmitFails, Go, Calling, OffsetInv, mainVars, statsVars
  <2>5. CASE SubmitBusy(w) \/ OpenStream(w) \/ StreamFails(w)
    BY <2>5, CountFrame
       DEF SubmitBusy, OpenStream, StreamFails, Go, Calling, OffsetInv, mainVars, statsVars
  <2>6. CASE ReadEvent(w)
    <3>1. wpc[w] = "read" /\ UNCHANGED <<turns, results, mainVars, statsVars>>
      BY <2>6 DEF ReadEvent
    <3>2. PICK e : Take(w, e)
      BY <2>6 DEF ReadEvent
    <3>3. UNCHANGED wpc \/ \E place \in {"report", "read"} : wpc' = [wpc EXCEPT ![w] = place]
      BY <3>2 DEF Take, Go
    <3>4. \A v \in Workers : wpc'[v] \in Calling <=> wpc[v] \in Calling
      BY <3>1, <3>3 DEF Calling, OffsetInv
    <3> QED
      BY <3>1, <3>4, CountFrame DEF mainVars, statsVars
  <2> QED
    BY <1>2, <2>1, <2>2, <2>3, <2>4, <2>5, <2>6 DEF WorkerRuns, WorkerFails
<1>3. ASSUME UNCHANGED workerVars PROVE InCall' = InCall /\ Calls' = Calls /\ Begun' = Begun
  BY <1>3 DEF workerVars, InCall, Calls, Begun
<1>4. CASE CollectResult
  <2>1. /\ results # <<>> /\ results' = Tail(results) /\ collecting
        /\ stats'.total = stats.total + 1
        /\ UNCHANGED <<turns, mpc, closed, collecting, discarded>>
        /\ UNCHANGED workerVars
    BY <1>4 DEF CollectResult, Add, workerVars, mainVars
  <2>2. results' \in Seq(Result) /\ Len(results') = Len(results) - 1
    BY <2>1, HeadTailProperties DEF CountInv
  <2>3. stats'.total + discarded' + Len(results') + Cardinality(InCall') = Begun'
    <3>1. stats.total + discarded + Len(results) + Cardinality(InCall) = Begun
      BY DEF CountInv
    <3> QED
      BY <1>a, <1>3, <2>1, <2>2, <3>1 DEF CountInv
  <2> QED
    BY <1>3, <2>1, <2>2, <2>3 DEF CountInv
<1>5. CASE CollectorReturns
  BY <1>3, <1>5 DEF CollectorReturns, CountInv, workerVars, mainVars
<1>6. CASE CreateRooms
  <2>1. PICK rooms : wpc' = [w \in Workers |-> IF w \in rooms THEN "loop" ELSE "none"]
    BY <1>6 DEF CreateRooms
  <2>2. \A w \in Workers : wpc[w] = "none" /\ wpc'[w] \in {"loop", "none"}
    BY <1>6, <2>1 DEF CreateRooms, ServeInv, NotBegun
  <2>3. InCall' = InCall /\ Calls' = Calls /\ Begun' = Begun
    BY <1>6, <2>2 DEF CreateRooms, InCall, Calling, Calls, Begun
  <2> QED
    BY <1>6, <2>3 DEF CreateRooms, CountInv, NotBegun, statsVars
<1>7. CASE EndWarmup
  BY <1>a, <1>3, <1>7 DEF EndWarmup, MainGoes, CountInv, NotBegun, ZeroStats, workerVars
<1>8. CASE CheckProfile \/ Stop \/ Cancel \/ Join
  BY <1>3, <1>8 DEF CheckProfile, Stop, Cancel, Join, MainGoes, CountInv, NotBegun,
     workerVars, statsVars
<1>9. CASE CloseResults \/ Report \/ Finish
  BY <1>3, <1>9 DEF CloseResults, Report, Finish, MainGoes, CountInv, NotBegun,
     workerVars, statsVars
<1>10. ASSUME NEW w \in Workers, CancelRoom(w) PROVE CountInv'
  BY <1>3, <1>10 DEF CancelRoom, CountInv, workerVars, statsVars
<1>11. CASE UNCHANGED vars
  BY <1>3, <1>11 DEF vars, CountInv, workerVars, mainVars, statsVars
<1>12. CASE JoinTimeout \/ \E w \in Workers : Panic(w)
  BY <1>3, <1>12 DEF JoinTimeout, Panic, CountInv, NotBegun, workerVars, statsVars
<1> QED
  BY <1>1, <1>2, <1>4, <1>5, <1>6, <1>7, <1>8, <1>9, <1>10, <1>11, <1>12
     DEF Next, Collector, MainBegins, MainEnds

-----------------------------------------------------------------------------
LEMMA LoadTestInit == Init => MainInv /\ OffsetInv /\ ServeInv /\ CountInv
<1> SUFFICES ASSUME Init PROVE MainInv /\ OffsetInv /\ ServeInv /\ CountInv
  OBVIOUS
<1> USE DEF Init
<1>1. MainInv /\ OffsetInv
  BY DEF MainInv, OffsetInv, Places, PastJoin, PastClose, WorkerPlaces
<1>2. \A S : <<>> \in Seq(S) /\ Len(<<>>) = 0
  BY EmptySeq
<1>3. ServeInv
  <2>1. ServeTypes
    BY <1>2 DEF ServeTypes, NoResult, Result
  <2>2. ASSUME NEW w \in Workers PROVE RoomInv(w) /\ ResultInv(w)
    BY <1>2 DEF RoomInv, ResultInv, NoResult
  <2> QED
    BY <2>1, <2>2 DEF ServeInv
<1>4. CountInv
  <2>1. Calls = {} /\ InCall = {}
    BY DEF Calls, InCall, Calling
  <2>2. IsFiniteSet({}) /\ Cardinality({}) = 0
    BY FS_EmptySet
  <2> QED
    BY <1>2, <2>1, <2>2 DEF CountInv, Begun, ZeroStats, NotBegun
<1> QED
  BY <1>1, <1>3, <1>4

LEMMA LoadTestInvariant ==
    Spec => [](MainInv /\ OffsetInv /\ ServeInv /\ CountInv)
<1>1. Init => MainInv /\ OffsetInv /\ ServeInv /\ CountInv
  BY LoadTestInit
<1>2. MainInv /\ OffsetInv /\ ServeInv /\ CountInv /\ [Next]_vars
        => MainInv' /\ OffsetInv' /\ ServeInv' /\ CountInv'
  BY MainInvNext, OffsetInvNext, ServeInvNext, CountInvNext
<1> QED
  BY <1>1, <1>2, PTL DEF Spec

(* However often its streams break, a worker reads each event of its room   *)
(* once and without a gap.                                                  *)
THEOREM OffsetsGapFree == Spec => []ReadsEachEventOnce
<1>1. OffsetInv => ReadsEachEventOnce
  BY DEF OffsetInv, ReadsEachEventOnce
<1> QED
  BY <1>1, LoadTestInvariant, PTL

(* However many workers share the channel and the totals, the report counts *)
(* every call once, but for those that the warm-up had finished and those   *)
(* of workers that did not stop in time.                                    *)
THEOREM EveryCallCounted == Spec => []AllTurnsCounted
<1>1. MainInv /\ CountInv => AllTurnsCounted
  <2> SUFFICES ASSUME MainInv, CountInv, mpc \in {"report", "done"}
               PROVE  /\ stats.total + discarded + Cardinality(InCall) = Begun
                      /\ forced \/ InCall = {}
    BY DEF AllTurnsCounted
  <2>1. forced \/ InCall = {}
    BY DEF MainInv, PastJoin, HasEnded, InCall, Calling
  <2>2. results = <<>> /\ Len(<<>>) = 0
    BY DEF CountInv
  <2>3. Cardinality(InCall) \in Nat
    BY InCallFinite
  <2> QED
    BY <2>1, <2>2, <2>3 DEF CountInv
<1> QED
  BY <1>1, LoadTestInvariant, PTL

(* Whatever earlier turns have left in the log and wherever a stream began, *)
(* a call that is reported as a success has been served in full.            *)
THEOREM SuccessesAreServed == Spec => []SuccessIsServed
<1>1. ServeInv => SuccessIsServed
  <2> SUFFICES ASSUME ServeInv, NEW w \in Workers, result[w].success
               PROVE  /\ Count(w, result[w].turn, "turn_completed") = 1
                      /\ Count(w, result[w].turn, "error") = 0
                      /\ Count(w, result[w].turn, "token_received") = result[w].tokens
    BY DEF SuccessIsServed
  <2>1. Served(w) /\ DOMAIN log[w] = 1..Len(log[w])
    BY LenProperties DEF ServeInv, ResultInv, ServeTypes
  <2>2. \A type : Count(w, result[w].turn, type)
                     = Cardinality(At(log[w], Len(log[w]), result[w].turn, type))
    BY <2>1 DEF Count, At
  <2>3. Cardinality({}) = 0 /\ \A i : Cardinality({i}) = 1
    BY FS_EmptySet, FS_Singleton
  <2> QED
    BY <2>1, <2>2, <2>3 DEF Served
<1> QED
  BY <1>1, LoadTestInvariant, PTL
=============================================================================
