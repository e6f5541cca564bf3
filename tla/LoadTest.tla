------------------------------ MODULE LoadTest ------------------------------
(***************************************************************************)
(* The baseline load test: main checks its profile, makes the rooms and    *)
(* ends the test; one worker per room submits turns and follows each of    *)
(* them on the room's event stream; a collector adds the results up.  The  *)
(* server is the environment: the log of each room as RoomLog promises it, *)
(* read from an offset.                                                    *)
(***************************************************************************)
EXTENDS Integers, Sequences, FiniteSets

CONSTANTS
    Workers,     \* roomWorker goroutines, each with a room of its own
    MaxTurns,    \* bound on the turns of all workers together
    MaxTokens,   \* bound on the tokens of a turn
    MaxRetries,  \* submits to a busy room; the code's constant is 5
    Capacity     \* of the results channel; the code makes it 10 per room

ASSUME LoadTestAssumption ==
    /\ IsFiniteSet(Workers)
    /\ MaxTurns \in Nat /\ MaxTokens \in Nat
    /\ MaxRetries \in Nat \ {0} /\ Capacity \in Nat \ {0}

VARIABLES
    log,        \* server: the events of each room
    room,       \* server: "none", "idle", "open", or "sealed" (turn_completed
                \* sent)
    wpc,        \* where each worker stands; "none": it has no room
    turns,      \* executeTurn calls each worker has made
    retries,    \* 409s of the current call
    pos,        \* offset of the next event on the open stream
    roomOffsets,\* offset of the last event read, -1 if none
    result,     \* the Result that executeTurn is building
    mpc,        \* where main stands
    results,    \* the results channel
    closed,     \* ... has been closed
    forced,     \* main has given up waiting for the workers
    cleaned,    \* rooms that the clean-up has asked to cancel
    stats,      \* Stats
    collecting, \* collectResults has not returned
    nRead,      \* ghost: events read from each room's streams so far
    discarded   \* ghost: results that the end of the warm-up threw away

serverVars == <<log, room>>
workerVars == <<wpc, turns, retries, pos, roomOffsets, result, nRead>>
mainVars == <<mpc, closed, forced, cleaned>>
statsVars == <<stats, collecting, discarded>>
vars == <<serverVars, workerVars, mainVars, statsVars, results>>

NoResult == [turn |-> 0, success |-> FALSE, tokens |-> 0]
ZeroStats == [total |-> 0, success |-> 0, failed |-> 0, tokens |-> 0]

(* stopCh is closed first, then the context of all requests is cancelled.   *)
Stopped == mpc \notin {"profile", "rooms", "warmup", "measure"}
Cancelled == Stopped /\ mpc # "cancel"

(* A panic ends the program, as does the return of main: no goroutine goes  *)
(* on after it.                                                             *)
Alive == mpc \notin {"refused", "done", "panicked"}

(* The executeTurn calls of all workers together.                           *)
Calls == UNION {{w} \X (1..turns[w]) : w \in Workers}
Begun == Cardinality(Calls)

Event(turn, type) == [turn |-> turn, type |-> type]

Init ==
    /\ log = [w \in Workers |-> <<>>]
    /\ room = [w \in Workers |-> "none"]
    /\ wpc = [w \in Workers |-> "none"]
    /\ turns = [w \in Workers |-> 0]
    /\ retries = [w \in Workers |-> 0]
    /\ pos = [w \in Workers |-> 0]
    /\ roomOffsets = [w \in Workers |-> -1]
    /\ result = [w \in Workers |-> NoResult]
    /\ mpc = "profile"
    /\ results = <<>>
    /\ closed = FALSE
    /\ forced = FALSE
    /\ cleaned = {}
    /\ stats = ZeroStats
    /\ collecting = TRUE
    /\ nRead = [w \in Workers |-> 0]
    /\ discarded = 0

-----------------------------------------------------------------------------
(* The server.                                                              *)
Current(w) == log[w][Len(log[w])].turn
Count(w, turn, type) ==
    Cardinality({i \in DOMAIN log[w] : log[w][i] = Event(turn, type)})

Emit(w, e) == log' = [log EXCEPT ![w] = Append(@, e)]

(* The turn goes on: tokens, and agents that fail without ending it.        *)
ServeEvent(w) ==
    /\ room[w] = "open"
    /\ \/ /\ Count(w, Current(w), "token_received") < MaxTokens
          /\ Emit(w, Event(Current(w), "token_received"))
       \/ /\ Count(w, Current(w), "error") = 0
          /\ Emit(w, Event(Current(w), "error"))
    /\ UNCHANGED <<room, workerVars, mainVars, statsVars, results>>

ServeCompletion(w) ==
    /\ room[w] = "open"
    /\ Emit(w, Event(Current(w), "turn_completed"))
    /\ room' = [room EXCEPT ![w] = "sealed"]
    /\ UNCHANGED <<workerVars, mainVars, statsVars, results>>

(* The room is given back; a turn that could not run ends with an error, a  *)
(* cancelled one with turn_cancelled, and neither with turn_completed.      *)
ServeRelease(w) ==
    /\ \/ room[w] = "sealed"
       \/ /\ room[w] = "open"
          /\ \E type \in {"error", "turn_cancelled"} :
                Count(w, Current(w), type) > 0
    /\ room' = [room EXCEPT ![w] = "idle"]
    /\ UNCHANGED <<log, workerVars, mainVars, statsVars, results>>

Server(w) == ServeEvent(w) \/ ServeCompletion(w) \/ ServeRelease(w)

-----------------------------------------------------------------------------
(* Workers: roomWorker and executeTurn.                                     *)
Go(w, place) == wpc' = [wpc EXCEPT ![w] = place]

(* The select at the head of the worker's loop.                             *)
NextTurn(w) ==
    /\ wpc[w] = "loop"
    /\ \/ Stopped /\ Go(w, "stopped") /\ UNCHANGED turns
       \/ /\ ~Stopped
          /\ Begun < MaxTurns
          /\ Go(w, "begin")
          /\ turns' = [turns EXCEPT ![w] = @ + 1]
    /\ UNCHANGED <<serverVars, retries, pos, roomOffsets, result, nRead,
                   mainVars, statsVars, results>>

(* executeTurn looks at stopCh again, and returns an empty result.          *)
Begin(w) ==
    /\ wpc[w] = "begin"
    /\ Go(w, IF Stopped THEN "report" ELSE "submit")
    /\ result' = [result EXCEPT ![w] = NoResult]
    /\ retries' = [retries EXCEPT ![w] = 0]
    /\ UNCHANGED <<serverVars, turns, pos, roomOffsets, nRead, mainVars,
                   statsVars, results>>

(* The server's part of POST /rooms/{id}/answer.                            *)
Accept(w) ==
    /\ room[w] = "idle"
    /\ room' = [room EXCEPT ![w] = "open"]
    /\ Emit(w, Event(Current(w) + 1, "turn_started"))

Submit(w) ==
    /\ wpc[w] = "submit" /\ ~Cancelled
    /\ Accept(w)
    /\ result' = [result EXCEPT ![w].turn = Current(w) + 1]
    /\ Go(w, "open")
    /\ UNCHANGED <<turns, retries, pos, roomOffsets, nRead, mainVars,
                   statsVars, results>>

(* The request fails; the server may have accepted it all the same.         *)
SubmitFails(w) ==
    /\ wpc[w] = "submit"
    /\ Accept(w) \/ UNCHANGED serverVars
    /\ Go(w, "report")
    /\ UNCHANGED <<turns, retries, pos, roomOffsets, result, nRead, mainVars,
                   statsVars, results>>

(* 409: sleep and try again, up to MaxRetries submits.                      *)
SubmitBusy(w) ==
    /\ wpc[w] = "submit" /\ ~Cancelled
    /\ room[w] # "idle"
    /\ retries' = [retries EXCEPT ![w] = @ + 1]
    /\ Go(w, IF retries[w] + 1 = MaxRetries THEN "report" ELSE "submit")
    /\ UNCHANGED <<serverVars, turns, pos, roomOffsets, result, nRead,
                   mainVars, statsVars, results>>

(* Mutant: the last event read is asked for again.                          *)
NextOffset_Last(w) == IF roomOffsets[w] = -1 THEN 0 ELSE roomOffsets[w]

NextOffset(w) == roomOffsets[w] + 1

OpenStream(w) ==
    /\ wpc[w] = "open" /\ ~Cancelled
    /\ pos' = [pos EXCEPT ![w] = NextOffset(w)]
    /\ Go(w, "read")
    /\ UNCHANGED <<serverVars, turns, retries, roomOffsets, result, nRead,
                   mainVars, statsVars, results>>

CommitOffset(w, offset) ==
    roomOffsets' = [roomOffsets EXCEPT ![w] =
                        IF offset > @ THEN offset ELSE @]

(* Mutant: events of other turns are not skipped.                           *)
Take_AnyTurn(w, e) ==
    /\ result' = [result EXCEPT
                    ![w].tokens = @ + (IF e.type = "token_received" THEN 1 ELSE 0),
                    ![w].success = e.type = "turn_completed"]
    /\ Go(w, IF e.type \in {"error", "turn_completed"} THEN "report" ELSE "read")

(* Mutant: an error does not end the turn for its reader.                   *)
Take_IgnoresError(w, e) ==
    IF e.turn # result[w].turn
    THEN UNCHANGED <<result, wpc>>
    ELSE /\ result' = [result EXCEPT
                ![w].tokens = @ + (IF e.type = "token_received" THEN 1 ELSE 0),
                ![w].success = e.type = "turn_completed"]
         /\ Go(w, IF e.type = "turn_completed" THEN "report" ELSE "read")

(* What an event means to the turn that is being followed.                  *)
Take(w, e) ==
    IF e.turn # result[w].turn
    THEN UNCHANGED <<result, wpc>>
    ELSE /\ result' = [result EXCEPT
                ![w].tokens = @ + (IF e.type = "token_received" THEN 1 ELSE 0),
                ![w].success = e.type = "turn_completed"]
         /\ Go(w, IF e.type \in {"error", "turn_completed"} THEN "report"
                                                            ELSE "read")

ReadEvent(w) ==
    /\ wpc[w] = "read"
    /\ pos[w] < Len(log[w])
    /\ CommitOffset(w, pos[w])
    /\ Take(w, log[w][pos[w] + 1])
    /\ pos' = [pos EXCEPT ![w] = @ + 1]
    /\ nRead' = [nRead EXCEPT ![w] = @ + 1]
    /\ UNCHANGED <<serverVars, turns, retries, mainVars, statsVars, results>>

(* Opening or reading fails, or the stream ends.                            *)
StreamFails(w) ==
    /\ wpc[w] \in {"open", "read"}
    /\ Go(w, "report")
    /\ UNCHANGED <<serverVars, turns, retries, pos, roomOffsets, result, nRead,
                   mainVars, statsVars, results>>

(* t.results <- result.                                                     *)
SendResult(w) ==
    /\ wpc[w] = "report" /\ ~closed
    /\ Len(results) < Capacity
    /\ results' = Append(results, result[w])
    /\ Go(w, "pause")
    /\ UNCHANGED <<serverVars, turns, retries, pos, roomOffsets, result, nRead,
                   mainVars, statsVars>>

(* The wait between turns, cut short by a stop.                             *)
Pause(w) ==
    /\ wpc[w] = "pause"
    /\ \/ Go(w, "loop")
       \/ Stopped /\ Go(w, "stopped")
    /\ UNCHANGED <<serverVars, turns, retries, pos, roomOffsets, result, nRead,
                   mainVars, statsVars, results>>

(* Steps that are taken without a failure of the network or of the server.  *)
WorkerRuns(w) ==
    /\ Alive
    /\ \/ NextTurn(w)
       \/ Begin(w)
       \/ Submit(w)
       \/ SubmitBusy(w)
       \/ OpenStream(w)
       \/ ReadEvent(w)
       \/ SendResult(w)
       \/ Pause(w)

WorkerFails(w) == Alive /\ (SubmitFails(w) \/ StreamFails(w))

(* A send on the closed channel, or one that waits for room in it when it   *)
(* is closed, panics.                                                       *)
Panic(w) ==
    /\ Alive
    /\ wpc[w] = "report" /\ closed
    /\ mpc' = "panicked"
    /\ UNCHANGED <<serverVars, workerVars, closed, forced, cleaned, statsVars,
                   results>>

(* The workers in a call: it has not been sent to the collector.            *)
Calling == {"begin", "submit", "open", "read", "report"}
InCall == {w \in Workers : wpc[w] \in Calling}

-----------------------------------------------------------------------------
(* The collector.                                                           *)
Add(r) ==
    stats' = [total   |-> stats.total + 1,
              success |-> stats.success + (IF r.success THEN 1 ELSE 0),
              failed  |-> stats.failed + (IF r.success THEN 0 ELSE 1),
              tokens  |-> stats.tokens + r.tokens]

CollectResult ==
    /\ collecting /\ results # <<>>
    /\ Add(Head(results))
    /\ results' = Tail(results)
    /\ UNCHANGED <<serverVars, workerVars, mainVars, collecting, discarded>>

CollectorReturns ==
    /\ collecting /\ closed /\ results = <<>>
    /\ collecting' = FALSE
    /\ UNCHANGED <<serverVars, workerVars, mainVars, stats, discarded, results>>

-----------------------------------------------------------------------------
(* main.                                                                    *)
MainGoes(place) ==
    /\ mpc' = place
    /\ UNCHANGED <<serverVars, workerVars, results, forced>>

(* The profile is read and validated, the mock LLM's configuration fetched  *)
(* and compared with the expected one; whatever fails ends the program.     *)
CheckProfile ==
    /\ mpc = "profile"
    /\ \E valid, fetched, matches \in BOOLEAN :
          MainGoes(IF valid /\ fetched /\ matches THEN "rooms" ELSE "refused")
    /\ UNCHANGED <<closed, cleaned, statsVars>>

(* A room that cannot be created is left out; each other one gets a worker. *)
(* The profile may have no warm-up.                                         *)
CreateRooms ==
    /\ mpc = "rooms"
    /\ \E rooms \in SUBSET Workers :
          /\ log' = [w \in Workers |-> IF w \in rooms
                        THEN <<Event(0, "room_created")>> ELSE <<>>]
          /\ room' = [w \in Workers |-> IF w \in rooms THEN "idle" ELSE "none"]
          /\ wpc' = [w \in Workers |-> IF w \in rooms THEN "loop" ELSE "none"]
    /\ mpc' \in {"warmup", "measure"}
    /\ UNCHANGED <<turns, retries, pos, roomOffsets, result, nRead, closed,
                   forced, cleaned, statsVars, results>>

EndWarmup ==
    /\ mpc = "warmup"
    /\ stats' = ZeroStats
    /\ discarded' = stats.total
    /\ MainGoes("measure") /\ UNCHANGED <<closed, cleaned, collecting>>

Stop ==
    /\ mpc = "measure"
    /\ MainGoes("cancel") /\ UNCHANGED <<closed, cleaned, statsVars>>

Cancel ==
    /\ mpc = "cancel"
    /\ MainGoes("join") /\ UNCHANGED <<closed, cleaned, statsVars>>

HasEnded(w) == wpc[w] \in {"none", "stopped"}

(* wg.Wait.                                                                 *)
Join ==
    /\ mpc = "join"
    /\ \A w \in Workers : HasEnded(w)
    /\ MainGoes("close") /\ UNCHANGED <<closed, cleaned, statsVars>>

(* The 30 seconds are over first: main goes on, and closes the channel,     *)
(* whatever the workers do.                                                 *)
JoinTimeout ==
    /\ mpc = "join"
    /\ mpc' = "close" /\ forced' = TRUE
    /\ UNCHANGED <<serverVars, workerVars, closed, cleaned, statsVars, results>>

(* Mutant: the channel stays open.                                          *)
CloseResults_Forgotten ==
    /\ mpc = "close"
    /\ MainGoes("drain") /\ UNCHANGED <<closed, cleaned, statsVars>>

CloseResults ==
    /\ mpc = "close"
    /\ closed' = TRUE
    /\ MainGoes("drain") /\ UNCHANGED <<cleaned, statsVars>>

(* Mutant: nobody waits for the collector.                                  *)
Report_NoWait ==
    /\ mpc = "drain"
    /\ MainGoes("report") /\ UNCHANGED <<closed, cleaned, statsVars>>

Report ==
    /\ mpc = "drain" /\ ~collecting
    /\ MainGoes("report") /\ UNCHANGED <<closed, cleaned, statsVars>>

(* The rooms that were created.                                             *)
Rooms == {w \in Workers : room[w] # "none"}

(* cleanup: one POST per room to cancel its turn, all at once; the answers  *)
(* are not looked at.                                                       *)
CancelRoom(w) ==
    /\ mpc = "report" /\ w \in Rooms \ cleaned
    /\ cleaned' = cleaned \cup {w}
    /\ \/ UNCHANGED log
       \/ room[w] \in {"open", "sealed"}
          /\ Emit(w, Event(Current(w), "turn_cancelled"))
    /\ UNCHANGED <<room, workerVars, mpc, closed, forced, statsVars, results>>

Finish ==
    /\ mpc = "report" /\ cleaned = Rooms
    /\ MainGoes("done") /\ UNCHANGED <<closed, cleaned, statsVars>>

-----------------------------------------------------------------------------
MainBegins == CheckProfile \/ CreateRooms
MainEnds ==
    \/ Cancel \/ Join \/ CloseResults \/ Report
    \/ \E w \in Workers : CancelRoom(w)
    \/ Finish
Collector == Alive /\ (CollectResult \/ CollectorReturns)

Next ==
    \/ \E w \in Workers :
          Server(w) \/ WorkerRuns(w) \/ WorkerFails(w) \/ Panic(w)
    \/ Collector
    \/ MainBegins \/ EndWarmup \/ Stop \/ MainEnds \/ JoinTimeout

Spec == Init /\ [][Next]_vars

(* The server's turns go on, goroutines run, and cancelled requests fail.   *)
(* No other request or stream has to fail, the test need not stop, and the  *)
(* 30 seconds need not run out: the workers end without them.               *)
FairSpec ==
    /\ Spec
    /\ \A w \in Workers :
          /\ WF_vars(Server(w)) /\ WF_vars(WorkerRuns(w))
          /\ WF_vars(Cancelled /\ WorkerFails(w))
    /\ WF_vars(Collector) /\ WF_vars(MainEnds)

-----------------------------------------------------------------------------
(* A result that is counted as a success is one: the log holds the turn's   *)
(* turn_completed, no error before it, and as many tokens as were counted,  *)
(* also when the stream began with what an earlier turn had left unread.    *)
SuccessIsServed ==
    \A w \in Workers : result[w].success =>
        /\ Count(w, result[w].turn, "turn_completed") = 1
        /\ Count(w, result[w].turn, "error") = 0
        /\ Count(w, result[w].turn, "token_received") = result[w].tokens

(* Over all the streams that it opens a worker reads each event of its room *)
(* once, without a gap: it resumes where it left off, after a turn that was *)
(* given up, failed or lost its answer.                                     *)
ReadsEachEventOnce ==
    \A w \in Workers : nRead[w] = roomOffsets[w] + 1

(* The report counts every turn that was begun, but for those of the        *)
(* warm-up and those of the workers that main gave up on: none is still in  *)
(* the channel or in the collector, and a test whose workers all stopped in *)
(* time reports none as lost.                                               *)
AllTurnsCounted ==
    mpc \in {"report", "done"} =>
        /\ stats.total + discarded + Cardinality(InCall) = Begun
        /\ forced \/ InCall = {}

(* Every turn that is followed comes to its end while the program runs,     *)
(* without any help of the test's end.                                      *)
EveryTurnEnds ==
    \A w \in Workers : wpc[w] = "read" ~> wpc[w] # "read" \/ ~Alive

(* Once the test is stopped it reports and ends: nobody waits for a worker, *)
(* a full channel, the collector or the clean-up for ever.  Only if main    *)
(* gave up on the workers can a late result, sent on the closed channel,    *)
(* bring the program down before its report.                                *)
TestEnds == mpc = "cancel" ~> mpc = "done" \/ (forced /\ mpc = "panicked")
=============================================================================
