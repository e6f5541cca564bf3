---------------------------- MODULE TurnRuntime ----------------------------
(***************************************************************************)
(* The turn engine of the gateway: RoomService (room_service.go),          *)
(* TurnRuntime (turn_runtime.go), the in-memory RoomRepo (room_repo.go)    *)
(* and the event log of each room, of which this module keeps only the     *)
(* append order (EventSink.events).                                        *)
(*                                                                         *)
(* Processes: the HTTP request that submits turn t and the goroutine that  *)
(* then executes it share pc[t]; a cancel request q has reqPc[q].  A step  *)
(* is one critical section (RoomRepo.mu, TurnRuntime.mu, EventSink.mu), or *)
(* one operation on a context or a channel, with the local computation     *)
(* around it; completeTurn's write of turn.State, which readers of the     *)
(* room see, is one more: every place where two goroutines can meet is a   *)
(* step of its own.  The LLM provider is the environment behind            *)
(* port.LLMProvider: it answers a bounded number of tokens, a Done, an     *)
(* error, or nothing.                                                      *)
(***************************************************************************)
EXTENDS Integers, Sequences, FiniteSets

CONSTANTS
    Rooms,      \* room ids (uuid, never reused)
    Turns,      \* turn ids (uuid, never reused)
    Requests,   \* cancel requests, each made at most once
    NumAgents,  \* agents of a room's scenery, run one after the other
    MaxTokens,  \* bound on the tokens a provider sends for one agent
    Deletable,  \* rooms that RoomRepo.Delete may remove; no handler calls it
    None        \* nil: no current turn, no cancel func

ASSUME TurnRuntimeAssumption ==
    /\ NumAgents \in Nat
    /\ MaxTokens \in Nat
    /\ Deletable \subseteq Rooms
    /\ None \notin Rooms \cup Turns

VARIABLES
    roomState,    \* Room.State; "none": not saved yet, "deleted": removed
    currentTurn,  \* Room.CurrentTurn
    announced,    \* rooms whose room_created event has been appended
    turnRoom,     \* Turn.RoomID
    round,        \* Turn.Round
    turnState,    \* Turn.State; "none": no such turn yet
    responses,    \* Turn.Responses: per finished agent, its tokens
    cancels,      \* TurnRuntime.cancels: the turn whose context is cancelled
    ctxDone,      \* turns whose context is done
    pc,           \* where turn t's request, then its goroutine, stands
    tokens,       \* streamAgent's tokenCount (and content) for the agent
    log,          \* EventSink.events, without ids, times and payload text
    reqPc,        \* where cancel request q stands
    reqRoom,      \* the room it names
    reqTurn,      \* turnID, as CancelTurn read it
    reqCancel     \* the cancel func that Cancel looked up

roomVars == <<roomState, currentTurn, announced>>
turnVars == <<turnRoom, round, turnState, responses>>
ctxVars  == <<cancels, ctxDone>>
reqVars  == <<reqPc, reqRoom, reqTurn, reqCancel>>
vars == <<roomVars, turnVars, ctxVars, pc, tokens, log, reqVars>>

(* Also no room and a deleted one; RoomStateEndgame is set by nothing.      *)
RoomStates == {"none", "idle", "streaming", "cancelled", "deleted"}
TurnStates == {"none", "pending", "streaming", "done", "cancelled"}

(* Events that turn t's own request or goroutine appends; turn_cancelled is *)
(* appended by whoever cancels.                                             *)
TurnEvents == {"turn_started", "token_received", "error", "turn_completed"}
EventTypes == TurnEvents \cup {"room_created", "turn_cancelled"}

Before  == {"announce", "register"}            \* admitted, not cancellable yet
Running == {"load", "notfound", "agents", "stream", "token", "error",
            "complete", "completed", "unregister"}  \* handle registered
InFlight == Before \cup Running \cup {"release"}
PCs == {"unused", "finished"} \cup InFlight

Goto(t, l) == pc' = [pc EXCEPT ![t] = l]

(***************************************************************************)
(* The event log.  late is a ghost: was the turn's context already done    *)
(* when the event was appended?  Nothing reads it but a property.          *)
(***************************************************************************)
NewEvent(type, t, a) ==
    [type |-> type, turn |-> t, agent |-> a, late |-> t \in ctxDone]
Emit(r, e) == log' = [log EXCEPT ![r] = Append(@, e)]

Init ==
    /\ roomState = [r \in Rooms |-> "none"]
    /\ currentTurn = [r \in Rooms |-> None]
    /\ announced = {}
    /\ turnRoom = [t \in Turns |-> None]
    /\ round = [t \in Turns |-> 0]
    /\ turnState = [t \in Turns |-> "none"]
    /\ responses = [t \in Turns |-> <<>>]
    /\ cancels = [r \in Rooms |-> None]
    /\ ctxDone = {}
    /\ pc = [t \in Turns |-> "unused"]
    /\ tokens = [t \in Turns |-> 0]
    /\ log = [r \in Rooms |-> <<>>]
    /\ reqPc = [q \in Requests |-> "unused"]
    /\ reqRoom = [q \in Requests |-> None]
    /\ reqTurn = [q \in Requests |-> None]
    /\ reqCancel = [q \in Requests |-> None]

(***************************************************************************)
(* CreateRoom: Save, then append room_created.  Between the two the room   *)
(* is already listed, so another client may submit to it.                  *)
(***************************************************************************)
SaveRoom(r) ==
    /\ roomState[r] = "none"
    /\ roomState' = [roomState EXCEPT ![r] = "idle"]
    /\ UNCHANGED <<currentTurn, announced, turnVars, ctxVars, pc, tokens, log,
                   reqVars>>

AnnounceRoom(r) ==
    /\ roomState[r] # "none" /\ r \notin announced
    /\ announced' = announced \cup {r}
    /\ Emit(r, NewEvent("room_created", None, 0))
    /\ UNCHANGED <<roomState, currentTurn, turnVars, ctxVars, pc, tokens,
                   reqVars>>

(* RoomRepo.Delete: part of the repository's port, without a caller.        *)
DeleteRoom(r) ==
    /\ r \in Deletable
    /\ roomState[r] \notin {"none", "deleted"}
    /\ roomState' = [roomState EXCEPT ![r] = "deleted"]
    /\ UNCHANGED <<currentTurn, announced, turnVars, ctxVars, pc, tokens, log,
                   reqVars>>

(***************************************************************************)
(* SubmitAnswer: admit the turn inside RoomRepo.Update, append             *)
(* turn_started, start the goroutine.                                      *)
(***************************************************************************)
(* Mutant: the state check is lost, only the existence of the room is left. *)
CanStartTurn_NoCheck(r) == roomState[r] \notin {"none", "deleted"}

CanStartTurn(r) == roomState[r] \in {"idle", "cancelled"}
IsStreaming(r)  == roomState[r] = "streaming"

(* Mutant: every turn is round 1.                                           *)
NextRound_Constant(r) == 1

NextRound(r) == IF currentTurn[r] = None THEN 1 ELSE round[currentTurn[r]] + 1

SubmitAnswer(t, r) ==
    /\ pc[t] = "unused"
    /\ CanStartTurn(r)
    /\ turnRoom' = [turnRoom EXCEPT ![t] = r]
    /\ round' = [round EXCEPT ![t] = NextRound(r)]
    /\ turnState' = [turnState EXCEPT ![t] = "pending"]
    /\ currentTurn' = [currentTurn EXCEPT ![r] = t]
    /\ roomState' = [roomState EXCEPT ![r] = "streaming"]
    /\ Goto(t, "announce")
    /\ UNCHANGED <<announced, responses, ctxVars, tokens, log, reqVars>>

AnnounceTurn(t) ==
    /\ pc[t] = "announce"
    /\ Emit(turnRoom[t], NewEvent("turn_started", t, 0))
    /\ Goto(t, "register")
    /\ UNCHANGED <<roomVars, turnVars, ctxVars, tokens, reqVars>>

(***************************************************************************)
(* ExecuteTurn, up to its agent loop.                                      *)
(***************************************************************************)
Register(t) ==
    /\ pc[t] = "register"
    /\ cancels' = [cancels EXCEPT ![turnRoom[t]] = t]
    /\ turnState' = [turnState EXCEPT ![t] = "streaming"]
    /\ Goto(t, "load")
    /\ UNCHANGED <<roomVars, turnRoom, round, responses, ctxDone, tokens, log,
                   reqVars>>

(* The scenery of a room that exists is always found: sceneries are loaded  *)
(* at start-up, CreateRoom looks them up, and none is ever removed.         *)
LoadRoom(t) ==
    /\ pc[t] = "load"
    /\ Goto(t, IF roomState[turnRoom[t]] = "deleted" THEN "notfound"
                                                     ELSE "agents")
    /\ UNCHANGED <<roomVars, turnVars, ctxVars, tokens, log, reqVars>>

EmitRoomNotFound(t) ==
    /\ pc[t] = "notfound"
    /\ Emit(turnRoom[t], NewEvent("error", t, 0))
    /\ Goto(t, "unregister")
    /\ UNCHANGED <<roomVars, turnVars, ctxVars, tokens, reqVars>>

(***************************************************************************)
(* The agent loop: the context is looked at before each agent and once     *)
(* after the last one.  The agents already run are those in Responses.     *)
(***************************************************************************)
MoreAgents(t) == Len(responses[t]) < NumAgents
Agent(t) == Len(responses[t]) + 1

StopAgents(t) ==
    /\ pc[t] = "agents"
    /\ t \in ctxDone
    /\ Goto(t, "unregister")
    /\ UNCHANGED <<roomVars, turnVars, ctxVars, tokens, log, reqVars>>

StartAgent(t) ==
    /\ pc[t] = "agents"
    /\ t \notin ctxDone
    /\ MoreAgents(t)
    /\ Goto(t, "stream")
    /\ UNCHANGED <<roomVars, turnVars, ctxVars, tokens, log, reqVars>>

(* Mutant: an agent that failed ends the loop.                              *)
FinishAgents_BreakOnError(t) ==
    /\ pc[t] = "agents"
    /\ t \notin ctxDone
    /\ \/ ~MoreAgents(t)
       \/ \E i \in DOMAIN log[turnRoom[t]] :
             log[turnRoom[t]][i].type = "error" /\ log[turnRoom[t]][i].turn = t
    /\ Goto(t, "complete")
    /\ UNCHANGED <<roomVars, turnVars, ctxVars, tokens, log, reqVars>>

(* Mutant: the select after the loop is missing.                            *)
FinishAgents_NoSelect(t) ==
    /\ pc[t] = "agents"
    /\ ~MoreAgents(t)
    /\ Goto(t, "complete")
    /\ UNCHANGED <<roomVars, turnVars, ctxVars, tokens, log, reqVars>>

FinishAgents(t) ==
    /\ pc[t] = "agents"
    /\ t \notin ctxDone
    /\ ~MoreAgents(t)
    /\ Goto(t, "complete")
    /\ UNCHANGED <<roomVars, turnVars, ctxVars, tokens, log, reqVars>>

(***************************************************************************)
(* streamAgent: what the range over the provider's channel does with the   *)
(* next answer.  The check of ctx.Err() comes with the receive; the append *)
(* that follows is a step of its own.                                      *)
(***************************************************************************)
(* Mutant: content and tokenCount outlive the call.                         *)
ReturnFromStream_KeepsContent(t) ==
    /\ responses' = [responses EXCEPT ![t] = Append(@, tokens[t])]
    /\ UNCHANGED tokens
    /\ Goto(t, "agents")

ReturnFromStream(t) ==
    /\ responses' = [responses EXCEPT ![t] = Append(@, tokens[t])]
    /\ tokens' = [tokens EXCEPT ![t] = 0]
    /\ Goto(t, "agents")

(* Mutant: a cancelled stream is drained up to its Done.                    *)
StreamCancelled_Drain(t) ==
    /\ pc[t] = "stream"
    /\ t \in ctxDone
    /\ UNCHANGED vars

(* Whatever arrives, an answer or the close of the channel, ends the stream *)
(* of a turn whose context is done.                                         *)
StreamCancelled(t) ==
    /\ pc[t] = "stream"
    /\ t \in ctxDone
    /\ ReturnFromStream(t)
    /\ UNCHANGED <<roomVars, turnRoom, round, turnState, ctxVars, log, reqVars>>

ReceiveToken(t) ==
    /\ pc[t] = "stream"
    /\ t \notin ctxDone
    /\ tokens[t] < MaxTokens
    /\ tokens' = [tokens EXCEPT ![t] = @ + 1]
    /\ Goto(t, "token")
    /\ UNCHANGED <<roomVars, turnVars, ctxVars, log, reqVars>>

EmitToken(t) ==
    /\ pc[t] = "token"
    /\ Emit(turnRoom[t], NewEvent("token_received", t, Agent(t)))
    /\ Goto(t, "stream")
    /\ UNCHANGED <<roomVars, turnVars, ctxVars, tokens, reqVars>>

ReceiveDone(t) ==
    /\ pc[t] = "stream"
    /\ t \notin ctxDone
    /\ ReturnFromStream(t)
    /\ UNCHANGED <<roomVars, turnRoom, round, turnState, ctxVars, log, reqVars>>

ReceiveError(t) ==
    /\ pc[t] = "stream"
    /\ t \notin ctxDone
    /\ Goto(t, "error")
    /\ UNCHANGED <<roomVars, turnVars, ctxVars, tokens, log, reqVars>>

EmitStreamError(t) ==
    /\ pc[t] = "error"
    /\ Emit(turnRoom[t], NewEvent("error", t, Agent(t)))
    /\ ReturnFromStream(t)
    /\ UNCHANGED <<roomVars, turnRoom, round, turnState, ctxVars, reqVars>>

(***************************************************************************)
(* completeTurn: mark the turn done, then append turn_completed.  After it *)
(* the deferred clean-up: drop the handle and cancel the context; then     *)
(* give the room back through RoomRepo.Update.                             *)
(***************************************************************************)
(* Mutant: completeTurn leaves turn.State alone.                            *)
CompleteTurn_NoState(t) ==
    /\ pc[t] = "complete"
    /\ Goto(t, "completed")
    /\ UNCHANGED <<roomVars, turnVars, ctxVars, tokens, log, reqVars>>

(* The room holds the turn by pointer: from here on a reader of the room    *)
(* sees it done, whether or not its turn_completed is in the log yet.       *)
CompleteTurn(t) ==
    /\ pc[t] = "complete"
    /\ turnState' = [turnState EXCEPT ![t] = "done"]
    /\ Goto(t, "completed")
    /\ UNCHANGED <<roomVars, turnRoom, round, responses, ctxVars, tokens, log,
                   reqVars>>

EmitCompleted(t) ==
    /\ pc[t] = "completed"
    /\ Emit(turnRoom[t], NewEvent("turn_completed", t, 0))
    /\ Goto(t, "unregister")
    /\ UNCHANGED <<roomVars, turnVars, ctxVars, tokens, reqVars>>

(* Mutant: the handle stays in the map.                                     *)
Unregister_KeepHandle(t) ==
    /\ pc[t] = "unregister"
    /\ ctxDone' = ctxDone \cup {t}
    /\ turnState' = [turnState EXCEPT ![t] =
                        IF @ = "streaming" THEN "cancelled" ELSE @]
    /\ Goto(t, "release")
    /\ UNCHANGED <<roomVars, turnRoom, round, responses, cancels, tokens, log,
                   reqVars>>

(* Mutant: the state is derived from the context alone.                     *)
Unregister_ContextOnly(t) ==
    /\ pc[t] = "unregister"
    /\ cancels' = [cancels EXCEPT ![turnRoom[t]] = None]
    /\ ctxDone' = ctxDone \cup {t}
    /\ turnState' = [turnState EXCEPT ![t] =
                        IF t \in ctxDone THEN "cancelled" ELSE "done"]
    /\ Goto(t, "release")
    /\ UNCHANGED <<roomVars, turnRoom, round, responses, tokens, log, reqVars>>

(* cancel() runs before ctx.Err() is read, so the test of the context there *)
(* is always true.                                                          *)
Unregister(t) ==
    /\ pc[t] = "unregister"
    /\ cancels' = [cancels EXCEPT ![turnRoom[t]] = None]
    /\ ctxDone' = ctxDone \cup {t}
    /\ turnState' = [turnState EXCEPT ![t] =
                        IF @ = "streaming" THEN "cancelled" ELSE @]
    /\ Goto(t, "release")
    /\ UNCHANGED <<roomVars, turnRoom, round, responses, tokens, log, reqVars>>

(* Mutant: the room takes the state of the turn.                            *)
ReleaseRoom_TurnState(t) ==
    /\ pc[t] = "release"
    /\ roomState' = [roomState EXCEPT ![turnRoom[t]] = turnState[t]]
    /\ Goto(t, "finished")
    /\ UNCHANGED <<currentTurn, announced, turnVars, ctxVars, tokens, log,
                   reqVars>>

(* Mutant: only a completed turn gives its room back.                       *)
ReleaseRoom_DoneOnly(t) ==
    LET r == turnRoom[t] IN
    /\ pc[t] = "release"
    /\ roomState' = IF turnState[t] # "done" THEN roomState
                    ELSE [roomState EXCEPT ![r] = "idle"]
    /\ Goto(t, "finished")
    /\ UNCHANGED <<currentTurn, announced, turnVars, ctxVars, tokens, log,
                   reqVars>>

ReleaseRoom(t) ==
    LET r == turnRoom[t]
        found == roomState[r] # "deleted" IN
    /\ pc[t] = "release"
    /\ turnState' = IF found /\ currentTurn[r] # None
                    THEN [turnState EXCEPT ![currentTurn[r]] = turnState[t]]
                    ELSE turnState
    /\ roomState' = IF found THEN [roomState EXCEPT ![r] = "idle"]
                             ELSE roomState
    /\ Goto(t, "finished")
    /\ UNCHANGED <<currentTurn, announced, turnRoom, round, responses, ctxVars,
                   tokens, log, reqVars>>

(***************************************************************************)
(* CancelTurn: read the room, look the cancel func up, call it, append     *)
(* turn_cancelled.  A request for a room that is missing or not streaming  *)
(* is turned away without an effect.                                       *)
(***************************************************************************)
GoRequest(q, l) == reqPc' = [reqPc EXCEPT ![q] = l]

CancelTurn(q, r) ==
    /\ reqPc[q] = "unused"
    /\ IsStreaming(r)
    /\ reqRoom' = [reqRoom EXCEPT ![q] = r]
    /\ reqTurn' = [reqTurn EXCEPT ![q] = currentTurn[r]]
    /\ GoRequest(q, "lookup")
    /\ UNCHANGED <<roomVars, turnVars, ctxVars, pc, tokens, log, reqCancel>>

LookupCancel(q) ==
    /\ reqPc[q] = "lookup"
    /\ reqCancel' = [reqCancel EXCEPT ![q] = cancels[reqRoom[q]]]
    /\ GoRequest(q, "call")
    /\ UNCHANGED <<roomVars, turnVars, ctxVars, pc, tokens, log, reqRoom,
                   reqTurn>>

CallCancel(q) ==
    /\ reqPc[q] = "call"
    /\ ctxDone' = ctxDone \cup ({reqCancel[q]} \ {None})
    /\ GoRequest(q, "emit")
    /\ UNCHANGED <<roomVars, turnVars, cancels, pc, tokens, log, reqRoom,
                   reqTurn, reqCancel>>

EmitCancelled(q) ==
    /\ reqPc[q] = "emit"
    /\ Emit(reqRoom[q], NewEvent("turn_cancelled", reqTurn[q], 0))
    /\ GoRequest(q, "done")
    /\ UNCHANGED <<roomVars, turnVars, ctxVars, pc, tokens, reqRoom, reqTurn,
                   reqCancel>>

Provider(t) ==
    \/ StreamCancelled(t) \/ ReceiveToken(t) \/ ReceiveDone(t)
    \/ ReceiveError(t)

Goroutine(t) ==
    \/ Register(t) \/ LoadRoom(t) \/ EmitRoomNotFound(t)
    \/ StopAgents(t) \/ StartAgent(t) \/ FinishAgents(t)
    \/ EmitToken(t) \/ EmitStreamError(t)
    \/ CompleteTurn(t) \/ EmitCompleted(t)
    \/ Unregister(t) \/ ReleaseRoom(t)

Cancel(q) == LookupCancel(q) \/ CallCancel(q) \/ EmitCancelled(q)

Next ==
    \/ \E r \in Rooms : SaveRoom(r) \/ AnnounceRoom(r) \/ DeleteRoom(r)
    \/ \E t \in Turns, r \in Rooms : SubmitAnswer(t, r)
    \/ \E t \in Turns : AnnounceTurn(t) \/ Goroutine(t) \/ Provider(t)
    \/ \E q \in Requests, r \in Rooms : CancelTurn(q, r)
    \/ \E q \in Requests : Cancel(q)

Spec == Init /\ [][Next]_vars

(***************************************************************************)
(* Go schedules every runnable goroutine: a step of a request in progress  *)
(* or of a turn's goroutine that stays enabled is taken.  Nothing makes a  *)
(* client submit or cancel.  Of the provider, FairSpec assumes only that   *)
(* it reacts to a cancelled context: it may hang.  ProviderAnswers is the  *)
(* further assumption that it does not (the mock and fake ones pace        *)
(* themselves with timers, the HTTP client of the third has a deadline).   *)
(***************************************************************************)
FairSpec ==
    /\ Spec
    /\ \A t \in Turns : /\ WF_vars(AnnounceTurn(t)) /\ WF_vars(Goroutine(t))
                        /\ WF_vars(StreamCancelled(t))
    /\ \A q \in Requests : WF_vars(Cancel(q))

ProviderAnswers == \A t \in Turns : WF_vars(Provider(t))

-----------------------------------------------------------------------------
Event == [type : EventTypes, turn : Turns \cup {None}, agent : 0..NumAgents,
          late : BOOLEAN]

(* The types of the state; a turn that was admitted belongs to a saved room. *)
TypeOK ==
    /\ roomState \in [Rooms -> RoomStates]
    /\ currentTurn \in [Rooms -> Turns \cup {None}]
    /\ announced \subseteq Rooms
    /\ turnRoom \in [Turns -> Rooms \cup {None}]
    /\ round \in [Turns -> Nat]
    /\ turnState \in [Turns -> TurnStates]
    /\ responses \in [Turns -> Seq(0..MaxTokens)]
    /\ cancels \in [Rooms -> Turns \cup {None}]
    /\ ctxDone \subseteq Turns
    /\ pc \in [Turns -> PCs]
    /\ tokens \in [Turns -> 0..MaxTokens]
    /\ log \in [Rooms -> Seq(Event)]
    /\ reqPc \in [Requests -> {"unused", "lookup", "call", "emit", "done"}]
    /\ reqRoom \in [Requests -> Rooms \cup {None}]
    /\ reqTurn \in [Requests -> Turns \cup {None}]
    /\ reqCancel \in [Requests -> Turns \cup {None}]
    /\ \A t \in Turns : pc[t] # "unused" => turnRoom[t] \in Rooms
    /\ \A q \in Requests : reqPc[q] # "unused" => reqRoom[q] \in Rooms

(* A room is streaming exactly while one turn of it is in flight, and that  *)
(* turn is its CurrentTurn: the state that SubmitAnswer tests inside        *)
(* RoomRepo.Update excludes a second turn from admission to the very last   *)
(* step of the first one's deferred clean-up (a deletion changes the state, *)
(* but nothing is admitted to a deleted room).                              *)
SingleFlight ==
    /\ \A t \in Turns : pc[t] \in InFlight =>
          /\ currentTurn[turnRoom[t]] = t
          /\ roomState[turnRoom[t]] \in {"streaming", "deleted"}
    /\ \A r \in Rooms : roomState[r] = "streaming" =>
          /\ currentTurn[r] # None
          /\ turnRoom[currentTurn[r]] = r
          /\ pc[currentTurn[r]] \in InFlight

(* The entry of TurnRuntime.cancels for a room is the cancel func of the    *)
(* turn that is executing in it: a running turn can always be reached by a  *)
(* cancel, and a turn's clean-up never drops or leaves behind the entry of  *)
(* another one (the handle is dropped before the room is given back).       *)
HandleIsRunningTurn ==
    /\ \A t \in Turns : pc[t] \in Running => cancels[turnRoom[t]] = t
    /\ \A r \in Rooms : cancels[r] # None =>
          turnRoom[cancels[r]] = r /\ pc[cancels[r]] \in Running

Of(r, i, t) == log[r][i].turn = t /\ log[r][i].type \in TurnEvents

(* In the log of a room the events of different turns do not interleave,    *)
(* turns come in the order of their rounds, each begins with turn_started   *)
(* and nothing of it follows its turn_completed, although a request, its    *)
(* goroutine and the next request append without a common lock.             *)
LogSegmented ==
    \A r \in Rooms : \A j \in DOMAIN log[r] : \A u \in Turns : Of(r, j, u) =>
        /\ \E i \in 1..j : Of(r, i, u) /\ log[r][i].type = "turn_started"
        /\ \A i \in 1..(j-1) : \A t \in Turns : Of(r, i, t) =>
              \/ t # u /\ round[t] < round[u]
              \/ /\ t = u
                 /\ log[r][i].type # "turn_completed"
                 /\ log[r][j].type # "turn_started"

Completed(t) ==
    \E r \in Rooms : \E i \in DOMAIN log[r] :
        log[r][i].type = "turn_completed" /\ log[r][i].turn = t

(* turn.State and the log agree on the outcome of a turn.  Whoever has seen *)
(* turn_completed finds the turn done, at any later time; and a turn that   *)
(* its clean-up counts and writes back as done has had its turn_completed   *)
(* appended.  Between the two statements of completeTurn only the state     *)
(* says so: a reader of the room may be ahead of the event.                 *)
DoneMeansCompleted ==
    \A t \in Turns :
        /\ Completed(t) => turnState[t] = "done"
        /\ turnState[t] = "done" /\ pc[t] \in {"unregister", "release", "finished"}
           => Completed(t)

(* A turn is recorded as cancelled only if a cancel request called its own  *)
(* cancel func (or its room was deleted under it).                          *)
CancelledOnlyOnRequest ==
    \A t \in Turns : turnState[t] = "cancelled" =>
        \/ roomState[turnRoom[t]] = "deleted"
        \/ \E q \in Requests : reqCancel[q] = t /\ reqPc[q] \in {"emit", "done"}

(* The cancel func that a request looks up after it has read the turn's id  *)
(* belongs to that turn or to a later one of the room, never to one that is *)
(* over: a late cancel may overtake its target, not fall back behind it.    *)
CancelNeverReachesBack ==
    \A q \in Requests : reqCancel[q] # None =>
        /\ turnRoom[reqCancel[q]] = reqRoom[q]
        /\ reqCancel[q] = reqTurn[q] \/ round[reqCancel[q]] > round[reqTurn[q]]

(* After its context is done a turn's goroutine appends at most one more    *)
(* event: the one it had already decided on when it looked at the context.  *)
AtMostOneLateEvent ==
    \A r \in Rooms : \A i, j \in DOMAIN log[r] : \A t \in Turns :
        /\ Of(r, i, t) /\ log[r][i].late
        /\ Of(r, j, t) /\ log[r][j].late
        => i = j

(* The responses stored with a turn hold exactly the tokens its subscribers *)
(* were sent for that agent, whichever way the agent's stream ended.        *)
ResponsesMatchLog ==
    \A t \in Turns : \A k \in DOMAIN responses[t] :
        responses[t][k] = Cardinality({i \in DOMAIN log[turnRoom[t]] :
            /\ Of(turnRoom[t], i, t)
            /\ log[turnRoom[t]][i].type = "token_received"
            /\ log[turnRoom[t]][i].agent = k})

(* A turn that ends done has run every agent of the scenery, also when the  *)
(* provider failed for some of them; no turn runs an agent twice.           *)
DoneMeansAllAgents ==
    \A t \in Turns :
        /\ Len(responses[t]) <= NumAgents
        /\ turnState[t] = "done" => Len(responses[t]) = NumAgents

(* The life of a turn: pending, streaming, done or cancelled, and no step   *)
(* of any process, the write-back to CurrentTurn in the clean-up included,  *)
(* takes one back or changes an outcome.                                    *)
TurnLifecycle ==
    [][\A t \in Turns : turnState'[t] # turnState[t] =>
          <<turnState[t], turnState'[t]>> \in
              {<<"none", "pending">>, <<"pending", "streaming">>,
               <<"streaming", "done">>, <<"streaming", "cancelled">>}]_vars

(* If the provider answers, a streaming room becomes idle again, unless it  *)
(* is deleted: no order of submits, cancels and provider failures leaves a  *)
(* room busy for ever.                                                      *)
RoomBecomesIdle ==
    ProviderAnswers =>
        \A r \in Rooms :
            roomState[r] = "streaming" ~> roomState[r] \in {"idle", "deleted"}

(* Once the context of a turn is done the turn gives its room back, even if *)
(* the provider would never have answered.                                  *)
CancelFreesRoom ==
    \A t \in Turns : t \in ctxDone ~> pc[t] = "finished"

-----------------------------------------------------------------------------
(* The refinement of RoomLog.  A turn that is done is sealed once its       *)
(* turn_completed has been appended.                                        *)
PlainEvent(e) == [type |-> e.type, turn |-> e.turn, agent |-> e.agent]

PlainLog ==
    [r \in Rooms |-> [i \in 1..Len(log[r]) |-> PlainEvent(log[r][i])]]

Phase ==
    [t \in Turns |->
        CASE pc[t] = "unused"   -> "new"
          [] pc[t] = "announce" -> "admitted"
          [] pc[t] = "finished" -> "closed"
          [] OTHER -> IF turnState[t] = "done" /\ pc[t] # "completed"
                      THEN "sealed" ELSE "open"]

Abstract == INSTANCE RoomLog
                WITH log <- PlainLog, created <- announced,
                     phase <- Phase, home <- turnRoom

(* Every behaviour of the turn engine is one of the abstract log: requests, *)
(* goroutines and clean-ups that run side by side leave a log of the        *)
(* promised shape, in which a room has one turn at a time.                  *)
ImplementsRoomLog == Abstract!Spec

-----------------------------------------------------------------------------
(* What the repository says, and the code does not do.                      *)

(* room_service_test.go:206: no turn_completed follows the turn_cancelled   *)
(* of the same turn.                                                        *)
NoCompletionAfterCancel ==
    \A r \in Rooms : \A i, j \in DOMAIN log[r] :
        i < j /\ log[r][i].type = "turn_cancelled"
              /\ log[r][j].type = "turn_completed"
        => log[r][i].turn # log[r][j].turn

(* room_service.go:133: the cancel triggers the cancellation of the context *)
(* of the turn it then reports as cancelled.                                *)
CancelTakesHold ==
    \A q \in Requests : reqPc[q] \in {"emit", "done"} => reqTurn[q] \in ctxDone

(* README.md:45: a cancel leaves complete events.  Every turn that is over  *)
(* has been announced as completed or, by its own id, as cancelled, once    *)
(* all requests are answered.                                               *)
EndIsAnnounced ==
    \A t \in Turns :
        /\ pc[t] = "finished"
        /\ roomState[turnRoom[t]] # "deleted"
        /\ \A q \in Requests : reqPc[q] \in {"unused", "done"}
        => \E i \in DOMAIN log[turnRoom[t]] :
              /\ log[turnRoom[t]][i].turn = t
              /\ log[turnRoom[t]][i].type \in {"turn_completed",
                                              "turn_cancelled"}
=============================================================================
