# TLA+ verification of prompt_endgame

prompt_endgame is an LLM gateway written in Go: clients create rooms, submit an
answer to a room, which starts a *turn*, and follow the room's event log over
server-sent events while the agents of the room's scenery stream tokens from an
LLM provider; a running turn can be cancelled. Everything is kept in memory.
This directory holds TLA+ specifications of that program, the TLC configurations
that check them on small instances, and TLAPS proofs for instances of any size.

## The system

| Component | State | Operations | Meets the others through |
|---|---|---|---|
| RoomService (`internal/app/room_service.go`) | none of its own | CreateRoom, SubmitAnswer, CancelTurn, GetRoom, ListRooms | HTTP handlers call it; it calls RoomRepo, EventSink, TurnRuntime; starts a goroutine per turn |
| TurnRuntime (`internal/app/turn_runtime.go`) | `cancels`: room -> cancel func; the Turn it executes | ExecuteTurn, streamAgent, completeTurn, emitError, Cancel | one goroutine per turn; `mu` around `cancels`; the context; the provider's channel |
| Domain (`internal/domain`) | Room{State, CurrentTurn}, Turn{Round, State, Responses}, Event | NewRoom, NewTurn, CanStartTurn, IsStreaming, NewEvent | the Turn is shared by pointer between room and goroutine |
| RoomRepo (`store/inmem/room_repo.go`) | `rooms` | Save, Get (a copy), Update (closure under the lock), Delete, List | every request and every turn |
| EventSink (`store/inmem/event_sink.go`) | `events`, `subscribers` per room; channels of capacity 100 | Append, ReadFromOffsetAndSubscribe, Subscribe, unsubscribe | requests and turns append, SSE handlers subscribe |
| SSE stream (`adapter/http/sse.go`) | per connection: snapshot, channel | parseOffset, streamSSE, writeSSEEvent | client connections that break and come back |
| Handlers and server (`adapter/http`, `cmd/server/main.go`) | the listener, open connections | one handler per route; Start, Shutdown | net/http, signals |
| Providers (`adapter/provider/{mock,fake,openai}`) | per call: a goroutine and an unbuffered channel; openai: attempts, HTTP response | StreamCompletion | streamAgent reads the channel, the context cancels |
| Configuration and wiring (`config`, `wiring`) | none afterwards | Load, validateConfig, Wire | panics end the process before it listens |
| Sceneries, logging, metrics | start-up data, counters | Get, ... | read-only afterwards |
| Load-test client (`scripts/baseline_loadtest.go`) | per room: next offset; results | executeTurn, roomWorker, metrics parsing | the HTTP interface |

What is hard here: nothing but the state of a room keeps two turns apart, and the
critical sections are short, so requests, turn goroutines and clean-ups interleave
between any two of them; a cancel is a read of the room, a lookup, a call and an
event, each at a different time; the event log has three writers that share no
lock; subscribers have bounded channels that lose events when full; connections
break between any two events. PROJECT.json lists each hazard with its line and the
properties that cover it.

Correctness, per component: one turn per room at a time, and reachable by a cancel
while it runs (TurnRuntime, RoomService); a log in which turns are contiguous,
in order and well-formed, and turn states that agree with it; every room becomes
idle again; no duplicate, no reordering and, short of overflow, no loss for a
reader of the stream, across reconnects (EventSink, SSE); a turn that a client has read
to its end is the whole stored answer (both together); a shutdown that ends, and
that cuts nobody off when it reports success (main, Server); a provider's channel
ends exactly once, with a Done only after the whole answer, and its failures are
counted under their cause (providers).

## Modules

| Module | Models | State and actions |
|---|---|---|
| `TurnRuntime` | room_service.go, turn_runtime.go, room_repo.go, domain | `roomState`, `currentTurn` are the Room, `turnRoom`, `round`, `turnState`, `responses` the Turn, `cancels` the map of TurnRuntime (an entry is named by the turn whose context it cancels), `ctxDone` the contexts that are done. `pc[t]` is the request that submits turn t and then its goroutine, `reqPc[q]` a cancel request. One action per critical section or channel operation. |
| `RoomLog` | the promise of the event log | abstract: turns are admitted one at a time per room, open, speak, are sealed by turn_completed, close |
| `TurnRuntimeMC` | | symmetry for TLC |
| `TurnRuntimeProofs`, `TurnRuntimeCancelProofs`, `TurnRuntimeLogProofs` | | the inductive invariants and the theorems: types and turns, cancels, the log and the refinement |
| `EventSink` | event_sink.go, one room's entries | `events`, `subscribers`, per channel its state, buffer and the snapshot returned with it |
| `EventSinkProofs` | | the invariant of the log and the channels, and the theorems |
| `EventStream` | sse.go and its clients, on top of `EventSink` | handler phase, wire, client's last id and the offsets it has read |
| `Server` | config.go, wiring.go, main.go, server.go, on top of `EventStream` | `phase` is the process's, `late` the clients whose connection was accepted before the listener was closed; the streams' actions are those of `EventStream` under it |
| `ServerProofs` | | the invariant of connections, wires and what was read, and the theorems |
| `RoomStream` | wiring.go: one sink for both; the turn engine and the streams of a room together | `TurnRuntime`'s variables and those of `EventStream`; an append of the engine is an `AppendEvent` of the sink, every other step is of one side |
| `RoomStreamProofs` | | what clients read of turns, from the theorems of both sides |
| `LLMProvider` | the contract of port.LLMProvider | abstract: values sent, channel open, context cancelled |
| `ProviderChannel` | the channel between a provider and streamAgent's range loop, and classifyProviderError | `ppc` is the place of the provider's goroutine, `reader` that of streamAgent, `sent` what has passed; a send is a rendezvous |
| `PacedProvider` | mock and fake StreamCompletion, generateResponse | `ProviderChannel` plus the template, the number of tokens drawn and the answer |
| `OpenAIProvider` | openai StreamCompletion | `ProviderChannel` plus the attempt, and the ghost `cause` of the last failure |
| `Providers` | the choice of a provider, and the three of them before one reader | the variables of both, `provider` says which one serves |
| `ProvidersProofs` | | the invariants of the channel, of answers and of causes, and the theorems |
| `FakeDelays` | the fake provider's scenarios, randomDuration, applyJitter | the wait that is drawn and the wait with jitter, in milliseconds |
| `LoadTest` | scripts/baseline_loadtest.go | `wpc[w]` is the place of worker w in roomWorker and executeTurn, `roomOffsets`, `result` its data; `mpc` is main's place from the profile to the clean-up, `results` the channel, `stats` the totals. `log` and `room` are the server's side, an environment that keeps `RoomLog`'s promise |
| `LoadTestProofs` | | the invariants of main, of the offsets, of what a worker knows of the server's log and of where each call is, and the theorems |

`TurnRuntime` implements `RoomLog` (`Abstract == INSTANCE RoomLog WITH ...`, property
`ImplementsRoomLog`): `log` without the ghost field, `phase` read off `pc` and
`turnState`, `home` is `turnRoom`. `Server` EXTENDS `EventStream`, which EXTENDS
`EventSink`: a handler's step is an operation of the sink plus the writing, a step of the
process that of a handler while the process runs. `RoomStream` EXTENDS `TurnRuntime` and takes the
actions of `EventStream` by INSTANCE over the same room: `log` holds what the events say and
`events` their offsets, and the event at offset o is `log[StreamedRoom][o + 1]`. `Providers` composes `PacedProvider` and
`OpenAIProvider`, which EXTEND `ProviderChannel`; whichever serves implements
`LLMProvider` (`KeepsContract`).

Operators whose name has a suffix and whose comment begins with "Mutant:" are
deliberately wrong variants of the definition that follows them. No specification
uses them: PROJECT.json pairs each with a property that must fail when it replaces
the original, which shows that the property can fail.

### Abstractions

* A step is one critical section, or one context or channel operation, with the
  local computation around it. `Register` joins the registration and the assignment
  of `turn.State` that follows the unlock: no process reads that field for a
  decision. `Unregister` joins the delete, `cancel()` and the derivation of the
  state: a concurrent `cancel()` of the same context changes nothing. completeTurn is
  two steps, `CompleteTurn` and `EmitCompleted`: the Turn is shared by pointer with
  the room, so GetRoom can show a turn as done before its turn_completed is in the log.
* A room is never in the state Endgame (domain/types.go:23): nothing sets it.
* `ctxDone` after `Unregister` holds every turn: the deferred `cancel()` precedes the
  test of `ctx.Err()`, so that test is always true and the outcome rests on
  `turn.State` alone.
* In `TurnRuntime` the provider is a nondeterministic environment: up to `MaxTokens`
  tokens, then Done, or an error at any point; after a cancel, any answer or the
  close of the channel has the same effect (`StreamCancelled`).
* A scenery is its number of agents. The scenery_not_found path is not reachable:
  CreateRoom looks the scenery up and sceneries are never removed.
* Requests that are turned away (404, 409) change nothing and are not steps.
* The event's ghost field `late` records whether its turn's context was done when it
  was appended; only `AtMostOneLateEvent` reads it. `next` and `dropped` in EventSink
  are ghosts too.
* An error's text is the set of its phrases that classifyProviderError or
  isRetryableError look for. The body of an HTTP error may contain any of them, so
  `LabelTellsCause` says nothing about HTTP errors. A request made after a cancel may
  still be answered in the model, which allows more than the HTTP client does.
* classifyProviderError's first test, for the bare errors of package context
  (turn_runtime.go:251), is left out: a bare context.Canceled has only the text of the last
  group, which gives the same label, and a turn's context has no deadline.
* The fake provider's template has at least one word: an empty one is replaced
  (fake/provider.go:281). On one of blanks only, which no caller sets, the loop at :299
  would not end.
* MaxRetries is at least 1: NewProvider replaces 0, and a negative value, for which the
  loop would not run at all, is not one the program's configuration sets.
* In `RoomStream` a client may subscribe to a room that was deleted after GetRoom saw it, and no
  time limit lies between the two. `MaxEvents` bounds the events of the streamed room there: at the
  bound the engine waits, and the theorems hold for any bound.
* Offsets asked for are natural numbers. A negative fromOffset is outside the
  precondition of `ReadFromOffsetAndSubscribe`.
* `Subscribe`, which nothing under src/ calls, is an action of `EventSink` and covered by its
  proofs; in the streams a subscription is made by `ReadFromOffsetAndSubscribe` only.
* A configuration is the set of keys that are set, what PROVIDER_TYPE says, and whether the
  durations parse. Any type but `openai` runs the mock provider (wiring.go:45-50); the fake
  provider is wired nowhere, and `Providers` lets it serve all the same. SERVER_READ_TIMEOUT
  and SERVER_WRITE_TIMEOUT are read but have no effect: server.go:100 sets 15 seconds and 0.
* net/http is modelled by what its documentation says of Shutdown: the listener is closed at
  once, connections accepted before it are served, and it returns when none is active. The
  end of a stream's request for any reason (the client, the network, the read timeout) is
  `Disconnect`. A second signal during the drain does nothing, since `signal.Notify` holds it.
  Nothing orders `signal.Notify` with the goroutine that listens, so a signal that ends the
  process at once (`EarlySignal`) may also find it serving.
  `DrainTimeout` may come at any time of the drain: real time is not modelled.
* In `FakeDelays` a random number is a number of Steps-ths, and divisions round down, so the
  property allows a millisecond.
* In `LoadTest` the server neither cancels a turn before the clean-up nor drops an event of a slow reader
  (`EventStream` has the drops), offsets count the events of one room, and a stream may
  fail or end at any event. main waits for its workers for 30 seconds at most: as real time is
  not modelled, `JoinTimeout` may come at any time of that wait, and the channel is then closed
  with workers alive. A worker that reports afterwards panics (`Panic`), which ends the process,
  unless main has reported and ended first.

## Runs

| Run | Shows | Bounds, and why they suffice |
|---|---|---|
| `turn_safety` | one turn at a time, handles, log shape, truthful states, life cycle; implements `RoomLog` | 1 room, 2 turns, 2 cancel requests, 1 agent, 1 token: two successive turns and two requests contain every pair of processes that can meet in a room, and a request that straddles both turns |
| `turn_outcomes` | stored responses equal the logged tokens; a done turn ran all agents; late events; a streaming room becomes idle; a cancel frees it even if the provider hangs | `FairSpec`, no symmetry; 1 turn, 2 agents, 2 tokens, 1 request, a room that may be deleted under its turn: success, failure and cancel in the first agent, the second, and between |
| `server_streams` | the process from its configuration to its exit, with the streams of a room in it: no send on a closed channel, no duplicate, no reordering, no hole short of overflow, across reconnects; every event is read; dead connections unsubscribe; a shutdown ends and cuts nobody off if it reports success; an accepted configuration does not panic | every set of the eight keys; 2 clients (one with fromOffset in its URL), 2 connections, capacity 1, 3 events: a connection can overflow, break and be resumed, and a shutdown finds one open, one broken, or one accepted and not yet served |
| `providers` | each of the three providers against the reader and a cancel at any point | 3 attempts (the default): first, middle and last; templates and answers of 0 to 3 tokens: shorter, as long and longer, cut at and between repetitions; a failure before and after the first token |
| `load_test` | the load test follows each of its turns to its end, counts a success only if the server served one, reads each event once, and ends, with every turn counted if its workers had ended, or else short by the calls they were in | 1 worker whose room may not have been created, 2 turns, 1 token, 2 submits to a busy room, channel of 1: a turn given up and its leftovers met by the next one. Workers share only the channel and the totals, and the theorems cover any number of them |
| `cancelled_completes`, `cancel_lost`, `cancel_unannounced`, `stream_lost`, `provider_leak`, `rate_limit`, `jitter` | findings, below | the smallest instance that shows each |

The instances end when their turns, requests, events or answers are used up, so deadlock
is not checked. Two rooms share no state in `TurnRuntime` but the maps they index; the
runs use one room and the proofs cover any number.

Fairness. In `TurnRuntime`, a goroutine that can take a step takes one, as the Go scheduler
guarantees; clients are free never to submit or cancel. `FairSpec` assumes of the provider
no more than its reaction to a cancelled context; that it answers is a hypothesis of
`RoomBecomesIdle` (`ProviderAnswers`), and `CancelFreesRoom` does without it. `ReaderReturns`
of run `providers` is what discharges that hypothesis for the three providers: there,
timers fire (mock, fake) and `http.Client.Timeout` ends a request and its body even if the
server hangs (OpenAI). In `FairServerSpec` a handler's `Leave` is fair by itself: Go's
select chooses at random between ready cases, so the end of a request is not passed over
for ever. A connected client reads what arrives, and the timer of the shutdown fires; nobody
has to connect, to break off, to append an event or to send a signal. In `LoadTest`'s `FairSpec` the server's turns go on, goroutines run and a request
whose context is cancelled fails; no other request has to fail, and the test need not stop.
`JoinTimeout` is not fair: the workers end without it, since the contexts of their requests are
cancelled by then and their longest sleep is a second.

## Findings

* A `turn_completed` can follow the `turn_cancelled` of the same turn (`cancelled_completes`):
  the context is tested before the event is appended, and CancelTurn announces a
  cancel whatever it reached. A test of the repository rejects that order.
* A cancel that arrives between SubmitAnswer and the registration of the cancel func
  is announced and answered 204, but cancels nothing (`cancel_lost`).
* A cancel that has read the room and then waits while the turn ends and the next one begins
  stops the next one and names the earlier one in its event, so the stopped turn ends without
  any event that says so (`cancel_unannounced`).
* A reader that falls behind the channel's capacity is left with a hole that a
  reconnect does not repair, although the user story rules losses out (`stream_lost`).
* A cancel that the reader notices while the provider is about to send a token leaves
  the provider's goroutine at that send, and its channel open, for ever (`provider_leak`);
  port/llm_provider.go:15 promises a closed channel. The OpenAI provider's sends are
  all of this kind.
* A 429 on the last attempt leaves the retry loop without an error; the closed body is
  then scanned and the call ends as `stream_error`, or as a complete empty answer if the
  body was empty (`rate_limit`), although 429 is a documented label.
* The fake provider's jitter is the fraction times the delay in seconds, and is then taken as
  a fraction of the delay again: it is as documented for a delay of one second only (`jitter`).

Three smaller divergences are visible in the models without a run of their own. No step
puts a room in state `cancelled` (docs/architecture.md:170 says that a cancel does). The label
`cancelled` of the error counter, listed at turn_runtime.go:245 and metrics.go:55 and accepted by the
metric's tests (metrics_test.go:29, 52), is never given to a cancelled call: streamAgent returns on ctx.Err()
(turn_runtime.go:181-187) before it counts, which `CancelNotCounted` proves. Only an HTTP error
whose body says "context canceled" can get it. `CancelIsNoFailure` leaves that open: it
forbids the labels of failures, and holds with or without the documented one. And a
client of `UrlClients`, whose URL carries fromOffset, is sent events again when it
reconnects, because parseOffset lets the query win over Last-Event-ID
(docs/user_story.md:18-19 rule repeats and diverging offsets out).

What holds instead is stated by the passing runs: `AtMostOneLateEvent`,
`DoneMeansCompleted`, `CancelNeverReachesBack`, `GapFreeUnlessDropped`, `NoDuplicates`,
`LeftBehindOnlyByCancel`, `ClosedUnlessCancelled`.

## Proofs

`TurnRuntimeProofs` proves, from `TurnRuntimeAssumption` alone (NumAgents and MaxTokens are
naturals, Deletable is a set of rooms, None is no room and no turn), for every instance:

* `TypeCorrect`, `OneTurnPerRoom` (`SingleFlight`), `RunningTurnReachable`
  (`HandleIsRunningTurn`), `AllAgentsRun` (`DoneMeansAllAgents`), `LifecycleHolds`
  (`TurnLifecycle`).

The inductive invariant `IInv` joins the type invariant with two facts tied to `pc`:
`StateAtPc`, the state of a turn at each point of its execution, and `AgentsAtPc`, how
many agents have run by then. `SingleFlight` is inductive with the types: a room
that can take a turn is not streaming and not deleted, so no turn of it is in flight.
`HandleIsRunningTurn` needs it: `Register` would otherwise overwrite, and `Unregister`
drop, another turn's entry. `TypeOK` needs `AgentsAtPc`, because an event carries the index
of an agent that must exist. `TurnLifecycle` follows because the clean-up writes its
state to `CurrentTurn`, which by `SingleFlight` is still its own turn. `InLoopFrame`
and `RequestFrame` say once what the agent loop and the cancel requests leave alone.

`TurnRuntimeCancelProofs` adds `CancelInv` and proves `LateCancelReachesForward`
(`CancelNeverReachesBack`) and `CancelledHasCause` (`CancelledOnlyOnRequest`). It needs that
CurrentTurn is the turn of the highest round in its room (`RoundsGrow`), that no context is
cancelled and no handle handed out before Register (`CancelReach`), and why a turn may come
to its clean-up without completing (`StopHasCause`).

`TurnRuntimeLogProofs` proves `LogsAreSegmented` (`LogSegmented`), `DoneIsLogged`
(`DoneMeansCompleted`), `OneLateEvent` (`AtMostOneLateEvent`), `ResponsesCount`
(`ResponsesMatchLog`) and `ImplementsLog` (`ImplementsRoomLog`). A turn's state and its
turn_completed agree once completeTurn is over: a done turn has the event unless it stands between
the two statements (`SealedIsLogged`), which gives `DoneMeansCompleted`. `StepKinds` sorts the steps into silent ones, appends by a turn
(`Speaks`) and other appends (`Announces`), and `LogInv` is kept by each kind. A turn that
speaks is its room's CurrentTurn (`SingleFlight`), so by `RoundsGrow` every earlier event is of
a turn of a lower round; an event after the context was done leaves the turn at a place from
which it reaches its clean-up without another (`LateThenSilent`). For the refinement,
`PlainEmit` shows that an append to a log is an append to what `RoomLog` sees of it. `CountInv`
says what the log holds of every agent at every moment (`Expected`: its response if it has run,
the count so far less a token received and not yet appended if it runs, nothing if it is to
come), and each append changes one count by one (`SaidAfterEmit`).

`EventSinkProofs` proves, for any number of subscriptions and any capacity
(`EventSinkAssumption`: the capacity is positive, the bound on events a natural),
`NoSendOnClosed` (`ListedIffOpen`), `DeliveredInOrder` (`PendingInOrder`) and
`LosslessBelowCapacity` (`LosslessUntilFull`). `SinkInv` says of every channel what its
consumer is owed (`Owed`), position by position: pending events are in the order of the
log and not before `next` (`InOrder`) and, if none was dropped, they are all of the log from
`next` on (`IsRest`). `AfterAppend` and `AfterTake` are the two facts about sequences that it
rests on; `OpenKeeps` and `TakeKeeps` serve the two ways to subscribe and the two ways to
read.

`ServerProofs` proves, for any number of clients, connections and events, `NeverTwice`
(`NoDuplicates`), `NoGaps` (`GapFreeUnlessDropped`), `NothingLost` (`NothingForgotten`),
`NobodyCutOff` (`ExitCutsNobody`) and `WiringSafe` (`WiringNeverPanics`), and that the sink's
three properties hold in the composition (`SubscriptionsSound`), from
`EventSinkAssumption` and `EventStreamAssumption` (`None` is no client, no channel and no
offset). The invariant `StreamsInv` is `SinkInv` with three parts of its own: `ConnInv` ties a
connection to its client, its handler and its subscription; `WireInv` says that what is on a
wire is ascending and comes before what its handler has still to write; `ReadInv` says that what
a resuming client has read is ascending and comes before what is on its wire (`InOrderInv`), that
without a drop the two are the log up to the next event to be written (`ExactInv`), and that the
last offset read is `lastId`, which is where a reconnect takes up (`LastRead`). It
is needed because `NoDuplicates` speaks of what was read only, and says nothing of the
events that are still on their way. `ConnectKeeps`, `WriteKeeps` and `ReadKeeps` are the three
places an event passes.

`RoomStreamProofs` proves, for any number of rooms, turns, requests, clients and connections and
any capacity, `WholeTurnsRead` (`ReadsWholeTurns`) and `TurnsReadInOrder` (`ReadsTurnsInOrder`),
from `TurnRuntimeAssumption` and, as a hypothesis of the theorems, `RoomStreamParameters` (the
streamed room is a room, and what `EventSink` and `EventStream` assume). The two are among the
proofs only, not among the runs: an instance in which a reconnect, a cancel and a second turn meet
is beyond a run's time. Each half of the composition has runs of its own. Nothing is proved again of either side.
A step of the composition is a step of the engine or leaves it alone (`EngineRuns`), so the
engine's theorems hold of it. And it is a step of a `Server` that serves (`StreamsStep`, with
`ServerProofs` instantiated for that phase), so `StreamsInv` is kept. What is new is `SameLength`:
the sink's log is as long as the room's, since every append lengthens both by one (`LogGrows`).
Then what a client has read is in the room's log, in its order, and without a loss is its beginning
(`ReadFromLog`). With `LogSegmented` that gives the order of the turns; and because nothing of
a turn follows its turn_completed, a beginning that holds it holds all of the turn's tokens, which
by `ResponsesMatchLog` are those of the stored responses.

`ProvidersProofs` proves of the composition, for answers of any length and any number of
retries, that it implements `LLMProvider` (`ProvidersKeepContract`) and that a provider is left
at a send only by a cancel (`LeftOnlyByCancel`). Both rest on `ChannelInv`, which the steps that
all providers share keep: before the close only tokens have been sent, the normal way to the
close is past a final value, and a reader that has returned has a reason: a cancel, or a final
value. `WholeInv` counts what has been sent against
the answer and gives `DoneAfterWholeAnswer` (`DoneMeansWhole`). `AnswersAsDrawn`
(`AnswerHasTarget`) is about what the recursive function `Repeat` computes. `Cycle(w, n)`, the
template over and over cut after n words, solves the equation that defines `Repeat` (`CycleStep`,
from the arithmetic of `WordCycles`); if the two differed at some n, they would differ at a least
one, where the equation and the agreement below make them equal (`RepeatCycles`: the order of the
naturals is well founded). `CauseInv` ties the ghost
`cause` to the error about to be sent at each place of the goroutine, and gives
`CancelNotCounted`, which is stronger than `CancelNotCharged` (`CancelIsNoFailure`), `PartialNotEmpty` (`PartialHasTokens`) and
`LabelIsLastCause` (`LabelTellsCause`). Of the assumptions on the constants only
`ProviderChannelAssumption` (MaxTokens is a natural) is used, for the fake answers.

`LoadTestProofs` proves, for any number of workers, turns and tokens, from `LoadTestAssumption`
(the workers are finitely many, the bounds naturals):

* `OffsetsGapFree` (`ReadsEachEventOnce`), from `OffsetInv`: an open stream stands at the offset
  after the last one committed.
* `SuccessesAreServed` (`SuccessIsServed`), from `ServeInv`. It says of the server's log that the
  last turn of a room has the highest number and that after a turn_completed only a turn_cancelled
  follows of that turn (`RoomInv`), and of the worker that the turn it follows is the room's latest,
  that none of it lies before the stream's first event, and that it has counted exactly the tokens
  and seen neither error nor end in the part it has read (`Follows`). When turn_completed is read it
  must be the last event of the turn, so that the part read is all of it (`Served`).
* `EveryCallCounted` (`AllTurnsCounted`), from `CountInv`: at any time the calls in the totals, those
  thrown away after the warm-up, those in the channel and the workers inside a call are together the
  calls begun (`Begun`). At the report the channel is empty, and a worker is inside a call only if
  main's wait ran out (`forced`, from `MainInv`); then exactly those calls are missing.

Only model-checked: the liveness properties, since fairness and ENABLED are beyond the prover
(`RoomBecomesIdle`, `CancelFreesRoom`, `EventuallyRead`, `GoneIsUnsubscribed`, `ShutdownEnds`,
`ReaderReturns`, `ClosedUnlessCancelled`, `EveryTurnEnds`, `TestEnds`). Every safety property
that a passing run checks is stated by a theorem.

## Plan

1. Done: `TurnRuntime` with `RoomLog`, `EventSink`, `EventStream`, and all their safety
   properties proved.
2. Done: providers and error classification, the fake provider's answer and delays, with
   their contract, labels and answers proved.
3. Done: `Server`, from the configuration to the shutdown, with the streams' properties proved
   in it.
4. Done: the load-test client, from its profile to its clean-up.
5. Done: the load test's and the fake answer's safety properties proved, and `RoomStream`: the
   log that the turns write is the log that is streamed.
6. Left: a composition of the load-test client with `RoomStream`, in place of the environment
   that `LoadTest` assumes of the server.

## Not modelled

* Metrics and logging: written, and read by no decision of the program.
* Routing and the address checks in front of /metrics and pprof (server.go:28-94, 120-203):
  functions of one request that keep no state. JSON and status codes of the handlers, and
  the supervisor listing, which only reads.
* Loading sceneries from files (scenery/fs/repo.go:33-47), which nothing calls: the default
  scenery with its one agent is the only one a running server has. `TurnRuntime` takes any
  number of agents.
* The fake provider's estimates of durations and throughput, and its reseeding.
* Of the load-test client, the collection of metrics and pprof profiles, percentiles and the
  Markdown report: I/O, and arithmetic on a list that no longer changes.
* Dashboards, compose files and shell scripts.
