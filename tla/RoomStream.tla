----------------------------- MODULE RoomStream -----------------------------
(***************************************************************************)
(* The turn engine and the event streams of one room over the event sink   *)
(* that wiring.Wire gives to both: what the turns append is what the       *)
(* clients are sent.  An append is one step of both sides: of the request, *)
(* goroutine or cancel that makes it, and of the sink, which stores the    *)
(* event and offers it to the subscribers before it lets go of its mutex.  *)
(* TurnRuntime's log holds what the events say, EventSink's events their   *)
(* offsets: the event at offset o is log[StreamedRoom][o + 1].             *)
(***************************************************************************)
EXTENDS TurnRuntime

CONSTANTS
    StreamedRoom,                    \* the room whose events are streamed
    Clients, UrlClients, Chans,      \* see EventStream
    BufferSize, MaxEvents            \* see EventSink

(* What EventSink and EventStream assume of their constants.                *)
RoomStreamParameters ==
    /\ StreamedRoom \in Rooms
    /\ BufferSize \in Nat \ {0} /\ MaxEvents \in Nat
    /\ UrlClients \subseteq Clients
    /\ None \notin Clients \cup Chans /\ None \notin Nat

VARIABLES
    events, subscribers, chan, buffer, snapshot, next, dropped,   \* EventSink
    hpc, wire, gone, owner, conn, lastId, got                     \* EventStream

Streams == INSTANCE EventStream

sinkVars == <<events, subscribers, chan, buffer, snapshot, next, dropped>>
handlerVars == <<hpc, wire, gone, owner, conn, lastId, got>>
roomStreamVars == <<vars, sinkVars, handlerVars>>

RoomStreamInit == Init /\ Streams!StreamInit

(* A step of the turn engine; if it appends to the room, the sink takes the *)
(* event in the same critical section.                                      *)
EngineStep ==
    /\ Next
    /\ UNCHANGED handlerVars
    /\ \/ log'[StreamedRoom] = log[StreamedRoom] /\ UNCHANGED sinkVars
       \/ log'[StreamedRoom] # log[StreamedRoom] /\ Streams!AppendEvent

(* StreamEvents answers 404 unless the room is there when it looks, before  *)
(* it subscribes; the room may have been deleted in between.                *)
StreamEvents(k) ==
    /\ roomState[StreamedRoom] # "none"
    /\ \E c \in Chans : Streams!Connect(k, c)

ClientStep(k) ==
    /\ UNCHANGED vars
    /\ StreamEvents(k) \/ Streams!Read(k) \/ Streams!Disconnect(k)

HandlerStep(c) == UNCHANGED vars /\ Streams!Handler(c)

RoomStreamNext ==
    \/ EngineStep
    \/ \E k \in Clients : ClientStep(k)
    \/ \E c \in Chans : HandlerStep(c)

RoomStreamSpec == RoomStreamInit /\ [][RoomStreamNext]_roomStreamVars

-----------------------------------------------------------------------------
(* The i-th event that client k has read.                                   *)
ReadEvent(k, i) == log[StreamedRoom][got[k][i] + 1]

HasReadEnd(k, t) ==
    \E i \in DOMAIN got[k] :
        ReadEvent(k, i).type = "turn_completed" /\ ReadEvent(k, i).turn = t

TokensRead(k, t, a) ==
    {i \in DOMAIN got[k] : /\ ReadEvent(k, i).type = "token_received"
                           /\ ReadEvent(k, i).turn = t
                           /\ ReadEvent(k, i).agent = a}

(* A client that has read the end of a turn has read the turn: every token  *)
(* of every agent's stored response once, however often its connection      *)
(* broke in between and whoever cancelled in the meantime; and the turn     *)
(* stays done.  A client that lost events to a full channel, or resumes by  *)
(* its URL, has no such promise.                                            *)
ReadsWholeTurns ==
    \A k \in Streams!Resuming : ~Streams!Lossy(k) =>
        \A t \in Turns : HasReadEnd(k, t) =>
            /\ turnState[t] = "done"
            /\ Len(responses[t]) = NumAgents
            /\ \A a \in 1..NumAgents :
                  Cardinality(TokensRead(k, t, a)) = responses[t][a]

(* Even a client that lost events reads one turn after the other: its       *)
(* events of different turns do not mix, later rounds come later, and a     *)
(* turn is silent after its turn_completed.                                 *)
ReadsTurnsInOrder ==
    \A k \in Streams!Resuming : \A j \in DOMAIN got[k] : \A i \in 1..(j - 1) :
        LET d == ReadEvent(k, i)
            e == ReadEvent(k, j) IN
        d.type \in TurnEvents /\ e.type \in TurnEvents =>
            IF d.turn = e.turn
            THEN d.type # "turn_completed" /\ e.type # "turn_started"
            ELSE round[d.turn] < round[e.turn]
=============================================================================
