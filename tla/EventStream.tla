---------------------------- MODULE EventStream ----------------------------
(***************************************************************************)
(* The event stream of a room over HTTP: the SSE handler (StreamEvents,    *)
(* parseOffset, streamSSE) on top of EventSink, and clients that lose      *)
(* their connection and come back, as EventSource does.                    *)
(*                                                                         *)
(* A connection is the subscription its handler makes.  Between handler    *)
(* and client lies the wire: what was written and not yet read is lost     *)
(* when the connection breaks.  A client keeps the id of the last event it *)
(* read and sends it back in Last-Event-ID; some clients (UrlClients) have *)
(* opened a URL with a fixed fromOffset=0, which EventSource repeats.      *)
(***************************************************************************)
EXTENDS EventSink

CONSTANTS
    Clients,
    UrlClients,   \* those whose URL carries fromOffset=0
    None

ASSUME EventStreamAssumption ==
    /\ UrlClients \subseteq Clients
    /\ None \notin Clients \cup Chans /\ None \notin Nat

VARIABLES
    hpc,      \* handler of connection c: "idle", "history", "live", "done"
    wire,     \* offsets written by the handler, not yet read by the client
    gone,     \* connections that the client has dropped (request context done)
    owner,    \* the client that made connection c
    conn,     \* the client's current connection
    lastId,   \* id of the last event the client read, or None
    got       \* offsets of all events the client has read

streamVars == <<hpc, wire, gone, owner, conn, lastId, got>>
allVars == <<sinkVars, streamVars>>

StreamInit ==
    /\ Init
    /\ hpc = [c \in Chans |-> "idle"]
    /\ wire = [c \in Chans |-> <<>>]
    /\ gone = {}
    /\ owner = [c \in Chans |-> None]
    /\ conn = [k \in Clients |-> None]
    /\ lastId = [k \in Clients |-> None]
    /\ got = [k \in Clients |-> <<>>]

(* Mutant: the header names the next event, like the query parameter.       *)
ParseOffset_SameAsQuery(query, header) ==
    IF query # None THEN query ELSE IF header # None THEN header ELSE 0

(* parseOffset: the query parameter wins; the header names the last event   *)
(* read, so reading resumes after it.  A value that is not a number counts  *)
(* as absent (None).                                                        *)
ParseOffset(query, header) ==
    IF query # None THEN query ELSE IF header # None THEN header + 1 ELSE 0

Query(k) == IF k \in UrlClients THEN 0 ELSE None

(* The request, up to the subscription.                                     *)
Connect(k, c) ==
    /\ conn[k] = None
    /\ ReadFromOffsetAndSubscribe(ParseOffset(Query(k), lastId[k]), c)
    /\ hpc' = [hpc EXCEPT ![c] = "history"]
    /\ conn' = [conn EXCEPT ![k] = c]
    /\ owner' = [owner EXCEPT ![c] = k]
    /\ UNCHANGED <<wire, gone, lastId, got>>

(* writeSSEEvent: a write to a connection that is gone is lost.             *)
Write(c, e) ==
    wire' = IF c \in gone THEN wire
                          ELSE [wire EXCEPT ![c] = Append(@, e.offset)]

WriteHistory(c) ==
    /\ hpc[c] = "history"
    /\ TakeSnapshot(c)
    /\ Write(c, Head(snapshot[c]))
    /\ UNCHANGED <<hpc, gone, owner, conn, lastId, got>>

(* Mutant: a return before the deferred unsubscribe is in place.            *)
EndHistory_ReturnIfGone(c) ==
    /\ hpc[c] = "history" /\ snapshot[c] = <<>>
    /\ hpc' = [hpc EXCEPT ![c] = IF c \in gone THEN "done" ELSE "live"]
    /\ UNCHANGED <<sinkVars, wire, gone, owner, conn, lastId, got>>

EndHistory(c) ==
    /\ hpc[c] = "history" /\ snapshot[c] = <<>>
    /\ hpc' = [hpc EXCEPT ![c] = "live"]
    /\ UNCHANGED <<sinkVars, wire, gone, owner, conn, lastId, got>>

(* Mutant: the live loop runs once.                                         *)
WriteLive_NoLoop(c) ==
    /\ hpc[c] = "live"
    /\ TakeLive(c)
    /\ Write(c, Head(buffer[c]))
    /\ hpc' = [hpc EXCEPT ![c] = "done"]
    /\ UNCHANGED <<gone, owner, conn, lastId, got>>

(* The select of the live loop: an event, or the end of the request.  If    *)
(* both are ready either may be taken.                                      *)
WriteLive(c) ==
    /\ hpc[c] = "live"
    /\ TakeLive(c)
    /\ Write(c, Head(buffer[c]))
    /\ UNCHANGED <<hpc, gone, owner, conn, lastId, got>>

Leave(c) ==
    /\ hpc[c] = "live"
    /\ c \in gone
    /\ Unsubscribe(c)
    /\ hpc' = [hpc EXCEPT ![c] = "done"]
    /\ UNCHANGED <<wire, gone, owner, conn, lastId, got>>

(* The client reads the next event on its connection.                       *)
Read(k) ==
    LET c == conn[k] IN
    /\ c # None /\ wire[c] # <<>>
    /\ got' = [got EXCEPT ![k] = Append(@, Head(wire[c]))]
    /\ lastId' = [lastId EXCEPT ![k] = Head(wire[c])]
    /\ wire' = [wire EXCEPT ![c] = Tail(@)]
    /\ UNCHANGED <<sinkVars, hpc, gone, owner, conn>>

(* The connection breaks, with what is on the wire.                         *)
Disconnect(k) ==
    LET c == conn[k] IN
    /\ c # None
    /\ conn' = [conn EXCEPT ![k] = None]
    /\ gone' = gone \cup {c}
    /\ wire' = [wire EXCEPT ![c] = <<>>]
    /\ UNCHANGED <<sinkVars, hpc, owner, lastId, got>>

Handler(c) == WriteHistory(c) \/ EndHistory(c) \/ WriteLive(c) \/ Leave(c)

StreamNext ==
    \/ AppendEvent /\ UNCHANGED streamVars
    \/ \E k \in Clients : Read(k) \/ Disconnect(k) \/ \E c \in Chans : Connect(k, c)
    \/ \E c \in Chans : Handler(c)

StreamSpec == StreamInit /\ [][StreamNext]_allVars

-----------------------------------------------------------------------------
Range0(n) == [i \in 1..n |-> i - 1]
Resuming == Clients \ UrlClients
Lossy(k) == \E c \in dropped : owner[c] = k
HasRead(k, o) == \E i \in DOMAIN got[k] : got[k][i] = o

(* A client that resumes with Last-Event-ID reads each event at most once   *)
(* and in the order of the log, across any number of broken connections     *)
(* and also when the server has dropped events for it.                      *)
NoDuplicates ==
    \A k \in Resuming : \A i, j \in DOMAIN got[k] :
        i < j => got[k][i] < got[k][j]

(* As long as none of its connections overflowed, such a client has read a  *)
(* prefix of the log without a hole, although it was away for parts of it.  *)
GapFreeUnlessDropped ==
    \A k \in Resuming : ~Lossy(k) => got[k] = Range0(Len(got[k]))

(* And while it is connected, what it has read, what is on the wire, what   *)
(* is left of the history and what waits in the channel add up to the log.  *)
NothingForgotten ==
    \A k \in Resuming : ~Lossy(k) /\ conn[k] # None =>
        LET c == conn[k]
            rest == [i \in 1..Len(Pending(c)) |-> Pending(c)[i].offset]
        IN got[k] \o wire[c] \o rest = Range0(Len(events))

(* A connected client reads every event in the end, unless its connection   *)
(* breaks or one of its connections has overflowed.                         *)
EventuallyRead ==
    \A c \in Chans, o \in Offsets :
        owner[c] # None /\ o < Len(events) ~>
            \/ c \in gone
            \/ \E k \in Clients : /\ owner[c] = k
                                  /\ Lossy(k) \/ HasRead(k, o)

(* The handler of a broken connection ends and unsubscribes: subscriptions  *)
(* of clients that are gone do not pile up in the sink.                     *)
GoneIsUnsubscribed ==
    \A c \in Chans : c \in gone ~> c \notin subscribers

-----------------------------------------------------------------------------
(* What the repository says, and the code does not do.                      *)

(* docs/user_story.md:18, no event is lost: what a resuming client has read *)
(* is a prefix of the log.                                                  *)
NoEventLost == \A k \in Resuming : got[k] = Range0(Len(got[k]))
=============================================================================
