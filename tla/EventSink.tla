----------------------------- MODULE EventSink -----------------------------
(***************************************************************************)
(* The in-memory event sink (store/inmem/event_sink.go), for the events of *)
(* one room: every operation works under the sink's mutex on the map       *)
(* entries of a single room, so rooms do not meet here.  A subscription is *)
(* the buffered channel made for it.  An event is its offset and its       *)
(* place in the order of the appends; these differ only if the code gets   *)
(* the offset wrong.                                                       *)
(***************************************************************************)
EXTENDS Integers, Sequences

CONSTANTS
    Chans,        \* subscriptions, each made at most once
    BufferSize,   \* capacity of a subscription's channel (100 in the code)
    MaxEvents     \* bound on the events appended

ASSUME EventSinkAssumption == BufferSize \in Nat \ {0} /\ MaxEvents \in Nat

VARIABLES
    events,       \* EventSink.events, oldest first
    subscribers,  \* EventSink.subscribers
    chan,         \* of each channel: "none", "open" or "closed"
    buffer,       \* the events in the channel
    snapshot,     \* the history returned with the channel, not yet consumed
    \* Ghosts, which no operation reads:
    next,         \* offset after the last event delivered to the consumer
    dropped       \* channels that missed an event because they were full

sinkVars == <<events, subscribers, chan, buffer, snapshot, next, dropped>>

Offsets == 0..(MaxEvents - 1)
Event == [seq : Offsets, offset : Offsets]

Init ==
    /\ events = <<>>
    /\ subscribers = {}
    /\ chan = [c \in Chans |-> "none"]
    /\ buffer = [c \in Chans |-> <<>>]
    /\ snapshot = [c \in Chans |-> <<>>]
    /\ next = [c \in Chans |-> 0]
    /\ dropped = {}

(* Mutant: subscribers get the event as the caller passed it, its offset    *)
(* still zero.                                                              *)
AppendEvent_NotifyFirst ==
    LET n == Len(events)
        e == [seq |-> n, offset |-> 0] IN
    /\ n < MaxEvents
    /\ events' = Append(events, [e EXCEPT !.offset = n])
    /\ buffer' = [c \in Chans |->
                    IF c \in subscribers /\ Len(buffer[c]) < BufferSize
                    THEN Append(buffer[c], e) ELSE buffer[c]]
    /\ dropped' = dropped \cup
                    {c \in subscribers : Len(buffer[c]) >= BufferSize}
    /\ UNCHANGED <<subscribers, chan, snapshot, next>>

(* Append: give the event its offset, store it, and offer it to every       *)
(* subscriber without waiting: a full channel misses it.                    *)
AppendEvent ==
    LET n == Len(events)
        e == [seq |-> n, offset |-> n] IN
    /\ n < MaxEvents
    /\ events' = Append(events, e)
    /\ buffer' = [c \in Chans |->
                    IF c \in subscribers /\ Len(buffer[c]) < BufferSize
                    THEN Append(buffer[c], e) ELSE buffer[c]]
    /\ dropped' = dropped \cup
                    {c \in subscribers : Len(buffer[c]) >= BufferSize}
    /\ UNCHANGED <<subscribers, chan, snapshot, next>>

(* The events from an offset on; none if it is past the end.                *)
History(o) == SubSeq(events, o + 1, Len(events))

(* Mutant: the snapshot starts after the offset.                            *)
ReadFromOffsetAndSubscribe_Exclusive(o, c) ==
    /\ chan[c] = "none"
    /\ snapshot' = [snapshot EXCEPT ![c] = History(o + 1)]
    /\ subscribers' = subscribers \cup {c}
    /\ chan' = [chan EXCEPT ![c] = "open"]
    /\ next' = [next EXCEPT ![c] = IF o < Len(events) THEN o ELSE Len(events)]
    /\ UNCHANGED <<events, buffer, dropped>>

(* One critical section: copy the history, then make and list the channel.  *)
ReadFromOffsetAndSubscribe(o, c) ==
    /\ chan[c] = "none"
    /\ snapshot' = [snapshot EXCEPT ![c] = History(o)]
    /\ subscribers' = subscribers \cup {c}
    /\ chan' = [chan EXCEPT ![c] = "open"]
    /\ next' = [next EXCEPT ![c] = IF o < Len(events) THEN o ELSE Len(events)]
    /\ UNCHANGED <<events, buffer, dropped>>

(* Subscribe: the channel alone, from now on.                               *)
Subscribe(c) ==
    /\ chan[c] = "none"
    /\ subscribers' = subscribers \cup {c}
    /\ chan' = [chan EXCEPT ![c] = "open"]
    /\ next' = [next EXCEPT ![c] = Len(events)]
    /\ UNCHANGED <<events, buffer, snapshot, dropped>>

(* Mutant: the channel is closed but stays listed.                          *)
Unsubscribe_StaysListed(c) ==
    /\ c \in subscribers
    /\ chan' = [chan EXCEPT ![c] = "closed"]
    /\ UNCHANGED <<events, subscribers, buffer, snapshot, next, dropped>>

(* The function returned with a channel: unlist it and close it, once.      *)
Unsubscribe(c) ==
    /\ c \in subscribers
    /\ subscribers' = subscribers \ {c}
    /\ chan' = [chan EXCEPT ![c] = "closed"]
    /\ UNCHANGED <<events, buffer, snapshot, next, dropped>>

(* The consumer takes the rest of the history first, then the channel.      *)
TakeSnapshot(c) ==
    /\ snapshot[c] # <<>>
    /\ next' = [next EXCEPT ![c] = Head(snapshot[c]).offset + 1]
    /\ snapshot' = [snapshot EXCEPT ![c] = Tail(@)]
    /\ UNCHANGED <<events, subscribers, chan, buffer, dropped>>

TakeLive(c) ==
    /\ snapshot[c] = <<>> /\ buffer[c] # <<>>
    /\ next' = [next EXCEPT ![c] = Head(buffer[c]).offset + 1]
    /\ buffer' = [buffer EXCEPT ![c] = Tail(@)]
    /\ UNCHANGED <<events, subscribers, chan, snapshot, dropped>>

Next ==
    \/ AppendEvent
    \/ \E c \in Chans :
          \/ \E o \in 0..MaxEvents : ReadFromOffsetAndSubscribe(o, c)
          \/ Subscribe(c) \/ Unsubscribe(c) \/ TakeSnapshot(c) \/ TakeLive(c)

Spec == Init /\ [][Next]_sinkVars

-----------------------------------------------------------------------------
(* The types of the state; an event is stored under its own offset, and no  *)
(* channel holds more than its capacity.                                    *)
SinkTypeOK ==
    /\ events \in Seq(Event) /\ Len(events) <= MaxEvents
    /\ \A i \in DOMAIN events : events[i].offset = i - 1 /\ events[i].seq = i - 1
    /\ subscribers \subseteq Chans
    /\ chan \in [Chans -> {"none", "open", "closed"}]
    /\ buffer \in [Chans -> Seq(Event)]
    /\ snapshot \in [Chans -> Seq(Event)]
    /\ \A c \in Chans : Len(buffer[c]) <= BufferSize
    /\ next \in [Chans -> 0..MaxEvents]
    /\ dropped \subseteq Chans

(* Append never sends on a closed channel, which would panic with the mutex *)
(* held, and every open channel is fed: a channel is listed exactly while   *)
(* it is open.                                                              *)
ListedIffOpen == \A c \in Chans : c \in subscribers <=> chan[c] = "open"

Pending(c) == snapshot[c] \o buffer[c]

(* What a consumer still has to take comes in the order of the log and      *)
(* after everything it has taken: no event twice, none out of order, at the *)
(* seam between history and live events or after a loss either.             *)
PendingInOrder ==
    \A c \in Chans : \A i \in DOMAIN Pending(c) :
        /\ Pending(c)[i] = events[Pending(c)[i].offset + 1]
        /\ Pending(c)[i].offset >= next[c]
        /\ \A j \in 1..(i - 1) : Pending(c)[j].offset < Pending(c)[i].offset

(* An open subscription that never found its channel full owes its consumer *)
(* exactly the rest of the log.                                             *)
LosslessUntilFull ==
    \A c \in Chans : chan[c] = "open" /\ c \notin dropped =>
        Pending(c) = History(next[c])
=============================================================================
