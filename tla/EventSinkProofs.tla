--------------------------- MODULE EventSinkProofs ---------------------------
(***************************************************************************)
(* Theorems about EventSink, for any number of subscriptions and events    *)
(* and any capacity of the channels.                                       *)
(***************************************************************************)
EXTENDS EventSink, SequenceTheorems, TLAPS

(* A sequence of events out of a log, ascending and not before an offset.   *)
InOrder(p, from, evs) ==
    \A i \in 1..Len(p) :
        /\ from <= p[i].offset /\ p[i].offset < Len(evs)
        /\ p[i] = evs[p[i].offset + 1]
        /\ \A j \in 1..(i - 1) : p[j].offset < p[i].offset

(* All of the log from an offset on.                                        *)
IsRest(p, from, evs) ==
    /\ Len(p) = Len(evs) - from
    /\ \A i \in 1..Len(p) : p[i] = evs[from + i]

(* What every channel owes its consumer.                                    *)
Owed(c) ==
    /\ next[c] <= Len(events)
    /\ InOrder(Pending(c), next[c], events)
    /\ chan[c] = "none" => snapshot[c] = <<>> /\ buffer[c] = <<>>
    /\ chan[c] = "open" /\ c \notin dropped => IsRest(Pending(c), next[c], events)

SinkInv ==
    /\ SinkTypeOK
    /\ ListedIffOpen
    /\ \A c \in Chans : Owed(c)

-----------------------------------------------------------------------------
(* Appending to the log, and to the sequence or not.                        *)
LEMMA AfterAppend ==
    ASSUME NEW evs \in Seq(Event), NEW p \in Seq(Event), NEW from \in Nat,
           from <= Len(evs), InOrder(p, from, evs),
           NEW e \in Event, e.offset = Len(evs)
    PROVE  /\ InOrder(p, from, Append(evs, e))
           /\ InOrder(Append(p, e), from, Append(evs, e))
           /\ IsRest(p, from, evs) => IsRest(Append(p, e), from, Append(evs, e))
<1> DEFINE evs1 == Append(evs, e)
           p1 == Append(p, e)
<1>1. /\ Len(evs1) = Len(evs) + 1 /\ Len(evs) \in Nat
      /\ \A i \in 1..Len(evs) : evs1[i] = evs[i]
      /\ evs1[Len(evs) + 1] = e
  BY AppendProperties, LenProperties
<1>2. /\ Len(p1) = Len(p) + 1 /\ Len(p) \in Nat
      /\ \A i \in 1..Len(p) : p1[i] = p[i]
      /\ p1[Len(p) + 1] = e
  BY AppendProperties, LenProperties
<1>3. \A i \in 1..Len(p) : p[i].offset \in Nat
  <2>1. \A i \in 1..Len(p) : p[i] \in Event
    BY ElementOfSeq
  <2>2. Offsets \subseteq Int /\ \A x \in Event : x.offset \in Offsets
    BY EventSinkAssumption DEF Offsets, Event
  <2> QED
    BY <2>1, <2>2, EventSinkAssumption DEF Offsets
<1> HIDE DEF evs1, p1
<1>4. ASSUME NEW i \in 1..Len(p)
      PROVE  /\ from <= p[i].offset /\ p[i].offset < Len(evs)
             /\ p[i] = evs1[p[i].offset + 1]
             /\ \A j \in 1..(i - 1) : p[j].offset < p[i].offset
  <2>1. /\ from <= p[i].offset /\ p[i].offset < Len(evs)
        /\ p[i] = evs[p[i].offset + 1]
        /\ \A j \in 1..(i - 1) : p[j].offset < p[i].offset
    BY DEF InOrder
  <2>2. p[i].offset + 1 \in 1..Len(evs)
    BY <1>1, <1>3, <2>1
  <2> QED
    BY <1>1, <2>1, <2>2
<1>5. InOrder(p, from, evs1)
  <2>1. \A i \in 1..Len(p) : p[i].offset < Len(evs1)
    BY <1>1, <1>3, <1>4
  <2> QED
    BY <1>4, <2>1 DEF InOrder
<1>6. InOrder(p1, from, evs1)
  <2>1. ASSUME NEW i \in 1..Len(p1)
        PROVE  /\ from <= p1[i].offset /\ p1[i].offset < Len(evs1)
               /\ p1[i] = evs1[p1[i].offset + 1]
               /\ \A j \in 1..(i - 1) : p1[j].offset < p1[i].offset
    <3>1. CASE i = Len(p) + 1
      <4>1. \A j \in 1..(i - 1) : j \in 1..Len(p) /\ p1[j] = p[j]
        BY <1>2, <3>1
      <4> QED
        BY <1>1, <1>2, <1>4, <3>1, <4>1
    <3>2. CASE i \in 1..Len(p)
      <4>1. \A j \in 1..(i - 1) : j \in 1..Len(p) /\ p1[j] = p[j]
        BY <1>2, <3>2
      <4>2. p1[i] = p[i] /\ p[i].offset < Len(evs1)
        BY <1>1, <1>2, <1>3, <1>4, <3>2
      <4> QED
        BY <1>4, <3>2, <4>1, <4>2
    <3> QED
      BY <1>2, <2>1, <3>1, <3>2
  <2> QED
    BY <2>1 DEF InOrder
<1>7. ASSUME IsRest(p, from, evs) PROVE IsRest(p1, from, evs1)
  <2>1. ASSUME NEW i \in 1..Len(p1) PROVE p1[i] = evs1[from + i]
    <3>1. CASE i = Len(p) + 1
      <4>1. from + i = Len(evs) + 1
        BY <1>1, <1>2, <1>7, <3>1 DEF IsRest
      <4> QED
        BY <1>1, <1>2, <3>1, <4>1
    <3>2. CASE i \in 1..Len(p)
      <4>1. from + i \in 1..Len(evs)
        BY <1>1, <1>2, <1>7, <3>2 DEF IsRest
      <4> QED
        BY <1>1, <1>2, <1>7, <3>2, <4>1 DEF IsRest
    <3> QED
      BY <1>2, <2>1, <3>1, <3>2
  <2>2. Len(p1) = Len(evs1) - from
    BY <1>1, <1>2, <1>7 DEF IsRest
  <2> QED
    BY <2>1, <2>2 DEF IsRest
<1> QED
  BY <1>5, <1>6, <1>7 DEF evs1, p1

(* Taking the first event.                                                  *)
LEMMA AfterTake ==
    ASSUME NEW evs \in Seq(Event), NEW p \in Seq(Event), p # <<>>,
           NEW from \in Nat, InOrder(p, from, evs),
           \A i \in 1..Len(evs) : evs[i].offset = i - 1
    PROVE  /\ Head(p).offset + 1 <= Len(evs)
           /\ InOrder(Tail(p), Head(p).offset + 1, evs)
           /\ IsRest(p, from, evs) => IsRest(Tail(p), Head(p).offset + 1, evs)
<1> DEFINE q == Tail(p)
<1>1. /\ Len(p) \in Nat /\ Len(p) >= 1 /\ Head(p) = p[1] /\ Len(evs) \in Nat
      /\ Len(q) = Len(p) - 1
      /\ \A i \in 1..Len(q) : q[i] = p[i + 1]
  BY HeadTailProperties, LenProperties, EmptySeq
<1>2. \A i \in 1..Len(p) : p[i].offset \in Nat
  <2>1. \A i \in 1..Len(p) : p[i] \in Event
    BY ElementOfSeq
  <2>2. \A x \in Event : x.offset \in Nat
    BY EventSinkAssumption DEF Offsets, Event
  <2> QED
    BY <2>1, <2>2
<1> HIDE DEF q
<1>3. Head(p).offset + 1 <= Len(evs)
  BY <1>1, <1>2 DEF InOrder
<1>4. InOrder(q, Head(p).offset + 1, evs)
  <2> SUFFICES ASSUME NEW i \in 1..Len(q)
               PROVE  /\ Head(p).offset + 1 <= q[i].offset
                      /\ q[i].offset < Len(evs)
                      /\ q[i] = evs[q[i].offset + 1]
                      /\ \A j \in 1..(i - 1) : q[j].offset < q[i].offset
    BY DEF InOrder
  <2>1. i + 1 \in 1..Len(p) /\ q[i] = p[i + 1] /\ 1 \in 1..((i + 1) - 1)
    BY <1>1
  <2>2. /\ p[i + 1].offset < Len(evs)
        /\ p[i + 1] = evs[p[i + 1].offset + 1]
        /\ \A j \in 1..((i + 1) - 1) : p[j].offset < p[i + 1].offset
    BY <2>1 DEF InOrder
  <2>3. Head(p).offset + 1 <= q[i].offset
    BY <1>1, <1>2, <2>1, <2>2
  <2>4. \A j \in 1..(i - 1) : q[j] = p[j + 1] /\ j + 1 \in 1..((i + 1) - 1)
    BY <1>1
  <2> QED
    BY <2>1, <2>2, <2>3, <2>4
<1>5. ASSUME IsRest(p, from, evs) PROVE IsRest(q, Head(p).offset + 1, evs)
  <2>0. 1 \in 1..Len(p) /\ from + 1 \in 1..Len(evs) /\ p[1] = evs[from + 1]
    BY <1>1, <1>5, SMTT(30) DEF IsRest
  <2>1. Head(p).offset = from
    <3>1. evs[from + 1].offset = (from + 1) - 1
      BY ONLY <2>0, \A i \in 1..Len(evs) : evs[i].offset = i - 1
    <3> QED
      BY ONLY <1>1, <2>0, <3>1, from \in Nat
  <2>2. \A i \in 1..Len(q) : /\ q[i] = p[i + 1] /\ i + 1 \in 1..Len(p)
                             /\ from + (i + 1) = from + 1 + i
    BY <1>1
  <2>3. Len(q) = Len(evs) - (from + 1)
    BY <1>1, <1>5 DEF IsRest
  <2>4. \A i \in 1..Len(p) : p[i] = evs[from + i]
    BY <1>5 DEF IsRest
  <2>5. \A i \in 1..Len(q) : q[i] = evs[(from + 1) + i]
    BY ONLY <2>2, <2>4
  <2> QED
    BY ONLY <2>1, <2>3, <2>5 DEF IsRest
<1> QED
  BY <1>3, <1>4, <1>5 DEF q

(* A history is the rest of the log, and in order.                          *)
LEMMA HistoryIsRest ==
    ASSUME SinkTypeOK, NEW o \in Nat, NEW from,
           from = IF o < Len(events) THEN o ELSE Len(events)
    PROVE  /\ History(o) \in Seq(Event)
           /\ IsRest(History(o), from, events)
           /\ InOrder(History(o), from, events)
<1> DEFINE n == Len(events)
           p == History(o)
<1>1. events \in Seq(Event) /\ n \in Nat
  BY LenProperties DEF SinkTypeOK
<1>2. \A i \in (o + 1)..n : events[i] \in Event
  BY <1>1, ElementOfSeq
<1>3. /\ p \in Seq(Event)
      /\ Len(p) = IF o + 1 <= n THEN n - (o + 1) + 1 ELSE 0
      /\ \A i \in 1..(n - (o + 1) + 1) : p[i] = events[o + 1 + i - 1]
  BY <1>1, <1>2, SubSeqProperties, o + 1 \in Int, n \in Int DEF History
<1>4. \A i \in 1..n : events[i].offset = i - 1
  BY <1>1 DEF SinkTypeOK
<1> HIDE DEF p
<1>5. ASSUME o >= n
      PROVE  IsRest(p, from, events) /\ InOrder(p, from, events)
  <2>1. Len(p) = 0 /\ from = n
    BY <1>1, <1>3, <1>5
  <2> QED
    BY <1>1, <2>1 DEF IsRest, InOrder
<1>6. ASSUME o < n
      PROVE  IsRest(p, from, events) /\ InOrder(p, from, events)
  <2>1. /\ from = o /\ Len(p) = n - o
        /\ \A i \in 1..Len(p) : p[i] = events[o + i]
    <3>1. n - (o + 1) + 1 = n - o /\ o + 1 <= n /\ n - o \in Nat
      BY <1>1, <1>6
    <3>2. \A i \in 1..(n - o) : p[i] = events[o + 1 + i - 1]
      BY <1>3, <3>1
    <3>3. \A i \in Int : o + 1 + i - 1 = o + i
      OBVIOUS
    <3>4. Len(p) = n - o /\ from = o
      BY <1>1, <1>3, <1>6, <3>1
    <3> QED
      BY <3>2, <3>3, <3>4
  <2>2. IsRest(p, from, events)
    BY <2>1 DEF IsRest
  <2>3. \A i \in 1..Len(p) : p[i].offset = o + i - 1
    <3>1. \A i \in 1..Len(p) : o + i \in 1..n
      BY <1>1, <2>1
    <3> QED
      BY <1>4, <2>1, <3>1
  <2> HIDE DEF n
  <2>4. InOrder(p, o, events)
    <3> SUFFICES ASSUME NEW i \in 1..Len(p)
                 PROVE  /\ o <= p[i].offset /\ p[i].offset < Len(events)
                        /\ p[i] = events[p[i].offset + 1]
                        /\ \A j \in 1..(i - 1) : p[j].offset < p[i].offset
      BY DEF InOrder
    <3>1. p[i].offset = o + i - 1 /\ p[i] = events[o + i]
      BY <2>1, <2>3
    <3>2. Len(p) \in Nat /\ i \in Nat /\ i <= Len(p) /\ Len(p) = Len(events) - o
      BY <1>1, <2>1 DEF n
    <3>3. \A j \in 1..(i - 1) : p[j].offset = o + j - 1
      BY <2>3, <3>2
    <3> QED
      BY <1>1, <3>1, <3>2, <3>3 DEF n
  <2> QED
    BY <2>1, <2>2, <2>4
<1> QED
  BY <1>1, <1>3, <1>5, <1>6 DEF p
(* The two parts of what is pending, when one of them grows or shrinks.     *)
LEMMA PendingAppend ==
    ASSUME NEW s \in Seq(Event), NEW b \in Seq(Event), NEW e \in Event
    PROVE  s \o Append(b, e) = Append(s \o b, e)
<1>1. <<e>> \in Seq(Event) /\ s \o b \in Seq(Event)
  BY ConcatProperties
<1>2. Append(b, e) = b \o <<e>> /\ Append(s \o b, e) = (s \o b) \o <<e>>
  BY <1>1, AppendIsConcat
<1>3. (s \o b) \o <<e>> = s \o (b \o <<e>>)
  BY <1>1, ConcatAssociative
<1> QED
  BY <1>2, <1>3

LEMMA PendingTail ==
    ASSUME NEW s \in Seq(Event), NEW b \in Seq(Event), s # <<>>
    PROVE  /\ s \o b # <<>>
           /\ Head(s \o b) = Head(s)
           /\ Tail(s \o b) = Tail(s) \o b
<1>1. /\ s \o b \in Seq(Event) /\ Len(s \o b) = Len(s) + Len(b)
      /\ \A i \in 1..(Len(s) + Len(b)) :
            (s \o b)[i] = IF i <= Len(s) THEN s[i] ELSE b[i - Len(s)]
      /\ Len(s) \in Nat /\ Len(b) \in Nat /\ Len(s) >= 1
  BY ConcatProperties, LenProperties, EmptySeq
<1>2. s \o b # <<>>
  <2>1. Len(<<>>) = 0 /\ Len(s \o b) >= 1
    BY <1>1, EmptySeq
  <2> QED
    BY <2>1
<1>3. /\ Tail(s) \in Seq(Event) /\ Len(Tail(s)) = Len(s) - 1
      /\ \A i \in 1..Len(Tail(s)) : Tail(s)[i] = s[i + 1]
  BY HeadTailProperties
<1>4. /\ Tail(s \o b) \in Seq(Event) /\ Len(Tail(s \o b)) = Len(s \o b) - 1
      /\ \A i \in 1..Len(Tail(s \o b)) : Tail(s \o b)[i] = (s \o b)[i + 1]
  BY <1>1, <1>2, HeadTailProperties
<1>5. /\ Tail(s) \o b \in Seq(Event)
      /\ Len(Tail(s) \o b) = Len(Tail(s)) + Len(b)
      /\ \A i \in 1..(Len(Tail(s)) + Len(b)) :
            (Tail(s) \o b)[i] = IF i <= Len(Tail(s)) THEN Tail(s)[i]
                                                    ELSE b[i - Len(Tail(s))]
  BY <1>3, ConcatProperties
<1>6. \A i \in 1..Len(Tail(s \o b)) : Tail(s \o b)[i] = (Tail(s) \o b)[i]
  <2> SUFFICES ASSUME NEW i \in 1..Len(Tail(s \o b))
               PROVE  Tail(s \o b)[i] = (Tail(s) \o b)[i]
    OBVIOUS
  <2>1. i \in 1..(Len(Tail(s)) + Len(b)) /\ i + 1 \in 1..(Len(s) + Len(b))
    BY <1>1, <1>3, <1>4
  <2>2. CASE i <= Len(Tail(s))
    BY <1>1, <1>3, <1>4, <1>5, <2>1, <2>2
  <2>3. CASE i > Len(Tail(s))
    <3>1. i - Len(Tail(s)) = i + 1 - Len(s) /\ ~(i + 1 <= Len(s))
      BY <1>1, <1>3, <2>1, <2>3
    <3> QED
      BY <1>1, <1>3, <1>4, <1>5, <2>1, <2>3, <3>1
  <2> QED
    BY <1>3, <2>1, <2>2, <2>3
<1>7. Tail(s \o b) = Tail(s) \o b
  <2>1. Len(Tail(s \o b)) = Len(Tail(s) \o b)
    BY <1>1, <1>3, <1>4, <1>5
  <2> QED
    BY <1>4, <1>5, <1>6, <2>1, SeqEqual
<1>8. Head(s \o b) = Head(s)
  BY <1>1, <1>2
<1> QED
  BY <1>2, <1>7, <1>8

(* A channel that a step does not touch.                                    *)
LEMMA OwedStays ==
    ASSUME NEW c \in Chans, Owed(c),
           events' = events, chan'[c] = chan[c] \/ chan'[c] = "closed",
           buffer'[c] = buffer[c], snapshot'[c] = snapshot[c],
           next'[c] = next[c], dropped' = dropped
    PROVE  Owed(c)'
<1>1. Pending(c)' = Pending(c)
  BY DEF Pending
<1> QED
  BY <1>1 DEF Owed
(* Append: an event under the next offset, for every channel with room.     *)
LEMMA AppendKeeps ==
    ASSUME SinkInv, AppendEvent
    PROVE  SinkInv'
<1> DEFINE n == Len(events)
           e == [seq |-> n, offset |-> n]
<1>a. SinkTypeOK /\ ListedIffOpen /\ \A c \in Chans : Owed(c)
  BY DEF SinkInv
<1>b. /\ events \in Seq(Event) /\ n \in Nat /\ n < MaxEvents
      /\ e \in Event /\ e.offset = n /\ e.seq = n
  BY <1>a, EventSinkAssumption, LenProperties
     DEF AppendEvent, SinkTypeOK, Event, Offsets
<1>c. /\ events' = Append(events, e)
      /\ buffer' = [c \in Chans |->
                       IF c \in subscribers /\ Len(buffer[c]) < BufferSize
                       THEN Append(buffer[c], e) ELSE buffer[c]]
      /\ dropped' = dropped \cup
                       {c \in subscribers : Len(buffer[c]) >= BufferSize}
      /\ UNCHANGED <<subscribers, chan, snapshot, next>>
  BY DEF AppendEvent
<1>d. /\ Append(events, e) \in Seq(Event) /\ Len(Append(events, e)) = n + 1
      /\ \A i \in 1..n : Append(events, e)[i] = events[i]
      /\ Append(events, e)[n + 1] = e
      /\ DOMAIN Append(events, e) = 1..(n + 1) /\ DOMAIN events = 1..n
  BY <1>b, AppendProperties, LenProperties
<1>e. \A c \in Chans : /\ buffer[c] \in Seq(Event) /\ Len(buffer[c]) \in Nat
                       /\ snapshot[c] \in Seq(Event)
                       /\ Append(buffer[c], e) \in Seq(Event)
                       /\ Len(Append(buffer[c], e)) = Len(buffer[c]) + 1
  <2>1. \A c \in Chans : buffer[c] \in Seq(Event) /\ snapshot[c] \in Seq(Event)
    BY <1>a DEF SinkTypeOK
  <2> HIDE DEF e
  <2>2. \A s \in Seq(Event) : /\ Append(s, e) \in Seq(Event)
                               /\ Len(Append(s, e)) = Len(s) + 1
    BY ONLY <1>b, AppendProperties
  <2> QED
    BY ONLY <2>1, <2>2, LenProperties
<1> HIDE DEF e
<1>1. SinkTypeOK'
  <2>1. events' \in Seq(Event) /\ Len(events') <= MaxEvents
    BY <1>b, <1>c, <1>d, EventSinkAssumption
  <2>2. \A i \in DOMAIN events' : events'[i].offset = i - 1 /\ events'[i].seq = i - 1
    <3>1. \A i \in 1..n : events[i].offset = i - 1 /\ events[i].seq = i - 1
      BY <1>a, <1>d DEF SinkTypeOK
    <3> HIDE DEF n
    <3>2. \A i \in 1..(n + 1) : i \in 1..n \/ i = n + 1
      BY <1>b
    <3>3. (n + 1) - 1 = n
      BY <1>b
    <3> QED
      BY <1>b, <1>c, <1>d, <3>1, <3>2, <3>3
  <2>3. buffer' \in [Chans -> Seq(Event)]
    BY <1>c, <1>e
  <2>4. \A c \in Chans : Len(buffer'[c]) <= BufferSize
    <3> SUFFICES ASSUME NEW c \in Chans PROVE Len(buffer'[c]) <= BufferSize
      OBVIOUS
    <3>1. CASE c \in subscribers /\ Len(buffer[c]) < BufferSize
      BY <1>c, <1>e, <3>1, EventSinkAssumption
    <3>2. CASE ~(c \in subscribers /\ Len(buffer[c]) < BufferSize)
      BY <1>a, <1>c, <3>2 DEF SinkTypeOK
    <3> QED
      BY <3>1, <3>2
  <2>5. dropped' \subseteq Chans
    BY <1>a, <1>c DEF SinkTypeOK
  <2> QED
    BY <1>a, <1>c, <2>1, <2>2, <2>3, <2>4, <2>5 DEF SinkTypeOK
<1>2. ListedIffOpen'
  BY <1>a, <1>c DEF ListedIffOpen
<1>3. ASSUME NEW c \in Chans PROVE Owed(c)'
  <2>1. /\ Pending(c) \in Seq(Event) /\ next[c] \in Nat /\ next[c] <= n
        /\ InOrder(Pending(c), next[c], events)
    BY <1>a, <1>e, ConcatProperties, SMTT(30) DEF Owed, Pending, SinkTypeOK
  <2>2. /\ InOrder(Pending(c), next[c], Append(events, e))
        /\ InOrder(Append(Pending(c), e), next[c], Append(events, e))
        /\ IsRest(Pending(c), next[c], events) =>
              IsRest(Append(Pending(c), e), next[c], Append(events, e))
    BY <1>b, <2>1, AfterAppend
  <2>3. next'[c] <= Len(events')
    BY <1>b, <1>c, <1>d, <2>1
  <2>4. CASE c \in subscribers /\ Len(buffer[c]) < BufferSize
    <3>1. buffer'[c] = Append(buffer[c], e) /\ snapshot'[c] = snapshot[c]
      BY <1>c, <2>4
    <3>2. Pending(c)' = Append(Pending(c), e)
      <4>1. snapshot[c] \o Append(buffer[c], e) = Append(snapshot[c] \o buffer[c], e)
        BY ONLY <1>b, <1>e, c \in Chans, PendingAppend
      <4> QED
        BY ONLY <3>1, <4>1 DEF Pending
    <3>3. chan'[c] = "open" /\ (c \notin dropped' => c \notin dropped)
      BY <1>a, <1>c, <2>4 DEF ListedIffOpen
    <3>4. c \notin dropped' => IsRest(Pending(c), next[c], events)
      BY <1>a, <1>c, <3>3 DEF Owed
    <3> QED
      BY <1>c, <2>2, <2>3, <3>2, <3>3, <3>4 DEF Owed
  <2>5. CASE ~(c \in subscribers /\ Len(buffer[c]) < BufferSize)
    <3>1. buffer'[c] = buffer[c] /\ snapshot'[c] = snapshot[c] /\ chan'[c] = chan[c]
      BY <1>c, <2>5
    <3>2. Pending(c)' = Pending(c)
      BY <3>1 DEF Pending
    <3>3. chan[c] = "open" => c \in dropped'
      BY <1>a, <1>c, <1>e, <2>5, EventSinkAssumption DEF ListedIffOpen
    <3> QED
      BY <1>a, <1>c, <2>2, <2>3, <3>1, <3>2, <3>3 DEF Owed
  <2> QED
    BY <2>4, <2>5
<1> QED
  BY <1>1, <1>2, <1>3 DEF SinkInv

(* A new channel, with the history that it starts from.                     *)
LEMMA OpenKeeps ==
    ASSUME SinkInv, NEW k \in Chans, NEW h \in Seq(Event), NEW from \in 0..MaxEvents,
           from <= Len(events), chan[k] = "none",
           IsRest(h, from, events), InOrder(h, from, events),
           snapshot' = [snapshot EXCEPT ![k] = h],
           subscribers' = subscribers \cup {k},
           chan' = [chan EXCEPT ![k] = "open"],
           next' = [next EXCEPT ![k] = from],
           UNCHANGED <<events, buffer, dropped>>
    PROVE  SinkInv'
<1>a. SinkTypeOK /\ ListedIffOpen /\ \A c \in Chans : Owed(c)
  BY DEF SinkInv
<1>1. SinkTypeOK'
  BY <1>a DEF SinkTypeOK
<1>2. ListedIffOpen'
  BY <1>a DEF ListedIffOpen, SinkTypeOK
<1>3. ASSUME NEW c \in Chans, c # k PROVE Owed(c)'
  BY <1>a, <1>3, OwedStays DEF SinkTypeOK
<1>4. Owed(k)'
  <2>1. buffer[k] = <<>> /\ snapshot'[k] = h
    BY <1>a DEF Owed, SinkTypeOK
  <2>2. Pending(k)' = h
    BY <2>1, ConcatEmptySeq DEF Pending
  <2>3. next'[k] = from /\ chan'[k] = "open"
    BY <1>a DEF SinkTypeOK
  <2> QED
    BY <2>2, <2>3 DEF Owed
<1> QED
  BY <1>1, <1>2, <1>3, <1>4 DEF SinkInv

LEMMA UnsubscribeKeeps ==
    ASSUME SinkInv, NEW k \in Chans, Unsubscribe(k)
    PROVE  SinkInv'
<1>a. SinkTypeOK /\ ListedIffOpen /\ \A c \in Chans : Owed(c)
  BY DEF SinkInv
<1>1. SinkTypeOK' /\ ListedIffOpen'
  BY <1>a DEF Unsubscribe, SinkTypeOK, ListedIffOpen
<1>2. ASSUME NEW c \in Chans PROVE Owed(c)'
  BY <1>a, <1>2, OwedStays DEF Unsubscribe, SinkTypeOK
<1> QED
  BY <1>1, <1>2 DEF SinkInv

(* The consumer takes the first event that is pending for it.               *)
LEMMA TakeKeeps ==
    ASSUME SinkInv, NEW k \in Chans, Pending(k) # <<>>,
           Pending(k)' = Tail(Pending(k)),
           next' = [next EXCEPT ![k] = Head(Pending(k)).offset + 1],
           \/ snapshot' = [snapshot EXCEPT ![k] = Tail(@)] /\ snapshot[k] # <<>>
                 /\ buffer' = buffer
           \/ buffer' = [buffer EXCEPT ![k] = Tail(@)] /\ buffer[k] # <<>>
                 /\ snapshot' = snapshot,
           UNCHANGED <<events, subscribers, chan, dropped>>
    PROVE  SinkInv'
<1>a. SinkTypeOK /\ ListedIffOpen /\ \A c \in Chans : Owed(c)
  BY DEF SinkInv
<1>b. /\ Pending(k) \in Seq(Event) /\ next[k] \in Nat
      /\ InOrder(Pending(k), next[k], events)
      /\ events \in Seq(Event) /\ Len(events) \in Nat /\ Len(events) <= MaxEvents
      /\ \A i \in 1..Len(events) : events[i].offset = i - 1
  BY <1>a, ConcatProperties, LenProperties DEF Owed, Pending, SinkTypeOK
<1>1. /\ Head(Pending(k)).offset + 1 <= Len(events)
      /\ InOrder(Tail(Pending(k)), Head(Pending(k)).offset + 1, events)
      /\ IsRest(Pending(k), next[k], events) =>
            IsRest(Tail(Pending(k)), Head(Pending(k)).offset + 1, events)
  BY <1>b, AfterTake
<1>2. Head(Pending(k)).offset + 1 \in 0..MaxEvents
  <2>1. Head(Pending(k)) \in Event
    BY <1>b, HeadTailProperties
  <2>2. Head(Pending(k)).offset \in Nat
    BY <2>1, EventSinkAssumption DEF Event, Offsets
  <2> QED
    BY <1>b, <1>1, <2>2, EventSinkAssumption
<1>3. SinkTypeOK'
  <2>1. ASSUME NEW q \in Seq(Event), q # <<>>
        PROVE  /\ Tail(q) \in Seq(Event)
               /\ Len(q) <= BufferSize => Len(Tail(q)) <= BufferSize
    BY <2>1, HeadTailProperties, LenProperties, EventSinkAssumption
  <2>2. /\ buffer' \in [Chans -> Seq(Event)] /\ snapshot' \in [Chans -> Seq(Event)]
        /\ \A c \in Chans : Len(buffer'[c]) <= BufferSize
    <3>1. /\ buffer \in [Chans -> Seq(Event)] /\ snapshot \in [Chans -> Seq(Event)]
          /\ \A c \in Chans : Len(buffer[c]) <= BufferSize
      BY <1>a DEF SinkTypeOK
    <3>2. CASE snapshot' = [snapshot EXCEPT ![k] = Tail(@)] /\ snapshot[k] # <<>>
                 /\ buffer' = buffer
      BY <2>1, <3>1, <3>2
    <3>3. CASE buffer' = [buffer EXCEPT ![k] = Tail(@)] /\ buffer[k] # <<>>
                 /\ snapshot' = snapshot
      <4>1. Tail(buffer[k]) \in Seq(Event) /\ Len(Tail(buffer[k])) <= BufferSize
        BY <2>1, <3>1, <3>3
      <4> QED
        BY <3>1, <3>3, <4>1
    <3> QED
      BY <3>2, <3>3
  <2> QED
    BY <1>a, <1>2, <2>2 DEF SinkTypeOK
<1>4. ListedIffOpen'
  BY <1>a DEF ListedIffOpen
<1>5. ASSUME NEW c \in Chans, c # k PROVE Owed(c)'
  BY <1>a, <1>5, OwedStays DEF SinkTypeOK
<1>6. Owed(k)'
  <2>1. next'[k] = Head(Pending(k)).offset + 1
    BY <1>a DEF SinkTypeOK
  <2>2. chan[k] # "none"
    BY <1>a, EmptySeq, ConcatEmptySeq DEF Owed, Pending
  <2> QED
    BY <1>a, <1>1, <2>1, <2>2 DEF Owed
<1> QED
  BY <1>3, <1>4, <1>5, <1>6 DEF SinkInv
-----------------------------------------------------------------------------
LEMMA InitSinkInv == Init => SinkInv
<1> SUFFICES ASSUME Init PROVE SinkInv
  OBVIOUS
<1>0. /\ <<>> \in Seq(Event) /\ Len(<<>>) = 0 /\ 0 \in 0..MaxEvents
      /\ DOMAIN <<>> = {} /\ <<>> \o <<>> = <<>>
  BY EventSinkAssumption, EmptySeq, ConcatEmptySeq
<1>1. SinkTypeOK /\ ListedIffOpen
  BY <1>0, EventSinkAssumption DEF Init, SinkTypeOK, ListedIffOpen
<1>2. ASSUME NEW c \in Chans PROVE Owed(c)
  BY <1>0, <1>2 DEF Init, Owed, Pending, InOrder, IsRest
<1> QED
  BY <1>1, <1>2 DEF SinkInv

(* SinkInv is inductive.                                                    *)
LEMMA SinkInvNext == SinkInv /\ [Next]_sinkVars => SinkInv'
<1> SUFFICES ASSUME SinkInv, [Next]_sinkVars PROVE SinkInv'
  OBVIOUS
<1>a. SinkTypeOK /\ \A c \in Chans : Owed(c)
  BY DEF SinkInv
<1>b. events \in Seq(Event) /\ Len(events) \in Nat /\ Len(events) <= MaxEvents
  BY <1>a, LenProperties DEF SinkTypeOK
<1>1. CASE AppendEvent
  BY <1>1, AppendKeeps
<1>2. ASSUME NEW c \in Chans, NEW o \in 0..MaxEvents, ReadFromOffsetAndSubscribe(o, c)
      PROVE  SinkInv'
  <2>1. PICK from \in 0..MaxEvents :
            from = IF o < Len(events) THEN o ELSE Len(events)
    BY <1>b
  <2>2. /\ History(o) \in Seq(Event) /\ o \in Nat
        /\ IsRest(History(o), from, events) /\ InOrder(History(o), from, events)
    BY <1>a, <2>1, HistoryIsRest
  <2>3. from <= Len(events)
    BY <1>b, <2>1
  <2> QED
    BY <1>2, <2>1, <2>2, <2>3, OpenKeeps DEF ReadFromOffsetAndSubscribe
<1>3. ASSUME NEW c \in Chans, Subscribe(c) PROVE SinkInv'
  <2>1. /\ <<>> \in Seq(Event) /\ Len(events) \in 0..MaxEvents
        /\ IsRest(<<>>, Len(events), events) /\ InOrder(<<>>, Len(events), events)
    BY <1>b, EmptySeq DEF IsRest, InOrder
  <2>2. snapshot' = [snapshot EXCEPT ![c] = <<>>]
    BY <1>3, <1>a DEF Subscribe, Owed, SinkTypeOK
  <2>3. PICK from \in 0..MaxEvents : from = Len(events)
    BY <2>1
  <2>4. /\ chan[c] = "none" /\ from <= Len(events)
        /\ subscribers' = subscribers \cup {c}
        /\ chan' = [chan EXCEPT ![c] = "open"]
        /\ next' = [next EXCEPT ![c] = from]
        /\ UNCHANGED <<events, buffer, dropped>>
    BY <1>3, <1>b, <2>3 DEF Subscribe
  <2>5. IsRest(<<>>, from, events) /\ InOrder(<<>>, from, events)
    BY <2>1, <2>3
  <2> QED
    BY <2>1, <2>2, <2>4, <2>5, OpenKeeps
<1>4. ASSUME NEW c \in Chans, Unsubscribe(c) PROVE SinkInv'
  BY <1>4, UnsubscribeKeeps
<1>5. ASSUME NEW c \in Chans, TakeSnapshot(c) PROVE SinkInv'
  <2>1. /\ snapshot[c] \in Seq(Event) /\ buffer[c] \in Seq(Event)
        /\ snapshot[c] # <<>> /\ snapshot' = [snapshot EXCEPT ![c] = Tail(@)]
        /\ snapshot'[c] = Tail(snapshot[c]) /\ buffer' = buffer
        /\ next' = [next EXCEPT ![c] = Head(snapshot[c]).offset + 1]
        /\ UNCHANGED <<events, subscribers, chan, dropped>>
    BY <1>5, <1>a, SMTT(30) DEF TakeSnapshot, SinkTypeOK
  <2>2. /\ Pending(c) # <<>> /\ Head(Pending(c)) = Head(snapshot[c])
        /\ Pending(c)' = Tail(Pending(c))
    <3>1. /\ snapshot[c] \o buffer[c] # <<>>
          /\ Head(snapshot[c] \o buffer[c]) = Head(snapshot[c])
          /\ Tail(snapshot[c] \o buffer[c]) = Tail(snapshot[c]) \o buffer[c]
      BY ONLY <2>1, PendingTail
    <3> QED
      BY ONLY <2>1, <3>1 DEF Pending
  <2> QED
    BY <2>1, <2>2, TakeKeeps
<1>6. ASSUME NEW c \in Chans, TakeLive(c) PROVE SinkInv'
  <2>1. /\ buffer[c] \in Seq(Event) /\ snapshot[c] = <<>> /\ buffer[c] # <<>>
        /\ buffer' = [buffer EXCEPT ![c] = Tail(@)] /\ snapshot' = snapshot
        /\ buffer'[c] = Tail(buffer[c])
        /\ next' = [next EXCEPT ![c] = Head(buffer[c]).offset + 1]
        /\ UNCHANGED <<events, subscribers, chan, dropped>>
    BY <1>6, <1>a DEF TakeLive, SinkTypeOK
  <2>2. Tail(buffer[c]) \in Seq(Event)
    BY <2>1, HeadTailProperties
  <2>3. Pending(c) = buffer[c] /\ Pending(c)' = Tail(buffer[c])
    BY <2>1, <2>2, ConcatEmptySeq DEF Pending
  <2> QED
    BY <2>1, <2>3, TakeKeeps
<1>7. CASE UNCHANGED sinkVars
  BY <1>7 DEF sinkVars, SinkInv, SinkTypeOK, ListedIffOpen, Owed, Pending
<1> QED
  BY <1>1, <1>2, <1>3, <1>4, <1>5, <1>6, <1>7 DEF Next

THEOREM SinkInductive == Spec => []SinkInv
BY InitSinkInv, SinkInvNext, PTL DEF Spec

(* Append never sends on a closed channel and feeds every open one.         *)
THEOREM NoSendOnClosed == Spec => []ListedIffOpen
<1>1. SinkInv => ListedIffOpen
  BY DEF SinkInv
<1> QED
  BY <1>1, SinkInductive, PTL

(* What is pending is in order.                                             *)
LEMMA PendingFromInv == SinkInv => PendingInOrder
<1> SUFFICES ASSUME SinkInv, NEW c \in Chans PROVE
        \A i \in DOMAIN Pending(c) :
            /\ Pending(c)[i] = events[Pending(c)[i].offset + 1]
            /\ Pending(c)[i].offset >= next[c]
            /\ \A j \in 1..(i - 1) : Pending(c)[j].offset < Pending(c)[i].offset
  BY DEF PendingInOrder
<1>1. Pending(c) \in Seq(Event) /\ InOrder(Pending(c), next[c], events)
  BY ConcatProperties DEF SinkInv, SinkTypeOK, Owed, Pending
<1>2. DOMAIN Pending(c) = 1..Len(Pending(c))
  BY <1>1, LenProperties
<1>3. next[c] \in Nat /\ \A i \in 1..Len(Pending(c)) : Pending(c)[i].offset \in Nat
  <2>1. \A i \in 1..Len(Pending(c)) : Pending(c)[i] \in Event
    BY <1>1, ElementOfSeq
  <2> QED
    BY <2>1, EventSinkAssumption DEF SinkInv, SinkTypeOK, Event, Offsets
<1> QED
  BY <1>1, <1>2, <1>3 DEF InOrder

(* What is pending for a consumer is in the order of the log, and new.      *)
THEOREM DeliveredInOrder == Spec => []PendingInOrder
BY PendingFromInv, SinkInductive, PTL

(* What is pending is the rest of the log.                                  *)
LEMMA LosslessFromInv == SinkInv => LosslessUntilFull
<1> SUFFICES ASSUME SinkInv, NEW c \in Chans, chan[c] = "open", c \notin dropped
             PROVE  Pending(c) = History(next[c])
  BY DEF LosslessUntilFull
<1>1. /\ SinkTypeOK /\ next[c] \in Nat /\ next[c] <= Len(events)
      /\ IsRest(Pending(c), next[c], events)
      /\ Pending(c) \in Seq(Event) /\ Len(events) \in Nat
  BY ConcatProperties, LenProperties DEF SinkInv, SinkTypeOK, Owed, Pending
<1>2. next[c] = IF next[c] < Len(events) THEN next[c] ELSE Len(events)
  BY <1>1
<1>3. /\ History(next[c]) \in Seq(Event)
      /\ IsRest(History(next[c]), next[c], events)
  BY <1>1, <1>2, HistoryIsRest
<1>4. /\ Len(Pending(c)) = Len(History(next[c]))
      /\ \A i \in 1..Len(Pending(c)) : Pending(c)[i] = History(next[c])[i]
  BY <1>1, <1>3 DEF IsRest
<1> QED
  BY <1>1, <1>3, <1>4, SeqEqual

(* A channel that was never full owes its consumer the rest of the log.     *)
THEOREM LosslessBelowCapacity == Spec => []LosslessUntilFull
BY LosslessFromInv, SinkInductive, PTL
=============================================================================
