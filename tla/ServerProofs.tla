---------------------------- MODULE ServerProofs ----------------------------
(***************************************************************************)
(* Theorems about Server, for any number of clients, connections and       *)
(* events and any capacity of the channels: what a client that resumes     *)
(* with Last-Event-ID has read, over all its connections, and what a       *)
(* shutdown leaves behind.                                                 *)
(***************************************************************************)
EXTENDS Server, EventSinkProofs

Handlers == {"idle", "history", "live", "done"}
Open(c) == hpc[c] \in {"history", "live"}

(* Types of the streams' state, and whose connection is whose.              *)
ConnInv ==
    /\ hpc \in [Chans -> Handlers]
    /\ wire \in [Chans -> Seq(Nat)]
    /\ gone \subseteq Chans
    /\ owner \in [Chans -> Clients \cup {None}]
    /\ conn \in [Clients -> Chans \cup {None}]
    /\ lastId \in [Clients -> Nat \cup {None}]
    /\ got \in [Clients -> Seq(Nat)]
    /\ \A c \in Chans :
          /\ chan[c] = "open" <=> Open(c)
          /\ chan[c] = "none" <=> hpc[c] = "idle"
          /\ hpc[c] = "idle" => owner[c] = None /\ wire[c] = <<>> /\ c \notin gone
    /\ \A k \in Clients : conn[k] # None =>
          /\ owner[conn[k]] = k /\ conn[k] \notin gone /\ Open(conn[k])

Ascending(s) == \A i, j \in 1..Len(s) : i < j => s[i] < s[j]

(* What is on a wire comes in order and before what is still to be written. *)
WireInv ==
    \A c \in Chans :
        /\ Ascending(wire[c])
        /\ \A i \in 1..Len(wire[c]) : wire[c][i] < next[c]

LastRead(k) ==
    /\ got[k] = <<>> => lastId[k] = None
    /\ got[k] # <<>> => lastId[k] = got[k][Len(got[k])]
    /\ lastId[k] # None => lastId[k] < Len(events)

(* What a resuming client has read is in order, and before what is on its   *)
(* wire or still to be written to it.                                       *)
InOrderInv(k) ==
    /\ Ascending(got[k])
    /\ conn[k] # None /\ lastId[k] # None =>
          /\ lastId[k] < next[conn[k]]
          /\ \A i \in 1..Len(wire[conn[k]]) : lastId[k] < wire[conn[k]][i]

(* Without a loss, what it has read and what is on its wire are the events  *)
(* from the first up to the next one to be written.                         *)
ExactInv(k) ==
    /\ \A i \in 1..Len(got[k]) : got[k][i] = i - 1
    /\ conn[k] # None =>
          LET c == conn[k] IN
          /\ Len(got[k]) + Len(wire[c]) = next[c]
          /\ \A i \in 1..Len(wire[c]) : wire[c][i] = Len(got[k]) + i - 1

ReadInv ==
    /\ \A k \in Clients : LastRead(k)
    /\ \A k \in Resuming : InOrderInv(k) /\ (~Lossy(k) => ExactInv(k))

StreamsInv == SinkInv /\ ConnInv /\ WireInv /\ ReadInv

-----------------------------------------------------------------------------
LEMMA Shift ==
    \A a, b, n \in Nat : a + b = n => a + (b + 1) = n + 1 /\ (a + 1) + (b - 1) = n
OBVIOUS

LEMMA AppendAscending ==
    ASSUME NEW s \in Seq(Nat), NEW n \in Nat, Ascending(s),
           \A i \in 1..Len(s) : s[i] < n
    PROVE  /\ Append(s, n) \in Seq(Nat) /\ Len(Append(s, n)) = Len(s) + 1
           /\ \A i \in 1..Len(s) : Append(s, n)[i] = s[i]
           /\ Append(s, n)[Len(s) + 1] = n
           /\ Ascending(Append(s, n))
           /\ \A i \in 1..Len(Append(s, n)) : Append(s, n)[i] < n + 1
<1> DEFINE t == Append(s, n)
<1>1. /\ t \in Seq(Nat) /\ Len(t) = Len(s) + 1 /\ Len(s) \in Nat
      /\ \A i \in 1..Len(s) : t[i] = s[i]
      /\ t[Len(s) + 1] = n
      /\ \A i \in 1..Len(s) : s[i] \in Nat
  BY AppendProperties, LenProperties, ElementOfSeq
<1> HIDE DEF t
<1>2. Ascending(t)
  <2> SUFFICES ASSUME NEW i \in 1..Len(t), NEW j \in 1..Len(t), i < j
               PROVE  t[i] < t[j]
    BY DEF Ascending
  <2>1. i \in 1..Len(s) /\ t[i] = s[i]
    BY <1>1
  <2>2. CASE j \in 1..Len(s)
    BY <1>1, <2>1, <2>2 DEF Ascending
  <2>3. CASE j = Len(s) + 1
    BY <1>1, <2>1, <2>3
  <2>4. j \in 1..(Len(s) + 1) /\ Len(s) \in Nat
    BY <1>1
  <2> QED
    BY <2>2, <2>3, <2>4
<1>3. \A i \in 1..Len(t) : t[i] < n + 1
  BY <1>1
<1> QED
  BY <1>1, <1>2, <1>3 DEF t

LEMMA TailAscending ==
    ASSUME NEW s \in Seq(Nat), s # <<>>, Ascending(s)
    PROVE  /\ Tail(s) \in Seq(Nat) /\ Head(s) \in Nat /\ Len(s) \in Nat \ {0}
           /\ Head(s) = s[1] /\ Len(Tail(s)) = Len(s) - 1
           /\ \A i \in 1..Len(Tail(s)) : Tail(s)[i] = s[i + 1] /\ Head(s) < s[i + 1]
           /\ Ascending(Tail(s))
<1> DEFINE t == Tail(s)
<1>1. /\ t \in Seq(Nat) /\ Head(s) = s[1] /\ Head(s) \in Nat
      /\ Len(s) \in Nat \ {0} /\ Len(t) = Len(s) - 1
      /\ \A i \in 1..Len(t) : t[i] = s[i + 1]
  BY HeadTailProperties, LenProperties, EmptySeq, SMTT(30)
<1> HIDE DEF t
<1>2. \A i \in 1..Len(t) : Head(s) < s[i + 1]
  BY <1>1 DEF Ascending
<1>3. Ascending(t)
  <2> SUFFICES ASSUME NEW i \in 1..Len(t), NEW j \in 1..Len(t), i < j
               PROVE  t[i] < t[j]
    BY DEF Ascending
  <2>1. i + 1 \in 1..Len(s) /\ j + 1 \in 1..Len(s) /\ i + 1 < j + 1
    BY <1>1
  <2> QED
    BY <1>1, <2>1 DEF Ascending
<1> QED
  BY <1>1, <1>2, <1>3 DEF t

(* The event that a handler takes: the first that is pending.               *)
LEMMA Taken ==
    ASSUME SinkInv, NEW c \in Chans, NEW e,
           \/ TakeSnapshot(c) /\ e = Head(snapshot[c])
           \/ TakeLive(c) /\ e = Head(buffer[c])
    PROVE  /\ e.offset \in Nat /\ next[c] <= e.offset /\ e.offset < Len(events)
           /\ chan[c] = "open" /\ c \notin dropped => e.offset = next[c]
           /\ next' = [next EXCEPT ![c] = e.offset + 1]
           /\ UNCHANGED <<events, subscribers, chan, dropped>>
<1>1. SinkTypeOK /\ Owed(c) /\ snapshot[c] \in Seq(Event) /\ buffer[c] \in Seq(Event)
  BY DEF SinkInv, SinkTypeOK
<1>2. Pending(c) # <<>> /\ e = Head(Pending(c))
  <2>1. CASE TakeSnapshot(c) /\ e = Head(snapshot[c])
    BY <1>1, <2>1, PendingTail DEF TakeSnapshot, Pending
  <2>2. CASE TakeLive(c) /\ e = Head(buffer[c])
    BY <1>1, <2>2, ConcatEmptySeq DEF TakeLive, Pending
  <2> QED
    BY <2>1, <2>2
<1>3. /\ Pending(c) \in Seq(Event) /\ e = Pending(c)[1] /\ 1 \in 1..Len(Pending(c))
      /\ e \in Event /\ e.offset \in Nat
  <2>1. Pending(c) \in Seq(Event)
    BY <1>1, ConcatProperties DEF Pending
  <2>2. e = Pending(c)[1] /\ 1 \in 1..Len(Pending(c)) /\ e \in Event
    BY <1>2, <2>1, HeadTailProperties, LenProperties, EmptySeq
  <2> QED
    BY <2>1, <2>2, EventSinkAssumption DEF Event, Offsets
<1>4. next[c] <= e.offset /\ e.offset < Len(events)
  BY <1>1, <1>3 DEF Owed, InOrder
<1>5. ASSUME chan[c] = "open", c \notin dropped PROVE e.offset = next[c]
  <2>1. /\ e = events[next[c] + 1] /\ next[c] \in Nat /\ Len(events) \in Nat
        /\ DOMAIN events = 1..Len(events) /\ next[c] + 1 \in 1..Len(events)
    BY <1>1, <1>3, <1>4, <1>5, LenProperties DEF Owed, IsRest, SinkTypeOK
  <2> QED
    BY <1>1, <2>1 DEF SinkTypeOK
<1> QED
  BY <1>3, <1>4, <1>5 DEF TakeSnapshot, TakeLive

-----------------------------------------------------------------------------
(* The sink: every step is one of its own, leaves it alone, or ends it.     *)
LEMMA EndKeepsSink ==
    ASSUME SinkInv, ProcessEnds
    PROVE  SinkInv'
<1> USE DEF ProcessEnds
<1>0. <<>> \in Seq(Event) /\ Len(<<>>) = 0 /\ <<>> \o <<>> = <<>>
  BY EmptySeq, ConcatEmptySeq
<1>1. SinkTypeOK'
  BY <1>0, EventSinkAssumption DEF SinkInv, SinkTypeOK
<1>2. ListedIffOpen'
  BY DEF ListedIffOpen
<1>3. ASSUME NEW c \in Chans PROVE Owed(c)'
  <2>1. Pending(c)' = <<>>
    BY <1>0 DEF Pending
  <2>2. next'[c] <= Len(events')
    BY DEF SinkInv, Owed
  <2> QED
    BY <1>0, <2>1, <2>2 DEF Owed, InOrder
<1> QED
  BY <1>1, <1>2, <1>3 DEF SinkInv

LEMMA SinkKept ==
    ASSUME StreamsInv, [ServerNext]_vars
    PROVE  SinkInv'
<1>a. SinkInv /\ ConnInv /\ \A k \in Clients : LastRead(k)
  BY DEF StreamsInv, ReadInv
<1>1. ASSUME NEW k \in Clients, NEW c \in Chans, Request(k, c) PROVE SinkInv'
  <2>1. PICK o \in 0..MaxEvents : ReadFromOffsetAndSubscribe(o, c)
    <3>1. ReadFromOffsetAndSubscribe(ParseOffset(Query(k), lastId[k]), c)
      BY <1>1 DEF Request, Connect
    <3>2. Len(events) \in Nat /\ Len(events) <= MaxEvents
      BY <1>a, LenProperties DEF SinkInv, SinkTypeOK
    <3>3. lastId[k] \in Nat \cup {None} /\ (lastId[k] # None => lastId[k] < Len(events))
      BY <1>a DEF ConnInv, LastRead
    <3>4. ParseOffset(Query(k), lastId[k]) \in 0..MaxEvents
      BY <3>2, <3>3, EventSinkAssumption DEF ParseOffset, Query
    <3> QED
      BY <3>1, <3>4
  <2> QED
    BY <1>a, <2>1, SinkInvNext DEF Next
<1>2. ASSUME NEW c \in Chans, Serve(c) PROVE SinkInv'
  <2>1. TakeSnapshot(c) \/ TakeLive(c) \/ Unsubscribe(c) \/ UNCHANGED sinkVars
    BY <1>2 DEF Serve, Handler, WriteHistory, EndHistory, WriteLive, Leave
  <2> QED
    BY <1>a, <2>1, SinkInvNext DEF Next
<1>3. CASE Emit
  BY <1>a, <1>3, SinkInvNext DEF Emit, Next
<1>4. CASE EarlySignal \/ Drained \/ DrainTimeout
  BY <1>a, <1>4, EndKeepsSink DEF EarlySignal, Drained, DrainTimeout
<1>5. ASSUME NEW k \in Clients, GiveUp(k) \/ Receive(k) \/ BreakOff(k)
      PROVE  SinkInv'
  BY <1>a, <1>5, SinkInvNext
     DEF GiveUp, Receive, BreakOff, Read, Disconnect, allVars
<1>6. CASE StartUp \/ Listen \/ Signal \/ UNCHANGED vars
  BY <1>a, <1>6, SinkInvNext DEF StartUp, Listen, Signal, vars, allVars
<1> QED
  BY <1>1, <1>2, <1>3, <1>4, <1>5, <1>6 DEF ServerNext

-----------------------------------------------------------------------------
(* The streams, one kind of step after the other.                           *)

(* Steps that leave the streams and the offsets of the consumers alone.     *)
LEMMA QuietKeeps ==
    ASSUME StreamsInv, SinkInv', UNCHANGED <<streamVars, chan, next>>,
           Len(events) <= Len(events'), dropped \subseteq dropped'
    PROVE  ConnInv' /\ WireInv' /\ ReadInv'
<1> USE DEF streamVars, StreamsInv
<1>1. ConnInv'
  BY DEF ConnInv, Open
<1>2. WireInv'
  BY DEF WireInv, Ascending
<1>3. ASSUME NEW k \in Clients PROVE LastRead(k)'
  <2>1. LastRead(k) /\ lastId[k] \in Nat \cup {None}
    BY DEF ReadInv, ConnInv
  <2>2. Len(events) \in Nat /\ Len(events') \in Nat
    BY LenProperties DEF SinkInv, SinkTypeOK
  <2> QED
    BY <2>1, <2>2 DEF LastRead
<1>4. ASSUME NEW k \in Resuming PROVE InOrderInv(k)' /\ (~Lossy(k)' => ExactInv(k)')
  <2>1. InOrderInv(k) /\ (~Lossy(k) => ExactInv(k))
    BY DEF ReadInv
  <2>2. ~Lossy(k)' => ~Lossy(k)
    BY DEF Lossy
  <2> QED
    BY <2>1, <2>2 DEF InOrderInv, ExactInv, Ascending
<1>5. Resuming' = Resuming
  BY DEF Resuming
<1> QED
  BY <1>1, <1>2, <1>3, <1>4, <1>5 DEF ReadInv

(* A client connects, for the first time or again.                          *)
LEMMA ConnectKeeps ==
    ASSUME StreamsInv, SinkInv', NEW k \in Clients, NEW c \in Chans, Connect(k, c)
    PROVE  ConnInv' /\ WireInv' /\ ReadInv'
<1> USE DEF StreamsInv
<1> DEFINE o == ParseOffset(Query(k), lastId[k])
<1>a. /\ conn[k] = None /\ chan[c] = "none" /\ hpc[c] = "idle"
      /\ owner[c] = None /\ wire[c] = <<>> /\ c \notin gone
      /\ k # None /\ c # None
  BY EventStreamAssumption
     DEF Connect, ReadFromOffsetAndSubscribe, ConnInv
<1>b. /\ hpc' = [hpc EXCEPT ![c] = "history"]
      /\ conn' = [conn EXCEPT ![k] = c]
      /\ owner' = [owner EXCEPT ![c] = k]
      /\ chan' = [chan EXCEPT ![c] = "open"]
      /\ next' = [next EXCEPT ![c] = IF o < Len(events) THEN o ELSE Len(events)]
      /\ UNCHANGED <<wire, gone, lastId, got, events, dropped>>
  BY DEF Connect, ReadFromOffsetAndSubscribe
<1>c. /\ chan \in [Chans -> {"none", "open", "closed"}]
      /\ next \in [Chans -> 0..MaxEvents] /\ Len(events) \in Nat
  BY LenProperties DEF SinkInv, SinkTypeOK
<1>d. \A j \in Clients : conn[j] # c
  BY <1>a DEF ConnInv, Open
<1> HIDE DEF o
<1>1. ConnInv'
  BY <1>a, <1>b, <1>c, <1>d DEF ConnInv, Open, Handlers
<1>2. WireInv'
  <2>1. wire[c] = <<>> /\ Len(wire[c]) = 0
    BY <1>a, EmptySeq
  <2>2. ASSUME NEW d \in Chans, d # c
        PROVE  wire'[d] = wire[d] /\ next'[d] = next[d]
    BY <1>b, <1>c, <2>2
  <2> QED
    BY <1>b, <2>1, <2>2 DEF WireInv, Ascending
<1>3. \A j \in Clients : LastRead(j)'
  BY <1>b DEF ReadInv, LastRead
<1>4. ASSUME NEW j \in Resuming PROVE InOrderInv(j)' /\ (~Lossy(j)' => ExactInv(j)')
  <2>1. /\ j \in Clients /\ LastRead(j) /\ InOrderInv(j)
        /\ (~Lossy(j) => ExactInv(j))
        /\ lastId[j] \in Nat \cup {None} /\ got[j] \in Seq(Nat) /\ Len(got[j]) \in Nat
        /\ conn[j] \in Chans \cup {None}
    BY LenProperties DEF ReadInv, Resuming, ConnInv
  <2>2. ~Lossy(j)' => ~Lossy(j)
    <3>1. j # None
      BY <2>1, EventStreamAssumption
    <3> QED
      BY <1>a, <1>b, <2>1, <3>1 DEF Lossy, SinkInv, SinkTypeOK, ConnInv
  <2>3. CASE j # k
    <3>1. conn'[j] = conn[j] /\ (conn[j] # None => next'[conn[j]] = next[conn[j]])
      BY <1>b, <1>c, <1>d, <2>1, <2>3 DEF ConnInv
    <3> QED
      BY <1>b, <2>1, <2>2, <3>1 DEF InOrderInv, ExactInv, Ascending
  <2>4. CASE j = k
    <3>1. /\ conn'[j] = c /\ wire'[c] = <<>> /\ Len(wire'[c]) = 0
          /\ o = (IF lastId[j] = None THEN 0 ELSE lastId[j] + 1)
          /\ next'[c] = (IF o < Len(events) THEN o ELSE Len(events))
      BY <1>a, <1>b, <1>c, <2>1, <2>4, EmptySeq
         DEF o, ParseOffset, Query, Resuming, ConnInv
    <3>2. lastId[j] # None => lastId[j] < next'[c]
      BY <1>c, <2>1, <3>1 DEF LastRead
    <3>3. InOrderInv(j)'
      BY <1>b, <2>1, <3>1, <3>2 DEF InOrderInv, Ascending
    <3>4. ASSUME ~Lossy(j)' PROVE ExactInv(j)'
      <4>1. \A i \in 1..Len(got[j]) : got[j][i] = i - 1
        BY <2>1, <2>2, <3>4 DEF ExactInv
      <4>2. next'[c] = Len(got[j])
        <5>1. CASE got[j] = <<>>
          BY <1>c, <2>1, <3>1, <5>1, EmptySeq DEF LastRead
        <5>2. CASE got[j] # <<>>
          <6>1. Len(got[j]) \in 1..Len(got[j])
            BY <2>1, <5>2, EmptySeq
          <6>2. lastId[j] = Len(got[j]) - 1 /\ lastId[j] \in Nat /\ lastId[j] # None
            BY <2>1, <4>1, <5>2, <6>1, EventStreamAssumption DEF LastRead
          <6>3. lastId[j] < Len(events)
            BY <2>1, <6>2 DEF LastRead
          <6> QED
            BY <1>c, <2>1, <3>1, <6>2, <6>3
        <5> QED
          BY <5>1, <5>2
      <4>3. /\ got'[j] = got[j] /\ conn'[j] = c
            /\ Len(got'[j]) + Len(wire'[c]) = next'[c]
            /\ \A i \in 1..Len(wire'[c]) : wire'[c][i] = Len(got'[j]) + i - 1
        BY <1>b, <2>1, <3>1, <4>2
      <4> QED
        BY <4>1, <4>3 DEF ExactInv
    <3> QED
      BY <3>3, <3>4
  <2> QED
    BY <2>3, <2>4
<1>5. Resuming' = Resuming
  BY DEF Resuming
<1> QED
  BY <1>1, <1>2, <1>3, <1>4, <1>5 DEF ReadInv

(* A handler writes the first event that is pending.                        *)
LEMMA WriteKeeps ==
    ASSUME StreamsInv, SinkInv', NEW c \in Chans, Open(c), NEW e,
           \/ TakeSnapshot(c) /\ e = Head(snapshot[c])
           \/ TakeLive(c) /\ e = Head(buffer[c]),
           Write(c, e), UNCHANGED <<hpc, gone, owner, conn, lastId, got>>
    PROVE  ConnInv' /\ WireInv' /\ ReadInv'
<1> USE DEF StreamsInv
<1>a. /\ e.offset \in Nat /\ next[c] <= e.offset /\ e.offset < Len(events)
      /\ c \notin dropped => e.offset = next[c]
      /\ next' = [next EXCEPT ![c] = e.offset + 1]
      /\ UNCHANGED <<events, chan, dropped>>
  BY Taken DEF ConnInv
<1>b. /\ next \in [Chans -> 0..MaxEvents] /\ wire \in [Chans -> Seq(Nat)]
      /\ wire[c] \in Seq(Nat) /\ next[c] \in Nat /\ MaxEvents \in Nat
      /\ Len(wire[c]) \in Nat
  BY EventSinkAssumption, LenProperties DEF SinkInv, SinkTypeOK, ConnInv
<1>c. /\ Append(wire[c], e.offset) \in Seq(Nat)
      /\ Len(Append(wire[c], e.offset)) = Len(wire[c]) + 1
      /\ \A i \in 1..Len(wire[c]) : Append(wire[c], e.offset)[i] = wire[c][i]
      /\ Append(wire[c], e.offset)[Len(wire[c]) + 1] = e.offset
      /\ Ascending(Append(wire[c], e.offset))
      /\ \A i \in 1..Len(Append(wire[c], e.offset)) :
            Append(wire[c], e.offset)[i] < e.offset + 1
  <2>1. \A i \in 1..Len(wire[c]) : wire[c][i] < e.offset /\ wire[c][i] \in Nat
    BY <1>a, <1>b, ElementOfSeq DEF WireInv
  <2> QED
    BY <1>a, <1>b, <2>1, AppendAscending DEF WireInv
<1>d. /\ wire'[c] = IF c \in gone THEN wire[c] ELSE Append(wire[c], e.offset)
      /\ wire' \in [Chans -> Seq(Nat)]
      /\ \A d \in Chans : d # c => wire'[d] = wire[d] /\ next'[d] = next[d]
      /\ next'[c] = e.offset + 1
  BY <1>a, <1>b, <1>c DEF Write
<1>1. ConnInv'
  BY <1>a, <1>d DEF ConnInv, Open
<1>2. WireInv'
  <2>1. ASSUME NEW i \in 1..Len(wire[c]) PROVE wire[c][i] < next'[c]
    BY <1>a, <1>b, <1>d, ElementOfSeq DEF WireInv
  <2>2. Ascending(wire'[c]) /\ \A i \in 1..Len(wire'[c]) : wire'[c][i] < next'[c]
    BY <1>c, <1>d, <2>1 DEF WireInv
  <2>3. \A d \in Chans : d # c =>
            Ascending(wire'[d]) /\ \A i \in 1..Len(wire'[d]) : wire'[d][i] < next'[d]
    BY <1>d DEF WireInv
  <2> QED
    BY <2>2, <2>3 DEF WireInv, Ascending
<1>3. \A k \in Clients : LastRead(k)'
  BY <1>a DEF ReadInv, LastRead
<1>4. ASSUME NEW k \in Resuming PROVE InOrderInv(k)' /\ (~Lossy(k)' => ExactInv(k)')
  <2>1. /\ k \in Clients /\ InOrderInv(k) /\ (~Lossy(k) => ExactInv(k))
        /\ lastId[k] \in Nat \cup {None} /\ got[k] \in Seq(Nat) /\ Len(got[k]) \in Nat
        /\ conn[k] \in Chans \cup {None}
    BY LenProperties DEF ReadInv, Resuming, ConnInv
  <2>2. ~Lossy(k)' => ~Lossy(k)
    BY <1>a DEF Lossy
  <2>3. CASE conn[k] # c
    BY <1>a, <1>d, <2>1, <2>2, <2>3 DEF InOrderInv, ExactInv, Ascending
  <2>4. CASE conn[k] = c
    <3>1. /\ c # None /\ c \notin gone /\ owner[c] = k
          /\ wire'[c] = Append(wire[c], e.offset)
      BY <1>d, <2>1, <2>4, EventStreamAssumption DEF ConnInv
    <3>2. ASSUME lastId[k] # None
          PROVE  /\ lastId[k] < next'[c]
                 /\ \A i \in 1..Len(wire'[c]) : lastId[k] < wire'[c][i]
      <4>1. /\ lastId[k] \in Nat /\ lastId[k] < next[c]
            /\ \A i \in 1..Len(wire[c]) : lastId[k] < wire[c][i]
        BY <2>1, <2>4, <3>1, <3>2 DEF InOrderInv
      <4>2. lastId[k] < e.offset
        BY <1>a, <1>b, <4>1
      <4>3. \A i \in 1..(Len(wire[c]) + 1) : i \in 1..Len(wire[c]) \/ i = Len(wire[c]) + 1
        BY <1>b
      <4> QED
        BY <1>a, <1>c, <1>d, <3>1, <4>1, <4>2, <4>3
    <3>3. InOrderInv(k)'
      BY <2>1, <2>4, <3>2 DEF InOrderInv, Ascending
    <3>4. ASSUME ~Lossy(k)' PROVE ExactInv(k)'
      <4>1. /\ \A i \in 1..Len(got[k]) : got[k][i] = i - 1
            /\ Len(got[k]) + Len(wire[c]) = next[c]
            /\ \A i \in 1..Len(wire[c]) : wire[c][i] = Len(got[k]) + i - 1
        BY <2>1, <2>2, <2>4, <3>1, <3>4 DEF ExactInv
      <4>2. e.offset = next[c]
        BY <1>a, <3>1, <3>4 DEF Lossy
      <4>3. Len(got[k]) + Len(wire'[c]) = next'[c]
        <5>1. Len(wire'[c]) = Len(wire[c]) + 1 /\ next'[c] = next[c] + 1
          BY <1>c, <1>d, <3>1, <4>2
        <5>2. /\ Len(got[k]) \in Nat /\ Len(wire[c]) \in Nat /\ next[c] \in Nat
              /\ Len(got[k]) + Len(wire[c]) = next[c]
          BY <1>b, <2>1, <4>1
        <5> DEFINE a == Len(got[k])
                   b == Len(wire[c])
                   m == next[c]
        <5>3. a \in Nat /\ b \in Nat /\ m \in Nat /\ a + b = m
          BY <5>2
        <5> HIDE DEF a, b, m
        <5>4. a + (b + 1) = m + 1
          BY <5>3, Shift
        <5> QED
          BY <5>1, <5>4 DEF a, b, m
      <4>4. \A i \in 1..Len(wire'[c]) : wire'[c][i] = Len(got[k]) + i - 1
        <5>1. \A i \in 1..(Len(wire[c]) + 1) : i \in 1..Len(wire[c]) \/ i = Len(wire[c]) + 1
          BY <1>b
        <5>2. e.offset = Len(got[k]) + (Len(wire[c]) + 1) - 1
          BY <1>b, <2>1, <4>1, <4>2
        <5> QED
          BY <1>c, <3>1, <4>1, <5>1, <5>2
      <4> QED
        BY <2>4, <4>1, <4>3, <4>4 DEF ExactInv
    <3> QED
      BY <3>3, <3>4
  <2> QED
    BY <2>3, <2>4
<1>5. Resuming' = Resuming
  BY DEF Resuming
<1> QED
  BY <1>1, <1>2, <1>3, <1>4, <1>5 DEF ReadInv

(* A client reads the first event on its wire.                              *)
LEMMA ReadKeeps ==
    ASSUME StreamsInv, SinkInv', NEW k \in Clients, Read(k),
           NEW c, c = conn[k], NEW n, n = Head(wire[c])
    PROVE  ConnInv' /\ WireInv' /\ ReadInv'
<1> USE DEF StreamsInv
<1>a. /\ conn[k] = c /\ c \in Chans /\ c # None /\ wire[c] # <<>>
      /\ got' = [got EXCEPT ![k] = Append(got[k], n)]
      /\ lastId' = [lastId EXCEPT ![k] = n]
      /\ wire' = [wire EXCEPT ![c] = Tail(wire[c])]
      /\ UNCHANGED <<chan, next, events, dropped, hpc, gone, owner, conn>>
  BY DEF Read, sinkVars, ConnInv
<1>b. /\ wire[c] \in Seq(Nat) /\ Ascending(wire[c])
      /\ \A i \in 1..Len(wire[c]) : wire[c][i] < next[c]
      /\ got[k] \in Seq(Nat) /\ Len(got[k]) \in Nat
      /\ next[c] \in Nat /\ next[c] <= Len(events) /\ Len(events) \in Nat
  BY <1>a, LenProperties, EventSinkAssumption
     DEF ConnInv, WireInv, SinkInv, SinkTypeOK, Owed
<1>c. /\ Tail(wire[c]) \in Seq(Nat) /\ n \in Nat /\ Len(wire[c]) \in Nat \ {0}
      /\ n = wire[c][1] /\ Len(Tail(wire[c])) = Len(wire[c]) - 1
      /\ \A i \in 1..Len(Tail(wire[c])) :
            Tail(wire[c])[i] = wire[c][i + 1] /\ n < wire[c][i + 1]
      /\ Ascending(Tail(wire[c]))
  BY <1>a, <1>b, TailAscending
<1>d. n < next[c] /\ n < Len(events)
  BY <1>b, <1>c
<1>e. /\ Append(got[k], n) \in Seq(Nat) /\ Append(got[k], n) # <<>>
      /\ Len(Append(got[k], n)) = Len(got[k]) + 1
      /\ \A i \in 1..Len(got[k]) : Append(got[k], n)[i] = got[k][i]
      /\ Append(got[k], n)[Len(got[k]) + 1] = n
  <2>1. got[k] \in Seq(Nat) /\ n \in Nat
    BY <1>b, <1>c
  <2> QED
    BY ONLY <2>1, AppendProperties
<1>f. /\ got'[k] = Append(got[k], n) /\ lastId'[k] = n /\ wire'[c] = Tail(wire[c])
      /\ \A j \in Clients : j # k => got'[j] = got[j] /\ lastId'[j] = lastId[j]
      /\ \A d \in Chans : d # c => wire'[d] = wire[d]
      /\ \A j \in Clients : j # k => conn[j] # c
  BY <1>a DEF ConnInv
<1>g. /\ got' \in [Clients -> Seq(Nat)] /\ lastId' \in [Clients -> Nat \cup {None}]
      /\ wire' \in [Chans -> Seq(Nat)]
  BY <1>a, <1>c, <1>e DEF ConnInv
<1>h. n # None
  BY <1>c, EventStreamAssumption
<1>1. ConnInv'
  <2>1. hpc[c] # "idle"
    BY <1>a DEF ConnInv, Open
  <2> QED
    BY <1>a, <1>f, <1>g, <2>1 DEF ConnInv, Open
<1>2. WireInv'
  <2>1. \A i \in 1..Len(Tail(wire[c])) : i + 1 \in 1..Len(wire[c])
    BY <1>c
  <2>2. Ascending(wire'[c]) /\ \A i \in 1..Len(wire'[c]) : wire'[c][i] < next[c]
    BY <1>b, <1>c, <1>f, <2>1
  <2> QED
    BY <1>a, <1>f, <2>2 DEF WireInv, Ascending
<1>3. ASSUME NEW j \in Clients PROVE LastRead(j)'
  <2>1. CASE j # k
    BY <1>a, <1>f, <2>1 DEF ReadInv, LastRead
  <2>2. CASE j = k
    BY <1>a, <1>d, <1>e, <1>f, <2>2 DEF LastRead
  <2> QED
    BY <2>1, <2>2
<1>4. ASSUME NEW j \in Resuming PROVE InOrderInv(j)' /\ (~Lossy(j)' => ExactInv(j)')
  <2>1. /\ j \in Clients /\ InOrderInv(j) /\ (~Lossy(j) => ExactInv(j))
        /\ conn[j] \in Chans \cup {None} /\ LastRead(j)
    BY DEF ReadInv, Resuming, ConnInv
  <2>2. ~Lossy(j)' => ~Lossy(j)
    BY <1>a DEF Lossy
  <2>3. CASE j # k
    <3>1. /\ conn'[j] = conn[j] /\ got'[j] = got[j] /\ lastId'[j] = lastId[j]
          /\ conn[j] # None => /\ wire'[conn[j]] = wire[conn[j]]
                              /\ next'[conn[j]] = next[conn[j]]
      BY <1>a, <1>f, <2>1, <2>3
    <3> QED
      BY <2>1, <2>2, <3>1 DEF InOrderInv, ExactInv, Ascending
  <2>4. CASE j = k
    <3>1. \A i \in 1..Len(got[k]) : got[k][i] < n
      <4>1. CASE got[k] = <<>>
        BY <4>1, EmptySeq
      <4>2. CASE got[k] # <<>>
        <5>1. /\ lastId[k] = got[k][Len(got[k])] /\ Len(got[k]) \in 1..Len(got[k])
              /\ lastId[k] \in Nat /\ lastId[k] # None
          BY <1>b, <2>1, <2>4, <4>2, EmptySeq, ElementOfSeq, EventStreamAssumption
             DEF LastRead
        <5>2. lastId[k] < n
          BY <1>a, <1>c, <2>1, <2>4, <5>1 DEF InOrderInv
        <5>3. \A i \in 1..Len(got[k]) : got[k][i] <= lastId[k] /\ got[k][i] \in Nat
          <6>1. \A i \in 1..Len(got[k]) : got[k][i] \in Nat
            BY ONLY <1>b, ElementOfSeq
          <6>2. \A i \in 1..Len(got[k]) : i = Len(got[k]) \/ i < Len(got[k])
            BY ONLY <1>b
          <6> QED
            BY <2>1, <2>4, <5>1, <6>1, <6>2, SMTT(30) DEF InOrderInv, Ascending
        <5> QED
          BY ONLY <1>c, <5>1, <5>2, <5>3
      <4> QED
        BY <4>1, <4>2
    <3>2. Ascending(got'[k])
      BY <1>b, <1>c, <1>f, <2>1, <2>4, <3>1, AppendAscending DEF InOrderInv
    <3>3. InOrderInv(j)'
      <4>1. /\ n < next'[c]
            /\ \A i \in 1..Len(wire'[c]) : n < wire'[c][i]
        BY <1>a, <1>c, <1>d, <1>f
      <4>2. conn'[j] = c /\ lastId'[j] = n /\ Ascending(got[j])'
        BY <1>a, <1>f, <2>4, <3>2 DEF Ascending
      <4> QED
        BY <4>1, <4>2 DEF InOrderInv
    <3>4. ASSUME ~Lossy(j)' PROVE ExactInv(j)'
      <4>1. /\ \A i \in 1..Len(got[k]) : got[k][i] = i - 1
            /\ Len(got[k]) + Len(wire[c]) = next[c]
            /\ \A i \in 1..Len(wire[c]) : wire[c][i] = Len(got[k]) + i - 1
        BY <1>a, <2>1, <2>2, <2>4, <3>4 DEF ExactInv
      <4>2. n = Len(got[k])
        <5>1. 1 \in 1..Len(wire[c]) /\ Len(got[k]) + 1 - 1 = Len(got[k])
          BY <1>b, <1>c
        <5> QED
          BY <1>c, <4>1, <5>1
      <4>3. \A i \in 1..Len(got'[k]) : got'[k][i] = i - 1
        <5>1. \A i \in 1..(Len(got[k]) + 1) : i \in 1..Len(got[k]) \/ i = Len(got[k]) + 1
          BY <1>b
        <5>2. (Len(got[k]) + 1) - 1 = n
          BY <1>b, <4>2
        <5> QED
          BY <1>e, <1>f, <4>1, <5>1, <5>2
      <4>4. Len(got'[k]) + Len(wire'[c]) = next[c]
        <5>1. Len(got'[k]) = Len(got[k]) + 1 /\ Len(wire'[c]) = Len(wire[c]) - 1
          BY <1>c, <1>e, <1>f
        <5>2. /\ Len(got[k]) \in Nat /\ Len(wire[c]) \in Nat /\ next[c] \in Nat
              /\ Len(got[k]) + Len(wire[c]) = next[c]
          BY <1>b, <1>c, <4>1
        <5> DEFINE a == Len(got[k])
                   b == Len(wire[c])
                   m == next[c]
        <5>3. a \in Nat /\ b \in Nat /\ m \in Nat /\ a + b = m
          BY <5>2
        <5> HIDE DEF a, b, m
        <5>4. (a + 1) + (b - 1) = m
          BY <5>3, Shift
        <5> QED
          BY <5>1, <5>4 DEF a, b, m
      <4>5. \A i \in 1..Len(wire'[c]) : wire'[c][i] = Len(got'[k]) + i - 1
        <5>1. \A i \in 1..Len(wire'[c]) : /\ i + 1 \in 1..Len(wire[c])
                                          /\ wire'[c][i] = wire[c][i + 1]
          BY <1>c, <1>f
        <5>2. \A i \in 1..Len(wire'[c]) : Len(got[k]) + (i + 1) - 1 = Len(got'[k]) + i - 1
          BY <1>b, <1>e, <1>f
        <5> QED
          BY <4>1, <5>1, <5>2
      <4> QED
        BY <1>a, <2>4, <4>3, <4>4, <4>5 DEF ExactInv
    <3> QED
      BY <3>3, <3>4
  <2> QED
    BY <2>3, <2>4
<1>5. Resuming' = Resuming
  BY DEF Resuming
<1> QED
  BY <1>1, <1>2, <1>3, <1>4, <1>5 DEF ReadInv

(* Steps that only end things: connections, handlers, channels, the         *)
(* process.                                                                 *)
LEMMA EndingKeeps ==
    ASSUME StreamsInv, ConnInv',
           UNCHANGED <<next, events, dropped, owner, lastId, got>>,
           \A c \in Chans : wire'[c] = wire[c] \/ wire'[c] = <<>>,
           \A k \in Clients : conn'[k] = None \/
                /\ conn'[k] = conn[k]
                /\ conn[k] # None => wire'[conn[k]] = wire[conn[k]]
    PROVE  WireInv' /\ ReadInv'
<1> USE DEF StreamsInv
<1>1. WireInv'
  <2> SUFFICES ASSUME NEW c \in Chans
               PROVE  /\ Ascending(wire'[c])
                      /\ \A i \in 1..Len(wire'[c]) : wire'[c][i] < next'[c]
    BY DEF WireInv, Ascending
  <2>1. CASE wire'[c] = wire[c]
    BY <2>1 DEF WireInv
  <2>2. CASE wire'[c] = <<>>
    <3>1. Len(wire'[c]) = 0
      BY <2>2, EmptySeq
    <3> QED
      BY <3>1 DEF Ascending
  <2> QED
    BY <2>1, <2>2
<1>2. \A k \in Clients : LastRead(k)'
  BY DEF ReadInv, LastRead
<1>3. ASSUME NEW k \in Resuming PROVE InOrderInv(k)' /\ (~Lossy(k)' => ExactInv(k)')
  <2>1. k \in Clients /\ InOrderInv(k) /\ (~Lossy(k)' => ExactInv(k))
    BY DEF ReadInv, Resuming, Lossy
  <2>2. Ascending(got[k])' /\ (~Lossy(k)' => \A i \in 1..Len(got'[k]) : got'[k][i] = i - 1)
    BY <2>1 DEF InOrderInv, ExactInv, Ascending
  <2>3. CASE conn'[k] = None
    BY <2>2, <2>3 DEF InOrderInv, ExactInv
  <2>4. CASE conn'[k] = conn[k] /\ (conn[k] # None => wire'[conn[k]] = wire[conn[k]])
    BY <2>1, <2>2, <2>4 DEF InOrderInv, ExactInv
  <2> QED
    BY <2>1, <2>3, <2>4
<1>4. Resuming' = Resuming
  BY DEF Resuming
<1> QED
  BY <1>1, <1>2, <1>3, <1>4 DEF ReadInv

LEMMA EndHistoryKeeps ==
    ASSUME StreamsInv, NEW c \in Chans, EndHistory(c)
    PROVE  ConnInv' /\ WireInv' /\ ReadInv'
<1>1. ConnInv'
  BY DEF StreamsInv, ConnInv, EndHistory, Open, Handlers, sinkVars
<1> QED
  BY <1>1, EndingKeeps DEF EndHistory, sinkVars

LEMMA LeaveKeeps ==
    ASSUME StreamsInv, NEW c \in Chans, Leave(c)
    PROVE  ConnInv' /\ WireInv' /\ ReadInv'
<1>1. ConnInv'
  <2>1. /\ hpc[c] = "live" /\ c \in gone /\ hpc' = [hpc EXCEPT ![c] = "done"]
        /\ chan' = [chan EXCEPT ![c] = "closed"] /\ chan \in [Chans -> {"none", "open", "closed"}]
        /\ UNCHANGED <<wire, gone, owner, conn, lastId, got>>
    BY DEF Leave, Unsubscribe, StreamsInv, SinkInv, SinkTypeOK
  <2> QED
    BY <2>1 DEF StreamsInv, ConnInv, Open, Handlers
<1> QED
  BY <1>1, EndingKeeps DEF Leave, Unsubscribe

LEMMA DisconnectKeeps ==
    ASSUME StreamsInv, NEW k \in Clients, Disconnect(k)
    PROVE  ConnInv' /\ WireInv' /\ ReadInv'
<1>a. /\ conn[k] \in Chans /\ conn[k] # None
      /\ conn' = [conn EXCEPT ![k] = None]
      /\ gone' = gone \cup {conn[k]}
      /\ wire' = [wire EXCEPT ![conn[k]] = <<>>]
      /\ UNCHANGED <<sinkVars, hpc, owner, lastId, got>>
  BY DEF Disconnect, StreamsInv, ConnInv
<1>b. conn' \in [Clients -> Chans \cup {None}] /\ wire' \in [Chans -> Seq(Nat)]
  BY <1>a, EmptySeq DEF StreamsInv, ConnInv
<1>c. \A j \in Clients : j # k => conn[j] # conn[k] /\ conn'[j] = conn[j]
  BY <1>a DEF StreamsInv, ConnInv
<1>1. ConnInv'
  <2>1. /\ gone' \subseteq Chans
        /\ \A c \in Chans : hpc'[c] = "idle" => wire'[c] = <<>> /\ c \notin gone'
    BY <1>a DEF StreamsInv, ConnInv, Open
  <2>2. \A j \in Clients : conn'[j] # None =>
            owner'[conn'[j]] = j /\ conn'[j] \notin gone' /\ Open(conn[j])
    BY <1>a, <1>c DEF StreamsInv, ConnInv
  <2> QED
    BY <1>a, <1>b, <1>c, <2>1, <2>2 DEF StreamsInv, ConnInv, Open, sinkVars
<1>2. \A j \in Clients : conn'[j] = None \/
          /\ conn'[j] = conn[j]
          /\ conn[j] # None => wire'[conn[j]] = wire[conn[j]]
  BY <1>a, <1>c DEF StreamsInv, ConnInv
<1>3. \A c \in Chans : wire'[c] = wire[c] \/ wire'[c] = <<>>
  BY <1>a DEF StreamsInv, ConnInv
<1> QED
  BY <1>a, <1>1, <1>2, <1>3, EndingKeeps DEF sinkVars

LEMMA EndKeeps ==
    ASSUME StreamsInv, ProcessEnds
    PROVE  ConnInv' /\ WireInv' /\ ReadInv'
<1>1. ConnInv'
  <2>1. /\ hpc' \in [Chans -> Handlers] /\ wire' \in [Chans -> Seq(Nat)]
        /\ conn' \in [Clients -> Chans \cup {None}]
    BY EmptySeq DEF ProcessEnds, Handlers
  <2>2. ASSUME NEW c \in Chans
        PROVE  /\ chan'[c] = "open" <=> hpc'[c] \in {"history", "live"}
               /\ chan'[c] = "none" <=> hpc'[c] = "idle"
               /\ hpc'[c] = "idle" =>
                     owner'[c] = None /\ wire'[c] = <<>> /\ c \notin gone'
    BY DEF ProcessEnds, StreamsInv, ConnInv, SinkInv, SinkTypeOK
  <2> QED
    BY <2>1, <2>2 DEF ProcessEnds, StreamsInv, ConnInv, Open
<1> QED
  BY <1>1, EndingKeeps DEF ProcessEnds

-----------------------------------------------------------------------------
LEMMA InitStreamsInv == StreamInit => StreamsInv
<1> SUFFICES ASSUME StreamInit PROVE StreamsInv
  OBVIOUS
<1> USE DEF StreamInit
<1>0. <<>> \in Seq(Nat) /\ Len(<<>>) = 0
  BY EmptySeq
<1>1. SinkInv
  BY InitSinkInv
<1>2. ConnInv
  BY <1>0 DEF ConnInv, Open, Handlers, Init
<1>3. WireInv
  <2>1. \A c \in Chans : wire[c] = <<>> /\ Len(wire[c]) = 0
    BY <1>0
  <2>2. ASSUME NEW c \in Chans, NEW i \in 1..Len(wire[c]) PROVE FALSE
    <3>1. Len(wire[c]) = 0
      BY <2>1
    <3> QED
      BY <3>1, <2>2
  <2> QED
    BY <2>2 DEF WireInv, Ascending
<1>4. ReadInv
  BY <1>0 DEF ReadInv, LastRead, InOrderInv, ExactInv, Ascending, Resuming
<1> QED
  BY <1>1, <1>2, <1>3, <1>4 DEF StreamsInv

LEMMA StreamsInvNext == StreamsInv /\ [ServerNext]_vars => StreamsInv'
<1> SUFFICES ASSUME StreamsInv, [ServerNext]_vars PROVE StreamsInv'
  OBVIOUS
<1>a. SinkInv'
  BY SinkKept
<1> SUFFICES ConnInv' /\ WireInv' /\ ReadInv'
  BY <1>a DEF StreamsInv
<1>b. events \in Seq(Event) /\ Len(events) \in Nat
  BY LenProperties DEF StreamsInv, SinkInv, SinkTypeOK
<1>1. CASE StartUp \/ Listen \/ Signal \/ UNCHANGED vars
  BY <1>a, <1>b, <1>1, QuietKeeps
     DEF StartUp, Listen, Signal, vars, allVars, sinkVars
<1>2. ASSUME NEW k \in Clients, NEW c \in Chans, Request(k, c)
      PROVE  ConnInv' /\ WireInv' /\ ReadInv'
  BY <1>a, <1>2, ConnectKeeps DEF Request
<1>3. ASSUME NEW k \in Clients, GiveUp(k) PROVE ConnInv' /\ WireInv' /\ ReadInv'
  BY <1>a, <1>b, <1>3, QuietKeeps DEF GiveUp, allVars, sinkVars
<1>4. ASSUME NEW k \in Clients, Receive(k) PROVE ConnInv' /\ WireInv' /\ ReadInv'
  BY <1>a, <1>4, ReadKeeps DEF Receive
<1>5. ASSUME NEW k \in Clients, BreakOff(k) PROVE ConnInv' /\ WireInv' /\ ReadInv'
  BY <1>5, DisconnectKeeps DEF BreakOff
<1>6. ASSUME NEW c \in Chans, Serve(c) PROVE ConnInv' /\ WireInv' /\ ReadInv'
  <2>1. CASE WriteHistory(c)
    BY <1>a, <2>1, WriteKeeps DEF WriteHistory, Open
  <2>2. CASE EndHistory(c)
    BY <2>2, EndHistoryKeeps
  <2>3. CASE WriteLive(c)
    BY <1>a, <2>3, WriteKeeps DEF WriteLive, Open
  <2>4. CASE Leave(c)
    BY <2>4, LeaveKeeps
  <2> QED
    BY <1>6, <2>1, <2>2, <2>3, <2>4 DEF Serve, Handler
<1>7. CASE Emit
  <2>1. Len(events) <= Len(events') /\ dropped \subseteq dropped'
    <3>1. PICK e \in Event : events' = Append(events, e)
      BY <1>7, <1>b, EventSinkAssumption DEF Emit, AppendEvent, Event, Offsets
    <3>2. Len(events') = Len(events) + 1
      BY <1>b, <3>1, AppendProperties
    <3> QED
      BY <1>7, <1>b, <3>2 DEF Emit, AppendEvent
  <2> QED
    BY <1>a, <1>7, <2>1, QuietKeeps DEF Emit, AppendEvent
<1>8. CASE EarlySignal \/ Drained \/ DrainTimeout
  BY <1>8, EndKeeps DEF EarlySignal, Drained, DrainTimeout
<1> QED
  BY <1>1, <1>2, <1>3, <1>4, <1>5, <1>6, <1>7, <1>8 DEF ServerNext

LEMMA ServerInductive == ServerSpec => []StreamsInv
<1>1. ServerInit => StreamsInv
  BY InitStreamsInv DEF ServerInit
<1> QED
  BY <1>1, StreamsInvNext, PTL DEF ServerSpec

(* A client that resumes with Last-Event-ID never reads an event twice or   *)
(* out of order, on however many connections and whatever it loses.         *)
THEOREM NeverTwice == ServerSpec => []NoDuplicates
<1>1. StreamsInv => NoDuplicates
  <2> SUFFICES ASSUME StreamsInv, NEW k \in Resuming
               PROVE  \A i, j \in DOMAIN got[k] : i < j => got[k][i] < got[k][j]
    BY DEF NoDuplicates
  <2>1. got[k] \in Seq(Nat) /\ Ascending(got[k])
    BY DEF StreamsInv, ConnInv, ReadInv, InOrderInv, Resuming
  <2> QED
    BY <2>1, LenProperties DEF Ascending
<1> QED
  BY <1>1, ServerInductive, PTL

(* And it misses none, as long as no connection of its overflows.           *)
THEOREM NoGaps == ServerSpec => []GapFreeUnlessDropped
<1>1. StreamsInv => GapFreeUnlessDropped
  <2> SUFFICES ASSUME StreamsInv, NEW k \in Resuming, ~Lossy(k)
               PROVE  got[k] = Range0(Len(got[k]))
    BY DEF GapFreeUnlessDropped
  <2>1. got[k] \in Seq(Nat) /\ \A i \in 1..Len(got[k]) : got[k][i] = i - 1
    BY DEF StreamsInv, ConnInv, ReadInv, ExactInv, Resuming
  <2> QED
    BY <2>1, LenProperties DEF Range0
<1> QED
  BY <1>1, ServerInductive, PTL

(* An orderly exit cuts no stream off and turns no accepted client away.    *)
THEOREM NobodyCutOff == ServerSpec => ExitCutsNobody
<1>1. StreamsInv /\ [ServerNext]_vars =>
        (phase = "draining" /\ phase' = "exited" =>
            late = {} /\ \A k \in Clients : conn[k] = None)
  <2> SUFFICES ASSUME StreamsInv, [ServerNext]_vars,
                      phase = "draining", phase' = "exited"
               PROVE  late = {} /\ \A k \in Clients : conn[k] = None
    OBVIOUS
  <2>1. Drained
    BY DEF ServerNext, StartUp, Listen, Request, GiveUp, Receive, BreakOff, Serve,
       Emit, Signal, EarlySignal, DrainTimeout, serverVars, vars
  <2>2. late = {} /\ \A c \in Chans : ~Open(c)
    BY <2>1 DEF Drained, Open
  <2> QED
    BY <2>2 DEF StreamsInv, ConnInv
<1> QED
  BY <1>1, ServerInductive, PTL DEF ServerSpec, ExitCutsNobody

(* No configuration that is accepted makes the wiring panic.                *)
THEOREM WiringSafe == ServerSpec => []WiringNeverPanics
<1>1. ServerInit => WiringNeverPanics
  BY DEF ServerInit, WiringNeverPanics
<1>2. WiringNeverPanics /\ [ServerNext]_vars => WiringNeverPanics'
  BY DEF WiringNeverPanics, ServerNext, StartUp, Loads, ValidConfig, Wires, Listen,
     Request, GiveUp, Receive, BreakOff, Serve, Emit, Signal, EarlySignal, Drained,
     DrainTimeout, serverVars, vars
<1> QED
  BY <1>1, <1>2, PTL DEF ServerSpec

(* Two sequences of successive numbers that follow each other.              *)
LEMMA Joined ==
    ASSUME NEW s \in Seq(Nat), NEW t \in Seq(Nat),
           \A i \in 1..Len(s) : s[i] = i - 1,
           \A i \in 1..Len(t) : t[i] = Len(s) + i - 1
    PROVE  /\ s \o t \in Seq(Nat) /\ Len(s \o t) = Len(s) + Len(t)
           /\ \A i \in 1..(Len(s) + Len(t)) : (s \o t)[i] = i - 1
<1>1. /\ s \o t \in Seq(Nat) /\ Len(s \o t) = Len(s) + Len(t)
      /\ \A i \in 1..(Len(s) + Len(t)) :
            (s \o t)[i] = IF i <= Len(s) THEN s[i] ELSE t[i - Len(s)]
      /\ Len(s) \in Nat /\ Len(t) \in Nat
  BY ConcatProperties, LenProperties
<1>2. ASSUME NEW i \in 1..(Len(s) + Len(t)) PROVE (s \o t)[i] = i - 1
  <2>1. CASE i <= Len(s)
    BY <1>1, <2>1
  <2>2. CASE i > Len(s)
    <3>1. i - Len(s) \in 1..Len(t) /\ Len(s) + (i - Len(s)) - 1 = i - 1
      BY <1>1, <2>2
    <3> QED
      BY <1>1, <2>2, <3>1
  <2> QED
    BY <1>1, <2>1, <2>2
<1> QED
  BY <1>1, <1>2

(* While it is connected, what it has read, what is on its wire and what is *)
(* still to come for it are the whole log.                                  *)
THEOREM NothingLost == ServerSpec => []NothingForgotten
<1>1. StreamsInv => NothingForgotten
  <2> SUFFICES ASSUME StreamsInv, NEW k \in Resuming, ~Lossy(k), conn[k] # None,
                      NEW c, c = conn[k], NEW rest,
                      rest = [i \in 1..Len(Pending(c)) |-> Pending(c)[i].offset]
               PROVE  got[k] \o wire[c] \o rest = Range0(Len(events))
    BY DEF NothingForgotten
  <2>1. /\ c \in Chans /\ c # None /\ chan[c] = "open" /\ c \notin dropped
        /\ got[k] \in Seq(Nat) /\ wire[c] \in Seq(Nat)
    BY DEF StreamsInv, ConnInv, Resuming, Lossy
  <2>2. /\ \A i \in 1..Len(got[k]) : got[k][i] = i - 1
        /\ Len(got[k]) + Len(wire[c]) = next[c]
        /\ \A i \in 1..Len(wire[c]) : wire[c][i] = Len(got[k]) + i - 1
    BY <2>1 DEF StreamsInv, ReadInv, ExactInv
  <2>3. /\ IsRest(Pending(c), next[c], events) /\ Pending(c) \in Seq(Event)
        /\ events \in Seq(Event) /\ next[c] \in Nat /\ next[c] <= Len(events)
        /\ \A i \in 1..Len(events) : events[i].offset = i - 1
        /\ Len(events) \in Nat /\ Len(Pending(c)) \in Nat
    BY <2>1, ConcatProperties, LenProperties, EventSinkAssumption
       DEF StreamsInv, SinkInv, SinkTypeOK, Owed, Pending
  <2>4. Len(Pending(c)) = Len(events) - next[c]
    BY <2>3 DEF IsRest
  <2>5. \A i \in 1..Len(Pending(c)) : Pending(c)[i].offset = next[c] + i - 1
    <3>1. \A i \in 1..Len(Pending(c)) :
              Pending(c)[i] = events[next[c] + i] /\ next[c] + i \in 1..Len(events)
      BY ONLY <2>3, <2>4, SMTT(30) DEF IsRest
    <3> SUFFICES ASSUME NEW i \in 1..Len(Pending(c))
                 PROVE  Pending(c)[i].offset = next[c] + i - 1
      OBVIOUS
    <3>2. Pending(c)[i] = events[next[c] + i] /\ next[c] + i \in 1..Len(events)
      BY <3>1
    <3>3. events[next[c] + i].offset = (next[c] + i) - 1
      BY <2>3, <3>2
    <3>4. (next[c] + i) - 1 = next[c] + i - 1
      BY <2>3
    <3> QED
      BY <3>2, <3>3, <3>4
  <2>6. /\ rest \in Seq(Nat) /\ Len(rest) = Len(events) - next[c]
        /\ \A i \in 1..Len(rest) : rest[i] = next[c] + i - 1
    <3>1. \A i \in 1..Len(Pending(c)) : Pending(c)[i].offset \in Nat
      BY <2>3, <2>5
    <3>2. rest \in [1..Len(Pending(c)) -> Nat]
      BY <3>1
    <3>3. rest \in Seq(Nat) /\ Len(rest) = Len(Pending(c))
      BY <2>3, <3>2, IsASeq, LenProperties
    <3> QED
      BY <2>4, <2>5, <3>3
  <2>7. /\ got[k] \o wire[c] \in Seq(Nat) /\ Len(got[k] \o wire[c]) = next[c]
        /\ \A i \in 1..next[c] : (got[k] \o wire[c])[i] = i - 1
    <3>1. /\ got[k] \o wire[c] \in Seq(Nat)
          /\ Len(got[k] \o wire[c]) = Len(got[k]) + Len(wire[c])
          /\ \A i \in 1..(Len(got[k]) + Len(wire[c])) : (got[k] \o wire[c])[i] = i - 1
      BY <2>1, <2>2, Joined
    <3> QED
      BY <2>2, <3>1
  <2> DEFINE whole == (got[k] \o wire[c]) \o rest
  <2>8. /\ whole \in Seq(Nat) /\ Len(whole) = Len(events)
        /\ \A i \in 1..Len(events) : whole[i] = i - 1
    <3> DEFINE p == got[k] \o wire[c]
    <3>1. /\ p \in Seq(Nat) /\ Len(p) = next[c]
          /\ \A i \in 1..Len(p) : p[i] = i - 1
          /\ \A i \in 1..Len(rest) : rest[i] = Len(p) + i - 1
      BY <2>6, <2>7
    <3> HIDE DEF p
    <3>2. Len(p) + Len(rest) = Len(events)
      BY <2>3, <2>6, <3>1
    <3>3. /\ p \o rest \in Seq(Nat) /\ Len(p \o rest) = Len(p) + Len(rest)
          /\ \A i \in 1..(Len(p) + Len(rest)) : (p \o rest)[i] = i - 1
      BY <2>6, <3>1, Joined
    <3> QED
      BY <3>2, <3>3 DEF p
  <2> HIDE DEF whole
  <2>9. whole = Range0(Len(events))
    BY <2>8, LenProperties DEF Range0
  <2> QED
    BY <2>9 DEF whole
<1> QED
  BY <1>1, ServerInductive, PTL

(* The subscriptions of a running server keep what the sink promises of     *)
(* them: an open channel is fed, and no other; what is pending comes in the *)
(* order of the log; nothing is missing until a channel is full.            *)
THEOREM SubscriptionsSound ==
    ServerSpec => [](ListedIffOpen /\ PendingInOrder /\ LosslessUntilFull)
<1>1. StreamsInv => ListedIffOpen /\ PendingInOrder /\ LosslessUntilFull
  BY PendingFromInv, LosslessFromInv DEF StreamsInv, SinkInv
<1> QED
  BY <1>1, ServerInductive, PTL
=============================================================================
