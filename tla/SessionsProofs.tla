-------------------------- MODULE SessionsProofs --------------------------
(***************************************************************************)
(* What runs as long as the server does, for any number of sessions,       *)
(* streams and starts: the event broker never sends on a closed channel    *)
(* and streams show what they were offered; an update follows the          *)
(* acknowledgement of the description that leads to it; and the server     *)
(* keeps its key pair through crashes.                                     *)
(***************************************************************************)
EXTENDS EventBroker, DeviceHandler, Startup, SequenceTheorems, TLAPS

-----------------------------------------------------------------------------
(* EventBroker *)

PublisherInv ==
  /\ stored \in Seq(Topics) /\ Len(stored) <= MaxEvents
  /\ publisher \in [EventPublishers -> [pc : {"idle", "stored", "offering", "sinks"},
                                        event : Nat, todo : SUBSET Streams]]
  /\ \A p \in EventPublishers :
       /\ publisher[p].pc # "idle" => publisher[p].event \in 1 .. Len(stored)
       /\ publisher[p].todo # {} => publisher[p].pc = "offering"
  /\ \A p, q \in EventPublishers :
       p # q /\ publisher[p].pc # "idle" /\ publisher[q].pc # "idle"
         => publisher[p].event # publisher[q].event

StreamLabels == {"idle", "subscribing", "open", "ended", "closing", "closed"}

StreamTypes ==
  /\ stream \in [Streams -> [pc : StreamLabels, filter : Filters \union {{}}, wrote : Seq(Nat)]]
  /\ channel \in [Streams -> Seq(Nat)]
  /\ offeredTo \in [Streams -> SUBSET Nat] /\ dropped \in [Streams -> SUBSET Nat]

Elements(h) == {h[k] : k \in DOMAIN h}

Distinct(h) == \A j, k \in DOMAIN h : h[j] = h[k] => j = k

\* A stream has had, or will have, what it was offered and did not lose; nothing before
\* it is in the map of subscribers; and a publisher on its way to it brings news.
StreamInv(s) ==
  /\ Len(channel[s]) <= BufferSize
  /\ dropped[s] \subseteq offeredTo[s] /\ offeredTo[s] \subseteq 1 .. Len(stored)
  /\ stream[s].pc \in {"idle", "subscribing"} =>
       channel[s] = <<>> /\ stream[s].wrote = <<>> /\ offeredTo[s] = {}
  /\ Distinct(Had(s)) /\ Elements(Had(s)) = offeredTo[s] \ dropped[s]
  /\ \A e \in offeredTo[s] : stored[e] \in stream[s].filter
  /\ \A p \in EventPublishers :
       /\ publisher[p].pc = "stored" => publisher[p].event \notin offeredTo[s]
       /\ s \in publisher[p].todo => /\ publisher[p].event \notin offeredTo[s]
                                     /\ stream[s].pc \in {"open", "ended", "closing"}

BrokerInv == PublisherInv /\ StreamTypes /\ \A s \in Streams : StreamInv(s)

-----------------------------------------------------------------------------
LEMMA MoveHead ==
  ASSUME NEW w \in Seq(Nat), NEW c \in Seq(Nat), c # <<>>
  PROVE  /\ Append(w, Head(c)) \in Seq(Nat) /\ Tail(c) \in Seq(Nat)
         /\ Len(Tail(c)) = Len(c) - 1
         /\ Append(w, Head(c)) \o Tail(c) = w \o c
<1>1. /\ Head(c) \in Nat /\ Tail(c) \in Seq(Nat) /\ Append(w, Head(c)) \in Seq(Nat)
      /\ Len(c) \in Nat \ {0} /\ Len(w) \in Nat /\ Len(Tail(c)) = Len(c) - 1
  BY HeadTailProperties, AppendProperties, EmptySeq, LenProperties
<1> DEFINE h == Append(w, Head(c)) \o Tail(c)
           g == w \o c
<1>2. /\ h \in Seq(Nat) /\ g \in Seq(Nat)
      /\ Len(h) = Len(w) + Len(c) /\ Len(g) = Len(w) + Len(c)
  BY <1>1, ConcatProperties, AppendProperties
<1>3. ASSUME NEW i \in 1 .. Len(w) + Len(c) PROVE h[i] = g[i]
  <2>1. CASE i <= Len(w)
    BY <1>1, <2>1
  <2>2. CASE i = Len(w) + 1
    BY <1>1, <2>2
  <2>3. CASE i > Len(w) + 1
    BY <1>1, <2>3
  <2> QED BY <1>1, <2>1, <2>2, <2>3
<1> HIDE DEF h, g
<1>4. h = g
  BY <1>2, <1>3, SeqEqual
<1> QED BY <1>1, <1>4 DEF h, g

LEMMA AppendToHad ==
  ASSUME NEW w \in Seq(Nat), NEW c \in Seq(Nat), NEW e \in Nat
  PROVE  w \o Append(c, e) = Append(w \o c, e)
<1> DEFINE h == w \o Append(c, e)
           g == Append(w \o c, e)
<1>1. /\ Len(w) \in Nat /\ Len(c) \in Nat
      /\ h \in Seq(Nat) /\ g \in Seq(Nat)
      /\ Len(h) = Len(w) + Len(c) + 1 /\ Len(g) = Len(w) + Len(c) + 1
  BY LenProperties, ConcatProperties, AppendProperties
<1>2. ASSUME NEW i \in 1 .. Len(w) + Len(c) + 1 PROVE h[i] = g[i]
  <2>1. CASE i <= Len(w)
    BY <1>1, <2>1
  <2>2. CASE i > Len(w) /\ i <= Len(w) + Len(c)
    BY <1>1, <2>2
  <2>3. CASE i = Len(w) + Len(c) + 1
    BY <1>1, <2>3
  <2> QED BY <1>1, <2>1, <2>2, <2>3
<1> HIDE DEF h, g
<1>3. h = g
  BY <1>1, <1>2, SeqEqual
<1> QED BY <1>3 DEF h, g

LEMMA AppendNews ==
  ASSUME NEW h \in Seq(Nat), NEW e \in Nat, e \notin Elements(h), Distinct(h)
  PROVE  Distinct(Append(h, e)) /\ Elements(Append(h, e)) = Elements(h) \union {e}
<1>1. /\ Len(h) \in Nat /\ DOMAIN h = 1 .. Len(h)
      /\ DOMAIN Append(h, e) = 1 .. Len(h) + 1
      /\ \A i \in 1 .. Len(h) : Append(h, e)[i] = h[i]
      /\ Append(h, e)[Len(h) + 1] = e
  BY LenProperties, AppendProperties
<1>2. \A i \in 1 .. Len(h) : h[i] # e
  BY <1>1 DEF Elements
<1>3. Distinct(Append(h, e))
  BY <1>1, <1>2 DEF Distinct
<1>4. \A x : x \in Elements(Append(h, e)) <=> x \in Elements(h) \union {e}
  BY <1>1 DEF Elements
<1> QED BY <1>3, <1>4

-----------------------------------------------------------------------------
LEMMA BrokerInitInv == BrokerInit => BrokerInv
<1> SUFFICES ASSUME BrokerInit PROVE BrokerInv
  OBVIOUS
<1>1. PublisherInv
  BY BrokerAssumption, EmptySeq DEF BrokerInit, PublisherInv, NoPublish
<1>2. StreamTypes
  BY EmptySeq DEF BrokerInit, StreamTypes, NoStream, StreamLabels
<1>3. ASSUME NEW s \in Streams PROVE StreamInv(s)
  <2>1. /\ channel[s] = <<>> /\ stream[s].wrote = <<>> /\ stream[s].pc = "idle"
        /\ offeredTo[s] = {} /\ dropped[s] = {} /\ stored = <<>>
        /\ \A p \in EventPublishers : publisher[p].todo = {} /\ publisher[p].pc = "idle"
    BY <1>3 DEF BrokerInit, NoStream, NoPublish
  <2>2. Had(s) = <<>>
    BY <2>1, ConcatEmptySeq, EmptySeq DEF Had
  <2>3. Distinct(<<>>) /\ Elements(<<>>) = {}
    BY DEF Distinct, Elements
  <2> QED BY <2>1, <2>2, <2>3, BrokerAssumption, EmptySeq DEF StreamInv
<1> QED BY <1>1, <1>2, <1>3 DEF BrokerInv

\* A step of a publisher that offers nothing leaves what it has to do, or forgets it.
LEMMA PublisherStays ==
  ASSUME BrokerInv, NEW p \in EventPublishers, NEW next,
         next \in [pc : {"idle", "stored", "offering", "sinks"}, event : Nat,
                   todo : SUBSET Streams],
         publisher' = [publisher EXCEPT ![p] = next],
         next.pc # "idle" => next.event = publisher[p].event /\ publisher[p].pc # "idle",
         next.todo # {} => next.pc = "offering",
         UNCHANGED stored
  PROVE  PublisherInv'
<1>1. /\ publisher' \in [EventPublishers -> [pc : {"idle", "stored", "offering", "sinks"},
                                             event : Nat, todo : SUBSET Streams]]
      /\ \A q \in EventPublishers : publisher'[q] = IF q = p THEN next ELSE publisher[q]
  BY DEF BrokerInv, PublisherInv
<1> QED BY <1>1 DEF BrokerInv, PublisherInv

\* Publish: an event is new to every stream.
LEMMA PublishStep ==
  ASSUME BrokerInv, NEW p \in EventPublishers, PublishEvent(p)
  PROVE  BrokerInv'
<1>1. PICK topic \in Topics : stored' = Append(stored, topic)
  BY DEF PublishEvent
<1>2. /\ stored' \in Seq(Topics) /\ Len(stored) \in Nat /\ Len(stored') = Len(stored) + 1
      /\ \A e \in 1 .. Len(stored) : stored'[e] = stored[e]
  BY <1>1, AppendProperties, LenProperties DEF BrokerInv, PublisherInv
<1> DEFINE next == [publisher[p] EXCEPT !.pc = "stored", !.event = Len(stored')]
<1>3. /\ next \in [pc : {"idle", "stored", "offering", "sinks"}, event : Nat,
                   todo : SUBSET Streams]
      /\ next.pc = "stored" /\ next.event = Len(stored) + 1 /\ next.todo = publisher[p].todo
      /\ publisher[p].todo = {}
  <2>1. /\ publisher[p] \in [pc : {"idle", "stored", "offering", "sinks"}, event : Nat,
                             todo : SUBSET Streams]
        /\ publisher[p].todo = {}
    BY DEF BrokerInv, PublisherInv, PublishEvent
  <2>2. Len(stored') \in Nat
    BY <1>2
  <2> QED BY <1>2, <2>1, <2>2
<1>4. publisher' = [publisher EXCEPT ![p] = next]
  BY DEF PublishEvent
<1> HIDE DEF next
<1>5. /\ publisher' \in [EventPublishers -> [pc : {"idle", "stored", "offering", "sinks"},
                                             event : Nat, todo : SUBSET Streams]]
      /\ \A q \in EventPublishers : publisher'[q] = IF q = p THEN next ELSE publisher[q]
  BY <1>3, <1>4 DEF BrokerInv, PublisherInv
<1>6. PublisherInv'
  <2>1. Len(stored') <= MaxEvents
    BY <1>2, BrokerAssumption DEF PublishEvent, BrokerInv, PublisherInv
  <2>2. \A q \in EventPublishers : publisher[q].pc # "idle" => publisher[q].event <= Len(stored)
    BY <1>2 DEF BrokerInv, PublisherInv
  <2>3. ASSUME NEW q \in EventPublishers
        PROVE  /\ publisher'[q].pc # "idle" => publisher'[q].event \in 1 .. Len(stored')
               /\ publisher'[q].todo # {} => publisher'[q].pc = "offering"
    BY <1>2, <1>3, <1>5, <2>3 DEF BrokerInv, PublisherInv
  <2>4. ASSUME NEW q \in EventPublishers, NEW r \in EventPublishers, q # r,
               publisher'[q].pc # "idle", publisher'[r].pc # "idle"
        PROVE  publisher'[q].event # publisher'[r].event
    <3>1. CASE q # p /\ r # p
      BY <1>5, <2>4, <3>1 DEF BrokerInv, PublisherInv
    <3>2. CASE q = p
      BY <1>2, <1>3, <1>5, <2>2, <2>4, <3>2
    <3>3. CASE r = p
      BY <1>2, <1>3, <1>5, <2>2, <2>4, <3>3
    <3> QED BY <3>1, <3>2, <3>3
  <2> QED BY <1>2, <1>5, <2>1, <2>3, <2>4 DEF PublisherInv
<1>7. StreamTypes' /\ UNCHANGED <<stream, channel, offeredTo, dropped>>
  BY DEF PublishEvent, BrokerInv, StreamTypes
<1>8. ASSUME NEW s \in Streams PROVE StreamInv(s)'
  <2>1. StreamInv(s)
    BY <1>8 DEF BrokerInv
  <2>2. Len(stored) + 1 \notin offeredTo[s]
    BY <1>2, <2>1 DEF StreamInv
  <2>3. Had(s)' = Had(s)
    BY <1>7 DEF Had
  <2> QED BY <1>2, <1>3, <1>5, <1>7, <2>1, <2>2, <2>3 DEF StreamInv
<1> QED BY <1>6, <1>7, <1>8 DEF BrokerInv

\* RLock, RUnlock and the sinks.
LEMMA LockStep ==
  ASSUME BrokerInv, NEW p \in EventPublishers, RLock(p) \/ RUnlock(p) \/ DeliverToSinks(p)
  PROVE  BrokerInv'
<1>1. UNCHANGED <<stored, stream, channel, offeredTo, dropped>>
  BY DEF RLock, RUnlock, DeliverToSinks
<1>2. PICK next \in [pc : {"idle", "stored", "offering", "sinks"}, event : Nat,
                     todo : SUBSET Streams] :
        /\ publisher' = [publisher EXCEPT ![p] = next]
        /\ next.pc # "stored"
        /\ next.pc # "idle" => next.event = publisher[p].event /\ publisher[p].pc # "idle"
        /\ next.todo # {} => /\ publisher[p].pc = "stored" /\ next.pc = "offering"
                             /\ next.todo = Subscribers
  <2>1. CASE RLock(p)
    <3> DEFINE next == [publisher[p] EXCEPT !.pc = "offering", !.todo = Subscribers]
    <3>1. publisher' = [publisher EXCEPT ![p] = next]
      BY <2>1 DEF RLock
    <3>2. /\ next \in [pc : {"idle", "stored", "offering", "sinks"}, event : Nat,
                       todo : SUBSET Streams]
          /\ next.pc = "offering" /\ next.event = publisher[p].event /\ next.todo = Subscribers
          /\ publisher[p].pc = "stored"
      BY <2>1 DEF RLock, Subscribers, BrokerInv, PublisherInv
    <3> HIDE DEF next
    <3> QED BY <3>1, <3>2
  <2>2. CASE RUnlock(p)
    <3> DEFINE next == [publisher[p] EXCEPT !.pc = "sinks"]
    <3>1. publisher' = [publisher EXCEPT ![p] = next]
      BY <2>2 DEF RUnlock
    <3>2. /\ next \in [pc : {"idle", "stored", "offering", "sinks"}, event : Nat,
                       todo : SUBSET Streams]
          /\ next.pc = "sinks" /\ next.event = publisher[p].event /\ next.todo = {}
          /\ publisher[p].pc = "offering"
      BY <2>2 DEF RUnlock, BrokerInv, PublisherInv
    <3> HIDE DEF next
    <3> QED BY <3>1, <3>2
  <2>3. CASE DeliverToSinks(p)
    <3>1. /\ NoPublish \in [pc : {"idle", "stored", "offering", "sinks"}, event : Nat,
                            todo : SUBSET Streams]
          /\ NoPublish.pc = "idle" /\ NoPublish.todo = {}
      BY DEF NoPublish
    <3> QED BY <2>3, <3>1 DEF DeliverToSinks
  <2> QED BY <2>1, <2>2, <2>3
<1>3. PublisherInv'
  BY <1>1, <1>2, PublisherStays
<1>4. \A q \in EventPublishers : publisher'[q] = IF q = p THEN next ELSE publisher[q]
  BY <1>2 DEF BrokerInv, PublisherInv
<1>5. ASSUME NEW s \in Streams PROVE StreamInv(s)'
  <2>1. StreamInv(s) /\ Had(s)' = Had(s)
    BY <1>1, <1>5 DEF BrokerInv, Had
  <2>2. s \in next.todo => /\ next.event \notin offeredTo[s]
                           /\ stream[s].pc \in {"open", "ended", "closing"}
    BY <1>2, <2>1 DEF StreamInv, Subscribers
  <2> QED BY <1>1, <1>2, <1>4, <2>1, <2>2 DEF StreamInv
<1> QED BY <1>1, <1>3, <1>5 DEF BrokerInv, StreamTypes

\* A subscriber is offered an event it has not been offered before.
LEMMA OfferStep ==
  ASSUME BrokerInv, NEW p \in EventPublishers, NEW s \in Streams, Offer(p, s)
  PROVE  BrokerInv'
<1> DEFINE e == publisher[p].event
           next == [publisher[p] EXCEPT !.todo = @ \ {s}]
<1>1. /\ e \in Nat /\ e \in 1 .. Len(stored) /\ e \notin offeredTo[s]
      /\ publisher[p].pc = "offering" /\ s \in publisher[p].todo
      /\ stream[s].pc \in {"open", "ended", "closing"}
  BY DEF Offer, BrokerInv, PublisherInv, StreamInv
<1>2. publisher' = [publisher EXCEPT ![p] = next]
  BY DEF Offer
<1>3. /\ next \in [pc : {"idle", "stored", "offering", "sinks"}, event : Nat,
                   todo : SUBSET Streams]
      /\ next.pc = "offering" /\ next.event = e /\ next.todo = publisher[p].todo \ {s}
  BY <1>1 DEF BrokerInv, PublisherInv
<1>4. UNCHANGED <<stored, stream>>
  BY DEF Offer
<1> HIDE DEF next
<1>5. PublisherInv'
  BY <1>1, <1>2, <1>3, <1>4, PublisherStays
<1>6. \A q \in EventPublishers : publisher'[q] = IF q = p THEN next ELSE publisher[q]
  BY <1>2 DEF BrokerInv, PublisherInv
<1>7. ASSUME NEW q \in EventPublishers, q # p
      PROVE  publisher[q].pc # "idle" => publisher[q].event # e
  BY <1>1, <1>7 DEF BrokerInv, PublisherInv
<1>8. ASSUME NEW q \in EventPublishers
      PROVE  /\ publisher'[q].pc # "stored" \/ publisher'[q].event # e
             /\ s \in publisher'[q].todo => publisher'[q].event # e
  BY <1>1, <1>3, <1>6, <1>7, <1>8 DEF BrokerInv, PublisherInv
<1>9. /\ \/ UNCHANGED <<offeredTo, channel, dropped>>
         \/ /\ offeredTo' = [offeredTo EXCEPT ![s] = @ \union {e}]
            /\ stored[e] \in stream[s].filter
            /\ \/ /\ channel' = [channel EXCEPT ![s] = Append(@, e)]
                  /\ Len(channel[s]) < BufferSize /\ UNCHANGED dropped
               \/ dropped' = [dropped EXCEPT ![s] = @ \union {e}] /\ UNCHANGED channel
  BY DEF Offer
<1>10. StreamTypes'
  <2>1. channel' \in [Streams -> Seq(Nat)]
    <3>1. channel \in [Streams -> Seq(Nat)] /\ Append(channel[s], e) \in Seq(Nat)
      BY <1>1, AppendProperties DEF BrokerInv, StreamTypes
    <3> QED BY <1>9, <3>1
  <2>2. offeredTo' \in [Streams -> SUBSET Nat] /\ dropped' \in [Streams -> SUBSET Nat]
    <3>1. /\ offeredTo \in [Streams -> SUBSET Nat] /\ dropped \in [Streams -> SUBSET Nat]
          /\ offeredTo[s] \union {e} \in SUBSET Nat /\ dropped[s] \union {e} \in SUBSET Nat
      BY <1>1 DEF BrokerInv, StreamTypes
    <3> QED BY <1>9, <3>1
  <2> QED BY <1>4, <2>1, <2>2 DEF BrokerInv, StreamTypes
<1>11. ASSUME NEW t \in Streams, t # s PROVE StreamInv(t)'
  <2>1. /\ channel'[t] = channel[t] /\ offeredTo'[t] = offeredTo[t]
        /\ dropped'[t] = dropped[t] /\ StreamInv(t)
    BY <1>9, <1>11 DEF BrokerInv, StreamTypes
  <2>2. Had(t)' = Had(t)
    BY <1>4, <2>1 DEF Had
  <2>3. ASSUME NEW q \in EventPublishers, t \in publisher'[q].todo
        PROVE  t \in publisher[q].todo /\ publisher'[q].event = publisher[q].event
    BY <1>3, <1>6, <1>11, <2>3
  <2>4. ASSUME NEW q \in EventPublishers, publisher'[q].pc = "stored"
        PROVE  publisher[q].pc = "stored" /\ publisher'[q].event = publisher[q].event
    BY <1>3, <1>6, <2>4
  <2> QED BY <1>4, <2>1, <2>2, <2>3, <2>4 DEF StreamInv
<1>12. StreamInv(s)'
  <2>1. /\ StreamInv(s) /\ channel[s] \in Seq(Nat) /\ stream[s].wrote \in Seq(Nat)
        /\ Len(channel[s]) \in Nat /\ offeredTo[s] \subseteq Nat /\ dropped[s] \subseteq Nat
    BY LenProperties DEF BrokerInv, StreamTypes
  <2>2. ASSUME NEW q \in EventPublishers
        PROVE  /\ publisher'[q].pc = "stored" => publisher'[q].event \notin offeredTo[s] \union {e}
               /\ s \in publisher'[q].todo => publisher'[q].event \notin offeredTo[s] \union {e}
    BY <1>3, <1>6, <1>8, <2>1, <2>2 DEF StreamInv
  <2>3. CASE UNCHANGED <<offeredTo, channel, dropped>>
    <3>1. Had(s)' = Had(s)
      BY <1>4, <2>3 DEF Had
    <3> QED BY <1>1, <1>4, <2>1, <2>2, <2>3, <3>1 DEF StreamInv
  <2>4. CASE /\ offeredTo'[s] = offeredTo[s] \union {e} /\ stored[e] \in stream[s].filter
             /\ channel'[s] = channel[s] /\ dropped'[s] = dropped[s] \union {e}
    <3>1. Had(s)' = Had(s)
      BY <1>4, <2>4 DEF Had
    <3>2. offeredTo'[s] \ dropped'[s] = offeredTo[s] \ dropped[s]
      BY <1>1, <2>4
    <3> QED BY <1>1, <1>4, <2>1, <2>2, <2>4, <3>1, <3>2 DEF StreamInv
  <2>5. CASE /\ offeredTo'[s] = offeredTo[s] \union {e} /\ stored[e] \in stream[s].filter
             /\ channel'[s] = Append(channel[s], e) /\ dropped'[s] = dropped[s]
             /\ Len(channel[s]) < BufferSize
    <3>1. Had(s)' = Append(Had(s), e) /\ Had(s) \in Seq(Nat)
      <4>1. stream[s].wrote \o Append(channel[s], e) = Append(stream[s].wrote \o channel[s], e)
        BY <1>1, <2>1, AppendToHad
      <4>2. Had(s)' = stream[s].wrote \o Append(channel[s], e)
        BY <1>4, <2>5 DEF Had
      <4>3. stream[s].wrote \o channel[s] \in Seq(Nat)
        BY <2>1, ConcatProperties
      <4> QED BY <4>1, <4>2, <4>3 DEF Had
    <3>2. e \notin Elements(Had(s)) /\ Distinct(Had(s))
      BY <1>1, <2>1 DEF StreamInv
    <3>3. Distinct(Had(s)') /\ Elements(Had(s)') = Elements(Had(s)) \union {e}
      BY <1>1, <3>1, <3>2, AppendNews
    <3>4. offeredTo'[s] \ dropped'[s] = (offeredTo[s] \ dropped[s]) \union {e}
      BY <1>1, <2>1, <2>5 DEF StreamInv
    <3>5. Len(channel'[s]) <= BufferSize
      BY <1>1, <2>1, <2>5, AppendProperties, BrokerAssumption
    <3> QED BY <1>1, <1>4, <2>1, <2>2, <2>5, <3>3, <3>4, <3>5 DEF StreamInv
  <2> QED BY <1>9, <2>3, <2>4, <2>5 DEF BrokerInv, StreamTypes
<1> QED BY <1>5, <1>10, <1>11, <1>12 DEF BrokerInv

-----------------------------------------------------------------------------
\* A stream changes, without an event; it is not closed under a publisher.
LEMMA StreamStep ==
  ASSUME BrokerInv, NEW s \in Streams,
         \/ \E filter \in Filters : BeginStream(s, filter)
         \/ Subscribe(s) \/ EndStream(s) \/ AwaitLock(s) \/ CloseStream(s)
  PROVE  BrokerInv'
<1>1. UNCHANGED <<stored, publisher, channel, offeredTo, dropped>>
  BY DEF BeginStream, Subscribe, EndStream, AwaitLock, CloseStream
<1>2. stream[s] \in [pc : StreamLabels, filter : Filters \union {{}}, wrote : Seq(Nat)]
  BY DEF BrokerInv, StreamTypes
<1> DEFINE Becomes(next) ==
             /\ next \in [pc : StreamLabels, filter : Filters \union {{}}, wrote : Seq(Nat)]
             /\ stream' = [stream EXCEPT ![s] = next]
             /\ next.wrote = stream[s].wrote
             /\ next.filter = stream[s].filter \/ stream[s].pc = "idle"
             /\ next.pc \in {"idle", "subscribing"} => stream[s].pc = "idle"
             /\ next.pc \in {"open", "ended", "closing"} \/ stream[s].pc = "idle" \/ Readers = {}
<1>3. PICK next : Becomes(next)
  <2>1. CASE \E filter \in Filters : BeginStream(s, filter)
    <3>1. PICK filter \in Filters : BeginStream(s, filter)
      BY <2>1
    <3> DEFINE next == [stream[s] EXCEPT !.pc = "subscribing", !.filter = filter]
    <3>2. stream' = [stream EXCEPT ![s] = next]
      BY <3>1 DEF BeginStream
    <3>4. stream[s].pc = "idle"
      BY <3>1 DEF BeginStream, NoStream
    <3>3. /\ next \in [pc : StreamLabels, filter : Filters \union {{}}, wrote : Seq(Nat)]
          /\ next.pc = "subscribing" /\ next.wrote = stream[s].wrote
      BY <1>2 DEF StreamLabels
    <3> HIDE DEF next
    <3>5. Becomes(next)
      BY <3>2, <3>3, <3>4
    <3> QED BY <3>5
  <2>2. ASSUME NEW label \in {"open", "ended", "closing", "closed"},
               stream' = [stream EXCEPT ![s].pc = label], label = "closed" => Readers = {}
        PROVE  \E next : Becomes(next)
    <3> DEFINE next == [stream[s] EXCEPT !.pc = label]
    <3>1. /\ next \in [pc : StreamLabels, filter : Filters \union {{}}, wrote : Seq(Nat)]
          /\ next.pc = label /\ next.wrote = stream[s].wrote /\ next.filter = stream[s].filter
      BY <1>2 DEF StreamLabels
    <3>2. stream' = [stream EXCEPT ![s] = next]
      BY <2>2
    <3> HIDE DEF next
    <3>3. Becomes(next)
      BY <2>2, <3>1, <3>2
    <3> QED BY <3>3
  <2>3. \/ \E filter \in Filters : BeginStream(s, filter)
        \/ \E label \in {"open", "ended", "closing", "closed"} :
             stream' = [stream EXCEPT ![s].pc = label] /\ (label = "closed" => Readers = {})
    BY DEF Subscribe, EndStream, AwaitLock, CloseStream
  <2> HIDE DEF Becomes
  <2> QED BY <2>1, <2>2, <2>3
<1>4. /\ stream' \in [Streams -> [pc : StreamLabels, filter : Filters \union {{}},
                                  wrote : Seq(Nat)]]
      /\ \A t \in Streams : stream'[t] = IF t = s THEN next ELSE stream[t]
  BY <1>3 DEF BrokerInv, StreamTypes
<1>5. ASSUME NEW t \in Streams PROVE StreamInv(t)'
  <2>1. StreamInv(t) /\ stream'[t].wrote = stream[t].wrote
    BY <1>3, <1>4, <1>5 DEF BrokerInv
  <2>2. Had(t)' = Had(t)
    BY <1>1, <2>1 DEF Had
  <2>3. CASE t # s
    BY <1>1, <1>4, <2>1, <2>2, <2>3 DEF StreamInv
  <2>4. CASE t = s
    <3>1. ASSUME NEW p \in EventPublishers, s \in publisher[p].todo
          PROVE  next.pc \in {"open", "ended", "closing"}
      <4>1. publisher[p].pc = "offering" /\ stream[s].pc # "idle"
        BY <3>1 DEF BrokerInv, PublisherInv, StreamInv
      <4> QED BY <1>3, <4>1 DEF Readers
    <3>2. \A e \in offeredTo[s] : stored[e] \in next.filter
      BY <1>3, <2>1, <2>4 DEF StreamInv
    <3> QED BY <1>1, <1>3, <1>4, <2>1, <2>2, <2>4, <3>1, <3>2 DEF StreamInv
  <2> QED BY <2>3, <2>4
<1> QED BY <1>1, <1>4, <1>5 DEF BrokerInv, PublisherInv, StreamTypes

\* An event moves from the channel to what has been written.
LEMMA EventStep ==
  ASSUME BrokerInv, NEW s \in Streams, StreamEvent(s)
  PROVE  BrokerInv'
<1> DEFINE w == stream[s].wrote
           c == channel[s]
           next == [stream[s] EXCEPT !.wrote = Append(@, Head(channel[s]))]
<1>1. /\ w \in Seq(Nat) /\ c \in Seq(Nat) /\ c # <<>>
      /\ stream[s] \in [pc : StreamLabels, filter : Filters \union {{}}, wrote : Seq(Nat)]
      /\ stream[s].pc \notin {"idle", "subscribing"} /\ Len(c) \in Nat
  BY LenProperties DEF StreamEvent, BrokerInv, StreamTypes
<1>2. /\ Append(w, Head(c)) \in Seq(Nat) /\ Tail(c) \in Seq(Nat)
      /\ Len(Tail(c)) = Len(c) - 1 /\ Append(w, Head(c)) \o Tail(c) = w \o c
  BY <1>1, MoveHead
<1>3. /\ next \in [pc : StreamLabels, filter : Filters \union {{}}, wrote : Seq(Nat)]
      /\ next.pc = stream[s].pc /\ next.filter = stream[s].filter
      /\ next.wrote = Append(w, Head(c))
  BY <1>1, <1>2
<1>4. /\ stream' = [stream EXCEPT ![s] = next] /\ channel' = [channel EXCEPT ![s] = Tail(c)]
      /\ UNCHANGED <<stored, publisher, offeredTo, dropped>>
  BY DEF StreamEvent
<1> HIDE DEF next
<1>5. /\ StreamTypes'
      /\ \A t \in Streams : t # s => stream'[t] = stream[t] /\ channel'[t] = channel[t]
      /\ stream'[s] = next /\ channel'[s] = Tail(c)
  BY <1>2, <1>3, <1>4 DEF BrokerInv, StreamTypes
<1>6. ASSUME NEW t \in Streams PROVE StreamInv(t)'
  <2>1. Had(t)' = Had(t)
    BY <1>2, <1>3, <1>5, <1>6 DEF Had
  <2>5. StreamInv(t)
    BY <1>6 DEF BrokerInv
  <2>2. Len(channel'[t]) <= BufferSize
    <3>1. CASE t = s
      <4>1. Len(c) <= BufferSize
        BY <2>5, <3>1 DEF StreamInv
      <4>2. Len(Tail(c)) <= BufferSize
        BY ONLY <1>1, <1>2, <4>1, BrokerAssumption
      <4> QED BY <1>5, <3>1, <4>2
    <3>2. CASE t # s
      BY <1>5, <1>6, <2>5, <3>2 DEF StreamInv
    <3> QED BY <3>1, <3>2
  <2>3. stream'[t].pc = stream[t].pc /\ stream'[t].filter = stream[t].filter
    BY <1>3, <1>5, <1>6
  <2>4. stream'[t].pc \in {"idle", "subscribing"} => t # s
    BY <1>1, <2>3
  <2> QED BY <1>4, <1>5, <2>1, <2>2, <2>3, <2>4, <2>5 DEF StreamInv
<1> QED BY <1>4, <1>5, <1>6 DEF BrokerInv, PublisherInv

\* What publishers, subscriptions and streams know of each other.
THEOREM BrokerInvariant == BrokerSpec => []BrokerInv
<1>1. BrokerInv /\ [BrokerNext]_brokerVars => BrokerInv'
  <2> SUFFICES ASSUME BrokerInv, [BrokerNext]_brokerVars PROVE BrokerInv'
    OBVIOUS
  <2>1. CASE UNCHANGED brokerVars
    BY <2>1 DEF brokerVars, BrokerInv, PublisherInv, StreamTypes, StreamInv, Had
  <2>2. CASE BrokerNext
    BY <2>2, PublishStep, LockStep, OfferStep, StreamStep, EventStep
       DEF BrokerNext, PublisherStep, SubscriptionStep
  <2> QED BY <2>1, <2>2
<1> QED BY <1>1, BrokerInitInv, PTL DEF BrokerSpec

\* publishToSubscribers: no send meets a channel that the end of its subscription has
\* closed.
THEOREM NoSendOnClosedChannel == BrokerSpec => []NoSendAfterClose
<1>1. BrokerInv => NoSendAfterClose
  BY DEF BrokerInv, PublisherInv, StreamInv, NoSendAfterClose
<1> QED BY <1>1, BrokerInvariant, PTL

\* Publish: a stream shows every event once that it was offered and had room for, and
\* none that does not match, whatever the capacity.
THEOREM StreamsAreExact == BrokerSpec => []StreamsExact
<1>1. BrokerInv => BrokerTypeOK
  BY DEF BrokerInv, PublisherInv, StreamTypes, StreamLabels, StreamInv, BrokerTypeOK
<1>2. BrokerInv => StreamsExact
  BY <1>1 DEF BrokerInv, StreamInv, StreamsExact, Distinct, Elements
<1> QED BY <1>2, BrokerInvariant, PTL

-----------------------------------------------------------------------------
(* DeviceHandler *)

Sent == [session : Sessions, number : Nat, kind : MessageKinds, id : MessageIDs]

Descriptions == {m \in Sent : m.kind = "description"}

HandlerTypes ==
  /\ received \in [Sessions -> 0 .. MaxMessages]
  /\ loop \in [Sessions -> [pc : {"read", "handle", "queue", "answer", "ended"},
                            message : Sent \union {Nobody}]]
  /\ \A s \in Sessions : loop[s].pc \in {"handle", "queue", "answer"} => loop[s].message \in Sent
  /\ \A s \in Sessions : loop[s].pc = "queue" => loop[s].message.kind = "description"
  /\ pendingUpdates \in [MessageIDs -> Descriptions \union {Nobody}]
  /\ \A i \in MessageIDs : pendingUpdates[i] # Nobody => pendingUpdates[i].id = i

\* A device is taken from pendingUpdates by the goroutine of a message that has been
\* answered: the description itself, or another with the same id.
Released(m) == m \in answered \/ \E x \in answered : x # m /\ x.id = m.id

HandlerInv ==
  /\ HandlerTypes
  /\ after \subseteq answered
  /\ answered \subseteq Sent
  /\ checking \union checked \subseteq Descriptions
  /\ \A m \in checking \union checked : Released(m)

LEMMA NobodySent == Nobody \notin Sent
BY DEF Nobody, Sent, MessageKinds

LEMMA HandlerInitInv == HandlerInit => HandlerInv
BY MessagesAssumption DEF HandlerInit, HandlerInv, HandlerTypes, Idle, Nobody

\* Steps of a session loop that answer nothing.
LEMMA LoopTypes ==
  ASSUME HandlerTypes, NEW s \in Sessions, NEW next,
         next \in [pc : {"read", "handle", "queue", "answer", "ended"},
                   message : Sent \union {Nobody}],
         next.pc \in {"handle", "queue", "answer"} => next.message \in Sent,
         next.pc = "queue" => next.message.kind = "description",
         loop' = [loop EXCEPT ![s] = next],
         UNCHANGED pendingUpdates, received' \in [Sessions -> 0 .. MaxMessages]
  PROVE  HandlerTypes'
<1>1. loop' \in [Sessions -> [pc : {"read", "handle", "queue", "answer", "ended"},
                              message : Sent \union {Nobody}]]
  BY DEF HandlerTypes
<1>2. \A t \in Sessions : loop'[t] = IF t = s THEN next ELSE loop[t]
  BY DEF HandlerTypes
<1> QED BY <1>1, <1>2 DEF HandlerTypes

LEMMA ReadStep ==
  ASSUME HandlerInv, NEW s \in Sessions, NEW kind \in MessageKinds, NEW id \in MessageIDs,
         ReadMessage(s, kind, id)
  PROVE  HandlerInv'
<1> DEFINE next == [pc |-> "handle", message |-> Message(s, received'[s], kind, id)]
<1>1. received' \in [Sessions -> 0 .. MaxMessages]
  BY MessagesAssumption DEF ReadMessage, HandlerInv, HandlerTypes
<1>2. next.message \in Sent
  BY <1>1, MessagesAssumption DEF Message, Sent
<1>3. HandlerTypes'
  BY <1>1, <1>2, LoopTypes DEF ReadMessage, HandlerInv
<1> QED BY <1>3 DEF ReadMessage, HandlerInv, Released

LEMMA HandleStep ==
  ASSUME HandlerInv, NEW s \in Sessions, HandleOther(s) \/ HandleStored(s) \/ WriteFails(s)
  PROVE  HandlerInv'
<1> DEFINE m == loop[s].message
<1>1. UNCHANGED <<received, pendingUpdates, after, checking, answered, checked>>
  BY DEF HandleOther, HandleStored, WriteFails
<1>2. /\ loop[s] \in [pc : {"read", "handle", "queue", "answer", "ended"},
                      message : Sent \union {Nobody}]
      /\ loop[s].pc \in {"handle", "answer"} /\ m \in Sent
  BY DEF HandleOther, HandleStored, WriteFails, HandlerInv, HandlerTypes
<1> DEFINE Goes(next) ==
             /\ next \in [pc : {"read", "queue", "answer", "ended"},
                         message : Sent \union {Nobody}]
             /\ loop' = [loop EXCEPT ![s] = next]
             /\ next.pc \in {"queue", "answer"} => next.message = m
             /\ next.pc = "queue" => m.kind = "description"
<1>3. \E next : Goes(next)
  <2>1. CASE loop' = [loop EXCEPT ![s] = Idle]
    <3>1. Goes(Idle)
      BY <2>1 DEF Idle
    <3> QED BY <3>1
  <2>2. ASSUME NEW label \in {"queue", "answer", "ended"}, GoTo(s, label),
               label = "queue" => m.kind = "description"
        PROVE  \E next : Goes(next)
    <3>1. [loop[s] EXCEPT !.pc = label] = [pc |-> label, message |-> m]
      BY <1>2
    <3>2. loop' = [loop EXCEPT ![s] = [pc |-> label, message |-> m]]
      BY <2>2, <3>1 DEF GoTo
    <3>3. Goes([pc |-> label, message |-> m])
      BY <1>2, <2>2, <3>2
    <3> QED BY <3>3
  <2>3. \/ loop' = [loop EXCEPT ![s] = Idle]
        \/ \E label \in {"queue", "answer", "ended"} :
             GoTo(s, label) /\ (label = "queue" => m.kind = "description")
    BY DEF HandleOther, HandleStored, WriteFails
  <2> HIDE DEF Goes
  <2> QED BY <2>1, <2>2, <2>3
<1>4. HandlerTypes'
  BY <1>1, <1>2, <1>3, LoopTypes DEF HandlerInv, HandlerTypes
<1> QED BY <1>1, <1>4 DEF HandlerInv, Released

\* queueFirmwareUpdate enters a description under its id.
LEMMA QueueStep ==
  ASSUME HandlerInv, NEW s \in Sessions, QueueFirmwareUpdate(s)
  PROVE  HandlerInv'
<1> DEFINE m == loop[s].message
<1>1. /\ m \in Descriptions /\ m \in Sent /\ m.id \in MessageIDs
      /\ loop[s].message \in Sent \union {Nobody}
  BY DEF QueueFirmwareUpdate, HandlerInv, HandlerTypes, Descriptions, Sent
<1>2. [loop[s] EXCEPT !.pc = "answer"] = [pc |-> "answer", message |-> m]
  BY DEF HandlerInv, HandlerTypes
<1>3. loop' = [loop EXCEPT ![s] = [pc |-> "answer", message |-> m]]
  BY <1>2 DEF QueueFirmwareUpdate, GoTo
<1>4. /\ loop' \in [Sessions -> [pc : {"read", "handle", "queue", "answer", "ended"},
                                 message : Sent \union {Nobody}]]
      /\ \A t \in Sessions : loop'[t] = IF t = s THEN [pc |-> "answer", message |-> m]
                                        ELSE loop[t]
  BY <1>1, <1>3 DEF HandlerInv, HandlerTypes
<1>5. /\ pendingUpdates' \in [MessageIDs -> Descriptions \union {Nobody}]
      /\ \A i \in MessageIDs : pendingUpdates'[i] # Nobody => pendingUpdates'[i].id = i
  BY <1>1 DEF QueueFirmwareUpdate, HandlerInv, HandlerTypes
<1>6. HandlerTypes'
  BY <1>1, <1>4, <1>5 DEF QueueFirmwareUpdate, HandlerInv, HandlerTypes
<1> QED BY <1>6 DEF QueueFirmwareUpdate, HandlerInv, Released

LEMMA WriteStep ==
  ASSUME HandlerInv, NEW s \in Sessions, WriteAnswer(s)
  PROVE  HandlerInv'
<1>1. loop[s].message \in Sent
  BY DEF WriteAnswer, HandlerInv, HandlerTypes
<1>2. Idle \in [pc : {"read", "handle", "queue", "answer", "ended"},
                message : Sent \union {Nobody}] /\ Idle.pc = "read"
  BY DEF Idle
<1>3. HandlerTypes'
  BY <1>2, LoopTypes DEF WriteAnswer, HandlerInv, HandlerTypes
<1> QED BY <1>1, <1>3 DEF WriteAnswer, HandlerInv, Released

\* AfterResponse of an answered message takes whatever waits under its id.
LEMMA TakeStep ==
  ASSUME HandlerInv, NEW m \in after, TakePendingUpdate(m)
  PROVE  HandlerInv'
<1>1. m \in answered /\ m \in Sent /\ m.id \in MessageIDs
  BY DEF HandlerInv, Sent
<1> DEFINE x == pendingUpdates[m.id]
<1>2. x # Nobody => x \in Descriptions /\ x.id = m.id
  BY <1>1 DEF HandlerInv, HandlerTypes
<1>3. x # Nobody => Released(x)
  BY <1>1, <1>2 DEF Released
<1>4. HandlerTypes'
  BY <1>1 DEF TakePendingUpdate, HandlerInv, HandlerTypes
<1>5. checking' \union checked' \subseteq checking \union checked \union ({x} \ {Nobody})
  BY DEF TakePendingUpdate
<1>6. \A y \in checking' \union checked' : y \in Descriptions /\ Released(y)
  BY <1>2, <1>3, <1>5 DEF HandlerInv
<1> QED BY <1>4, <1>6 DEF TakePendingUpdate, HandlerInv, Released

LEMMA CheckStep ==
  ASSUME HandlerInv, NEW m \in checking, CheckFirmware(m)
  PROVE  HandlerInv'
<1>1. checking' \union checked' \subseteq checking \union checked
  BY DEF CheckFirmware
<1>2. HandlerTypes'
  BY DEF CheckFirmware, HandlerInv, HandlerTypes
<1> QED BY <1>1, <1>2 DEF CheckFirmware, HandlerInv, Released

\* Every device that is checked for an update was released by an answered message.
THEOREM HandlerInvariant == HandlerSpec => []HandlerInv
<1>1. HandlerInv /\ [HandlerNext]_handlerVars => HandlerInv'
  <2> SUFFICES ASSUME HandlerInv, [HandlerNext]_handlerVars PROVE HandlerInv'
    OBVIOUS
  <2>1. CASE UNCHANGED handlerVars
    BY <2>1 DEF handlerVars, HandlerInv, HandlerTypes, Released
  <2>2. CASE HandlerNext
    BY <2>2, ReadStep, HandleStep, QueueStep, WriteStep, TakeStep, CheckStep
       DEF HandlerNext, LoopStep, GoroutineStep
  <2> QED BY <2>1, <2>2
<1> QED BY <1>1, HandlerInitInv, PTL DEF HandlerSpec

\* AfterResponse: a device is checked for an update only after its description has been
\* acknowledged, unless another message has the description's id.
THEOREM ChecksFollowAnswers == HandlerSpec => []CheckAfterAnswer
<1>1. HandlerInv => HandlerTypeOK
  BY DEF HandlerInv, HandlerTypes, HandlerTypeOK, Descriptions
<1>2. ASSUME HandlerInv, NEW m \in checking \union checked, m.id \notin SharedIDs
      PROVE  m \in answered
  <2>1. m # Nobody
    BY <1>2, NobodySent DEF HandlerInv, Descriptions
  <2>2. SUFFICES ASSUME NEW x \in answered, x # m, x.id = m.id
                 PROVE  m.id \in SharedIDs
    BY <1>2 DEF HandlerInv, Released
  <2>3. m \in Messages /\ x \in Messages
    BY <1>2, <2>2 DEF Messages
  <2> QED BY <2>1, <2>2, <2>3 DEF SharedIDs
<1>3. HandlerInv => CheckAfterAnswer
  BY <1>1, <1>2 DEF CheckAfterAnswer, HandlerInv, Descriptions
<1> QED BY <1>3, HandlerInvariant, PTL

-----------------------------------------------------------------------------
(* Startup *)

Labels == {"down", "keys", "private", "public", "admin", "http", "tcp", "failed", "wait",
           "stopTCP", "stopHTTP", "exit"}

\* Where the process has got to tells what of the key files is there.
KeyFiles ==
  /\ publicFile # NoFile => /\ privateFile.state = "whole"
                            /\ publicFile.pair = privateFile.pair
  /\ privateFile.state = "none" => privateFile = NoFile
  /\ At("private") => privateFile = Partial(made) /\ publicFile = NoFile
  /\ At("public") => privateFile = Whole(made)
  /\ life.pc \in {"admin", "http", "tcp", "failed", "wait", "stopTCP", "stopHTTP"}
       => publicFile # NoFile
  /\ served # {} => publicFile # NoFile
  /\ \A f \in served : f.pair = privateFile.pair

\* A pair is made once in a start, and listeners are open only while it serves.
Running ==
  /\ life \in [pc : Labels, count : 0 .. MaxLives]
  /\ made \in Nat /\ made <= life.count
  /\ At("keys") => made < life.count
  /\ privateFile.state \in {"none", "partial", "whole"}
  /\ http # "closed" => life.pc \in {"tcp", "wait", "stopTCP", "stopHTTP", "exit"}
  /\ tcp # "closed" => life.pc \in {"wait", "stopTCP"}
  /\ life.pc \in {"tcp", "wait", "stopTCP"} => http # "closed"

StartupInv == KeyFiles /\ Running

LEMMA FileShapes ==
  ASSUME NEW n
  PROVE  /\ Partial(n).state = "partial" /\ Partial(n).pair = n
         /\ Whole(n).state = "whole" /\ Whole(n).pair = n
         /\ NoFile.state = "none" /\ Partial(n) # NoFile /\ Whole(n) # NoFile
BY DEF Partial, Whole, NoFile

LEMMA StartupInitInv == StartupInit => StartupInv
BY LivesAssumption, FileShapes
   DEF StartupInit, StartupInv, KeyFiles, Running, Labels, At

\* A step of the process that leaves the files alone.
LEMMA ProcessKeepsFiles ==
  ASSUME StartupInv, UNCHANGED Files, UNCHANGED served,
         life'.pc \notin {"private", "public"},
         life'.pc \in {"admin", "http", "tcp", "failed", "wait", "stopTCP", "stopHTTP"}
           => publicFile # NoFile
  PROVE  KeyFiles'
BY DEF StartupInv, KeyFiles, Files, At

LEMMA LaunchStep == StartupInv /\ Launch => StartupInv'
<1> SUFFICES ASSUME StartupInv, Launch PROVE StartupInv'
  OBVIOUS
<1>1. life'.pc = "keys" /\ life'.count = life.count + 1 /\ life.count < MaxLives
  BY DEF Launch
<1>2. KeyFiles'
  BY <1>1, ProcessKeepsFiles DEF Launch
<1>3. life' \in [pc : Labels, count : 0 .. MaxLives]
  BY LivesAssumption DEF StartupInv, Running, Launch, Labels
<1> QED BY <1>1, <1>2, <1>3 DEF StartupInv, Running, Launch, At, Files, Listeners

\* The key files are written: the public one only after the private one, which is
\* created only if there is none.
LEMMA EnsureServerKeyPairStep == StartupInv /\ EnsureServerKeyPair => StartupInv'
<1> SUFFICES ASSUME StartupInv, EnsureServerKeyPair PROVE StartupInv'
  OBVIOUS
<1>1. CASE privateFile # NoFile
  <2>1. KeyFiles'
    BY <1>1, ProcessKeepsFiles DEF EnsureServerKeyPair, Go, StartupInv, Running
  <2> QED BY <1>1, <2>1 DEF EnsureServerKeyPair, StartupInv, Running, Go, At, Files, Listeners, Labels
<1>2. CASE privateFile = NoFile
  <2>1. /\ At("keys") /\ Go("private")
        /\ made' = made + 1 /\ privateFile' = Partial(made')
        /\ UNCHANGED <<publicFile, Listeners, signalled, served>>
    BY <1>2 DEF EnsureServerKeyPair
  <2>2. life'.pc = "private" /\ life'.count = life.count
        /\ life' \in [pc : Labels, count : 0 .. MaxLives]
    BY <2>1 DEF Go, StartupInv, Running, Labels
  <2>3. publicFile = NoFile /\ served = {}
    BY <1>2, FileShapes DEF StartupInv, KeyFiles
  <2>4. KeyFiles'
    BY <2>1, <2>2, <2>3, FileShapes DEF KeyFiles, At
  <2>5. Running'
    BY <2>1, <2>2, FileShapes DEF StartupInv, Running, At, Listeners
  <2> QED BY <2>4, <2>5 DEF StartupInv
<1> QED BY <1>1, <1>2

LEMMA WriteKeysStep ==
  StartupInv /\ (WritePrivateKey \/ CreatePublicKey \/ WritePublicKey) => StartupInv'
<1>1. ASSUME StartupInv, WritePrivateKey PROVE StartupInv'
  <2>1. life'.pc = "public" /\ life'.count = life.count
        /\ life' \in [pc : Labels, count : 0 .. MaxLives]
    BY <1>1 DEF WritePrivateKey, Go, StartupInv, Running, Labels
  <2>2. privateFile'.pair = privateFile.pair /\ privateFile' = Whole(made)
    BY <1>1, FileShapes DEF WritePrivateKey, StartupInv, KeyFiles
  <2> QED BY <1>1, <2>1, <2>2, FileShapes
          DEF WritePrivateKey, StartupInv, KeyFiles, Running, At, Listeners
<1>2. ASSUME StartupInv, CreatePublicKey PROVE StartupInv'
  BY <1>2, FileShapes DEF CreatePublicKey, StartupInv, KeyFiles, Running, At, Listeners
<1>3. ASSUME StartupInv, WritePublicKey PROVE StartupInv'
  <2>1. life'.pc = "admin" /\ life'.count = life.count
        /\ life' \in [pc : Labels, count : 0 .. MaxLives]
    BY <1>3 DEF WritePublicKey, Go, StartupInv, Running, Labels
  <2> QED BY <1>3, <2>1, FileShapes
          DEF WritePublicKey, StartupInv, KeyFiles, Running, At, Listeners
<1> QED BY <1>1, <1>2, <1>3

\* From the administrator to the listeners.
LEMMA ServeStep ==
  StartupInv /\ (EnsureAdmin \/ StartHTTP \/ StartTCP \/ ExitFailed) => StartupInv'
<1>1. ASSUME StartupInv, EnsureAdmin PROVE StartupInv'
  <2>1. KeyFiles'
    BY <1>1, ProcessKeepsFiles DEF EnsureAdmin, Go, StartupInv, Running, KeyFiles, At
  <2> QED BY <1>1, <2>1 DEF EnsureAdmin, StartupInv, Running, Go, At, Files, Listeners, Labels
<1>2. ASSUME StartupInv, StartHTTP PROVE StartupInv'
  <2>1. KeyFiles'
    BY <1>2, ProcessKeepsFiles DEF StartHTTP, Go, StartupInv, Running, KeyFiles, At
  <2> QED BY <1>2, <2>1 DEF StartHTTP, StartupInv, Running, Go, At, Files, Listeners, Labels
<1>3. ASSUME StartupInv, StartTCP PROVE StartupInv'
  <2>1. /\ At("tcp") /\ publicFile # NoFile /\ UNCHANGED Files
        /\ served' \in {served, served \union {publicFile}}
    BY <1>3 DEF StartTCP, StartupInv, KeyFiles, At
  <2>2. /\ life'.pc \in {"wait", "failed"} /\ life'.count = life.count
        /\ life' \in [pc : Labels, count : 0 .. MaxLives]
    BY <1>3 DEF StartTCP, Go, StartupInv, Running, Labels
  <2>3. KeyFiles'
    BY <1>3, <2>1, <2>2 DEF StartupInv, KeyFiles, At, Files
  <2>4. tcp = "closed"
    BY <1>3 DEF StartTCP, StartupInv, Running, At
  <2>5. \/ life'.pc = "wait" /\ tcp' = "open" /\ http' = http
        \/ life'.pc = "failed" /\ http' = "closed" /\ tcp' = tcp
    BY <1>3 DEF StartTCP, Go, StartupInv, Running
  <2> QED BY <1>3, <2>1, <2>2, <2>3, <2>4, <2>5 DEF StartupInv, Running, At, Files
<1>4. ASSUME StartupInv, ExitFailed PROVE StartupInv'
  <2>1. KeyFiles'
    BY <1>4, ProcessKeepsFiles DEF ExitFailed, Go, StartupInv, Running
  <2> QED BY <1>4, <2>1 DEF ExitFailed, StartupInv, Running, Go, At, Files, Listeners, Labels
<1> QED BY <1>1, <1>2, <1>3, <1>4

\* From the listeners to the end.
LEMMA StopStep ==
  StartupInv /\ (Wait \/ ShutdownTCP \/ ShutdownHTTP \/ Exit \/ Crash \/ PrepareFails)
    => StartupInv'
<1> SUFFICES ASSUME StartupInv, Wait \/ ShutdownTCP \/ ShutdownHTTP \/ Exit \/ Crash \/ PrepareFails
             PROVE  StartupInv'
  OBVIOUS
<1>1. UNCHANGED Files /\ UNCHANGED served
  BY DEF Wait, ShutdownTCP, ShutdownHTTP, Exit, Crash, PrepareFails
<1>2. /\ life'.pc \in {"stopTCP", "stopHTTP", "exit", "down"} /\ life'.count = life.count
      /\ life' \in [pc : Labels, count : 0 .. MaxLives]
  BY DEF Wait, ShutdownTCP, ShutdownHTTP, Exit, Crash, PrepareFails, Go, StartupInv, Running,
         Labels
<1>3. life'.pc \in {"stopTCP", "stopHTTP"} => publicFile # NoFile
  BY DEF Wait, ShutdownTCP, ShutdownHTTP, Exit, Crash, PrepareFails, Go, StartupInv, Running,
         KeyFiles, At
<1>4. KeyFiles'
  BY <1>1, <1>2, <1>3, ProcessKeepsFiles
<1>5. /\ http' # "closed" => life'.pc \in {"stopTCP", "stopHTTP", "exit"}
      /\ tcp' # "closed" => life'.pc = "stopTCP"
      /\ life'.pc = "stopTCP" => http' # "closed"
  BY DEF Wait, ShutdownTCP, ShutdownHTTP, Exit, Crash, PrepareFails, Go, StartupInv, Running,
         At, Listeners
<1> QED BY <1>1, <1>2, <1>4, <1>5 DEF StartupInv, Running, At, Files

LEMMA EnvironmentStep == StartupInv /\ (Stream \/ ListenerFails \/ Signal) => StartupInv'
BY DEF Stream, ListenerFails, Signal, StartupInv, KeyFiles, Running, At, Files, Listeners

\* Through starts, failures, signals and crashes at any step, the files are what the
\* place of the process says: EnsureServerKeyPair, writePEM.
THEOREM StartupInvariant == StartupSpec => []StartupInv
<1>1. StartupInit => StartupInv
  BY StartupInitInv
<1>2. StartupInv /\ [StartupNext]_startupVars => StartupInv'
  <2>1. StartupInv /\ StartupNext => StartupInv'
    BY LaunchStep, EnsureServerKeyPairStep, WriteKeysStep, ServeStep, StopStep, EnvironmentStep
       DEF StartupNext, ProcessStep
  <2>2. StartupInv /\ UNCHANGED startupVars => StartupInv'
    BY DEF startupVars, StartupInv, KeyFiles, Running, At
  <2> QED BY <2>1, <2>2
<1> QED BY <1>1, <1>2, PTL DEF StartupSpec

\* A server that is up has the key pair it has always served with, both files of it,
\* whatever crashed before: EnsureServerKeyPair.
THEOREM KeyPairIsKept == StartupSpec => []KeyPairKept
<1>1. StartupInv => StartupTypeOK
  BY LivesAssumption DEF StartupInv, Running, StartupTypeOK
<1>2. StartupInv => KeyPairKept
  BY <1>1 DEF StartupInv, Running, KeyFiles, KeyPairKept
<1> QED BY <1>2, StartupInvariant, PTL
=============================================================================
