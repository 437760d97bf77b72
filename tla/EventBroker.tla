---------------------------- MODULE EventBroker ----------------------------
(***************************************************************************)
(* The event broker (internal/events/service.go) and the streams of the    *)
(* HTTP API that read from it (internal/httpapi/event_handlers.go).  A     *)
(* publisher stores its event, offers it to every subscriber while it      *)
(* holds the mutex for reading, and hands it to the sinks.  Subscribing    *)
(* and the end of a subscription take the mutex for writing: who waits for *)
(* that keeps new readers out, as sync.RWMutex does.                       *)
(***************************************************************************)
EXTENDS Naturals, Sequences

CONSTANTS
  EventPublishers,  \* goroutines that publish
  Streams,          \* requests for a stream of events
  Topics,           \* what filters tell events apart by
  Filters,          \* the filters in use: sets of the topics they match
  BufferSize,       \* capacity of a subscriber's channel: 16
  MaxEvents         \* bound of the events published

ASSUME BrokerAssumption == BufferSize \in Nat /\ MaxEvents \in Nat

VARIABLES
  stored,     \* the event store: topics in the order of their creation
  publisher,  \* label, the event, and the subscribers it is still to be offered to
  stream,     \* label, filter, and what the handler has written, by event
  channel,    \* the buffered channels: the events in them
  offeredTo,  \* history: events offered to a subscriber whose filter they match
  dropped     \* history: those among them that found a full channel

brokerVars == <<stored, publisher, stream, channel, offeredTo, dropped>>

NoPublish == [pc |-> "idle", event |-> 0, todo |-> {}]

NoStream == [pc |-> "idle", filter |-> {}, wrote |-> <<>>]

Readers == {p \in EventPublishers : publisher[p].pc = "offering"}

WaitingToWrite == {s \in Streams : stream[s].pc \in {"subscribing", "closing"}}

\* The keys of service.subscribers.
Subscribers == {s \in Streams : stream[s].pc \in {"open", "ended", "closing"}}

-----------------------------------------------------------------------------
\* Publish: the event is stored, or the error is returned and nobody sees it.
PublishEvent(p) ==
  /\ publisher[p].pc = "idle"
  /\ Len(stored) < MaxEvents
  /\ \E topic \in Topics : stored' = Append(stored, topic)
  /\ publisher' = [publisher EXCEPT ![p].pc = "stored", ![p].event = Len(stored')]
  /\ UNCHANGED <<stream, channel, offeredTo, dropped>>

\* publishToSubscribers: RLock.
RLock(p) ==
  /\ publisher[p].pc = "stored"
  /\ WaitingToWrite = {}
  /\ publisher' = [publisher EXCEPT ![p].pc = "offering", ![p].todo = Subscribers]
  /\ UNCHANGED <<stored, stream, channel, offeredTo, dropped>>

\* Mutant: a full channel is waited for.
OfferBlocking(p, s) ==
  LET e == publisher[p].event IN
  /\ publisher[p].pc = "offering"
  /\ s \in publisher[p].todo
  /\ stored[e] \in stream[s].filter => Len(channel[s]) < BufferSize
  /\ publisher' = [publisher EXCEPT ![p].todo = @ \ {s}]
  /\ IF stored[e] \in stream[s].filter
     THEN /\ offeredTo' = [offeredTo EXCEPT ![s] = @ \union {e}]
          /\ channel' = [channel EXCEPT ![s] = Append(@, e)]
     ELSE UNCHANGED <<offeredTo, channel>>
  /\ UNCHANGED <<stored, stream, dropped>>

\* Mutant: the subscriber may be met again in the same pass.
OfferTwice(p, s) ==
  LET e == publisher[p].event IN
  /\ publisher[p].pc = "offering"
  /\ s \in publisher[p].todo
  /\ \/ publisher' = [publisher EXCEPT ![p].todo = @ \ {s}]
     \/ UNCHANGED publisher
  /\ stored[e] \in stream[s].filter /\ Len(channel[s]) < BufferSize
  /\ offeredTo' = [offeredTo EXCEPT ![s] = @ \union {e}]
  /\ channel' = [channel EXCEPT ![s] = Append(@, e)]
  /\ UNCHANGED <<stored, stream, dropped>>

\* Mutant: the channel is taken to have room.
OfferUnbounded(p, s) ==
  LET e == publisher[p].event IN
  /\ publisher[p].pc = "offering"
  /\ s \in publisher[p].todo
  /\ publisher' = [publisher EXCEPT ![p].todo = @ \ {s}]
  /\ IF stored[e] \notin stream[s].filter
     THEN UNCHANGED <<offeredTo, channel>>
     ELSE /\ offeredTo' = [offeredTo EXCEPT ![s] = @ \union {e}]
          /\ channel' = [channel EXCEPT ![s] = Append(@, e)]
  /\ UNCHANGED <<stored, stream, dropped>>

\* One subscriber of the range: filter, and the send that a full channel skips.
Offer(p, s) ==
  LET e == publisher[p].event IN
  /\ publisher[p].pc = "offering"
  /\ s \in publisher[p].todo
  /\ publisher' = [publisher EXCEPT ![p].todo = @ \ {s}]
  /\ IF stored[e] \notin stream[s].filter
     THEN UNCHANGED <<offeredTo, channel, dropped>>
     ELSE /\ offeredTo' = [offeredTo EXCEPT ![s] = @ \union {e}]
          /\ IF Len(channel[s]) < BufferSize
             THEN channel' = [channel EXCEPT ![s] = Append(@, e)] /\ UNCHANGED dropped
             ELSE dropped' = [dropped EXCEPT ![s] = @ \union {e}] /\ UNCHANGED channel
  /\ UNCHANGED <<stored, stream>>

RUnlock(p) ==
  /\ publisher[p].pc = "offering"
  /\ publisher[p].todo = {}
  /\ publisher' = [publisher EXCEPT ![p].pc = "sinks"]
  /\ UNCHANGED <<stored, stream, channel, offeredTo, dropped>>

\* deliverToSinks copies the list of sinks, under the mutex, and calls one after the
\* other; each answers or times out.
DeliverToSinks(p) ==
  /\ publisher[p].pc = "sinks"
  /\ WaitingToWrite = {}
  /\ publisher' = [publisher EXCEPT ![p] = NoPublish]
  /\ UNCHANGED <<stored, stream, channel, offeredTo, dropped>>

-----------------------------------------------------------------------------
\* streamEvents calls Subscribe, which waits for the mutex ...
BeginStream(s, filter) ==
  /\ stream[s] = NoStream
  /\ stream' = [stream EXCEPT ![s].pc = "subscribing", ![s].filter = filter]
  /\ UNCHANGED <<stored, publisher, channel, offeredTo, dropped>>

\* ... and adds the channel.
Subscribe(s) ==
  /\ stream[s].pc = "subscribing"
  /\ Readers = {}
  /\ stream' = [stream EXCEPT ![s].pc = "open"]
  /\ UNCHANGED <<stored, publisher, channel, offeredTo, dropped>>

\* The handler receives an event and writes it, as its select may do even when the
\* context has ended; what is in a closed channel can still be received.
StreamEvent(s) ==
  /\ stream[s].pc \in {"open", "ended", "closing", "closed"}
  /\ channel[s] # <<>>
  /\ stream' = [stream EXCEPT ![s].wrote = Append(@, Head(channel[s]))]
  /\ channel' = [channel EXCEPT ![s] = Tail(@)]
  /\ UNCHANGED <<stored, publisher, offeredTo, dropped>>

\* The request's context ends: the client has gone, or the handler has returned
\* because a write failed.
EndStream(s) ==
  /\ stream[s].pc = "open"
  /\ stream' = [stream EXCEPT ![s].pc = "ended"]
  /\ UNCHANGED <<stored, publisher, channel, offeredTo, dropped>>

\* The goroutine of Subscribe wakes up and waits for the mutex ...
AwaitLock(s) ==
  /\ stream[s].pc = "ended"
  /\ stream' = [stream EXCEPT ![s].pc = "closing"]
  /\ UNCHANGED <<stored, publisher, channel, offeredTo, dropped>>

\* Mutant: the subscription is removed without the mutex.
CloseUnlocked(s) ==
  /\ stream[s].pc = "closing"
  /\ stream' = [stream EXCEPT ![s].pc = "closed"]
  /\ UNCHANGED <<stored, publisher, channel, offeredTo, dropped>>

\* ... removes the subscriber and closes its channel.
CloseStream(s) ==
  /\ stream[s].pc = "closing"
  /\ Readers = {}
  /\ stream' = [stream EXCEPT ![s].pc = "closed"]
  /\ UNCHANGED <<stored, publisher, channel, offeredTo, dropped>>

BrokerInit ==
  /\ stored = <<>>
  /\ publisher = [p \in EventPublishers |-> NoPublish]
  /\ stream = [s \in Streams |-> NoStream]
  /\ channel = [s \in Streams |-> <<>>]
  /\ offeredTo = [s \in Streams |-> {}] /\ dropped = [s \in Streams |-> {}]

PublisherStep(p) ==
  RLock(p) \/ (\E s \in Streams : Offer(p, s)) \/ RUnlock(p) \/ DeliverToSinks(p)

SubscriptionStep(s) == Subscribe(s) \/ AwaitLock(s) \/ CloseStream(s)

BrokerNext ==
  \/ \E p \in EventPublishers : PublishEvent(p) \/ PublisherStep(p)
  \/ \E s \in Streams :
       \/ \E filter \in Filters : BeginStream(s, filter)
       \/ SubscriptionStep(s) \/ StreamEvent(s) \/ EndStream(s)

\* Goroutines run, and sinks return; nobody has to read a stream or to end it.
BrokerFairness ==
  /\ \A p \in EventPublishers : WF_brokerVars(PublisherStep(p))
  /\ \A s \in Streams : WF_brokerVars(SubscriptionStep(s))

BrokerSpec == BrokerInit /\ [][BrokerNext]_brokerVars /\ BrokerFairness

-----------------------------------------------------------------------------
\* Types; a channel never holds more than its capacity.
BrokerTypeOK ==
  /\ stored \in Seq(Topics) /\ Len(stored) <= MaxEvents
  /\ \A p \in EventPublishers :
       /\ publisher[p].pc \in {"idle", "stored", "offering", "sinks"}
       /\ publisher[p].todo # {} => publisher[p].pc = "offering"
  /\ \A s \in Streams :
       /\ stream[s].pc \in {"idle", "subscribing", "open", "ended", "closing", "closed"}
       /\ Len(channel[s]) <= BufferSize

\* Subscribe, publishToSubscribers: no publisher is about to send on a channel that a
\* subscription's end has closed, which would panic.
NoSendAfterClose ==
  \A p \in EventPublishers : \A s \in publisher[p].todo : stream[s].pc # "closed"

\* What the stream of s has had or will have: the events written, then those waiting.
Had(s) == stream[s].wrote \o channel[s]

\* Publish: types; and a stream shows each event at most once and only if it matches, and misses
\* none that was offered except those that found its channel full.
StreamsExact ==
  /\ BrokerTypeOK
  /\ \A s \in Streams :
       LET events == {Had(s)[k] : k \in DOMAIN Had(s)} IN
       /\ \A j, k \in DOMAIN Had(s) : Had(s)[j] = Had(s)[k] => j = k
       /\ events = offeredTo[s] \ dropped[s]
       /\ \A e \in events : stored[e] \in stream[s].filter

\* A publisher returns although nobody reads the streams, and a subscription whose
\* context has ended is removed although publishers keep coming.
BrokerReturns ==
  /\ \A p \in EventPublishers : publisher[p].pc = "stored" ~> publisher[p].pc = "idle"
  /\ \A s \in Streams : stream[s].pc = "ended" ~> stream[s].pc = "closed"
=============================================================================
