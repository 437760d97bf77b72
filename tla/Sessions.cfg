SPECIFICATION MCSpec
CONSTANTS
  EventPublishers = {"p1", "p2"}
  Streams = {"s1", "s2"}
  Topics = {"a", "b"}
  Filters = {{"a"}}
  BufferSize = 1
  MaxEvents = 2
  Sessions = {"s1", "s2"}
  MessageIDs = {1, 2}
  MaxMessages = 2
  MaxLives = 3
INVARIANTS
  NoSendAfterClose
  StreamsExact
  CheckAfterAnswer
  KeyPairKept
PROPERTIES
  BrokerReturns
  DescriptionsChecked
  StartAndStopReturn
CHECK_DEADLOCK FALSE
