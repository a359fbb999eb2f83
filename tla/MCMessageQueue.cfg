\* Two producers, two consumers, three messages: both ends of the deque are
\* contended, and there are more messages than threads at either end.
CONSTANTS
  p1 = p1
  p2 = p2
  c1 = c1
  c2 = c2
  Null = Null
  Producers <- MCProducers
  Consumers <- MCConsumers
  MaxMessages = 3
SPECIFICATION Spec
INVARIANTS
  SemaphoreCountsMessages
  NoDequeRace
  WaitedMeansMessage
PROPERTIES
  EveryCallReturns
  EveryMessageHandedOver
  FifoSpec
