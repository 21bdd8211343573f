\* Two producers of two messages each, two consumers.
SPECIFICATION Spec
CONSTANTS
  Producers = {p1, p2}
  Consumers = {c1, c2}
  MaxMessages = 2
  NoThread = NoThread
  NullMsg = NullMsg
INVARIANTS TypeOK MutualExclusion SemaphoreCounts TakesAMessage
PROPERTIES ImplementsFifo Delivered EnqueueReturns
