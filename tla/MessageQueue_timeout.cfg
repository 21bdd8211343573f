\* A call of dequeue whose second is up retries for ever.
SPECIFICATION Spec
CONSTANTS
  Producers = {p1, p2}
  Consumers = {c1, c2}
  MaxMessages = 2
  NoThread = NoThread
  NullMsg = NullMsg
PROPERTIES DequeueReturns
