\* The parts of the system that share nothing.
SPECIFICATION Spec
CONSTANTS
  Parts = {"queue", "gate", "receive", "parser", "convert"}
  Producers = {p}
  Consumers = {c}
  HeapBlocks = {i1, i2, i3, i4}
  NULL = NULL
  Worker = worker
  Callers = {caller1, caller2}
  Nobody = Nobody
  MaxLooks = 3
  DataSize = 5
  TextLengths = {0, 1, 3, 4}
  Questions = 3
  Keys = {1, 2, 3}
  Payloads = {"a", "b"}
  MaxGroups = 3
  Numbers = {0, 1, 40000, 65536}
  MaxTokens = 4
INVARIANT AnswersWhole
INVARIANT InStreamOrder
INVARIANT ParsedGroups
INVARIANT IterationInOrder
INVARIANT ShortsWhole
INVARIANT IntsBeforeZero
INVARIANT NoWakeUpLost
PROPERTY QueuesImplemented
PROPERTY GateImplemented
PROPERTY GatePasses
\* A conversion takes no step, and the threads and the device may stop.
CHECK_DEADLOCK FALSE
