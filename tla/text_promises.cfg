\* A timeout in mid-answer, a feedback of several groups, and texts with a 0.
SPECIFICATION Spec
CONSTANTS
  Parts = {"text"}
  Producers = {p}
  Consumers = {c}
  HeapBlocks = {i1}
  NULL = NULL
  Worker = worker
  Callers = {caller1}
  Nobody = Nobody
  MaxLooks = 1
  DataSize = 5
  TextLengths = {3}
  Questions = 1
  Keys = {1, 2}
  Payloads = {"a"}
  MaxGroups = 2
  Numbers = {0, 1}
  MaxTokens = 2
INVARIANT SomeTextAsPromised
\* A conversion takes no step, and the device may stop.
CHECK_DEADLOCK FALSE
