\* Waiting for answers that may be late.
SPECIFICATION FairSpec
CONSTANTS
  CmdBlocks = {c1, c2, c3}
  FeedbackBlocks = {f1, f2, f3}
  NULL = NULL
  Faults <- LateDevice
  MaxCmds = 2
  MaxBacklog = 1
  Api = {"wait", "callback"}
INVARIANT CopyHasString
PROPERTY DeliveryInOrder
PROPERTY WaitNotStale
PROPERTY GateReopens
\* The application may stop calling the library at any time.
CHECK_DEADLOCK FALSE
