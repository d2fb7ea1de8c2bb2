\* The copy of an answer against its delivery.
SPECIFICATION Spec
CONSTANTS
  CmdBlocks = {c1, c2, c3}
  FeedbackBlocks = {f1, f2}
  NULL = NULL
  Faults <- NoFaults
  MaxCmds = 1
  MaxBacklog = 1
  Api = {"wait", "callback"}
INVARIANT CopyIntact
\* The application may stop calling the library at any time.
CHECK_DEADLOCK FALSE
