\* The answer that a wait returns after two commands.
SPECIFICATION Spec
CONSTANTS
  CmdBlocks = {c1, c2, c3}
  FeedbackBlocks = {f1, f2, f3}
  NULL = NULL
  Faults <- NoFaults
  MaxCmds = 2
  MaxBacklog = 1
  Api = {"wait", "callback"}
INVARIANT WaitReturnsRecent
\* The application may stop calling the library at any time.
CHECK_DEADLOCK FALSE
