\* A command accepted while the sender goes to sleep.
SPECIFICATION FairSpec
CONSTANTS
  CmdBlocks = {c1, c2, c3}
  FeedbackBlocks = {f1, f2}
  NULL = NULL
  Faults <- NoFaults
  MaxCmds = 1
  MaxBacklog = 1
  Api = {}
PROPERTY AcceptedIsSent
\* The application may stop calling the library at any time.
CHECK_DEADLOCK FALSE
