\* A second shutdown, after a command was given up by the first.
SPECIFICATION FairSpec
CONSTANTS
  CmdBlocks = {c1, c2, c3}
  FeedbackBlocks = {f1, f2}
  NULL = NULL
  Faults <- NoFaults
  MaxCmds = 2
  MaxBacklog = 1
  Api = {"repeat", "shutdown", "reinit"}
PROPERTY SleeperStops
\* The application may stop calling the library at any time.
CHECK_DEADLOCK FALSE
