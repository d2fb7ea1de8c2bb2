\* Commands and repetition through shutdown and new inits, under fair scheduling.
SPECIFICATION FairSpec
CONSTANTS
  CmdBlocks = {c1, c2, c3}
  FeedbackBlocks = {f1, f2, f3, f4}
  NULL = NULL
  Faults <- NoFaults
  MaxCmds = 2
  MaxBacklog = 1
  Api = {"repeat", "shutdown", "reinit"}
INVARIANT AllFreedAtDown
INVARIANT CounterNotShort
PROPERTY ImplementsChannel
PROPERTY WakeServesAll
PROPERTY SleeperExits
PROPERTY RepetitionStops
\* The application may stop calling the library at any time.
CHECK_DEADLOCK FALSE
