\* From init, which may fail, to shutdown, with waits, callback and errors.
SPECIFICATION Spec
CONSTANTS
  CmdBlocks = {c1, c2, c3}
  FeedbackBlocks = {f1, f2, f3}
  NULL = NULL
  Faults <- PromptDevice
  MaxCmds = 2
  MaxBacklog = 1
  Api = {"wait", "callback", "shutdown"}
INVARIANT TypeOK
INVARIANT Ownership
INVARIANT TeardownQuiescent
INVARIANT AnswerTagMatches
\* The application may stop calling the library at any time.
CHECK_DEADLOCK FALSE
