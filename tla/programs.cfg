\* The node and the direct test program over the command channel.
SPECIFICATION Spec
CONSTANTS
  Programs = {"node", "direct"}
  Command <- AllCommands
  Repeatable = {"SV"}
  Given = {1}
  Arriving = {"Velocity", "AutorepeatVelociyCommand", "CutOffMotorsTimeout", "GetMode", "Mode"}
  Periods = {1, 2}
  MaxCmds = 4
  MaxCalls = 2
  MaxAnswers = 1
  Names = {"SMODE", "tmc200cfg", "other", "text"}
  MaxNodes = 4
  MaxKeys = 2
  MaxLateAnswers = 1
INVARIANT NodeTypeOK
INVARIANT FeedbackHasPublisher
INVARIANT CutOffInTime
INVARIANT ConfigInDocumentOrder
PROPERTY FallsSilent
\* A program may exit, and messages may cease.
CHECK_DEADLOCK FALSE
