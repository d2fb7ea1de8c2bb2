\* Repetition that nothing switches off.
SPECIFICATION Spec
CONSTANTS
  Programs = {"node"}
  Command <- AllCommands
  Repeatable = {"SV"}
  Given = {}
  Arriving = {"Velocity", "AutorepeatVelociyCommand", "CutOffMotorsTimeout"}
  Periods = {1}
  MaxCmds = 2
  MaxCalls = 2
  MaxAnswers = 1
  Names = {"SMODE", "tmc200cfg", "other", "text"}
  MaxNodes = 1
  MaxKeys = 2
  MaxLateAnswers = 1
PROPERTY MotorsCutOff
\* A program may exit, and messages may cease.
CHECK_DEADLOCK FALSE
