-------------------------- MODULE Tmc200Controller --------------------------
(***************************************************************************)
(* The ROS node tmc200controller (tmc200controller.cpp) over the command   *)
(* channel of libtmc200ctrl_io.  One thread runs main: it starts the       *)
(* library, reads the parameters, and then takes up, one at a time and in  *)
(* the order of their arrival, the messages, service requests and timer    *)
(* expiries that ROS has queued (ros::spin).                               *)
(*                                                                         *)
(* A pending callback is the name of its topic or service, or Expiry.      *)
(* Arguments and answers are data, and whether a service succeeds changes  *)
(* nothing in the node: both are left out.  A setCmd that is refused is    *)
(* left out, too: the sender lives from init to shutdown.                  *)
(***************************************************************************)
EXTENDS CmdChannel, SequencesExt

CONSTANTS Given,       \* which parameters the parameter server has
          Arriving,    \* the topics and services that are used
          Periods,     \* values of CutOffMotorsTimeout, in ticks
          MaxCmds,     \* how many commands are given or waiting (a bound)
          MaxCalls,    \* how many callbacks wait besides the expiry (a bound)
          MaxAnswers   \* how many answers wait for the callback (a bound)

(* What main configures from the parameter server, in this order.          *)
ParameterCommands ==
  <<"SMODE", "SSEND", "SENCO", "SENCO", "SENCO", "SMDPT", "SVREG", "SVREG", "SVREG">>

TopicCommand ==
  [Mode |-> "SMODE", VelocityFeedbackVerbosity |-> "SSEND", EncoderConstants |-> "SENCO",
   RotationAngleConstant |-> "SMDPT", VelocityRegulatorsConstants |-> "SVREG",
   ResetOdometry |-> "SRODO"]

ServiceCommand ==
  [GetTMC200SWVers |-> "GVERS", GetMode |-> "GMODE", GetEncoderConstants |-> "GENCO",
   GetRotationAngleConstant |-> "GMDPT", GetVelocityRegulatorsConstants |-> "GVREG"]

Controls == {"AutorepeatVelociyCommand", "CutOffMotorsTimeout"}
Topics == DOMAIN TopicCommand \cup Controls \cup {"Velocity"}
Services == DOMAIN ServiceCommand
Expiry == "Expiry"
Callbacks == Topics \cup Services \cup {Expiry}

ASSUME GivenAssumption == Given \subseteq DOMAIN ParameterCommands
ASSUME ArrivingAssumption == Arriving \subseteq Topics \cup Services
ASSUME PeriodsAssumption == Periods \subseteq Nat \ {0}
ASSUME BoundsAssumption == {MaxCmds, MaxCalls, MaxAnswers} \subseteq Nat
ASSUME CommandAssumption == {"SV"} = Repeatable /\ Repeatable \subseteq Command

VARIABLES
  nodeAt,            \* where main is
  param,             \* the parameter it reads next
  isAutoresendSVSet,
  pointers,          \* which of the callbacks' pointers main has set
  timerRuns,         \* whether tCutOffTimer is started
  period,
  left,              \* the ticks until it elapses
  calls,             \* the callbacks that wait for ros::spin
  since,             \* ticks since repetition was last asked for (history)
  covered            \* an SV came while autorepeat was on (history)

timerVars == <<timerRuns, period, left>>
historyVars == <<since, covered>>
nodeVars == <<nodeAt, param, isAutoresendSVSet, pointers, timerVars, calls, historyVars>>

NodeTypeOK ==
  /\ nodeAt \in {"init", "callbacks", "publisher", "params", "autorepeat", "timer",
                 "spin", "SVqueued", "waiting", "waited", "shutdown", "exit"}
  /\ param \in 1 .. Len(ParameterCommands) + 1
  /\ isAutoresendSVSet \in BOOLEAN
  /\ pointers \subseteq {"feedbackFunc", "tSVFBPublisher", "tCutOffTimer"}
  /\ timerRuns \in BOOLEAN
  /\ period \in Periods /\ left \in Nat
  /\ calls \in Seq(Callbacks)
  /\ since \in Nat /\ covered \in BOOLEAN

NodeInit ==
  /\ nodeAt = "init"
  /\ param = 1
  /\ isAutoresendSVSet = FALSE
  /\ pointers = {}
  /\ timerRuns = FALSE
  /\ period \in Periods /\ left = period
  /\ calls = <<>>
  /\ since = 0 /\ covered = FALSE

-----------------------------------------------------------------------------
(* main, up to ros::spin.                                                  *)
InitLibrary ==
  /\ nodeAt = "init"
  /\ nodeAt' \in {"callbacks", "exit"}
  /\ UNCHANGED <<channelVars, param, isAutoresendSVSet, pointers, timerVars, calls, historyVars>>

SetCallbacks ==
  /\ nodeAt = "callbacks" /\ nodeAt' = "publisher"
  /\ pointers' = pointers \cup {"feedbackFunc"}
  /\ UNCHANGED <<channelVars, param, isAutoresendSVSet, timerVars, calls, historyVars>>

(* Mutant: the pointer to the publisher is not set.                        *)
AdvertiseOnly ==
  /\ nodeAt = "publisher" /\ nodeAt' = "params"
  /\ UNCHANGED <<channelVars, pointers, param, isAutoresendSVSet, timerVars, calls, historyVars>>

Advertise ==
  /\ nodeAt = "publisher" /\ nodeAt' = "params"
  /\ pointers' = pointers \cup {"tSVFBPublisher"}
  /\ UNCHANGED <<channelVars, param, isAutoresendSVSet, timerVars, calls, historyVars>>

(* A parameter that is given is sent as its command.                       *)
Parameter ==
  /\ nodeAt = "params"
  /\ param <= Len(ParameterCommands)
  /\ IF param \in Given THEN Accept(ParameterCommands[param]) ELSE UNCHANGED channelVars
  /\ param' = param + 1
  /\ nodeAt' = IF param = Len(ParameterCommands) THEN "autorepeat" ELSE nodeAt
  /\ UNCHANGED <<isAutoresendSVSet, pointers, timerVars, calls, historyVars>>

AutorepeatParameter ==
  /\ nodeAt = "autorepeat" /\ nodeAt' = "timer"
  /\ \/ \E val \in BOOLEAN : isAutoresendSVSet' = val /\ Want(val)
     \/ UNCHANGED <<channelVars, isAutoresendSVSet>>
  /\ UNCHANGED <<param, pointers, timerVars, calls, historyVars>>

(* The timer is created stopped; then the topics and services are offered. *)
CreateTimer ==
  /\ nodeAt = "timer" /\ nodeAt' = "spin"
  /\ pointers' = pointers \cup {"tCutOffTimer"}
  /\ period' \in Periods /\ left' = period'
  /\ UNCHANGED <<channelVars, param, isAutoresendSVSet, timerRuns, calls, historyVars>>

StartUp ==
  \/ InitLibrary \/ SetCallbacks \/ Advertise \/ Parameter \/ AutorepeatParameter \/ CreateTimer

-----------------------------------------------------------------------------
Waiting(callbacks) == SelectSeq(calls, LAMBDA call : call \in callbacks)
Messages == RemoveFirst(calls, Expiry)

(* ROS queues a callback.  The topic Velocity is there before ros::spin.   *)
Arrive(call) ==
  /\ nodeAt \in {"spin", "SVqueued", "waiting", "waited"}
       \/ (call = "Velocity" /\ nodeAt \in {"params", "autorepeat", "timer"})
  /\ Len(Messages) < MaxCalls
  /\ call \in Controls \/ Len(issued \o Waiting(Callbacks \ Controls)) < MaxCmds
  /\ calls' = Append(calls, call)
  /\ UNCHANGED <<channelVars, nodeAt, param, isAutoresendSVSet, pointers, timerVars, historyVars>>

(* The first callback is taken up; step says what it does besides.         *)
Take(call) ==
  /\ nodeAt = "spin"
  /\ calls # <<>> /\ Head(calls) = call
  /\ calls' = Tail(calls)
  /\ UNCHANGED <<param, pointers>>

(* SVSubsClbk up to its test of isAutoresendSVSet, and the rest of it.     *)
SVSubsClbk ==
  /\ Take("Velocity")
  /\ Accept("SV")
  /\ nodeAt' = "SVqueued"
  /\ UNCHANGED <<isAutoresendSVSet, timerVars, historyVars>>

(* Mutant: the timer is stopped but not started again.                     *)
SVSubsClbkStops ==
  /\ nodeAt = "SVqueued" /\ nodeAt' = "spin"
  /\ IF isAutoresendSVSet
       THEN /\ Want(TRUE)
            /\ timerRuns' = FALSE /\ left' = period
            /\ calls' = Messages
            /\ since' = 0 /\ covered' = TRUE
       ELSE UNCHANGED <<channelVars, timerRuns, left, calls, historyVars>>
  /\ UNCHANGED <<param, isAutoresendSVSet, pointers, period>>

(* Stopping the timer takes back an expiry that waits.                     *)
SVSubsClbkRest ==
  /\ nodeAt = "SVqueued" /\ nodeAt' = "spin"
  /\ IF isAutoresendSVSet
       THEN /\ Want(TRUE)
            /\ timerRuns' = TRUE /\ left' = period
            /\ calls' = Messages
            /\ since' = 0 /\ covered' = TRUE
       ELSE UNCHANGED <<channelVars, timerRuns, left, calls, historyVars>>
  /\ UNCHANGED <<param, isAutoresendSVSet, pointers, period>>

autoSVSubsClbk ==
  /\ Take("AutorepeatVelociyCommand")
  /\ \E val \in BOOLEAN :
       /\ isAutoresendSVSet' = val
       /\ Want(val)
       /\ since' = IF val THEN 0 ELSE since
  /\ UNCHANGED <<nodeAt, timerVars, covered>>

(* A new period counts from now; an expiry that waits stays.               *)
cutofftoSubsClbk ==
  /\ Take("CutOffMotorsTimeout")
  /\ period' \in Periods /\ left' = period'
  /\ since' = 0
  /\ UNCHANGED <<channelVars, nodeAt, isAutoresendSVSet, timerRuns, covered>>

SetterSubsClbk ==
  /\ \E topic \in DOMAIN TopicCommand : Take(topic) /\ Accept(TopicCommand[topic])
  /\ UNCHANGED <<nodeAt, isAutoresendSVSet, timerVars, historyVars>>

(* A service gives its command and waits for the next answer, which may    *)
(* take a tick (or there is none); its callback then returns.              *)
ServiceClbk ==
  /\ \E service \in Services : Take(service) /\ Accept(ServiceCommand[service])
  /\ nodeAt' = "waiting"
  /\ UNCHANGED <<isAutoresendSVSet, timerVars, historyVars>>

ServiceReturn ==
  /\ nodeAt \in {"waiting", "waited"} /\ nodeAt' = "spin"
  /\ UNCHANGED <<channelVars, param, isAutoresendSVSet, pointers, timerVars, calls, historyVars>>

(* Mutant: repetition is switched off only if autorepeat is.               *)
onCutOffTimerExpireLate ==
  /\ Take(Expiry)
  /\ Want(isAutoresendSVSet)
  /\ UNCHANGED <<nodeAt, isAutoresendSVSet, timerVars, historyVars>>

onCutOffTimerExpire ==
  /\ Take(Expiry)
  /\ Want(FALSE)
  /\ UNCHANGED <<nodeAt, isAutoresendSVSet, timerVars, historyVars>>

Spin ==
  \/ SVSubsClbk \/ SVSubsClbkRest \/ autoSVSubsClbk \/ cutofftoSubsClbk
  \/ SetterSubsClbk \/ ServiceClbk \/ ServiceReturn \/ onCutOffTimerExpire

(* Ctrl+C ends ros::spin between two callbacks; ros::shutdown drops what   *)
(* waits, and the library is shut down, which may lose its last commands.  *)
Interrupted ==
  /\ nodeAt = "spin" /\ nodeAt' = "shutdown"
  /\ calls' = <<>>
  /\ UNCHANGED <<channelVars, param, isAutoresendSVSet, pointers, timerVars, historyVars>>

Shutdown ==
  /\ nodeAt = "shutdown" /\ nodeAt' = "exit"
  /\ ShutDown
  /\ UNCHANGED <<param, isAutoresendSVSet, pointers, timerVars, calls, historyVars>>

-----------------------------------------------------------------------------
(* Mutant: the timer is not set again.                                     *)
ElapseOnce ==
  /\ left' = left - 1
  /\ calls' = IF Expiry \in ToSet(calls) THEN calls ELSE Append(calls, Expiry)

(* The timer of ROS: it is periodic, and queues its callback unless that   *)
(* is still waiting.                                                       *)
Elapse ==
  /\ left' = period
  /\ calls' = IF Expiry \in ToSet(calls) THEN calls ELSE Append(calls, Expiry)

(* Where since stops counting: beyond it CutOffInTime is broken (a bound). *)
SinceBound == period + MaxCalls

(* Time passes while ros::spin has nothing to do and while a service       *)
(* waits; everything else takes none.                                      *)
Tick ==
  /\ \/ nodeAt = "spin" /\ calls = <<>> /\ UNCHANGED nodeAt
     \/ nodeAt = "waiting" /\ nodeAt' = "waited"
  /\ since' = IF wanted /\ covered /\ since <= SinceBound THEN since + 1 ELSE since
  /\ IF timerRuns /\ left = 1 THEN Elapse
       ELSE left' = (IF timerRuns THEN left - 1 ELSE left) /\ UNCHANGED calls
  /\ UNCHANGED <<channelVars, param, isAutoresendSVSet, pointers, timerRuns, period, covered>>

(* The library's threads run until shutdown has returned.                  *)
NodeLibraryStep ==
  /\ nodeAt # "exit"
  /\ LibraryStep(nodeAt = "shutdown")
  /\ Len(answers') <= MaxAnswers
  /\ UNCHANGED nodeVars

NodeStep ==
  \/ StartUp \/ Spin \/ Interrupted \/ Shutdown \/ Tick \/ NodeLibraryStep
  \/ \E call \in Arriving : Arrive(call)

NodeSpec == ChannelInit /\ NodeInit /\ [][NodeStep]_<<channelVars, nodeVars>>

(* ros::spin takes up what waits, time passes, and a transmission ends,    *)
(* with its answer or by its timeouts.                                     *)
NodeFairness ==
  /\ WF_<<channelVars, nodeVars>>(Spin)
  /\ WF_<<channelVars, nodeVars>>(Tick)
  /\ WF_<<channelVars, nodeVars>>(NodeLibraryStep /\ sending /\ ~sending')

-----------------------------------------------------------------------------
(* An answer that reaches processFeedbackFunc, in the feedback thread,     *)
(* finds the publisher it dereferences: set before the first command can   *)
(* be answered, and alive, on main's stack, until the last answer.         *)
FeedbackHasPublisher ==
  answers # <<>> /\ "feedbackFunc" \in pointers
    => "tSVFBPublisher" \in pointers /\ nodeAt # "exit"

(* Once an SV has come under autorepeat, repetition ends within a period   *)
(* of CutOffMotorsTimeout after it was last asked for, or the period       *)
(* changed; every callback that waited before the expiry was queued may    *)
(* delay it by the wait of a service.                                      *)
CutOffInTime ==
  wanted /\ covered /\ nodeAt \notin {"shutdown", "exit"} => since <= SinceBound

NoMoreMessages == <>[][\A call \in Arriving : ~Arrive(call)]_calls

(* When messages cease to come, the motors are left alone sooner or later, *)
(* provided an SV has ever come under autorepeat.                          *)
FallsSilent == NoMoreMessages /\ <>covered => <>[](~sending)

(* The same without the proviso: "When this timer elapse all motors gets   *)
(* cut off." (tmc200controller.cpp:51).  The code breaks this.             *)
MotorsCutOff == NoMoreMessages => <>[](~sending)

=============================================================================
