------------------------------- MODULE TmcIo --------------------------------
(***************************************************************************)
(* libtmc200ctrl_io as a whole: its two threads, the device, and the one   *)
(* application thread (Main) that calls the library (libtmc200ctrl_io.c).  *)
(*                                                                         *)
(* Main is at "idle" between calls.  A call is the sequence of its atomic  *)
(* steps; the application chooses which call to make, and may make none.   *)
(***************************************************************************)
EXTENDS SendThread, FeedbackThread

CONSTANTS MaxCmds,  \* how many commands the application gives (a bound)
          Api       \* the calls it makes besides init and setCmd

ASSUME MaxCmdsAssumption == MaxCmds \in Nat
ASSUME ApiAssumption ==
  Api \subseteq {"repeat",    \* sendSVRepetitive, switching it on and off
                 "wait",      \* waitForTMC200Feedback
                 "callback",    \* setTMC200FeedbackProcessingFunction
                 "nocallback",  \* the same with NULL
                 "shutdown",  \* shutdown
                 "reinit"}    \* init after a shutdown

VARIABLES
  cmdItem,  \* ptItem of setCmdWithArgsStr
  victim,   \* the thread that shutdownThread is stopping
  fdOpen,   \* whether iFd is an open serial port
  lib,      \* "off" until an init succeeds, then "up"; "down" after shutdown
  issued    \* the commands setCmd has accepted, in order (history)

ioVars == <<cmdItem, victim, fdOpen, lib, issued>>
vars == <<queueVars, flagVars, pc, deviceVars, sendVars, feedbackVars, ioVars>>

Labels ==
  {"unborn", "exited", "idle", "top", "recycle", "pop", "send", "idleAlive",
   "repeatAlive", "exitRecycle", "write", "fresh", "read", "readMore", "received",
   "drop", "wakeCheck", "wake", "pause", "wait",
   "haveFunc", "waitFlag", "publish", "broadcast", "gate", "process", "size", "alive",
   "waitLock", "waitBlocked", "waitPause", "waitCopy", "waitClear", "waitResume",
   "initSend", "initFeedback", "cmdFresh", "cmdAdd", "cmdCheck", "cmdResume",
   "stop", "stopPaused", "stopResume", "join", "cleanFeedback", "cleanSendCmds", "close"}

IoTypeOK ==
  /\ cmdItem \in Items \cup {NULL}
  /\ victim \in Thread
  /\ fdOpen \in BOOLEAN
  /\ lib \in {"off", "up", "down"}
  /\ issued \in Seq(Commands)

IoInit ==
  /\ cmdItem = NULL
  /\ victim = S
  /\ fdOpen = FALSE
  /\ lib = "off"
  /\ issued = <<>>

Init ==
  /\ QueuesInit
  /\ ThreadsInit
  /\ DeviceInit
  /\ SendInit
  /\ FeedbackInit
  /\ IoInit

-----------------------------------------------------------------------------
(* tmc200ctrl_io_init.  A port that cannot be opened or is no tty changes  *)
(* nothing; else initSerialPort flushes what the device sent before.       *)
InitCall ==
  /\ At(Main, "idle")
  /\ lib = "off" \/ (lib = "down" /\ "reinit" \in Api)
  /\ fdOpen' = TRUE
  /\ LineTaken
  /\ Goto(Main, "initSend")
  /\ UNCHANGED <<queueVars, flagVars, sendVars, feedbackVars, cmdItem, victim, lib, issued>>

(* initQueue and initThread of SENDCMDS: no thread is there to see them    *)
(* apart.  A thread that is created starts with its ptItem NULL; commands  *)
(* that were still unsent are given up.                                    *)
InitSend ==
  /\ At(Main, "initSend")
  /\ initQueue(SENDCMDS)
  /\ initThread(S)
  /\ pc' = [pc EXCEPT ![Main] = "initFeedback", ![S] = "top"]
  /\ sendItem' = NULL
  /\ tried' = Len(issued)
  /\ UNCHANGED <<dataVars, deviceVars, recvItem, bResendCurCmd, bResendSV, feedbackVars, ioVars>>

InitSendFails ==
  /\ At(Main, "initSend")
  /\ "create" \in Faults
  /\ initQueue(SENDCMDS)
  /\ initThread(S)
  /\ fdOpen' = FALSE
  /\ lib' = "off"
  /\ Goto(Main, "idle")
  /\ UNCHANGED <<dataVars, deviceVars, sendVars, feedbackVars, cmdItem, victim, issued>>

InitFeedback ==
  /\ At(Main, "initFeedback")
  /\ initQueue(FEEDBACK)
  /\ initThread(F)
  /\ pc' = [pc EXCEPT ![Main] = "idle", ![F] = "pop"]
  /\ fbItem' = NULL
  /\ lib' = "up"
  /\ UNCHANGED <<dataVars, deviceVars, sendVars, processFeedbackFunc, waiterVars,
                 currentTMC200FBStr, delivered, cmdItem, victim, fdOpen, issued>>

InitFeedbackFails ==
  /\ At(Main, "initFeedback")
  /\ "create" \in Faults
  /\ initQueue(FEEDBACK)
  /\ initThread(F)
  /\ fdOpen' = FALSE
  /\ lib' = "off"
  /\ victim' = S
  /\ Goto(Main, "stop")
  /\ UNCHANGED <<dataVars, deviceVars, sendVars, feedbackVars, cmdItem, issued>>

-----------------------------------------------------------------------------
(* tmc200ctrl_io_setCmd and its variants.  init "must be called before     *)
(* other are function called" (libtmc200ctrl_io.h:21); a call that finds   *)
(* the thread dead returns NO_SENDCMDTHREAD and changes nothing.           *)
SetCmdCall ==
  /\ At(Main, "idle")
  /\ lib # "off"
  /\ isThreadAlive(S)
  /\ Len(issued) < MaxCmds
  /\ Goto(Main, "cmdFresh")
  /\ UNCHANGED <<queueVars, flagVars, deviceVars, sendVars, feedbackVars, ioVars>>

CmdFresh ==
  /\ At(Main, "cmdFresh")
  /\ \E item \in Items :
       /\ getFreshItemFromQueue(SENDCMDS, item)
       /\ cmdItem' = item
  /\ Goto(Main, "cmdAdd")
  /\ UNCHANGED <<dataVars, flagVars, deviceVars, sendVars, feedbackVars, victim, fdOpen, lib, issued>>

(* The item is still private while its contents are filled in.             *)
CmdAdd ==
  /\ At(Main, "cmdAdd")
  /\ \E cmd \in Commands :
       /\ eCmd' = [eCmd EXCEPT ![cmdItem] = cmd]
       /\ issued' = Append(issued, cmd)
  /\ ptData' = [ptData EXCEPT ![cmdItem] = Line(Len(issued) + 1)]
  /\ addItemToQueue(SENDCMDS, cmdItem)
  /\ Goto(Main, "cmdCheck")
  /\ UNCHANGED <<flagVars, deviceVars, sendVars, feedbackVars, cmdItem, victim, fdOpen, lib>>

CmdCheck ==
  /\ At(Main, "cmdCheck")
  /\ Branch(Main, isThreadPaused(S), "cmdResume", "idle")
  /\ UNCHANGED <<queueVars, flagVars, deviceVars, sendVars, feedbackVars, ioVars>>

(* Mutant: the other thread is resumed.                                    *)
CmdResumesFeedback ==
  /\ At(Main, "cmdResume")
  /\ resumeThread(F)
  /\ Goto(Main, "idle")
  /\ UNCHANGED <<queueVars, deviceVars, sendVars, feedbackVars, ioVars>>

CmdResume ==
  /\ At(Main, "cmdResume")
  /\ resumeThread(S)
  /\ Goto(Main, "idle")
  /\ UNCHANGED <<queueVars, deviceVars, sendVars, feedbackVars, ioVars>>

-----------------------------------------------------------------------------
(* tmc200ctrl_io_shutdown.                                                 *)
ShutdownCall ==
  /\ At(Main, "idle")
  /\ lib = "up"
  /\ "shutdown" \in Api
  /\ victim' = S
  /\ Goto(Main, "stop")
  /\ UNCHANGED <<queueVars, flagVars, deviceVars, sendVars, feedbackVars, cmdItem, fdOpen, lib, issued>>

(* Where shutdownThread(victim) returns to: init calls it for the one      *)
(* thread it had started, shutdown for both in turn.                       *)
StopReturn ==
  IF victim = S /\ lib = "up"
    THEN victim' = F /\ Goto(Main, "stop")
    ELSE UNCHANGED victim /\ Branch(Main, lib = "up", "cleanFeedback", "idle")

(* shutdownThread: its first test and its store of isAlive, which only     *)
(* Main writes.                                                            *)
Stop ==
  /\ At(Main, "stop")
  /\ IF isThreadAlive(victim)
       THEN stopThread(victim) /\ Goto(Main, "stopPaused") /\ UNCHANGED victim
       ELSE StopReturn /\ UNCHANGED flagVars
  /\ UNCHANGED <<queueVars, deviceVars, sendVars, feedbackVars, cmdItem, fdOpen, lib, issued>>

StopPaused ==
  /\ At(Main, "stopPaused")
  /\ Branch(Main, isThreadPaused(victim), "stopResume", "join")
  /\ UNCHANGED <<queueVars, flagVars, deviceVars, sendVars, feedbackVars, ioVars>>

StopResume ==
  /\ At(Main, "stopResume")
  /\ resumeThread(victim)
  /\ Goto(Main, "join")
  /\ UNCHANGED <<queueVars, deviceVars, sendVars, feedbackVars, ioVars>>

(* Mutant: the thread is told to stop but not waited for.                  *)
JoinSkipped ==
  /\ At(Main, "join")
  /\ StopReturn
  /\ UNCHANGED <<queueVars, flagVars, deviceVars, sendVars, feedbackVars, cmdItem, fdOpen, lib, issued>>

Join ==
  /\ At(Main, "join")
  /\ At(victim, "exited")
  /\ StopReturn
  /\ UNCHANGED <<queueVars, flagVars, deviceVars, sendVars, feedbackVars, cmdItem, fdOpen, lib, issued>>

CleanFeedback ==
  /\ At(Main, "cleanFeedback")
  /\ cleanUpQueue(FEEDBACK)
  /\ Goto(Main, "cleanSendCmds")
  /\ UNCHANGED <<dataVars, flagVars, deviceVars, sendVars, feedbackVars, ioVars>>

CleanSendCmds ==
  /\ At(Main, "cleanSendCmds")
  /\ cleanUpQueue(SENDCMDS)
  /\ Goto(Main, "close")
  /\ UNCHANGED <<dataVars, flagVars, deviceVars, sendVars, feedbackVars, ioVars>>

closeFd ==
  /\ At(Main, "close")
  /\ fdOpen' = FALSE
  /\ lib' = "down"
  /\ Goto(Main, "idle")
  /\ UNCHANGED <<queueVars, flagVars, deviceVars, sendVars, feedbackVars, cmdItem, victim, issued>>

-----------------------------------------------------------------------------
(* The calls of one step, and the first step of a wait.                    *)
RepeatCall ==
  /\ At(Main, "idle")
  /\ lib = "up"
  /\ "repeat" \in Api
  /\ tmc200ctrl_io_sendSVRepetitive(~bResendSV)
  /\ UNCHANGED <<queueVars, flagVars, pc, feedbackVars, ioVars>>

CallbackCall ==
  /\ At(Main, "idle")
  /\ lib = "up"
  /\ (IF processFeedbackFunc THEN "nocallback" ELSE "callback") \in Api
  /\ tmc200ctrl_io_setTMC200FeedbackProcessingFunction(~processFeedbackFunc)
  /\ UNCHANGED <<queueVars, flagVars, pc, deviceVars, sendVars, ioVars>>

WaitForFeedbackCall ==
  /\ At(Main, "idle")
  /\ lib = "up"
  /\ "wait" \in Api
  /\ WaitCall
  /\ UNCHANGED <<deviceVars, sendVars, ioVars>>

Call ==
  \/ InitCall \/ SetCmdCall \/ ShutdownCall
  \/ RepeatCall \/ CallbackCall \/ WaitForFeedbackCall

WaitStep ==
  /\ tmc200ctrl_io_waitForTMC200Feedback
  /\ UNCHANGED <<deviceVars, sendVars, ioVars>>

(* What Main does inside a call, once it is made.                          *)
MainStep ==
  \/ InitSend \/ InitSendFails \/ InitFeedback \/ InitFeedbackFails
  \/ CmdFresh \/ CmdAdd \/ CmdCheck \/ CmdResume
  \/ Stop \/ StopPaused \/ StopResume \/ Join
  \/ CleanFeedback \/ CleanSendCmds \/ closeFd
  \/ WaitStep

SendThreadStep ==
  /\ sendTMC200CmdsThreadFunc
  /\ UNCHANGED <<feedbackVars, ioVars>>

FeedbackThreadStep ==
  /\ TMC200FeedBackThreadFunc
  /\ UNCHANGED <<deviceVars, sendVars, ioVars>>

DeviceStep ==
  /\ DeviceEmit
  /\ UNCHANGED <<queueVars, flagVars, pc, sendVars, feedbackVars, ioVars>>

Next == Call \/ MainStep \/ SendThreadStep \/ FeedbackThreadStep \/ DeviceStep

Spec == Init /\ [][Next]_vars

(* Threads that can run are scheduled, a call that was made goes on, and   *)
(* the device puts what it owes on the line.  The application need not     *)
(* make any call.                                                          *)
FairSpec ==
  /\ Spec
  /\ WF_vars(MainStep)
  /\ WF_vars(SendThreadStep)
  /\ WF_vars(FeedbackThreadStep)
  /\ WF_vars(DeviceStep)

TypeOK ==
  /\ QueuesTypeOK
  /\ ThreadsTypeOK(Labels)
  /\ DeviceTypeOK
  /\ SendTypeOK
  /\ FeedbackTypeOK
  /\ IoTypeOK

=============================================================================
