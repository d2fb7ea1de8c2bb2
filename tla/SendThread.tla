----------------------------- MODULE SendThread -----------------------------
(***************************************************************************)
(* The SENDTMC200CMDS thread (sendtmc200cmdsthread.c): it takes commands   *)
(* off SENDCMDS, writes each to the serial line, reads one answer and      *)
(* appends it to FEEDBACK; an SV command is written again and again while  *)
(* bResendSV is set and nothing is queued.                                 *)
(*                                                                         *)
(* A command's text is Line(n), n its number in the order of acceptance;   *)
(* the device answers it with fragments that carry the same n.  The        *)
(* actions leave the variables of the other modules of TmcIo alone; TmcIo  *)
(* says so.  pfErrorStateClbk only publishes and is left out.              *)
(***************************************************************************)
EXTENDS Queues, ThreadsCommon

CONSTANT MaxBacklog   \* no repetition while this many answers are queued (a bound)

ASSUME MaxBacklogAssumption == MaxBacklog \in Nat

S == SENDTMC200CMDS

VARIABLES
  sendItem,       \* ptItem of sendTMC200CmdsThreadFunc
  recvItem,       \* ptItem of receiveData
  bResendCurCmd,
  bResendSV,
  tried           \* number of the command last sent (history)

sendVars == <<sendItem, recvItem, bResendCurCmd, bResendSV, tried>>

SendTypeOK ==
  /\ sendItem \in Items \cup {NULL}
  /\ recvItem \in Items \cup {NULL}
  /\ bResendCurCmd \in BOOLEAN
  /\ bResendSV \in BOOLEAN
  /\ tried \in Nat

SendInit ==
  /\ sendItem = NULL
  /\ recvItem = NULL
  /\ bResendCurCmd = FALSE
  /\ bResendSV = FALSE
  /\ tried = 0

(* The number of the command in an item of SENDCMDS.                       *)
Number(item) == ptData[item][1].of

-----------------------------------------------------------------------------
(* The model's bound on repetition; the code repeats without limit.        *)
RepetitionBound == Len(ptQueue[FEEDBACK]) < MaxBacklog \/ ~isThreadAlive(S)

(* Mutant: ptItem is recycled without the test against NULL.               *)
SendTopRecyclesNull ==
  /\ At(S, "top")
  /\ Branch(S, ~bResendCurCmd, "recycle", "repeatAlive")
  /\ UNCHANGED <<queueVars, flagVars, sendVars, deviceVars>>

(* The loop head: keep the command, or get rid of it and take the next.    *)
SendTop ==
  /\ At(S, "top")
  /\ IF ~bResendCurCmd \/ queueSize(SENDCMDS) > 0
       THEN Branch(S, sendItem # NULL, "recycle", "pop")
       ELSE RepetitionBound /\ Goto(S, "repeatAlive")
  /\ UNCHANGED <<queueVars, flagVars, sendVars, deviceVars>>

SendRecycle ==
  /\ At(S, "recycle")
  /\ recycleItemAtQueue(SENDCMDS, sendItem)
  /\ Goto(S, "pop")
  /\ UNCHANGED <<dataVars, flagVars, sendVars, deviceVars>>

(* Only a command that is not repeated asks whether the thread lives.      *)
SendPop ==
  /\ At(S, "pop")
  /\ popItemFromQueue(SENDCMDS)
  /\ sendItem' = Popped(SENDCMDS)
  /\ IF sendItem' # NULL
       THEN Goto(S, "send")
       ELSE Branch(S, bResendCurCmd, "pause", "idleAlive")
  /\ UNCHANGED <<dataVars, flagVars, recvItem, bResendCurCmd, bResendSV, tried, deviceVars>>

(* Mutant: an idle thread does not ask whether it has been stopped.        *)
SendIdleAlwaysPauses ==
  /\ At(S, "idleAlive")
  /\ Goto(S, "pause")
  /\ UNCHANGED <<queueVars, flagVars, sendVars, deviceVars>>

SendIdleAlive ==
  /\ At(S, "idleAlive")
  /\ Branch(S, isThreadAlive(S), "pause", "exited")
  /\ UNCHANGED <<queueVars, flagVars, sendVars, deviceVars>>

SendRepeatAlive ==
  /\ At(S, "repeatAlive")
  /\ IF isThreadAlive(S)
       THEN Branch(S, sendItem # NULL, "send", "pause")
       ELSE Branch(S, sendItem # NULL, "exitRecycle", "exited")
  /\ UNCHANGED <<queueVars, flagVars, sendVars, deviceVars>>

(* Mutant: a thread that exits keeps its item to itself.                   *)
SendExitForgets ==
  /\ At(S, "exitRecycle")
  /\ Goto(S, "exited")
  /\ UNCHANGED <<queueVars, flagVars, sendVars, deviceVars>>

SendExitRecycle ==
  /\ At(S, "exitRecycle")
  /\ recycleItemAtQueue(SENDCMDS, sendItem)
  /\ Goto(S, "exited")
  /\ UNCHANGED <<dataVars, flagVars, sendVars, deviceVars>>

(* Mutants: any command is repeated; repetition, once begun, goes on.      *)
ResendAnything(item) == bResendSV
ResendSticky(item) == eCmd[item] = SV /\ (bResendSV \/ bResendCurCmd)

(* Whether the command at hand will be repeated after this transmission.   *)
ResendIt(item) == eCmd[item] = SV /\ bResendSV

SendSend ==
  /\ At(S, "send")
  /\ bResendCurCmd' = ResendIt(sendItem)
  /\ tried' = Number(sendItem)
  /\ Goto(S, "write")
  /\ UNCHANGED <<queueVars, flagVars, sendItem, recvItem, bResendSV, deviceVars>>

-----------------------------------------------------------------------------
(* sendData succeeds: the device has the command and owes an answer.       *)
SendWrite ==
  /\ At(S, "write")
  /\ DeviceAccept(Number(sendItem))
  /\ Goto(S, "fresh")
  /\ UNCHANGED <<queueVars, flagVars, sendVars>>

(* sendData gives up before the line break: WTO, nothing is received.      *)
SendWriteTimeout ==
  /\ At(S, "write")
  /\ "write" \in Faults
  /\ Goto(S, "top")
  /\ UNCHANGED <<queueVars, flagVars, sendVars, deviceVars>>

(* receiveData.  At "read" iCurPos is 0, at "readMore" it is above 0.      *)
ReceiveFresh ==
  /\ At(S, "fresh")
  /\ \E item \in Items :
       /\ getFreshItemFromQueue(FEEDBACK, item)
       /\ recvItem' = item
  /\ Goto(S, "read")
  /\ UNCHANGED <<dataVars, flagVars, sendItem, bResendCurCmd, bResendSV, tried, deviceVars>>

(* One read takes all there is; only its last line break ends the answer.  *)
ReceiveRead ==
  /\ pc[S] \in {"read", "readMore"}
  /\ line # <<>>
  /\ ptData' = [ptData EXCEPT ![recvItem] = (IF At(S, "read") THEN <<>> ELSE @) \o line]
  /\ LineTaken
  /\ Branch(S, Last(line).end, "received", "readMore")
  /\ UNCHANGED <<listVars, eCmd, flagVars, sendVars>>

(* Mutant: a single read that finds nothing ends the attempt.              *)
ReceiveOnce ==
  /\ pc[S] \in {"read", "readMore"}
  /\ Branch(S, At(S, "read"), "drop", "received")
  /\ UNCHANGED <<queueVars, flagVars, sendVars, deviceVars>>

(* 502 reads in a row found nothing: no feedback (RTO), or what there is.  *)
ReceiveTimeout ==
  /\ pc[S] \in {"read", "readMore"}
  /\ LineSilent
  /\ Branch(S, At(S, "read"), "drop", "received")
  /\ UNCHANGED <<queueVars, flagVars, sendVars, deviceVars>>

ReceiveDrop ==
  /\ At(S, "drop")
  /\ recycleItemAtQueue(FEEDBACK, recvItem)
  /\ Goto(S, "top")
  /\ UNCHANGED <<dataVars, flagVars, sendVars, deviceVars>>

(* The text that strcmp finds equal to "ERR ".                             *)
IsErr(text) == text = Line(0)

ReceiveErr ==
  /\ At(S, "received")
  /\ IsErr(ptData[recvItem])
  /\ Goto(S, "drop")
  /\ UNCHANGED <<queueVars, flagVars, sendVars, deviceVars>>

ReceiveDeliver ==
  /\ At(S, "received")
  /\ ~IsErr(ptData[recvItem])
  /\ eCmd' = [eCmd EXCEPT ![recvItem] = eCmd[sendItem]]
  /\ addItemToQueue(FEEDBACK, recvItem)
  /\ Goto(S, "wakeCheck")
  /\ UNCHANGED <<ptData, flagVars, sendVars, deviceVars>>

WakeCheck ==
  /\ At(S, "wakeCheck")
  /\ Branch(S, isThreadPaused(TMC200FEEDBACK), "wake", "top")
  /\ UNCHANGED <<queueVars, flagVars, sendVars, deviceVars>>

Wake ==
  /\ At(S, "wake")
  /\ resumeThread(TMC200FEEDBACK)
  /\ Goto(S, "top")
  /\ UNCHANGED <<queueVars, sendVars, deviceVars>>

-----------------------------------------------------------------------------
SendPause ==
  /\ At(S, "pause")
  /\ pauseThread(S)
  /\ Goto(S, "wait")
  /\ UNCHANGED <<queueVars, sendVars, deviceVars>>

SendWait ==
  /\ At(S, "wait")
  /\ checkThreadPaused(S)
  /\ Goto(S, "top")
  /\ UNCHANGED <<queueVars, flagVars, sendVars, deviceVars>>

sendTMC200CmdsThreadFunc ==
  \/ SendTop \/ SendRecycle \/ SendPop \/ SendIdleAlive \/ SendRepeatAlive
  \/ SendExitRecycle \/ SendSend \/ SendPause \/ SendWait
  \/ SendWrite \/ SendWriteTimeout
  \/ ReceiveFresh \/ ReceiveRead \/ ReceiveTimeout \/ ReceiveDrop
  \/ ReceiveErr \/ ReceiveDeliver \/ WakeCheck \/ Wake

tmc200ctrl_io_sendSVRepetitive(val) ==
  /\ bResendSV' = val
  /\ UNCHANGED <<sendItem, recvItem, bResendCurCmd, tried, deviceVars>>

=============================================================================
