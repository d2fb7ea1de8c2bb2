----------------------------- MODULE TmcIoProps -----------------------------
(***************************************************************************)
(* The properties of libtmc200ctrl_io that its runs check and its          *)
(* theorems are about.                                                     *)
(***************************************************************************)
EXTENDS TmcIo

(* The blocks of a queue that some thread has taken out of it: the command *)
(* being sent or written into, the answer being received or delivered.     *)
SenderHolds ==
  IF pc[S] \in {"unborn", "pop", "exited"} \/ sendItem = NULL THEN {} ELSE {sendItem}
ReceiverHolds ==
  IF pc[S] \in {"read", "readMore", "received", "drop"} THEN {recvItem} ELSE {}
DelivererHolds ==
  IF pc[F] \in {"haveFunc", "waitFlag", "publish", "broadcast", "gate", "process", "recycle"}
    THEN {fbItem} ELSE {}
CallerHolds == IF At(Main, "cmdAdd") THEN {cmdItem} ELSE {}

(* Between a successful init and shutdown's freeing of the queues.         *)
InService == lib = "up" /\ pc[Main] \notin {"cleanSendCmds", "close"}

Owned(q, one, other) ==
  /\ heap[q] = Listed(q) \cup one \cup other
  /\ IsInjective(ptQueue[q] \o ptFreeItems[q])
  /\ one \cap other = {}
  /\ (one \cup other) \cap Listed(q) = {}

(* Every live block is in exactly one place: pending, recycled, or in the  *)
(* hands of exactly one thread.  No interleaving of the three threads      *)
(* loses a block, lists one twice, or lets two threads write to one.       *)
(* (queues.c, and every place that gets, adds, pops or recycles an item.)  *)
Ownership ==
  InService => /\ Owned(SENDCMDS, SenderHolds, CallerHolds)
               /\ Owned(FEEDBACK, ReceiverHolds, DelivererHolds)

(* shutdown frees the queues and closes the port only when both threads    *)
(* are gone, and no thread writes to or reads from a port that is not      *)
(* open: what joining the threads in shutdownThread is for.                *)
TeardownQuiescent ==
  /\ (pc[Main] \in {"cleanFeedback", "cleanSendCmds", "close"} \/ (lib = "down" /\ At(Main, "idle")))
       => \A t \in Thread : At(t, "exited")
  /\ pc[S] \in {"write", "fresh", "read", "readMore"} => fdOpen

(* When shutdown has returned, every block that was ever allocated has     *)
(* been freed: those a thread held when it was told to stop, and those     *)
(* still queued, too ("frees all resources", libtmc200ctrl_io.h:162).      *)
AllFreedAtDown ==
  lib = "down" /\ At(Main, "idle") => heap = [q \in Queue |-> {}]

-----------------------------------------------------------------------------
Sending == pc[S] \in {"write", "fresh", "read", "readMore", "received", "drop"}

(* The commands that the items on their way to the callback are tagged     *)
(* with: the one the feedback thread holds and those that are queued.      *)
Undelivered ==
  (IF pc[F] \in {"haveFunc", "waitFlag", "publish", "broadcast", "gate", "process"}
     THEN <<eCmd[fbItem]>> ELSE <<>>)
    \o [i \in DOMAIN ptQueue[FEEDBACK] |-> eCmd[ptQueue[FEEDBACK][i]]]

Channel == INSTANCE CmdChannel WITH
  Command <- Commands, Repeatable <- {SV}, sent <- tried, sending <- Sending,
  wanted <- bResendSV, repeating <- bResendCurCmd, answers <- Undelivered

(* The library implements the command channel: through the free lists, the *)
(* queues and the resend flags, commands go out one at a time in the order *)
(* of acceptance, only an SV is ever repeated, and only while repetition   *)
(* is on; every answer reaches the feedback thread in turn, under the tag  *)
(* of its command.                                                         *)
ImplementsChannel == Channel!ChannelSpec

(* initQueue does not reset the length counter of a queue, and pop and add *)
(* move counter and list on different branches.  Through every shutdown    *)
(* and new init the counter never falls below the length of the list: a    *)
(* thread told that its queue is empty has nothing left to do              *)
(* (tmc200feedbackthread.c:126), and a queued command ends a repetition    *)
(* (sendtmc200cmdsthread.c:158).                                           *)
CounterNotShort == \A q \in Queue : queueSize(q) >= Len(ptQueue[q])

(* The commands that a text answers; "ERR " answers none.                  *)
Answered(text) == {text[i].of : i \in DOMAIN text} \ {0}

(* The callback gets answers in the order of the commands, never one to a  *)
(* command that has not been sent, however the threads and the device are  *)
(* scheduled.                                                              *)
DeliveryInOrder ==
  [][delivered' # delivered =>
       \A n \in Answered(delivered') :
         /\ n <= tried
         /\ \A m \in Answered(delivered) : m <= n]_vars

(* An item on its way to the callback carries the command its answer       *)
(* belongs to (TMC200CmdQueueItem.eCmd, queues.h:23), as long as the       *)
(* device answers within the read timeout.                                 *)
AnswerTagMatches ==
  \A item \in DelivererHolds :
    \A n \in Answered(ptData[item]) : issued[n] = eCmd[item]

(* An answer that waitForTMC200Feedback returns is never older than one    *)
(* that the callback has already had, although the copy races with the     *)
(* reuse of the item.  (So it may also find an "ERR ", which answers none. *)
(* A wait that woke up by itself copies whatever was published last.)      *)
WaitNotStale ==
  [][pcRetStr' # pcRetStr /\ ~spurious /\ Answered(pcRetStr'.text) # {} =>
       \A m \in Answered(delivered) : \E n \in Answered(pcRetStr'.text) : m <= n]_vars

(* A wait that was signalled finds a published string to copy, whatever    *)
(* the feedback thread, the callbacks and later calls did in between.      *)
CopyHasString ==
  At(Main, "waitCopy") /\ ~spurious => currentTMC200FBStr # NULL

(* The string that is copied is the one the feedback thread holds back for *)
(* that purpose: "Wait until the current feedback string has been copyed." *)
(* (tmc200feedbackthread.c:102).  The code breaks this.                    *)
CopyIntact ==
  At(Main, "waitCopy") => At(F, "gate") /\ fbItem = currentTMC200FBStr

(* What waitForTMC200Feedback returns is "the TMC200 answer to the recent  *)
(* command" (libtmc200ctrl_io.h:153).  The code breaks this.               *)
WaitReturnsRecent ==
  At(Main, "waitClear") =>
    \A n \in Answered(pcRetStr.text) : n = Len(issued)

-----------------------------------------------------------------------------
(* The feedback thread never stays behind the gate that waiting callers    *)
(* close: however the waits end, once they have ended it goes on.          *)
GateReopens == <>[](~waitForTMC200FBCalled) => []<>(~At(F, "gate"))

(* A call of setCmd that finds the sender asleep wakes it for good: every  *)
(* command accepted by then is sent, shutdown or not.                      *)
WakeServesAll ==
  \A n \in 1 .. MaxCmds :
    At(Main, "cmdResume") /\ Len(issued) = n ~> tried >= n

(* A thread that shutdown finds asleep wakes up and exits; the sender does *)
(* if its length counter tells the truth.                                  *)
SleeperExits ==
  At(Main, "stopResume") /\ (victim = S => queueSize(SENDCMDS) = Len(ptQueue[SENDCMDS]))
    ~> At(Main, "join") /\ At(victim, "exited")

(* A thread that shutdown finds asleep wakes up and exits, whatever went   *)
(* before: shutdownThread "Shuts down a thread." (threads_common.h:99).    *)
(* The code breaks this: with a counter left too high by a new init, a     *)
(* sender whose bResendCurCmd is still set goes to sleep again without     *)
(* looking at isAlive (sendtmc200cmdsthread.c:227), and nobody wakes it.   *)
SleeperStops ==
  At(Main, "stopResume") ~> At(Main, "join") /\ At(victim, "exited")

(* Once repetition is switched off for good, the sender falls silent: it   *)
(* takes the flag up at the next transmission, which is the last.          *)
RepetitionStops == <>[](~bResendSV) => <>[](~At(S, "write"))

(* Every accepted command is sent: "Sends a command to the controller."    *)
(* (libtmc200ctrl_io.h:31).  The code breaks this.                         *)
AcceptedIsSent ==
  \A n \in 1 .. MaxCmds : Len(issued) >= n ~> tried >= n

(* shutdown returns: "Shuts down the library and frees all resources."     *)
(* (libtmc200ctrl_io.h:162).  The code breaks this.                        *)
ShutdownReturns == At(Main, "stop") ~> At(Main, "idle")

=============================================================================
