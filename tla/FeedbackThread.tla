--------------------------- MODULE FeedbackThread ---------------------------
(***************************************************************************)
(* The TMC200FEEDBACK thread (tmc200feedbackthread.c), which hands each    *)
(* answer to the callback, and tmc200ctrl_io_waitForTMC200Feedback, by     *)
(* which the calling thread picks one up.  While a call of the latter is   *)
(* under way the thread publishes a pointer to its item, signals, and      *)
(* passes the gate of checkThreadPaused; the caller closes that gate with  *)
(* pauseThread, copies the text and opens it with resumeThread.            *)
(***************************************************************************)
EXTENDS Queues, ThreadsCommon

F == TMC200FEEDBACK

VARIABLES
  fbItem,                 \* ptItem of TMC200FeedBackThreadFunc
  processFeedbackFunc,    \* whether a callback is set
  waitForTMC200FBCalled,
  currentTMC200FBStr,     \* the item whose text it points at, or NULL
  fbAvailable,            \* the caller on the condition variable
  waitOk,                 \* ret = 0 in waitForTMC200Feedback
  spurious,               \* whether this wait woke up by itself (history)
  pcRetStr,               \* the text the last call returned, or NULL
  delivered               \* the text the callback got last (history)

feedbackVars == <<fbItem, processFeedbackFunc, waitForTMC200FBCalled,
                  currentTMC200FBStr, fbAvailable, waitOk, spurious, pcRetStr, delivered>>

(* pcRetStr is wrapped so that a null pointer and an empty string differ.  *)
NoString == [null |-> TRUE, text |-> <<>>]
String(text) == [null |-> FALSE, text |-> text]

FeedbackTypeOK ==
  /\ fbItem \in Items \cup {NULL}
  /\ processFeedbackFunc \in BOOLEAN
  /\ waitForTMC200FBCalled \in BOOLEAN
  /\ currentTMC200FBStr \in Items \cup {NULL}
  /\ fbAvailable \in {"none", "waiting", "signalled"}
  /\ waitOk \in BOOLEAN
  /\ spurious \in BOOLEAN
  /\ pcRetStr \in [null : BOOLEAN, text : Text]
  /\ delivered \in Text

FeedbackInit ==
  /\ fbItem = NULL
  /\ processFeedbackFunc = FALSE
  /\ waitForTMC200FBCalled = FALSE
  /\ currentTMC200FBStr = NULL
  /\ fbAvailable = "none"
  /\ waitOk = FALSE
  /\ spurious = FALSE
  /\ pcRetStr = NoString
  /\ delivered = <<>>

waiterVars == <<waitForTMC200FBCalled, fbAvailable, waitOk, spurious, pcRetStr>>
threadVars == <<fbItem, currentTMC200FBStr, delivered>>

-----------------------------------------------------------------------------
FbPop ==
  /\ At(F, "pop")
  /\ popItemFromQueue(FEEDBACK)
  /\ fbItem' = Popped(FEEDBACK)
  /\ Branch(F, fbItem' # NULL, "haveFunc", "size")
  /\ UNCHANGED <<dataVars, flagVars, processFeedbackFunc, waiterVars, currentTMC200FBStr, delivered>>

FbHaveFunc ==
  /\ At(F, "haveFunc")
  /\ Branch(F, processFeedbackFunc, "waitFlag", "recycle")
  /\ UNCHANGED <<queueVars, flagVars, feedbackVars>>

(* Mutant: the caller is signalled without being given the string.         *)
FbSignalsUnpublished ==
  /\ At(F, "waitFlag")
  /\ Branch(F, waitForTMC200FBCalled, "broadcast", "process")
  /\ UNCHANGED <<queueVars, flagVars, feedbackVars>>

FbWaitFlag ==
  /\ At(F, "waitFlag")
  /\ Branch(F, waitForTMC200FBCalled, "publish", "process")
  /\ UNCHANGED <<queueVars, flagVars, feedbackVars>>

FbPublish ==
  /\ At(F, "publish")
  /\ currentTMC200FBStr' = fbItem
  /\ Goto(F, "broadcast")
  /\ UNCHANGED <<queueVars, flagVars, fbItem, processFeedbackFunc, waiterVars, delivered>>

FbBroadcast ==
  /\ At(F, "broadcast")
  /\ fbAvailable' = IF fbAvailable = "waiting" THEN "signalled" ELSE fbAvailable
  /\ Goto(F, "gate")
  /\ UNCHANGED <<queueVars, flagVars, threadVars, processFeedbackFunc,
                 waitForTMC200FBCalled, waitOk, spurious, pcRetStr>>

FbGate ==
  /\ At(F, "gate")
  /\ checkThreadPaused(F)
  /\ Goto(F, "process")
  /\ UNCHANGED <<queueVars, flagVars, feedbackVars>>

FbProcess ==
  /\ At(F, "process")
  /\ delivered' = IF processFeedbackFunc THEN ptData[fbItem] ELSE delivered
  /\ Goto(F, "recycle")
  /\ UNCHANGED <<queueVars, flagVars, fbItem, processFeedbackFunc, waiterVars, currentTMC200FBStr>>

FbRecycle ==
  /\ At(F, "recycle")
  /\ recycleItemAtQueue(FEEDBACK, fbItem)
  /\ Goto(F, "pop")
  /\ UNCHANGED <<dataVars, flagVars, feedbackVars>>

FbSize ==
  /\ At(F, "size")
  /\ Branch(F, queueSize(FEEDBACK) = 0, "alive", "pop")
  /\ UNCHANGED <<queueVars, flagVars, feedbackVars>>

FbAlive ==
  /\ At(F, "alive")
  /\ Branch(F, isThreadAlive(F), "pause", "exited")
  /\ UNCHANGED <<queueVars, flagVars, feedbackVars>>

FbPause ==
  /\ At(F, "pause")
  /\ pauseThread(F)
  /\ Goto(F, "wait")
  /\ UNCHANGED <<queueVars, feedbackVars>>

FbWait ==
  /\ At(F, "wait")
  /\ checkThreadPaused(F)
  /\ Goto(F, "pop")
  /\ UNCHANGED <<queueVars, flagVars, feedbackVars>>

TMC200FeedBackThreadFunc ==
  \/ FbPop \/ FbHaveFunc \/ FbWaitFlag \/ FbPublish \/ FbBroadcast \/ FbGate
  \/ FbProcess \/ FbRecycle \/ FbSize \/ FbAlive \/ FbPause \/ FbWait

-----------------------------------------------------------------------------
(* The steps of a call of tmc200ctrl_io_waitForTMC200Feedback by Main; its *)
(* first one, from "idle", is taken in TmcIo.                              *)
WaitCall ==
  /\ waitForTMC200FBCalled' = TRUE
  /\ Goto(Main, "waitLock")
  /\ UNCHANGED <<queueVars, flagVars, threadVars, processFeedbackFunc,
                 fbAvailable, waitOk, spurious, pcRetStr>>

WaitLock ==
  /\ At(Main, "waitLock")
  /\ fbAvailable' = "waiting"
  /\ Goto(Main, "waitBlocked")
  /\ UNCHANGED <<queueVars, flagVars, threadVars, processFeedbackFunc,
                 waitForTMC200FBCalled, waitOk, spurious, pcRetStr>>

(* The microseconds are scaled by 1024 and not carried into the seconds:   *)
(* from 926563 on, tv_nsec is out of range and the wait fails at once.     *)
WaitInvalid ==
  /\ At(Main, "waitLock")
  /\ "einval" \in Faults
  /\ waitOk' = FALSE
  /\ spurious' = FALSE
  /\ Goto(Main, "waitPause")
  /\ UNCHANGED <<queueVars, flagVars, threadVars, processFeedbackFunc,
                 waitForTMC200FBCalled, fbAvailable, pcRetStr>>

WaitReturn(ok, byItself) ==
  /\ At(Main, "waitBlocked")
  /\ waitOk' = ok
  /\ spurious' = byItself
  /\ fbAvailable' = "none"
  /\ Goto(Main, "waitPause")
  /\ UNCHANGED <<queueVars, flagVars, threadVars, processFeedbackFunc, waitForTMC200FBCalled, pcRetStr>>

(* Mutant: the result of pthread_cond_timedwait is not looked at.          *)
WaitTimeoutIgnored == fbAvailable = "waiting" /\ WaitReturn(TRUE, FALSE)

WaitSignalled == fbAvailable = "signalled" /\ WaitReturn(TRUE, FALSE)
WaitTimeout   == fbAvailable = "waiting" /\ WaitReturn(FALSE, FALSE)

(* A condition wait may also return although nobody has signalled, and the *)
(* code asks for no condition of its own before it goes on.                *)
WaitSpurious  == fbAvailable = "waiting" /\ "spurious" \in Faults /\ WaitReturn(TRUE, TRUE)

WaitPause ==
  /\ At(Main, "waitPause")
  /\ pauseThread(F)
  /\ Branch(Main, waitOk, "waitCopy", "waitClear")
  /\ pcRetStr' = NoString
  /\ UNCHANGED <<queueVars, threadVars, processFeedbackFunc,
                 waitForTMC200FBCalled, fbAvailable, waitOk, spurious>>

(* strlen and strcpy; a null pointer stops the program here.               *)
WaitCopy ==
  /\ At(Main, "waitCopy")
  /\ currentTMC200FBStr # NULL
  /\ pcRetStr' = String(ptData[currentTMC200FBStr])
  /\ Goto(Main, "waitClear")
  /\ UNCHANGED <<queueVars, flagVars, threadVars, processFeedbackFunc,
                 waitForTMC200FBCalled, fbAvailable, waitOk, spurious>>

WaitClear ==
  /\ At(Main, "waitClear")
  /\ waitForTMC200FBCalled' = FALSE
  /\ spurious' = FALSE
  /\ Goto(Main, "waitResume")
  /\ UNCHANGED <<queueVars, flagVars, threadVars, processFeedbackFunc, fbAvailable, waitOk, pcRetStr>>

(* Mutant: the call returns without resuming the feedback thread.          *)
WaitLeavesPaused ==
  /\ At(Main, "waitResume")
  /\ Goto(Main, "idle")
  /\ UNCHANGED <<queueVars, flagVars, feedbackVars>>

WaitResume ==
  /\ At(Main, "waitResume")
  /\ resumeThread(F)
  /\ Goto(Main, "idle")
  /\ UNCHANGED <<queueVars, feedbackVars>>

tmc200ctrl_io_waitForTMC200Feedback ==
  \/ WaitLock \/ WaitInvalid \/ WaitSignalled \/ WaitTimeout \/ WaitSpurious
  \/ WaitPause \/ WaitCopy \/ WaitClear \/ WaitResume

tmc200ctrl_io_setTMC200FeedbackProcessingFunction(func) ==
  /\ processFeedbackFunc' = func
  /\ UNCHANGED <<threadVars, waiterVars>>

=============================================================================
