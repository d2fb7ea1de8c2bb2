---------------------------- MODULE TmcIoProofs -----------------------------
(***************************************************************************)
(* Theorems about libtmc200ctrl_io for any heap, any number of commands,   *)
(* any faults and any use of the API.                                      *)
(***************************************************************************)
EXTENDS TmcIoProps, SequenceLemmas

(* Every operation leaves two lists of items, a counter and a set of       *)
(* blocks per queue (queues.c).                                            *)
LEMMA ListsType ==
  ASSUME ListsTypeOK, NEW q \in Queue
  PROVE  /\ initQueue(q) => ListsTypeOK'
         /\ \A item \in Items :
              addItemToQueue(q, item) \/ getFreshItemFromQueue(q, item)
                \/ recycleItemAtQueue(q, item) => ListsTypeOK'
         /\ popItemFromQueue(q) => ListsTypeOK'
         /\ cleanUpQueue(q) => ListsTypeOK'
<1> USE DEF ListsTypeOK
<1>1. initQueue(q) => ListsTypeOK'
  BY EmptySeq DEF initQueue
<1>2. ASSUME NEW item \in Items, addItemToQueue(q, item)
      PROVE  ListsTypeOK'
  <2>1. Append(ptQueue[q], item) \in Seq(Items)
    BY AppendProperties
  <2> QED
    BY <1>2, <2>1 DEF addItemToQueue
<1>3. ASSUME NEW item \in Items, getFreshItemFromQueue(q, item)
      PROVE  ListsTypeOK'
  <2>1. CASE ptFreeItems[q] = <<>>
    <3>1. /\ UNCHANGED <<ptQueue, ptFreeItems, iQueueSize>>
          /\ heap' = [heap EXCEPT ![q] = @ \cup {item}]
      BY <1>3, <2>1 DEF getFreshItemFromQueue, allocateItem
    <3> QED
      BY <3>1
  <2>2. CASE ptFreeItems[q] # <<>>
    <3>1. Tail(ptFreeItems[q]) \in Seq(Items)
      BY <2>2, HeadTailProperties
    <3> QED
      BY <1>3, <2>2, <3>1 DEF getFreshItemFromQueue, reuseItem
  <2> QED
    BY <2>1, <2>2
<1>4. ASSUME NEW item \in Items, recycleItemAtQueue(q, item)
      PROVE  ListsTypeOK'
  <2>1. <<item>> \o ptFreeItems[q] \in Seq(Items)
    BY ConcatProperties
  <2> QED
    BY <1>4, <2>1 DEF recycleItemAtQueue
<1>5. popItemFromQueue(q) => ListsTypeOK'
  <2> SUFFICES ASSUME popItemFromQueue(q), ptQueue[q] # <<>> PROVE ListsTypeOK'
    BY DEF popItemFromQueue
  <2>1. Tail(ptQueue[q]) \in Seq(Items)
    BY HeadTailProperties
  <2>2. ptQueue' \in [Queue -> Seq(Items)]
    BY <2>1 DEF popItemFromQueue
  <2>3. iQueueSize' \in [Queue -> Int]
    BY DEF popItemFromQueue
  <2> QED
    BY <2>2, <2>3 DEF popItemFromQueue
<1>6. cleanUpQueue(q) => ListsTypeOK'
  BY DEF cleanUpQueue
<1> QED
  BY <1>1, <1>2, <1>3, <1>4, <1>5, <1>6

(* What the operations do to the pending items: only add puts one in, only *)
(* pop and init take any out, and the other queue is left alone.           *)
LEMMA InitPending ==
  ASSUME ListsTypeOK, NEW q \in Queue, initQueue(q)
  PROVE  ptQueue'[q] = <<>> /\ \A p \in Queue \ {q} : ptQueue'[p] = ptQueue[p]
  BY DEF initQueue, ListsTypeOK

LEMMA AddPending ==
  ASSUME ListsTypeOK, NEW q \in Queue, NEW item \in Items, addItemToQueue(q, item)
  PROVE  /\ ToSet(ptQueue'[q]) = ToSet(ptQueue[q]) \cup {item}
         /\ \A p \in Queue \ {q} : ptQueue'[p] = ptQueue[p]
<1>1. /\ ptQueue'[q] = Append(ptQueue[q], item)
      /\ \A p \in Queue \ {q} : ptQueue'[p] = ptQueue[p]
  BY DEF addItemToQueue, ListsTypeOK
<1> QED
  BY <1>1, AppendElements DEF ListsTypeOK

LEMMA PopPending ==
  ASSUME ListsTypeOK, NEW q \in Queue, popItemFromQueue(q)
  PROVE  /\ Popped(q) = NULL <=> ptQueue[q] = <<>>
         /\ Popped(q) # NULL => Popped(q) \in Items /\ Popped(q) \in ToSet(ptQueue[q])
         /\ ToSet(ptQueue'[q]) \subseteq ToSet(ptQueue[q])
         /\ ptQueue[q] = <<>> => ptQueue'[q] = <<>>
         /\ \A p \in Queue \ {q} : ptQueue'[p] = ptQueue[p]
<1>1. CASE ptQueue[q] = <<>>
  BY <1>1 DEF popItemFromQueue, Popped
<1>2. CASE ptQueue[q] # <<>>
  <2>1. ptQueue'[q] = Tail(ptQueue[q]) /\ \A p \in Queue \ {q} : ptQueue'[p] = ptQueue[p]
    BY <1>2 DEF popItemFromQueue, ListsTypeOK
  <2>2. Popped(q) = Head(ptQueue[q]) /\ Popped(q) \in Items
    BY <1>2, HeadTailProperties DEF Popped, ListsTypeOK
  <2> QED
    BY <1>2, <2>1, <2>2, TailElements, NullAssumption DEF ListsTypeOK
<1> QED
  BY <1>1, <1>2

LEMMA SamePending ==
  ASSUME NEW q, NEW item,
         \/ getFreshItemFromQueue(q, item)
         \/ recycleItemAtQueue(q, item)
         \/ cleanUpQueue(q)
  PROVE  ptQueue' = ptQueue
  BY DEF getFreshItemFromQueue, recycleItemAtQueue, cleanUpQueue

-----------------------------------------------------------------------------
(* Where each thread works on an item, it has one.                         *)
SendLabels ==
  {"recycle", "send", "write", "fresh", "read", "readMore", "received", "drop",
   "wakeCheck", "wake", "exitRecycle"}
ReceiveLabels == {"read", "readMore", "received", "drop"}
DeliverLabels ==
  {"haveFunc", "waitFlag", "publish", "broadcast", "gate", "process", "recycle"}

ItemInHand ==
  /\ pc[S] \in SendLabels => sendItem # NULL
  /\ pc[S] \in ReceiveLabels => recvItem # NULL
  /\ pc[F] \in DeliverLabels => fbItem # NULL
  /\ At(Main, "cmdAdd") => cmdItem # NULL

(* A command that is queued or being sent has a text, so it has a number.  *)
CommandHasText ==
  /\ \A item \in ToSet(ptQueue[SENDCMDS]) : ptData[item] # <<>>
  /\ sendItem # NULL => ptData[sendItem] # <<>>

(* TypeOK with what makes it inductive: the operations on items are typed  *)
(* only where the item is not a null pointer, and the number of a command  *)
(* is one only where its text is not empty.                                *)
TypeInv == TypeOK /\ ItemInHand /\ CommandHasText

-----------------------------------------------------------------------------
(* The state before the first call is well typed.                          *)
LEMMA InitTypeInv == Init => TypeInv
<1> SUFFICES ASSUME Init PROVE TypeInv
  OBVIOUS
<1> USE DEF Init, QueuesInit, ThreadsInit, DeviceInit, SendInit, FeedbackInit, IoInit
<1>1. QueuesTypeOK
  BY EmptySeq DEF QueuesTypeOK, ListsTypeOK, DataTypeOK, Text, Commands
<1>2. ThreadsTypeOK(Labels)
  BY DEF ThreadsTypeOK, FlagsTypeOK, Labels, Process, Thread
<1>3. DeviceTypeOK /\ SendTypeOK /\ IoTypeOK
  BY EmptySeq DEF DeviceTypeOK, Text, SendTypeOK, IoTypeOK, Thread, S
<1>4. FeedbackTypeOK
  BY EmptySeq DEF FeedbackTypeOK, Text, NoString
<1>5. ItemInHand
  BY DEF ItemInHand, SendLabels, ReceiveLabels, DeliverLabels, S, F, At, Process, Thread, Main,
         SENDTMC200CMDS, TMC200FEEDBACK
<1>6. CommandHasText
  BY EmptyElements DEF CommandHasText, SENDCMDS, Queue
<1> QED
  BY <1>1, <1>2, <1>3, <1>4, <1>5, <1>6 DEF TypeInv, TypeOK

(* The processes are three different ones.                                 *)
LEMMA Processes ==
  /\ S \in Process /\ F \in Process /\ Main \in Process
  /\ S # F /\ S # Main /\ F # Main
  /\ Process = {S, F, Main} /\ Thread = {S, F}
  BY DEF Process, Thread, S, F, Main, SENDTMC200CMDS, TMC200FEEDBACK

(* The operations on the flags of a thread (threads_common.c).             *)
LEMMA FlagsType ==
  ASSUME FlagsTypeOK, NEW t \in Thread
  PROVE  initThread(t) \/ pauseThread(t) \/ resumeThread(t) \/ stopThread(t)
           => FlagsTypeOK'
  BY DEF FlagsTypeOK, initThread, pauseThread, resumeThread, stopThread

(* The queues are two different ones.                                      *)
LEMMA TwoQueues ==
  SENDCMDS \in Queue /\ FEEDBACK \in Queue /\ SENDCMDS # FEEDBACK
  BY DEF Queue, SENDCMDS, FEEDBACK

(* The texts that go over the line.                                        *)
LEMMA Texts ==
  /\ \A n \in Nat : Line(n) \in Text /\ Line(n) # <<>>
  /\ \A t \in Text : t # <<>> => t[1].of \in Nat /\ Last(t).end \in BOOLEAN
  /\ \A t, u \in Text : t \o u \in Text /\ (u # <<>> => t \o u # <<>>)
  /\ <<>> \in Text
<1>1. ASSUME NEW n \in Nat
      PROVE  Line(n) \in Text /\ Line(n) # <<>>
  BY DEF Line, Text, Fragment
<1>2. ASSUME NEW t \in Text, t # <<>>
      PROVE  t[1].of \in Nat /\ Last(t).end \in BOOLEAN
  <2>1. Len(t) \in Nat \ {0}
    BY <1>2, EmptySeq DEF Text
  <2>2. t[1] \in Fragment /\ t[Len(t)] \in Fragment
    BY <1>2, <2>1, ElementOfSeq DEF Text
  <2> QED
    BY <2>2 DEF Fragment, Last
<1>3. ASSUME NEW t \in Text, NEW u \in Text
      PROVE  t \o u \in Text /\ (u # <<>> => t \o u # <<>>)
  BY ConcatProperties, ConcatEqualIffEmpty DEF Text
<1> QED
  BY <1>1, <1>2, <1>3, EmptySeq DEF Text

(* Whatever the device answers is a text.                                  *)
LEMMA AnswersAreTexts == \A n \in Nat : Answers(n) \subseteq Text
<1> SUFFICES ASSUME NEW n \in Nat PROVE Answers(n) \subseteq Text
  OBVIOUS
<1>1. <<[of |-> n, end |-> FALSE]>> \in Text
  BY DEF Text, Fragment
<1> QED
  BY <1>1, Texts DEF Answers

(* The send thread keeps TypeInv (sendtmc200cmdsthread.c).                 *)
LEMMA SendThreadTypeInv == TypeInv /\ SendThreadStep => TypeInv'
<1> SUFFICES ASSUME TypeInv, sendTMC200CmdsThreadFunc, UNCHANGED <<feedbackVars, ioVars>>
             PROVE  TypeInv'
  BY DEF SendThreadStep
<1> USE Processes DEF TypeInv, TypeOK, QueuesTypeOK, DataTypeOK, ThreadsTypeOK,
    ItemInHand, SendLabels, ReceiveLabels, DeliverLabels, CommandHasText, At, Branch, Goto,
    Labels, feedbackVars, ioVars, flagVars, queueVars, listVars, dataVars, deviceVars,
    sendVars, DeviceTypeOK, SendTypeOK, IoTypeOK, FeedbackTypeOK, waiterVars, threadVars
<1>1. CASE SendTop
  BY <1>1 DEF SendTop, ListsTypeOK, FlagsTypeOK
<1>2. CASE SendRecycle
  <2>1. sendItem \in Items
    BY <1>2 DEF SendRecycle
  <2>2. ListsTypeOK' /\ ptQueue' = ptQueue
    BY <1>2, <2>1, TwoQueues, ListsType, SamePending DEF SendRecycle
  <2> QED
    BY <1>2, <2>2 DEF SendRecycle, FlagsTypeOK
<1>3. CASE SendPop
  <2>1. /\ Popped(SENDCMDS) # NULL => /\ Popped(SENDCMDS) \in Items
                                       /\ Popped(SENDCMDS) \in ToSet(ptQueue[SENDCMDS])
        /\ ToSet(ptQueue'[SENDCMDS]) \subseteq ToSet(ptQueue[SENDCMDS])
    BY <1>3, TwoQueues, PopPending DEF SendPop
  <2>2. ListsTypeOK'
    BY <1>3, TwoQueues, ListsType DEF SendPop
  <2> QED
    BY <1>3, <2>1, <2>2 DEF SendPop, FlagsTypeOK
<1>4. CASE SendIdleAlive
  BY <1>4 DEF SendIdleAlive, ListsTypeOK, FlagsTypeOK
<1>5. CASE SendRepeatAlive
  BY <1>5 DEF SendRepeatAlive, ListsTypeOK, FlagsTypeOK
<1>6. CASE SendExitRecycle
  <2>1. sendItem \in Items
    BY <1>6 DEF SendExitRecycle
  <2>2. ListsTypeOK' /\ ptQueue' = ptQueue
    BY <1>6, <2>1, TwoQueues, ListsType, SamePending DEF SendExitRecycle
  <2> QED
    BY <1>6, <2>2 DEF SendExitRecycle, FlagsTypeOK
<1>7. CASE SendSend
  <2>1. sendItem \in Items /\ Number(sendItem) \in Nat
    BY <1>7, Texts DEF SendSend, Number
  <2>2. bResendCurCmd' \in BOOLEAN
    BY <1>7 DEF SendSend, ResendIt
  <2> QED
    BY <1>7, <2>1, <2>2 DEF SendSend, ListsTypeOK, FlagsTypeOK
<1>8. CASE SendPause
  <2>1. FlagsTypeOK'
    BY <1>8, FlagsType DEF SendPause
  <2> QED
    BY <1>8, <2>1 DEF SendPause, ListsTypeOK
<1>9. CASE SendWait
  BY <1>9 DEF SendWait, ListsTypeOK, FlagsTypeOK
<1>10. CASE SendWrite
  <2>1. sendItem \in Items /\ Number(sendItem) \in Nat
    BY <1>10, Texts DEF SendWrite, Number
  <2>2. reply' \in Text /\ line' = line
    BY <1>10, <2>1, AnswersAreTexts, Texts DEF SendWrite, DeviceAccept
  <2> QED
    BY <1>10, <2>2 DEF SendWrite, ListsTypeOK, FlagsTypeOK
<1>11. CASE SendWriteTimeout
  BY <1>11 DEF SendWriteTimeout, ListsTypeOK, FlagsTypeOK
<1>12. CASE ReceiveFresh
  <2>1. PICK item \in Items : getFreshItemFromQueue(FEEDBACK, item) /\ recvItem' = item
    BY <1>12 DEF ReceiveFresh
  <2>2. ListsTypeOK' /\ ptQueue' = ptQueue
    BY <2>1, TwoQueues, ListsType, SamePending
  <2> QED
    BY <1>12, <2>1, <2>2, NullAssumption DEF ReceiveFresh, FlagsTypeOK
<1>13. CASE ReceiveRead
  <2>1. recvItem \in Items
    BY <1>13 DEF ReceiveRead
  <2> DEFINE text == (IF pc[S] = "read" THEN <<>> ELSE ptData[recvItem]) \o line
  <2>2. text \in Text /\ text # <<>>
    BY <1>13, <2>1, Texts DEF ReceiveRead
  <2>3. ptData' = [ptData EXCEPT ![recvItem] = text]
    BY <1>13 DEF ReceiveRead
  <2>4. line' = <<>> /\ UNCHANGED reply
    BY <1>13 DEF ReceiveRead, LineTaken
  <2> HIDE DEF text
  <2> QED
    BY <1>13, <2>1, <2>2, <2>3, <2>4, Texts DEF ReceiveRead, ListsTypeOK, FlagsTypeOK
<1>14. CASE ReceiveTimeout
  BY <1>14 DEF ReceiveTimeout, ListsTypeOK, FlagsTypeOK
<1>15. CASE ReceiveDrop
  <2>1. recvItem \in Items
    BY <1>15 DEF ReceiveDrop
  <2>2. ListsTypeOK' /\ ptQueue' = ptQueue
    BY <1>15, <2>1, TwoQueues, ListsType, SamePending DEF ReceiveDrop
  <2> QED
    BY <1>15, <2>2 DEF ReceiveDrop, FlagsTypeOK
<1>16. CASE ReceiveErr
  BY <1>16 DEF ReceiveErr, ListsTypeOK, FlagsTypeOK
<1>17. CASE ReceiveDeliver
  <2>1. recvItem \in Items /\ sendItem \in Items
    BY <1>17 DEF ReceiveDeliver
  <2>2. ListsTypeOK' /\ ptQueue'[SENDCMDS] = ptQueue[SENDCMDS]
    BY <1>17, <2>1, TwoQueues, ListsType, AddPending DEF ReceiveDeliver
  <2> QED
    BY <1>17, <2>1, <2>2 DEF ReceiveDeliver, FlagsTypeOK
<1>18. CASE WakeCheck
  BY <1>18 DEF WakeCheck, ListsTypeOK, FlagsTypeOK
<1>19. CASE Wake
  <2>1. FlagsTypeOK'
    BY <1>19, FlagsType DEF Wake, F
  <2> QED
    BY <1>19, <2>1 DEF Wake, ListsTypeOK
<1> HIDE DEF TypeInv
<1> QED
  BY <1>1, <1>2, <1>3, <1>4, <1>5, <1>6, <1>7, <1>8, <1>9, <1>10, <1>11, <1>12,
     <1>13, <1>14, <1>15, <1>16, <1>17, <1>18, <1>19, Zenon DEF sendTMC200CmdsThreadFunc

(* So does the feedback thread (tmc200feedbackthread.c:88-144),            *)
LEMMA FeedbackThreadTypeInv == TypeInv /\ FeedbackThreadStep => TypeInv'
<1> SUFFICES ASSUME TypeInv, TMC200FeedBackThreadFunc, UNCHANGED <<deviceVars, sendVars, ioVars>>
             PROVE  TypeInv'
  BY DEF FeedbackThreadStep
<1> USE Processes DEF TypeInv, TypeOK, QueuesTypeOK, DataTypeOK, ThreadsTypeOK,
    ItemInHand, SendLabels, ReceiveLabels, DeliverLabels, CommandHasText, At, Branch, Goto,
    Labels, feedbackVars, ioVars, flagVars, queueVars, listVars, dataVars, deviceVars,
    sendVars, DeviceTypeOK, SendTypeOK, IoTypeOK, FeedbackTypeOK, waiterVars, threadVars
<1>1. CASE FbPop
  <2>1. Popped(FEEDBACK) # NULL => Popped(FEEDBACK) \in Items
    BY <1>1, TwoQueues, PopPending DEF FbPop
  <2>2. ListsTypeOK' /\ ptQueue'[SENDCMDS] = ptQueue[SENDCMDS]
    BY <1>1, TwoQueues, ListsType, PopPending DEF FbPop
  <2> QED
    BY <1>1, <2>1, <2>2 DEF FbPop, FlagsTypeOK
<1>2. CASE FbHaveFunc
  BY <1>2 DEF FbHaveFunc, ListsTypeOK, FlagsTypeOK
<1>3. CASE FbWaitFlag
  BY <1>3 DEF FbWaitFlag, ListsTypeOK, FlagsTypeOK
<1>4. CASE FbPublish
  BY <1>4 DEF FbPublish, ListsTypeOK, FlagsTypeOK
<1>5. CASE FbBroadcast
  BY <1>5 DEF FbBroadcast, ListsTypeOK, FlagsTypeOK
<1>6. CASE FbGate
  BY <1>6 DEF FbGate, ListsTypeOK, FlagsTypeOK
<1>7. CASE FbProcess
  <2>1. fbItem \in Items
    BY <1>7 DEF FbProcess
  <2> QED
    BY <1>7, <2>1 DEF FbProcess, ListsTypeOK, FlagsTypeOK
<1>8. CASE FbRecycle
  <2>1. fbItem \in Items
    BY <1>8 DEF FbRecycle
  <2>2. ListsTypeOK' /\ ptQueue' = ptQueue
    BY <1>8, <2>1, TwoQueues, ListsType, SamePending DEF FbRecycle
  <2> QED
    BY <1>8, <2>2 DEF FbRecycle, FlagsTypeOK
<1>9. CASE FbSize
  BY <1>9 DEF FbSize, ListsTypeOK, FlagsTypeOK
<1>10. CASE FbAlive
  BY <1>10 DEF FbAlive, ListsTypeOK, FlagsTypeOK
<1>11. CASE FbPause
  <2>1. FlagsTypeOK'
    BY <1>11, FlagsType DEF FbPause
  <2> QED
    BY <1>11, <2>1 DEF FbPause, ListsTypeOK
<1>12. CASE FbWait
  BY <1>12 DEF FbWait, ListsTypeOK, FlagsTypeOK
<1> HIDE DEF TypeInv
<1> QED
  BY <1>1, <1>2, <1>3, <1>4, <1>5, <1>6, <1>7, <1>8, <1>9, <1>10, <1>11, <1>12
  DEF TMC200FeedBackThreadFunc

(* a caller of waitForTMC200Feedback (tmc200feedbackthread.c:35-81),       *)
LEMMA WaitTypeInv == TypeInv /\ WaitStep => TypeInv'
<1> SUFFICES ASSUME TypeInv, tmc200ctrl_io_waitForTMC200Feedback,
                    UNCHANGED <<deviceVars, sendVars, ioVars>>
             PROVE  TypeInv'
  BY DEF WaitStep
<1> USE Processes DEF TypeInv, TypeOK, QueuesTypeOK, DataTypeOK, ThreadsTypeOK,
    ItemInHand, SendLabels, ReceiveLabels, DeliverLabels, CommandHasText, At, Branch, Goto,
    Labels, feedbackVars, ioVars, flagVars, queueVars, listVars, dataVars, deviceVars,
    sendVars, DeviceTypeOK, SendTypeOK, IoTypeOK, FeedbackTypeOK, waiterVars, threadVars
<1>1. CASE WaitLock
  BY <1>1 DEF WaitLock, ListsTypeOK, FlagsTypeOK
<1>2. CASE WaitInvalid
  <2>1. waitOk' \in BOOLEAN /\ spurious' \in BOOLEAN
    BY <1>2 DEF WaitInvalid
  <2> QED
    BY <1>2, <2>1 DEF WaitInvalid, ListsTypeOK, FlagsTypeOK
<1>3. CASE WaitSignalled
  <2>1. waitOk' \in BOOLEAN /\ spurious' \in BOOLEAN
    BY <1>3 DEF WaitSignalled, WaitReturn
  <2> QED
    BY <1>3, <2>1 DEF WaitSignalled, WaitReturn, ListsTypeOK, FlagsTypeOK
<1>4. CASE WaitTimeout
  <2>1. waitOk' \in BOOLEAN /\ spurious' \in BOOLEAN
    BY <1>4 DEF WaitTimeout, WaitReturn
  <2> QED
    BY <1>4, <2>1 DEF WaitTimeout, WaitReturn, ListsTypeOK, FlagsTypeOK
<1>5. CASE WaitSpurious
  <2>1. waitOk' \in BOOLEAN /\ spurious' \in BOOLEAN
    BY <1>5 DEF WaitSpurious, WaitReturn
  <2> QED
    BY <1>5, <2>1 DEF WaitSpurious, WaitReturn, ListsTypeOK, FlagsTypeOK
<1>6. CASE WaitPause
  <2>1. FlagsTypeOK' /\ pcRetStr' \in [null : BOOLEAN, text : Text]
    BY <1>6, FlagsType, Texts DEF WaitPause, NoString
  <2> QED
    BY <1>6, <2>1 DEF WaitPause, ListsTypeOK
<1>7. CASE WaitCopy
  <2>1. pcRetStr' \in [null : BOOLEAN, text : Text]
    BY <1>7 DEF WaitCopy, String
  <2> QED
    BY <1>7, <2>1 DEF WaitCopy, ListsTypeOK, FlagsTypeOK
<1>8. CASE WaitClear
  <2>1. waitForTMC200FBCalled' \in BOOLEAN /\ spurious' \in BOOLEAN
    BY <1>8 DEF WaitClear
  <2> QED
    BY <1>8, <2>1 DEF WaitClear, ListsTypeOK, FlagsTypeOK
<1>9. CASE WaitResume
  <2>1. FlagsTypeOK'
    BY <1>9, FlagsType DEF WaitResume
  <2> QED
    BY <1>9, <2>1 DEF WaitResume, ListsTypeOK
<1> HIDE DEF TypeInv
<1> QED
  BY <1>1, <1>2, <1>3, <1>4, <1>5, <1>6, <1>7, <1>8, <1>9 DEF tmc200ctrl_io_waitForTMC200Feedback

(* a caller of init, setCmd or shutdown (libtmc200ctrl_io.c),              *)
LEMMA MainTypeInv == TypeInv /\ MainStep => TypeInv'
<1> SUFFICES ASSUME TypeInv, MainStep PROVE TypeInv'
  OBVIOUS
<1> USE Processes DEF TypeInv, TypeOK, QueuesTypeOK, DataTypeOK, ThreadsTypeOK,
    ItemInHand, SendLabels, ReceiveLabels, DeliverLabels, CommandHasText, At, Branch, Goto,
    Labels, feedbackVars, ioVars, flagVars, queueVars, listVars, dataVars, deviceVars,
    sendVars, DeviceTypeOK, SendTypeOK, IoTypeOK, FeedbackTypeOK, waiterVars, threadVars
<1>1. CASE InitSend
  <2>1. ListsTypeOK' /\ ptQueue'[SENDCMDS] = <<>>
    BY <1>1, TwoQueues, ListsType, InitPending DEF InitSend
  <2>2. FlagsTypeOK'
    BY <1>1, FlagsType DEF InitSend
  <2>3. tried' \in Nat
    BY <1>1, LenProperties DEF InitSend
  <2> QED
    BY <1>1, <2>1, <2>2, <2>3, EmptyElements DEF InitSend
<1>2. CASE InitSendFails
  <2>1. ListsTypeOK' /\ ptQueue'[SENDCMDS] = <<>>
    BY <1>2, TwoQueues, ListsType, InitPending DEF InitSendFails
  <2>2. FlagsTypeOK' /\ fdOpen' \in BOOLEAN
    BY <1>2, FlagsType DEF InitSendFails
  <2> QED
    BY <1>2, <2>1, <2>2, EmptyElements DEF InitSendFails
<1>3. CASE InitFeedback
  <2>1. ListsTypeOK' /\ ptQueue'[SENDCMDS] = ptQueue[SENDCMDS]
    BY <1>3, TwoQueues, ListsType, InitPending DEF InitFeedback
  <2>2. FlagsTypeOK'
    BY <1>3, FlagsType DEF InitFeedback
  <2> QED
    BY <1>3, <2>1, <2>2 DEF InitFeedback
<1>4. CASE InitFeedbackFails
  <2>1. ListsTypeOK' /\ ptQueue'[SENDCMDS] = ptQueue[SENDCMDS]
    BY <1>4, TwoQueues, ListsType, InitPending DEF InitFeedbackFails
  <2>2. FlagsTypeOK' /\ fdOpen' \in BOOLEAN
    BY <1>4, FlagsType DEF InitFeedbackFails
  <2> QED
    BY <1>4, <2>1, <2>2 DEF InitFeedbackFails
<1>5. CASE CmdFresh
  <2>1. PICK item \in Items : getFreshItemFromQueue(SENDCMDS, item) /\ cmdItem' = item
    BY <1>5 DEF CmdFresh
  <2>2. ListsTypeOK' /\ ptQueue' = ptQueue
    BY <2>1, TwoQueues, ListsType, SamePending
  <2> QED
    BY <1>5, <2>1, <2>2, NullAssumption DEF CmdFresh, FlagsTypeOK
<1>6. CASE CmdAdd
  <2>1. cmdItem \in Items
    BY <1>6 DEF CmdAdd
  <2>2. ListsTypeOK' /\ ToSet(ptQueue'[SENDCMDS]) = ToSet(ptQueue[SENDCMDS]) \cup {cmdItem}
    BY <1>6, <2>1, TwoQueues, ListsType, AddPending DEF CmdAdd
  <2>3. PICK cmd \in Commands : /\ eCmd' = [eCmd EXCEPT ![cmdItem] = cmd]
                                /\ issued' = Append(issued, cmd)
    BY <1>6 DEF CmdAdd
  <2>4. issued' \in Seq(Commands) /\ eCmd' \in [Items -> Commands]
    BY <2>3, AppendProperties
  <2> DEFINE text == Line(Len(issued) + 1)
  <2>5. text \in Text /\ text # <<>>
    BY LenProperties, Texts
  <2>6. ptData' = [ptData EXCEPT ![cmdItem] = text]
    BY <1>6 DEF CmdAdd
  <2> HIDE DEF text
  <2> QED
    BY <1>6, <2>1, <2>2, <2>4, <2>5, <2>6 DEF CmdAdd, FlagsTypeOK
<1>7. CASE CmdCheck
  BY <1>7 DEF CmdCheck, ListsTypeOK, FlagsTypeOK
<1>8. CASE CmdResume
  <2>1. FlagsTypeOK'
    BY <1>8, FlagsType DEF CmdResume
  <2> QED
    BY <1>8, <2>1 DEF CmdResume, ListsTypeOK
<1>9. CASE Stop
  <2>1. FlagsTypeOK'
    BY <1>9, FlagsType DEF Stop, FlagsTypeOK
  <2> QED
    BY <1>9, <2>1 DEF Stop, StopReturn, ListsTypeOK
<1>10. CASE StopPaused
  BY <1>10 DEF StopPaused, ListsTypeOK, FlagsTypeOK
<1>11. CASE StopResume
  <2>1. FlagsTypeOK'
    BY <1>11, FlagsType DEF StopResume
  <2> QED
    BY <1>11, <2>1 DEF StopResume, ListsTypeOK
<1>12. CASE Join
  BY <1>12 DEF Join, StopReturn, ListsTypeOK, FlagsTypeOK
<1>13. CASE CleanFeedback
  <2>1. ListsTypeOK' /\ ptQueue' = ptQueue
    BY <1>13, TwoQueues, ListsType, SamePending DEF CleanFeedback
  <2> QED
    BY <1>13, <2>1 DEF CleanFeedback, FlagsTypeOK
<1>14. CASE CleanSendCmds
  <2>1. ListsTypeOK' /\ ptQueue' = ptQueue
    BY <1>14, TwoQueues, ListsType, SamePending DEF CleanSendCmds
  <2> QED
    BY <1>14, <2>1 DEF CleanSendCmds, FlagsTypeOK
<1>15. CASE closeFd
  <2>1. fdOpen' \in BOOLEAN
    BY <1>15 DEF closeFd
  <2> QED
    BY <1>15, <2>1 DEF closeFd, ListsTypeOK, FlagsTypeOK
<1>16. CASE WaitStep
  BY <1>16, WaitTypeInv
<1> HIDE DEF TypeInv
<1> QED
  BY <1>1, <1>2, <1>3, <1>4, <1>5, <1>6, <1>7, <1>8, <1>9, <1>10, <1>11, <1>12,
     <1>13, <1>14, <1>15, <1>16 DEF MainStep

(* every call that the application makes,                                  *)
LEMMA CallTypeInv == TypeInv /\ Call => TypeInv'
<1> SUFFICES ASSUME TypeInv, Call PROVE TypeInv'
  OBVIOUS
<1> USE Processes DEF TypeInv, TypeOK, QueuesTypeOK, DataTypeOK, ThreadsTypeOK,
    ItemInHand, SendLabels, ReceiveLabels, DeliverLabels, CommandHasText, At, Branch, Goto,
    Labels, feedbackVars, ioVars, flagVars, queueVars, listVars, dataVars, deviceVars,
    sendVars, DeviceTypeOK, SendTypeOK, IoTypeOK, FeedbackTypeOK, waiterVars, threadVars
<1>1. CASE InitCall
  BY <1>1, Texts DEF InitCall, LineTaken, ListsTypeOK, FlagsTypeOK
<1>2. CASE SetCmdCall
  BY <1>2 DEF SetCmdCall, ListsTypeOK, FlagsTypeOK
<1>3. CASE ShutdownCall
  BY <1>3 DEF ShutdownCall, ListsTypeOK, FlagsTypeOK
<1>4. CASE RepeatCall
  <2>1. bResendSV' \in BOOLEAN
    BY <1>4 DEF RepeatCall, tmc200ctrl_io_sendSVRepetitive
  <2> QED
    BY <1>4, <2>1 DEF RepeatCall, tmc200ctrl_io_sendSVRepetitive, ListsTypeOK, FlagsTypeOK
<1>5. CASE CallbackCall
  <2>1. processFeedbackFunc' \in BOOLEAN
    BY <1>5 DEF CallbackCall, tmc200ctrl_io_setTMC200FeedbackProcessingFunction
  <2> QED
    BY <1>5, <2>1 DEF CallbackCall, tmc200ctrl_io_setTMC200FeedbackProcessingFunction,
       ListsTypeOK, FlagsTypeOK
<1>6. CASE WaitForFeedbackCall
  BY <1>6 DEF WaitForFeedbackCall, WaitCall, ListsTypeOK, FlagsTypeOK
<1> HIDE DEF TypeInv
<1> QED
  BY <1>1, <1>2, <1>3, <1>4, <1>5, <1>6 DEF Call

(* the device,                                                             *)
LEMMA DeviceTypeInv == TypeInv /\ DeviceStep => TypeInv'
<1> SUFFICES ASSUME TypeInv, DeviceStep PROVE TypeInv'
  OBVIOUS
<1> USE Processes DEF TypeInv, TypeOK, QueuesTypeOK, DataTypeOK, ThreadsTypeOK,
    ItemInHand, SendLabels, ReceiveLabels, DeliverLabels, CommandHasText, At, Branch, Goto,
    Labels, feedbackVars, ioVars, flagVars, queueVars, listVars, dataVars, deviceVars,
    sendVars, DeviceTypeOK, SendTypeOK, IoTypeOK, FeedbackTypeOK, waiterVars, threadVars
<1>1. reply \in Seq(Fragment) /\ reply # <<>> /\ line \in Seq(Fragment)
  BY DEF DeviceStep, DeviceEmit, Text
<1>2. Head(reply) \in Fragment /\ Tail(reply) \in Seq(Fragment)
  BY <1>1, HeadTailProperties
<1>3. Append(line, Head(reply)) \in Seq(Fragment)
  BY <1>1, <1>2, AppendProperties
<1>4. line' \in Text /\ reply' \in Text
  BY <1>2, <1>3 DEF DeviceStep, DeviceEmit, Text
<1> QED
  BY <1>4 DEF DeviceStep, ListsTypeOK, FlagsTypeOK

(* and a step in which nothing happens.                                    *)
LEMMA StutterTypeInv == TypeInv /\ UNCHANGED vars => TypeInv'
  BY DEF vars, TypeInv, TypeOK, QueuesTypeOK, ListsTypeOK, DataTypeOK, ThreadsTypeOK, FlagsTypeOK,
    ItemInHand, CommandHasText, At, feedbackVars, ioVars, flagVars, queueVars, listVars,
    dataVars, deviceVars, sendVars, DeviceTypeOK, SendTypeOK, IoTypeOK, FeedbackTypeOK

(* TypeInv is inductive.                                                   *)
LEMMA NextTypeInv == TypeInv /\ [Next]_vars => TypeInv'
  BY SendThreadTypeInv, FeedbackThreadTypeInv, MainTypeInv, CallTypeInv, DeviceTypeInv,
     StutterTypeInv DEF Next

(* Every variable keeps its type, and whoever works on an item has one: no *)
(* step of any thread adds, recycles or delivers through a null pointer,   *)
(* and every command that is sent has been written (TmcIo, all actions).   *)
THEOREM TypeCorrect == Spec => []TypeOK
<1>1. Init => TypeInv
  BY InitTypeInv
<1>2. TypeInv /\ [Next]_vars => TypeInv'
  BY NextTypeInv
<1>3. TypeInv => TypeOK
  BY DEF TypeInv
<1> QED
  BY <1>1, <1>2, <1>3, PTL DEF Spec

-----------------------------------------------------------------------------
(* The stages of the library's life, from Main's point of view.            *)
StopLabels == {"stop", "stopPaused", "stopResume", "join"}
CleanLabels == {"cleanFeedback", "cleanSendCmds", "close"}

Gone(t) == pc[t] \in {"unborn", "exited"}
BothExited == At(S, "exited") /\ At(F, "exited")

(* Nothing to send: what keeps the sender off a port that init has closed  *)
(* again while the thread still runs.                                      *)
NothingToSend == sendItem = NULL /\ ptQueue[SENDCMDS] = <<>>

(* Before an init has succeeded.                                           *)
LifeOff ==
  lib = "off" =>
    /\ pc[Main] \in {"idle", "initSend", "initFeedback"} \cup StopLabels
    /\ At(Main, "idle") => Gone(S)
    /\ pc[Main] \in StopLabels => victim = S /\ NothingToSend

LifeInit ==
  /\ At(Main, "initSend") => lib # "up" /\ fdOpen /\ Gone(S)
  /\ At(Main, "initFeedback") => lib # "up" /\ fdOpen /\ isAlive[S] /\ NothingToSend

LifeUp ==
  lib = "up" =>
    /\ fdOpen
    /\ pc[Main] \notin StopLabels \cup CleanLabels => isAlive[S] /\ isAlive[F]
    /\ pc[Main] \in StopLabels /\ victim = S => isAlive[F]
    /\ pc[Main] \in StopLabels /\ victim = F => At(S, "exited") /\ ~isAlive[S]

(* While a thread is stopped.                                              *)
LifeStop ==
  /\ At(Main, "stop") => isAlive[victim]
  /\ pc[Main] \in StopLabels \ {"stop"} => ~isAlive[victim]

(* From the last join on.                                                  *)
LifeDown ==
  /\ pc[Main] \in CleanLabels => lib = "up" /\ ~isAlive[S] /\ BothExited
  /\ lib = "down" => pc[Main] \in {"idle", "initSend", "initFeedback"}
  /\ lib = "down" /\ At(Main, "idle") => ~isAlive[S] /\ BothExited

LifeInv == LifeOff /\ LifeInit /\ LifeUp /\ LifeStop /\ LifeDown

(* LifeInv holds before the first call.                                    *)
LEMMA InitLifeInv == Init => LifeInv
  BY Processes DEF Init, ThreadsInit, IoInit, LifeInv, LifeOff, LifeInit, LifeUp, LifeStop,
     LifeDown, StopLabels, CleanLabels, At, Gone

(* What the steps of the threads leave alone as far as LifeInv goes.       *)
LEMMA SendThreadFrame ==
  ASSUME TypeInv, SendThreadStep
  PROVE  /\ ~Gone(S)
         /\ pc'[Main] = pc[Main] /\ pc'[F] = pc[F]
         /\ UNCHANGED <<isAlive, victim, fdOpen, lib>>
         /\ NothingToSend => NothingToSend'
<1> DEFINE Frame == /\ ~Gone(S)
                    /\ pc'[Main] = pc[Main] /\ pc'[F] = pc[F]
                    /\ UNCHANGED isAlive
                    /\ NothingToSend => NothingToSend'
<1>0. sendTMC200CmdsThreadFunc /\ UNCHANGED <<victim, fdOpen, lib>>
  BY DEF SendThreadStep, ioVars
<1> SUFFICES Frame
  BY <1>0
<1> USE Processes DEF TypeInv, TypeOK, QueuesTypeOK, ThreadsTypeOK, ItemInHand, SendLabels, At,
    Branch, Goto, Gone, NothingToSend, ioVars, flagVars, queueVars, listVars, sendVars,
    deviceVars, feedbackVars
<1>1. CASE SendTop
  BY <1>1 DEF SendTop
<1>2. CASE SendRecycle
  BY <1>2, SamePending DEF SendRecycle
<1>3. CASE SendPop
  <2>1. NothingToSend => Popped(SENDCMDS) = NULL /\ ptQueue'[SENDCMDS] = <<>>
    BY <1>3, TwoQueues, PopPending DEF SendPop
  <2> QED
    BY <1>3, <2>1 DEF SendPop
<1>4. CASE SendIdleAlive
  BY <1>4 DEF SendIdleAlive
<1>5. CASE SendRepeatAlive
  BY <1>5 DEF SendRepeatAlive
<1>6. CASE SendExitRecycle
  BY <1>6, SamePending DEF SendExitRecycle
<1>7. CASE SendSend
  BY <1>7 DEF SendSend
<1>8. CASE SendPause
  BY <1>8 DEF SendPause, pauseThread
<1>9. CASE SendWait
  BY <1>9 DEF SendWait
<1>10. CASE SendWrite
  BY <1>10 DEF SendWrite
<1>11. CASE SendWriteTimeout
  BY <1>11 DEF SendWriteTimeout
<1>12. CASE ReceiveFresh
  <2>1. ptQueue' = ptQueue
    BY <1>12, SamePending DEF ReceiveFresh
  <2> QED
    BY <1>12, <2>1 DEF ReceiveFresh
<1>13. CASE ReceiveRead
  BY <1>13 DEF ReceiveRead
<1>14. CASE ReceiveTimeout
  BY <1>14 DEF ReceiveTimeout
<1>15. CASE ReceiveDrop
  BY <1>15, SamePending DEF ReceiveDrop
<1>16. CASE ReceiveErr
  BY <1>16 DEF ReceiveErr
<1>17. CASE ReceiveDeliver
  <2>1. recvItem \in Items
    BY <1>17 DEF ReceiveDeliver, SendTypeOK, ReceiveLabels
  <2>2. ptQueue'[SENDCMDS] = ptQueue[SENDCMDS]
    BY <1>17, <2>1, TwoQueues, AddPending DEF ReceiveDeliver
  <2> QED
    BY <1>17, <2>2 DEF ReceiveDeliver
<1>18. CASE WakeCheck
  BY <1>18 DEF WakeCheck
<1>19. CASE Wake
  BY <1>19 DEF Wake, resumeThread
<1> HIDE DEF Frame
<1> QED
  BY <1>0, <1>1, <1>2, <1>3, <1>4, <1>5, <1>6, <1>7, <1>8, <1>9, <1>10, <1>11, <1>12,
     <1>13, <1>14, <1>15, <1>16, <1>17, <1>18, <1>19 DEF sendTMC200CmdsThreadFunc

(* The feedback thread touches nothing of the sender's.                    *)
LEMMA FeedbackThreadFrame ==
  ASSUME TypeInv, FeedbackThreadStep
  PROVE  /\ ~Gone(F)
         /\ pc'[Main] = pc[Main] /\ pc'[S] = pc[S]
         /\ UNCHANGED <<isAlive, victim, fdOpen, lib, sendItem>>
         /\ ptQueue'[SENDCMDS] = ptQueue[SENDCMDS]
<1> DEFINE Frame == /\ ~Gone(F)
                    /\ pc'[Main] = pc[Main] /\ pc'[S] = pc[S]
                    /\ UNCHANGED isAlive
                    /\ ptQueue'[SENDCMDS] = ptQueue[SENDCMDS]
<1>0. TMC200FeedBackThreadFunc /\ UNCHANGED <<victim, fdOpen, lib, sendItem>>
  BY DEF FeedbackThreadStep, ioVars, sendVars
<1> SUFFICES Frame
  BY <1>0
<1> USE Processes DEF TypeInv, TypeOK, QueuesTypeOK, ThreadsTypeOK, At, Branch, Goto,
    Gone, ioVars, flagVars, queueVars, listVars, sendVars, deviceVars, feedbackVars
<1>1. CASE FbPop
  <2>1. ptQueue'[SENDCMDS] = ptQueue[SENDCMDS]
    BY <1>1, TwoQueues, PopPending DEF FbPop
  <2> QED
    BY <1>1, <2>1 DEF FbPop
<1>2. CASE FbHaveFunc
  BY <1>2 DEF FbHaveFunc
<1>3. CASE FbWaitFlag
  BY <1>3 DEF FbWaitFlag
<1>4. CASE FbPublish
  BY <1>4 DEF FbPublish
<1>5. CASE FbBroadcast
  BY <1>5 DEF FbBroadcast
<1>6. CASE FbGate
  BY <1>6 DEF FbGate
<1>7. CASE FbProcess
  BY <1>7 DEF FbProcess
<1>8. CASE FbRecycle
  BY <1>8, SamePending DEF FbRecycle
<1>9. CASE FbSize
  BY <1>9 DEF FbSize
<1>10. CASE FbAlive
  BY <1>10 DEF FbAlive
<1>11. CASE FbPause
  BY <1>11 DEF FbPause, pauseThread
<1>12. CASE FbWait
  BY <1>12 DEF FbWait
<1> HIDE DEF Frame
<1> QED
  BY <1>0, <1>1, <1>2, <1>3, <1>4, <1>5, <1>6, <1>7, <1>8, <1>9, <1>10, <1>11, <1>12
  DEF TMC200FeedBackThreadFunc

(* The threads keep LifeInv,                                               *)
LEMMA ThreadsLifeInv ==
  TypeInv /\ LifeInv /\ (SendThreadStep \/ FeedbackThreadStep) => LifeInv'
<1> USE Processes DEF LifeInv, LifeOff, LifeInit, LifeUp, LifeStop, LifeDown, Gone, BothExited, At
<1>1. ASSUME TypeInv, LifeInv, SendThreadStep PROVE LifeInv'
  <2>1. /\ ~Gone(S)
        /\ pc'[Main] = pc[Main] /\ pc'[F] = pc[F]
        /\ UNCHANGED <<isAlive, victim, fdOpen, lib>>
        /\ NothingToSend => NothingToSend'
    BY <1>1, SendThreadFrame
  <2> QED
    BY <1>1, <2>1
<1>2. ASSUME TypeInv, LifeInv, FeedbackThreadStep PROVE LifeInv'
  <2>1. /\ ~Gone(F)
        /\ pc'[Main] = pc[Main] /\ pc'[S] = pc[S]
        /\ UNCHANGED <<isAlive, victim, fdOpen, lib>>
        /\ NothingToSend => NothingToSend'
    BY <1>2, FeedbackThreadFrame DEF NothingToSend
  <2> QED
    BY <1>2, <2>1
<1> QED
  BY <1>1, <1>2

(* and so do a caller of waitForTMC200Feedback,                            *)
LEMMA WaitLifeInv == TypeInv /\ LifeInv /\ WaitStep => LifeInv'
<1> SUFFICES ASSUME TypeInv, LifeInv, tmc200ctrl_io_waitForTMC200Feedback,
                    UNCHANGED <<deviceVars, sendVars, ioVars>>
             PROVE  LifeInv'
  BY DEF WaitStep
<1> USE Processes DEF TypeInv, TypeOK, QueuesTypeOK, ThreadsTypeOK, FlagsTypeOK, LifeInv, LifeOff,
    LifeInit, LifeUp, LifeStop, LifeDown, StopLabels, CleanLabels, Gone, BothExited,
    NothingToSend, At, Branch, Goto,
    ioVars, flagVars, queueVars, listVars, sendVars, threadVars, waiterVars, IoTypeOK
<1>1. CASE WaitLock
  BY <1>1 DEF WaitLock
<1>2. CASE WaitInvalid
  BY <1>2 DEF WaitInvalid
<1>3. CASE WaitSignalled
  BY <1>3 DEF WaitSignalled, WaitReturn
<1>4. CASE WaitTimeout
  BY <1>4 DEF WaitTimeout, WaitReturn
<1>5. CASE WaitSpurious
  BY <1>5 DEF WaitSpurious, WaitReturn
<1>6. CASE WaitPause
  BY <1>6 DEF WaitPause, pauseThread
<1>7. CASE WaitCopy
  BY <1>7 DEF WaitCopy
<1>8. CASE WaitClear
  BY <1>8 DEF WaitClear
<1>9. CASE WaitResume
  BY <1>9 DEF WaitResume, resumeThread
<1> HIDE DEF TypeInv, LifeInv
<1> QED
  BY <1>1, <1>2, <1>3, <1>4, <1>5, <1>6, <1>7, <1>8, <1>9 DEF tmc200ctrl_io_waitForTMC200Feedback

(* of init, setCmd and shutdown,                                           *)
LEMMA MainLifeInv == TypeInv /\ LifeInv /\ MainStep => LifeInv'
<1> SUFFICES ASSUME TypeInv, LifeInv, MainStep PROVE LifeInv'
  OBVIOUS
<1> USE Processes DEF TypeInv, TypeOK, QueuesTypeOK, ThreadsTypeOK, FlagsTypeOK, LifeInv, LifeOff,
    LifeInit, LifeUp, LifeStop, LifeDown, StopLabels, CleanLabels, Gone, BothExited,
    NothingToSend, At, Branch, Goto,
    ioVars, flagVars, queueVars, listVars, sendVars, threadVars, waiterVars, IoTypeOK
<1>1. CASE InitSend
  <2>1. ptQueue'[SENDCMDS] = <<>>
    BY <1>1, TwoQueues, InitPending DEF InitSend
  <2> QED
    BY <1>1, <2>1 DEF InitSend, initThread
<1>2. CASE InitSendFails
  BY <1>2 DEF InitSendFails, initThread
<1>3. CASE InitFeedback
  BY <1>3 DEF InitFeedback, initThread
<1>4. CASE InitFeedbackFails
  <2>1. ptQueue'[SENDCMDS] = ptQueue[SENDCMDS]
    BY <1>4, TwoQueues, InitPending DEF InitFeedbackFails
  <2> QED
    BY <1>4, <2>1 DEF InitFeedbackFails, initThread
<1>5. CASE CmdFresh
  BY <1>5 DEF CmdFresh
<1>6. CASE CmdAdd
  BY <1>6 DEF CmdAdd
<1>7. CASE CmdCheck
  BY <1>7 DEF CmdCheck
<1>8. CASE CmdResume
  BY <1>8 DEF CmdResume, resumeThread
<1>9. CASE Stop
  <2>1. /\ At(Main, "stop") /\ isAlive[victim]
        /\ pc' = [pc EXCEPT ![Main] = "stopPaused"]
        /\ isAlive' = [isAlive EXCEPT ![victim] = FALSE]
        /\ UNCHANGED <<victim, fdOpen, lib, sendItem, ptQueue>>
    BY <1>9 DEF Stop, isThreadAlive, stopThread
  <2> QED
    BY <2>1
<1>10. CASE StopPaused
  BY <1>10 DEF StopPaused
<1>11. CASE StopResume
  BY <1>11 DEF StopResume, resumeThread
<1>12. CASE Join
  BY <1>12 DEF Join, StopReturn
<1>13. CASE CleanFeedback
  BY <1>13 DEF CleanFeedback
<1>14. CASE CleanSendCmds
  BY <1>14 DEF CleanSendCmds
<1>15. CASE closeFd
  BY <1>15 DEF closeFd
<1>16. CASE WaitStep
  BY <1>16, WaitLifeInv
<1> HIDE DEF TypeInv, LifeInv
<1> QED
  BY <1>1, <1>2, <1>3, <1>4, <1>5, <1>6, <1>7, <1>8, <1>9, <1>10, <1>11, <1>12,
     <1>13, <1>14, <1>15, <1>16 DEF MainStep

(* every call that the application makes,                                  *)
LEMMA CallLifeInv == TypeInv /\ LifeInv /\ Call => LifeInv'
<1> SUFFICES ASSUME TypeInv, LifeInv, Call PROVE LifeInv'
  OBVIOUS
<1> USE Processes DEF TypeInv, TypeOK, QueuesTypeOK, ThreadsTypeOK, FlagsTypeOK, LifeInv, LifeOff,
    LifeInit, LifeUp, LifeStop, LifeDown, StopLabels, CleanLabels, Gone, BothExited,
    NothingToSend, At, Branch, Goto,
    ioVars, flagVars, queueVars, listVars, sendVars, threadVars, waiterVars, IoTypeOK
<1>1. CASE InitCall
  BY <1>1 DEF InitCall
<1>2. CASE SetCmdCall
  BY <1>2 DEF SetCmdCall, isThreadAlive
<1>3. CASE ShutdownCall
  BY <1>3 DEF ShutdownCall
<1>4. CASE RepeatCall
  BY <1>4 DEF RepeatCall, tmc200ctrl_io_sendSVRepetitive
<1>5. CASE CallbackCall
  BY <1>5 DEF CallbackCall
<1>6. CASE WaitForFeedbackCall
  BY <1>6 DEF WaitForFeedbackCall, WaitCall
<1> HIDE DEF TypeInv, LifeInv
<1> QED
  BY <1>1, <1>2, <1>3, <1>4, <1>5, <1>6 DEF Call

(* the device, and a step in which nothing happens.                        *)
LEMMA OtherLifeInv == LifeInv /\ (DeviceStep \/ UNCHANGED vars) => LifeInv'
  BY DEF DeviceStep, vars, LifeInv, LifeOff, LifeInit, LifeUp, LifeStop, LifeDown, Gone, BothExited,
     NothingToSend, At, ioVars, flagVars, queueVars, listVars, sendVars

(* shutdown frees the queues and closes the port only after both threads   *)
(* are gone, and no thread uses a port that is not open, however often the *)
(* library is initialised, fails to initialise and is shut down            *)
(* (libtmc200ctrl_io.c:167-230, threads_common.c:93-114).                  *)
THEOREM Teardown == Spec => []TeardownQuiescent
<1>1. Init => TypeInv /\ LifeInv
  BY InitTypeInv, InitLifeInv
<1>2. TypeInv /\ LifeInv /\ [Next]_vars => (TypeInv /\ LifeInv)'
  BY NextTypeInv, ThreadsLifeInv, MainLifeInv, CallLifeInv, OtherLifeInv DEF Next
<1>3. TypeInv /\ LifeInv => TeardownQuiescent
  <2> SUFFICES ASSUME TypeInv, LifeInv PROVE TeardownQuiescent
    OBVIOUS
  <2>1. pc[Main] \in CleanLabels \/ (lib = "down" /\ At(Main, "idle"))
          => \A t \in Thread : At(t, "exited")
    BY Processes DEF LifeInv, LifeDown, BothExited
  <2>2. ASSUME pc[S] \in {"write", "fresh", "read", "readMore"} PROVE fdOpen
    <3>1. sendItem # NULL /\ ~Gone(S)
      BY <2>2 DEF TypeInv, ItemInHand, SendLabels, Gone
    <3>2. lib \in {"off", "up", "down"}
      BY DEF TypeInv, TypeOK, IoTypeOK
    <3> QED
      BY <3>1, <3>2 DEF LifeInv, LifeOff, LifeInit, LifeUp, LifeDown, BothExited, NothingToSend,
         Gone, StopLabels, At
  <2> QED
    BY <2>1, <2>2 DEF TeardownQuiescent, CleanLabels
<1> QED
  BY <1>1, <1>2, <1>3, PTL DEF Spec

-----------------------------------------------------------------------------
(* What a step does to the pending items and the counters: nothing, or one *)
(* operation of queues.c.                                                  *)
ListStep ==
  \/ UNCHANGED <<ptQueue, iQueueSize>>
  \/ \E q \in Queue :
       \/ initQueue(q)
       \/ popItemFromQueue(q)
       \/ \E item \in Items : addItemToQueue(q, item)

(* The send thread pops a command and adds an answer.                      *)
LEMMA SendThreadLists == TypeInv /\ SendThreadStep => ListStep
<1> SUFFICES ASSUME TypeInv, sendTMC200CmdsThreadFunc PROVE ListStep
  BY DEF SendThreadStep
<1> USE TwoQueues DEF ListStep, queueVars, listVars
<1>1. CASE SendPop
  BY <1>1 DEF SendPop
<1>2. CASE ReceiveDeliver
  <2>1. recvItem \in Items
    BY <1>2 DEF ReceiveDeliver, TypeInv, TypeOK, SendTypeOK, ItemInHand, ReceiveLabels, At
  <2> QED
    BY <1>2, <2>1 DEF ReceiveDeliver
<1>3. CASE SendTop \/ SendIdleAlive \/ SendRepeatAlive \/ SendSend \/ SendPause \/ SendWait
  BY <1>3 DEF SendTop, SendIdleAlive, SendRepeatAlive, SendSend, SendPause, SendWait
<1>4. CASE SendWrite \/ SendWriteTimeout \/ ReceiveRead \/ ReceiveTimeout \/ ReceiveErr
             \/ WakeCheck \/ Wake
  BY <1>4 DEF SendWrite, SendWriteTimeout, ReceiveRead, ReceiveTimeout, ReceiveErr,
     WakeCheck, Wake
<1>5. CASE SendRecycle \/ SendExitRecycle \/ ReceiveDrop
  BY <1>5 DEF SendRecycle, SendExitRecycle, ReceiveDrop, recycleItemAtQueue
<1>6. CASE ReceiveFresh
  BY <1>6 DEF ReceiveFresh, getFreshItemFromQueue
<1> QED
  BY <1>1, <1>2, <1>3, <1>4, <1>5, <1>6 DEF sendTMC200CmdsThreadFunc

(* The feedback thread pops an answer.                                     *)
LEMMA FeedbackThreadLists == FeedbackThreadStep => ListStep
<1> SUFFICES ASSUME TMC200FeedBackThreadFunc PROVE ListStep
  BY DEF FeedbackThreadStep
<1> USE TwoQueues DEF ListStep, queueVars, listVars
<1>1. CASE FbPop
  BY <1>1 DEF FbPop
<1>2. CASE FbRecycle
  BY <1>2 DEF FbRecycle, recycleItemAtQueue
<1>3. CASE FbHaveFunc \/ FbWaitFlag \/ FbPublish \/ FbBroadcast \/ FbGate
  BY <1>3 DEF FbHaveFunc, FbWaitFlag, FbPublish, FbBroadcast, FbGate
<1>4. CASE FbProcess \/ FbSize \/ FbAlive \/ FbPause \/ FbWait
  BY <1>4 DEF FbProcess, FbSize, FbAlive, FbPause, FbWait
<1> QED
  BY <1>1, <1>2, <1>3, <1>4 DEF TMC200FeedBackThreadFunc

(* A caller of waitForTMC200Feedback does nothing to them.                 *)
LEMMA WaitLists == WaitStep => ListStep
<1> SUFFICES ASSUME tmc200ctrl_io_waitForTMC200Feedback PROVE ListStep
  BY DEF WaitStep
<1> USE DEF ListStep, queueVars, listVars
<1>1. CASE WaitLock \/ WaitInvalid \/ WaitSignalled \/ WaitTimeout \/ WaitSpurious
  BY <1>1 DEF WaitLock, WaitInvalid, WaitSignalled, WaitTimeout, WaitSpurious, WaitReturn
<1>2. CASE WaitPause \/ WaitCopy \/ WaitClear \/ WaitResume
  BY <1>2 DEF WaitPause, WaitCopy, WaitClear, WaitResume
<1> QED
  BY <1>1, <1>2 DEF tmc200ctrl_io_waitForTMC200Feedback

(* init empties the queues, setCmd adds a command.                         *)
LEMMA MainLists == TypeInv /\ MainStep => ListStep
<1> SUFFICES ASSUME TypeInv, MainStep PROVE ListStep
  OBVIOUS
<1> USE TwoQueues DEF ListStep, queueVars, listVars
<1>1. CASE InitSend \/ InitSendFails \/ InitFeedback \/ InitFeedbackFails
  BY <1>1 DEF InitSend, InitSendFails, InitFeedback, InitFeedbackFails
<1>2. CASE CmdFresh
  BY <1>2 DEF CmdFresh, getFreshItemFromQueue
<1>3. CASE CmdAdd
  <2>1. cmdItem \in Items
    BY <1>3 DEF CmdAdd, TypeInv, TypeOK, IoTypeOK, ItemInHand
  <2> QED
    BY <1>3, <2>1 DEF CmdAdd
<1>4. CASE CmdCheck \/ CmdResume \/ Stop \/ StopPaused \/ StopResume \/ Join
  BY <1>4 DEF CmdCheck, CmdResume, Stop, StopPaused, StopResume, Join
<1>5. CASE CleanFeedback \/ CleanSendCmds \/ closeFd
  BY <1>5 DEF CleanFeedback, CleanSendCmds, closeFd, cleanUpQueue
<1>6. CASE WaitStep
  BY <1>6, WaitLists
<1> QED
  BY <1>1, <1>2, <1>3, <1>4, <1>5, <1>6 DEF MainStep

(* Every step is one operation of queues.c at most.                        *)
LEMMA NextLists == TypeInv /\ [Next]_vars => ListStep
<1>1. Call => ListStep
  BY DEF Call, InitCall, SetCmdCall, ShutdownCall, RepeatCall, CallbackCall, WaitForFeedbackCall,
     WaitCall, ListStep, queueVars, listVars
<1>2. DeviceStep \/ UNCHANGED vars => ListStep
  BY DEF DeviceStep, vars, ListStep, queueVars, listVars
<1> QED
  BY <1>1, <1>2, SendThreadLists, FeedbackThreadLists, MainLists DEF Next

(* No operation lets a counter fall below the length of its list.          *)
LEMMA ListStepCounter == ListsTypeOK /\ CounterNotShort /\ ListStep => CounterNotShort'
<1> SUFFICES ASSUME ListsTypeOK, CounterNotShort, ListStep PROVE CounterNotShort'
  OBVIOUS
<1> USE DEF CounterNotShort, queueSize, ListsTypeOK
<1>1. CASE UNCHANGED <<ptQueue, iQueueSize>>
  BY <1>1
<1>2. ASSUME NEW q \in Queue, initQueue(q)
      PROVE  CounterNotShort'
  <2>1. iQueueSize[q] >= 0
    BY LenProperties
  <2>2. Len(ptQueue'[q]) = 0 /\ iQueueSize' = iQueueSize
    BY <1>2, EmptySeq DEF initQueue
  <2> QED
    BY <1>2, <2>1, <2>2, InitPending
<1>3. ASSUME NEW q \in Queue, popItemFromQueue(q)
      PROVE  CounterNotShort'
  <2>1. CASE ptQueue[q] = <<>>
    BY <1>3, <2>1 DEF popItemFromQueue
  <2>2. CASE ptQueue[q] # <<>>
    <3>1. Len(Tail(ptQueue[q])) = Len(ptQueue[q]) - 1 /\ Len(ptQueue[q]) \in Nat
      BY <2>2, HeadTailProperties, LenProperties
    <3>2. ptQueue'[q] = Tail(ptQueue[q]) /\ iQueueSize'[q] = iQueueSize[q] - 1
      BY <1>3, <2>2 DEF popItemFromQueue
    <3>3. \A p \in Queue \ {q} : ptQueue'[p] = ptQueue[p] /\ iQueueSize'[p] = iQueueSize[p]
      BY <1>3, <2>2 DEF popItemFromQueue
    <3>4. Len(ptQueue'[q]) = Len(ptQueue[q]) - 1
      BY <3>1, <3>2
    <3>5. iQueueSize[q] \in Int /\ iQueueSize[q] >= Len(ptQueue[q])
      OBVIOUS
    <3> HIDE DEF CounterNotShort, queueSize, ListsTypeOK
    <3>6. iQueueSize'[q] >= Len(ptQueue'[q])
      BY <3>1, <3>2, <3>4, <3>5
    <3> QED
      BY <3>3, <3>6 DEF CounterNotShort, queueSize
  <2> QED
    BY <2>1, <2>2
<1>4. ASSUME NEW q \in Queue, NEW item \in Items, addItemToQueue(q, item)
      PROVE  CounterNotShort'
  <2>1. Len(Append(ptQueue[q], item)) = Len(ptQueue[q]) + 1 /\ Len(ptQueue[q]) \in Nat
    BY AppendProperties, LenProperties
  <2> QED
    BY <1>4, <2>1 DEF addItemToQueue
<1> QED
  BY <1>1, <1>2, <1>3, <1>4 DEF ListStep

(* Through any number of shutdowns and new inits, with items left over or  *)
(* not, the counter of a queue never falls below the length of its list:   *)
(* a thread that sees 0 has nothing left to do (queues.c:49-155).          *)
THEOREM CounterSuffices == Spec => []CounterNotShort
<1>1. Init => TypeInv /\ CounterNotShort
  <2>1. Init => CounterNotShort
    BY EmptySeq DEF Init, QueuesInit, CounterNotShort, queueSize
  <2> QED
    BY <2>1, InitTypeInv
<1>2. TypeInv /\ CounterNotShort /\ [Next]_vars => (TypeInv /\ CounterNotShort)'
  BY NextTypeInv, NextLists, ListStepCounter DEF TypeInv, TypeOK, QueuesTypeOK
<1> QED
  BY <1>1, <1>2, PTL DEF Spec

-----------------------------------------------------------------------------
(***************************************************************************)
(* No interleaving of the threads loses an item of the queues, lists one   *)
(* twice or gives one to two threads, and shutdown frees them all: for any *)
(* heap, any number of commands, any faults and any use of the API.        *)
(***************************************************************************)
(* Owned in terms of the blocks, the two lists and who holds what.         *)
Ledger(blocks, pending, free, one, other) ==
  /\ blocks = ToSet(pending) \cup ToSet(free) \cup one \cup other
  /\ IsInjective(pending) /\ IsInjective(free)
  /\ ToSet(pending) \cap ToSet(free) = {}
  /\ one \cap other = {}
  /\ (one \cup other) \cap (ToSet(pending) \cup ToSet(free)) = {}

LEMMA OwnedIsLedger ==
  ASSUME ListsTypeOK, NEW q \in Queue, NEW one, NEW other
  PROVE  Owned(q, one, other) <=> Ledger(heap[q], ptQueue[q], ptFreeItems[q], one, other)
<1>1. IsInjective(ptQueue[q] \o ptFreeItems[q])
        <=> /\ IsInjective(ptQueue[q]) /\ IsInjective(ptFreeItems[q])
            /\ ToSet(ptQueue[q]) \cap ToSet(ptFreeItems[q]) = {}
  BY ConcatInjective DEF ListsTypeOK
<1> QED
  BY <1>1 DEF Owned, Ledger, Listed

(* How a block x moves between the lists and whoever holds it; the lists   *)
(* after the move are given by their elements.                             *)
LEMMA LedgerMoves ==
  ASSUME NEW blocks, NEW p, NEW f, NEW other, NEW x, NEW new, IsInjective(new)
  PROVE  /\ Ledger(blocks, p, f, {}, other) /\ x \in ToSet(p) /\ ToSet(new) = ToSet(p) \ {x}
              => Ledger(blocks, new, f, {x}, other)
         /\ Ledger(blocks, p, f, {}, other) /\ x \in ToSet(f) /\ ToSet(new) = ToSet(f) \ {x}
              => Ledger(blocks, p, new, {x}, other)
         /\ Ledger(blocks, p, f, {x}, other) /\ ToSet(new) = ToSet(p) \cup {x}
              => Ledger(blocks, new, f, {}, other)
         /\ Ledger(blocks, p, f, {x}, other) /\ ToSet(new) = ToSet(f) \cup {x}
              => Ledger(blocks, p, new, {}, other)
         /\ Ledger(blocks, p, f, {}, other) /\ x \notin blocks
              => Ledger(blocks \cup {x}, p, f, {x}, other)
  BY DEF Ledger

(* Whose hands are named first does not matter.                            *)
LEMMA LedgerSwap ==
  ASSUME NEW blocks, NEW p, NEW f, NEW one, NEW other
  PROVE  Ledger(blocks, p, f, one, other) <=> Ledger(blocks, p, f, other, one)
  BY DEF Ledger

(* The operations of queues.c on queue q, by someone whose hands are empty *)
(* or hold the item that is listed.                                        *)
After(q, one, other) == Ledger(heap'[q], ptQueue'[q], ptFreeItems'[q], one, other)
Kept(q) == UNCHANGED <<heap[q], ptQueue[q], ptFreeItems[q]>>

LEMMA PopOwned ==
  ASSUME ListsTypeOK, NEW q \in Queue, NEW other, popItemFromQueue(q), Owned(q, {}, other)
  PROVE  /\ After(q, IF Popped(q) = NULL THEN {} ELSE {Popped(q)}, other)
         /\ \A p \in Queue \ {q} : Kept(p)
<1>1. Ledger(heap[q], ptQueue[q], ptFreeItems[q], {}, other)
  BY OwnedIsLedger
<1>2. UNCHANGED <<heap, ptFreeItems>> /\ \A p \in Queue \ {q} : ptQueue'[p] = ptQueue[p]
  BY PopPending DEF popItemFromQueue
<1>3. CASE ptQueue[q] = <<>>
  <2>1. Popped(q) = NULL /\ ptQueue' = ptQueue
    BY <1>3 DEF Popped, popItemFromQueue
  <2> QED
    BY <1>1, <1>2, <2>1 DEF After, Kept
<1>4. CASE ptQueue[q] # <<>>
  <2> DEFINE t == Tail(ptQueue[q])
             x == Head(ptQueue[q])
  <2>1. ptQueue[q] \in Seq(Items) /\ IsInjective(ptQueue[q])
    BY <1>1 DEF Ledger, ListsTypeOK
  <2>2. IsInjective(t) /\ ToSet(t) = ToSet(ptQueue[q]) \ {x} /\ x \in ToSet(ptQueue[q])
    BY <1>4, <2>1, TailInjective, TailElements
  <2>3. ptQueue'[q] = t /\ Popped(q) = x
    BY <1>4 DEF popItemFromQueue, Popped, ListsTypeOK
  <2>4. Popped(q) # NULL
    BY <1>4, PopPending
  <2> HIDE DEF t, x
  <2>5. Ledger(heap[q], t, ptFreeItems[q], {x}, other)
    BY <1>1, <2>2, LedgerMoves
  <2> QED
    BY <1>2, <2>3, <2>4, <2>5 DEF After, Kept
<1> QED
  BY <1>3, <1>4

LEMMA FreshOwned ==
  ASSUME ListsTypeOK, NEW q \in Queue, NEW item \in Items, NEW other,
         getFreshItemFromQueue(q, item), Owned(q, {}, other)
  PROVE  /\ After(q, {item}, other)
         /\ heap'[q] \subseteq heap[q] \cup Blocks(q)
         /\ \A p \in Queue \ {q} : Kept(p)
<1>1. Ledger(heap[q], ptQueue[q], ptFreeItems[q], {}, other)
  BY OwnedIsLedger
<1>2. ptQueue' = ptQueue
  BY DEF getFreshItemFromQueue
<1>3. CASE ptFreeItems[q] = <<>>
  <2>1. item \in Blocks(q) /\ item \notin heap[q] /\ ptFreeItems' = ptFreeItems
        /\ heap' = [heap EXCEPT ![q] = @ \cup {item}]
    BY <1>3 DEF getFreshItemFromQueue, allocateItem, Unallocated
  <2>2. heap'[q] = heap[q] \cup {item} /\ \A p \in Queue \ {q} : heap'[p] = heap[p]
    BY <2>1 DEF ListsTypeOK
  <2>3. IsInjective(ptQueue[q])
    BY <1>1 DEF Ledger
  <2>4. Ledger(heap[q] \cup {item}, ptQueue[q], ptFreeItems[q], {item}, other)
    BY <1>1, <2>1, <2>3, LedgerMoves
  <2> QED
    BY <1>2, <2>1, <2>2, <2>4 DEF After, Kept
<1>4. CASE ptFreeItems[q] # <<>>
  <2> DEFINE t == Tail(ptFreeItems[q])
  <2>1. ptFreeItems[q] \in Seq(Items) /\ IsInjective(ptFreeItems[q])
    BY <1>1 DEF Ledger, ListsTypeOK
  <2>2. item = Head(ptFreeItems[q]) /\ heap' = heap
        /\ ptFreeItems' = [ptFreeItems EXCEPT ![q] = t]
    BY <1>4 DEF getFreshItemFromQueue, reuseItem
  <2>3. IsInjective(t) /\ ToSet(t) = ToSet(ptFreeItems[q]) \ {item}
        /\ item \in ToSet(ptFreeItems[q])
    BY <1>4, <2>1, <2>2, TailInjective, TailElements
  <2> HIDE DEF t
  <2>4. ptFreeItems'[q] = t /\ \A p \in Queue \ {q} : ptFreeItems'[p] = ptFreeItems[p]
    BY <2>2 DEF ListsTypeOK
  <2>5. Ledger(heap[q], ptQueue[q], t, {item}, other)
    BY <1>1, <2>3, LedgerMoves
  <2> QED
    BY <1>2, <2>2, <2>4, <2>5 DEF After, Kept
<1> QED
  BY <1>3, <1>4

LEMMA AddOwned ==
  ASSUME ListsTypeOK, NEW q \in Queue, NEW item \in Items, NEW other,
         addItemToQueue(q, item), Owned(q, {item}, other)
  PROVE  After(q, {}, other) /\ \A p \in Queue \ {q} : Kept(p)
<1> DEFINE t == Append(ptQueue[q], item)
<1>1. Ledger(heap[q], ptQueue[q], ptFreeItems[q], {item}, other)
  BY OwnedIsLedger
<1>2. ptQueue[q] \in Seq(Items) /\ IsInjective(ptQueue[q]) /\ item \notin ToSet(ptQueue[q])
  BY <1>1 DEF Ledger, ListsTypeOK
<1>3. IsInjective(t) /\ ToSet(t) = ToSet(ptQueue[q]) \cup {item}
  BY <1>2, AppendKeepsInjective, AppendElements
<1>4. ptQueue' = [ptQueue EXCEPT ![q] = t] /\ UNCHANGED <<ptFreeItems, heap>>
  BY DEF addItemToQueue
<1> HIDE DEF t
<1>5. ptQueue'[q] = t /\ \A p \in Queue \ {q} : ptQueue'[p] = ptQueue[p]
  BY <1>4 DEF ListsTypeOK
<1>6. Ledger(heap[q], t, ptFreeItems[q], {}, other)
  BY <1>1, <1>3, LedgerMoves
<1> QED
  BY <1>4, <1>5, <1>6 DEF After, Kept

LEMMA RecycleOwned ==
  ASSUME ListsTypeOK, NEW q \in Queue, NEW item \in Items, NEW other,
         recycleItemAtQueue(q, item), Owned(q, {item}, other)
  PROVE  After(q, {}, other) /\ \A p \in Queue \ {q} : Kept(p)
<1> DEFINE t == <<item>> \o ptFreeItems[q]
<1>1. Ledger(heap[q], ptQueue[q], ptFreeItems[q], {item}, other)
  BY OwnedIsLedger
<1>2. ptFreeItems[q] \in Seq(Items) /\ IsInjective(ptFreeItems[q])
      /\ item \notin ToSet(ptFreeItems[q])
  BY <1>1 DEF Ledger, ListsTypeOK
<1>3. IsInjective(t) /\ ToSet(t) = ToSet(ptFreeItems[q]) \cup {item}
  BY <1>2, ConsInjective
<1>4. ptFreeItems' = [ptFreeItems EXCEPT ![q] = t] /\ UNCHANGED <<ptQueue, heap>>
  BY DEF recycleItemAtQueue
<1> HIDE DEF t
<1>5. ptFreeItems'[q] = t /\ \A p \in Queue \ {q} : ptFreeItems'[p] = ptFreeItems[p]
  BY <1>4 DEF ListsTypeOK
<1>6. Ledger(heap[q], ptQueue[q], t, {}, other)
  BY <1>1, <1>3, LedgerMoves
<1> QED
  BY <1>4, <1>5, <1>6 DEF After, Kept

LEMMA KeptOwned ==
  ASSUME ListsTypeOK, NEW q \in Queue, NEW one, NEW other, Kept(q), Owned(q, one, other)
  PROVE  After(q, one, other)
  BY OwnedIsLedger DEF Kept, After

-----------------------------------------------------------------------------
(* The invariant.  While the library is not in service nothing is          *)
(* allocated, and the feedback thread is not there; during shutdown the    *)
(* queues are emptied one after the other, after both threads are gone.    *)
(* Blocks of one queue never get into the other.                           *)
NothingAllocated == \A q \in Queue : heap[q] = {}

OutOfService ==
  /\ lib # "up" => Gone(F) /\ NothingAllocated
  /\ At(Main, "initFeedback") => ptFreeItems[SENDCMDS] = <<>>
  /\ At(Main, "cleanSendCmds")
       => heap[FEEDBACK] = {} /\ Owned(SENDCMDS, SenderHolds, CallerHolds)
  /\ At(Main, "close") => NothingAllocated

HeapBlocks == \A q \in Queue : heap[q] \subseteq Blocks(q)
IdleEmpty == At(S, "idleAlive") => sendItem = NULL

OwnInv == Ownership /\ OutOfService /\ HeapBlocks /\ IdleEmpty

(* Before the first call.                                                  *)
LEMMA InitOwnInv == Init => OwnInv
  BY Processes, TwoQueues
  DEF Init, QueuesInit, ThreadsInit, IoInit, OwnInv, Ownership, InService, OutOfService,
      NothingAllocated, HeapBlocks, IdleEmpty, At, Gone

(* A sender that is there serves, or has nothing to send.                  *)
LEMMA SenderServes ==
  ASSUME TypeInv, LifeInv, ~Gone(S)
  PROVE  InService \/ (lib # "up" /\ NothingToSend)
<1>1. lib \in {"off", "up", "down"}
  BY DEF TypeInv, TypeOK, IoTypeOK
<1> QED
  BY <1>1 DEF LifeInv, LifeOff, LifeInit, LifeUp, LifeDown, BothExited, Gone, StopLabels,
     CleanLabels, At, InService

(* A sender with nothing to send leaves the heap and the free list alone.  *)
LEMMA SenderIdles ==
  ASSUME TypeInv, NothingToSend, SendThreadStep
  PROVE  UNCHANGED <<heap, ptFreeItems>>
<1>1. pc[S] \notin SendLabels /\ sendTMC200CmdsThreadFunc
  BY DEF TypeInv, ItemInHand, NothingToSend, SendThreadStep
<1> USE <1>1 DEF SendLabels, At, queueVars, listVars
<1>2. CASE SendTop \/ SendIdleAlive \/ SendRepeatAlive \/ SendPause \/ SendWait
  BY <1>2 DEF SendTop, SendIdleAlive, SendRepeatAlive, SendPause, SendWait
<1>3. CASE SendPop
  BY <1>3 DEF SendPop, popItemFromQueue
<1>4. CASE SendRecycle \/ SendExitRecycle \/ SendSend \/ SendWrite \/ SendWriteTimeout \/ ReceiveFresh
  BY <1>4 DEF SendRecycle, SendExitRecycle, SendSend, SendWrite, SendWriteTimeout, ReceiveFresh
<1>5. CASE ReceiveRead \/ ReceiveTimeout \/ ReceiveDrop \/ ReceiveErr \/ ReceiveDeliver
             \/ WakeCheck \/ Wake
  BY <1>5 DEF ReceiveRead, ReceiveTimeout, ReceiveDrop, ReceiveErr, ReceiveDeliver, WakeCheck, Wake
<1> QED
  BY <1>1, <1>2, <1>3, <1>4, <1>5 DEF sendTMC200CmdsThreadFunc

(* What both threads' steps have to show.                                  *)
OwnedAfter ==
  /\ After(SENDCMDS, SenderHolds', CallerHolds')
  /\ After(FEEDBACK, ReceiverHolds', DelivererHolds')

LEMMA OwnedPrime ==
  ASSUME ListsTypeOK', OwnedAfter
  PROVE  /\ Owned(SENDCMDS, SenderHolds, CallerHolds)'
         /\ Owned(FEEDBACK, ReceiverHolds, DelivererHolds)'
<1>1. \A q \in Queue : IsInjective(ptQueue'[q] \o ptFreeItems'[q])
        <=> /\ IsInjective(ptQueue'[q]) /\ IsInjective(ptFreeItems'[q])
            /\ ToSet(ptQueue'[q]) \cap ToSet(ptFreeItems'[q]) = {}
  BY ConcatInjective DEF ListsTypeOK
<1> QED
  BY <1>1, TwoQueues DEF OwnedAfter, After, Owned, Ledger, Listed

LEMMA SamePlaces ==
  ASSUME ListsTypeOK, Kept(SENDCMDS), Kept(FEEDBACK),
         Owned(SENDCMDS, SenderHolds, CallerHolds), Owned(FEEDBACK, ReceiverHolds, DelivererHolds),
         UNCHANGED <<SenderHolds, CallerHolds, ReceiverHolds, DelivererHolds>>
  PROVE  OwnedAfter
  BY TwoQueues, KeptOwned DEF OwnedAfter

(* The send thread (sendtmc200cmdsthread.c:86-175).                        *)
LEMMA SendThreadOwned ==
  ASSUME TypeInv, IdleEmpty, SendThreadStep,
         Owned(SENDCMDS, SenderHolds, CallerHolds), Owned(FEEDBACK, ReceiverHolds, DelivererHolds)
  PROVE  OwnedAfter /\ heap'[FEEDBACK] \subseteq heap[FEEDBACK] \cup Blocks(FEEDBACK)
         /\ heap'[SENDCMDS] = heap[SENDCMDS] /\ IdleEmpty'
<1> DEFINE Goal == OwnedAfter /\ heap'[FEEDBACK] \subseteq heap[FEEDBACK] \cup Blocks(FEEDBACK)
                     /\ heap'[SENDCMDS] = heap[SENDCMDS] /\ IdleEmpty'
<1> USE TwoQueues
<1>0. /\ sendTMC200CmdsThreadFunc /\ UNCHANGED <<fbItem, cmdItem>>
      /\ pc'[Main] = pc[Main] /\ pc'[F] = pc[F]
      /\ UNCHANGED <<CallerHolds, DelivererHolds>>
      /\ ListsTypeOK /\ pc \in [Process -> Labels] /\ ItemInHand /\ SendTypeOK
  BY SendThreadFrame DEF SendThreadStep, feedbackVars, ioVars, CallerHolds, DelivererHolds, At,
     TypeInv, TypeOK, QueuesTypeOK, ThreadsTypeOK
<1>a. ASSUME Kept(SENDCMDS), Kept(FEEDBACK), UNCHANGED <<SenderHolds, ReceiverHolds>>, IdleEmpty'
      PROVE  Goal
  BY <1>0, <1>a, SamePlaces DEF Kept
<1> USE <1>0, Processes DEF At, Branch, Goto, queueVars, listVars, sendVars, flagVars, IdleEmpty
<1>1. CASE SendTop
  BY <1>1, <1>a DEF SendTop, Kept, SenderHolds, ReceiverHolds
<1>2. CASE SendRecycle
  <2>1. /\ sendItem \in Items /\ SenderHolds = {sendItem} /\ SenderHolds' = {}
        /\ UNCHANGED ReceiverHolds
    BY <1>2 DEF SendRecycle, SenderHolds, ReceiverHolds, ItemInHand, SendTypeOK, SendLabels
  <2>2. After(SENDCMDS, {}, CallerHolds) /\ Kept(FEEDBACK)
    BY <1>2, <2>1, RecycleOwned DEF SendRecycle
  <2>3. After(FEEDBACK, ReceiverHolds, DelivererHolds)
    BY <2>2, KeptOwned
  <2>4. heap' = heap /\ IdleEmpty'
    BY <1>2 DEF SendRecycle, recycleItemAtQueue
  <2> QED
    BY <2>1, <2>2, <2>3, <2>4 DEF OwnedAfter
<1>3. CASE SendPop
  <2>1. SenderHolds = {} /\ UNCHANGED ReceiverHolds
        /\ SenderHolds' = IF Popped(SENDCMDS) = NULL THEN {} ELSE {Popped(SENDCMDS)}
    BY <1>3 DEF SendPop, SenderHolds, ReceiverHolds
  <2>2. /\ After(SENDCMDS, IF Popped(SENDCMDS) = NULL THEN {} ELSE {Popped(SENDCMDS)}, CallerHolds)
        /\ Kept(FEEDBACK)
    BY <1>3, <2>1, PopOwned DEF SendPop
  <2>3. After(FEEDBACK, ReceiverHolds, DelivererHolds)
    BY <2>2, KeptOwned
  <2>4. heap' = heap /\ IdleEmpty'
    BY <1>3 DEF SendPop, popItemFromQueue
  <2> QED
    BY <2>1, <2>2, <2>3, <2>4 DEF OwnedAfter
<1>4. CASE SendIdleAlive
  BY <1>4, <1>a DEF SendIdleAlive, Kept, SenderHolds, ReceiverHolds
<1>5. CASE SendRepeatAlive
  BY <1>5, <1>a DEF SendRepeatAlive, Kept, SenderHolds, ReceiverHolds
<1>6. CASE SendExitRecycle
  <2>1. /\ sendItem \in Items /\ SenderHolds = {sendItem} /\ SenderHolds' = {}
        /\ UNCHANGED ReceiverHolds
    BY <1>6 DEF SendExitRecycle, SenderHolds, ReceiverHolds, ItemInHand, SendTypeOK, SendLabels
  <2>2. After(SENDCMDS, {}, CallerHolds) /\ Kept(FEEDBACK)
    BY <1>6, <2>1, RecycleOwned DEF SendExitRecycle
  <2>3. After(FEEDBACK, ReceiverHolds, DelivererHolds)
    BY <2>2, KeptOwned
  <2>4. heap' = heap /\ IdleEmpty'
    BY <1>6 DEF SendExitRecycle, recycleItemAtQueue
  <2> QED
    BY <2>1, <2>2, <2>3, <2>4 DEF OwnedAfter
<1>7. CASE SendSend
  BY <1>7, <1>a DEF SendSend, Kept, SenderHolds, ReceiverHolds
<1>8. CASE SendPause
  BY <1>8, <1>a DEF SendPause, Kept, SenderHolds, ReceiverHolds
<1>9. CASE SendWait
  BY <1>9, <1>a DEF SendWait, Kept, SenderHolds, ReceiverHolds
<1>10. CASE SendWrite
  BY <1>10, <1>a DEF SendWrite, Kept, SenderHolds, ReceiverHolds
<1>11. CASE SendWriteTimeout
  BY <1>11, <1>a DEF SendWriteTimeout, Kept, SenderHolds, ReceiverHolds
<1>12. CASE ReceiveFresh
  <2>1. PICK item \in Items : getFreshItemFromQueue(FEEDBACK, item) /\ recvItem' = item
    BY <1>12 DEF ReceiveFresh
  <2>2. ReceiverHolds = {} /\ ReceiverHolds' = {item} /\ UNCHANGED SenderHolds
    BY <1>12, <2>1 DEF ReceiveFresh, SenderHolds, ReceiverHolds
  <2>3. /\ After(FEEDBACK, {item}, DelivererHolds) /\ Kept(SENDCMDS)
        /\ heap'[FEEDBACK] \subseteq heap[FEEDBACK] \cup Blocks(FEEDBACK)
    BY <2>1, <2>2, FreshOwned
  <2>4. After(SENDCMDS, SenderHolds, CallerHolds)
    BY <2>3, KeptOwned
  <2>5. heap'[SENDCMDS] = heap[SENDCMDS] /\ IdleEmpty'
    BY <1>12, <2>3 DEF ReceiveFresh, Kept
  <2> QED
    BY <2>2, <2>3, <2>4, <2>5 DEF OwnedAfter
<1>13. CASE ReceiveRead
  BY <1>13, <1>a DEF ReceiveRead, Kept, SenderHolds, ReceiverHolds
<1>14. CASE ReceiveTimeout
  BY <1>14, <1>a DEF ReceiveTimeout, Kept, SenderHolds, ReceiverHolds
<1>15. CASE ReceiveDrop
  <2>1. /\ recvItem \in Items /\ ReceiverHolds = {recvItem} /\ ReceiverHolds' = {}
        /\ UNCHANGED SenderHolds
    BY <1>15 DEF ReceiveDrop, SenderHolds, ReceiverHolds, ItemInHand, SendTypeOK, ReceiveLabels
  <2>2. After(FEEDBACK, {}, DelivererHolds) /\ Kept(SENDCMDS)
    BY <1>15, <2>1, RecycleOwned DEF ReceiveDrop
  <2>3. After(SENDCMDS, SenderHolds, CallerHolds)
    BY <2>2, KeptOwned
  <2>4. heap' = heap /\ IdleEmpty'
    BY <1>15 DEF ReceiveDrop, recycleItemAtQueue
  <2> QED
    BY <2>1, <2>2, <2>3, <2>4 DEF OwnedAfter
<1>16. CASE ReceiveErr
  BY <1>16, <1>a DEF ReceiveErr, Kept, SenderHolds, ReceiverHolds
<1>17. CASE ReceiveDeliver
  <2>1. /\ recvItem \in Items /\ ReceiverHolds = {recvItem} /\ ReceiverHolds' = {}
        /\ UNCHANGED SenderHolds
    BY <1>17 DEF ReceiveDeliver, SenderHolds, ReceiverHolds, ItemInHand, SendTypeOK, ReceiveLabels
  <2>2. After(FEEDBACK, {}, DelivererHolds) /\ Kept(SENDCMDS)
    BY <1>17, <2>1, AddOwned DEF ReceiveDeliver
  <2>3. After(SENDCMDS, SenderHolds, CallerHolds)
    BY <2>2, KeptOwned
  <2>4. heap' = heap /\ IdleEmpty'
    BY <1>17 DEF ReceiveDeliver, addItemToQueue
  <2> QED
    BY <2>1, <2>2, <2>3, <2>4 DEF OwnedAfter
<1>18. CASE WakeCheck
  BY <1>18, <1>a DEF WakeCheck, Kept, SenderHolds, ReceiverHolds
<1>19. CASE Wake
  BY <1>19, <1>a DEF Wake, Kept, SenderHolds, ReceiverHolds
<1> HIDE DEF Goal
<1> QED
  BY <1>0, <1>1, <1>2, <1>3, <1>4, <1>5, <1>6, <1>7, <1>8, <1>9, <1>10, <1>11, <1>12,
     <1>13, <1>14, <1>15, <1>16, <1>17, <1>18, <1>19 DEF sendTMC200CmdsThreadFunc, Goal

(* The feedback thread (tmc200feedbackthread.c:88-144).                    *)
LEMMA FeedbackThreadOwned ==
  ASSUME TypeInv, FeedbackThreadStep,
         Owned(SENDCMDS, SenderHolds, CallerHolds), Owned(FEEDBACK, ReceiverHolds, DelivererHolds)
  PROVE  OwnedAfter /\ heap' = heap
<1> DEFINE Goal == OwnedAfter /\ heap' = heap
<1> USE TwoQueues
<1>0. /\ TMC200FeedBackThreadFunc /\ pc'[Main] = pc[Main] /\ pc'[S] = pc[S]
      /\ UNCHANGED <<SenderHolds, CallerHolds, ReceiverHolds>>
      /\ ListsTypeOK /\ pc \in [Process -> Labels] /\ ItemInHand /\ fbItem \in Items \cup {NULL}
  BY FeedbackThreadFrame DEF FeedbackThreadStep, sendVars, ioVars, SenderHolds, CallerHolds,
     ReceiverHolds, At, TypeInv, TypeOK, QueuesTypeOK, ThreadsTypeOK, FeedbackTypeOK
<1>a. ASSUME UNCHANGED listVars, UNCHANGED DelivererHolds
      PROVE  Goal
  BY <1>0, <1>a, SamePlaces DEF Kept, listVars
<1>b. Owned(FEEDBACK, DelivererHolds, ReceiverHolds)
  BY <1>0, OwnedIsLedger, LedgerSwap
<1>c. ASSUME After(FEEDBACK, DelivererHolds', ReceiverHolds), Kept(SENDCMDS), heap' = heap
      PROVE  Goal
  <2>1. After(FEEDBACK, ReceiverHolds, DelivererHolds')
    BY <1>c, LedgerSwap DEF After
  <2>2. After(SENDCMDS, SenderHolds, CallerHolds)
    BY <1>0, <1>c, KeptOwned
  <2> QED
    BY <1>0, <1>c, <2>1, <2>2 DEF OwnedAfter
<1> USE <1>0, Processes DEF At, Branch, Goto, queueVars, feedbackVars
<1>1. CASE FbPop
  <2>1. /\ DelivererHolds = {}
        /\ DelivererHolds' = IF Popped(FEEDBACK) = NULL THEN {} ELSE {Popped(FEEDBACK)}
    BY <1>1 DEF FbPop, DelivererHolds
  <2>2. /\ After(FEEDBACK, IF Popped(FEEDBACK) = NULL THEN {} ELSE {Popped(FEEDBACK)}, ReceiverHolds)
        /\ Kept(SENDCMDS)
    BY <1>1, <1>b, <2>1, PopOwned DEF FbPop
  <2>3. heap' = heap
    BY <1>1 DEF FbPop, popItemFromQueue
  <2> QED
    BY <1>c, <2>1, <2>2, <2>3
<1>2. CASE FbHaveFunc \/ FbWaitFlag
  BY <1>2, <1>a DEF FbHaveFunc, FbWaitFlag, DelivererHolds
<1>3. CASE FbPublish \/ FbBroadcast \/ FbGate
  BY <1>3, <1>a DEF FbPublish, FbBroadcast, FbGate, threadVars, DelivererHolds
<1>4. CASE FbProcess
  BY <1>4, <1>a DEF FbProcess, DelivererHolds
<1>5. CASE FbRecycle
  <2>1. fbItem \in Items /\ DelivererHolds = {fbItem} /\ DelivererHolds' = {}
    BY <1>5 DEF FbRecycle, DelivererHolds, ItemInHand, DeliverLabels
  <2>2. After(FEEDBACK, {}, ReceiverHolds) /\ Kept(SENDCMDS)
    BY <1>5, <1>b, <2>1, RecycleOwned DEF FbRecycle
  <2>3. heap' = heap
    BY <1>5 DEF FbRecycle, recycleItemAtQueue
  <2> QED
    BY <1>c, <2>1, <2>2, <2>3
<1>6. CASE FbSize \/ FbAlive \/ FbPause \/ FbWait
  BY <1>6, <1>a DEF FbSize, FbAlive, FbPause, FbWait, DelivererHolds
<1> HIDE DEF Goal
<1> QED
  BY <1>0, <1>1, <1>2, <1>3, <1>4, <1>5, <1>6 DEF TMC200FeedBackThreadFunc, Goal

(* Both threads keep the invariant.                                        *)
LEMMA ThreadsOwnInv ==
  TypeInv /\ LifeInv /\ OwnInv /\ TypeInv' /\ (SendThreadStep \/ FeedbackThreadStep) => OwnInv'
<1> SUFFICES ASSUME TypeInv, LifeInv, OwnInv, TypeInv', SendThreadStep \/ FeedbackThreadStep
             PROVE  OwnInv'
  OBVIOUS
<1>0. ListsTypeOK'
  BY DEF TypeInv, TypeOK, QueuesTypeOK
<1> USE TwoQueues, Processes
<1>1. CASE SendThreadStep /\ InService
  <2>1. /\ ~Gone(S) /\ pc'[Main] = pc[Main] /\ pc'[F] = pc[F] /\ lib' = lib
    BY <1>1, SendThreadFrame
  <2>2. /\ OwnedAfter /\ heap'[FEEDBACK] \subseteq heap[FEEDBACK] \cup Blocks(FEEDBACK)
        /\ heap'[SENDCMDS] = heap[SENDCMDS] /\ IdleEmpty'
    BY <1>1, SendThreadOwned DEF OwnInv, Ownership
  <2>3. Ownership'
    BY <1>0, <2>2, OwnedPrime DEF Ownership
  <2>4. HeapBlocks'
    BY <2>2 DEF OwnInv, HeapBlocks, Queue
  <2>5. OutOfService'
    BY <1>1, <2>1 DEF InService, OutOfService, At, LifeInv, LifeInit
  <2> QED
    BY <2>2, <2>3, <2>4, <2>5 DEF OwnInv
<1>2. CASE SendThreadStep /\ ~InService
  <2>1. ~Gone(S) /\ pc'[Main] = pc[Main] /\ pc'[F] = pc[F] /\ lib' = lib
        /\ (NothingToSend => NothingToSend')
    BY <1>2, SendThreadFrame
  <2>2. lib # "up" /\ NothingToSend /\ NothingToSend'
    BY <1>2, <2>1, SenderServes
  <2>3. UNCHANGED <<heap, ptFreeItems>>
    BY <1>2, <2>2, SenderIdles
  <2>4. pc[Main] \notin {"cleanSendCmds", "close"}
    BY <2>2 DEF LifeInv, LifeDown, CleanLabels
  <2> QED
    BY <2>1, <2>2, <2>3, <2>4 DEF OwnInv, Ownership, InService, OutOfService, NothingAllocated, HeapBlocks,
       IdleEmpty, Gone, At, NothingToSend
<1>3. CASE FeedbackThreadStep
  <2>1. /\ ~Gone(F) /\ pc'[Main] = pc[Main] /\ pc'[S] = pc[S] /\ lib' = lib /\ sendItem' = sendItem
    BY <1>3, FeedbackThreadFrame
  <2>2. InService
    BY <2>1 DEF OwnInv, OutOfService, InService, LifeInv, LifeDown, CleanLabels, BothExited, Gone, At
  <2>3. OwnedAfter /\ heap' = heap
    BY <1>3, <2>2, FeedbackThreadOwned DEF OwnInv, Ownership
  <2>4. Ownership'
    BY <1>0, <2>3, OwnedPrime DEF Ownership
  <2> QED
    BY <2>1, <2>2, <2>3, <2>4 DEF OwnInv, InService, OutOfService, HeapBlocks, IdleEmpty, At,
       LifeInv, LifeInit
<1> QED
  BY <1>1, <1>2, <1>3

(* A step of Main that moves no block.                                     *)
LEMMA MainFrame ==
  ASSUME OwnInv, pc \in [Process -> Labels], UNCHANGED <<listVars, sendItem, recvItem, fbItem, lib>>,
         NEW label, Goto(Main, label), pc[Main] \notin {"cmdAdd", "cleanSendCmds", "close"},
         label \notin {"cmdAdd", "initFeedback", "cleanSendCmds", "close"}
  PROVE  OwnInv'
<1>1. pc'[Main] = label /\ pc'[S] = pc[S] /\ pc'[F] = pc[F]
  BY Processes DEF Goto
<1>2. UNCHANGED <<heap, ptQueue, ptFreeItems>>
  BY DEF listVars
<1>3. UNCHANGED <<SenderHolds, ReceiverHolds, DelivererHolds, CallerHolds>>
  BY <1>1 DEF SenderHolds, ReceiverHolds, DelivererHolds, CallerHolds, At
<1>4. Ownership'
  BY <1>1, <1>2, <1>3 DEF OwnInv, Ownership, InService, Owned, Listed
<1> QED
  BY <1>1, <1>2, <1>4 DEF OwnInv, OutOfService, NothingAllocated, HeapBlocks, IdleEmpty, Gone, At

(* A caller of waitForTMC200Feedback (tmc200feedbackthread.c:35-81),       *)
LEMMA WaitOwnInv == TypeInv /\ OwnInv /\ WaitStep => OwnInv'
<1> SUFFICES ASSUME TypeInv, OwnInv, tmc200ctrl_io_waitForTMC200Feedback,
                    UNCHANGED <<deviceVars, sendVars, ioVars>>
             PROVE  OwnInv'
  BY DEF WaitStep
<1> USE Processes DEF TypeInv, TypeOK, ThreadsTypeOK, At, Branch, sendVars, ioVars, queueVars,
    threadVars
<1>1. CASE WaitLock
  <2>1. Goto(Main, "waitBlocked") /\ pc[Main] = "waitLock"
    BY <1>1 DEF WaitLock
  <2> QED
    BY <1>1, <2>1, MainFrame DEF WaitLock
<1>2. CASE WaitInvalid
  <2>1. Goto(Main, "waitPause") /\ pc[Main] = "waitLock"
    BY <1>2 DEF WaitInvalid
  <2> QED
    BY <1>2, <2>1, MainFrame DEF WaitInvalid
<1>3. CASE WaitSignalled \/ WaitTimeout \/ WaitSpurious
  <2>1. Goto(Main, "waitPause") /\ pc[Main] = "waitBlocked" /\ UNCHANGED <<queueVars, threadVars>>
    BY <1>3 DEF WaitSignalled, WaitTimeout, WaitSpurious, WaitReturn
  <2> QED
    BY <2>1, MainFrame
<1>4. CASE WaitPause
  <2>1. PICK label \in {"waitCopy", "waitClear"} : Goto(Main, label)
    BY <1>4 DEF WaitPause
  <2> QED
    BY <1>4, <2>1, MainFrame DEF WaitPause
<1>5. CASE WaitCopy
  <2>1. Goto(Main, "waitClear") /\ pc[Main] = "waitCopy"
    BY <1>5 DEF WaitCopy
  <2> QED
    BY <1>5, <2>1, MainFrame DEF WaitCopy
<1>6. CASE WaitClear
  <2>1. Goto(Main, "waitResume") /\ pc[Main] = "waitClear"
    BY <1>6 DEF WaitClear
  <2> QED
    BY <1>6, <2>1, MainFrame DEF WaitClear
<1>7. CASE WaitResume
  <2>1. Goto(Main, "idle") /\ pc[Main] = "waitResume"
    BY <1>7 DEF WaitResume
  <2> QED
    BY <1>7, <2>1, MainFrame DEF WaitResume, feedbackVars
<1> QED
  BY <1>1, <1>2, <1>3, <1>4, <1>5, <1>6, <1>7 DEF tmc200ctrl_io_waitForTMC200Feedback

(* Whoever is gone or has nothing to send holds nothing.                   *)
LEMMA EmptyHands ==
  ASSUME TypeInv
  PROVE  /\ Gone(F) => DelivererHolds = {}
         /\ Gone(S) \/ sendItem = NULL => SenderHolds = {} /\ ReceiverHolds = {}
  BY DEF TypeInv, ItemInHand, DelivererHolds, SenderHolds, ReceiverHolds, DeliverLabels, SendLabels, Gone, At

(* init (libtmc200ctrl_io.c:97-127): the queues of a service that begins   *)
(* are empty, and so is the heap.                                          *)
LEMMA InitOwned ==
  TypeInv /\ LifeInv /\ OwnInv /\ (InitSend \/ InitSendFails \/ InitFeedback \/ InitFeedbackFails)
    => OwnInv'
<1> SUFFICES ASSUME TypeInv, LifeInv, OwnInv,
                    InitSend \/ InitSendFails \/ InitFeedback \/ InitFeedbackFails
             PROVE  OwnInv'
  OBVIOUS
<1>0. /\ pc \in [Process -> Labels] /\ ListsTypeOK /\ NothingAllocated /\ Gone(F) /\ lib # "up"
      /\ pc[Main] = "initFeedback" => NothingToSend /\ ptFreeItems[SENDCMDS] = <<>>
      /\ pc[Main] \in {"initSend", "initFeedback"}
  BY DEF TypeInv, TypeOK, QueuesTypeOK, ThreadsTypeOK, OwnInv, OutOfService, LifeInv, LifeInit, At,
     InitSend, InitSendFails, InitFeedback, InitFeedbackFails
<1> USE Processes, TwoQueues DEF At, Goto, OwnInv, Ownership, InService, OutOfService,
    NothingAllocated, HeapBlocks, IdleEmpty, Gone
<1>1. CASE InitSend
  <2>1. /\ ptFreeItems'[SENDCMDS] = <<>> /\ heap' = heap
        /\ pc' = [pc EXCEPT ![Main] = "initFeedback", ![S] = "top"] /\ lib' = lib
    BY <1>0, <1>1 DEF InitSend, initQueue, ioVars, ListsTypeOK
  <2> QED
    BY <1>0, <2>1
<1>2. CASE InitSendFails
  BY <1>0, <1>2 DEF InitSendFails, initQueue, sendVars
<1>3. CASE InitFeedback
  <2>1. /\ ptQueue'[FEEDBACK] = <<>> /\ ptFreeItems'[FEEDBACK] = <<>>
        /\ ptQueue'[SENDCMDS] = <<>> /\ ptFreeItems'[SENDCMDS] = <<>>
        /\ heap' = heap /\ pc' = [pc EXCEPT ![Main] = "idle", ![F] = "pop"]
        /\ UNCHANGED <<sendItem, recvItem>> /\ fbItem' = NULL /\ lib' = "up"
    BY <1>0, <1>3 DEF InitFeedback, initQueue, ListsTypeOK, NothingToSend, sendVars
  <2>2. SenderHolds' = {} /\ ReceiverHolds' = {} /\ DelivererHolds' = {} /\ CallerHolds' = {}
    <3>1. pc[S] \notin SendLabels /\ sendItem = NULL
      BY <1>0, <1>3 DEF InitFeedback, NothingToSend, TypeInv, ItemInHand
    <3> QED
      BY <1>0, <2>1, <3>1 DEF SenderHolds, ReceiverHolds, DelivererHolds, CallerHolds, SendLabels
  <2>3. \A q \in Queue : heap'[q] = {} /\ Listed(q)' = {} /\ IsInjective(ptQueue'[q] \o ptFreeItems'[q])
    <3>1. <<>> \o <<>> = <<>> /\ IsInjective(<<>>)
      BY DEF IsInjective
    <3> QED
      BY <1>0, <2>1, <3>1, EmptyElements DEF Queue, Listed
  <2>4. Ownership'
    BY <2>2, <2>3 DEF Owned
  <2> QED
    BY <1>0, <2>1, <2>4
<1>4. CASE InitFeedbackFails
  BY <1>0, <1>4 DEF InitFeedbackFails, initQueue, sendVars
<1> HIDE DEF OwnInv
<1> QED
  BY <1>1, <1>2, <1>3, <1>4

(* setCmd takes a fresh item and adds it.                                  *)
LEMMA CmdOwned ==
  TypeInv /\ TypeInv' /\ LifeInv /\ OwnInv /\ (CmdFresh \/ CmdAdd) => OwnInv'
<1> SUFFICES ASSUME TypeInv, TypeInv', LifeInv, OwnInv, CmdFresh \/ CmdAdd
             PROVE  OwnInv'
  OBVIOUS
<1>0. /\ pc \in [Process -> Labels] /\ ListsTypeOK /\ ListsTypeOK' /\ ItemInHand
      /\ cmdItem \in Items \cup {NULL} /\ pc[Main] \in {"cmdFresh", "cmdAdd"}
      /\ lib \in {"off", "up", "down"} /\ UNCHANGED <<sendItem, recvItem, fbItem, lib>>
  BY DEF TypeInv, TypeOK, QueuesTypeOK, ThreadsTypeOK, IoTypeOK, CmdFresh, CmdAdd, At, sendVars,
     feedbackVars
<1>1. lib = "up" /\ InService
  BY <1>0 DEF LifeInv, LifeOff, LifeDown, StopLabels, InService
<1>2. /\ Owned(SENDCMDS, SenderHolds, CallerHolds) /\ Owned(SENDCMDS, CallerHolds, SenderHolds)
      /\ Owned(FEEDBACK, ReceiverHolds, DelivererHolds)
  BY <1>0, <1>1, TwoQueues, OwnedIsLedger, LedgerSwap DEF OwnInv, Ownership
<1> USE Processes, TwoQueues DEF At, Goto
<1>3. /\ UNCHANGED <<SenderHolds, ReceiverHolds, DelivererHolds, pc[S], pc[F]>>
      /\ pc'[Main] \in {"cmdAdd", "cmdCheck"}
  BY <1>0 DEF CmdFresh, CmdAdd, SenderHolds, ReceiverHolds, DelivererHolds
<1>4. ASSUME After(SENDCMDS, CallerHolds', SenderHolds), Kept(FEEDBACK),
             heap'[SENDCMDS] \subseteq heap[SENDCMDS] \cup Blocks(SENDCMDS)
      PROVE  OwnInv'
  <2>1. After(SENDCMDS, SenderHolds, CallerHolds')
    BY <1>4, LedgerSwap DEF After
  <2>2. After(FEEDBACK, ReceiverHolds, DelivererHolds)
    BY <1>0, <1>2, <1>4, KeptOwned
  <2>3. Ownership'
    BY <1>0, <1>3, <2>1, <2>2, OwnedPrime DEF OwnedAfter, Ownership
  <2>4. HeapBlocks'
    BY <1>4 DEF OwnInv, HeapBlocks, Queue, Kept
  <2> QED
    BY <1>0, <1>1, <1>3, <2>3, <2>4 DEF OwnInv, OutOfService, IdleEmpty
<1>5. CASE CmdFresh
  <2>1. PICK item \in Items : getFreshItemFromQueue(SENDCMDS, item) /\ cmdItem' = item
    BY <1>5 DEF CmdFresh
  <2>2. CallerHolds = {} /\ CallerHolds' = {item}
    BY <1>0, <1>5, <2>1 DEF CmdFresh, CallerHolds
  <2>3. /\ After(SENDCMDS, {item}, SenderHolds) /\ Kept(FEEDBACK)
        /\ heap'[SENDCMDS] \subseteq heap[SENDCMDS] \cup Blocks(SENDCMDS)
    BY <1>0, <1>2, <2>1, <2>2, FreshOwned
  <2> QED
    BY <1>4, <2>2, <2>3
<1>6. CASE CmdAdd
  <2>1. cmdItem \in Items /\ CallerHolds = {cmdItem} /\ CallerHolds' = {}
    BY <1>0, <1>6 DEF CmdAdd, CallerHolds, ItemInHand
  <2>2. addItemToQueue(SENDCMDS, cmdItem) /\ heap' = heap
    BY <1>6 DEF CmdAdd, addItemToQueue
  <2>3. After(SENDCMDS, {}, SenderHolds) /\ Kept(FEEDBACK)
    BY <1>0, <1>2, <2>1, <2>2, AddOwned
  <2> QED
    BY <1>4, <2>1, <2>2, <2>3
<1> QED
  BY <1>5, <1>6

(* cleanUpQueue, called when both threads are gone, frees everything that  *)
(* the queue ever allocated: nothing is left in anybody's hands.           *)
LEMMA CleanOwned ==
  TypeInv /\ LifeInv /\ OwnInv /\ (CleanFeedback \/ CleanSendCmds \/ closeFd) => OwnInv'
<1> SUFFICES ASSUME TypeInv, LifeInv, OwnInv, CleanFeedback \/ CleanSendCmds \/ closeFd
             PROVE  OwnInv'
  OBVIOUS
<1>0. /\ pc \in [Process -> Labels] /\ ListsTypeOK /\ BothExited /\ lib = "up"
      /\ pc[Main] \in {"cleanFeedback", "cleanSendCmds", "close"}
      /\ UNCHANGED <<ptQueue, ptFreeItems, sendItem, recvItem, fbItem, cmdItem>>
  BY DEF TypeInv, TypeOK, QueuesTypeOK, ThreadsTypeOK, LifeInv, LifeDown, CleanLabels, At,
     CleanFeedback, CleanSendCmds, closeFd, cleanUpQueue, queueVars, listVars, sendVars,
     feedbackVars, ioVars
<1>1. SenderHolds = {} /\ ReceiverHolds = {} /\ DelivererHolds = {} /\ CallerHolds = {}
  BY <1>0, EmptyHands DEF BothExited, Gone, At, CallerHolds
<1> USE Processes, TwoQueues DEF At, Goto
<1>2. CASE CleanFeedback
  <2>1. heap'[FEEDBACK] = heap[FEEDBACK] \ Listed(FEEDBACK) /\ heap'[SENDCMDS] = heap[SENDCMDS]
        /\ pc' = [pc EXCEPT ![Main] = "cleanSendCmds"] /\ lib' = lib
    BY <1>0, <1>2 DEF CleanFeedback, cleanUpQueue, ListsTypeOK, ioVars
  <2>2. heap[FEEDBACK] = Listed(FEEDBACK) /\ Owned(SENDCMDS, SenderHolds, CallerHolds)
    BY <1>0, <1>1, <1>2 DEF CleanFeedback, OwnInv, Ownership, InService, Owned
  <2>3. UNCHANGED <<SenderHolds, CallerHolds>>
    BY <1>0, <2>1 DEF SenderHolds, CallerHolds
  <2>4. Owned(SENDCMDS, SenderHolds, CallerHolds)'
    BY <1>0, <2>1, <2>2, <2>3 DEF Owned, Listed
  <2>5. heap'[FEEDBACK] = {}
    BY <2>1, <2>2
  <2> QED
    BY <1>0, <2>1, <2>4, <2>5
    DEF OwnInv, Ownership, InService, OutOfService, HeapBlocks, IdleEmpty, Queue
<1>3. CASE CleanSendCmds
  <2>1. heap'[SENDCMDS] = heap[SENDCMDS] \ Listed(SENDCMDS) /\ heap'[FEEDBACK] = heap[FEEDBACK]
        /\ pc' = [pc EXCEPT ![Main] = "close"] /\ lib' = lib
    BY <1>0, <1>3 DEF CleanSendCmds, cleanUpQueue, ListsTypeOK, ioVars
  <2>2. heap[SENDCMDS] = Listed(SENDCMDS) /\ heap[FEEDBACK] = {}
    BY <1>0, <1>1, <1>3 DEF CleanSendCmds, OwnInv, OutOfService, Owned
  <2>3. heap'[SENDCMDS] = {} /\ heap'[FEEDBACK] = {}
    BY <2>1, <2>2
  <2> QED
    BY <1>0, <2>1, <2>3
    DEF OwnInv, Ownership, InService, OutOfService, NothingAllocated, HeapBlocks, IdleEmpty, Queue
<1>4. CASE closeFd
  <2>1. heap' = heap /\ pc' = [pc EXCEPT ![Main] = "idle"] /\ lib' = "down"
    BY <1>4 DEF closeFd, queueVars, listVars
  <2> QED
    BY <1>0, <1>4, <2>1
    DEF closeFd, OwnInv, Ownership, InService, OutOfService, NothingAllocated, HeapBlocks, IdleEmpty,
        BothExited, Gone
<1> QED
  BY <1>2, <1>3, <1>4

(* Main, inside a call,                                                    *)
LEMMA MainOwnInv == TypeInv /\ TypeInv' /\ LifeInv /\ OwnInv /\ MainStep => OwnInv'
<1> SUFFICES ASSUME TypeInv, TypeInv', LifeInv, OwnInv, MainStep PROVE OwnInv'
  OBVIOUS
<1> USE Processes DEF TypeInv, TypeOK, ThreadsTypeOK, At, sendVars, ioVars, queueVars, feedbackVars
<1>1. CASE InitSend \/ InitSendFails \/ InitFeedback \/ InitFeedbackFails
  BY <1>1, InitOwned
<1>2. CASE CmdFresh \/ CmdAdd
  BY <1>2, CmdOwned
<1>3. CASE CmdCheck \/ CmdResume
  <2>1. PICK label \in {"cmdResume", "idle"} : Goto(Main, label)
    BY <1>3 DEF CmdCheck, CmdResume, Branch
  <2>2. pc[Main] \in {"cmdCheck", "cmdResume"} /\ UNCHANGED <<queueVars, sendVars, feedbackVars, lib>>
    BY <1>3 DEF CmdCheck, CmdResume
  <2> QED
    BY <2>1, <2>2, MainFrame
<1>4. CASE Stop \/ StopPaused \/ StopResume \/ Join
  <2>1. PICK label \in StopLabels \cup {"cleanFeedback", "idle"} : Goto(Main, label)
    BY <1>4 DEF Stop, StopPaused, StopResume, Join, StopReturn, Branch, StopLabels
  <2>2. pc[Main] \in StopLabels /\ UNCHANGED <<queueVars, sendVars, feedbackVars, lib>>
    BY <1>4 DEF Stop, StopPaused, StopResume, Join, StopLabels
  <2> QED
    BY <2>1, <2>2, MainFrame DEF StopLabels
<1>5. CASE CleanFeedback \/ CleanSendCmds \/ closeFd
  BY <1>5, CleanOwned
<1>6. CASE WaitStep
  BY <1>6, WaitOwnInv
<1> QED
  BY <1>1, <1>2, <1>3, <1>4, <1>5, <1>6 DEF MainStep

(* the calls, the device, and a step in which nothing happens.             *)
LEMMA OtherOwnInv ==
  TypeInv /\ OwnInv /\ (Call \/ DeviceStep \/ UNCHANGED vars) => OwnInv'
<1> SUFFICES ASSUME TypeInv, OwnInv, Call \/ DeviceStep \/ UNCHANGED vars PROVE OwnInv'
  OBVIOUS
<1> USE Processes DEF TypeInv, TypeOK, ThreadsTypeOK, At, sendVars, ioVars, queueVars, feedbackVars
<1>1. CASE InitCall \/ SetCmdCall \/ ShutdownCall \/ WaitForFeedbackCall
  <2>1. PICK label \in {"initSend", "cmdFresh", "stop", "waitLock"} : Goto(Main, label)
    BY <1>1 DEF InitCall, SetCmdCall, ShutdownCall, WaitForFeedbackCall, WaitCall
  <2>2. pc[Main] = "idle" /\ UNCHANGED <<queueVars, sendItem, recvItem, fbItem, lib>>
    BY <1>1 DEF InitCall, SetCmdCall, ShutdownCall, WaitForFeedbackCall, WaitCall, threadVars
  <2> QED
    BY <2>1, <2>2, MainFrame
<1>2. CASE RepeatCall \/ CallbackCall \/ DeviceStep \/ UNCHANGED vars
  <2>1. UNCHANGED <<listVars, sendItem, recvItem, fbItem, cmdItem, lib, pc>>
    BY <1>2 DEF RepeatCall, CallbackCall, DeviceStep, vars, threadVars,
       tmc200ctrl_io_sendSVRepetitive, tmc200ctrl_io_setTMC200FeedbackProcessingFunction
  <2>2. UNCHANGED <<heap, ptQueue, ptFreeItems>>
    BY <2>1 DEF listVars
  <2>3. UNCHANGED <<SenderHolds, ReceiverHolds, DelivererHolds, CallerHolds>>
    BY <2>1 DEF SenderHolds, ReceiverHolds, DelivererHolds, CallerHolds
  <2>4. Ownership' /\ OutOfService'
    BY <2>1, <2>2, <2>3
    DEF OwnInv, Ownership, InService, Owned, Listed, OutOfService, NothingAllocated, Gone
  <2> QED
    BY <2>1, <2>2, <2>4 DEF OwnInv, HeapBlocks, IdleEmpty
<1> QED
  BY <1>1, <1>2 DEF Call

(* The invariants so far, for the proofs that need to know whose item is   *)
(* whose.                                                                  *)
SafeInv == TypeInv /\ LifeInv /\ OwnInv

LEMMA InitSafeInv == Init => SafeInv
  BY InitTypeInv, InitLifeInv, InitOwnInv DEF SafeInv

LEMMA NextSafeInv == SafeInv /\ [Next]_vars => SafeInv'
<1> SUFFICES ASSUME TypeInv, LifeInv, OwnInv, [Next]_vars PROVE SafeInv'
  BY DEF SafeInv
<1>1. TypeInv'
  BY NextTypeInv
<1>2. LifeInv'
  BY ThreadsLifeInv, MainLifeInv, CallLifeInv, OtherLifeInv DEF Next
<1>3. OwnInv'
  BY <1>1, ThreadsOwnInv, MainOwnInv, OtherOwnInv DEF Next
<1> QED
  BY <1>1, <1>2, <1>3 DEF SafeInv

(* Every live block is pending, recycled, or in the hands of exactly one   *)
(* thread, in every interleaving of the three threads, over any number of  *)
(* shutdowns and new inits (queues.c, and every caller of its operations). *)
THEOREM ItemsOwned == Spec => []Ownership
<1>1. SafeInv => Ownership
  BY DEF SafeInv, OwnInv
<1> QED
  BY <1>1, InitSafeInv, NextSafeInv, PTL DEF Spec

(* When shutdown has returned, everything ever allocated has been freed,   *)
(* whatever the threads had in their hands when they were told to stop     *)
(* (libtmc200ctrl_io.c:213-230, queues.c:30-47).                           *)
THEOREM ShutdownFreesAll == Spec => []AllFreedAtDown
<1>1. SafeInv => AllFreedAtDown
  <2> SUFFICES ASSUME SafeInv, lib = "down" PROVE heap = [q \in Queue |-> {}]
    BY DEF AllFreedAtDown
  <2>1. heap \in [Queue -> SUBSET Items] /\ \A q \in Queue : heap[q] = {}
    BY DEF SafeInv, TypeInv, TypeOK, QueuesTypeOK, ListsTypeOK, OwnInv, OutOfService, NothingAllocated
  <2> QED
    BY <2>1
<1> QED
  BY <1>1, InitSafeInv, NextSafeInv, PTL DEF Spec

=============================================================================
