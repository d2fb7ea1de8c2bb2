--------------------------- MODULE ChannelProofs ----------------------------
(***************************************************************************)
(* libtmc200ctrl_io implements the command channel, for any heap, any      *)
(* number of commands, any faults and any use of the API.                  *)
(***************************************************************************)
EXTENDS TmcIoProofs

(* The commands that a list of items is tagged with.                       *)
Tags(items, cmds) == [i \in DOMAIN items |-> cmds[items[i]]]

LEMMA TagsType ==
  ASSUME NEW s \in Seq(Items), NEW c \in [Items -> Commands]
  PROVE  /\ Tags(s, c) \in Seq(Commands)
         /\ Len(Tags(s, c)) = Len(s)
         /\ \A i \in 1 .. Len(s) : Tags(s, c)[i] = c[s[i]]
<1>1. Len(s) \in Nat /\ DOMAIN s = 1 .. Len(s) /\ \A i \in 1 .. Len(s) : s[i] \in Items
  BY LenProperties, ElementOfSeq
<1>2. Tags(s, c) \in [1 .. Len(s) -> Commands]
  BY <1>1 DEF Tags
<1>3. Tags(s, c) \in Seq(Commands)
  BY <1>1, <1>2, SeqDef
<1>4. DOMAIN Tags(s, c) = 1 .. Len(s) /\ DOMAIN Tags(s, c) = 1 .. Len(Tags(s, c))
      /\ Len(Tags(s, c)) \in Nat
  BY <1>2, <1>3, LenProperties
<1>5. Len(Tags(s, c)) = Len(s)
  BY <1>1, <1>4
<1> QED
  BY <1>1, <1>3, <1>5 DEF Tags

LEMMA TagsAppend ==
  ASSUME NEW s \in Seq(Items), NEW x \in Items, NEW c \in [Items -> Commands]
  PROVE  Tags(Append(s, x), c) = Append(Tags(s, c), c[x])
<1> DEFINE l == Append(s, x)
           t == Tags(s, c)
           r == Append(t, c[x])
<1>1. /\ l \in Seq(Items) /\ Len(l) = Len(s) + 1 /\ Len(s) \in Nat
      /\ \A i \in 1 .. Len(s) : l[i] = s[i]
      /\ l[Len(s) + 1] = x
  BY AppendProperties, LenProperties
<1>2. t \in Seq(Commands) /\ Len(t) = Len(s) /\ \A i \in 1 .. Len(s) : t[i] = c[s[i]]
  BY TagsType
<1> HIDE DEF l, t
<1>3. /\ r \in Seq(Commands) /\ Len(r) = Len(s) + 1
      /\ \A i \in 1 .. Len(s) : r[i] = t[i]
      /\ r[Len(s) + 1] = c[x]
  BY <1>2, AppendProperties
<1> HIDE DEF r
<1>4. /\ Tags(l, c) \in Seq(Commands) /\ Len(Tags(l, c)) = Len(s) + 1
      /\ \A i \in 1 .. Len(s) + 1 : Tags(l, c)[i] = c[l[i]]
  BY <1>1, TagsType
<1>5. ASSUME NEW i \in 1 .. Len(s) + 1 PROVE Tags(l, c)[i] = r[i]
  <2>1. CASE i \in 1 .. Len(s)
    BY <1>1, <1>2, <1>3, <1>4, <2>1
  <2>2. CASE i = Len(s) + 1
    BY <1>1, <1>3, <1>4, <2>2
  <2> QED
    BY <1>1, <2>1, <2>2
<1>6. Tags(l, c) = r
  BY <1>1, <1>3, <1>4, <1>5, SeqEqual
<1> QED
  BY <1>6 DEF l, t, r

LEMMA TagsTail ==
  ASSUME NEW s \in Seq(Items), s # <<>>, NEW c \in [Items -> Commands]
  PROVE  <<c[Head(s)]>> \o Tags(Tail(s), c) = Tags(s, c)
<1> DEFINE u == Tail(s)
           h == <<c[Head(s)]>>
           t == Tags(u, c)
           r == h \o t
<1>1. /\ Len(s) \in Nat \ {0} /\ u \in Seq(Items) /\ Len(u) = Len(s) - 1
      /\ \A i \in 1 .. Len(s) - 1 : u[i] = s[i + 1]
      /\ Head(s) = s[1] /\ Head(s) \in Items
  BY EmptySeq, HeadTailProperties
<1> HIDE DEF u
<1>2. t \in Seq(Commands) /\ Len(t) = Len(u) /\ \A i \in 1 .. Len(u) : t[i] = c[u[i]]
  BY <1>1, TagsType
<1>3. h \in Seq(Commands) /\ Len(h) = 1 /\ h[1] = c[s[1]]
  BY <1>1
<1> HIDE DEF h, t
<1>4. /\ r \in Seq(Commands) /\ Len(r) = Len(h) + Len(t)
      /\ \A i \in 1 .. Len(h) + Len(t) : r[i] = IF i <= Len(h) THEN h[i] ELSE t[i - Len(h)]
  <2>1. h \in Seq(Commands) /\ t \in Seq(Commands)
    BY <1>2, <1>3
  <2> QED
    BY <2>1, ConcatProperties
<1> HIDE DEF r
<1>5. /\ Tags(s, c) \in Seq(Commands) /\ Len(Tags(s, c)) = Len(s)
      /\ \A i \in 1 .. Len(s) : Tags(s, c)[i] = c[s[i]]
  BY TagsType
<1>6. Len(r) = Len(s) /\ Len(h) + Len(t) = Len(s)
  BY <1>1, <1>2, <1>3, <1>4
<1>7. ASSUME NEW i \in 1 .. Len(s) PROVE r[i] = Tags(s, c)[i]
  <2>1. CASE i = 1
    BY <1>1, <1>3, <1>4, <1>5, <1>6, <2>1
  <2>2. CASE i # 1
    <3>1. i - 1 \in 1 .. Len(s) - 1 /\ (i - 1) + 1 = i /\ ~(i <= 1)
      BY <1>1, <2>2
    <3>2. r[i] = t[i - 1]
      BY <1>3, <1>4, <1>6, <3>1
    <3>3. t[i - 1] = c[u[i - 1]] /\ u[i - 1] = s[i]
      BY <1>1, <1>2, <3>1
    <3> QED
      BY <1>5, <3>2, <3>3
  <2> QED
    BY <2>1, <2>2
<1>8. r = Tags(s, c)
  BY <1>1, <1>4, <1>5, <1>6, <1>7, SeqEqual
<1> QED
  BY <1>8 DEF h, t, r, u

LEMMA TagsSame ==
  ASSUME NEW s, NEW c, NEW d, \A item \in ToSet(s) : c[item] = d[item]
  PROVE  Tags(s, c) = Tags(s, d)
  BY DEF Tags, ToSet

-----------------------------------------------------------------------------
(* The commands are numbered in the order of acceptance: whatever is not   *)
(* pending has been taken, and the last one taken is the one in the        *)
(* sender's hands, or was.                                                 *)
Taken == Len(issued) - Len(ptQueue[SENDCMDS])
Fits(item, n) == n \in 1 .. Len(issued) /\ ptData[item] = Line(n) /\ eCmd[item] = issued[n]

PendingInOrder ==
  \A i \in 1 .. Len(ptQueue[SENDCMDS]) : Fits(ptQueue[SENDCMDS][i], Taken + i)

TakenInOrder ==
  /\ At(S, "repeatAlive") => bResendCurCmd
  /\ At(S, "send") => /\ Fits(sendItem, Taken)
                      /\ Taken = tried + 1 \/ (Taken = tried /\ bResendCurCmd)
  /\ ~At(S, "send") => Taken = tried
  /\ pc[S] \notin {"pop", "send"} /\ sendItem # NULL => Fits(sendItem, tried)

NumInv ==
  /\ tried \in 0 .. Len(issued)
  /\ At(Main, "initFeedback") => tried = Len(issued)
  /\ ~Gone(S) => PendingInOrder /\ TakenInOrder

LEMMA InitNumInv == Init => NumInv
  BY Processes DEF Init, ThreadsInit, SendInit, IoInit, NumInv, Gone, At

(* Whose blocks are whose, while the library is in service.                *)
LEMMA Apart ==
  ASSUME SafeInv, InService
  PROVE  /\ ToSet(ptQueue[SENDCMDS]) \cup SenderHolds \cup CallerHolds \subseteq CmdBlocks
         /\ ToSet(ptQueue[FEEDBACK]) \cup ReceiverHolds \cup DelivererHolds \subseteq FeedbackBlocks
         /\ CallerHolds \cap (ToSet(ptQueue[SENDCMDS]) \cup SenderHolds) = {}
         /\ ReceiverHolds \cap (ToSet(ptQueue[FEEDBACK]) \cup DelivererHolds) = {}
  BY TwoQueues DEF SafeInv, OwnInv, Ownership, Owned, Listed, HeapBlocks, Blocks

LEMMA Servant ==
  ASSUME SafeInv, ~Gone(S), sendItem # NULL
  PROVE  InService
  BY SenderServes DEF SafeInv, NothingToSend

(* The items in the queue are its elements.                                *)
LEMMA Elements ==
  ASSUME ListsTypeOK, NEW q \in Queue
  PROVE  /\ Len(ptQueue[q]) \in Nat
         /\ \A i \in 1 .. Len(ptQueue[q]) : ptQueue[q][i] \in ToSet(ptQueue[q])
<1>1. ptQueue[q] \in Seq(Items)
  BY DEF ListsTypeOK
<1> QED
  BY <1>1, LenProperties DEF ToSet

(* A step that leaves the commands and what the sender knows alone.        *)
LEMMA NumFrame ==
  ASSUME NumInv, TypeInv, UNCHANGED <<issued, tried, bResendCurCmd, sendItem, pc[S], ptQueue[SENDCMDS]>>,
         At(Main, "initFeedback")' => At(Main, "initFeedback"),
         ~Gone(S) => \A item \in ToSet(ptQueue[SENDCMDS]) \cup SenderHolds :
                       ptData'[item] = ptData[item] /\ eCmd'[item] = eCmd[item]
  PROVE  NumInv'
<1>1. ASSUME ~Gone(S) PROVE PendingInOrder'
  <2>1. ListsTypeOK
    BY DEF TypeInv, TypeOK, QueuesTypeOK
  <2>2. \A i \in 1 .. Len(ptQueue[SENDCMDS]) : ptQueue[SENDCMDS][i] \in ToSet(ptQueue[SENDCMDS])
    BY <2>1, Elements, TwoQueues
  <2>3. \A item \in ToSet(ptQueue[SENDCMDS]) : ptData'[item] = ptData[item] /\ eCmd'[item] = eCmd[item]
    BY <1>1
  <2>4. /\ PendingInOrder /\ UNCHANGED <<issued, Taken>>
        /\ ptQueue'[SENDCMDS] = ptQueue[SENDCMDS]
    BY <1>1 DEF NumInv, Taken
  <2> QED
    BY <2>2, <2>3, <2>4 DEF PendingInOrder, Fits
<1>2. ASSUME ~Gone(S) PROVE TakenInOrder'
  <2>1. pc[S] # "pop" /\ sendItem # NULL => sendItem \in SenderHolds
    BY <1>2 DEF SenderHolds, Gone
  <2>2. At(S, "send") => sendItem # NULL
    BY DEF TypeInv, ItemInHand, SendLabels, At
  <2> QED
    BY <1>2, <2>1, <2>2 DEF NumInv, TakenInOrder, Fits, Taken, At
<1> QED
  BY <1>1, <1>2 DEF NumInv, Gone, At

(* The types of what the proofs below are about.                           *)
LEMMA Typed ==
  ASSUME TypeInv
  PROVE  /\ ListsTypeOK /\ pc \in [Process -> Labels] /\ ItemInHand /\ SendTypeOK
         /\ eCmd \in [Items -> Commands] /\ ptData \in [Items -> Text] /\ issued \in Seq(Commands)
         /\ fbItem \in Items \cup {NULL} /\ cmdItem \in Items \cup {NULL}
         /\ Len(issued) \in Nat /\ Len(ptQueue[SENDCMDS]) \in Nat
  BY TwoQueues, Elements, LenProperties
  DEF TypeInv, TypeOK, QueuesTypeOK, DataTypeOK, ThreadsTypeOK, IoTypeOK, FeedbackTypeOK

(* The sender takes the command after the one it took last.                *)
LEMMA SendPopNumInv ==
  ASSUME TypeInv, NumInv, SendPop, UNCHANGED issued
  PROVE  NumInv'
<1> DEFINE q == ptQueue[SENDCMDS]
           t == ptQueue'[SENDCMDS]
<1>1. /\ Len(q) \in Nat /\ q \in Seq(Items) /\ ListsTypeOK /\ Len(issued) \in Nat
      /\ PendingInOrder /\ Taken = tried /\ tried \in 0 .. Len(issued)
  BY Typed, TwoQueues, Processes DEF ListsTypeOK, NumInv, SendPop, At, TakenInOrder, Gone
<1>2. /\ pc' = [pc EXCEPT ![S] = IF sendItem' # NULL THEN "send"
                                 ELSE IF bResendCurCmd THEN "pause" ELSE "idleAlive"]
      /\ UNCHANGED <<issued, eCmd, ptData, tried, bResendCurCmd>> /\ At(S, "pop")
      /\ sendItem' = Popped(SENDCMDS) /\ popItemFromQueue(SENDCMDS)
  BY DEF SendPop, Branch, Goto, dataVars
<1>3. pc'[S] = IF sendItem' # NULL THEN "send" ELSE IF bResendCurCmd THEN "pause" ELSE "idleAlive"
  BY <1>2, Typed, Processes
<1>4. At(Main, "initFeedback")' => At(Main, "initFeedback")
  BY <1>2, Typed, Processes DEF At
<1>5. CASE q = <<>>
  <2>1. t = q /\ sendItem' = NULL
    BY <1>2, <1>5 DEF popItemFromQueue, Popped
  <2>2. Taken' = Taken /\ PendingInOrder'
    BY <1>1, <1>2, <2>1 DEF PendingInOrder, Fits, Taken
  <2> QED
    BY <1>1, <1>2, <1>3, <1>4, <2>1, <2>2 DEF NumInv, TakenInOrder, At
<1>6. CASE q # <<>>
  <2>1. /\ t \in Seq(Items) /\ Len(t) = Len(q) - 1
        /\ \A i \in 1 .. Len(q) - 1 : t[i] = q[i + 1]
        /\ sendItem' = q[1] /\ q[1] # NULL /\ Len(q) \in Nat \ {0}
    <3>1. /\ Tail(q) \in Seq(Items) /\ Len(Tail(q)) = Len(q) - 1
          /\ \A i \in 1 .. Len(q) - 1 : Tail(q)[i] = q[i + 1]
          /\ Head(q) = q[1] /\ Head(q) \in Items /\ Len(q) \in Nat \ {0}
      BY <1>1, <1>6, EmptySeq, HeadTailProperties
    <3>2. t = Tail(q) /\ sendItem' = Head(q)
      BY <1>1, <1>2, <1>6, TwoQueues DEF popItemFromQueue, Popped, ListsTypeOK
    <3> QED
      BY <3>1, <3>2, NullAssumption
  <2>2. Taken' = Taken + 1 /\ Taken = Len(issued) - Len(q) /\ Taken \in Int
    BY <1>1, <1>2, <2>1 DEF Taken
  <2>3. \A i \in 1 .. Len(q) : Fits(q[i], Taken + i)
    BY <1>1 DEF PendingInOrder
  <2> HIDE DEF q, t
  <2> DEFINE FitsNow(item, n) ==
        n \in 1 .. Len(issued') /\ ptData'[item] = Line(n) /\ eCmd'[item] = issued'[n]
  <2>4. ASSUME NEW i \in 1 .. Len(t) PROVE FitsNow(t[i], Taken' + i)
    <3>a. Len(q) \in Nat \ {0} /\ Len(t) = Len(q) - 1
      BY <2>1
    <3>1. i + 1 \in 1 .. Len(q) /\ i \in 1 .. Len(q) - 1 /\ Taken' + i = Taken + (i + 1)
      BY <2>2, <3>a
    <3>2. t[i] = q[i + 1] /\ Fits(q[i + 1], Taken + (i + 1))
      BY <2>1, <2>3, <3>1
    <3> QED
      BY <1>2, <3>1, <3>2 DEF Fits
  <2>5. PendingInOrder'
    BY <2>4 DEF PendingInOrder, Fits, t
  <2>6. Fits(sendItem, Taken)'
    <3>1. Fits(q[1], Taken + 1)
      BY <2>1, <2>3
    <3> QED
      BY <1>2, <2>1, <2>2, <3>1 DEF Fits
  <2>7. TakenInOrder'
    BY <1>1, <1>3, <1>2, <2>1, <2>2, <2>6 DEF TakenInOrder, At
  <2> QED
    BY <1>1, <1>2, <1>4, <2>5, <2>7 DEF NumInv
<1> QED
  BY <1>5, <1>6

(* It writes an answer, and its tag, to a block of the other queue.        *)
LEMMA SenderWrites ==
  ASSUME SafeInv, ReceiveRead \/ ReceiveDeliver
  PROVE  /\ recvItem \in FeedbackBlocks /\ sendItem # NULL /\ InService
         /\ \A item \in Items \ {recvItem} : ptData'[item] = ptData[item] /\ eCmd'[item] = eCmd[item]
         /\ \A item \in ToSet(ptQueue[SENDCMDS]) \cup SenderHolds :
              ptData'[item] = ptData[item] /\ eCmd'[item] = eCmd[item]
<1>1. pc[S] \in {"read", "readMore", "received"}
  BY DEF ReceiveRead, ReceiveDeliver, At
<1>2. sendItem # NULL /\ InService
  BY <1>1, Typed, Servant DEF SafeInv, ItemInHand, SendLabels, Gone
<1>3. recvItem \in FeedbackBlocks
  BY <1>1, <1>2, Apart DEF ReceiverHolds
<1>4. \A item \in Items \ {recvItem} : ptData'[item] = ptData[item] /\ eCmd'[item] = eCmd[item]
  BY Typed DEF SafeInv, ReceiveRead, ReceiveDeliver
<1>5. \A item \in ToSet(ptQueue[SENDCMDS]) \cup SenderHolds : item \in Items \ {recvItem}
  <2>1. ToSet(ptQueue[SENDCMDS]) \cup SenderHolds \subseteq CmdBlocks
    BY <1>2, Apart
  <2> QED
    BY <1>3, <2>1, BlocksAssumption DEF Items
<1> QED
  BY <1>2, <1>3, <1>4, <1>5

LEMMA ReceiveNumInv ==
  ASSUME SafeInv, NumInv, ReceiveRead \/ ReceiveDeliver, UNCHANGED issued
  PROVE  NumInv'
<1>1. /\ pc[S] \in {"read", "readMore", "received"} /\ pc'[S] \in {"readMore", "received", "wakeCheck"}
      /\ UNCHANGED <<tried, bResendCurCmd, sendItem, pc[Main]>>
  BY Typed, Processes DEF SafeInv, ReceiveRead, ReceiveDeliver, At, Branch, Goto, sendVars
<1>2. ptQueue'[SENDCMDS] = ptQueue[SENDCMDS]
  <2>1. recvItem \in Items
    BY SenderWrites DEF Items
  <2> QED
    BY <2>1, Typed, TwoQueues, AddPending DEF SafeInv, ReceiveRead, ReceiveDeliver, listVars
<1>3. PendingInOrder'
  <2>1. PendingInOrder /\ ListsTypeOK
    BY <1>1, Typed DEF SafeInv, NumInv, Gone
  <2>2. \A i \in 1 .. Len(ptQueue[SENDCMDS]) : ptQueue[SENDCMDS][i] \in ToSet(ptQueue[SENDCMDS])
    BY <2>1, Elements, TwoQueues
  <2>3. \A item \in ToSet(ptQueue[SENDCMDS]) : ptData'[item] = ptData[item] /\ eCmd'[item] = eCmd[item]
    BY SenderWrites
  <2>4. UNCHANGED Taken
    BY <1>1, <1>2 DEF Taken
  <2> QED
    BY <1>2, <2>1, <2>2, <2>3, <2>4 DEF PendingInOrder, Fits
<1>4. TakenInOrder'
  <2>1. Taken' = Taken /\ Taken = tried /\ (sendItem # NULL => Fits(sendItem, tried))
    BY <1>1, <1>2 DEF NumInv, TakenInOrder, Taken, Gone, At
  <2>2. sendItem # NULL => sendItem \in SenderHolds
    BY <1>1 DEF SenderHolds
  <2>3. sendItem # NULL => ptData'[sendItem] = ptData[sendItem] /\ eCmd'[sendItem] = eCmd[sendItem]
    BY <2>2, SenderWrites
  <2> QED
    BY <1>1, <2>1, <2>3 DEF TakenInOrder, Fits, At
<1> QED
  BY <1>1, <1>3, <1>4 DEF NumInv, At

(* The send thread keeps the order: it takes the head of the queue, sends  *)
(* what it has in hand, and writes to no command (sendtmc200cmdsthread.c). *)
LEMMA SendThreadNumInv == SafeInv /\ NumInv /\ SendThreadStep => NumInv'
<1> SUFFICES ASSUME SafeInv, NumInv, SendThreadStep PROVE NumInv'
  OBVIOUS
<1>0. /\ sendTMC200CmdsThreadFunc /\ UNCHANGED <<issued>> /\ ~Gone(S) /\ pc'[Main] = pc[Main]
      /\ ListsTypeOK /\ pc \in [Process -> Labels] /\ ItemInHand /\ SendTypeOK /\ TypeInv
      /\ PendingInOrder /\ TakenInOrder /\ IdleEmpty
      /\ eCmd \in [Items -> Commands] /\ ptData \in [Items -> Text] /\ issued \in Seq(Commands)
  BY SendThreadFrame DEF SafeInv, SendThreadStep, ioVars, TypeInv, TypeOK, QueuesTypeOK, DataTypeOK,
     ThreadsTypeOK, IoTypeOK, NumInv, OwnInv
<1> USE <1>0, Processes, TwoQueues DEF At, Branch, Goto, queueVars, listVars, dataVars, sendVars
<1>a. ASSUME UNCHANGED <<dataVars, ptQueue[SENDCMDS], tried>>, TakenInOrder'
      PROVE  NumInv'
  BY <1>a DEF NumInv, PendingInOrder, Fits, Taken
<1>1. CASE SendTop \/ SendRepeatAlive
  BY <1>1, <1>a DEF SendTop, SendRepeatAlive, TakenInOrder, Fits, Taken
<1>2. CASE SendIdleAlive \/ SendPause \/ SendWait
  BY <1>2, <1>a DEF SendIdleAlive, SendPause, SendWait, TakenInOrder, Fits, Taken, IdleEmpty
<1>3. CASE SendRecycle \/ SendExitRecycle
  <2>1. ptQueue' = ptQueue
    BY <1>3, SamePending DEF SendRecycle, SendExitRecycle
  <2> QED
    BY <1>3, <2>1, <1>a DEF SendRecycle, SendExitRecycle, TakenInOrder, Fits, Taken
<1>4. CASE SendSend
  <2>1. Fits(sendItem, Taken) /\ (Taken = tried + 1 \/ Taken = tried)
    BY <1>4 DEF SendSend, TakenInOrder
  <2>2. Number(sendItem) = Taken
    BY <2>1 DEF Fits, Number, Line
  <2>3. /\ tried' = Taken /\ Taken' = Taken /\ pc'[S] = "write"
        /\ UNCHANGED <<sendItem, eCmd, ptData, ptQueue, issued>>
    BY <1>4, <2>2 DEF SendSend, Taken
  <2>4. Fits(sendItem, Taken)' /\ PendingInOrder'
    BY <2>1, <2>3 DEF Fits, PendingInOrder
  <2>5. TakenInOrder'
    BY <2>3, <2>4 DEF TakenInOrder
  <2>6. ~At(Main, "initFeedback")
    BY <1>4 DEF SafeInv, LifeInv, LifeInit, NothingToSend, ItemInHand, SendLabels, SendSend
  <2>7. tried' \in 0 .. Len(issued')
    BY <2>1, <2>3 DEF Fits
  <2> QED
    BY <2>4, <2>5, <2>6, <2>7 DEF NumInv
<1>5. CASE SendWrite \/ SendWriteTimeout
  BY <1>5, <1>a DEF SendWrite, SendWriteTimeout, TakenInOrder, Fits, Taken
<1>6. CASE ReceiveTimeout \/ ReceiveErr \/ WakeCheck \/ Wake
  BY <1>6, <1>a DEF ReceiveTimeout, ReceiveErr, WakeCheck, Wake, TakenInOrder, Fits, Taken
<1>7. CASE ReceiveFresh \/ ReceiveDrop
  <2>1. ptQueue' = ptQueue
    BY <1>7, SamePending DEF ReceiveFresh, ReceiveDrop
  <2> QED
    BY <1>7, <2>1, <1>a DEF ReceiveFresh, ReceiveDrop, TakenInOrder, Fits, Taken
<1>8. CASE SendPop
  BY <1>8, SendPopNumInv
<1>9. CASE ReceiveRead \/ ReceiveDeliver
  BY <1>9, ReceiveNumInv
<1> QED
  BY <1>1, <1>2, <1>3, <1>4, <1>5, <1>6, <1>7, <1>8, <1>9 DEF sendTMC200CmdsThreadFunc

(* The feedback thread touches no command.                                 *)
LEMMA FeedbackThreadNumInv == SafeInv /\ NumInv /\ FeedbackThreadStep => NumInv'
<1> SUFFICES ASSUME SafeInv, NumInv, FeedbackThreadStep PROVE NumInv'
  OBVIOUS
<1>1. /\ TypeInv /\ pc'[Main] = pc[Main] /\ pc'[S] = pc[S] /\ sendItem' = sendItem
      /\ ptQueue'[SENDCMDS] = ptQueue[SENDCMDS]
  BY FeedbackThreadFrame DEF SafeInv
<1>2. UNCHANGED <<issued, tried, bResendCurCmd>> /\ TMC200FeedBackThreadFunc
  BY DEF FeedbackThreadStep, sendVars, ioVars
<1>3. UNCHANGED dataVars
  BY <1>2 DEF TMC200FeedBackThreadFunc, FbPop, FbHaveFunc, FbWaitFlag, FbPublish, FbBroadcast, FbGate,
     FbProcess, FbRecycle, FbSize, FbAlive, FbPause, FbWait, queueVars
<1> QED
  BY <1>1, <1>2, <1>3, NumFrame DEF At, dataVars

(* setCmd fills in an item that nobody else holds, with the next number.   *)
LEMMA CallerWrites ==
  ASSUME SafeInv, CmdAdd
  PROVE  /\ InService /\ cmdItem \in CmdBlocks
         /\ \A item \in Items \ {cmdItem} : ptData'[item] = ptData[item] /\ eCmd'[item] = eCmd[item]
         /\ \A item \in ToSet(ptQueue[SENDCMDS]) \cup SenderHolds :
              ptData'[item] = ptData[item] /\ eCmd'[item] = eCmd[item]
<1>1. pc[Main] = "cmdAdd" /\ lib \in {"off", "up", "down"}
  BY DEF CmdAdd, At, SafeInv, TypeInv, TypeOK, IoTypeOK
<1>2. InService
  BY <1>1 DEF SafeInv, LifeInv, LifeOff, LifeDown, StopLabels, InService
<1>3. CallerHolds = {cmdItem}
  BY <1>1 DEF CallerHolds, At
<1>4. \A item \in Items \ {cmdItem} : ptData'[item] = ptData[item] /\ eCmd'[item] = eCmd[item]
  BY Typed DEF SafeInv, CmdAdd
<1>5. \A item \in ToSet(ptQueue[SENDCMDS]) \cup SenderHolds : item \in Items \ {cmdItem}
  BY <1>2, <1>3, Apart DEF Items
<1> QED
  BY <1>2, <1>3, <1>4, <1>5, Apart

LEMMA CmdAddNumInv == SafeInv /\ NumInv /\ CmdAdd => NumInv'
<1> SUFFICES ASSUME SafeInv, NumInv, CmdAdd PROVE NumInv'
  OBVIOUS
<1> DEFINE q == ptQueue[SENDCMDS]
           r == ptQueue'[SENDCMDS]
           m == Len(issued)
           FitsNow(item, n) == n \in 1 .. Len(issued') /\ ptData'[item] = Line(n) /\ eCmd'[item] = issued'[n]
<1>0. /\ ListsTypeOK /\ issued \in Seq(Commands) /\ m \in Nat /\ Len(q) \in Nat /\ q \in Seq(Items)
      /\ cmdItem \in Items /\ eCmd \in [Items -> Commands] /\ ptData \in [Items -> Text]
      /\ ItemInHand
  BY Typed, CallerWrites, TwoQueues DEF SafeInv, ListsTypeOK, Items
<1>1. PICK cmd \in Commands : eCmd' = [eCmd EXCEPT ![cmdItem] = cmd] /\ issued' = Append(issued, cmd)
  BY DEF CmdAdd
<1>2. /\ issued' \in Seq(Commands) /\ Len(issued') = m + 1 /\ issued'[m + 1] = cmd
      /\ \A n \in 1 .. m : issued'[n] = issued[n]
  BY <1>0, <1>1, AppendProperties
<1>3. Len(r) = Len(q) + 1 /\ r[Len(q) + 1] = cmdItem /\ \A i \in 1 .. Len(q) : r[i] = q[i]
  <2>1. r = Append(q, cmdItem)
    BY <1>0, TwoQueues DEF CmdAdd, addItemToQueue, ListsTypeOK
  <2> HIDE DEF r
  <2> QED
    BY <1>0, <2>1, AppendProperties
<1>4. /\ UNCHANGED <<tried, bResendCurCmd, sendItem>> /\ pc[Main] = "cmdAdd"
      /\ pc'[Main] = "cmdCheck" /\ pc'[S] = pc[S]
  BY Typed, Processes DEF SafeInv, CmdAdd, sendVars, Goto, At
<1>5. ptData'[cmdItem] = Line(m + 1) /\ eCmd'[cmdItem] = cmd
  BY <1>0, <1>1 DEF CmdAdd
<1>6. Taken' = Taken /\ Taken = m - Len(q)
  BY <1>0, <1>2, <1>3 DEF Taken
<1>7. ASSUME NEW item \in ToSet(q) \cup SenderHolds, NEW n, Fits(item, n) PROVE FitsNow(item, n)
  BY <1>0, <1>2, <1>7, CallerWrites DEF Fits
<1>8. ASSUME ~Gone(S) PROVE PendingInOrder' /\ TakenInOrder'
  <2> HIDE DEF m
  <2>1. PendingInOrder /\ TakenInOrder
    BY <1>8 DEF NumInv
  <2>2. ASSUME NEW i \in 1 .. Len(r) PROVE FitsNow(r[i], Taken' + i)
    <3>1. CASE i \in 1 .. Len(q)
      <4>1. Fits(q[i], Taken + i) /\ q[i] \in ToSet(q)
        BY <1>0, <2>1, <3>1, Elements, TwoQueues DEF PendingInOrder
      <4>2. FitsNow(q[i], Taken + i)
        BY <1>7, <4>1
      <4> QED
        BY <1>3, <1>6, <3>1, <4>2
    <3>2. CASE i = Len(q) + 1
      <4>1. Taken' + i = m + 1 /\ m + 1 \in 1 .. Len(issued') /\ r[i] = cmdItem
        BY <1>0, <1>2, <1>3, <1>6, <3>2
      <4> QED
        BY <1>2, <1>5, <4>1
    <3> QED
      BY <1>0, <1>3, <3>1, <3>2
  <2>3. PendingInOrder'
    BY <2>2 DEF PendingInOrder, Fits
  <2>4. pc[S] # "pop" /\ sendItem # NULL => sendItem \in SenderHolds
    BY <1>8 DEF SenderHolds, Gone
  <2>5. pc[S] = "send" => sendItem # NULL
    BY <1>0 DEF ItemInHand, SendLabels
  <2>6. TakenInOrder'
    <3>1. At(S, "send") => FitsNow(sendItem, Taken)
      BY <1>7, <2>1, <2>4, <2>5 DEF TakenInOrder, At
    <3>2. pc[S] \notin {"pop", "send"} /\ sendItem # NULL => FitsNow(sendItem, tried)
      BY <1>7, <2>1, <2>4 DEF TakenInOrder
    <3> QED
      BY <1>4, <1>6, <2>1, <3>1, <3>2 DEF TakenInOrder, Fits, At
  <2> QED
    BY <2>3, <2>6
<1>9. tried' \in 0 .. Len(issued')
  BY <1>0, <1>2, <1>4 DEF NumInv
<1> QED
  BY <1>4, <1>8, <1>9 DEF NumInv, Gone, At

(* init gives up what an earlier service left unsent.                      *)
LEMMA InitSendNumInv == SafeInv /\ InitSend => NumInv'
<1> SUFFICES ASSUME SafeInv, InitSend PROVE NumInv'
  OBVIOUS
<1>1. ptQueue'[SENDCMDS] = <<>> /\ Len(issued) \in Nat
  BY Typed, TwoQueues, InitPending DEF SafeInv, InitSend
<1>2. /\ sendItem' = NULL /\ tried' = Len(issued) /\ issued' = issued
      /\ pc' = [pc EXCEPT ![Main] = "initFeedback", ![S] = "top"]
  BY DEF InitSend, ioVars
<1>3. pc'[S] = "top"
  BY <1>2, Typed, Processes DEF SafeInv
<1>4. Len(ptQueue'[SENDCMDS]) = 0
  BY <1>1, EmptySeq
<1> QED
  BY <1>1, <1>2, <1>3, <1>4 DEF NumInv, PendingInOrder, TakenInOrder, Taken, At

(* Nothing else Main does inside a call is about the commands, nor is      *)
(* anything that it calls, the device or a step in which nothing happens.  *)
LEMMA OtherNumInv ==
  SafeInv /\ NumInv /\ (MainStep \/ Call \/ DeviceStep \/ UNCHANGED vars) => NumInv'
<1> SUFFICES ASSUME SafeInv, NumInv, MainStep \/ Call \/ DeviceStep \/ UNCHANGED vars
             PROVE  NumInv'
  OBVIOUS
<1>0. TypeInv /\ ListsTypeOK /\ pc \in [Process -> Labels]
  BY Typed DEF SafeInv
<1>a. ASSUME UNCHANGED <<issued, tried, bResendCurCmd, sendItem, dataVars>>, NEW label, Goto(Main, label),
             ptQueue'[SENDCMDS] = ptQueue[SENDCMDS], label # "initFeedback"
      PROVE  NumInv'
  BY <1>0, <1>a, NumFrame, Processes DEF Goto, At, dataVars
<1>1. CASE InitSend
  BY <1>1, InitSendNumInv
<1>2. CASE InitSendFails
  <2>1. Gone(S) /\ pc'[S] = pc[S] /\ pc'[Main] = "idle" /\ UNCHANGED <<tried, issued>>
    BY <1>0, <1>2, Processes DEF InitSendFails, Goto, At, sendVars, SafeInv, LifeInv, LifeInit
  <2> QED
    BY <2>1 DEF NumInv, Gone, At
<1>3. CASE InitFeedback \/ InitFeedbackFails
  <2>1. /\ UNCHANGED <<issued, tried, bResendCurCmd, sendItem, dataVars>>
        /\ pc'[S] = pc[S] /\ pc'[Main] # "initFeedback"
    BY <1>0, <1>3, Processes DEF InitFeedback, InitFeedbackFails, Goto, sendVars
  <2>2. ptQueue'[SENDCMDS] = ptQueue[SENDCMDS]
    BY <1>0, <1>3, TwoQueues, InitPending DEF InitFeedback, InitFeedbackFails
  <2> QED
    BY <1>0, <2>1, <2>2, NumFrame DEF At, dataVars
<1>4. CASE CmdAdd
  BY <1>4, CmdAddNumInv
<1>5. CASE CmdFresh
  BY <1>5, <1>a, SamePending DEF CmdFresh, sendVars
<1>6. CASE CmdCheck \/ CmdResume
  BY <1>6, <1>a DEF CmdCheck, CmdResume, Branch, sendVars, ioVars, queueVars, listVars
<1>7. CASE Stop \/ StopPaused \/ StopResume \/ Join
  BY <1>7, <1>a DEF Stop, StopPaused, StopResume, Join, StopReturn, Branch, sendVars, ioVars, queueVars, listVars
<1>8. CASE CleanFeedback \/ CleanSendCmds \/ closeFd
  BY <1>8, <1>a, SamePending DEF CleanFeedback, CleanSendCmds, closeFd, sendVars, ioVars, queueVars, listVars
<1>9. CASE WaitStep
  <2>1. PICK label \in {"waitBlocked", "waitPause", "waitCopy", "waitClear", "waitResume", "idle"} :
          Goto(Main, label) /\ UNCHANGED queueVars
    BY <1>9 DEF WaitStep, tmc200ctrl_io_waitForTMC200Feedback, WaitLock, WaitInvalid, WaitSignalled,
       WaitTimeout, WaitSpurious, WaitReturn, WaitPause, WaitCopy, WaitClear, WaitResume, Branch
  <2> QED
    BY <1>9, <2>1, <1>a DEF WaitStep, sendVars, ioVars, queueVars, listVars
<1>10. CASE InitCall \/ SetCmdCall \/ ShutdownCall \/ WaitForFeedbackCall
  BY <1>10, <1>a DEF InitCall, SetCmdCall, ShutdownCall, WaitForFeedbackCall, WaitCall, sendVars, ioVars,
     queueVars, listVars
<1>11. CASE RepeatCall \/ CallbackCall \/ DeviceStep \/ UNCHANGED vars
  <2>1. UNCHANGED <<issued, tried, bResendCurCmd, sendItem, pc, ptQueue, dataVars>>
    BY <1>11 DEF RepeatCall, CallbackCall, DeviceStep, vars, tmc200ctrl_io_sendSVRepetitive, sendVars, ioVars,
       queueVars, listVars
  <2> QED
    BY <1>0, <2>1, NumFrame DEF At, dataVars
<1> QED
  BY <1>1, <1>2, <1>3, <1>4, <1>5, <1>6, <1>7, <1>8, <1>9, <1>10, <1>11 DEF MainStep, Call

LEMMA NextNumInv == SafeInv /\ NumInv /\ [Next]_vars => NumInv'
  BY SendThreadNumInv, FeedbackThreadNumInv, OtherNumInv DEF Next

-----------------------------------------------------------------------------
(* What is undelivered: the answer in the feedback thread's hands, before  *)
(* the callback has had it, and those that are queued.                     *)
HandLabels == {"haveFunc", "waitFlag", "publish", "broadcast", "gate", "process"}
Hand == IF pc[F] \in HandLabels THEN <<eCmd[fbItem]>> ELSE <<>>

LEMMA HandAndQueue ==
  /\ Undelivered = Hand \o Tags(ptQueue[FEEDBACK], eCmd)
  /\ Undelivered' = Hand' \o Tags(ptQueue'[FEEDBACK], eCmd')
  BY DEF Undelivered, Hand, HandLabels, Tags

LEMMA HandType ==
  ASSUME TypeInv
  PROVE  /\ Hand \in Seq(Commands) /\ Tags(ptQueue[FEEDBACK], eCmd) \in Seq(Commands)
         /\ ptQueue[FEEDBACK] \in Seq(Items)
         /\ pc[F] \in HandLabels => fbItem \in DelivererHolds /\ fbItem \in Items
<1>1. ptQueue[FEEDBACK] \in Seq(Items) /\ eCmd \in [Items -> Commands]
  BY Typed, TwoQueues DEF ListsTypeOK
<1>2. pc[F] \in HandLabels => fbItem \in DelivererHolds /\ fbItem \in Items
  BY Typed DEF HandLabels, DelivererHolds, ItemInHand, DeliverLabels
<1>3. CASE pc[F] \in HandLabels
  <2> DEFINE e == eCmd[fbItem]
  <2>1. e \in Commands
    BY <1>1, <1>2, <1>3
  <2> HIDE DEF e
  <2>2. <<e>> \in Seq(Commands)
    BY <2>1, OneElement
  <2> QED
    BY <1>1, <1>2, <1>3, <2>2, TagsType DEF Hand, e
<1>4. CASE pc[F] \notin HandLabels
  BY <1>1, <1>2, <1>4, TagsType, EmptySeq DEF Hand
<1> QED
  BY <1>3, <1>4

(* A step that leaves the undelivered answers and their tags alone.        *)
LEMMA UndeliveredFrame ==
  ASSUME UNCHANGED <<fbItem, ptQueue[FEEDBACK]>>,
         pc'[F] \in HandLabels <=> pc[F] \in HandLabels,
         pc[F] \in HandLabels => eCmd'[fbItem] = eCmd[fbItem],
         \A item \in ToSet(ptQueue[FEEDBACK]) : eCmd'[item] = eCmd[item]
  PROVE  Undelivered' = Undelivered
<1>1. Tags(ptQueue[FEEDBACK], eCmd') = Tags(ptQueue[FEEDBACK], eCmd)
  BY TagsSame
<1>2. Hand' = Hand
  BY DEF Hand
<1> QED
  BY <1>1, <1>2, HandAndQueue

(* A step of the library that the channel does not see.                    *)
LEMMA Unseen ==
  ASSUME UNCHANGED <<issued, tried, Sending, bResendSV, bResendCurCmd, Undelivered>>
  PROVE  UNCHANGED Channel!channelVars
  BY DEF Channel!channelVars, Channel!lineVars

(* The initial states are initial states of the channel.                   *)
LEMMA InitChannel == Init => Channel!ChannelInit
<1> SUFFICES ASSUME Init PROVE Channel!ChannelInit
  OBVIOUS
<1>1. /\ issued = <<>> /\ tried = 0 /\ bResendSV = FALSE /\ bResendCurCmd = FALSE
      /\ pc[S] = "unborn" /\ pc[F] = "unborn" /\ ptQueue[FEEDBACK] = <<>>
  BY Processes, TwoQueues DEF Init, ThreadsInit, SendInit, IoInit, QueuesInit
<1>2. Undelivered = <<>>
  <2>1. DOMAIN ptQueue[FEEDBACK] = {} /\ <<>> \o <<>> = <<>>
    BY <1>1
  <2>2. Tags(ptQueue[FEEDBACK], eCmd) = <<>>
    BY <2>1 DEF Tags
  <2> QED
    BY <1>1, <2>1, <2>2, HandAndQueue DEF Hand, HandLabels
<1>3. Sending = FALSE
  BY <1>1 DEF Sending
<1> QED
  BY <1>1, <1>2, <1>3 DEF Channel!ChannelInit

(* The send thread transmits the next command, or repeats the last one,    *)
(* where it goes from "send" to "write", and is done with it where it      *)
(* gives up, drops the answer or appends it to FEEDBACK.                   *)
LEMMA SendIsTransmit ==
  ASSUME SafeInv, NumInv, SendSend, UNCHANGED <<feedbackVars, ioVars>>
  PROVE  Channel!Transmit \/ Channel!Repeat
<1>1. /\ pc[S] = "send" /\ pc'[S] = "write" /\ pc'[F] = pc[F]
      /\ UNCHANGED <<issued, bResendSV, fbItem, ptQueue, eCmd>>
      /\ tried' = Number(sendItem) /\ bResendCurCmd' = ResendIt(sendItem)
      /\ tried \in 0 .. Len(issued) /\ Len(issued) \in Nat
  BY Typed, Processes DEF SafeInv, NumInv, SendSend, At, Goto, feedbackVars, ioVars, queueVars, listVars, dataVars
<1>2. Fits(sendItem, Taken) /\ (Taken = tried + 1 \/ (Taken = tried /\ bResendCurCmd))
  BY <1>1 DEF NumInv, TakenInOrder, Gone, At
<1>3. tried' = Taken
  BY <1>1, <1>2 DEF Fits, Number, Line
<1>4. bResendCurCmd' = (issued[tried'] \in {SV} /\ bResendSV)
  <2>1. eCmd[sendItem] = issued[tried']
    BY <1>2, <1>3 DEF Fits
  <2>2. bResendCurCmd' = (eCmd[sendItem] = SV /\ bResendSV)
    BY <1>1 DEF ResendIt
  <2> QED
    BY <2>1, <2>2
<1>5. ~Sending /\ Sending' = TRUE
  BY <1>1 DEF Sending
<1>6. Undelivered' = Undelivered
  BY <1>1, UndeliveredFrame
<1>7. tried' \in 1 .. Len(issued)
  BY <1>2, <1>3 DEF Fits
<1>8. CASE Taken = tried + 1
  BY <1>1, <1>3, <1>4, <1>5, <1>6, <1>7, <1>8 DEF Channel!Transmit
<1>9. CASE Taken = tried /\ bResendCurCmd
  BY <1>1, <1>3, <1>4, <1>5, <1>6, <1>7, <1>9 DEF Channel!Repeat
<1> QED
  BY <1>2, <1>8, <1>9

LEMMA DeliverIsComplete ==
  ASSUME SafeInv, NumInv, ReceiveDeliver, UNCHANGED <<feedbackVars, ioVars>>
  PROVE  Channel!Complete
<1> DEFINE q == ptQueue[FEEDBACK]
           d == eCmd'
           n == issued[tried]
<1>1. /\ pc[S] = "received" /\ pc'[S] = "wakeCheck" /\ pc'[F] = pc[F]
      /\ UNCHANGED <<issued, bResendSV, bResendCurCmd, tried, fbItem>>
      /\ ptQueue'[FEEDBACK] = Append(q, recvItem)
      /\ eCmd \in [Items -> Commands] /\ sendItem \in Items /\ recvItem \in Items
      /\ d = [eCmd EXCEPT ![recvItem] = eCmd[sendItem]]
  BY Typed, Processes, TwoQueues, SenderWrites
  DEF SafeInv, ReceiveDeliver, At, Goto, feedbackVars, ioVars, sendVars, addItemToQueue, ListsTypeOK,
      SendTypeOK, Items
<1>2. d \in [Items -> Commands] /\ d[recvItem] = n /\ n \in Commands
  <2>1. eCmd[sendItem] = n
    BY <1>1, SenderWrites DEF NumInv, TakenInOrder, Fits, Gone
  <2> QED
    BY <1>1, <2>1
<1>3. /\ \A item \in ToSet(q) \cup DelivererHolds : item # recvItem
      /\ pc[F] \in HandLabels => fbItem \in DelivererHolds
  BY <1>1, SenderWrites, Apart, HandType DEF ReceiverHolds, SafeInv
<1>4. \A item \in ToSet(q) \cup DelivererHolds : d[item] = eCmd[item]
  BY <1>3, SenderWrites, Apart DEF Items
<1>5. Hand' = Hand
  BY <1>1, <1>3, <1>4 DEF Hand
<1>6. Hand \in Seq(Commands) /\ q \in Seq(Items) /\ Tags(q, eCmd) \in Seq(Commands)
  BY HandType DEF SafeInv
<1>7. Tags(Append(q, recvItem), d) = Append(Tags(q, eCmd), n)
  <2> HIDE DEF d, n, q
  <2>1. Tags(Append(q, recvItem), d) = Append(Tags(q, d), n)
    BY <1>1, <1>2, <1>6, TagsAppend
  <2>2. Tags(q, d) = Tags(q, eCmd)
    BY <1>4, TagsSame
  <2> QED
    BY <2>1, <2>2
<1>8. Undelivered' = Append(Undelivered, n)
  <2>1. Undelivered' = Hand \o Append(Tags(q, eCmd), n)
    BY <1>1, <1>5, <1>7, HandAndQueue
  <2> HIDE DEF n
  <2>2. Hand \o Append(Tags(q, eCmd), n) = Append(Hand \o Tags(q, eCmd), n)
    BY <1>2, <1>6, ConcatAppend
  <2> QED
    BY <2>1, <2>2, HandAndQueue
<1>9. Sending /\ Sending' = FALSE
  BY <1>1 DEF Sending
<1> QED
  BY <1>1, <1>8, <1>9 DEF Channel!Complete

LEMMA SendThreadChannel ==
  SafeInv /\ NumInv /\ SendThreadStep => [Channel!ChannelNext]_(Channel!channelVars)
<1> SUFFICES ASSUME SafeInv, NumInv, SendThreadStep, UNCHANGED <<feedbackVars, ioVars>>
             PROVE  [Channel!ChannelNext]_(Channel!channelVars)
  BY DEF SendThreadStep
<1>0. /\ sendTMC200CmdsThreadFunc /\ pc'[F] = pc[F] /\ UNCHANGED <<issued, fbItem>>
      /\ ListsTypeOK /\ pc \in [Process -> Labels]
  BY SendThreadFrame, Typed DEF SafeInv, SendThreadStep, feedbackVars, ioVars
<1>a. ASSUME UNCHANGED <<tried, Sending, bResendSV, bResendCurCmd, eCmd, ptQueue[FEEDBACK]>>
      PROVE  UNCHANGED Channel!channelVars
  BY <1>0, <1>a, UndeliveredFrame, Unseen
<1>b. ASSUME Sending, ~Sending',
             UNCHANGED <<tried, bResendSV, bResendCurCmd, eCmd, ptQueue[FEEDBACK]>>
      PROVE  Channel!ChannelNext
  <2>1. Undelivered' = Undelivered
    BY <1>0, <1>b, UndeliveredFrame
  <2>2. Sending' = FALSE
    BY <1>b DEF Sending
  <2>3. Channel!Complete
    BY <1>0, <1>b, <2>1, <2>2 DEF Channel!Complete
  <2> QED
    BY <2>3 DEF Channel!ChannelNext
<1> USE <1>0, Processes, TwoQueues DEF At, Branch, Goto, queueVars, listVars, dataVars, sendVars
<1>1. CASE SendTop \/ SendIdleAlive \/ SendRepeatAlive \/ SendPause \/ SendWait
  BY <1>1, <1>a DEF SendTop, SendIdleAlive, SendRepeatAlive, SendPause, SendWait, Sending
<1>2. CASE SendRecycle \/ SendExitRecycle
  BY <1>2, <1>a, SamePending DEF SendRecycle, SendExitRecycle, Sending
<1>3. CASE SendPop
  <2>1. ptQueue'[FEEDBACK] = ptQueue[FEEDBACK]
    BY <1>3, PopPending DEF SendPop
  <2> QED
    BY <1>3, <2>1, <1>a DEF SendPop, Sending
<1>4. CASE SendSend
  BY <1>4, SendIsTransmit DEF Channel!ChannelNext
<1>5. CASE SendWrite
  BY <1>5, <1>a DEF SendWrite, Sending
<1>6. CASE SendWriteTimeout
  BY <1>6, <1>b DEF SendWriteTimeout, Sending
<1>7. CASE ReceiveFresh
  BY <1>7, <1>a, SamePending DEF ReceiveFresh, Sending
<1>8. CASE ReceiveRead \/ ReceiveTimeout \/ ReceiveErr
  BY <1>8, <1>a DEF ReceiveRead, ReceiveTimeout, ReceiveErr, Sending
<1>9. CASE ReceiveDrop
  <2>1. ptQueue' = ptQueue
    BY <1>9, SamePending DEF ReceiveDrop
  <2> QED
    BY <1>9, <2>1, <1>b DEF ReceiveDrop, Sending
<1>10. CASE ReceiveDeliver
  BY <1>10, DeliverIsComplete DEF Channel!ChannelNext
<1>11. CASE WakeCheck \/ Wake
  BY <1>11, <1>a DEF WakeCheck, Wake, Sending
<1> QED
  BY <1>1, <1>2, <1>3, <1>4, <1>5, <1>6, <1>7, <1>8, <1>9, <1>10, <1>11 DEF sendTMC200CmdsThreadFunc

(* Taking an answer off the queue moves it from the queue into the hand.   *)
LEMMA PopIsUnseen ==
  ASSUME SafeInv, FbPop
  PROVE  Undelivered' = Undelivered
<1> DEFINE q == ptQueue[FEEDBACK]
           T == Tags(q, eCmd)
<1>1. /\ pc[F] = "pop" /\ eCmd' = eCmd /\ ListsTypeOK /\ eCmd \in [Items -> Commands]
      /\ fbItem' = Popped(FEEDBACK) /\ popItemFromQueue(FEEDBACK)
      /\ pc'[F] = IF fbItem' # NULL THEN "haveFunc" ELSE "size"
  BY Typed, Processes DEF SafeInv, FbPop, At, Branch, Goto, dataVars
<1>2. q \in Seq(Items) /\ T \in Seq(Commands)
  BY HandType DEF SafeInv
<1>3. Undelivered = T
  <2>1. Hand = <<>>
    BY <1>1 DEF Hand, HandLabels
  <2> HIDE DEF T
  <2>2. <<>> \o T = T
    BY <1>2, ConcatEmptySeq
  <2> QED
    BY <2>1, <2>2, HandAndQueue DEF T
<1>4. CASE q = <<>>
  <2>1. ptQueue' = ptQueue /\ fbItem' = NULL
    BY <1>1, <1>4 DEF popItemFromQueue, Popped
  <2>2. Hand' = Hand
    BY <1>1, <2>1 DEF Hand, HandLabels
  <2> QED
    BY <1>1, <2>1, <2>2, HandAndQueue
<1>5. CASE q # <<>>
  <2>1. Head(q) \in Items
    BY <1>2, <1>5, HeadTailProperties
  <2>2. ptQueue'[FEEDBACK] = Tail(q) /\ fbItem' = Head(q) /\ fbItem' # NULL
    BY <1>1, <1>5, <2>1, TwoQueues, NullAssumption DEF popItemFromQueue, Popped, ListsTypeOK
  <2>3. Hand' = <<eCmd[Head(q)]>>
    BY <1>1, <2>2 DEF Hand, HandLabels
  <2>4. <<eCmd[Head(q)]>> \o Tags(Tail(q), eCmd) = T
    BY <1>1, <1>2, <1>5, TagsTail
  <2> QED
    BY <1>1, <1>3, <2>2, <2>3, <2>4, HandAndQueue
<1> QED
  BY <1>4, <1>5

(* When the callback has had the answer, or there is none to have it, it   *)
(* is no longer in the hand.                                               *)
LEMMA HandedOn ==
  ASSUME SafeInv, pc[F] \in HandLabels, pc'[F] \notin HandLabels, UNCHANGED <<eCmd, ptQueue[FEEDBACK]>>,
         UNCHANGED <<issued, tried, Sending, bResendSV, bResendCurCmd>>
  PROVE  Channel!Deliver
<1> DEFINE T == Tags(ptQueue[FEEDBACK], eCmd)
           e == eCmd[fbItem]
<1>1. T \in Seq(Commands) /\ e \in Commands
  BY HandType, Typed DEF SafeInv
<1>2. Hand = <<e>> /\ Hand' = <<>>
  BY DEF Hand
<1>3. Undelivered = <<e>> \o T /\ Undelivered' = <<>> \o T
  BY <1>2, HandAndQueue
<1> HIDE DEF T, e
<1>4. <<>> \o T = T /\ <<e>> \o T # <<>> /\ Tail(<<e>> \o T) = T
  BY <1>1, ConcatEmptySeq, ConsTail
<1>5. Undelivered # <<>> /\ Undelivered' = Tail(Undelivered)
  BY <1>3, <1>4
<1> QED
  BY <1>5 DEF Channel!Deliver, Channel!lineVars

(* The feedback thread hands the answers on one by one.                    *)
LEMMA FeedbackThreadChannel ==
  SafeInv /\ FeedbackThreadStep => [Channel!ChannelNext]_(Channel!channelVars)
<1> SUFFICES ASSUME SafeInv, FeedbackThreadStep
             PROVE  [Channel!ChannelNext]_(Channel!channelVars)
  OBVIOUS
<1>0. /\ TMC200FeedBackThreadFunc /\ pc \in [Process -> Labels]
      /\ UNCHANGED <<issued, tried, Sending, bResendSV, bResendCurCmd>>
  BY FeedbackThreadFrame, Typed DEF SafeInv, FeedbackThreadStep, sendVars, ioVars, Sending
<1>a. ASSUME UNCHANGED <<eCmd, ptQueue[FEEDBACK]>>, pc[F] \in HandLabels, pc'[F] \notin HandLabels
      PROVE  Channel!ChannelNext
  BY <1>0, <1>a, HandedOn DEF Channel!ChannelNext
<1>b. ASSUME UNCHANGED <<fbItem, eCmd, ptQueue[FEEDBACK]>>, pc[F] \in HandLabels <=> pc'[F] \in HandLabels
      PROVE  UNCHANGED Channel!channelVars
  BY <1>0, <1>b, UndeliveredFrame, Unseen
<1> USE <1>0, Processes DEF At, Branch, Goto, queueVars, listVars, dataVars, feedbackVars, threadVars, HandLabels
<1>1. CASE FbPop
  BY <1>1, PopIsUnseen, Unseen
<1>2. CASE FbHaveFunc
  <2>1. pc[F] = "haveFunc" /\ pc'[F] \in {"waitFlag", "recycle"} /\ UNCHANGED <<fbItem, eCmd, ptQueue>>
    BY <1>2 DEF FbHaveFunc
  <2> QED
    BY <2>1, <1>a, <1>b
<1>3. CASE FbWaitFlag \/ FbPublish \/ FbBroadcast \/ FbGate
  BY <1>3, <1>b DEF FbWaitFlag, FbPublish, FbBroadcast, FbGate
<1>4. CASE FbProcess
  BY <1>4, <1>a DEF FbProcess
<1>5. CASE FbRecycle
  <2>1. ptQueue' = ptQueue
    BY <1>5, SamePending DEF FbRecycle
  <2> QED
    BY <1>5, <2>1, <1>b DEF FbRecycle
<1>6. CASE FbSize \/ FbAlive \/ FbPause \/ FbWait
  BY <1>6, <1>b DEF FbSize, FbAlive, FbPause, FbWait
<1> QED
  BY <1>1, <1>2, <1>3, <1>4, <1>5, <1>6 DEF TMC200FeedBackThreadFunc

(* setCmd accepts its command where it adds the item to SENDCMDS.          *)
LEMMA AddIsAccept == SafeInv /\ CmdAdd => \E cmd \in Commands : Channel!Accept(cmd)
<1> SUFFICES ASSUME SafeInv, CmdAdd PROVE \E cmd \in Commands : Channel!Accept(cmd)
  OBVIOUS
<1>1. /\ pc'[S] = pc[S] /\ pc'[F] = pc[F] /\ UNCHANGED <<fbItem, tried, bResendSV, bResendCurCmd>>
      /\ ptQueue'[FEEDBACK] = ptQueue[FEEDBACK]
  <2>1. cmdItem \in Items
    BY CallerWrites DEF Items
  <2> QED
    BY <2>1, Typed, Processes, TwoQueues, AddPending DEF SafeInv, CmdAdd, Goto, sendVars, feedbackVars
<1>2. ToSet(ptQueue[FEEDBACK]) \cup DelivererHolds \subseteq Items \ {cmdItem}
  BY CallerWrites, Apart, BlocksAssumption DEF Items
<1>3. Undelivered' = Undelivered
  BY <1>1, <1>2, CallerWrites, HandType, UndeliveredFrame DEF SafeInv
<1>4. Sending' = Sending
  BY <1>1 DEF Sending
<1>5. PICK cmd \in Commands : issued' = Append(issued, cmd)
  BY DEF CmdAdd
<1>6. Channel!Accept(cmd)
  BY <1>1, <1>3, <1>4, <1>5 DEF Channel!Accept, Channel!lineVars
<1> QED
  BY <1>6

(* init gives up what was accepted and not sent, and what was answered and *)
(* not delivered, each where it starts the thread concerned.               *)
LEMMA InitIsRestart ==
  SafeInv /\ NumInv /\ (InitSend \/ InitFeedback \/ InitFeedbackFails) => Channel!Restart
<1> SUFFICES ASSUME SafeInv, NumInv, InitSend \/ InitFeedback \/ InitFeedbackFails
             PROVE  Channel!Restart
  OBVIOUS
<1>0. ListsTypeOK /\ pc \in [Process -> Labels] /\ Gone(F) /\ ItemInHand
  BY Typed DEF SafeInv, OwnInv, OutOfService, LifeInv, LifeInit, InitSend, InitFeedback, InitFeedbackFails
<1>1. CASE InitSend
  <2>1. Gone(S)
    BY <1>1 DEF SafeInv, LifeInv, LifeInit, InitSend
  <2>2. /\ pc'[S] = "top" /\ pc'[F] = pc[F] /\ UNCHANGED <<issued, bResendSV, bResendCurCmd, fbItem, eCmd>>
        /\ ptQueue'[FEEDBACK] = ptQueue[FEEDBACK] /\ tried' = Len(issued)
    BY <1>0, <1>1, Processes, TwoQueues, InitPending DEF InitSend, dataVars, feedbackVars, ioVars
  <2>3. Undelivered' = Undelivered
    BY <2>2, UndeliveredFrame
  <2>4. ~Sending /\ Sending' = Sending
    BY <2>1, <2>2 DEF Gone, Sending
  <2> QED
    BY <2>2, <2>3, <2>4 DEF Channel!Restart
<1>2. CASE InitFeedback \/ InitFeedbackFails
  <2>1. At(Main, "initFeedback") /\ tried = Len(issued) /\ sendItem = NULL
    BY <1>2 DEF NumInv, SafeInv, LifeInv, LifeInit, NothingToSend, InitFeedback, InitFeedbackFails
  <2>2. /\ pc'[S] = pc[S] /\ pc'[F] \in {"pop", pc[F]}
        /\ UNCHANGED <<issued, tried, bResendSV, bResendCurCmd, eCmd>>
        /\ ptQueue'[FEEDBACK] = <<>>
    BY <1>0, <1>2, Processes, TwoQueues, InitPending
    DEF InitFeedback, InitFeedbackFails, dataVars, sendVars, Goto
  <2>3. Undelivered' = <<>>
    <3>1. Hand' = <<>>
      BY <1>0, <2>2 DEF Hand, HandLabels, Gone
    <3>2. Tags(ptQueue'[FEEDBACK], eCmd') = <<>> /\ <<>> \o <<>> = <<>>
      BY <2>2 DEF Tags
    <3> QED
      BY <3>1, <3>2, HandAndQueue
  <2>4. ~Sending /\ Sending' = Sending
    BY <1>0, <2>1, <2>2 DEF ItemInHand, SendLabels, Sending
  <2> QED
    BY <2>1, <2>2, <2>3, <2>4 DEF Channel!Restart
<1> QED
  BY <1>1, <1>2

(* sendSVRepetitive is Want.  The channel sees nothing else of what Main   *)
(* does, nor of the device.                                                *)
LEMMA OtherChannel ==
  SafeInv /\ NumInv /\ (MainStep \/ Call \/ DeviceStep \/ UNCHANGED vars)
    => [Channel!ChannelNext]_(Channel!channelVars)
<1> SUFFICES ASSUME SafeInv, NumInv, MainStep \/ Call \/ DeviceStep \/ UNCHANGED vars
             PROVE  [Channel!ChannelNext]_(Channel!channelVars)
  OBVIOUS
<1>0. pc \in [Process -> Labels] /\ bResendSV \in BOOLEAN
  BY Typed DEF SafeInv, SendTypeOK
<1>a. ASSUME UNCHANGED <<issued, tried, bResendSV, bResendCurCmd, fbItem, eCmd, ptQueue>>,
             pc'[S] = pc[S], pc'[F] = pc[F]
      PROVE  UNCHANGED Channel!channelVars
  BY <1>a, UndeliveredFrame, Unseen DEF Sending
<1>b. ASSUME UNCHANGED <<issued, tried, bResendSV, bResendCurCmd, fbItem, eCmd, ptQueue>>,
             NEW label, Goto(Main, label)
      PROVE  UNCHANGED Channel!channelVars
  BY <1>0, <1>a, <1>b, Processes DEF Goto
<1> USE DEF sendVars, ioVars, queueVars, listVars, dataVars, feedbackVars, Branch
<1>1. CASE InitSend \/ InitFeedback \/ InitFeedbackFails
  BY <1>1, InitIsRestart DEF Channel!ChannelNext
<1>2. CASE InitSendFails
  <2>1. /\ pc'[S] = pc[S] /\ pc'[F] = pc[F] /\ UNCHANGED <<issued, tried, bResendSV, bResendCurCmd, fbItem, eCmd>>
        /\ ptQueue'[FEEDBACK] = ptQueue[FEEDBACK]
    BY <1>0, <1>2, Typed, Processes, TwoQueues, InitPending DEF SafeInv, InitSendFails, Goto
  <2> QED
    BY <2>1, UndeliveredFrame, Unseen DEF Sending
<1>3. CASE CmdAdd
  BY <1>3, AddIsAccept DEF Channel!ChannelNext
<1>4. CASE CmdFresh
  BY <1>4, <1>b, SamePending DEF CmdFresh
<1>5. CASE CmdCheck \/ CmdResume
  BY <1>5, <1>b DEF CmdCheck, CmdResume
<1>6. CASE Stop \/ StopPaused \/ StopResume \/ Join
  BY <1>6, <1>b DEF Stop, StopPaused, StopResume, Join, StopReturn
<1>7. CASE CleanFeedback \/ CleanSendCmds \/ closeFd
  BY <1>7, <1>b, SamePending DEF CleanFeedback, CleanSendCmds, closeFd
<1>8. CASE WaitStep
  <2>1. PICK label \in {"waitBlocked", "waitPause", "waitCopy", "waitClear", "waitResume", "idle"} :
          Goto(Main, label) /\ UNCHANGED <<queueVars, fbItem>>
    BY <1>8 DEF WaitStep, tmc200ctrl_io_waitForTMC200Feedback, WaitLock, WaitInvalid, WaitSignalled,
       WaitTimeout, WaitSpurious, WaitReturn, WaitPause, WaitCopy, WaitClear, WaitResume, threadVars
  <2> QED
    BY <1>8, <2>1, <1>b DEF WaitStep
<1>9. CASE InitCall \/ SetCmdCall \/ ShutdownCall \/ WaitForFeedbackCall
  BY <1>9, <1>b DEF InitCall, SetCmdCall, ShutdownCall, WaitForFeedbackCall, WaitCall, threadVars
<1>10. CASE RepeatCall
  <2>1. /\ UNCHANGED <<issued, tried, bResendCurCmd, fbItem, eCmd, ptQueue, pc>>
        /\ bResendSV' = ~bResendSV
    BY <1>10 DEF RepeatCall, tmc200ctrl_io_sendSVRepetitive
  <2>2. Undelivered' = Undelivered /\ Sending' = Sending
    BY <2>1, UndeliveredFrame DEF Sending
  <2>3. Channel!Want(~bResendSV)
    BY <2>1, <2>2 DEF Channel!Want, Channel!lineVars
  <2> QED
    BY <1>0, <2>3 DEF Channel!ChannelNext
<1>11. CASE CallbackCall \/ DeviceStep \/ UNCHANGED vars
  BY <1>11, <1>a DEF CallbackCall, DeviceStep, vars, threadVars,
     tmc200ctrl_io_setTMC200FeedbackProcessingFunction
<1> QED
  BY <1>1, <1>2, <1>3, <1>4, <1>5, <1>6, <1>7, <1>8, <1>9, <1>10, <1>11 DEF MainStep, Call

(* The library implements the command channel: in every interleaving, over *)
(* any number of shutdowns and new inits, with any faults of the device    *)
(* and the system, commands go out one at a time in the order of their     *)
(* acceptance, only an SV is repeated, and every answer reaches the        *)
(* feedback thread in turn, under the tag of its command                   *)
(* (sendtmc200cmdsthread.c, tmc200feedbackthread.c, queues.c).             *)
THEOREM ChannelImplemented == Spec => ImplementsChannel
<1>1. Init => SafeInv /\ NumInv /\ Channel!ChannelInit
  BY InitSafeInv, InitNumInv, InitChannel
<1>2. SafeInv /\ NumInv /\ [Next]_vars
        => SafeInv' /\ NumInv' /\ [Channel!ChannelNext]_(Channel!channelVars)
  BY NextSafeInv, NextNumInv, SendThreadChannel, FeedbackThreadChannel, OtherChannel DEF Next
<1> QED
  BY <1>1, <1>2, PTL DEF Spec, ImplementsChannel, Channel!ChannelSpec

=============================================================================
