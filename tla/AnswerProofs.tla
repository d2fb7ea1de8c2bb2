---------------------------- MODULE AnswerProofs ----------------------------
(***************************************************************************)
(* Where the answers go: the callback gets them in the order of the        *)
(* commands, whatever the device does; when none comes late, each is       *)
(* tagged with the command it answers; and a caller whose wait for one was *)
(* signalled finds a string, with no older answer than the callback has    *)
(* had.                                                                    *)
(***************************************************************************)
EXTENDS ChannelProofs

(* What the texts of Environment answer.                                   *)
Of(f) == {f.of} \ {0}

LEMMA AnsweredType ==
  ASSUME NEW s \in Text
  PROVE  /\ Len(s) \in Nat /\ DOMAIN s = 1 .. Len(s)
         /\ \A i \in 1 .. Len(s) : s[i] \in Fragment
         /\ Answered(s) \subseteq Nat
         /\ \A i \in 1 .. Len(s) : s[i].of # 0 => s[i].of \in Answered(s)
<1>1. Len(s) \in Nat /\ DOMAIN s = 1 .. Len(s) /\ \A i \in 1 .. Len(s) : s[i] \in Fragment
  BY LenProperties, ElementOfSeq DEF Text
<1> QED
  BY <1>1 DEF Answered, Fragment

LEMMA AnsweredNothing == Answered(<<>>) = {} /\ <<>> \in Text
  BY EmptySeq DEF Answered, Text

LEMMA AnsweredConcat ==
  ASSUME NEW s \in Text, NEW t \in Text
  PROVE  Answered(s \o t) = Answered(s) \cup Answered(t)
<1> DEFINE c == s \o t
<1>1. /\ c \in Text /\ Len(c) = Len(s) + Len(t)
      /\ \A i \in 1 .. Len(s) + Len(t) : c[i] = IF i <= Len(s) THEN s[i] ELSE t[i - Len(s)]
  BY ConcatProperties DEF Text
<1>2. /\ Len(s) \in Nat /\ Len(t) \in Nat
      /\ DOMAIN c = 1 .. Len(s) + Len(t) /\ DOMAIN s = 1 .. Len(s) /\ DOMAIN t = 1 .. Len(t)
  BY <1>1, AnsweredType
<1> HIDE DEF c
<1>3. ASSUME NEW n \in Answered(c) PROVE n \in Answered(s) \cup Answered(t)
  <2>1. PICK i \in 1 .. Len(s) + Len(t) : n = c[i].of /\ n # 0
    BY <1>2, <1>3 DEF Answered
  <2>2. CASE i <= Len(s)
    BY <1>1, <1>2, <2>1, <2>2 DEF Answered
  <2>3. CASE ~(i <= Len(s))
    <3>1. i - Len(s) \in 1 .. Len(t) /\ c[i] = t[i - Len(s)]
      BY <1>1, <1>2, <2>1, <2>3
    <3> QED
      BY <1>2, <2>1, <3>1 DEF Answered
  <2> QED
    BY <2>2, <2>3
<1>4. ASSUME NEW n \in Answered(s) PROVE n \in Answered(c)
  <2>1. PICK i \in 1 .. Len(s) : n = s[i].of /\ n # 0
    BY <1>2, <1>4 DEF Answered
  <2>2. i \in 1 .. Len(s) + Len(t) /\ c[i] = s[i]
    BY <1>1, <1>2
  <2> QED
    BY <1>2, <2>1, <2>2 DEF Answered
<1>5. ASSUME NEW n \in Answered(t) PROVE n \in Answered(c)
  <2>1. PICK i \in 1 .. Len(t) : n = t[i].of /\ n # 0
    BY <1>2, <1>5 DEF Answered
  <2>2. /\ Len(s) + i \in 1 .. Len(s) + Len(t) /\ ~(Len(s) + i <= Len(s))
        /\ (Len(s) + i) - Len(s) = i
    BY <1>2
  <2>3. c[Len(s) + i] = t[i]
    BY <1>1, <2>2
  <2> QED
    BY <1>2, <2>1, <2>2, <2>3 DEF Answered
<1> QED
  BY <1>3, <1>4, <1>5 DEF c

LEMMA AnsweredAppend ==
  ASSUME NEW s \in Text, NEW f \in Fragment
  PROVE  Answered(Append(s, f)) = Answered(s) \cup Of(f)
<1> DEFINE c == Append(s, f)
<1>1. /\ c \in Text /\ Len(c) = Len(s) + 1 /\ c[Len(s) + 1] = f
      /\ \A i \in 1 .. Len(s) : c[i] = s[i]
  BY AppendProperties DEF Text
<1>2. Len(s) \in Nat /\ DOMAIN c = 1 .. Len(s) + 1 /\ DOMAIN s = 1 .. Len(s)
  BY <1>1, AnsweredType
<1> HIDE DEF c
<1>3. ASSUME NEW n \in Answered(c) PROVE n \in Answered(s) \cup Of(f)
  <2>1. PICK i \in 1 .. Len(s) + 1 : n = c[i].of /\ n # 0
    BY <1>2, <1>3 DEF Answered
  <2> QED
    BY <1>1, <1>2, <2>1 DEF Answered, Of
<1>4. ASSUME NEW n \in Answered(s) PROVE n \in Answered(c)
  <2>1. PICK i \in 1 .. Len(s) : n = s[i].of /\ n # 0
    BY <1>2, <1>4 DEF Answered
  <2>2. i \in 1 .. Len(s) + 1 /\ c[i] = s[i]
    BY <1>1, <1>2
  <2> QED
    BY <1>2, <2>1, <2>2 DEF Answered
<1>5. Of(f) \subseteq Answered(c)
  <2>1. Len(s) + 1 \in 1 .. Len(s) + 1
    BY <1>2
  <2> QED
    BY <1>1, <1>2, <2>1 DEF Answered, Of
<1> QED
  BY <1>3, <1>4, <1>5 DEF c

LEMMA AnsweredHeadTail ==
  ASSUME NEW s \in Text, s # <<>>
  PROVE  Head(s) \in Fragment /\ Tail(s) \in Text /\ Answered(s) = Of(Head(s)) \cup Answered(Tail(s))
<1> DEFINE t == Tail(s)
<1>1. /\ t \in Text /\ Len(t) = Len(s) - 1 /\ Len(s) \in Nat \ {0}
      /\ \A i \in 1 .. Len(s) - 1 : t[i] = s[i + 1]
      /\ Head(s) = s[1] /\ Head(s) \in Fragment
  BY HeadTailProperties, EmptySeq DEF Text
<1>2. DOMAIN s = 1 .. Len(s) /\ DOMAIN t = 1 .. Len(s) - 1
  BY <1>1, AnsweredType
<1> HIDE DEF t
<1>3. ASSUME NEW n \in Answered(s) PROVE n \in Of(Head(s)) \cup Answered(t)
  <2>1. PICK i \in 1 .. Len(s) : n = s[i].of /\ n # 0
    BY <1>2, <1>3 DEF Answered
  <2>2. CASE i = 1
    BY <1>1, <2>1, <2>2 DEF Of
  <2>3. CASE i # 1
    <3>1. i - 1 \in 1 .. Len(s) - 1 /\ t[i - 1] = s[i]
      BY <1>1, <2>3
    <3> QED
      BY <1>2, <2>1, <3>1 DEF Answered
  <2> QED
    BY <2>2, <2>3
<1>4. ASSUME NEW n \in Answered(t) PROVE n \in Answered(s)
  <2>1. PICK i \in 1 .. Len(s) - 1 : n = t[i].of /\ n # 0
    BY <1>2, <1>4 DEF Answered
  <2>2. i + 1 \in 1 .. Len(s) /\ t[i] = s[i + 1]
    BY <1>1
  <2> QED
    BY <1>2, <2>1, <2>2 DEF Answered
<1>5. Of(Head(s)) \subseteq Answered(s)
  <2>1. 1 \in 1 .. Len(s)
    BY <1>1
  <2> QED
    BY <1>1, <1>2, <2>1 DEF Answered, Of
<1> QED
  BY <1>1, <1>3, <1>4, <1>5 DEF t

(* An answer to command n is a text of fragments of n, or of "ERR ", of    *)
(* which only the last carries a line break.                               *)
OneAnswer(s, n) ==
  \A i \in 1 .. Len(s) : s[i].of \in {0, n} /\ (s[i].end => i = Len(s))

LEMMA AnswersShape ==
  ASSUME NEW n \in Nat, NEW answer \in Answers(n)
  PROVE  answer \in Text /\ OneAnswer(answer, n)
<1>0. answer \in Text
  BY AnswersAreTexts
<1>1. CASE answer = Line(n) \/ answer = Line(0)
  <2>1. PICK m \in {0, n} : answer = Line(m)
    BY <1>1
  <2>2. Len(answer) = 1 /\ answer[1].of = m
    BY <2>1 DEF Line
  <2>3. ASSUME NEW i \in 1 .. Len(answer) PROVE answer[i].of \in {0, n} /\ i = Len(answer)
    <3>1. i = 1
      BY <2>2
    <3> QED
      BY <2>1, <2>2, <3>1
  <2> QED
    BY <1>0, <2>3 DEF OneAnswer
<1>2. CASE answer = <<>>
  BY <1>0, <1>2 DEF OneAnswer
<1>3. CASE answer = <<[of |-> n, end |-> FALSE]>> \o Line(n)
  <2> DEFINE x == <<[of |-> n, end |-> FALSE]>>
             y == Line(n)
  <2>1. /\ x \in Text /\ Len(x) = 1 /\ x[1] = [of |-> n, end |-> FALSE]
        /\ y \in Text /\ Len(y) = 1 /\ y[1] = [of |-> n, end |-> TRUE]
    BY DEF Text, Fragment, Line
  <2> HIDE DEF x, y
  <2>2. answer = x \o y
    BY <1>3 DEF x, y
  <2>3. /\ Len(answer) = Len(x) + Len(y)
        /\ \A i \in 1 .. Len(x) + Len(y) : answer[i] = IF i <= Len(x) THEN x[i] ELSE y[i - Len(x)]
    BY <2>1, <2>2, ConcatProperties DEF Text
  <2>4. Len(answer) = 2 /\ answer[1] = x[1] /\ answer[2] = y[1]
    BY <2>1, <2>3
  <2>5. ASSUME NEW i \in 1 .. Len(answer)
        PROVE  answer[i].of \in {0, n} /\ (answer[i].end => i = Len(answer))
    <3>1. i = 1 \/ i = 2
      BY <2>4
    <3> QED
      BY <2>1, <2>4, <3>1
  <2> QED
    BY <1>0, <2>5 DEF OneAnswer
<1> QED
  BY <1>0, <1>1, <1>2, <1>3 DEF Answers

-----------------------------------------------------------------------------
(* The stages an answer goes through, as sets of the commands answered:    *)
(* had by the callback, held by the feedback thread, queued, received,     *)
(* and, at the two ends of the line, Answered(line) and Answered(reply).   *)
Handed == Answered(delivered)
Held == IF pc[F] \in HandLabels THEN Answered(ptData[fbItem]) ELSE {}
Waiting == UNION {Answered(ptData[item]) : item \in ToSet(ptQueue[FEEDBACK])}
Received == IF pc[S] \in {"readMore", "received"} THEN Answered(ptData[recvItem]) ELSE {}

Before(a, b) == \A m \in a, n \in b : m <= n

(* Each stage has only answers to later commands than the stages that it   *)
(* feeds have, or to the same one, and none to a command not yet sent.     *)
Chain(handed, held, waiting, received, coming, owed, last) ==
  /\ \A n \in handed \cup held \cup waiting \cup received \cup coming \cup owed : n <= last
  /\ Before(handed, held \cup waiting \cup received \cup coming \cup owed)
  /\ Before(held, waiting \cup received \cup coming \cup owed)
  /\ Before(waiting, received \cup coming \cup owed)
  /\ Before(received, coming \cup owed)
  /\ Before(coming, owed)

LEMMA ChainShrinks ==
  ASSUME NEW a, NEW b, NEW c, NEW d, NEW e, NEW f, NEW t \in Nat, Chain(a, b, c, d, e, f, t),
         (a \cup b \cup c \cup d \cup e \cup f) \subseteq Nat, NEW u \in Nat, t <= u,
         NEW v \in SUBSET a, NEW w \in SUBSET b, NEW x \in SUBSET c,
         NEW y \in SUBSET d, NEW z \in SUBSET e, NEW g \in SUBSET f
  PROVE  Chain(v, w, x, y, z, g, u)
  BY DEF Chain, Before

(* The ways in which an answer gets from one stage to the next.            *)
LEMMA ChainMoves ==
  ASSUME NEW a, NEW b, NEW c, NEW d, NEW e, NEW f, NEW t \in Nat, NEW g, NEW r,
         (a \cup b \cup c \cup d \cup e \cup f) \subseteq Nat, Chain(a, b, c, d, e, f, t)
  PROVE  /\ g \subseteq {t} => Chain(a, b, c, d, e, f \cup g, t)
         /\ f = g \cup r /\ Before(g, r) => Chain(a, b, c, d, e \cup g, r, t)
         /\ Chain(a, b, c, d \cup e, {}, f, t)
         /\ Chain(a, b, c \cup d, {}, e, f, t)
         /\ b = {} /\ c = g \cup r /\ Before(g, r) => Chain(a, g, r, d, e, f, t)
         /\ Chain(b, {}, c, d, e, f, t)
<1>1. ASSUME g \subseteq {t} PROVE Chain(a, b, c, d, e, f \cup g, t)
  <2>1. \A n \in g : n = t
    BY <1>1
  <2>2. \A n \in a \cup b \cup c \cup d \cup e \cup f : n <= t
    BY DEF Chain
  <2> QED
    BY <2>1, <2>2 DEF Chain, Before
<1>2. ASSUME f = g \cup r, Before(g, r) PROVE Chain(a, b, c, d, e \cup g, r, t)
  <2>1. /\ \A n \in a \cup b \cup c \cup d \cup e \cup g \cup r : n <= t
        /\ Before(a, b \cup c \cup d \cup e \cup g \cup r)
        /\ Before(b, c \cup d \cup e \cup g \cup r)
        /\ Before(c, d \cup e \cup g \cup r)
        /\ Before(d, e \cup g \cup r) /\ Before(e, g \cup r) /\ Before(g, r)
    BY <1>2 DEF Chain, Before
  <2> QED
    BY <2>1 DEF Chain, Before
<1>3. Chain(a, b, c, d \cup e, {}, f, t)
  BY DEF Chain, Before
<1>4. Chain(a, b, c \cup d, {}, e, f, t)
  BY DEF Chain, Before
<1>5. ASSUME b = {}, c = g \cup r, Before(g, r) PROVE Chain(a, g, r, d, e, f, t)
  BY <1>5 DEF Chain, Before
<1>6. Chain(b, {}, c, d, e, f, t)
  BY DEF Chain, Before
<1> QED
  BY <1>1, <1>2, <1>3, <1>4, <1>5, <1>6

(* The queue and what the device owes are in this order in themselves.     *)
QueueInOrder ==
  \A i, j \in 1 .. Len(ptQueue[FEEDBACK]) :
    i < j => Before(Answered(ptData[ptQueue[FEEDBACK][i]]), Answered(ptData[ptQueue[FEEDBACK][j]]))
InOrder(text) == \A i, j \in 1 .. Len(text) : i < j => Before(Of(text[i]), Of(text[j]))

InChain == Chain(Handed, Held, Waiting, Received, Answered(line), Answered(reply), tried)
OrderInv == InChain /\ QueueInOrder /\ InOrder(reply)

Stages == Handed \cup Held \cup Waiting \cup Received \cup Answered(line) \cup Answered(reply)

LEMMA StagesType ==
  ASSUME TypeInv
  PROVE  /\ Stages \subseteq Nat /\ tried \in Nat
         /\ line \in Text /\ reply \in Text /\ delivered \in Text
         /\ ptQueue[FEEDBACK] \in Seq(Items) /\ ToSet(ptQueue[FEEDBACK]) \subseteq Items
         /\ pc[F] \in HandLabels => fbItem \in DelivererHolds /\ fbItem \in Items
         /\ pc[S] \in {"readMore", "received"} => recvItem \in ReceiverHolds /\ recvItem \in Items
<1>1. /\ tried \in Nat /\ line \in Text /\ reply \in Text /\ delivered \in Text
      /\ ptData \in [Items -> Text]
  BY Typed DEF TypeInv, TypeOK, SendTypeOK, DeviceTypeOK, FeedbackTypeOK
<1>2. ptQueue[FEEDBACK] \in Seq(Items) /\ ToSet(ptQueue[FEEDBACK]) \subseteq Items
  <2>1. ptQueue[FEEDBACK] \in Seq(Items)
    BY HandType
  <2> QED
    BY <2>1, LenProperties, ElementOfSeq DEF ToSet
<1>3. pc[F] \in HandLabels => fbItem \in DelivererHolds /\ fbItem \in Items
  BY HandType
<1>4. pc[S] \in {"readMore", "received"} => recvItem \in ReceiverHolds /\ recvItem \in Items
  BY Typed DEF SendTypeOK, ItemInHand, ReceiveLabels, ReceiverHolds
<1>5. \A item \in Items : Answered(ptData[item]) \subseteq Nat
  BY <1>1, AnsweredType
<1>6. Answered(line) \subseteq Nat /\ Answered(reply) \subseteq Nat /\ Handed \subseteq Nat
  BY <1>1, AnsweredType DEF Handed
<1>7. Held \subseteq Nat /\ Received \subseteq Nat /\ Waiting \subseteq Nat
  BY <1>2, <1>3, <1>4, <1>5 DEF Held, Received, Waiting
<1> QED
  BY <1>1, <1>2, <1>3, <1>4, <1>6, <1>7 DEF Stages

LEMMA InitOrderInv == Init => OrderInv
<1> SUFFICES ASSUME Init PROVE OrderInv
  OBVIOUS
<1>1. /\ line = <<>> /\ reply = <<>> /\ delivered = <<>> /\ ptQueue[FEEDBACK] = <<>>
      /\ pc[S] = "unborn" /\ pc[F] = "unborn"
  BY Processes, TwoQueues DEF Init, QueuesInit, ThreadsInit, DeviceInit, FeedbackInit
<1>2. Handed = {} /\ Answered(line) = {} /\ Answered(reply) = {}
  BY <1>1, AnsweredNothing DEF Handed
<1>3. Held = {} /\ Received = {} /\ Waiting = {}
  BY <1>1, EmptyElements DEF Held, HandLabels, Received, Waiting
<1>4. QueueInOrder /\ InOrder(reply)
  BY <1>1 DEF QueueInOrder, InOrder
<1> QED
  BY <1>2, <1>3, <1>4 DEF OrderInv, InChain, Chain, Before

(* A step that leaves alone what is received and not yet delivered.        *)
Downstream == <<delivered, fbItem, ptQueue[FEEDBACK]>>

LEMMA DownstreamFrame ==
  ASSUME UNCHANGED Downstream, pc'[F] \in HandLabels <=> pc[F] \in HandLabels,
         pc[F] \in HandLabels => ptData'[fbItem] = ptData[fbItem],
         \A item \in ToSet(ptQueue[FEEDBACK]) : ptData'[item] = ptData[item]
  PROVE  UNCHANGED <<Handed, Held, Waiting>>
  BY DEF Handed, Held, Waiting, Downstream

LEMMA QueueFrame ==
  ASSUME TypeInv, QueueInOrder, UNCHANGED ptQueue[FEEDBACK],
         \A item \in ToSet(ptQueue[FEEDBACK]) : ptData'[item] = ptData[item]
  PROVE  QueueInOrder'
<1>1. \A i \in 1 .. Len(ptQueue[FEEDBACK]) : ptQueue[FEEDBACK][i] \in ToSet(ptQueue[FEEDBACK])
  BY Typed, Elements, TwoQueues
<1> QED
  BY <1>1 DEF QueueInOrder

(* A step that loses answers, or that sends a later command.               *)
LEMMA OrderFrame ==
  ASSUME TypeInv, TypeInv', InChain, tried <= tried',
         Handed' \subseteq Handed, Held' \subseteq Held, Waiting' \subseteq Waiting,
         Received' \subseteq Received, Answered(line') \subseteq Answered(line),
         Answered(reply') \subseteq Answered(reply)
  PROVE  InChain'
<1>1. Stages \subseteq Nat /\ tried \in Nat /\ tried' \in Nat
  BY StagesType DEF TypeInv, TypeOK, SendTypeOK
<1> QED
  BY <1>1, ChainShrinks DEF InChain, Stages

-----------------------------------------------------------------------------
(* What the calls of the application do to the answers on their way: init  *)
(* clears the line and the queue while the threads concerned are not       *)
(* there, and nothing else touches them.                                   *)
Untouched(items) == \A item \in items : ptData'[item] = ptData[item] /\ eCmd'[item] = eCmd[item]

MainLeaves ==
  /\ UNCHANGED <<reply, delivered, recvItem>>
  /\ line' = line \/ (line' = <<>> /\ Gone(S) /\ pc'[S] = pc[S])
  /\ Untouched(ToSet(ptQueue[FEEDBACK]) \cup DelivererHolds \cup ReceiverHolds)
  /\ \/ UNCHANGED <<pc[S], sendItem, tried>>
     \/ Gone(S) /\ pc'[S] = "top" /\ tried' = Len(issued)
  /\ \/ UNCHANGED <<pc[F], fbItem, ptQueue[FEEDBACK]>>
     \/ Gone(F) /\ pc'[F] \in {"pop", pc[F]} /\ ptQueue'[FEEDBACK] = <<>>
  /\ \A n \in 1 .. Len(issued) : n \in 1 .. Len(issued') /\ issued'[n] = issued[n]

LEMMA MainAnswers ==
  SafeInv /\ (MainStep \/ Call \/ UNCHANGED vars) => MainLeaves
<1> SUFFICES ASSUME SafeInv, MainStep \/ Call \/ UNCHANGED vars PROVE MainLeaves
  OBVIOUS
<1>0. ListsTypeOK /\ pc \in [Process -> Labels] /\ issued \in Seq(Commands) /\ Len(issued) \in Nat
  BY Typed DEF SafeInv
<1>a. ASSUME UNCHANGED <<reply, line, delivered, recvItem, sendItem, tried, fbItem, issued, dataVars>>,
             ptQueue'[FEEDBACK] = ptQueue[FEEDBACK], pc'[S] = pc[S], pc'[F] = pc[F]
      PROVE  MainLeaves
  BY <1>a DEF MainLeaves, Untouched, dataVars
<1>b. ASSUME NEW label, Goto(Main, label) PROVE pc'[S] = pc[S] /\ pc'[F] = pc[F]
  BY <1>0, <1>b, Processes DEF Goto
<1> USE DEF deviceVars, sendVars, ioVars, queueVars, listVars, feedbackVars, Branch
<1>1. CASE InitSend
  <2>1. /\ Gone(S) /\ pc'[S] = "top" /\ pc'[F] = pc[F] /\ tried' = Len(issued)
        /\ UNCHANGED <<reply, line, delivered, recvItem, fbItem, issued, dataVars>>
    BY <1>0, <1>1, Processes DEF InitSend, SafeInv, LifeInv, LifeInit
  <2>2. ptQueue'[FEEDBACK] = ptQueue[FEEDBACK]
    BY <1>0, <1>1, TwoQueues, InitPending DEF InitSend
  <2> QED
    BY <2>1, <2>2 DEF MainLeaves, Untouched, dataVars
<1>2. CASE InitSendFails
  <2>1. ptQueue'[FEEDBACK] = ptQueue[FEEDBACK]
    BY <1>0, <1>2, TwoQueues, InitPending DEF InitSendFails
  <2>2. pc'[S] = pc[S] /\ pc'[F] = pc[F]
    BY <1>2, <1>b DEF InitSendFails
  <2> QED
    BY <1>2, <1>a, <2>1, <2>2 DEF InitSendFails
<1>3. CASE InitFeedback \/ InitFeedbackFails
  <2>1. Gone(F)
    BY <1>3 DEF SafeInv, LifeInv, LifeInit, OwnInv, OutOfService, InitFeedback, InitFeedbackFails
  <2>2. /\ UNCHANGED <<reply, line, delivered, recvItem, sendItem, tried, issued, dataVars>>
        /\ pc'[S] = pc[S] /\ pc'[F] \in {"pop", pc[F]}
    BY <1>0, <1>3, Processes DEF InitFeedback, InitFeedbackFails, Goto
  <2>3. ptQueue'[FEEDBACK] = <<>>
    BY <1>0, <1>3, TwoQueues, InitPending DEF InitFeedback, InitFeedbackFails
  <2> QED
    BY <2>1, <2>2, <2>3 DEF MainLeaves, Untouched, dataVars
<1>4. CASE CmdAdd
  <2>1. /\ UNCHANGED <<reply, line, delivered, recvItem, sendItem, tried, fbItem>>
        /\ pc'[S] = pc[S] /\ pc'[F] = pc[F]
    BY <1>4, <1>b DEF CmdAdd
  <2>2. ptQueue'[FEEDBACK] = ptQueue[FEEDBACK] /\ cmdItem \in Items
    BY <1>0, <1>4, TwoQueues, AddPending, CallerWrites DEF CmdAdd, Items
  <2>3. Untouched(ToSet(ptQueue[FEEDBACK]) \cup DelivererHolds \cup ReceiverHolds)
    <3>1. \A item \in ToSet(ptQueue[FEEDBACK]) \cup DelivererHolds \cup ReceiverHolds :
            item \in Items \ {cmdItem}
      BY <1>4, CallerWrites, Apart, BlocksAssumption DEF Items
    <3> QED
      BY <1>4, <3>1, CallerWrites DEF Untouched
  <2>4. PICK cmd \in Commands : issued' = Append(issued, cmd)
    BY <1>4 DEF CmdAdd
  <2>5. \A n \in 1 .. Len(issued) : n \in 1 .. Len(issued') /\ issued'[n] = issued[n]
    BY <1>0, <2>4, AppendProperties
  <2> QED
    BY <2>1, <2>2, <2>3, <2>5 DEF MainLeaves
<1>5. CASE CmdFresh
  BY <1>5, <1>a, <1>b, SamePending DEF CmdFresh
<1>6. CASE CmdCheck \/ CmdResume
  BY <1>6, <1>a, <1>b DEF CmdCheck, CmdResume
<1>7. CASE Stop \/ StopPaused \/ StopResume \/ Join
  BY <1>7, <1>a, <1>b DEF Stop, StopPaused, StopResume, Join, StopReturn
<1>8. CASE CleanFeedback \/ CleanSendCmds \/ closeFd
  BY <1>8, <1>a, <1>b, SamePending DEF CleanFeedback, CleanSendCmds, closeFd
<1>9. CASE WaitStep
  <2>1. PICK label \in {"waitBlocked", "waitPause", "waitCopy", "waitClear", "waitResume", "idle"} :
          Goto(Main, label) /\ UNCHANGED <<queueVars, fbItem, delivered>>
    BY <1>9 DEF WaitStep, tmc200ctrl_io_waitForTMC200Feedback, WaitLock, WaitInvalid, WaitSignalled,
       WaitTimeout, WaitSpurious, WaitReturn, WaitPause, WaitCopy, WaitClear, WaitResume, threadVars
  <2> QED
    BY <1>9, <2>1, <1>a, <1>b DEF WaitStep
<1>10. CASE InitCall
  <2>1. Gone(S)
    BY <1>10 DEF InitCall, SafeInv, LifeInv, LifeOff, LifeDown, BothExited, Gone, At
  <2>2. /\ UNCHANGED <<reply, delivered, recvItem, sendItem, tried, fbItem, issued, dataVars, ptQueue>>
        /\ line' = <<>> /\ pc'[S] = pc[S] /\ pc'[F] = pc[F]
    BY <1>10, <1>b DEF InitCall, LineTaken
  <2> QED
    BY <2>1, <2>2 DEF MainLeaves, Untouched, dataVars
<1>11. CASE SetCmdCall \/ ShutdownCall \/ WaitForFeedbackCall
  BY <1>11, <1>a, <1>b DEF SetCmdCall, ShutdownCall, WaitForFeedbackCall, WaitCall, threadVars
<1>12. CASE RepeatCall \/ CallbackCall \/ UNCHANGED vars
  BY <1>12, <1>a DEF RepeatCall, CallbackCall, vars, threadVars, tmc200ctrl_io_sendSVRepetitive,
     tmc200ctrl_io_setTMC200FeedbackProcessingFunction
<1> QED
  BY <1>1, <1>2, <1>3, <1>4, <1>5, <1>6, <1>7, <1>8, <1>9, <1>10, <1>11, <1>12 DEF MainStep, Call

-----------------------------------------------------------------------------
(* The order of the answers is kept by the application's calls: the sender *)
(* only ever goes on to later commands ...                                 *)
LEMMA MainOrderInv ==
  SafeInv /\ SafeInv' /\ NumInv /\ OrderInv /\ (MainStep \/ Call \/ UNCHANGED vars) => OrderInv'
<1> SUFFICES ASSUME SafeInv, SafeInv', NumInv, OrderInv, MainLeaves PROVE OrderInv'
  BY MainAnswers
<1>1. tried <= tried'
  BY StagesType, Typed DEF SafeInv, NumInv, MainLeaves
<1>2. /\ reply' = reply /\ line' \in {line, <<>>} /\ delivered' = delivered /\ recvItem' = recvItem
      /\ Untouched(ToSet(ptQueue[FEEDBACK]) \cup DelivererHolds \cup ReceiverHolds)
  BY DEF MainLeaves
<1>3. Answered(line') \subseteq Answered(line) /\ Answered(reply') \subseteq Answered(reply)
  BY <1>2, AnsweredNothing
<1>4. Received' \subseteq Received
  <2>1. pc'[S] = pc[S] \/ pc'[S] = "top"
    BY DEF MainLeaves
  <2>2. pc[S] \in {"readMore", "received"} => ptData'[recvItem] = ptData[recvItem]
    BY <1>2, StagesType DEF SafeInv, Untouched
  <2> QED
    BY <1>2, <2>1, <2>2 DEF Received
<1>5. pc[F] \in HandLabels => ptData'[fbItem] = ptData[fbItem]
  BY <1>2, StagesType DEF SafeInv, Untouched
<1>6. \A item \in ToSet(ptQueue[FEEDBACK]) : ptData'[item] = ptData[item]
  BY <1>2 DEF Untouched
<1>7. CASE UNCHANGED <<pc[F], fbItem, ptQueue[FEEDBACK]>>
  <2>1. UNCHANGED <<Handed, Held, Waiting>>
    BY <1>2, <1>5, <1>6, <1>7, DownstreamFrame DEF Downstream
  <2>2. QueueInOrder'
    BY <1>6, <1>7, QueueFrame DEF SafeInv, OrderInv
  <2> QED
    BY <1>1, <1>2, <1>3, <1>4, <2>1, <2>2, OrderFrame DEF SafeInv, OrderInv
<1>8. CASE Gone(F) /\ pc'[F] \in {"pop", pc[F]} /\ ptQueue'[FEEDBACK] = <<>>
  <2>1. Handed' = Handed /\ Held' = {} /\ Waiting' = {}
    BY <1>2, <1>8, EmptyElements DEF Handed, Held, HandLabels, Waiting, Gone
  <2>2. QueueInOrder'
    BY <1>8 DEF QueueInOrder
  <2> QED
    BY <1>1, <1>2, <1>3, <1>4, <2>1, <2>2, OrderFrame DEF SafeInv, OrderInv
<1> QED
  BY <1>7, <1>8 DEF MainLeaves

(* ... by the device, which sends what it owes in turn ...                 *)
LEMMA InOrderTail ==
  ASSUME NEW s \in Text, s # <<>>, InOrder(s)
  PROVE  InOrder(Tail(s)) /\ Before(Of(Head(s)), Answered(Tail(s)))
<1> DEFINE t == Tail(s)
<1>1. /\ t \in Text /\ Len(t) = Len(s) - 1 /\ Len(s) \in Nat \ {0}
      /\ \A i \in 1 .. Len(s) - 1 : t[i] = s[i + 1]
      /\ Head(s) = s[1]
  BY HeadTailProperties, EmptySeq DEF Text
<1> HIDE DEF t
<1>2. InOrder(t)
  <2>1. ASSUME NEW i \in 1 .. Len(t), NEW j \in 1 .. Len(t), i < j
        PROVE  Before(Of(t[i]), Of(t[j]))
    <3>1. /\ i + 1 \in 1 .. Len(s) /\ j + 1 \in 1 .. Len(s) /\ i + 1 < j + 1
          /\ t[i] = s[i + 1] /\ t[j] = s[j + 1]
      BY <1>1, <2>1
    <3> QED
      BY <3>1 DEF InOrder
  <2> QED
    BY <2>1 DEF InOrder
<1>3. ASSUME NEW n \in Answered(t) PROVE Before(Of(Head(s)), {n})
  <2>1. DOMAIN t = 1 .. Len(t)
    BY <1>1, AnsweredType
  <2>2. PICK i \in 1 .. Len(t) : n = t[i].of /\ n # 0
    BY <1>3, <2>1 DEF Answered
  <2>3. 1 \in 1 .. Len(s) /\ i + 1 \in 1 .. Len(s) /\ 1 < i + 1 /\ t[i] = s[i + 1]
    BY <1>1, <2>2
  <2>4. Before(Of(s[1]), Of(s[i + 1]))
    BY <2>3 DEF InOrder
  <2> QED
    BY <1>1, <2>2, <2>3, <2>4 DEF Before, Of
<1> QED
  BY <1>2, <1>3 DEF t, Before

LEMMA InOrderConcat ==
  ASSUME NEW s \in Text, NEW t \in Text, NEW n \in Nat, InOrder(s), \A m \in Answered(s) : m <= n,
         OneAnswer(t, n)
  PROVE  InOrder(s \o t) /\ Answered(t) \subseteq {n}
<1> DEFINE c == s \o t
<1>1. /\ Len(c) = Len(s) + Len(t) /\ Len(s) \in Nat /\ Len(t) \in Nat
      /\ \A i \in 1 .. Len(s) + Len(t) : c[i] = IF i <= Len(s) THEN s[i] ELSE t[i - Len(s)]
      /\ DOMAIN t = 1 .. Len(t) /\ DOMAIN s = 1 .. Len(s)
  BY ConcatProperties, AnsweredType DEF Text
<1> HIDE DEF c
<1>2. Answered(t) \subseteq {n}
  BY <1>1 DEF OneAnswer, Answered
<1>3. ASSUME NEW i \in 1 .. Len(c), NEW j \in 1 .. Len(c), i < j
      PROVE  Before(Of(c[i]), Of(c[j]))
  <2>1. CASE j <= Len(s)
    <3>1. i \in 1 .. Len(s) /\ j \in 1 .. Len(s) /\ c[i] = s[i] /\ c[j] = s[j]
      BY <1>1, <1>3, <2>1
    <3> QED
      BY <1>3, <3>1 DEF InOrder
  <2>2. CASE ~(j <= Len(s))
    <3>1. j - Len(s) \in 1 .. Len(t) /\ c[j] = t[j - Len(s)]
      BY <1>1, <2>2
    <3>2. Of(c[j]) \subseteq {n}
      BY <3>1 DEF OneAnswer, Of
    <3>3. \A m \in Of(c[i]) : m <= n
      <4>1. CASE i <= Len(s)
        <5>1. i \in 1 .. Len(s) /\ c[i] = s[i]
          BY <1>1, <4>1
        <5>2. Of(c[i]) \subseteq Answered(s)
          BY <1>1, <5>1 DEF Of, Answered
        <5> QED
          BY <5>2
      <4>2. CASE ~(i <= Len(s))
        <5>1. i - Len(s) \in 1 .. Len(t) /\ c[i] = t[i - Len(s)]
          BY <1>1, <4>2
        <5>2. Of(c[i]) \subseteq {n}
          BY <5>1 DEF OneAnswer, Of
        <5> QED
          BY <5>2
      <4> QED
        BY <4>1, <4>2
    <3> QED
      BY <3>2, <3>3 DEF Before
  <2> QED
    BY <2>1, <2>2
<1> QED
  BY <1>2, <1>3 DEF InOrder, c

LEMMA DeviceOrderInv ==
  SafeInv /\ OrderInv /\ DeviceStep => OrderInv'
<1> SUFFICES ASSUME SafeInv, OrderInv, DeviceStep PROVE OrderInv'
  OBVIOUS
<1> DEFINE g == Of(Head(reply))
           r == Answered(Tail(reply))
<1>1. /\ reply # <<>> /\ line' = Append(line, Head(reply)) /\ reply' = Tail(reply)
      /\ UNCHANGED <<delivered, fbItem, ptQueue, ptData, pc, recvItem, tried>>
  BY DEF DeviceStep, DeviceEmit, queueVars, listVars, dataVars, sendVars, feedbackVars
<1>2. Stages \subseteq Nat /\ tried \in Nat /\ line \in Text /\ reply \in Text
  BY StagesType DEF SafeInv
<1>3. /\ Answered(reply) = g \cup r /\ Answered(reply') = r
      /\ Answered(line') = Answered(line) \cup g
  BY <1>1, <1>2, AnsweredHeadTail, AnsweredAppend
<1>4. InOrder(reply') /\ Before(g, r)
  BY <1>1, <1>2, InOrderTail DEF OrderInv
<1>5. UNCHANGED <<Handed, Held, Waiting, Received>> /\ QueueInOrder'
  BY <1>1 DEF Handed, Held, Waiting, Received, OrderInv, QueueInOrder
<1> HIDE DEF g, r
<1>6. Chain(Handed, Held, Waiting, Received, Answered(line) \cup g, r, tried)
  BY <1>2, <1>3, <1>4, ChainMoves DEF OrderInv, InChain, Stages
<1>7. InChain'
  BY <1>1, <1>3, <1>5, <1>6 DEF InChain
<1> QED
  BY <1>4, <1>5, <1>7 DEF OrderInv

(* ... by the feedback thread, which takes the answers off the queue and   *)
(* hands each on before it takes the next ...                              *)
LEMMA PopOrderInv ==
  ASSUME SafeInv, OrderInv, FbPop, UNCHANGED <<deviceVars, sendVars, ioVars>>
  PROVE  OrderInv'
<1> DEFINE q == ptQueue[FEEDBACK]
           g == Answered(ptData[Head(q)])
           r == UNION {Answered(ptData[item]) : item \in ToSet(Tail(q))}
<1>1. /\ pc[F] = "pop" /\ ListsTypeOK /\ fbItem' = Popped(FEEDBACK) /\ popItemFromQueue(FEEDBACK)
      /\ pc'[F] = IF fbItem' # NULL THEN "haveFunc" ELSE "size"
      /\ pc'[S] = pc[S] /\ q \in Seq(Items)
      /\ UNCHANGED <<delivered, ptData, line, reply, recvItem, tried>>
  BY Typed, Processes, StagesType
  DEF SafeInv, FbPop, At, Branch, Goto, dataVars, deviceVars, sendVars
<1>2. UNCHANGED <<Handed, Received, Answered(line), Answered(reply), tried>>
      /\ Held = {} /\ InOrder(reply')
  BY <1>1 DEF Handed, Received, Held, HandLabels, OrderInv
<1>3. CASE q = <<>>
  <2>1. ptQueue' = ptQueue /\ fbItem' = NULL
    BY <1>1, <1>3 DEF popItemFromQueue, Popped
  <2>2. Held' = {} /\ Waiting' = Waiting /\ QueueInOrder'
    BY <1>1, <2>1 DEF Held, HandLabels, Waiting, QueueInOrder, OrderInv
  <2> QED
    BY <1>2, <2>2 DEF OrderInv, InChain
<1>4. CASE q # <<>>
  <2>1. /\ Tail(q) \in Seq(Items) /\ Len(Tail(q)) = Len(q) - 1 /\ Len(q) \in Nat \ {0}
        /\ \A i \in 1 .. Len(q) - 1 : Tail(q)[i] = q[i + 1]
        /\ Head(q) = q[1] /\ Head(q) \in Items
    BY <1>1, <1>4, EmptySeq, HeadTailProperties
  <2>2. ptQueue'[FEEDBACK] = Tail(q) /\ fbItem' = Head(q) /\ fbItem' # NULL
    BY <1>1, <1>4, <2>1, TwoQueues, NullAssumption DEF popItemFromQueue, Popped, ListsTypeOK
  <2>3. Held' = g /\ Waiting' = r
    BY <1>1, <2>2 DEF Held, HandLabels, Waiting
  <2> DEFINE t == Tail(q)
             B(i) == Answered(ptData[q[i]])
  <2> HIDE DEF t
  <2>0. /\ Len(t) = Len(q) - 1 /\ \A i \in 1 .. Len(q) - 1 : t[i] = q[i + 1]
        /\ DOMAIN t = 1 .. Len(q) - 1 /\ DOMAIN q = 1 .. Len(q)
    BY <1>1, <2>1, LenProperties DEF t
  <2>4. ASSUME NEW i \in 1 .. Len(q), NEW j \in 1 .. Len(q), i < j PROVE Before(B(i), B(j))
    BY <2>4 DEF OrderInv, QueueInOrder
  <2>5. ASSUME NEW item \in ToSet(t) PROVE Before(g, Answered(ptData[item]))
    <3>1. PICK i \in 1 .. Len(q) - 1 : item = q[i + 1]
      BY <2>0, <2>5 DEF ToSet
    <3>2. 1 \in 1 .. Len(q) /\ i + 1 \in 1 .. Len(q) /\ 1 < i + 1
      BY <2>1
    <3>3. Before(B(1), B(i + 1))
      BY <2>4, <3>2
    <3> QED
      BY <2>1, <3>1, <3>3
  <2>6. Before(g, r)
    BY <2>5 DEF Before, t
  <2>7. ToSet(q) = {Head(q)} \cup ToSet(t)
    <3>1. ASSUME NEW item \in ToSet(q) PROVE item = Head(q) \/ item \in ToSet(t)
      <4>1. PICK i \in 1 .. Len(q) : item = q[i]
        BY <2>0, <3>1 DEF ToSet
      <4>2. i # 1 => i - 1 \in 1 .. Len(q) - 1 /\ t[i - 1] = q[i]
        BY <2>0, <2>1
      <4> QED
        BY <2>0, <2>1, <4>1, <4>2 DEF ToSet
    <3>2. Head(q) \in ToSet(q) /\ ToSet(t) \subseteq ToSet(q)
      BY <1>1, <1>4, TailElements DEF t
    <3> QED
      BY <3>1, <3>2
  <2>8. Waiting = g \cup r
    BY <2>7 DEF Waiting, t
  <2>9. QueueInOrder'
    <3>1. ASSUME NEW i \in 1 .. Len(t), NEW j \in 1 .. Len(t), i < j
          PROVE  Before(Answered(ptData[t[i]]), Answered(ptData[t[j]]))
      <4>1. /\ i + 1 \in 1 .. Len(q) /\ j + 1 \in 1 .. Len(q) /\ i + 1 < j + 1
            /\ t[i] = q[i + 1] /\ t[j] = q[j + 1]
        BY <2>0, <2>1, <3>1
      <4>2. Before(B(i + 1), B(j + 1))
        BY <2>4, <4>1
      <4> QED
        BY <4>1, <4>2
    <3> QED
      BY <1>1, <2>2, <3>1 DEF QueueInOrder, t
  <2>10. Stages \subseteq Nat /\ tried \in Nat
    BY StagesType DEF SafeInv
  <2> HIDE DEF g, r, q
  <2>11. Chain(Handed, g, r, Received, Answered(line), Answered(reply), tried)
    BY <1>2, <2>6, <2>8, <2>10, ChainMoves DEF OrderInv, InChain, Stages
  <2>12. InChain'
    BY <1>2, <2>3, <2>11 DEF InChain
  <2> QED
    BY <1>2, <2>9, <2>12 DEF OrderInv
<1> QED
  BY <1>3, <1>4

LEMMA FeedbackThreadOrderInv ==
  SafeInv /\ SafeInv' /\ OrderInv /\ FeedbackThreadStep => OrderInv'
<1> SUFFICES ASSUME SafeInv, SafeInv', OrderInv, FeedbackThreadStep PROVE OrderInv'
  OBVIOUS
<1>0. /\ TMC200FeedBackThreadFunc /\ UNCHANGED <<deviceVars, sendVars, ioVars>>
      /\ UNCHANGED <<line, reply, recvItem, tried, pc[S]>> /\ pc \in [Process -> Labels]
  BY FeedbackThreadFrame, Typed DEF SafeInv, FeedbackThreadStep, deviceVars, sendVars
<1>1. CASE FbPop
  BY <1>0, <1>1, PopOrderInv
<1>a. ASSUME UNCHANGED <<ptQueue, ptData>>
      PROVE  UNCHANGED <<Received, Waiting, Answered(line), Answered(reply)>> /\ QueueInOrder' /\ InOrder(reply')
  BY <1>0, <1>a DEF Received, Waiting, QueueInOrder, OrderInv
<1>2. CASE FbProcess
  <2>1. /\ pc[F] = "process" /\ pc'[F] = "recycle" /\ UNCHANGED <<ptQueue, ptData>>
        /\ delivered' \in {delivered, ptData[fbItem]}
    BY <1>0, <1>2, Processes DEF FbProcess, At, Goto, queueVars, listVars, dataVars
  <2>2. Held' = {} /\ Held = Answered(ptData[fbItem]) /\ Handed' \in {Handed, Held}
    BY <2>1 DEF Held, Handed, HandLabels
  <2>3. Stages \subseteq Nat /\ tried \in Nat
    BY StagesType DEF SafeInv
  <2>4. CASE Handed' = Handed
    BY <1>0, <1>a, <2>1, <2>2, <2>4, OrderFrame, <2>3 DEF OrderInv, SafeInv
  <2>5. CASE Handed' = Held
    <3>1. Chain(Held, {}, Waiting, Received, Answered(line), Answered(reply), tried)
      BY <2>3, ChainMoves DEF OrderInv, InChain, Stages
    <3>2. InChain'
      BY <1>0, <1>a, <2>1, <2>2, <2>5, <3>1 DEF InChain
    <3> QED
      BY <1>a, <2>1, <3>2 DEF OrderInv
  <2> QED
    BY <2>2, <2>4, <2>5
<1>3. CASE ~FbPop /\ ~FbProcess
  <2>1. /\ UNCHANGED <<ptQueue, ptData, fbItem, delivered>>
        /\ pc'[F] \in HandLabels => pc[F] \in HandLabels
    BY <1>0, <1>3, Processes, SamePending
    DEF TMC200FeedBackThreadFunc, FbHaveFunc, FbWaitFlag, FbPublish, FbBroadcast, FbGate, FbRecycle, FbSize,
        FbAlive, FbPause, FbWait, At, Branch, Goto, queueVars, listVars, dataVars, feedbackVars, threadVars,
        HandLabels
  <2>2. Held' \subseteq Held /\ Handed' = Handed
    BY <2>1 DEF Held, Handed
  <2>3. tried \in Nat
    BY StagesType DEF SafeInv
  <2> QED
    BY <1>0, <1>a, <2>1, <2>2, <2>3, OrderFrame DEF OrderInv, SafeInv
<1> QED
  BY <1>1, <1>2, <1>3

(* ... and by the send thread, which sends a later command, or the same    *)
(* once more, reads what has come, and queues what it has read.            *)
LEMMA SenderLeaves ==
  ASSUME SafeInv, SendThreadStep
  PROVE  /\ UNCHANGED <<delivered, fbItem, pc[F], issued>>
         /\ Untouched(ToSet(ptQueue[FEEDBACK]) \cup DelivererHolds)
<1>1. UNCHANGED <<delivered, fbItem, pc[F], issued>>
  BY SendThreadFrame DEF SafeInv, SendThreadStep, feedbackVars, ioVars
<1>2. CASE ReceiveRead \/ ReceiveDeliver
  <2>1. recvItem \in ReceiverHolds
    BY <1>2 DEF ReceiveRead, ReceiveDeliver, At, ReceiverHolds
  <2>2. \A item \in ToSet(ptQueue[FEEDBACK]) \cup DelivererHolds : item \in Items \ {recvItem}
    BY <1>2, <2>1, SenderWrites, Apart DEF Items
  <2> QED
    BY <1>1, <1>2, <2>2, SenderWrites DEF Untouched
<1>3. CASE ~ReceiveRead /\ ~ReceiveDeliver
  <2>1. UNCHANGED dataVars
    BY <1>3 DEF SendThreadStep, sendTMC200CmdsThreadFunc, SendTop, SendRecycle, SendPop, SendIdleAlive,
       SendRepeatAlive, SendExitRecycle, SendSend, SendPause, SendWait, SendWrite, SendWriteTimeout,
       ReceiveFresh, ReceiveTimeout, ReceiveDrop, ReceiveErr, WakeCheck, Wake, queueVars
  <2> QED
    BY <1>1, <2>1 DEF Untouched, dataVars
<1> QED
  BY <1>2, <1>3

LEMMA SendIsLater ==
  ASSUME SafeInv, NumInv, SendSend
  PROVE  tried <= tried' /\ tried' \in Nat
<1>1. Fits(sendItem, Taken) /\ (Taken = tried + 1 \/ Taken = tried)
  BY DEF NumInv, TakenInOrder, Gone, At, SendSend
<1>2. tried' = Taken
  BY <1>1 DEF Fits, Number, Line, SendSend
<1> QED
  BY <1>1, <1>2, StagesType, Typed DEF Fits, SafeInv

LEMMA WritesTried ==
  ASSUME SafeInv, NumInv, SendWrite
  PROVE  \E answer \in Text : OneAnswer(answer, tried) /\ reply' = reply \o answer
<1>1. Fits(sendItem, tried)
  BY Typed DEF NumInv, TakenInOrder, Gone, At, SendWrite, SafeInv, ItemInHand, SendLabels
<1>2. Number(sendItem) = tried /\ tried \in Nat
  BY <1>1, StagesType DEF Fits, Number, Line, SafeInv
<1> QED
  BY <1>2, AnswersShape DEF SendWrite, DeviceAccept

LEMMA WriteOrderInv ==
  ASSUME SafeInv, NumInv, OrderInv, SendWrite, UNCHANGED <<Handed, Held, Waiting>>, QueueInOrder'
  PROVE  OrderInv'
<1>1. UNCHANGED <<line, tried>> /\ pc[S] = "write" /\ pc'[S] = "fresh"
  BY Typed, Processes DEF SafeInv, SendWrite, DeviceAccept, sendVars, At, Goto
<1>2. Received = {} /\ Received' = {}
  BY <1>1 DEF Received
<1>3. PICK answer \in Text : OneAnswer(answer, tried) /\ reply' = reply \o answer
  BY WritesTried
<1>4. Stages \subseteq Nat /\ tried \in Nat /\ reply \in Text
  BY StagesType DEF SafeInv
<1>5. \A m \in Answered(reply) : m <= tried
  BY DEF OrderInv, InChain, Chain
<1>6. InOrder(reply') /\ Answered(answer) \subseteq {tried}
  BY <1>3, <1>4, <1>5, InOrderConcat DEF OrderInv
<1>7. Answered(reply') = Answered(reply) \cup Answered(answer)
  BY <1>3, <1>4, AnsweredConcat
<1>8. Chain(Handed, Held, Waiting, Received, Answered(line), Answered(reply) \cup Answered(answer), tried)
  BY <1>4, <1>6, ChainMoves DEF OrderInv, InChain, Stages
<1> QED
  BY <1>1, <1>2, <1>6, <1>7, <1>8 DEF OrderInv, InChain

LEMMA ReadTakesLine ==
  ASSUME SafeInv, ReceiveRead
  PROVE  Received' = Received \cup Answered(line)
<1> DEFINE old == IF At(S, "read") THEN <<>> ELSE ptData[recvItem]
           new == old \o line
<1>1. /\ pc[S] \in {"read", "readMore"} /\ pc'[S] \in {"readMore", "received"}
      /\ recvItem' = recvItem /\ recvItem \in Items /\ line \in Text
      /\ ptData \in [Items -> Text] /\ ptData' = [ptData EXCEPT ![recvItem] = new]
  BY Typed, Processes, SenderWrites, StagesType DEF SafeInv, ReceiveRead, Branch, Goto, sendVars, Items
<1>2. old \in Text /\ Answered(old) = Received
  BY <1>1, AnsweredNothing DEF At, Received
<1>3. Answered(new) = Answered(old) \cup Answered(line)
  BY <1>1, <1>2, AnsweredConcat
<1> HIDE DEF old, new
<1>4. Received' = Answered(new)
  BY <1>1 DEF Received
<1> QED
  BY <1>2, <1>3, <1>4

LEMMA DeliverQueues ==
  ASSUME SafeInv, OrderInv, ReceiveDeliver, UNCHANGED ptData
  PROVE  Waiting' = Waiting \cup Received /\ QueueInOrder'
<1> DEFINE q == ptQueue[FEEDBACK]
           r == ptQueue'[FEEDBACK]
<1>1. /\ pc[S] = "received" /\ q \in Seq(Items) /\ recvItem \in Items /\ ListsTypeOK
      /\ addItemToQueue(FEEDBACK, recvItem) /\ r = Append(q, recvItem)
  BY Typed, TwoQueues, SenderWrites, StagesType
  DEF SafeInv, ReceiveDeliver, At, addItemToQueue, ListsTypeOK, Items
<1>2. /\ Len(q) \in Nat /\ Len(r) = Len(q) + 1 /\ r[Len(q) + 1] = recvItem
      /\ \A i \in 1 .. Len(q) : r[i] = q[i]
  BY <1>1, AppendProperties, LenProperties
<1>3. ToSet(r) = ToSet(q) \cup {recvItem}
  BY <1>1, AppendElements
<1>4. Received = Answered(ptData[recvItem])
  BY <1>1 DEF Received
<1> HIDE DEF q, r
<1>5. Waiting' = Waiting \cup Received
  BY <1>3, <1>4 DEF Waiting, q, r
<1>6. ASSUME NEW i \in 1 .. Len(r), NEW j \in 1 .. Len(r), i < j
      PROVE  Before(Answered(ptData[r[i]]), Answered(ptData[r[j]]))
  <2>1. i \in 1 .. Len(q) /\ r[i] = q[i]
    BY <1>2, <1>6
  <2>2. CASE j \in 1 .. Len(q)
    BY <1>2, <1>6, <2>1, <2>2 DEF OrderInv, QueueInOrder, q
  <2>3. CASE j = Len(q) + 1
    <3>1. q[i] \in ToSet(q)
      BY <2>1, <1>1, Elements, TwoQueues DEF q
    <3>2. Answered(ptData[q[i]]) \subseteq Waiting
      BY <3>1 DEF Waiting, q
    <3>3. Before(Waiting, Received)
      BY DEF OrderInv, InChain, Chain, Before
    <3> QED
      BY <1>2, <1>4, <2>1, <2>3, <3>2, <3>3 DEF Before
  <2> QED
    BY <1>2, <2>2, <2>3
<1> QED
  BY <1>5, <1>6 DEF QueueInOrder, r

LEMMA SendThreadOrderInv ==
  SafeInv /\ SafeInv' /\ NumInv /\ OrderInv /\ SendThreadStep => OrderInv'
<1> SUFFICES ASSUME SafeInv, SafeInv', NumInv, OrderInv, SendThreadStep PROVE OrderInv'
  OBVIOUS
<1>0. /\ sendTMC200CmdsThreadFunc /\ pc \in [Process -> Labels] /\ ListsTypeOK
      /\ Stages \subseteq Nat /\ tried \in Nat /\ InChain /\ InOrder(reply)
      /\ UNCHANGED <<Handed, Held>>
  BY SenderLeaves, Typed, StagesType DEF SafeInv, SendThreadStep, OrderInv, Handed, Held, Untouched
<1>a. ASSUME UNCHANGED ptQueue[FEEDBACK]
      PROVE  UNCHANGED <<Handed, Held, Waiting>> /\ QueueInOrder'
  <2>1. \A item \in ToSet(ptQueue[FEEDBACK]) : ptData'[item] = ptData[item]
    BY SenderLeaves DEF Untouched
  <2> QED
    BY <1>0, <1>a, <2>1, QueueFrame DEF Waiting, OrderInv, SafeInv
<1>b. ASSUME UNCHANGED <<ptQueue[FEEDBACK], line, reply>>, tried <= tried', Received' \subseteq Received
      PROVE  OrderInv'
  BY <1>0, <1>a, <1>b, OrderFrame DEF OrderInv, SafeInv
<1> USE <1>0, Processes, TwoQueues DEF At, Branch, Goto, queueVars, listVars, dataVars, sendVars, deviceVars
<1>1. CASE SendTop \/ SendIdleAlive \/ SendRepeatAlive \/ SendPause \/ SendWait
  BY <1>1, <1>b DEF SendTop, SendIdleAlive, SendRepeatAlive, SendPause, SendWait, Received
<1>2. CASE SendRecycle \/ SendExitRecycle \/ ReceiveFresh \/ ReceiveDrop
  BY <1>2, <1>b, SamePending DEF SendRecycle, SendExitRecycle, ReceiveFresh, ReceiveDrop, Received
<1>3. CASE SendPop
  <2>1. ptQueue'[FEEDBACK] = ptQueue[FEEDBACK]
    BY <1>3, PopPending DEF SendPop
  <2> QED
    BY <1>3, <2>1, <1>b DEF SendPop, Received
<1>4. CASE SendSend
  BY <1>4, <1>b, SendIsLater DEF SendSend, Received
<1>5. CASE SendWrite
  <2>1. UNCHANGED ptQueue
    BY <1>5 DEF SendWrite
  <2> QED
    BY <1>5, <2>1, <1>a, WriteOrderInv
<1>6. CASE SendWriteTimeout \/ ReceiveTimeout \/ ReceiveErr \/ WakeCheck \/ Wake
  BY <1>6, <1>b DEF SendWriteTimeout, ReceiveTimeout, ReceiveErr, WakeCheck, Wake, Received
<1>7. CASE ReceiveRead
  <2>1. UNCHANGED <<ptQueue, reply, tried>> /\ line' = <<>>
    BY <1>7 DEF ReceiveRead, LineTaken
  <2>2. Chain(Handed, Held, Waiting, Received \cup Answered(line), {}, Answered(reply), tried)
    BY ChainMoves DEF InChain, Stages
  <2>3. Answered(line') = {} /\ Received' = Received \cup Answered(line)
    BY <1>7, <2>1, AnsweredNothing, ReadTakesLine
  <2>4. InChain'
    BY <2>1, <2>2, <2>3, <1>a DEF InChain
  <2> QED
    BY <2>1, <2>4, <1>a DEF OrderInv
<1>8. CASE ReceiveDeliver
  <2>1. UNCHANGED <<line, reply, tried, ptData>> /\ pc'[S] = "wakeCheck"
    BY <1>8 DEF ReceiveDeliver
  <2>2. Chain(Handed, Held, Waiting \cup Received, {}, Answered(line), Answered(reply), tried)
    BY ChainMoves DEF InChain, Stages
  <2>3. Received' = {} /\ Waiting' = Waiting \cup Received /\ QueueInOrder'
    BY <1>8, <2>1, DeliverQueues DEF Received
  <2>4. InChain'
    BY <2>1, <2>2, <2>3 DEF InChain
  <2> QED
    BY <2>1, <2>3, <2>4 DEF OrderInv
<1> QED
  BY <1>1, <1>2, <1>3, <1>4, <1>5, <1>6, <1>7, <1>8 DEF sendTMC200CmdsThreadFunc

LEMMA NextOrderInv ==
  SafeInv /\ SafeInv' /\ NumInv /\ OrderInv /\ [Next]_vars => OrderInv'
  BY MainOrderInv, DeviceOrderInv, FeedbackThreadOrderInv, SendThreadOrderInv DEF Next

(* Whatever the device does, with answers late, split or missing, and      *)
(* however the threads are scheduled, over any number of shutdowns and new *)
(* inits: the callback gets the answers in the order of the commands, and  *)
(* none to a command that has not been sent (sendtmc200cmdsthread.c,       *)
(* tmc200feedbackthread.c, queues.c).                                      *)
THEOREM AnswersInOrder == Spec => DeliveryInOrder
<1> DEFINE Ordered == delivered' # delivered =>
             \A n \in Answered(delivered') :
               /\ n <= tried
               /\ \A m \in Answered(delivered) : m <= n
<1>1. Init => SafeInv /\ NumInv /\ OrderInv
  BY InitSafeInv, InitNumInv, InitOrderInv
<1>2. SafeInv /\ NumInv /\ OrderInv /\ [Next]_vars => SafeInv' /\ NumInv' /\ OrderInv'
  BY NextSafeInv, NextNumInv, NextOrderInv
<1>3. SafeInv /\ OrderInv /\ [Next]_vars => [Ordered]_vars
  <2> SUFFICES ASSUME SafeInv, OrderInv, [Next]_vars, delivered' # delivered PROVE Ordered
    OBVIOUS
  <2>1. ~(MainStep \/ Call \/ UNCHANGED vars) /\ ~SendThreadStep
    BY MainAnswers, SenderLeaves DEF MainLeaves
  <2>2. ~DeviceStep
    BY DEF DeviceStep, feedbackVars
  <2>3. FbProcess
    BY <2>1, <2>2 DEF Next, FeedbackThreadStep, TMC200FeedBackThreadFunc, FbPop, FbHaveFunc, FbWaitFlag,
       FbPublish, FbBroadcast, FbGate, FbRecycle, FbSize, FbAlive, FbPause, FbWait, feedbackVars, threadVars
  <2>4. Answered(delivered') = Held
    BY <2>3 DEF FbProcess, At, Held, HandLabels
  <2> QED
    BY <2>4 DEF OrderInv, InChain, Chain, Before, Handed
<1> QED
  BY <1>1, <1>2, <1>3, PTL DEF Spec, DeliveryInOrder

-----------------------------------------------------------------------------
(* A device that answers, if at all, before the read times out: between    *)
(* two transmissions nothing is under way, and what is under way is one    *)
(* answer to the command last sent.  Then the library tags it with that    *)
(* command, and the tag stays with the text.                               *)
Prompt == "late" \notin Faults

OneUnderway ==
  /\ pc[S] \notin {"fresh", "read", "readMore"} => line = <<>> /\ reply = <<>>
  /\ \A i \in 1 .. Len(line) :
       line[i].of \in {0, tried} /\ (line[i].end => i = Len(line) /\ reply = <<>>)
  /\ OneAnswer(reply, tried)
  /\ Received \subseteq {tried}

Tagged(item) ==
  \A n \in Answered(ptData[item]) : n \in 1 .. Len(issued) /\ issued[n] = eCmd[item]
TagInv == \A item \in ToSet(ptQueue[FEEDBACK]) \cup DelivererHolds : Tagged(item)

LEMMA InitTagInv == Init => OneUnderway /\ TagInv
<1> SUFFICES ASSUME Init PROVE OneUnderway /\ TagInv
  OBVIOUS
<1>1. /\ line = <<>> /\ reply = <<>> /\ ptQueue[FEEDBACK] = <<>>
      /\ pc[S] = "unborn" /\ pc[F] = "unborn"
  BY Processes, TwoQueues DEF Init, QueuesInit, ThreadsInit, DeviceInit
<1>2. DelivererHolds = {} /\ Received = {} /\ ToSet(ptQueue[FEEDBACK]) = {}
  BY <1>1, EmptyElements DEF DelivererHolds, Received
<1> QED
  BY <1>1, <1>2 DEF OneUnderway, OneAnswer, TagInv

(* A step that adds no item to those on their way to the callback.         *)
LEMMA TagFrame ==
  ASSUME TagInv, Untouched(ToSet(ptQueue[FEEDBACK]) \cup DelivererHolds),
         ToSet(ptQueue'[FEEDBACK]) \cup DelivererHolds' \subseteq ToSet(ptQueue[FEEDBACK]) \cup DelivererHolds,
         \A n \in 1 .. Len(issued) : n \in 1 .. Len(issued') /\ issued'[n] = issued[n]
  PROVE  TagInv'
  BY DEF TagInv, Tagged, Untouched

(* A step while nothing is under way, or nothing of it changes.            *)
LEMMA QuietFrame ==
  ASSUME OneUnderway, UNCHANGED <<line, reply>>, Received' \subseteq Received,
         \/ line = <<>> /\ reply = <<>> /\ Received' = {}
         \/ UNCHANGED tried /\ pc'[S] = pc[S]
         \/ UNCHANGED tried /\ pc'[S] \in {"fresh", "read", "readMore"}
         \/ UNCHANGED tried /\ line = <<>> /\ reply = <<>>
  PROVE  OneUnderway'
  BY DEF OneUnderway, OneAnswer

LEMMA MainTagInv ==
  SafeInv /\ OneUnderway /\ TagInv /\ (MainStep \/ Call \/ UNCHANGED vars) => OneUnderway' /\ TagInv'
<1> SUFFICES ASSUME SafeInv, OneUnderway, TagInv, MainLeaves PROVE OneUnderway' /\ TagInv'
  BY MainAnswers
<1>1. /\ reply' = reply /\ recvItem' = recvItem
      /\ Untouched(ToSet(ptQueue[FEEDBACK]) \cup DelivererHolds \cup ReceiverHolds)
      /\ \A n \in 1 .. Len(issued) : n \in 1 .. Len(issued') /\ issued'[n] = issued[n]
  BY DEF MainLeaves
<1>2. line' = line
  BY DEF MainLeaves, OneUnderway, Gone
<1>3. OneUnderway'
  <2>1. pc[S] \in {"readMore", "received"} => ptData'[recvItem] = ptData[recvItem]
    BY <1>1, StagesType DEF SafeInv, Untouched
  <2>2. CASE UNCHANGED <<pc[S], tried>>
    <3>1. Received' = Received
      BY <1>1, <2>1, <2>2 DEF Received
    <3> QED
      BY <1>1, <1>2, <2>2, <3>1, QuietFrame
  <2>3. CASE Gone(S) /\ pc'[S] = "top"
    <3>1. Received' = {} /\ line = <<>> /\ reply = <<>>
      BY <2>3 DEF Received, OneUnderway, Gone
    <3> QED
      BY <1>1, <1>2, <3>1, QuietFrame
  <2> QED
    BY <2>2, <2>3 DEF MainLeaves
<1>4. ToSet(ptQueue'[FEEDBACK]) \cup DelivererHolds' \subseteq ToSet(ptQueue[FEEDBACK]) \cup DelivererHolds
  BY EmptyElements DEF MainLeaves, DelivererHolds, Gone
<1>5. Untouched(ToSet(ptQueue[FEEDBACK]) \cup DelivererHolds)
  BY <1>1 DEF Untouched
<1> QED
  BY <1>1, <1>3, <1>4, <1>5, TagFrame

LEMMA DeviceTagInv ==
  SafeInv /\ OneUnderway /\ TagInv /\ DeviceStep => OneUnderway' /\ TagInv'
<1> SUFFICES ASSUME SafeInv, OneUnderway, TagInv, DeviceStep PROVE OneUnderway' /\ TagInv'
  OBVIOUS
<1> DEFINE h == Head(reply)
           t == Tail(reply)
           l == Append(line, h)
<1>1. /\ reply # <<>> /\ line' = l /\ reply' = t
      /\ UNCHANGED <<fbItem, ptQueue, ptData, eCmd, pc, recvItem, tried, issued>>
  BY DEF DeviceStep, DeviceEmit, queueVars, listVars, dataVars, sendVars, feedbackVars, ioVars
<1>2. line \in Text /\ reply \in Text
  BY StagesType DEF SafeInv
<1>3. /\ t \in Text /\ Len(t) = Len(reply) - 1 /\ Len(reply) \in Nat \ {0}
      /\ \A i \in 1 .. Len(reply) - 1 : t[i] = reply[i + 1]
      /\ h = reply[1] /\ h \in Fragment
  BY <1>1, <1>2, EmptySeq, HeadTailProperties DEF Text
<1>4. /\ Len(l) = Len(line) + 1 /\ l[Len(line) + 1] = h /\ Len(line) \in Nat
      /\ \A i \in 1 .. Len(line) : l[i] = line[i]
  BY <1>2, <1>3, AppendProperties, LenProperties DEF Text
<1> HIDE DEF h, t, l
<1>5. OneAnswer(t, tried)
  <2>1. ASSUME NEW i \in 1 .. Len(t) PROVE t[i].of \in {0, tried} /\ (t[i].end => i = Len(t))
    <3>1. i + 1 \in 1 .. Len(reply) /\ t[i] = reply[i + 1]
      BY <1>3
    <3>2. reply[i + 1].of \in {0, tried} /\ (reply[i + 1].end => i + 1 = Len(reply))
      BY <3>1 DEF OneUnderway, OneAnswer
    <3> QED
      BY <1>3, <3>1, <3>2
  <2> QED
    BY <2>1 DEF OneAnswer
<1>6. h.of \in {0, tried} /\ (h.end => t = <<>>)
  <2>1. 1 \in 1 .. Len(reply)
    BY <1>3
  <2>2. h.of \in {0, tried} /\ (h.end => 1 = Len(reply))
    BY <1>3, <2>1 DEF OneUnderway, OneAnswer
  <2> QED
    BY <1>3, <2>2, EmptySeq DEF Text
<1>7. ASSUME NEW i \in 1 .. Len(l)
      PROVE  l[i].of \in {0, tried} /\ (l[i].end => i = Len(l) /\ t = <<>>)
  <2>1. CASE i \in 1 .. Len(line)
    BY <1>1, <1>4, <2>1 DEF OneUnderway
  <2>2. CASE i = Len(line) + 1
    BY <1>4, <1>6, <2>2
  <2> QED
    BY <1>4, <2>1, <2>2
<1>8. OneUnderway'
  BY <1>1, <1>5, <1>7 DEF OneUnderway, Received, OneAnswer
<1>9. TagInv'
  BY <1>1, TagFrame DEF TagInv, Tagged, DelivererHolds
<1> QED
  BY <1>8, <1>9

LEMMA FeedbackThreadTagInv ==
  SafeInv /\ OneUnderway /\ TagInv /\ FeedbackThreadStep => OneUnderway' /\ TagInv'
<1> SUFFICES ASSUME SafeInv, OneUnderway, TagInv, FeedbackThreadStep PROVE OneUnderway' /\ TagInv'
  OBVIOUS
<1>0. /\ TMC200FeedBackThreadFunc /\ UNCHANGED <<line, reply, recvItem, tried, pc[S], issued>>
      /\ pc \in [Process -> Labels] /\ ListsTypeOK
  BY FeedbackThreadFrame, Typed DEF SafeInv, FeedbackThreadStep, deviceVars, sendVars, ioVars
<1>1. UNCHANGED <<ptData, eCmd>>
  BY <1>0 DEF TMC200FeedBackThreadFunc, FbPop, FbHaveFunc, FbWaitFlag, FbPublish, FbBroadcast, FbGate,
     FbProcess, FbRecycle, FbSize, FbAlive, FbPause, FbWait, queueVars, dataVars
<1>2. OneUnderway'
  BY <1>0, <1>1, QuietFrame DEF Received
<1>3. ToSet(ptQueue'[FEEDBACK]) \cup DelivererHolds' \subseteq ToSet(ptQueue[FEEDBACK]) \cup DelivererHolds
  <2>1. CASE FbPop
    <3>1. /\ popItemFromQueue(FEEDBACK) /\ fbItem' = Popped(FEEDBACK)
          /\ pc'[F] = IF fbItem' # NULL THEN "haveFunc" ELSE "size"
      BY <1>0, <2>1, Processes DEF FbPop, Branch, Goto
    <3> QED
      BY <1>0, <3>1, TwoQueues, PopPending DEF DelivererHolds
  <2>2. CASE ~FbPop
    BY <1>0, <2>2, Processes, SamePending
    DEF TMC200FeedBackThreadFunc, FbHaveFunc, FbWaitFlag, FbPublish, FbBroadcast, FbGate, FbProcess, FbRecycle,
        FbSize, FbAlive, FbPause, FbWait, At, Branch, Goto, queueVars, listVars, feedbackVars, threadVars,
        DelivererHolds
  <2> QED
    BY <2>1, <2>2
<1> QED
  BY <1>0, <1>1, <1>2, <1>3, TagFrame DEF Untouched

LEMMA ReadOneAnswer ==
  ASSUME SafeInv, OneUnderway, ReceiveRead
  PROVE  OneUnderway'
<1>1. /\ line # <<>> /\ line' = <<>> /\ reply' = reply /\ tried' = tried
      /\ pc'[S] = IF Last(line).end THEN "received" ELSE "readMore"
      /\ line \in Text
  BY Typed, Processes, StagesType DEF SafeInv, ReceiveRead, LineTaken, Branch, Goto, sendVars
<1>2. Len(line) \in 1 .. Len(line) /\ DOMAIN line = 1 .. Len(line)
  BY <1>1, AnsweredType, EmptySeq DEF Text
<1>3. Last(line).end => reply = <<>>
  BY <1>2 DEF OneUnderway, Last
<1>4. Received' \subseteq {tried}
  <2>1. Answered(line) \subseteq {tried}
    BY <1>2 DEF OneUnderway, Answered
  <2> QED
    BY <2>1, ReadTakesLine DEF OneUnderway
<1>5. pc'[S] \notin {"fresh", "read", "readMore"} => reply' = <<>>
  BY <1>1, <1>3
<1>6. Len(line') = 0
  BY <1>1
<1> QED
  BY <1>1, <1>4, <1>5, <1>6 DEF OneUnderway, OneAnswer

LEMMA WriteOneAnswer ==
  ASSUME SafeInv, NumInv, OneUnderway, SendWrite
  PROVE  OneUnderway'
<1>1. UNCHANGED <<line, tried>> /\ pc[S] = "write" /\ pc'[S] = "fresh"
  BY Typed, Processes DEF SafeInv, SendWrite, DeviceAccept, sendVars, At, Goto
<1>2. line = <<>> /\ reply = <<>> /\ Received' = {}
  BY <1>1 DEF OneUnderway, Received
<1>3. PICK answer \in Text : OneAnswer(answer, tried) /\ reply' = reply \o answer
  BY WritesTried
<1>4. reply' = answer
  BY <1>2, <1>3, ConcatEmptySeq DEF Text
<1> QED
  BY <1>1, <1>2, <1>3, <1>4 DEF OneUnderway

LEMMA DeliverIsTagged ==
  ASSUME SafeInv, NumInv, OneUnderway, TagInv, ReceiveDeliver, UNCHANGED <<issued, pc[F], fbItem>>,
         Untouched(ToSet(ptQueue[FEEDBACK]) \cup DelivererHolds)
  PROVE  TagInv'
<1>1. /\ pc[S] = "received" /\ recvItem \in Items /\ ListsTypeOK /\ eCmd \in [Items -> Commands]
      /\ eCmd' = [eCmd EXCEPT ![recvItem] = eCmd[sendItem]] /\ ptData' = ptData
      /\ addItemToQueue(FEEDBACK, recvItem)
  BY Typed, SenderWrites DEF SafeInv, ReceiveDeliver, At, Items
<1>2. ToSet(ptQueue'[FEEDBACK]) = ToSet(ptQueue[FEEDBACK]) \cup {recvItem} /\ DelivererHolds' = DelivererHolds
  BY <1>1, TwoQueues, AddPending DEF DelivererHolds
<1>3. Fits(sendItem, tried)
  BY <1>1, SenderWrites DEF NumInv, TakenInOrder, Gone
<1>4. Answered(ptData[recvItem]) \subseteq {tried}
  BY <1>1 DEF OneUnderway, Received
<1>5. eCmd'[recvItem] = issued[tried] /\ tried \in 1 .. Len(issued)
  BY <1>1, <1>3 DEF Fits
<1> DEFINE TaggedNow(item) ==
      \A n \in Answered(ptData'[item]) : n \in 1 .. Len(issued') /\ issued'[n] = eCmd'[item]
<1>6. TaggedNow(recvItem)
  BY <1>1, <1>4, <1>5
<1>7. ASSUME NEW item \in ToSet(ptQueue[FEEDBACK]) \cup DelivererHolds PROVE TaggedNow(item)
  BY DEF TagInv, Tagged, Untouched
<1> QED
  BY <1>2, <1>6, <1>7 DEF TagInv, Tagged

LEMMA SendThreadTagInv ==
  Prompt /\ SafeInv /\ NumInv /\ OneUnderway /\ TagInv /\ SendThreadStep => OneUnderway' /\ TagInv'
<1> SUFFICES ASSUME Prompt, SafeInv, NumInv, OneUnderway, TagInv, SendThreadStep
             PROVE  OneUnderway' /\ TagInv'
  OBVIOUS
<1>0. /\ sendTMC200CmdsThreadFunc /\ pc \in [Process -> Labels] /\ ListsTypeOK
      /\ UNCHANGED <<issued, pc[F], fbItem>> /\ Untouched(ToSet(ptQueue[FEEDBACK]) \cup DelivererHolds)
  BY SenderLeaves, Typed DEF SafeInv, SendThreadStep
<1>a. ASSUME UNCHANGED ptQueue[FEEDBACK] PROVE TagInv'
  BY <1>0, <1>a, TagFrame DEF DelivererHolds
<1>b. ASSUME UNCHANGED <<ptQueue[FEEDBACK], line, reply>>, pc[S] \notin {"fresh", "read", "readMore"},
             Received' \subseteq Received, UNCHANGED tried \/ Received' = {}
      PROVE  OneUnderway' /\ TagInv'
  <2>1. line = <<>> /\ reply = <<>>
    BY <1>b DEF OneUnderway
  <2> QED
    BY <1>a, <1>b, <2>1, QuietFrame
<1> USE <1>0, Processes, TwoQueues DEF At, Branch, Goto, queueVars, listVars, dataVars, sendVars, deviceVars
<1>1. CASE SendTop \/ SendIdleAlive \/ SendRepeatAlive \/ SendPause \/ SendWait \/ SendSend
  BY <1>1, <1>b DEF SendTop, SendIdleAlive, SendRepeatAlive, SendPause, SendWait, SendSend, Received
<1>2. CASE SendRecycle \/ SendExitRecycle \/ ReceiveDrop
  BY <1>2, <1>b, SamePending DEF SendRecycle, SendExitRecycle, ReceiveDrop, Received
<1>3. CASE SendPop
  <2>1. ptQueue'[FEEDBACK] = ptQueue[FEEDBACK]
    BY <1>3, PopPending DEF SendPop
  <2> QED
    BY <1>3, <2>1, <1>b DEF SendPop, Received
<1>4. CASE SendWriteTimeout \/ ReceiveErr \/ WakeCheck \/ Wake
  BY <1>4, <1>b DEF SendWriteTimeout, ReceiveErr, WakeCheck, Wake, Received
<1>5. CASE SendWrite
  BY <1>5, <1>a, WriteOneAnswer DEF SendWrite
<1>6. CASE ReceiveFresh
  <2>1. UNCHANGED <<ptQueue, line, reply, tried>> /\ Received' = {} /\ pc'[S] = "read"
    BY <1>6, SamePending DEF ReceiveFresh, Received
  <2> QED
    BY <2>1, <1>a, QuietFrame
<1>7. CASE ReceiveRead
  BY <1>7, <1>a, ReadOneAnswer DEF ReceiveRead
<1>8. CASE ReceiveTimeout
  <2>1. /\ UNCHANGED <<ptQueue, line, reply, tried>> /\ Received' \subseteq Received
        /\ line = <<>> /\ reply = <<>>
    BY <1>8 DEF ReceiveTimeout, LineSilent, Prompt, Received
  <2> QED
    BY <2>1, <1>a, QuietFrame
<1>9. CASE ReceiveDeliver
  <2>1. UNCHANGED <<line, reply, tried>> /\ Received' = {} /\ pc[S] = "received"
    BY <1>9 DEF ReceiveDeliver, Received
  <2>2. OneUnderway'
    BY <2>1, QuietFrame DEF OneUnderway
  <2> QED
    BY <1>9, <2>2, DeliverIsTagged
<1> QED
  BY <1>1, <1>2, <1>3, <1>4, <1>5, <1>6, <1>7, <1>8, <1>9 DEF sendTMC200CmdsThreadFunc

(* As long as the device answers before the read times out, if it answers  *)
(* at all, the item that the feedback thread delivers carries the command  *)
(* that its text answers, through lost, split and "ERR " answers and any   *)
(* use of the API (receiveData, sendtmc200cmdsthread.c:121).               *)
THEOREM AnswersTagged == Prompt => (Spec => []AnswerTagMatches)
<1> SUFFICES ASSUME Prompt PROVE Spec => []AnswerTagMatches
  OBVIOUS
<1> DEFINE Inv == SafeInv /\ NumInv /\ OneUnderway /\ TagInv
<1>1. Init => Inv
  BY InitSafeInv, InitNumInv, InitTagInv
<1>2. Inv /\ [Next]_vars => Inv'
  BY NextSafeInv, NextNumInv, MainTagInv, DeviceTagInv, FeedbackThreadTagInv, SendThreadTagInv DEF Next
<1>3. Inv => AnswerTagMatches
  BY DEF TagInv, Tagged, AnswerTagMatches
<1> QED
  BY <1>1, <1>2, <1>3, PTL DEF Spec

-----------------------------------------------------------------------------
HasString == currentTMC200FBStr # NULL

(* Where a string must have been published: from the broadcast in the      *)
(* feedback thread, over the signal, to the copy in the caller.            *)
SignalInv ==
  /\ At(F, "broadcast") => HasString
  /\ fbAvailable = "signalled" => HasString
  /\ pc[Main] \in {"waitPause", "waitCopy"} /\ waitOk /\ ~spurious => HasString
  /\ At(Main, "waitCopy") => waitOk

(* The state before the first call.                                        *)
LEMMA InitSignal == Init => SignalInv
  BY Processes DEF Init, ThreadsInit, FeedbackInit, SignalInv, At

(* The send thread leaves all of that alone.                               *)
LEMMA SendThreadSignal == TypeInv /\ SignalInv /\ SendThreadStep => SignalInv'
<1> SUFFICES ASSUME TypeInv, SignalInv, SendThreadStep PROVE SignalInv'
  OBVIOUS
<1>1. pc'[Main] = pc[Main] /\ pc'[F] = pc[F]
  BY SendThreadFrame
<1>2. UNCHANGED <<currentTMC200FBStr, fbAvailable, waitOk, spurious>>
  BY DEF SendThreadStep, feedbackVars
<1> QED
  BY <1>1, <1>2 DEF SignalInv, HasString, At

(* The feedback thread publishes its item before it signals.               *)
LEMMA FeedbackThreadSignal == TypeInv /\ SignalInv /\ FeedbackThreadStep => SignalInv'
<1> SUFFICES ASSUME TypeInv, SignalInv, TMC200FeedBackThreadFunc PROVE SignalInv'
  BY DEF FeedbackThreadStep
<1>0. pc \in [Process -> Labels]
  BY DEF TypeInv, TypeOK, ThreadsTypeOK
<1> USE <1>0, Processes DEF SignalInv, HasString, At, Branch, Goto, feedbackVars, waiterVars, threadVars
<1>1. CASE FbPublish
  <2>1. fbItem # NULL
    BY <1>1 DEF FbPublish, TypeInv, ItemInHand, DeliverLabels
  <2> QED
    BY <1>1, <2>1 DEF FbPublish
<1>2. CASE FbBroadcast
  BY <1>2 DEF FbBroadcast
<1>3. CASE FbPop \/ FbHaveFunc \/ FbWaitFlag \/ FbGate \/ FbProcess
  BY <1>3 DEF FbPop, FbHaveFunc, FbWaitFlag, FbGate, FbProcess
<1>4. CASE FbRecycle \/ FbSize \/ FbAlive \/ FbPause \/ FbWait
  BY <1>4 DEF FbRecycle, FbSize, FbAlive, FbPause, FbWait
<1> QED
  BY <1>1, <1>2, <1>3, <1>4 DEF TMC200FeedBackThreadFunc

(* A caller takes the result of its wait for the string's presence.        *)
LEMMA WaitSignal == TypeInv /\ SignalInv /\ WaitStep => SignalInv'
<1> SUFFICES ASSUME TypeInv, SignalInv, tmc200ctrl_io_waitForTMC200Feedback PROVE SignalInv'
  BY DEF WaitStep
<1>0. pc \in [Process -> Labels]
  BY DEF TypeInv, TypeOK, ThreadsTypeOK
<1> USE <1>0, Processes DEF SignalInv, HasString, At, Branch, Goto, feedbackVars, waiterVars, threadVars
<1>1. CASE WaitLock \/ WaitInvalid
  BY <1>1 DEF WaitLock, WaitInvalid
<1>2. CASE WaitSignalled \/ WaitTimeout \/ WaitSpurious
  BY <1>2 DEF WaitSignalled, WaitTimeout, WaitSpurious, WaitReturn
<1>3. CASE WaitPause \/ WaitCopy \/ WaitClear \/ WaitResume
  BY <1>3 DEF WaitPause, WaitCopy, WaitClear, WaitResume
<1> QED
  BY <1>1, <1>2, <1>3 DEF tmc200ctrl_io_waitForTMC200Feedback

(* The other calls do not touch the wait.                                  *)
LEMMA MainSignal == TypeInv /\ SignalInv /\ (MainStep \/ Call) => SignalInv'
<1> SUFFICES ASSUME TypeInv, SignalInv, MainStep \/ Call PROVE SignalInv'
  OBVIOUS
<1>0. pc \in [Process -> Labels]
  BY DEF TypeInv, TypeOK, ThreadsTypeOK
<1> USE <1>0, Processes DEF SignalInv, HasString, At, Branch, Goto, feedbackVars, waiterVars, threadVars
<1>1. CASE InitSend \/ InitSendFails \/ InitFeedback \/ InitFeedbackFails
  BY <1>1 DEF InitSend, InitSendFails, InitFeedback, InitFeedbackFails
<1>2. CASE CmdFresh \/ CmdAdd \/ CmdCheck \/ CmdResume
  BY <1>2 DEF CmdFresh, CmdAdd, CmdCheck, CmdResume
<1>3. CASE Stop \/ StopPaused \/ StopResume \/ Join
  BY <1>3 DEF Stop, StopPaused, StopResume, Join, StopReturn
<1>4. CASE CleanFeedback \/ CleanSendCmds \/ closeFd
  BY <1>4 DEF CleanFeedback, CleanSendCmds, closeFd
<1>5. CASE WaitStep
  BY <1>5, WaitSignal
<1>6. CASE Call
  BY <1>6 DEF Call, InitCall, SetCmdCall, ShutdownCall, RepeatCall, CallbackCall,
     WaitForFeedbackCall, WaitCall, tmc200ctrl_io_setTMC200FeedbackProcessingFunction
<1> QED
  BY <1>1, <1>2, <1>3, <1>4, <1>5, <1>6 DEF MainStep

(* The device, and a step in which nothing happens.                        *)
LEMMA OtherSignal == SignalInv /\ (DeviceStep \/ UNCHANGED vars) => SignalInv'
  BY DEF DeviceStep, vars, SignalInv, HasString, At, feedbackVars

(* Whatever goes wrong around the library, a wait that was signalled has a *)
(* string to copy, although the pointer is written by another thread       *)
(* without the mutex, and kept from earlier waits, failed waits and        *)
(* shutdowns (tmc200feedbackthread.c:35-81, 100-114).                      *)
THEOREM CopySafe == Spec => []CopyHasString
<1>1. Init => TypeInv /\ SignalInv
  BY InitTypeInv, InitSignal
<1>2. TypeInv /\ SignalInv /\ [Next]_vars => (TypeInv /\ SignalInv)'
  BY NextTypeInv, SendThreadSignal, FeedbackThreadSignal, MainSignal, OtherSignal DEF Next
<1>3. SignalInv => CopyHasString
  BY DEF SignalInv, CopyHasString, HasString, At
<1> QED
  BY <1>1, <1>2, <1>3, PTL DEF Spec

-----------------------------------------------------------------------------
(* The string that has been promised to a caller, by the signal it has not *)
(* yet seen or by the result of its wait.                                  *)
WaitLabels == {"waitLock", "waitBlocked", "waitPause", "waitCopy", "waitClear"}
Promised ==
  \/ fbAvailable = "signalled"
  \/ waitOk /\ ~spurious /\ pc[Main] \in {"waitPause", "waitCopy"}

(* A text that answers nothing, or a command not before any that the       *)
(* callback has had an answer to.                                          *)
NotOlder(answered) == answered = {} \/ \A m \in Handed : \E n \in answered : m <= n
Fresh == NotOlder(Answered(ptData[currentTMC200FBStr]))

(* The promise is kept while the item goes on: from the signal on, the     *)
(* thread hands no other item to the callback without publishing it        *)
(* first, for the caller's flag stays set until it has copied; and an item *)
(* that is recycled is only written again with later answers.              *)
FreshInv ==
  /\ currentTMC200FBStr \in FeedbackBlocks \cup {NULL}
  /\ pc[Main] \in WaitLabels => waitForTMC200FBCalled
  /\ fbAvailable # "none" => At(Main, "waitBlocked")
  /\ At(F, "broadcast") => currentTMC200FBStr = fbItem
  /\ Promised => Fresh /\ (pc[F] \in {"gate", "process"} => currentTMC200FBStr = fbItem)

LEMMA InitFreshInv == Init => FreshInv
  BY Processes DEF Init, ThreadsInit, FeedbackInit, FreshInv, Promised, WaitLabels, At

(* The answers that come later than what the callback has had.             *)
LEMMA LaterIsFresh ==
  ASSUME OrderInv
  PROVE  NotOlder(Held) /\ NotOlder(Received)
  BY DEF OrderInv, InChain, Chain, Before, NotOlder

LEMMA SendThreadFresh ==
  SafeInv /\ SafeInv' /\ OrderInv' /\ SignalInv /\ FreshInv /\ SendThreadStep => FreshInv'
<1> SUFFICES ASSUME SafeInv, SafeInv', OrderInv', SignalInv, FreshInv, SendThreadStep PROVE FreshInv'
  OBVIOUS
<1>1. /\ UNCHANGED <<currentTMC200FBStr, waitForTMC200FBCalled, fbAvailable,
                     waitOk, spurious, fbItem, delivered>>
      /\ pc'[Main] = pc[Main] /\ pc'[F] = pc[F]
  BY SendThreadFrame DEF SafeInv, SendThreadStep, feedbackVars
<1>2. Promised' = Promised
  BY <1>1 DEF Promised
<1>3. ASSUME Promised PROVE Fresh'
  <2>1. currentTMC200FBStr \in Items
    BY <1>3 DEF SignalInv, HasString, Promised, FreshInv, Items
  <2>2. CASE ReceiveRead /\ recvItem = currentTMC200FBStr
    <3>1. pc'[S] \in {"readMore", "received"} /\ recvItem' = recvItem
      BY <2>2, Typed, Processes DEF SafeInv, ReceiveRead, Branch, Goto, sendVars
    <3>2. Answered(ptData'[currentTMC200FBStr']) = Received'
      BY <1>1, <2>2, <3>1 DEF Received
    <3>3. NotOlder(Received)'
      BY LaterIsFresh DEF OrderInv, InChain, Chain, Before, NotOlder
    <3> QED
      BY <3>2, <3>3 DEF Fresh, NotOlder
  <2>3. CASE ~ReceiveRead \/ recvItem # currentTMC200FBStr
    <3>1. ptData'[currentTMC200FBStr] = ptData[currentTMC200FBStr]
      <4>1. CASE ReceiveRead
        BY <2>1, <2>3, <4>1, SenderWrites
      <4>2. CASE ~ReceiveRead
        BY <4>2 DEF SendThreadStep, sendTMC200CmdsThreadFunc, SendTop, SendRecycle, SendPop, SendIdleAlive,
           SendRepeatAlive, SendExitRecycle, SendSend, SendPause, SendWait, SendWrite, SendWriteTimeout,
           ReceiveFresh, ReceiveTimeout, ReceiveDrop, ReceiveErr, ReceiveDeliver, WakeCheck, Wake,
           queueVars, dataVars
      <4> QED
        BY <4>1, <4>2
    <3> QED
      BY <1>1, <1>3, <3>1 DEF FreshInv, Fresh, NotOlder, Handed
  <2> QED
    BY <2>2, <2>3
<1> QED
  BY <1>1, <1>2, <1>3 DEF FreshInv, At

(* An item that the feedback thread holds is a block for answers.          *)
LEMMA HeldBlock ==
  ASSUME SafeInv, pc[F] \in HandLabels
  PROVE  fbItem \in FeedbackBlocks
<1>1. fbItem \in DelivererHolds
  BY StagesType DEF SafeInv
<1>2. InService
  BY DEF HandLabels, SafeInv, OwnInv, OutOfService, LifeInv, LifeDown, CleanLabels, BothExited, Gone, At,
     InService
<1> QED
  BY <1>1, <1>2, Apart

LEMMA FeedbackThreadFresh ==
  SafeInv /\ OrderInv /\ FreshInv /\ FeedbackThreadStep => FreshInv'
<1> SUFFICES ASSUME SafeInv, OrderInv, FreshInv, FeedbackThreadStep PROVE FreshInv'
  OBVIOUS
<1>0. /\ TMC200FeedBackThreadFunc /\ pc'[Main] = pc[Main] /\ pc \in [Process -> Labels]
      /\ UNCHANGED <<waitForTMC200FBCalled, waitOk, spurious>>
  BY FeedbackThreadFrame, Typed
  DEF SafeInv, FeedbackThreadStep, TMC200FeedBackThreadFunc, FbPop, FbHaveFunc, FbWaitFlag, FbPublish,
      FbBroadcast, FbGate, FbProcess, FbRecycle, FbSize, FbAlive, FbPause, FbWait, feedbackVars, waiterVars
<1>1. ptData' = ptData
  BY <1>0 DEF TMC200FeedBackThreadFunc, FbPop, FbHaveFunc, FbWaitFlag, FbPublish, FbBroadcast, FbGate,
     FbProcess, FbRecycle, FbSize, FbAlive, FbPause, FbWait, queueVars, dataVars
<1>2. Promised => waitForTMC200FBCalled
  BY DEF FreshInv, Promised, WaitLabels, At
<1> USE <1>0, <1>1, Processes DEF At, Branch, Goto, feedbackVars, threadVars, waiterVars
<1>3. CASE FbPublish
  <2>1. pc[F] = "publish" /\ pc'[F] = "broadcast" /\ currentTMC200FBStr' = fbItem
        /\ UNCHANGED <<fbItem, delivered, fbAvailable>>
    BY <1>3 DEF FbPublish
  <2>2. fbItem \in FeedbackBlocks /\ Held = Answered(ptData[fbItem])
    BY <2>1, HeldBlock DEF HandLabels, Held
  <2>3. Fresh'
    BY <2>1, <2>2, LaterIsFresh DEF Fresh, NotOlder, Handed
  <2> QED
    BY <2>1, <2>2, <2>3 DEF FreshInv, Promised
<1>4. CASE FbBroadcast
  <2>1. /\ pc[F] = "broadcast" /\ pc'[F] = "gate" /\ currentTMC200FBStr = fbItem
        /\ UNCHANGED <<fbItem, delivered, currentTMC200FBStr>>
        /\ fbAvailable' # "none" => fbAvailable # "none"
    BY <1>4 DEF FbBroadcast, FreshInv
  <2>2. Held = Answered(ptData[fbItem])
    BY <2>1 DEF HandLabels, Held
  <2>3. Fresh'
    BY <2>1, <2>2, LaterIsFresh DEF Fresh, NotOlder, Handed
  <2> QED
    BY <2>1, <2>3 DEF FreshInv
<1>5. CASE FbProcess
  <2>1. /\ pc[F] = "process" /\ pc'[F] = "recycle" /\ UNCHANGED <<fbItem, currentTMC200FBStr, fbAvailable>>
        /\ delivered' \in {delivered, ptData[fbItem]}
    BY <1>5 DEF FbProcess
  <2>2. Promised' = Promised
    BY <2>1 DEF Promised
  <2>3. ASSUME Promised PROVE Fresh'
    <3>1. CASE delivered' = delivered
      BY <2>1, <2>3, <3>1 DEF FreshInv, Fresh, NotOlder, Handed
    <3>2. CASE delivered' = ptData[fbItem]
      <4>1. currentTMC200FBStr = fbItem
        BY <2>1, <2>3 DEF FreshInv
      <4>2. Handed' \subseteq Nat
        BY <2>1, <3>2, StagesType DEF Handed, Held, HandLabels, Stages, SafeInv
      <4> QED
        BY <2>1, <3>2, <4>1, <4>2 DEF Fresh, NotOlder, Handed
    <3> QED
      BY <2>1, <3>1, <3>2
  <2> QED
    BY <2>1, <2>2, <2>3 DEF FreshInv
<1>6. CASE ~FbPublish /\ ~FbBroadcast /\ ~FbProcess
  <2>1. /\ UNCHANGED <<currentTMC200FBStr, fbAvailable, delivered>>
        /\ pc'[F] \notin {"broadcast", "gate"}
        /\ pc'[F] = "process" => \/ pc[F] = "gate" /\ fbItem' = fbItem
                                 \/ ~waitForTMC200FBCalled
    BY <1>6 DEF TMC200FeedBackThreadFunc, FbPop, FbHaveFunc, FbWaitFlag, FbGate, FbRecycle, FbSize, FbAlive,
       FbPause, FbWait
  <2>2. Promised' = Promised
    BY <2>1 DEF Promised
  <2>3. Fresh' = Fresh
    BY <2>1 DEF Fresh, NotOlder, Handed
  <2> QED
    BY <2>1, <2>2, <2>3, <1>2 DEF FreshInv
<1> QED
  BY <1>3, <1>4, <1>5, <1>6

(* The caller sets its flag first, and is promised what is signalled.      *)
LEMMA WaitFresh ==
  SafeInv /\ FreshInv /\ (WaitStep \/ WaitForFeedbackCall) => FreshInv'
<1> SUFFICES ASSUME SafeInv, FreshInv, WaitStep \/ WaitForFeedbackCall PROVE FreshInv'
  OBVIOUS
<1>0. pc \in [Process -> Labels]
  BY Typed DEF SafeInv
<1>1. UNCHANGED <<currentTMC200FBStr, delivered, ptData, fbItem>> /\ pc'[F] = pc[F] /\ Fresh' = Fresh
  <2>1. UNCHANGED <<currentTMC200FBStr, delivered, ptData, fbItem>>
    BY DEF WaitStep, tmc200ctrl_io_waitForTMC200Feedback, WaitLock, WaitInvalid, WaitSignalled, WaitTimeout,
       WaitSpurious, WaitReturn, WaitPause, WaitCopy, WaitClear, WaitResume, threadVars, feedbackVars, queueVars,
       dataVars, WaitForFeedbackCall, WaitCall
  <2>2. pc'[F] = pc[F]
    <3>1. CASE WaitForFeedbackCall
      BY <1>0, <3>1, Processes DEF WaitForFeedbackCall, WaitCall, Goto
    <3>2. CASE WaitLock \/ WaitInvalid \/ WaitSignalled \/ WaitTimeout \/ WaitSpurious
      BY <1>0, <3>2, Processes
      DEF WaitLock, WaitInvalid, WaitSignalled, WaitTimeout, WaitSpurious, WaitReturn, Goto
    <3>3. CASE WaitPause
      BY <1>0, <3>3, Processes DEF WaitPause, Branch, Goto
    <3>4. CASE WaitCopy \/ WaitClear \/ WaitResume
      BY <1>0, <3>4, Processes DEF WaitCopy, WaitClear, WaitResume, Goto
    <3> QED
      BY <3>1, <3>2, <3>3, <3>4 DEF WaitStep, tmc200ctrl_io_waitForTMC200Feedback
  <2> QED
    BY <2>1, <2>2 DEF Fresh, NotOlder, Handed
<1> USE <1>0, <1>1, Processes DEF FreshInv, At, Branch, Goto, WaitLabels, Promised
<1>2. CASE WaitForFeedbackCall
  BY <1>2 DEF WaitForFeedbackCall, WaitCall
<1>3. CASE WaitLock \/ WaitInvalid
  BY <1>3 DEF WaitLock, WaitInvalid
<1>4. CASE WaitSignalled \/ WaitTimeout \/ WaitSpurious
  BY <1>4 DEF WaitSignalled, WaitTimeout, WaitSpurious, WaitReturn
<1>5. CASE WaitPause
  BY <1>5 DEF WaitPause
<1>6. CASE WaitCopy
  BY <1>6 DEF WaitCopy
<1>7. CASE WaitClear
  BY <1>7 DEF WaitClear
<1>8. CASE WaitResume
  BY <1>8 DEF WaitResume, feedbackVars, waiterVars
<1> QED
  BY <1>2, <1>3, <1>4, <1>5, <1>6, <1>7, <1>8 DEF WaitStep, tmc200ctrl_io_waitForTMC200Feedback

(* No other call is made while a caller waits.                             *)
LEMMA OtherFresh ==
  SafeInv /\ FreshInv /\ (MainStep \/ Call \/ DeviceStep \/ UNCHANGED vars)
    /\ ~WaitStep /\ ~WaitForFeedbackCall => FreshInv'
<1> SUFFICES ASSUME SafeInv, FreshInv, MainStep \/ Call \/ DeviceStep \/ UNCHANGED vars, ~WaitStep,
                    ~WaitForFeedbackCall
             PROVE  FreshInv'
  OBVIOUS
<1>0. pc \in [Process -> Labels] /\ victim \in Thread
  BY Typed DEF SafeInv, TypeInv, TypeOK, IoTypeOK
<1>1. CASE DeviceStep \/ UNCHANGED vars
  BY <1>1 DEF DeviceStep, vars, FreshInv, Promised, Fresh, NotOlder, Handed, At, feedbackVars, queueVars, dataVars
<1>2. CASE MainStep \/ Call
  <2>1. /\ UNCHANGED <<currentTMC200FBStr, waitForTMC200FBCalled, fbAvailable, waitOk, spurious>>
        /\ pc[Main] \notin WaitLabels /\ pc'[Main] \notin WaitLabels
        /\ pc'[F] # "broadcast" \/ (pc'[F] = pc[F] /\ fbItem' = fbItem)
    BY <1>0, <1>2, Processes
    DEF MainStep, Call, InitSend, InitSendFails, InitFeedback, InitFeedbackFails, CmdFresh, CmdAdd, CmdCheck,
        CmdResume, Stop, StopPaused, StopResume, Join, StopReturn, CleanFeedback, CleanSendCmds, closeFd,
        InitCall, SetCmdCall, ShutdownCall, RepeatCall, CallbackCall, WaitLabels, feedbackVars, waiterVars,
        threadVars, At, Branch, Goto, tmc200ctrl_io_setTMC200FeedbackProcessingFunction
  <2> QED
    BY <2>1 DEF FreshInv, Promised, At, WaitLabels
<1> QED
  BY <1>1, <1>2

(* Whatever goes wrong around the library, a caller of                     *)
(* waitForTMC200Feedback whose wait was signalled is never given an older  *)
(* answer than the callback has had, although nothing keeps the feedback   *)
(* thread from passing the gate before the caller closes it, and from      *)
(* recycling the item before the caller copies it                          *)
(* (tmc200feedbackthread.c:35-81, 100-114).                                *)
THEOREM WaitFreshAnswer == Spec => WaitNotStale
<1> DEFINE Inv == SafeInv /\ NumInv /\ OrderInv /\ SignalInv /\ FreshInv
           NotStale == pcRetStr' # pcRetStr /\ ~spurious /\ Answered(pcRetStr'.text) # {} =>
             \A m \in Answered(delivered) : \E n \in Answered(pcRetStr'.text) : m <= n
<1>1. Init => Inv
  BY InitSafeInv, InitNumInv, InitOrderInv, InitSignal, InitFreshInv
<1>2. Inv /\ [Next]_vars => SafeInv' /\ NumInv' /\ OrderInv'
  BY NextSafeInv, NextNumInv, NextOrderInv
<1>3. Inv /\ [Next]_vars => SignalInv'
  BY SendThreadSignal, FeedbackThreadSignal, MainSignal, OtherSignal DEF Next, SafeInv
<1>4. Inv /\ [Next]_vars => FreshInv'
  BY <1>2, SendThreadFresh, FeedbackThreadFresh, WaitFresh, OtherFresh DEF Next
<1>5. Inv /\ [Next]_vars => [NotStale]_vars
  <2> SUFFICES ASSUME Inv, [Next]_vars, pcRetStr' # pcRetStr, Answered(pcRetStr'.text) # {} PROVE NotStale
    OBVIOUS
  <2>1. CASE WaitCopy
    <3>1. (~spurious => Promised) /\ pcRetStr'.text = ptData[currentTMC200FBStr]
      BY <2>1 DEF WaitCopy, Promised, SignalInv, At, String
    <3> QED
      BY <3>1 DEF FreshInv, Fresh, NotOlder, Handed
  <2>2. CASE WaitPause
    BY <2>2, AnsweredNothing DEF WaitPause, NoString
  <2>3. CASE ~WaitCopy /\ ~WaitPause
    BY <2>3 DEF Next, Call, MainStep, WaitStep, SendThreadStep, FeedbackThreadStep, DeviceStep, vars,
       InitSend, InitSendFails, InitFeedback, InitFeedbackFails, CmdFresh, CmdAdd, CmdCheck,
       CmdResume, Stop, StopPaused, StopResume, Join, CleanFeedback, CleanSendCmds, closeFd,
       InitCall, SetCmdCall, ShutdownCall, RepeatCall, CallbackCall, WaitForFeedbackCall, WaitCall,
       tmc200ctrl_io_setTMC200FeedbackProcessingFunction,
       tmc200ctrl_io_waitForTMC200Feedback, WaitLock, WaitInvalid, WaitSignalled,
       WaitTimeout, WaitSpurious, WaitReturn, WaitClear, WaitResume,
       TMC200FeedBackThreadFunc, FbPop, FbHaveFunc, FbWaitFlag, FbPublish, FbBroadcast, FbGate,
       FbProcess, FbRecycle, FbSize, FbAlive, FbPause, FbWait, feedbackVars, waiterVars, threadVars
  <2> QED
    BY <2>1, <2>2, <2>3
<1> QED
  BY <1>1, <1>2, <1>3, <1>4, <1>5, PTL DEF Spec, WaitNotStale

=============================================================================
