--------------------------- MODULE PartsProofs ----------------------------
(***************************************************************************)
(* Theorems about two parts of libtmc200ctrl_io that share nothing: the    *)
(* gate of a thread, and receiveData.                                      *)
(***************************************************************************)
EXTENDS Gate, ReceiveData, SequenceLemmas

-----------------------------------------------------------------------------
(***************************************************************************)
(* The gate of a library thread, lock by lock, is the atomic gate of       *)
(* ThreadsCommon and loses no wake-up, for any number of threads that look *)
(* after the worker.                                                       *)
(***************************************************************************)
GateSpec == GateInit /\ [][GateStep]_gateVars

WorkerLabels ==
  {"work", "pause", "set", "unlock", "unlockThread", "check", "test", "wait", "asleep", "pass"}
CallerLabels ==
  {"look", "read", "notPaused", "paused", "pause", "set", "resume", "resuming", "clear", "broadcast",
   "unlock", "unlockThread"}

(* Where a thread holds tThreadMutex, and where tWakeUpThreadMutex.        *)
ThreadHeld ==
  {"pause", "set", "unlock", "unlockThread", "read", "notPaused", "paused", "resuming", "clear",
   "broadcast"}
WakeUpHeld == {"set", "clear", "broadcast", "unlock", "test", "wait", "pass"}

StepsType ==
  /\ isPaused \in BOOLEAN /\ asleep \in BOOLEAN
  /\ step \in [Threads -> WorkerLabels \cup CallerLabels]
  /\ step[Worker] \in WorkerLabels
  /\ \A c \in Callers : step[c] \in CallerLabels

(* Each mutex has the owner that is where it is held.                      *)
Owners ==
  \A t \in Threads :
    /\ tThreadMutex = t <=> step[t] \in ThreadHeld
    /\ tWakeUpThreadMutex = t <=> step[t] \in WakeUpHeld

(* What the worker has read of the flag holds until it waits, because it   *)
(* has the mutex; and only a waiting worker is asleep.                     *)
Waiting ==
  /\ step[Worker] = "wait" => isPaused
  /\ asleep => step[Worker] = "asleep"

GateInv == StepsType /\ Owners /\ Waiting /\ NoWakeUpLost

LEMMA InitGateInv == GateInit => GateInv
  BY ThreadsAssumption
  DEF GateInit, GateInv, StepsType, Owners, Waiting, NoWakeUpLost, Threads, WorkerLabels, CallerLabels,
      ThreadHeld, WakeUpHeld

(* A step of one thread moves it alone.                                    *)
LEMMA Moves ==
  ASSUME StepsType, NEW t \in Threads, NEW from, NEW to, Move(t, from, to)
  PROVE  /\ step[t] = from /\ step'[t] = to
         /\ \A u \in Threads \ {t} : step'[u] = step[u]
         /\ step' = [step EXCEPT ![t] = to]
  BY DEF Move, StepsType

LEMMA StepsTyped == StepsType /\ GateStep => StepsType'
<1> SUFFICES ASSUME StepsType, GateStep PROVE StepsType'
  OBVIOUS
<1>1. CASE SpuriousWakeUp
  BY <1>1 DEF SpuriousWakeUp, StepsType
<1>2. ASSUME NEW t \in Threads, ThreadStep(t)
      PROVE  StepsType'
  <2> DEFINE Labels(u) == IF u = Worker THEN WorkerLabels ELSE CallerLabels
  <2>1. /\ isPaused' \in BOOLEAN /\ asleep' \in BOOLEAN
    BY <1>2 DEF ThreadStep, LockThread, LockWakeUp, UnlockWakeUp, UnlockThread, SetPaused, Test, Sleep, WakeUp,
       ReadPaused, ClearPaused, Broadcast, StepsType
  <2>2. step[t] \in Labels(t)
    BY ThreadsAssumption DEF Threads, StepsType
  <2>3. \E to \in Labels(t) : step' = [step EXCEPT ![t] = to]
    <3>1. CASE t = Worker
      BY <1>2, <2>2, <3>1, ThreadsAssumption
      DEF ThreadStep, LockThread, LockWakeUp, UnlockWakeUp, UnlockThread, SetPaused, Test, Sleep, WakeUp, Move,
          WorkerLabels
    <3>2. CASE t # Worker
      BY <1>2, <2>2, <3>2
      DEF ThreadStep, LockThread, LockWakeUp, UnlockWakeUp, UnlockThread, SetPaused, ReadPaused, ClearPaused,
          Broadcast, Move, CallerLabels
    <3> QED
      BY <3>1, <3>2
  <2> QED
    BY <2>1, <2>3, ThreadsAssumption DEF StepsType, Threads
<1> QED
  BY <1>1, <1>2 DEF GateStep

(* A mutex changes hands only through Nobody.                              *)
LEMMA OwnersKept == StepsType /\ Owners /\ GateStep => Owners'
<1> SUFFICES ASSUME StepsType, Owners, GateStep PROVE Owners'
  OBVIOUS
<1> USE ThreadsAssumption DEF Owners, mutexVars, ThreadHeld, WakeUpHeld
<1>1. CASE SpuriousWakeUp
  BY <1>1 DEF SpuriousWakeUp
<1>2. ASSUME NEW t \in Threads, LockThread(t)
      PROVE  Owners'
  BY <1>2, Moves DEF LockThread
<1>3. ASSUME NEW t \in Threads, LockWakeUp(t)
      PROVE  Owners'
  BY <1>3, Moves DEF LockWakeUp
<1>4. ASSUME NEW t \in Threads, UnlockWakeUp(t)
      PROVE  Owners'
  BY <1>4, Moves DEF UnlockWakeUp
<1>5. ASSUME NEW t \in Threads, UnlockThread(t)
      PROVE  Owners'
  BY <1>5, Moves DEF UnlockThread
<1>6. ASSUME Test \/ Sleep \/ WakeUp
      PROVE  Owners'
  <2>1. Worker \in Threads
    BY DEF Threads
  <2>3. CASE Test
    BY <2>1, <2>3, Moves DEF Test
  <2>4. CASE Sleep
    BY <2>1, <2>4, Moves DEF Sleep
  <2>5. CASE WakeUp
    BY <2>1, <2>5, Moves DEF WakeUp
  <2> QED
    BY <1>6, <2>3, <2>4, <2>5
<1>7. ASSUME NEW c \in Callers, ReadPaused(c) \/ ClearPaused(c) \/ Broadcast(c)
      PROVE  Owners'
  <2>1. c \in Threads
    BY DEF Threads
  <2>2. CASE ReadPaused(c)
    BY <2>1, <2>2, Moves DEF ReadPaused
  <2>3. CASE ClearPaused(c)
    BY <2>1, <2>3, Moves DEF ClearPaused
  <2>4. CASE Broadcast(c)
    BY <2>1, <2>4, Moves DEF Broadcast
  <2> QED
    BY <1>7, <2>2, <2>3, <2>4
<1>8. ASSUME NEW t \in Threads, SetPaused(t)
      PROVE  Owners'
  BY <1>8, Moves DEF SetPaused
<1> QED
  BY <1>1, <1>2, <1>3, <1>4, <1>5, <1>6, <1>7, <1>8 DEF GateStep, ThreadStep

(* The flag is cleared only by a caller that holds the mutex under which   *)
(* the worker reads it and begins to wait; it broadcasts before it gives   *)
(* the mutex up.                                                           *)
LEMMA WakeUpKept == GateInv /\ GateStep => (Waiting /\ NoWakeUpLost)'
<1> SUFFICES ASSUME GateInv, GateStep PROVE (Waiting /\ NoWakeUpLost)'
  OBVIOUS
<1> USE ThreadsAssumption DEF GateInv, Waiting, NoWakeUpLost
<1>0. Worker \in Threads /\ Callers \subseteq Threads
  BY DEF Threads
<1>1. CASE SpuriousWakeUp
  BY <1>1 DEF SpuriousWakeUp
<1>2. ASSUME NEW t \in Threads, LockThread(t) \/ LockWakeUp(t) \/ UnlockWakeUp(t) \/ UnlockThread(t)
      PROVE  (Waiting /\ NoWakeUpLost)'
  <2>1. UNCHANGED <<isPaused, asleep>>
    BY <1>2 DEF LockThread, LockWakeUp, UnlockWakeUp, UnlockThread
  <2>2. /\ step[t] \notin {"broadcast", "asleep"}
        /\ step'[t] # "wait"
        /\ \A u \in Threads \ {t} : step'[u] = step[u]
    BY <1>2, Moves DEF LockThread, LockWakeUp, UnlockWakeUp, UnlockThread
  <2> QED
    BY <1>0, <2>1, <2>2
<1>3. ASSUME NEW t \in Threads, SetPaused(t)
      PROVE  (Waiting /\ NoWakeUpLost)'
  <2>1. isPaused' = TRUE /\ UNCHANGED asleep
    BY <1>3 DEF SetPaused
  <2>2. step[t] = "set" /\ step'[t] = "unlock" /\ \A u \in Threads \ {t} : step'[u] = step[u]
    BY <1>3, Moves DEF SetPaused
  <2> QED
    BY <1>0, <2>1, <2>2
<1>4. CASE Test
  BY <1>0, <1>4, Moves DEF Test
<1>5. CASE Sleep
  BY <1>0, <1>5, Moves DEF Sleep
<1>6. CASE WakeUp
  BY <1>0, <1>6, Moves DEF WakeUp
<1>7. ASSUME NEW c \in Callers, ReadPaused(c)
      PROVE  (Waiting /\ NoWakeUpLost)'
  BY <1>0, <1>7, Moves DEF ReadPaused
<1>8. ASSUME NEW c \in Callers, ClearPaused(c)
      PROVE  (Waiting /\ NoWakeUpLost)'
  <2>1. step[c] = "clear" /\ step'[c] = "broadcast" /\ step'[Worker] = step[Worker]
    BY <1>0, <1>8, Moves DEF ClearPaused
  <2>2. step[Worker] # "wait"
    BY <1>0, <2>1 DEF Owners, WakeUpHeld
  <2> QED
    BY <1>8, <2>1, <2>2 DEF ClearPaused
<1>9. ASSUME NEW c \in Callers, Broadcast(c)
      PROVE  (Waiting /\ NoWakeUpLost)'
  BY <1>0, <1>9, Moves DEF Broadcast
<1> QED
  BY <1>1, <1>2, <1>3, <1>4, <1>5, <1>6, <1>7, <1>8, <1>9 DEF GateStep, ThreadStep

LEMMA NextGateInv == GateInv /\ [GateStep]_gateVars => GateInv'
<1>1. GateInv /\ GateStep => GateInv'
  BY StepsTyped, OwnersKept, WakeUpKept DEF GateInv
<1>2. GateInv /\ UNCHANGED gateVars => GateInv'
  BY DEF GateInv, StepsType, Owners, Waiting, NoWakeUpLost, gateVars, mutexVars
<1> QED
  BY <1>1, <1>2

(* A broadcast between the worker's test of the flag and its wait, a       *)
(* spurious wake-up or any other order of the steps never leaves the       *)
(* worker asleep behind an open gate with nobody about to wake it          *)
(* (threads_common.c:58-75).                                               *)
THEOREM EveryWakeUpArrives == GateSpec => []NoWakeUpLost
<1>1. GateInv => NoWakeUpLost
  BY DEF GateInv
<1> QED
  BY <1>1, InitGateInv, NextGateInv, PTL DEF GateSpec

-----------------------------------------------------------------------------
LEMMA OneEntry ==
  ASSUME NEW old, NEW new
  PROVE  /\ [[TMC200FEEDBACK |-> old] EXCEPT !["TMC200FEEDBACK"] = new] = [TMC200FEEDBACK |-> new]
         /\ [TMC200FEEDBACK |-> old]["TMC200FEEDBACK"] = old
  OBVIOUS

(* The steps that show: the flag is set and cleared, the worker calls      *)
(* checkThreadPaused, and it reads that it may pass.                       *)
GateShows ==
  \/ isPaused' = TRUE /\ UNCHANGED Waits
  \/ isPaused' = FALSE /\ UNCHANGED Waits
  \/ ~Waits /\ Waits' /\ UNCHANGED isPaused
  \/ Waits /\ ~Waits' /\ ~isPaused /\ UNCHANGED isPaused
  \/ UNCHANGED <<isPaused, Waits>>

LEMMA StepsShow == GateInv /\ [GateStep]_gateVars => GateShows
<1> SUFFICES ASSUME GateInv, [GateStep]_gateVars PROVE GateShows
  OBVIOUS
<1>0. /\ Worker \in Threads /\ Callers \subseteq Threads /\ Worker \notin Callers
      /\ StepsType /\ step[Worker] \in WorkerLabels
  BY ThreadsAssumption DEF Threads, GateInv, StepsType
<1>1. CASE SpuriousWakeUp \/ UNCHANGED gateVars
  BY <1>1 DEF SpuriousWakeUp, gateVars, GateShows, Waits
<1>2. ASSUME NEW t \in Threads, LockThread(t) \/ LockWakeUp(t) \/ UnlockWakeUp(t) \/ UnlockThread(t)
      PROVE  GateShows
  <2>1. UNCHANGED isPaused
    BY <1>2 DEF LockThread, LockWakeUp, UnlockWakeUp, UnlockThread
  <2>2. CASE t # Worker
    BY <1>0, <1>2, <2>1, <2>2, Moves DEF LockThread, LockWakeUp, UnlockWakeUp, UnlockThread, GateShows, Waits
  <2>3. CASE t = Worker
    <3>1. Waits => Waits'
      BY <1>0, <1>2, <2>3, Moves DEF LockThread, LockWakeUp, UnlockWakeUp, UnlockThread, Waits
    <3>2. Waits \in BOOLEAN /\ Waits' \in BOOLEAN
      BY DEF Waits
    <3> QED
      BY <2>1, <3>1, <3>2 DEF GateShows
  <2> QED
    BY <2>2, <2>3
<1>3. ASSUME NEW t \in Threads, SetPaused(t)
      PROVE  GateShows
  <2>1. step[t] = "set" /\ step'[t] = "unlock" /\ isPaused' = TRUE
    BY <1>3, <1>0, Moves DEF SetPaused
  <2>2. \A u \in Threads \ {t} : step'[u] = step[u]
    BY <1>3, <1>0, Moves DEF SetPaused
  <2>3. Waits' = Waits
    BY <1>0, <2>1, <2>2 DEF Waits
  <2> QED
    BY <2>1, <2>3 DEF GateShows
<1>4. CASE Test
  <2>1. /\ step[Worker] = "test" /\ step'[Worker] = (IF isPaused THEN "wait" ELSE "pass")
        /\ UNCHANGED isPaused
    BY <1>0, <1>4, Moves DEF Test
  <2>2. CASE isPaused
    BY <2>1, <2>2 DEF GateShows, Waits
  <2>3. CASE ~isPaused
    BY <2>1, <2>3 DEF GateShows, Waits
  <2> QED
    BY <2>2, <2>3
<1>5. CASE Sleep
  BY <1>0, <1>5, Moves DEF Sleep, GateShows, Waits
<1>6. CASE WakeUp
  BY <1>0, <1>6, Moves DEF WakeUp, GateShows, Waits
<1>7. ASSUME NEW c \in Callers, ReadPaused(c)
      PROVE  GateShows
  BY <1>0, <1>7, Moves DEF ReadPaused, GateShows, Waits
<1>8. ASSUME NEW c \in Callers, ClearPaused(c)
      PROVE  GateShows
  BY <1>0, <1>8, Moves DEF ClearPaused, GateShows, Waits
<1>9. ASSUME NEW c \in Callers, Broadcast(c)
      PROVE  GateShows
  BY <1>0, <1>9, Moves DEF Broadcast, GateShows, Waits
<1> QED
  BY <1>1, <1>2, <1>3, <1>4, <1>5, <1>6, <1>7, <1>8, <1>9 DEF GateStep, ThreadStep

(* pauseThread, resumeThread and checkThreadPaused, with their two mutexes *)
(* and their condition variable, are the atomic calls that the other       *)
(* modules take them to be (threads_common.c:47-75).                       *)
THEOREM GateIsAtomic == GateSpec => GateImplemented
<1> DEFINE Atomic ==
      \/ AtomicGate!pauseThread("TMC200FEEDBACK") /\ UNCHANGED Waits
      \/ AtomicGate!resumeThread("TMC200FEEDBACK") /\ UNCHANGED Waits
      \/ /\ AtomicGate!At("TMC200FEEDBACK", "work") /\ AtomicGate!Goto("TMC200FEEDBACK", "wait")
         /\ UNCHANGED isPaused
      \/ /\ AtomicGate!At("TMC200FEEDBACK", "wait") /\ AtomicGate!Goto("TMC200FEEDBACK", "work")
         /\ AtomicGate!checkThreadPaused("TMC200FEEDBACK")
         /\ UNCHANGED isPaused
<1>1. GateInv /\ GateShows => [Atomic]_<<isPaused, Waits>>
  <2>1. ASSUME isPaused' = TRUE, UNCHANGED Waits PROVE AtomicGate!pauseThread("TMC200FEEDBACK")
    BY <2>1, OneEntry DEF AtomicGate!pauseThread
  <2>2. ASSUME isPaused' = FALSE, UNCHANGED Waits PROVE AtomicGate!resumeThread("TMC200FEEDBACK")
    BY <2>2, OneEntry DEF AtomicGate!resumeThread
  <2>3. ASSUME ~Waits, Waits'
        PROVE  AtomicGate!At("TMC200FEEDBACK", "work") /\ AtomicGate!Goto("TMC200FEEDBACK", "wait")
    BY <2>3, OneEntry DEF AtomicGate!At, AtomicGate!Goto
  <2>4. ASSUME Waits, ~Waits', ~isPaused
        PROVE  /\ AtomicGate!At("TMC200FEEDBACK", "wait") /\ AtomicGate!Goto("TMC200FEEDBACK", "work")
               /\ AtomicGate!checkThreadPaused("TMC200FEEDBACK")
    BY <2>4, OneEntry DEF AtomicGate!At, AtomicGate!Goto, AtomicGate!checkThreadPaused
  <2> QED
    BY <2>1, <2>2, <2>3, <2>4 DEF GateShows
<1>2. GateInv /\ [GateStep]_gateVars => [Atomic]_<<isPaused, Waits>>
  BY <1>1, StepsShow
<1> QED
  BY <1>2, InitGateInv, NextGateInv, PTL DEF GateSpec, GateImplemented

-----------------------------------------------------------------------------
(***************************************************************************)
(* receiveData cuts the answers out of the stream and keeps the order of   *)
(* its bytes, for any item size, any answers and any number of commands.   *)
(***************************************************************************)
(* receiveData and the device.                                             *)
ReceiveSpec == ReceiveInit /\ [][ReceiveStep]_receiveVars

(* A byte of any answer.                                                   *)
AnyByte == [of : 1 .. Questions, pos : Nat \ {0}, lineBreak : BOOLEAN]

ReceiveTypeOK ==
  /\ prompt \in BOOLEAN /\ receiving \in BOOLEAN
  /\ lengths \in [1 .. Questions -> TextLengths \cup {-1}]
  /\ asked \in 0 .. Questions
  /\ coming \in Seq(AnyByte) /\ wire \in Seq(AnyByte) /\ data \in Seq(AnyByte)
  /\ texts \in Seq(Seq(AnyByte))

(* What AnswerTo and the parts of a read are, place by place.              *)
LEMMA AnswerIs ==
  ASSUME ReceiveTypeOK, NEW n \in 1 .. Questions
  PROVE  /\ lengths[n] = -1 \/ lengths[n] \in Nat
         /\ AnswerTo(n) \in Seq(AnyByte)
         /\ Len(AnswerTo(n)) = IF lengths[n] = -1 THEN 0 ELSE lengths[n] + 2
         /\ \A i \in 1 .. Len(AnswerTo(n)) :
              AnswerTo(n)[i] = IF i = lengths[n] + 1 THEN Byte(n, i, TRUE) ELSE Byte(n, i, FALSE)
         /\ lengths[n] # -1 =>
              /\ TextOf(n) \in Seq(AnyByte) /\ Len(TextOf(n)) = lengths[n]
              /\ \A i \in 1 .. lengths[n] : TextOf(n)[i] = AnswerTo(n)[i]
<1>1. lengths[n] = -1 \/ lengths[n] \in Nat
  BY TextLengthsAssumption DEF ReceiveTypeOK
<1>2. CASE lengths[n] = -1
  BY <1>2, EmptySeq DEF AnswerTo
<1>3. CASE lengths[n] # -1
  <2> DEFINE l == lengths[n]
             text == TextOf(n)
             break == <<Byte(n, l + 1, TRUE), Byte(n, l + 2, FALSE)>>
             answer == text \o break
  <2>1. l \in Nat
    BY <1>1, <1>3
  <2>2. AnswerTo(n) = answer
    BY <1>3 DEF AnswerTo
  <2>3. text \in [1 .. l -> AnyByte] /\ \A i \in 1 .. l : text[i] = Byte(n, i, FALSE)
    BY <2>1 DEF TextOf, Byte, AnyByte
  <2>4. text \in Seq(AnyByte) /\ Len(text) = l
    BY <2>1, <2>3, SeqDef, LenProperties
  <2>5. /\ break \in Seq(AnyByte) /\ Len(break) = 2
        /\ break[1] = Byte(n, l + 1, TRUE) /\ break[2] = Byte(n, l + 2, FALSE)
    BY <2>1 DEF Byte, AnyByte
  <2> HIDE DEF text, break, l
  <2>6. /\ answer \in Seq(AnyByte) /\ Len(answer) = l + 2
        /\ \A i \in 1 .. l + 2 : answer[i] = IF i <= l THEN text[i] ELSE break[i - l]
    <3>1. /\ answer \in Seq(AnyByte) /\ Len(answer) = Len(text) + Len(break)
          /\ \A i \in 1 .. Len(text) + Len(break) :
               answer[i] = IF i <= Len(text) THEN text[i] ELSE break[i - Len(text)]
      BY <2>4, <2>5, ConcatProperties
    <3> HIDE DEF answer
    <3> QED
      BY <2>4, <2>5, <3>1
  <2> HIDE DEF answer
  <2>7. ASSUME NEW i \in 1 .. l + 2
        PROVE  answer[i] = IF i = l + 1 THEN Byte(n, i, TRUE) ELSE Byte(n, i, FALSE)
    <3>1. CASE i \in 1 .. l
      <4>1. i <= l /\ i # l + 1
        BY <2>1, <3>1
      <4> QED
        BY <2>3, <2>6, <3>1, <4>1
    <3>2. CASE i = l + 1
      <4>1. ~(i <= l) /\ i - l = 1
        BY <2>1, <3>2
      <4> QED
        BY <2>5, <2>6, <3>2, <4>1
    <3>3. CASE i = l + 2
      <4>1. ~(i <= l) /\ i - l = 2 /\ i # l + 1
        BY <2>1, <3>3
      <4> QED
        BY <2>5, <2>6, <3>3, <4>1
    <3>4. i \in 1 .. l \/ i = l + 1 \/ i = l + 2
      BY <2>1
    <3> QED
      BY <3>1, <3>2, <3>3, <3>4, Zenon
  <2>8. \A i \in 1 .. l : i \in 1 .. l + 2 /\ answer[i] = text[i]
    BY <2>1, <2>6
  <2>9. /\ answer \in Seq(AnyByte) /\ Len(answer) = l + 2
        /\ \A i \in 1 .. Len(answer) :
             answer[i] = IF i = l + 1 THEN Byte(n, i, TRUE) ELSE Byte(n, i, FALSE)
        /\ text \in Seq(AnyByte) /\ Len(text) = l
        /\ \A i \in 1 .. l : text[i] = answer[i]
    BY <2>4, <2>6, <2>7, <2>8
  <2> QED
    BY <1>1, <1>3, <2>2, <2>9 DEF l, text
<1> QED
  BY <1>2, <1>3

(* A sequence cut in two.                                                  *)
LEMMA CutInTwo ==
  ASSUME NEW T, NEW s \in Seq(T), NEW k \in 0 .. Len(s)
  PROVE  /\ SubSeq(s, 1, k) \in Seq(T) /\ Len(SubSeq(s, 1, k)) = k
         /\ \A i \in 1 .. k : SubSeq(s, 1, k)[i] = s[i]
         /\ SubSeq(s, k + 1, Len(s)) \in Seq(T) /\ Len(SubSeq(s, k + 1, Len(s))) = Len(s) - k
         /\ \A i \in 1 .. Len(s) - k : SubSeq(s, k + 1, Len(s))[i] = s[k + i]
<1>1. Len(s) \in Nat /\ k \in Int /\ k + 1 \in Int /\ Len(s) \in Int /\ \A i \in 1 .. Len(s) : s[i] \in T
  BY LenProperties, ElementOfSeq
<1>2. /\ SubSeq(s, 1, k) \in Seq(T)
      /\ Len(SubSeq(s, 1, k)) = IF 1 <= k THEN k - 1 + 1 ELSE 0
      /\ \A i \in 1 .. k - 1 + 1 : SubSeq(s, 1, k)[i] = s[1 + i - 1]
  <2>1. \A i \in 1 .. k : s[i] \in T
    BY <1>1
  <2> QED
    BY <1>1, <2>1, SubSeqProperties
<1>3. /\ SubSeq(s, k + 1, Len(s)) \in Seq(T)
      /\ Len(SubSeq(s, k + 1, Len(s))) = IF k + 1 <= Len(s) THEN Len(s) - (k + 1) + 1 ELSE 0
      /\ \A i \in 1 .. Len(s) - (k + 1) + 1 : SubSeq(s, k + 1, Len(s))[i] = s[(k + 1) + i - 1]
  <2>1. \A i \in k + 1 .. Len(s) : s[i] \in T
    BY <1>1
  <2> QED
    BY <1>1, <2>1, SubSeqProperties
<1> DEFINE l == SubSeq(s, 1, k)
           r == SubSeq(s, k + 1, Len(s))
<1> HIDE DEF l, r
<1>4. l \in Seq(T) /\ Len(l) = k /\ \A i \in 1 .. k : l[i] = s[i]
  <2>1. k - 1 + 1 = k /\ (~(1 <= k) => k = 0) /\ \A i \in 1 .. k : 1 + i - 1 = i
    BY <1>1
  <2> QED
    BY <1>2, <2>1 DEF l
<1>5. r \in Seq(T) /\ Len(r) = Len(s) - k /\ \A i \in 1 .. Len(s) - k : r[i] = s[k + i]
  <2>1. /\ Len(s) - (k + 1) + 1 = Len(s) - k /\ (~(k + 1 <= Len(s)) => Len(s) - k = 0)
        /\ \A i \in 1 .. Len(s) - k : (k + 1) + i - 1 = k + i
    BY <1>1
  <2> QED
    BY <1>3, <2>1 DEF r
<1> QED
  BY <1>4, <1>5 DEF l, r

Bytes == Seq(AnyByte)

(* The order of the stream within a sequence of bytes, and between two.    *)
Sorted(s) == \A i, j \in 1 .. Len(s) : i < j => Earlier(s[i], s[j])
Before(s, t) == \A i \in 1 .. Len(s), j \in 1 .. Len(t) : Earlier(s[i], t[j])

(* r stands within s, after the first from bytes of it; c is s and t       *)
(* together.                                                               *)
Part(r, s, from) == \A i \in 1 .. Len(r) : from + i \in 1 .. Len(s) /\ r[i] = s[from + i]
Join(c, s, t) ==
  /\ Len(c) = Len(s) + Len(t)
  /\ \A i \in 1 .. Len(s) : c[i] = s[i]
  /\ \A i \in 1 .. Len(t) : c[Len(s) + i] = t[i]

(* The first bytes of one sequence go to the end of another.               *)
Passes(h, from, fromNew, to, toNew) ==
  /\ Part(h, from, 0) /\ Part(fromNew, from, Len(h)) /\ Len(fromNew) = Len(from) - Len(h)
  /\ Join(toNew, to, h)

(* What holds of the order of a sequence holds of any part of it.          *)
LEMMA PartOrder ==
  ASSUME NEW s \in Bytes, NEW r \in Bytes, NEW from \in Nat, Part(r, s, from)
  PROVE  /\ Sorted(s) => Sorted(r)
         /\ \A t : Before(s, t) => Before(r, t)
         /\ \A t : Before(t, s) => Before(t, r)
<1>1. Sorted(s) => Sorted(r)
  <2> SUFFICES ASSUME Sorted(s), NEW i \in 1 .. Len(r), NEW j \in 1 .. Len(r), i < j
               PROVE  Earlier(r[i], r[j])
    BY DEF Sorted
  <2>1. from + i \in 1 .. Len(s) /\ from + j \in 1 .. Len(s) /\ from + i < from + j
    BY DEF Part
  <2> QED
    BY <2>1 DEF Sorted, Part
<1>2. \A t : Before(s, t) => Before(r, t)
  BY DEF Before, Part
<1>3. \A t : Before(t, s) => Before(t, r)
  BY DEF Before, Part
<1> QED
  BY <1>1, <1>2, <1>3

(* An earlier part of an ordered sequence is before a later one.           *)
LEMMA PartsOrder ==
  ASSUME NEW s \in Bytes, NEW r \in Bytes, NEW q \in Bytes, Sorted(s),
         Part(r, s, 0), Part(q, s, Len(r))
  PROVE  Before(r, q)
<1> SUFFICES ASSUME NEW i \in 1 .. Len(r), NEW j \in 1 .. Len(q) PROVE Earlier(r[i], q[j])
  BY DEF Before
<1>1. Len(r) \in Nat /\ 0 + i = i
  BY LenProperties
<1>2. i \in 1 .. Len(s) /\ Len(r) + j \in 1 .. Len(s) /\ i < Len(r) + j
  BY <1>1 DEF Part
<1> QED
  BY <1>1, <1>2 DEF Sorted, Part

(* The order of two sequences put together is that of the two.             *)
LEMMA JoinOrder ==
  ASSUME NEW s \in Bytes, NEW t \in Bytes, NEW c \in Bytes, Join(c, s, t)
  PROVE  /\ Sorted(s) /\ Sorted(t) /\ Before(s, t) => Sorted(c)
         /\ \A u : Before(s, u) /\ Before(t, u) => Before(c, u)
         /\ \A u : Before(u, s) /\ Before(u, t) => Before(u, c)
<1>1. Len(s) \in Nat /\ Len(t) \in Nat
  BY LenProperties
<1>2. ASSUME NEW i \in 1 .. Len(c)
      PROVE  \/ i \in 1 .. Len(s) /\ c[i] = s[i]
             \/ i - Len(s) \in 1 .. Len(t) /\ ~(i <= Len(s)) /\ c[i] = t[i - Len(s)]
  <2>1. i \in 1 .. Len(s) \/ (i - Len(s) \in 1 .. Len(t) /\ ~(i <= Len(s)) /\ Len(s) + (i - Len(s)) = i)
    BY <1>1 DEF Join
  <2> QED
    BY <2>1 DEF Join
<1>3. ASSUME Sorted(s), Sorted(t), Before(s, t), NEW i \in 1 .. Len(c), NEW j \in 1 .. Len(c), i < j
      PROVE  Earlier(c[i], c[j])
  <2>1. CASE i \in 1 .. Len(s) /\ j \in 1 .. Len(s)
    <3>1. c[i] = s[i] /\ c[j] = s[j]
      BY <2>1 DEF Join
    <3> QED
      BY <1>3, <2>1, <3>1 DEF Sorted
  <2>2. CASE i \in 1 .. Len(s) /\ j \notin 1 .. Len(s)
    <3>1. c[i] = s[i] /\ j - Len(s) \in 1 .. Len(t) /\ c[j] = t[j - Len(s)]
      BY <1>2, <2>2 DEF Join
    <3> QED
      BY <1>3, <2>2, <3>1 DEF Before
  <2>3. CASE i \notin 1 .. Len(s)
    <3>1. i - Len(s) \in 1 .. Len(t) /\ j - Len(s) \in 1 .. Len(t) /\ i - Len(s) < j - Len(s)
          /\ Len(s) + (i - Len(s)) = i /\ Len(s) + (j - Len(s)) = j
      BY <1>1, <1>3, <2>3 DEF Join
    <3>2. c[i] = t[i - Len(s)] /\ c[j] = t[j - Len(s)]
      BY <3>1 DEF Join
    <3> QED
      BY <1>3, <3>1, <3>2 DEF Sorted
  <2> QED
    BY <2>1, <2>2, <2>3
<1>4. \A u : Before(s, u) /\ Before(t, u) => Before(c, u)
  BY <1>2 DEF Before
<1>5. \A u : Before(u, s) /\ Before(u, t) => Before(u, c)
  BY <1>2 DEF Before
<1> QED
  BY <1>3, <1>4, <1>5 DEF Sorted

(* What Emit, Read and the answer to a command do to the parts.            *)
LEMMA EmitMoves ==
  ASSUME ReceiveTypeOK, Emit
  PROVE  /\ coming' \in Bytes /\ wire' \in Bytes
         /\ \E h \in Bytes : Passes(h, coming, coming', wire, wire')
<1>1. /\ coming' = Tail(coming) /\ coming # <<>> /\ coming \in Bytes /\ wire \in Bytes
      /\ wire' = Append(wire, Head(coming))
  BY DEF Emit, ReceiveTypeOK, Bytes
<1>2. /\ Len(coming) \in Nat /\ Len(coming) # 0 /\ Len(wire) \in Nat
      /\ Head(coming) = coming[1] /\ coming[1] \in AnyByte
  <2>1. Len(coming) \in Nat /\ Len(coming) # 0 /\ Len(wire) \in Nat
    BY <1>1, LenProperties, EmptySeq DEF Bytes
  <2> QED
    BY <1>1, <2>1, ElementOfSeq, HeadTailProperties DEF Bytes
<1>3. /\ coming' \in Bytes /\ Len(coming') = Len(coming) - 1
      /\ \A i \in 1 .. Len(coming) - 1 : coming'[i] = coming[i + 1]
  BY <1>1, <1>2, HeadTailProperties DEF Bytes
<1>4. /\ wire' \in Bytes /\ Len(wire') = Len(wire) + 1
      /\ \A i \in 1 .. Len(wire) : wire'[i] = wire[i]
      /\ wire'[Len(wire) + 1] = coming[1]
  BY <1>1, <1>2, AppendProperties DEF Bytes
<1>5. PICK h \in Bytes : Len(h) = 1 /\ h[1] = coming[1]
  <2>1. [i \in 1 .. 1 |-> coming[1]] \in Bytes
    BY <1>2, SeqDef DEF Bytes
  <2> QED
    BY <2>1
<1>6. Part(h, coming, 0)
  BY <1>2, <1>5 DEF Part
<1>7. Part(coming', coming, 1)
  <2>1. \A i \in 1 .. Len(coming) - 1 : 1 + i = i + 1 /\ 1 + i \in 1 .. Len(coming)
    BY <1>2
  <2> QED
    BY <1>3, <2>1 DEF Part
<1>8. Join(wire', wire, h)
  BY <1>2, <1>4, <1>5 DEF Join
<1> QED
  BY <1>3, <1>4, <1>5, <1>6, <1>7, <1>8 DEF Passes

(* A read moves the first bytes on the line to the end of the item.        *)
LEMMA ReadMoves ==
  ASSUME ReceiveTypeOK, Read
  PROVE  /\ data' \in Bytes /\ wire' \in Bytes
         /\ Len(data') <= DataSize
         /\ \E h \in Bytes : Passes(h, wire, wire', data, data')
<1> DEFINE room == DataSize - Len(data)
           k == IF Len(wire) < room THEN Len(wire) ELSE room
           h == SubSeq(wire, 1, k)
           rest == SubSeq(wire, k + 1, Len(wire))
<1>1. /\ data' = data \o h /\ wire' = rest
      /\ Len(data) < DataSize /\ data \in Bytes /\ wire \in Bytes
  BY Zenon DEF Read, ReceiveTypeOK, Bytes
<1>2. Len(data) \in Nat /\ Len(wire) \in Nat /\ DataSize \in Nat
  BY <1>1, LenProperties, DataSizeAssumption DEF Bytes
<1>3. k \in 0 .. Len(wire) /\ Len(data) + k <= DataSize
  BY <1>1, <1>2
<1> HIDE DEF k
<1>4. /\ h \in Bytes /\ Len(h) = k /\ \A i \in 1 .. k : h[i] = wire[i]
      /\ rest \in Bytes /\ Len(rest) = Len(wire) - k
      /\ \A i \in 1 .. Len(wire) - k : rest[i] = wire[k + i]
  BY <1>1, <1>3, CutInTwo DEF Bytes
<1> HIDE DEF h, rest
<1>5. /\ data' \in Bytes /\ Len(data') = Len(data) + Len(h)
      /\ \A i \in 1 .. Len(data) + Len(h) :
           data'[i] = IF i <= Len(data) THEN data[i] ELSE h[i - Len(data)]
  BY <1>1, <1>4, ConcatProperties DEF Bytes
<1>6. Part(h, wire, 0)
  <2>1. \A i \in 1 .. k : 0 + i = i /\ i \in 1 .. Len(wire)
    BY <1>2, <1>3
  <2> QED
    BY <1>4, <2>1 DEF Part
<1>7. Part(rest, wire, k)
  <2>1. \A i \in 1 .. Len(wire) - k : k + i \in 1 .. Len(wire)
    BY <1>2, <1>3
  <2> QED
    BY <1>4, <2>1 DEF Part
<1>8. Join(data', data, h)
  <2>1. \A i \in 1 .. Len(data) : i \in 1 .. Len(data) + Len(h) /\ i <= Len(data)
    BY <1>2, <1>3, <1>4
  <2>2. \A i \in 1 .. Len(h) : /\ Len(data) + i \in 1 .. Len(data) + Len(h)
                               /\ ~(Len(data) + i <= Len(data)) /\ (Len(data) + i) - Len(data) = i
    BY <1>2, <1>3, <1>4
  <2> QED
    BY <1>5, <2>1, <2>2 DEF Join
<1> QED
  BY <1>1, <1>3, <1>4, <1>5, <1>6, <1>7, <1>8 DEF Passes

(* A command adds its answer to what is to come and empties the item.      *)
LEMMA AskJoins ==
  ASSUME ReceiveTypeOK, Ask
  PROVE  /\ asked' = asked + 1 /\ asked' \in 1 .. Questions
         /\ AnswerTo(asked') \in Bytes
         /\ coming' \in Bytes /\ Join(coming', coming, AnswerTo(asked'))
         /\ data' \in Bytes /\ Len(data') = 0
<1>1. /\ asked' = asked + 1 /\ asked' \in 1 .. Questions /\ coming \in Bytes
      /\ coming' = coming \o AnswerTo(asked') /\ data' = <<>>
  BY QuestionsAssumption DEF Ask, ReceiveTypeOK, Bytes
<1>2. PICK n \in 1 .. Questions : n = asked'
  BY <1>1
<1>3. AnswerTo(n) \in Bytes
  BY AnswerIs DEF Bytes
<1> DEFINE answer == AnswerTo(n)
<1>4. coming' = coming \o answer
  BY <1>1, <1>2
<1>5. answer \in Bytes
  BY <1>3
<1> HIDE DEF answer
<1>6. /\ coming' \in Bytes /\ Len(coming') = Len(coming) + Len(answer)
      /\ \A i \in 1 .. Len(coming) + Len(answer) :
           coming'[i] = IF i <= Len(coming) THEN coming[i] ELSE answer[i - Len(coming)]
  <2>1. coming \in Seq(AnyByte) /\ answer \in Seq(AnyByte)
    BY <1>1, <1>5 DEF Bytes
  <2> QED
    BY <1>4, <2>1, ConcatProperties DEF Bytes
<1>7. Join(coming', coming, answer)
  <2>0. Len(coming) \in Nat /\ Len(answer) \in Nat
    BY <1>1, <1>5, LenProperties DEF Bytes
  <2>1. \A i \in 1 .. Len(coming) : i \in 1 .. Len(coming) + Len(answer) /\ i <= Len(coming)
    BY <2>0
  <2>2. \A i \in 1 .. Len(answer) : /\ Len(coming) + i \in 1 .. Len(coming) + Len(answer)
                                    /\ ~(Len(coming) + i <= Len(coming))
                                    /\ (Len(coming) + i) - Len(coming) = i
    BY <2>0
  <2> QED
    BY <1>6, <2>1, <2>2 DEF Join
<1>8. data' \in Bytes /\ Len(data') = 0
  BY <1>1, EmptySeq DEF Bytes
<1>9. AnswerTo(asked') = answer
  BY <1>2 DEF answer
<1> QED
  BY <1>1, <1>5, <1>6, <1>7, <1>8, <1>9

(* No byte of s belongs to a later answer than the k-th.                   *)
Known(s, k) == \A i \in 1 .. Len(s) : s[i].of <= k
AllBefore(ts, s) == \A n \in 1 .. Len(ts) : Before(ts[n], s)
InOrder(ts) ==
  /\ \A n \in 1 .. Len(ts) : Sorted(ts[n])
  /\ \A m, n \in 1 .. Len(ts) : m < n => Before(ts[m], ts[n])

(* What has been delivered, what is in the item, on the line and in the    *)
(* device follow one another in the order of the stream; all of it belongs *)
(* to answers already asked for.                                           *)
OrderInv ==
  /\ Sorted(data) /\ Sorted(wire) /\ Sorted(coming)
  /\ Before(data, wire) /\ Before(data, coming) /\ Before(wire, coming)
  /\ InOrder(texts) /\ AllBefore(texts, wire) /\ AllBefore(texts, coming)
  /\ receiving => AllBefore(texts, data)
  /\ Known(data, asked) /\ Known(wire, asked) /\ Known(coming, asked)
  /\ \A n \in 1 .. Len(texts) : Known(texts[n], asked)

(* Bytes passed on from one place to the next keep the order of the        *)
(* stream.                                                                 *)
LEMMA MovesOrder ==
  ASSUME NEW h \in Bytes, NEW from \in Bytes, NEW fromNew \in Bytes,
         NEW to \in Bytes, NEW toNew \in Bytes, Passes(h, from, fromNew, to, toNew),
         Sorted(from), Sorted(to), Before(to, from)
  PROVE  /\ Sorted(fromNew) /\ Sorted(toNew) /\ Before(toNew, fromNew)
         /\ \A u : Before(u, from) => Before(u, fromNew)
         /\ \A u : Before(from, u) => Before(fromNew, u)
         /\ \A u : Before(u, from) /\ Before(u, to) => Before(u, toNew)
         /\ \A u : Before(from, u) /\ Before(to, u) => Before(toNew, u)
         /\ \A k : Known(from, k) => Known(fromNew, k)
         /\ \A k : Known(from, k) /\ Known(to, k) => Known(toNew, k)
<1>1. /\ Part(h, from, 0) /\ Part(fromNew, from, Len(h)) /\ Join(toNew, to, h)
      /\ Len(h) \in Nat /\ Len(to) \in Nat
  BY LenProperties DEF Passes, Bytes
<1>2. /\ Sorted(h) /\ \A u : Before(from, u) => Before(h, u)
      /\ \A u : Before(u, from) => Before(u, h)
  BY <1>1, PartOrder
<1>3. /\ Sorted(fromNew) /\ \A u : Before(from, u) => Before(fromNew, u)
      /\ \A u : Before(u, from) => Before(u, fromNew)
  BY <1>1, PartOrder
<1>4. Before(h, fromNew)
  BY <1>1, PartsOrder
<1>5. /\ Sorted(to) /\ Sorted(h) /\ Before(to, h) => Sorted(toNew)
      /\ \A u : Before(to, u) /\ Before(h, u) => Before(toNew, u)
      /\ \A u : Before(u, to) /\ Before(u, h) => Before(u, toNew)
  BY <1>1, JoinOrder
<1>6. ASSUME NEW k, Known(from, k) PROVE Known(fromNew, k) /\ Known(h, k)
  BY <1>1, <1>6 DEF Known, Part
<1>7. ASSUME NEW k, Known(from, k), Known(to, k) PROVE Known(toNew, k)
  <2> SUFFICES ASSUME NEW i \in 1 .. Len(toNew) PROVE toNew[i].of <= k
    BY DEF Known
  <2>1. CASE i \in 1 .. Len(to)
    BY <1>1, <1>7, <2>1 DEF Join, Known
  <2>2. CASE i \notin 1 .. Len(to)
    <3>1. i - Len(to) \in 1 .. Len(h) /\ Len(to) + (i - Len(to)) = i
      BY <1>1, <2>2 DEF Join
    <3>2. toNew[i] = h[i - Len(to)]
      BY <1>1, <3>1 DEF Join
    <3> QED
      BY <1>6, <1>7, <3>1, <3>2 DEF Known
  <2> QED
    BY <2>1, <2>2
<1> QED
  BY <1>2, <1>3, <1>4, <1>5, <1>6, <1>7

(* The text that is queued is a part of the item.                          *)
LEMMA FinishQueues ==
  ASSUME ReceiveTypeOK, NEW bytes \in Bytes, Finish(bytes)
  PROVE  /\ receiving' = FALSE /\ texts' \in Seq(Bytes)
         /\ \/ Len(bytes) < 2 /\ texts' = texts
            \/ /\ Len(bytes) >= 2 /\ Len(texts') = Len(texts) + 1
               /\ \A n \in 1 .. Len(texts) : texts'[n] = texts[n]
               /\ \E t \in Bytes : /\ texts'[Len(texts) + 1] = t
                                   /\ Len(t) = Len(bytes) - 2 /\ Part(t, bytes, 0)
<1>1. texts \in Seq(Bytes) /\ Len(texts) \in Nat /\ Len(bytes) \in Nat
  BY LenProperties DEF ReceiveTypeOK, Bytes
<1>2. CASE Len(bytes) < 2
  <2>1. receiving' = FALSE /\ texts' = texts
    BY <1>2, Zenon DEF Finish
  <2> QED
    BY <1>1, <1>2, <2>1, Zenon
<1>3. CASE Len(bytes) >= 2
  <2> DEFINE t == Cut(bytes)
  <2>1. receiving' = FALSE /\ texts' = Append(texts, t)
    BY <1>1, <1>3 DEF Finish
  <2>2. Len(bytes) - 2 \in 0 .. Len(bytes) /\ 1 .. Len(bytes) - 2 \subseteq 1 .. Len(bytes)
    BY <1>1, <1>3
  <2>3. /\ t \in Bytes /\ Len(t) = Len(bytes) - 2
        /\ \A i \in 1 .. Len(bytes) - 2 : t[i] = bytes[i]
    <3>1. bytes \in Seq(AnyByte) /\ t = SubSeq(bytes, 1, Len(bytes) - 2)
      BY DEF Cut, Bytes
    <3>2. ASSUME NEW k \in 0 .. Len(bytes)
          PROVE  /\ SubSeq(bytes, 1, k) \in Seq(AnyByte) /\ Len(SubSeq(bytes, 1, k)) = k
                 /\ \A i \in 1 .. k : SubSeq(bytes, 1, k)[i] = bytes[i]
      BY <3>1, CutInTwo
    <3> DEFINE k == Len(bytes) - 2
    <3>3. k \in 0 .. Len(bytes) /\ t = SubSeq(bytes, 1, k)
      BY <2>2, <3>1
    <3> HIDE DEF t, k
    <3>4. t \in Seq(AnyByte) /\ Len(t) = k /\ \A i \in 1 .. k : t[i] = bytes[i]
      BY <3>2, <3>3
    <3> QED
      BY <3>4 DEF k, Bytes
  <2> HIDE DEF t
  <2>4. Part(t, bytes, 0)
    <3>1. \A i \in 1 .. Len(bytes) - 2 : 0 + i = i
      OBVIOUS
    <3> QED
      BY <2>2, <2>3, <3>1 DEF Part
  <2>5. /\ texts' \in Seq(Bytes) /\ Len(texts') = Len(texts) + 1
        /\ \A n \in 1 .. Len(texts) : texts'[n] = texts[n]
        /\ texts'[Len(texts) + 1] = t
    BY <1>1, <2>1, <2>3, AppendProperties
  <2> QED
    BY <1>3, <2>1, <2>3, <2>4, <2>5
<1>4. Len(bytes) < 2 \/ Len(bytes) >= 2
  BY <1>1
<1> QED
  BY <1>2, <1>3, <1>4, Zenon

(* The type invariant at first.                                            *)
LEMMA ReceiveTypeInit ==
  ASSUME ReceiveInit PROVE ReceiveTypeOK
<1>1. /\ prompt \in BOOLEAN /\ receiving \in BOOLEAN /\ asked \in 0 .. Questions
      /\ lengths \in [1 .. Questions -> TextLengths \cup {-1}]
  <2>1. asked = 0 /\ receiving = FALSE
    BY DEF ReceiveInit
  <2>2. 0 \in 0 .. Questions
    BY QuestionsAssumption
  <2>3. prompt \in BOOLEAN /\ lengths \in [1 .. Questions -> TextLengths \cup {-1}]
    BY Zenon DEF ReceiveInit
  <2> QED
    BY <2>1, <2>2, <2>3, Zenon
<1>2. /\ <<>> \in Seq(AnyByte) /\ <<>> \in Seq(Seq(AnyByte))
  BY EmptySeq
<1>3. coming = <<>> /\ wire = <<>> /\ data = <<>> /\ texts = <<>>
  BY DEF ReceiveInit
<1> QED
  BY <1>1, <1>2, <1>3 DEF ReceiveTypeOK

(* The type invariant is kept by every step of receiveData and the device. *)
LEMMA ReceiveTypeNext ==
  ASSUME ReceiveTypeOK, [ReceiveStep]_receiveVars
  PROVE  ReceiveTypeOK'
<1>1. CASE Ask
  <2>1. UNCHANGED <<prompt, lengths, wire, texts>> /\ receiving' = TRUE
    BY <1>1 DEF Ask
  <2> QED
    BY <1>1, <2>1, AskJoins, QuestionsAssumption DEF ReceiveTypeOK, Bytes
<1>2. CASE Emit
  <2>1. UNCHANGED <<prompt, lengths, asked, receiving, data, texts>>
    BY <1>2 DEF Emit
  <2> QED
    BY <1>2, <2>1, EmitMoves DEF ReceiveTypeOK, Bytes
<1>3. CASE Read
  <2>1. /\ UNCHANGED <<prompt, lengths, asked, coming>>
        /\ Finish(data') \/ UNCHANGED <<receiving, texts>>
    BY <1>3, Zenon DEF Read
  <2>2. data' \in Bytes /\ wire' \in Bytes
    BY <1>3, ReadMoves
  <2>3. receiving' \in BOOLEAN /\ texts' \in Seq(Seq(AnyByte))
    BY <2>1, <2>2, FinishQueues DEF ReceiveTypeOK, Bytes
  <2> QED
    BY <2>1, <2>2, <2>3 DEF ReceiveTypeOK, Bytes
<1>4. CASE ReadTimeout
  <2>1. /\ UNCHANGED <<prompt, lengths, asked, coming, wire, data>>
        /\ Finish(data) /\ data \in Bytes
    BY <1>4 DEF ReadTimeout, ReceiveTypeOK, Bytes
  <2>2. receiving' \in BOOLEAN /\ texts' \in Seq(Seq(AnyByte))
    BY <2>1, FinishQueues DEF Bytes
  <2> QED
    BY <2>1, <2>2 DEF ReceiveTypeOK
<1>5. CASE UNCHANGED receiveVars
  BY <1>5 DEF receiveVars, ReceiveTypeOK
<1> QED
  BY <1>1, <1>2, <1>3, <1>4, <1>5 DEF ReceiveStep

(* The next answer is in order and comes after all that was asked before.  *)
LEMMA AnswerOrder ==
  ASSUME ReceiveTypeOK, NEW n \in 1 .. Questions
  PROVE  /\ Sorted(AnswerTo(n)) /\ Known(AnswerTo(n), n)
         /\ \A k \in Int, s \in Bytes : k < n /\ Known(s, k) => Before(s, AnswerTo(n))
<1> DEFINE answer == AnswerTo(n)
<1>1. ASSUME NEW i \in 1 .. Len(answer)
      PROVE  answer[i].of = n /\ answer[i].pos = i
  <2>1. answer[i] = Byte(n, i, TRUE) \/ answer[i] = Byte(n, i, FALSE)
    BY AnswerIs
  <2> HIDE DEF answer
  <2> QED
    BY <2>1 DEF Byte
<1>2. answer \in Bytes
  BY AnswerIs DEF Bytes
<1> HIDE DEF answer
<1>3. Sorted(answer)
  BY <1>1 DEF Sorted, Earlier
<1>4. Known(answer, n)
  BY <1>1 DEF Known
<1>5. ASSUME NEW k \in Int, NEW s \in Bytes, k < n, Known(s, k) PROVE Before(s, answer)
  <2> SUFFICES ASSUME NEW i \in 1 .. Len(s), NEW j \in 1 .. Len(answer)
               PROVE  Earlier(s[i], answer[j])
    BY DEF Before
  <2>1. s[i] \in AnyByte
    BY ElementOfSeq DEF Bytes
  <2>2. s[i].of \in Int /\ s[i].of <= k /\ answer[j].of = n
    BY <1>1, <1>5, <2>1 DEF Known, AnyByte
  <2> QED
    BY <1>5, <2>2 DEF Earlier
<1> QED
  BY <1>3, <1>4, <1>5 DEF answer

(* The text that is queued comes after those already queued and before all *)
(* that was after the item.                                                *)
LEMMA FinishOrder ==
  ASSUME ReceiveTypeOK, NEW bytes \in Bytes, Finish(bytes),
         InOrder(texts), AllBefore(texts, bytes), Sorted(bytes), Known(bytes, asked),
         \A n \in 1 .. Len(texts) : Known(texts[n], asked)
  PROVE  /\ InOrder(texts') /\ ~receiving'
         /\ \A u : Before(bytes, u) /\ AllBefore(texts, u) => AllBefore(texts', u)
         /\ \A n \in 1 .. Len(texts') : Known(texts'[n], asked)
<1>1. CASE texts' = texts /\ ~receiving'
  BY <1>1
<1>2. CASE /\ ~receiving' /\ Len(texts') = Len(texts) + 1
           /\ \A n \in 1 .. Len(texts) : texts'[n] = texts[n]
           /\ \E t \in Bytes : texts'[Len(texts) + 1] = t /\ Part(t, bytes, 0)
  <2>1. PICK t \in Bytes : texts'[Len(texts) + 1] = t /\ Part(t, bytes, 0)
    BY <1>2
  <2>2. Len(texts) \in Nat
    BY LenProperties DEF ReceiveTypeOK
  <2>3. /\ Sorted(t) /\ \A u : Before(bytes, u) => Before(t, u)
        /\ \A u : Before(u, bytes) => Before(u, t)
    BY <2>1, PartOrder
  <2>4. Known(t, asked)
    BY <2>1 DEF Known, Part
  <2>5. \A n \in 1 .. Len(texts') : n \in 1 .. Len(texts) \/ n = Len(texts) + 1
    BY <1>2, <2>2
  <2>6. \A n \in 1 .. Len(texts') : Sorted(texts'[n]) /\ Known(texts'[n], asked)
    BY <1>2, <2>1, <2>3, <2>4, <2>5 DEF InOrder
  <2>7. ASSUME NEW m \in 1 .. Len(texts'), NEW n \in 1 .. Len(texts'), m < n
        PROVE  Before(texts'[m], texts'[n])
    <3>1. m \in 1 .. Len(texts)
      BY <1>2, <2>2, <2>5, <2>7
    <3>2. CASE n \in 1 .. Len(texts)
      BY <1>2, <2>7, <3>1, <3>2 DEF InOrder
    <3>3. CASE n = Len(texts) + 1
      <4>1. Before(texts[m], bytes)
        BY <3>1 DEF AllBefore
      <4> QED
        BY <1>2, <2>1, <2>3, <3>1, <3>3, <4>1
    <3> QED
      BY <2>5, <3>2, <3>3
  <2>8. \A u : Before(bytes, u) /\ AllBefore(texts, u) => AllBefore(texts', u)
    BY <1>2, <2>1, <2>3, <2>5 DEF AllBefore
  <2> QED
    BY <1>2, <2>6, <2>7, <2>8 DEF InOrder
<1> QED
  BY <1>1, <1>2, FinishQueues

(* At first nothing has come.                                              *)
LEMMA OrderInit ==
  ASSUME ReceiveInit PROVE OrderInv
<1>1. Len(data) = 0 /\ Len(wire) = 0 /\ Len(coming) = 0 /\ Len(texts) = 0
  BY DEF ReceiveInit
<1>2. 1 .. 0 = {}
  OBVIOUS
<1> QED
  BY <1>1, <1>2 DEF OrderInv, Sorted, Before, Known, InOrder, AllBefore

(* Where there are no bytes there is nothing to order.                     *)
LEMMA EmptyOrder ==
  ASSUME NEW s, Len(s) = 0
  PROVE  Sorted(s) /\ (\A u : Before(s, u) /\ Before(u, s)) /\ \A k : Known(s, k)
<1>1. 1 .. 0 = {}
  OBVIOUS
<1> QED
  BY <1>1 DEF Sorted, Before, Known

(* Every step keeps the order of the stream.                               *)
LEMMA OrderNext ==
  ASSUME ReceiveTypeOK, OrderInv, [ReceiveStep]_receiveVars
  PROVE  OrderInv'
<1>0. coming \in Bytes /\ wire \in Bytes /\ data \in Bytes /\ texts \in Seq(Bytes) /\ asked \in Int
      /\ \A n \in 1 .. Len(texts) : texts[n] \in Bytes
  <2>1. coming \in Bytes /\ wire \in Bytes /\ data \in Bytes /\ texts \in Seq(Bytes) /\ asked \in Int
    BY QuestionsAssumption DEF ReceiveTypeOK, Bytes
  <2> QED
    BY <2>1, ElementOfSeq
<1>1. CASE Ask
  <2> DEFINE answer == AnswerTo(asked')
  <2>1. /\ asked' = asked + 1 /\ asked' \in 1 .. Questions /\ answer \in Bytes
        /\ coming' \in Bytes /\ Join(coming', coming, answer)
        /\ data' \in Bytes /\ Len(data') = 0
    BY <1>1, AskJoins
  <2>2. wire' = wire /\ texts' = texts
    BY <1>1 DEF Ask
  <2>3. Sorted(answer) /\ Known(answer, asked')
        /\ \A k \in Int, s \in Bytes : k < asked' /\ Known(s, k) => Before(s, answer)
    BY <2>1, AnswerOrder
  <2>4. \A s \in Bytes : Known(s, asked) => Before(s, answer) /\ Known(s, asked')
    <3>1. asked < asked'
      BY <1>0, <2>1
    <3> HIDE DEF answer
    <3>2. ASSUME NEW s \in Bytes, Known(s, asked) PROVE Known(s, asked')
      <4> SUFFICES ASSUME NEW i \in 1 .. Len(s) PROVE s[i].of <= asked'
        BY DEF Known
      <4>1. s[i] \in AnyByte /\ s[i].of <= asked
        BY <3>2, ElementOfSeq DEF Bytes, Known
      <4> QED
        BY <1>0, <2>1, <4>1 DEF AnyByte
    <3> QED
      BY <1>0, <2>3, <3>1, <3>2
  <2> HIDE DEF answer
  <2>5. /\ Before(coming, answer) /\ Before(wire, answer)
        /\ \A n \in 1 .. Len(texts) : Before(texts[n], answer)
        /\ Known(coming, asked') /\ Known(wire, asked')
        /\ \A n \in 1 .. Len(texts) : Known(texts[n], asked')
    BY <1>0, <2>4 DEF OrderInv
  <2>6. /\ Sorted(coming')
        /\ \A u : Before(u, coming) /\ Before(u, answer) => Before(u, coming')
    BY <1>0, <2>1, <2>3, <2>5, JoinOrder DEF OrderInv
  <2>7. Known(coming', asked')
    <3> SUFFICES ASSUME NEW i \in 1 .. Len(coming') PROVE coming'[i].of <= asked'
      BY DEF Known
    <3>1. Len(coming) \in Nat /\ Len(answer) \in Nat
      BY <1>0, <2>1, LenProperties DEF Bytes
    <3>2. i \in 1 .. Len(coming)
          \/ (i - Len(coming) \in 1 .. Len(answer) /\ Len(coming) + (i - Len(coming)) = i)
      BY <2>1, <3>1 DEF Join
    <3>3. CASE i \in 1 .. Len(coming)
      BY <2>1, <2>5, <3>3 DEF Join, Known
    <3>4. CASE i - Len(coming) \in 1 .. Len(answer) /\ Len(coming) + (i - Len(coming)) = i
      <4>1. coming'[i] = answer[i - Len(coming)]
        BY <2>1, <3>4 DEF Join
      <4> QED
        BY <2>3, <3>4, <4>1 DEF Known
    <3> QED
      BY <3>2, <3>3, <3>4
  <2>8. /\ Sorted(data') /\ (\A u : Before(data', u) /\ Before(u, data')) /\ Known(data', asked')
    BY <2>1, EmptyOrder
  <2>9. Before(wire, coming') /\ AllBefore(texts, coming') /\ AllBefore(texts, data')
    BY <2>5, <2>6, <2>8 DEF OrderInv, AllBefore
  <2> QED
    BY <2>2, <2>5, <2>6, <2>7, <2>8, <2>9 DEF OrderInv
<1>2. CASE Emit
  <2>1. UNCHANGED <<asked, receiving, data, texts>>
    BY <1>2 DEF Emit
  <2>2. PICK h \in Bytes : /\ coming' \in Bytes /\ wire' \in Bytes
                           /\ Passes(h, coming, coming', wire, wire')
    BY <1>2, EmitMoves
  <2>3. Sorted(coming) /\ Sorted(wire) /\ Before(wire, coming)
    BY DEF OrderInv
  <2>4. /\ Sorted(coming') /\ Sorted(wire') /\ Before(wire', coming')
        /\ \A u : Before(u, coming) => Before(u, coming')
        /\ \A u : Before(u, coming) /\ Before(u, wire) => Before(u, wire')
        /\ \A k : Known(coming, k) => Known(coming', k)
        /\ \A k : Known(coming, k) /\ Known(wire, k) => Known(wire', k)
    BY <1>0, <2>2, <2>3, MovesOrder
  <2>5. /\ Before(data, wire') /\ Before(data, coming')
        /\ AllBefore(texts, wire') /\ AllBefore(texts, coming')
        /\ Known(wire', asked) /\ Known(coming', asked)
    BY <2>4 DEF OrderInv, AllBefore
  <2> QED
    BY <2>1, <2>4, <2>5 DEF OrderInv
<1>3. CASE Read
  <2>1. /\ asked' = asked /\ coming' = coming /\ receiving
        /\ Finish(data') \/ UNCHANGED <<receiving, texts>>
    BY <1>3, Zenon DEF Read
  <2>2. PICK h \in Bytes : /\ data' \in Bytes /\ wire' \in Bytes
                           /\ Passes(h, wire, wire', data, data')
    BY <1>3, ReadMoves
  <2>3. Sorted(wire) /\ Sorted(data) /\ Before(data, wire)
    BY DEF OrderInv
  <2>4. /\ Sorted(wire') /\ Sorted(data') /\ Before(data', wire')
        /\ \A u : Before(u, wire) => Before(u, wire')
        /\ \A u : Before(wire, u) => Before(wire', u)
        /\ \A u : Before(u, wire) /\ Before(u, data) => Before(u, data')
        /\ \A u : Before(wire, u) /\ Before(data, u) => Before(data', u)
        /\ \A k : Known(wire, k) => Known(wire', k)
        /\ \A k : Known(wire, k) /\ Known(data, k) => Known(data', k)
    BY <1>0, <2>2, <2>3, MovesOrder
  <2>5. /\ Before(wire', coming) /\ Before(data', coming) /\ Sorted(coming)
        /\ AllBefore(texts, wire') /\ AllBefore(texts, data') /\ AllBefore(texts, coming)
        /\ Known(wire', asked) /\ Known(data', asked) /\ Known(coming, asked)
        /\ InOrder(texts) /\ \A n \in 1 .. Len(texts) : Known(texts[n], asked)
    BY <2>1, <2>4 DEF OrderInv, AllBefore
  <2>6. /\ InOrder(texts') /\ AllBefore(texts', wire') /\ AllBefore(texts', coming)
        /\ receiving' => AllBefore(texts', data')
        /\ \A n \in 1 .. Len(texts') : Known(texts'[n], asked)
    <3>1. CASE Finish(data')
      <4>1. /\ InOrder(texts') /\ ~receiving'
            /\ \A u : Before(data', u) /\ AllBefore(texts, u) => AllBefore(texts', u)
            /\ \A n \in 1 .. Len(texts') : Known(texts'[n], asked)
        BY <2>2, <2>4, <2>5, <3>1, FinishOrder
      <4> QED
        BY <2>4, <2>5, <4>1
    <3>2. CASE UNCHANGED <<receiving, texts>>
      BY <2>5, <3>2
    <3> QED
      BY <2>1, <3>1, <3>2
  <2> QED
    BY <2>1, <2>4, <2>5, <2>6 DEF OrderInv
<1>4. CASE ReadTimeout
  <2>1. /\ UNCHANGED <<asked, coming, wire, data>>
        /\ Finish(data) /\ receiving
    BY <1>4 DEF ReadTimeout
  <2>2. /\ InOrder(texts) /\ AllBefore(texts, data) /\ Sorted(data) /\ Known(data, asked)
        /\ \A n \in 1 .. Len(texts) : Known(texts[n], asked)
    BY <2>1 DEF OrderInv
  <2>3. /\ InOrder(texts') /\ ~receiving'
        /\ \A u : Before(data, u) /\ AllBefore(texts, u) => AllBefore(texts', u)
        /\ \A n \in 1 .. Len(texts') : Known(texts'[n], asked)
    BY <1>0, <2>1, <2>2, FinishOrder
  <2>4. AllBefore(texts', wire) /\ AllBefore(texts', coming)
    BY <2>3 DEF OrderInv
  <2> QED
    BY <2>1, <2>3, <2>4 DEF OrderInv
<1>5. CASE UNCHANGED receiveVars
  BY <1>5 DEF receiveVars, OrderInv
<1> QED
  BY <1>1, <1>2, <1>3, <1>4, <1>5 DEF ReceiveStep

(* receiveData keeps the bytes of the item, the line and the texts in the  *)
(* order of the stream, for any item size, any lengths of answers and any  *)
(* number of commands, in time or late.                                    *)
THEOREM ReceiveInvariant == ReceiveSpec => [](ReceiveTypeOK /\ OrderInv)
<1>1. ReceiveInit => ReceiveTypeOK /\ OrderInv
  BY ReceiveTypeInit, OrderInit
<1>2. ReceiveTypeOK /\ OrderInv /\ [ReceiveStep]_receiveVars => (ReceiveTypeOK /\ OrderInv)'
  BY ReceiveTypeNext, OrderNext
<1> QED
  BY <1>1, <1>2, PTL DEF ReceiveSpec

(* No byte is delivered twice or before one that came earlier, even when   *)
(* answers come late and run into one another or do not fit                *)
(* (sendtmc200cmdsthread.c:74-124).                                        *)
THEOREM OrderKept == ReceiveSpec => []InStreamOrder
<1>1. ReceiveTypeOK /\ OrderInv => InStreamOrder
  <2> SUFFICES ASSUME ReceiveTypeOK, OrderInv,
                      NEW i \in DOMAIN texts, NEW j \in DOMAIN texts,
                      NEW k \in DOMAIN texts[i], NEW l \in DOMAIN texts[j],
                      i < j \/ (i = j /\ k < l)
               PROVE  Earlier(texts[i][k], texts[j][l])
    BY DEF InStreamOrder
  <2>1. DOMAIN texts = 1 .. Len(texts) /\ texts[i] \in Bytes /\ texts[j] \in Bytes
    BY LenProperties, ElementOfSeq DEF ReceiveTypeOK, Bytes
  <2>2. DOMAIN texts[i] = 1 .. Len(texts[i]) /\ DOMAIN texts[j] = 1 .. Len(texts[j])
    BY <2>1, LenProperties DEF Bytes
  <2>3. CASE i < j
    BY <2>1, <2>2, <2>3 DEF OrderInv, InOrder, Before
  <2>4. CASE i = j /\ k < l
    BY <2>1, <2>2, <2>4 DEF OrderInv, InOrder, Sorted
  <2> QED
    BY <2>3, <2>4
<1> QED
  BY <1>1, ReceiveInvariant, PTL

Answered == {n \in 1 .. Questions : lengths[n] # -1}

(* The texts are those of the answers among the first k.                   *)
Delivered(ts, k) ==
  /\ Len(ts) = Rank(Answered, k)
  /\ \A n \in 1 .. k : n \in Answered => ts[Rank(Answered, n)] = TextOf(n)

(* The item, the line and the device hold the answer between them.         *)
Spread(answer, d, w, c) ==
  /\ Part(d, answer, 0) /\ Part(w, answer, Len(d)) /\ Part(c, answer, Len(d) + Len(w))
  /\ Len(d) + Len(w) + Len(c) = Len(answer)

InTime == prompt /\ \A n \in 1 .. Questions : Fits(n)

WholeInv ==
  InTime =>
    /\ Delivered(texts, IF receiving THEN asked - 1 ELSE asked)
    /\ receiving => asked >= 1 /\ Spread(AnswerTo(asked), data, wire, coming) /\ ~EndsInBreak(data)
    /\ ~receiving => Len(wire) = 0 /\ Len(coming) = 0 /\ Len(data) # 1

(* Bytes passed on stay where they are within the answer.                  *)
LEMMA MovesWithin ==
  ASSUME NEW h \in Bytes, NEW from \in Bytes, NEW fromNew \in Bytes,
         NEW to \in Bytes, NEW toNew \in Bytes, Passes(h, from, fromNew, to, toNew),
         NEW answer, NEW o \in Nat, Part(to, answer, o), Part(from, answer, o + Len(to))
  PROVE  /\ Part(toNew, answer, o) /\ Part(fromNew, answer, o + Len(toNew))
         /\ Len(toNew) + Len(fromNew) = Len(to) + Len(from)
<1>1. /\ Len(h) \in Nat /\ Len(to) \in Nat /\ Len(from) \in Nat /\ Len(fromNew) \in Nat
      /\ Len(toNew) = Len(to) + Len(h) /\ Len(fromNew) = Len(from) - Len(h)
  BY LenProperties DEF Passes, Join, Bytes
<1>2. ASSUME NEW i \in 1 .. Len(toNew)
      PROVE  o + i \in 1 .. Len(answer) /\ toNew[i] = answer[o + i]
  <2>1. CASE i \in 1 .. Len(to)
    BY <2>1 DEF Passes, Join, Part
  <2>2. CASE i \notin 1 .. Len(to)
    <3> DEFINE j == i - Len(to)
    <3>1. j \in 1 .. Len(h) /\ Len(to) + j = i /\ 0 + j = j /\ (o + Len(to)) + j = o + i
      BY <1>1, <2>2
    <3> HIDE DEF j
    <3>2. toNew[i] = h[j] /\ j \in 1 .. Len(from) /\ h[j] = from[j]
      BY <3>1 DEF Passes, Join, Part
    <3> QED
      BY <3>1, <3>2 DEF Part
  <2> QED
    BY <2>1, <2>2
<1>3. ASSUME NEW i \in 1 .. Len(fromNew)
      PROVE  (o + Len(toNew)) + i \in 1 .. Len(answer) /\ fromNew[i] = answer[(o + Len(toNew)) + i]
  <2> DEFINE j == Len(h) + i
  <2>1. (o + Len(to)) + j = (o + Len(toNew)) + i
    BY <1>1
  <2>2. j \in 1 .. Len(from) /\ fromNew[i] = from[j]
    BY DEF Passes, Part
  <2> HIDE DEF j
  <2> QED
    BY <2>1, <2>2 DEF Part
<1> QED
  BY <1>1, <1>2, <1>3 DEF Part

(* When the whole answer is in the item, its text is what is queued.       *)
LEMMA FinishWhole ==
  ASSUME ReceiveTypeOK, UNCHANGED <<lengths, asked>>, asked >= 1,
         NEW bytes \in Bytes, Finish(bytes),
         Part(bytes, AnswerTo(asked), 0), Len(bytes) = Len(AnswerTo(asked)),
         Delivered(texts, asked - 1)
  PROVE  Delivered(texts', asked) /\ Len(bytes) # 1
<1> DEFINE rank(k) == Rank(Answered, k)
<1>1. asked \in 1 .. Questions /\ asked \in Nat /\ asked # 0 /\ asked - 1 \in Nat
  BY QuestionsAssumption DEF ReceiveTypeOK
<1>2. PICK a \in 1 .. Questions : a = asked
  BY <1>1
<1> DEFINE answer == AnswerTo(a)
           l == lengths[a]
<1>3. /\ l = -1 \/ l \in Nat
      /\ Len(answer) = IF l = -1 THEN 0 ELSE l + 2
      /\ l # -1 => /\ TextOf(a) \in Bytes /\ Len(TextOf(a)) = l
                   /\ \A i \in 1 .. l : TextOf(a)[i] = answer[i]
  BY AnswerIs DEF Bytes
<1>4. Part(bytes, answer, 0) /\ Len(bytes) = Len(answer)
  BY <1>2
<1>5. a \in Answered <=> l # -1
  BY DEF Answered
<1> HIDE DEF answer, l
<1>6. /\ rank(asked) \in Nat /\ rank(asked - 1) \in Nat
      /\ rank(asked) = rank(asked - 1) + (IF asked \in Answered THEN 1 ELSE 0)
      /\ \A n \in 1 .. asked - 1 : n \in Answered => rank(n) \in 1 .. rank(asked - 1)
  BY <1>1, RankSteps
<1> HIDE DEF rank
<1>7. /\ Len(texts) = rank(asked - 1)
      /\ \A n \in 1 .. asked - 1 : n \in Answered => texts[rank(n)] = TextOf(n)
  BY DEF Delivered, rank
<1>8. CASE l = -1
  <2>1. Len(bytes) = 0
    BY <1>3, <1>4, <1>8
  <2>2. texts' = texts
    <3>1. ~(Len(bytes) >= 2)
      BY <2>1
    <3> QED
      BY <3>1, FinishQueues
  <2>3. asked \notin Answered
    BY <1>2, <1>5, <1>8
  <2>4. \A n \in 1 .. asked : n \in Answered => n \in 1 .. asked - 1
    BY <1>1, <2>3
  <2> QED
    BY <1>6, <1>7, <2>1, <2>2, <2>3, <2>4 DEF Delivered, rank
<1>9. CASE l # -1
  <2>1. l \in Nat /\ Len(bytes) = l + 2 /\ Len(bytes) >= 2 /\ Len(bytes) - 2 = l /\ Len(bytes) # 1
    BY <1>3, <1>4, <1>9
  <2>2. PICK t \in Bytes : /\ Len(texts') = Len(texts) + 1
                           /\ \A n \in 1 .. Len(texts) : texts'[n] = texts[n]
                           /\ texts'[Len(texts) + 1] = t
                           /\ Len(t) = l /\ Part(t, bytes, 0)
    <3>1. ~(Len(bytes) < 2)
      BY <2>1
    <3> QED
      BY <2>1, <3>1, FinishQueues
  <2>3. t = TextOf(a)
    <3>1. ASSUME NEW i \in 1 .. l PROVE t[i] = TextOf(a)[i]
      <4>1. 0 + i = i
        OBVIOUS
      <4>2. i \in 1 .. Len(bytes) /\ t[i] = bytes[i]
        BY <2>2, <4>1 DEF Part
      <4>3. bytes[i] = answer[i]
        BY <1>4, <4>1, <4>2 DEF Part
      <4> QED
        BY <1>3, <1>9, <4>2, <4>3
    <3> QED
      BY <1>3, <1>9, <2>2, <3>1, SeqEqual DEF Bytes
  <2>4. asked \in Answered
    BY <1>2, <1>5, <1>9
  <2>5. ASSUME NEW n \in 1 .. asked, n \in Answered
        PROVE  texts'[rank(n)] = TextOf(n)
    <3>1. n \in 1 .. asked - 1 \/ n = asked
      BY <1>1
    <3>2. CASE n \in 1 .. asked - 1
      BY <1>6, <1>7, <2>2, <2>5, <3>2
    <3>3. CASE n = asked
      BY <1>2, <1>6, <1>7, <2>2, <2>3, <2>4, <3>3
    <3> QED
      BY <3>1, <3>2, <3>3
  <2> QED
    BY <1>6, <1>7, <2>1, <2>2, <2>4, <2>5 DEF Delivered, rank
<1> QED
  BY <1>8, <1>9

(* At first there is nothing to deliver.                                   *)
LEMMA WholeInit ==
  ASSUME ReceiveInit PROVE WholeInv
<1>1. /\ asked = 0 /\ receiving = FALSE
      /\ Len(data) = 0 /\ Len(wire) = 0 /\ Len(coming) = 0 /\ Len(texts) = 0
  BY DEF ReceiveInit
<1>2. Rank(Answered, 0) = 0 /\ 1 .. 0 = {}
  BY RankSteps
<1> QED
  BY <1>1, <1>2 DEF WholeInv, Delivered

(* A break is found at the end of the answer and nowhere before.           *)
LEMMA BreakAtEnd ==
  ASSUME ReceiveTypeOK, NEW n \in 1 .. Questions, NEW bytes \in Bytes,
         Part(bytes, AnswerTo(n), 0), EndsInBreak(bytes)
  PROVE  Len(bytes) = Len(AnswerTo(n))
<1> DEFINE answer == AnswerTo(n)
           l == lengths[n]
           k == Len(bytes) - 1
<1>1. /\ l = -1 \/ l \in Nat
      /\ Len(answer) = IF l = -1 THEN 0 ELSE l + 2
      /\ \A i \in 1 .. Len(answer) :
           answer[i] = IF i = l + 1 THEN Byte(n, i, TRUE) ELSE Byte(n, i, FALSE)
  BY AnswerIs
<1>2. Part(bytes, answer, 0)
  OBVIOUS
<1> HIDE DEF answer, l
<1>3. Len(bytes) \in Nat /\ Len(bytes) > 2 /\ bytes[k].lineBreak
  BY LenProperties DEF EndsInBreak, Bytes
<1>4. k \in 1 .. Len(bytes) /\ 0 + k = k
  BY <1>3
<1> HIDE DEF k
<1>5. k \in 1 .. Len(answer) /\ bytes[k] = answer[k]
  BY <1>2, <1>4 DEF Part
<1>6. k = l + 1
  <2> SUFFICES ASSUME k # l + 1 PROVE FALSE
    OBVIOUS
  <2>1. bytes[k] = Byte(n, k, FALSE)
    BY <1>1, <1>5
  <2>2. bytes[k].lineBreak = FALSE
    BY <2>1 DEF Byte
  <2> QED
    BY <1>3, <2>2
<1>7. l # -1
  BY <1>1, <1>5
<1> QED
  BY <1>1, <1>3, <1>6, <1>7 DEF k, answer

(* Every step keeps the answer in progress together and delivers it whole. *)
LEMMA WholeNext ==
  ASSUME ReceiveTypeOK, WholeInv, [ReceiveStep]_receiveVars
  PROVE  WholeInv'
<1>0. prompt' = prompt /\ lengths' = lengths
  BY DEF ReceiveStep, Ask, Emit, Read, ReadTimeout, receiveVars
<1>1. InTime' => InTime
  BY <1>0 DEF InTime, Fits
<1> SUFFICES ASSUME InTime
             PROVE  (/\ Delivered(texts, IF receiving THEN asked - 1 ELSE asked)
                     /\ receiving => asked >= 1 /\ Spread(AnswerTo(asked), data, wire, coming) /\ ~EndsInBreak(data)
                     /\ ~receiving => Len(wire) = 0 /\ Len(coming) = 0 /\ Len(data) # 1)'
  BY <1>1 DEF WholeInv
<1>2. /\ Delivered(texts, IF receiving THEN asked - 1 ELSE asked)
      /\ receiving => asked >= 1 /\ Spread(AnswerTo(asked), data, wire, coming) /\ ~EndsInBreak(data)
      /\ ~receiving => Len(wire) = 0 /\ Len(coming) = 0 /\ Len(data) # 1
  BY DEF WholeInv
<1>3. coming \in Bytes /\ wire \in Bytes /\ data \in Bytes
      /\ Len(coming) \in Nat /\ Len(wire) \in Nat /\ Len(data) \in Nat
      /\ asked \in Nat /\ receiving \in BOOLEAN
  BY QuestionsAssumption, LenProperties DEF ReceiveTypeOK, Bytes
<1>4. /\ \A n : AnswerTo(n)' = AnswerTo(n) /\ TextOf(n)' = TextOf(n)
      /\ Answered' = Answered
  BY <1>0 DEF AnswerTo, TextOf, Answered, Byte
<1> SUFFICES /\ Delivered(texts', IF receiving' THEN asked' - 1 ELSE asked')
             /\ receiving' => /\ asked' >= 1 /\ Spread(AnswerTo(asked'), data', wire', coming')
                              /\ ~EndsInBreak(data')
             /\ ~receiving' => Len(wire') = 0 /\ Len(coming') = 0 /\ Len(data') # 1
  BY <1>4 DEF Delivered, Rank, Spread, EndsInBreak, Part
<1>5. CASE Ask
  <2> DEFINE answer == AnswerTo(asked')
  <2>1. /\ asked' = asked + 1 /\ answer \in Bytes /\ Join(coming', coming, answer)
        /\ Len(data') = 0 /\ Len(answer) \in Nat /\ data' \in Bytes
    BY <1>5, AskJoins, LenProperties DEF Bytes
  <2>2. wire' = wire /\ texts' = texts /\ receiving' = TRUE /\ receiving = FALSE
    BY <1>3, <1>5 DEF Ask
  <2> HIDE DEF answer
  <2>3. asked' - 1 = asked /\ asked' >= 1
    BY <1>3, <2>1
  <2>4. Len(wire') = 0 /\ Len(coming) = 0 /\ 1 .. 0 = {}
    BY <1>2, <2>2
  <2>5. Len(coming') = Len(answer) /\ \A i \in 1 .. Len(answer) : 0 + i = i /\ coming'[i] = answer[i]
    BY <2>1, <2>4 DEF Join
  <2>6. /\ Part(data', answer, 0) /\ Part(wire', answer, 0) /\ Part(coming', answer, 0)
        /\ Len(data') + Len(wire') = 0 /\ Len(data') + Len(wire') + Len(coming') = Len(answer)
    BY <2>1, <2>4, <2>5 DEF Part
  <2>7. Spread(answer, data', wire', coming') /\ ~EndsInBreak(data')
    BY <2>1, <2>6 DEF Spread, EndsInBreak
  <2> QED
    BY <1>2, <2>2, <2>3, <2>7 DEF answer
<1>6. CASE Emit
  <2>1. UNCHANGED <<asked, receiving, data, texts>> /\ coming # <<>>
    BY <1>6 DEF Emit
  <2>2. PICK h \in Bytes : /\ coming' \in Bytes /\ wire' \in Bytes
                           /\ Passes(h, coming, coming', wire, wire')
    BY <1>6, EmitMoves
  <2>3. receiving
    <3>1. Len(coming) # 0
      BY <1>3, <2>1, EmptySeq DEF Bytes
    <3> QED
      BY <1>2, <3>1
  <2> DEFINE answer == AnswerTo(asked)
  <2>4. Spread(answer, data, wire, coming)
    BY <1>2, <2>3
  <2> HIDE DEF answer
  <2>5. /\ Part(wire', answer, Len(data)) /\ Part(coming', answer, Len(data) + Len(wire'))
        /\ Len(wire') + Len(coming') = Len(wire) + Len(coming)
    BY <1>3, <2>2, <2>4, MovesWithin DEF Spread
  <2>6. Len(wire') \in Nat /\ Len(coming') \in Nat
    BY <2>2, LenProperties DEF Bytes
  <2>7. Len(data) + Len(wire') + Len(coming') = Len(answer)
    BY <1>3, <2>4, <2>5, <2>6 DEF Spread
  <2>8. Spread(answer, data, wire', coming')
    BY <2>4, <2>5, <2>7 DEF Spread
  <2> QED
    BY <1>2, <2>1, <2>3, <2>8 DEF answer
<1>7. ASSUME receiving, asked' = asked, NEW bytes \in Bytes, Finish(bytes),
             Part(bytes, AnswerTo(asked), 0), Len(bytes) = Len(AnswerTo(asked))
      PROVE  receiving' = FALSE /\ Delivered(texts', asked') /\ Len(bytes) # 1
  <2>1. asked >= 1 /\ Delivered(texts, asked - 1)
    BY <1>2, <1>7
  <2>2. Delivered(texts', asked) /\ Len(bytes) # 1
    BY <1>0, <1>7, <2>1, FinishWhole
  <2> QED
    BY <1>7, <2>2, FinishQueues
<1>8. CASE Read
  <2>1. /\ asked' = asked /\ coming' = coming /\ receiving
        /\ IF EndsInBreak(data') THEN Finish(data') ELSE UNCHANGED <<receiving, texts>>
    BY <1>8, Zenon DEF Read
  <2>2. PICK h \in Bytes : /\ data' \in Bytes /\ wire' \in Bytes
                           /\ Passes(h, wire, wire', data, data')
    BY <1>8, ReadMoves
  <2> DEFINE answer == AnswerTo(asked)
  <2>3. Spread(answer, data, wire, coming) /\ asked \in 1 .. Questions
    BY <1>2, <2>1 DEF ReceiveTypeOK
  <2> HIDE DEF answer
  <2>4. /\ Part(data', answer, 0) /\ Part(wire', answer, 0 + Len(data'))
        /\ Len(data') + Len(wire') = Len(data) + Len(wire)
    <3>1. 0 + Len(data) = Len(data)
      BY <1>3
    <3>2. Part(data, answer, 0) /\ Part(wire, answer, 0 + Len(data))
      BY <2>3, <3>1 DEF Spread
    <3> QED
      BY <1>3, <2>2, <3>2, MovesWithin
  <2>5. Len(data') \in Nat /\ Len(wire') \in Nat /\ 0 + Len(data') = Len(data')
    BY <2>2, LenProperties DEF Bytes
  <2>6. Spread(answer, data', wire', coming)
    BY <2>3, <2>4, <2>5 DEF Spread
  <2>7. CASE EndsInBreak(data')
    <3>1. Len(data') = Len(answer)
      <4>1. PICK n \in 1 .. Questions : n = asked
        BY <2>3
      <4> QED
        BY <2>2, <2>4, <2>7, <4>1, BreakAtEnd DEF answer
    <3>2. Len(wire') = 0 /\ Len(coming) = 0
      BY <1>3, <2>5, <2>6, <3>1 DEF Spread
    <3>3. receiving' = FALSE /\ Delivered(texts', asked') /\ Len(data') # 1
      BY <1>7, <2>1, <2>2, <2>4, <2>7, <3>1 DEF answer
    <3> QED
      BY <2>1, <3>2, <3>3
  <2>8. CASE ~EndsInBreak(data')
    <3>1. receiving' = receiving /\ texts' = texts
      BY <2>1, <2>8
    <3> QED
      BY <1>2, <2>1, <2>6, <2>8, <3>1 DEF answer
  <2> QED
    BY <2>7, <2>8
<1>9. CASE ReadTimeout
  <2>1. /\ UNCHANGED <<asked, coming, wire, data>> /\ Finish(data) /\ receiving
        /\ \/ Len(data) = DataSize
           \/ wire = <<>> /\ coming = <<>>
    BY <1>9 DEF ReadTimeout, InTime
  <2> DEFINE answer == AnswerTo(asked)
  <2>2. Spread(answer, data, wire, coming) /\ asked \in 1 .. Questions
    BY <1>2, <2>1 DEF ReceiveTypeOK
  <2>3. Len(answer) <= DataSize /\ Len(answer) \in Nat /\ DataSize \in Nat
    <3>1. PICK n \in 1 .. Questions : n = asked
      BY <2>2
    <3>2. /\ lengths[n] = -1 \/ lengths[n] \in Nat
          /\ Len(AnswerTo(n)) = IF lengths[n] = -1 THEN 0 ELSE lengths[n] + 2
      BY AnswerIs
    <3>3. lengths[n] + 2 <= DataSize
      BY DEF InTime, Fits
    <3> QED
      BY <3>1, <3>2, <3>3, DataSizeAssumption
  <2> HIDE DEF answer
  <2>4. Len(data) = Len(answer) /\ Len(wire) = 0 /\ Len(coming) = 0
    <3>1. CASE Len(data) = DataSize
      BY <1>3, <2>2, <2>3, <3>1 DEF Spread
    <3>2. CASE wire = <<>> /\ coming = <<>>
      <4>1. Len(wire) = 0 /\ Len(coming) = 0
        BY <3>2
      <4> QED
        BY <1>3, <2>2, <2>3, <4>1 DEF Spread
    <3> QED
      BY <2>1, <3>1, <3>2
  <2>5. Part(data, answer, 0)
    BY <2>2 DEF Spread
  <2>6. receiving' = FALSE /\ Delivered(texts', asked') /\ Len(data) # 1
    BY <1>3, <1>7, <2>1, <2>4, <2>5 DEF answer
  <2> QED
    BY <2>1, <2>4, <2>6
<1>10. CASE UNCHANGED receiveVars
  BY <1>2, <1>10 DEF receiveVars
<1> QED
  BY <1>5, <1>6, <1>8, <1>9, <1>10 DEF ReceiveStep

(* While the device is prompt and its answers fit, every answer is         *)
(* delivered whole and by itself, in the order of the commands, however    *)
(* its bytes are spread over the reads, and the terminator is written      *)
(* within the item; for any item size, any lengths and any number of       *)
(* commands (sendtmc200cmdsthread.c:74-124).                               *)
THEOREM AnswersDelivered == ReceiveSpec => []AnswersWhole
<1>1. ReceiveTypeOK /\ WholeInv => AnswersWhole
  <2> DEFINE answered == {n \in 1 .. asked : lengths[n] # -1}
             done == IF receiving THEN asked - 1 ELSE asked
             delivered == IF receiving THEN answered \ {asked} ELSE answered
  <2> SUFFICES ASSUME ReceiveTypeOK, WholeInv, InTime
               PROVE  /\ Len(texts) = Cardinality(delivered)
                      /\ \A n \in delivered :
                           texts[Cardinality({m \in delivered : m <= n})] = TextOf(n)
                      /\ ~receiving => Len(data) # 1
    BY Zenon DEF AnswersWhole, InTime
  <2>1. /\ Delivered(texts, done)
        /\ receiving => asked >= 1
        /\ ~receiving => Len(data) # 1
    BY Zenon DEF WholeInv
  <2>2. asked \in 0 .. Questions /\ done \in Int /\ done <= asked /\ asked \in Int /\ Questions \in Nat
    BY QuestionsAssumption DEF ReceiveTypeOK
  <2>3. \A n : n \in delivered <=> n \in 1 .. done /\ n \in Answered
    BY <2>2 DEF Answered
  <2> HIDE DEF delivered, done, answered
  <2>4. delivered = {j \in 1 .. done : j \in Answered}
    BY <2>3
  <2>5. ASSUME NEW n \in delivered
        PROVE  {m \in delivered : m <= n} = {j \in 1 .. n : j \in Answered} /\ n \in 1 .. done /\ n \in Answered
    <3>1. n \in 1 .. done /\ n \in Answered
      BY <2>3
    <3>2. \A m : m \in 1 .. done /\ m <= n <=> m \in 1 .. n
      BY <2>2, <3>1
    <3> QED
      BY <2>3, <3>1, <3>2
  <2>6. Len(texts) = Cardinality(delivered)
    BY <2>1, <2>4, Zenon DEF Delivered, Rank
  <2>7. ASSUME NEW n \in delivered
        PROVE  texts[Cardinality({m \in delivered : m <= n})] = TextOf(n)
    <3>1. texts[Rank(Answered, n)] = TextOf(n)
      BY <2>1, <2>5, Zenon DEF Delivered
    <3>2. Rank(Answered, n) = Cardinality({m \in delivered : m <= n})
      BY <2>5, Zenon DEF Rank
    <3> QED
      BY <3>1, <3>2, Zenon
  <2> QED
    BY <2>1, <2>6, <2>7, Zenon
<1>2. ReceiveInit => ReceiveTypeOK /\ WholeInv
  BY ReceiveTypeInit, WholeInit
<1>3. ReceiveTypeOK /\ WholeInv /\ [ReceiveStep]_receiveVars => (ReceiveTypeOK /\ WholeInv)'
  BY ReceiveTypeNext, WholeNext
<1> QED
  BY <1>1, <1>2, <1>3, PTL DEF ReceiveSpec

=============================================================================
