-------------------------------- MODULE Gate --------------------------------
(***************************************************************************)
(* The pause flag of one library thread (threads_common.c), lock by lock:  *)
(* the thread, which may have paused itself, waits on the condition        *)
(* variable until the flag is clear.  Other threads resume it when they    *)
(* find it paused, or pause it for a while, as waitForTMC200Feedback does. *)
(* Two mutexes protect the flag: tThreadMutex orders the writers and the   *)
(* readers, tWakeUpThreadMutex ties the flag to the condition variable.    *)
(* ThreadsCommon has an atomic action for every one of these calls; that   *)
(* this is what the code does is shown here.                               *)
(***************************************************************************)
EXTENDS Integers

CONSTANTS Worker,    \* the library thread
          Callers,   \* the threads that look after it
          Nobody,    \* the owner of a free mutex
          MaxLooks   \* how often each caller does so (a bound)

Threads == Callers \cup {Worker}

ASSUME ThreadsAssumption == Worker \notin Callers /\ Nobody \notin Threads
ASSUME MaxLooksAssumption == MaxLooks \in Nat

VARIABLES tThreadMutex, tWakeUpThreadMutex,  \* their owners
          isPaused,
          asleep,                            \* whether the worker is in pthread_cond_wait
          step,                              \* where each thread is
          looks                              \* how often each caller has looked or paused

mutexVars == <<tThreadMutex, tWakeUpThreadMutex>>
gateVars == <<mutexVars, isPaused, asleep, step, looks>>

GateInit ==
  /\ tThreadMutex = Nobody /\ tWakeUpThreadMutex = Nobody
  /\ isPaused = FALSE
  /\ asleep = FALSE
  /\ step = [t \in Threads |-> IF t = Worker THEN "work" ELSE "look"]
  /\ looks = [c \in Callers |-> 0]

Move(t, from, to) == step[t] = from /\ step' = [step EXCEPT ![t] = to]

(* pauseThread, resumeThread and isThreadPaused begin with tThreadMutex.   *)
LockThread(t) ==
  /\ \/ Move(t, "work", "pause")
     \/ Move(t, "look", "read") /\ looks[t] < MaxLooks
     \/ Move(t, "look", "pause") /\ looks[t] < MaxLooks
     \/ Move(t, "resume", "resuming")
  /\ tThreadMutex = Nobody /\ tThreadMutex' = t
  /\ UNCHANGED <<tWakeUpThreadMutex, isPaused, asleep, looks>>

(* Mutant: resumeThread does without tWakeUpThreadMutex.                   *)
LockWakeUpNot(t) ==
  \/ /\ Move(t, "resuming", "clear")
     /\ UNCHANGED <<mutexVars, isPaused, asleep, looks>>
  \/ /\ \/ Move(t, "pause", "set")
        \/ Move(t, "check", "test") \/ Move(t, "work", "test")
     /\ tWakeUpThreadMutex = Nobody /\ tWakeUpThreadMutex' = t
     /\ UNCHANGED <<tThreadMutex, isPaused, asleep, looks>>

(* checkThreadPaused begins with tWakeUpThreadMutex; the feedback thread   *)
(* also calls it without having paused itself.                             *)
LockWakeUp(t) ==
  /\ \/ Move(t, "pause", "set") \/ Move(t, "resuming", "clear")
     \/ Move(t, "check", "test") \/ Move(t, "work", "test")
  /\ tWakeUpThreadMutex = Nobody /\ tWakeUpThreadMutex' = t
  /\ UNCHANGED <<tThreadMutex, isPaused, asleep, looks>>

SetPaused(t) ==
  /\ Move(t, "set", "unlock") /\ isPaused' = TRUE
  /\ looks' = IF t = Worker THEN looks ELSE [looks EXCEPT ![t] = @ + 1]
  /\ UNCHANGED <<mutexVars, asleep>>

ClearPaused(t) ==
  /\ Move(t, "clear", "broadcast") /\ isPaused' = FALSE
  /\ UNCHANGED <<mutexVars, asleep, looks>>

(* Mutant: nobody is woken.                                                *)
BroadcastToNone(t) ==
  /\ Move(t, "broadcast", "unlock")
  /\ UNCHANGED <<mutexVars, isPaused, asleep, looks>>

Broadcast(t) ==
  /\ Move(t, "broadcast", "unlock") /\ asleep' = FALSE
  /\ UNCHANGED <<mutexVars, isPaused, looks>>

UnlockWakeUp(t) ==
  /\ Move(t, "unlock", "unlockThread") \/ Move(t, "pass", "work")
  /\ tWakeUpThreadMutex' = Nobody
  /\ UNCHANGED <<tThreadMutex, isPaused, asleep, looks>>

(* Where a call ends.  A caller that has paused the worker resumes it      *)
(* whatever happens meanwhile; the flag is still as it has left it.        *)
UnlockThread(t) ==
  /\ \/ t = Worker /\ Move(t, "unlockThread", "check")
     \/ t # Worker /\ Move(t, "unlockThread", IF isPaused THEN "resume" ELSE "look")
     \/ Move(t, "notPaused", "look") \/ Move(t, "paused", "resume")
  /\ tThreadMutex' = Nobody
  /\ UNCHANGED <<tWakeUpThreadMutex, isPaused, asleep, looks>>

(* isThreadPaused: what it returns decides whether the caller resumes.     *)
ReadPaused(c) ==
  /\ Move(c, "read", IF isPaused THEN "paused" ELSE "notPaused")
  /\ looks' = [looks EXCEPT ![c] = @ + 1]
  /\ UNCHANGED <<mutexVars, isPaused, asleep>>

(* checkThreadPaused reads the flag and waits in two steps, between which  *)
(* it holds the mutex; the wait gives the mutex up while it lasts.         *)
Test ==
  /\ Move(Worker, "test", IF isPaused THEN "wait" ELSE "pass")
  /\ UNCHANGED <<mutexVars, isPaused, asleep, looks>>

Sleep ==
  /\ Move(Worker, "wait", "asleep")
  /\ asleep' = TRUE /\ tWakeUpThreadMutex' = Nobody
  /\ UNCHANGED <<tThreadMutex, isPaused, looks>>

(* Mutant: the flag is not tested again.                                   *)
WakeUpPasses ==
  /\ ~asleep /\ Move(Worker, "asleep", "pass")
  /\ tWakeUpThreadMutex = Nobody /\ tWakeUpThreadMutex' = Worker
  /\ UNCHANGED <<tThreadMutex, isPaused, asleep, looks>>

WakeUp ==
  /\ ~asleep /\ Move(Worker, "asleep", "test")
  /\ tWakeUpThreadMutex = Nobody /\ tWakeUpThreadMutex' = Worker
  /\ UNCHANGED <<tThreadMutex, isPaused, asleep, looks>>

SpuriousWakeUp ==
  /\ asleep /\ asleep' = FALSE
  /\ UNCHANGED <<mutexVars, isPaused, step, looks>>

ThreadStep(t) ==
  \/ LockThread(t) \/ LockWakeUp(t) \/ UnlockWakeUp(t) \/ UnlockThread(t) \/ SetPaused(t)
  \/ t = Worker /\ (Test \/ Sleep \/ WakeUp)
  \/ t \in Callers /\ (ReadPaused(t) \/ ClearPaused(t) \/ Broadcast(t))

GateStep == SpuriousWakeUp \/ \E t \in Threads : ThreadStep(t)

(* The scheduler runs every thread that can run, and spurious wake-ups do  *)
(* not keep a thread from a mutex that is free again and again.            *)
GateFairness ==
  \A t \in Threads : WF_gateVars(ThreadStep(t)) /\ SF_gateVars(LockWakeUp(t))

-----------------------------------------------------------------------------
Waits == step[Worker] \in {"check", "test", "wait", "asleep"}

AtomicGate == INSTANCE ThreadsCommon WITH
  isAlive <- [TMC200FEEDBACK |-> TRUE],
  isPaused <- [TMC200FEEDBACK |-> isPaused],
  pc <- [TMC200FEEDBACK |-> IF Waits THEN "wait" ELSE "work"]

(* The flag and the worker's waiting change only as by the atomic calls of *)
(* ThreadsCommon: the worker passes checkThreadPaused only at an instant   *)
(* at which it is not paused, for all the waking up in between.            *)
GateImplemented ==
  [][\/ AtomicGate!pauseThread("TMC200FEEDBACK") /\ UNCHANGED Waits
     \/ AtomicGate!resumeThread("TMC200FEEDBACK") /\ UNCHANGED Waits
     \/ AtomicGate!At("TMC200FEEDBACK", "work") /\ AtomicGate!Goto("TMC200FEEDBACK", "wait") /\ UNCHANGED isPaused
     \/ /\ AtomicGate!At("TMC200FEEDBACK", "wait") /\ AtomicGate!Goto("TMC200FEEDBACK", "work")
        /\ AtomicGate!checkThreadPaused("TMC200FEEDBACK")
        /\ UNCHANGED isPaused]_<<isPaused, Waits>>

(* No wake-up is lost: a worker that sleeps although its flag is clear is  *)
(* yet to be broadcast to, by the thread that has cleared the flag and     *)
(* still holds both mutexes (resumeThread, checkThreadPaused).             *)
NoWakeUpLost == asleep /\ ~isPaused => \E c \in Callers : step[c] = "broadcast"

(* A worker whose pause another thread has seen, or caused, gets through,  *)
(* although it may fall asleep between that and the broadcast, wake up for *)
(* nothing before it, and find itself paused by a third thread after it;   *)
(* and no order of the two mutexes locks anybody up.                       *)
GatePasses ==
  \A c \in Callers :
    /\ step[c] = "resume" ~> step[Worker] = "work"
    /\ step[c] = "resume" ~> step[c] = "look"

=============================================================================
