--------------------------- MODULE ThreadsCommon ----------------------------
(***************************************************************************)
(* The thread control block of libtmc200ctrl_io (threads_common.c): one    *)
(* alive flag and one pause flag per library thread.                       *)
(*                                                                         *)
(* pauseThread and resumeThread write the flag holding both mutexes of the *)
(* thread, so each is one atomic step.  checkThreadPaused waits on the     *)
(* condition variable in a loop that re-reads the flag under the mutex     *)
(* under which resumeThread clears it and broadcasts: it is the await      *)
(* below.  isThreadAlive and isThreadPaused read a flag under a mutex;     *)
(* shutdownThread and initThread write without it, which on a flag of one  *)
(* word is still a single atomic store.                                    *)
(*                                                                         *)
(* pc holds, for every process, the label of its next atomic step.         *)
(***************************************************************************)
EXTENDS Integers

(* LIBTMC200CTRL_COMMON_THREADS, and the thread that calls the library.    *)
SENDTMC200CMDS == "SENDTMC200CMDS"
TMC200FEEDBACK == "TMC200FEEDBACK"
Thread == {SENDTMC200CMDS, TMC200FEEDBACK}
Main == "main"
Process == Thread \cup {Main}

VARIABLES
  isAlive,   \* [Thread -> BOOLEAN]
  isPaused,  \* [Thread -> BOOLEAN]
  pc         \* [Process -> label]

flagVars == <<isAlive, isPaused>>

ThreadsInit ==
  /\ isAlive = [t \in Thread |-> FALSE]
  /\ isPaused = [t \in Thread |-> FALSE]
  /\ pc = [p \in Process |-> IF p = Main THEN "idle" ELSE "unborn"]

FlagsTypeOK ==
  /\ isAlive \in [Thread -> BOOLEAN]
  /\ isPaused \in [Thread -> BOOLEAN]

ThreadsTypeOK(Labels) == FlagsTypeOK /\ pc \in [Process -> Labels]

At(p, label) == pc[p] = label
Goto(p, label) == pc' = [pc EXCEPT ![p] = label]
Branch(p, condition, yes, no) == Goto(p, IF condition THEN yes ELSE no)

-----------------------------------------------------------------------------
(* initThread: the flags are set whether or not pthread_create succeeds.   *)
initThread(t) ==
  /\ isPaused' = [isPaused EXCEPT ![t] = FALSE]
  /\ isAlive' = [isAlive EXCEPT ![t] = TRUE]

pauseThread(t) ==
  /\ isPaused' = [isPaused EXCEPT ![t] = TRUE]
  /\ UNCHANGED isAlive

resumeThread(t) ==
  /\ isPaused' = [isPaused EXCEPT ![t] = FALSE]
  /\ UNCHANGED isAlive

checkThreadPaused(t) == ~ isPaused[t]

isThreadAlive(t)  == isAlive[t]
isThreadPaused(t) == isPaused[t]

(* The store of shutdownThread; its other steps are in TmcIo.              *)
stopThread(t) ==
  /\ isAlive' = [isAlive EXCEPT ![t] = FALSE]
  /\ UNCHANGED isPaused

=============================================================================
