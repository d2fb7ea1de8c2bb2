---------------------------- MODULE LinkedQueues ----------------------------
(***************************************************************************)
(* One queue of queues.c, assignment by assignment: the items are linked   *)
(* through ptNext, a mutex protects the two list heads and the counter,    *)
(* and getFreshItemFromQueue and recycleItemAtQueue write ptNext of the    *)
(* item outside of it.  Queues has an atomic action for every operation;   *)
(* that this is what the code does is shown here.                          *)
(*                                                                         *)
(* A producer takes fresh items and adds or recycles them (a caller of     *)
(* setCmd, receiveData); a consumer asks for the size, pops and recycles   *)
(* (the sender, the feedback thread).                                      *)
(***************************************************************************)
EXTENDS Integers, FiniteSets, SequencesExt

CONSTANTS Producers, Consumers,  \* the threads at the two ends
          HeapBlocks,            \* the blocks malloc can return (a bound)
          NULL

Clients == Producers \cup Consumers

ASSUME ClientsAssumption == Producers \cap Consumers = {} /\ NULL \notin Clients
ASSUME ItemsAssumption == IsFiniteSet(HeapBlocks) /\ NULL \notin HeapBlocks

VARIABLES ptQueue, ptFreeItems,  \* the list heads
          iQueueSize,
          tQueueMutex,           \* its owner, or NULL
          ptNext,                \* [HeapBlocks -> HeapBlocks or NULL]
          allocated,             \* the blocks that malloc has returned
          at,                    \* where each client is
          item,                  \* the item that each client holds, or NULL
          ptTmp                  \* where addItemToQueue is in the list

sharedVars == <<ptQueue, ptFreeItems, iQueueSize, ptNext, allocated>>
linkVars == <<sharedVars, tQueueMutex, at, item, ptTmp>>

LinkInit ==
  /\ ptQueue = NULL /\ ptFreeItems = NULL
  /\ iQueueSize = 0
  /\ tQueueMutex = NULL
  /\ ptNext = [i \in HeapBlocks |-> NULL]
  /\ allocated = {}
  /\ at = [c \in Clients |-> "outside"]
  /\ item = [c \in Clients |-> NULL]
  /\ ptTmp = [c \in Clients |-> NULL]

Go(c, from, to) == at[c] = from /\ at' = [at EXCEPT ![c] = to]

(* Which operations a client may call with what it holds.                  *)
Calls(c) ==
  IF item[c] = NULL THEN IF c \in Producers THEN {"get"} ELSE {"pop", "size"}
  ELSE IF c \in Producers THEN {"add", "unlink"} ELSE {"unlink"}

Call(c) ==
  /\ \E op \in Calls(c) : Go(c, "outside", op)
  /\ UNCHANGED <<sharedVars, tQueueMutex, item, ptTmp>>

(* Every operation locks the mutex, after which it is at its body.         *)
Bodies == [get |-> "getBody", add |-> "addBody", pop |-> "popBody",
           size |-> "unlock", recycle |-> "recycleBody"]

Lock(c) ==
  /\ tQueueMutex = NULL /\ tQueueMutex' = c
  /\ \E op \in DOMAIN Bodies : Go(c, op, Bodies[op])
  /\ UNCHANGED <<sharedVars, item, ptTmp>>

Unlock(c) ==
  /\ \/ Go(c, "unlock", "outside")
     \/ Go(c, "getUnlock", "clear")
  /\ tQueueMutex' = NULL
  /\ UNCHANGED <<sharedVars, item, ptTmp>>

-----------------------------------------------------------------------------
Malloc(c) ==
  /\ ptFreeItems = NULL
  /\ Go(c, "getBody", "getUnlock")
  /\ allocated # HeapBlocks
  /\ item' = [item EXCEPT ![c] = CHOOSE i \in HeapBlocks \ allocated : TRUE]
  /\ allocated' = allocated \cup {item'[c]}
  /\ UNCHANGED <<ptQueue, ptFreeItems, iQueueSize, ptNext, tQueueMutex, ptTmp>>

Reuse(c) ==
  /\ ptFreeItems # NULL
  /\ Go(c, "getBody", "getAdvance")
  /\ item' = [item EXCEPT ![c] = ptFreeItems]
  /\ UNCHANGED <<sharedVars, tQueueMutex, ptTmp>>

ReuseAdvance(c) ==
  /\ Go(c, "getAdvance", "getUnlock")
  /\ ptFreeItems' = ptNext[ptFreeItems]
  /\ UNCHANGED <<ptQueue, iQueueSize, ptNext, allocated, tQueueMutex, item, ptTmp>>

(* Mutant: a fresh item keeps the link it had in the free list.            *)
ClearRecycled(c) ==
  /\ Go(c, "clear", "outside") \/ Go(c, "unlink", "recycle")
  /\ ptNext' = [ptNext EXCEPT ![item[c]] = IF at[c] = "clear" THEN @ ELSE NULL]
  /\ UNCHANGED <<ptQueue, ptFreeItems, iQueueSize, allocated, tQueueMutex, item, ptTmp>>

(* The link of an item is cleared outside the mutex.                       *)
Clear(c) ==
  /\ Go(c, "clear", "outside") \/ Go(c, "unlink", "recycle")
  /\ ptNext' = [ptNext EXCEPT ![item[c]] = NULL]
  /\ UNCHANGED <<ptQueue, ptFreeItems, iQueueSize, allocated, tQueueMutex, item, ptTmp>>

AddFirst(c) ==
  /\ ptQueue = NULL
  /\ Go(c, "addBody", "count")
  /\ ptQueue' = item[c]
  /\ UNCHANGED <<ptFreeItems, iQueueSize, ptNext, allocated, tQueueMutex, item, ptTmp>>

AddStart(c) ==
  /\ ptQueue # NULL
  /\ Go(c, "addBody", "walk")
  /\ ptTmp' = [ptTmp EXCEPT ![c] = ptQueue]
  /\ UNCHANGED <<sharedVars, tQueueMutex, item>>

AddWalk(c) ==
  /\ Go(c, "walk", "walk")
  /\ ptNext[ptTmp[c]] # NULL
  /\ ptTmp' = [ptTmp EXCEPT ![c] = ptNext[@]]
  /\ UNCHANGED <<sharedVars, tQueueMutex, item>>

AddLast(c) ==
  /\ Go(c, "walk", "count")
  /\ ptNext[ptTmp[c]] = NULL
  /\ ptNext' = [ptNext EXCEPT ![ptTmp[c]] = item[c]]
  /\ UNCHANGED <<ptQueue, ptFreeItems, iQueueSize, allocated, tQueueMutex, item, ptTmp>>

AddCount(c) ==
  /\ Go(c, "count", "unlock")
  /\ iQueueSize' = iQueueSize + 1
  /\ item' = [item EXCEPT ![c] = NULL]
  /\ UNCHANGED <<ptQueue, ptFreeItems, ptNext, allocated, tQueueMutex, ptTmp>>

PopNothing(c) ==
  /\ ptQueue = NULL
  /\ Go(c, "popBody", "unlock")
  /\ UNCHANGED <<sharedVars, tQueueMutex, item, ptTmp>>

PopHead(c) ==
  /\ ptQueue # NULL
  /\ Go(c, "popBody", "popAdvance")
  /\ item' = [item EXCEPT ![c] = ptQueue]
  /\ UNCHANGED <<sharedVars, tQueueMutex, ptTmp>>

PopAdvance(c) ==
  /\ Go(c, "popAdvance", "discount")
  /\ ptQueue' = ptNext[ptQueue]
  /\ UNCHANGED <<ptFreeItems, iQueueSize, ptNext, allocated, tQueueMutex, item, ptTmp>>

PopCount(c) ==
  /\ Go(c, "discount", "unlock")
  /\ iQueueSize' = iQueueSize - 1
  /\ UNCHANGED <<ptQueue, ptFreeItems, ptNext, allocated, tQueueMutex, item, ptTmp>>

RecycleLink(c) ==
  /\ ptFreeItems # NULL
  /\ Go(c, "recycleBody", "recycleHead")
  /\ ptNext' = [ptNext EXCEPT ![item[c]] = ptFreeItems]
  /\ UNCHANGED <<ptQueue, ptFreeItems, iQueueSize, allocated, tQueueMutex, item, ptTmp>>

RecycleHead(c) ==
  /\ Go(c, "recycleHead", "unlock") \/ (ptFreeItems = NULL /\ Go(c, "recycleBody", "unlock"))
  /\ ptFreeItems' = item[c]
  /\ item' = [item EXCEPT ![c] = NULL]
  /\ UNCHANGED <<ptQueue, iQueueSize, ptNext, allocated, tQueueMutex, ptTmp>>

LinkStep ==
  \E c \in Clients :
    \/ Call(c) \/ Lock(c) \/ Unlock(c)
    \/ Malloc(c) \/ Reuse(c) \/ ReuseAdvance(c) \/ Clear(c)
    \/ AddFirst(c) \/ AddStart(c) \/ AddWalk(c) \/ AddLast(c) \/ AddCount(c)
    \/ PopNothing(c) \/ PopHead(c) \/ PopAdvance(c) \/ PopCount(c)
    \/ RecycleLink(c) \/ RecycleHead(c)

-----------------------------------------------------------------------------
(* The items that the links spell from a head, at most all of them; the    *)
(* pointers behind the last of them are NULL.                              *)
Chain(head, next) ==
  LET pointer[n \in 1 .. Cardinality(HeapBlocks)] ==
        IF n = 1 THEN head
        ELSE IF pointer[n - 1] = NULL THEN NULL ELSE next[pointer[n - 1]]
  IN [n \in {m \in DOMAIN pointer : pointer[m] # NULL} |-> pointer[n]]

Counting(label) == Cardinality({c \in Clients : at[c] = label})

(* Queues, of which this is FEEDBACK; the counter follows within the same  *)
(* critical section.                                                       *)
AtomicQueues == INSTANCE Queues WITH
  CmdBlocks <- {}, FeedbackBlocks <- HeapBlocks,
  ptQueue <- [FEEDBACK |-> Chain(ptQueue, ptNext), SENDCMDS |-> <<>>],
  ptFreeItems <- [FEEDBACK |-> Chain(ptFreeItems, ptNext), SENDCMDS |-> <<>>],
  iQueueSize <- [FEEDBACK |-> iQueueSize + Counting("count") - Counting("discount"),
                 SENDCMDS |-> 0],
  heap <- [FEEDBACK |-> allocated, SENDCMDS |-> {}],
  eCmd <- <<>>, ptData <- <<>>, Faults <- {}, reply <- <<>>, line <- <<>>

(* Whatever the threads do between one another's assignments, the lists    *)
(* and the counter change only as by the atomic operations of Queues: no   *)
(* item is lost from a list, and none is dragged in by a link left over    *)
(* from another list.                                                      *)
QueuesImplemented ==
  [][\E i \in HeapBlocks :
       \/ AtomicQueues!addItemToQueue("FEEDBACK", i)
       \/ AtomicQueues!getFreshItemFromQueue("FEEDBACK", i)
       \/ AtomicQueues!popItemFromQueue("FEEDBACK")
       \/ AtomicQueues!recycleItemAtQueue("FEEDBACK", i)]_(AtomicQueues!listVars)

=============================================================================
