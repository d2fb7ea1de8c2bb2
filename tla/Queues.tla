------------------------------- MODULE Queues -------------------------------
(***************************************************************************)
(* The two item queues of libtmc200ctrl_io (queues.c, queues.h).           *)
(*                                                                         *)
(* Every queue has a list of pending items, a list of recycled items and   *)
(* a length counter, each protected by the queue's mutex: an operation is  *)
(* one critical section and so one atomic step.  Items are heap blocks;    *)
(* ptQueue and ptFreeItems are modelled as the sequences of blocks that    *)
(* the ptNext chains spell, iQueueSize as the separate counter it is.      *)
(*                                                                         *)
(* An operation below constrains all the variables of this module but      *)
(* those of the item contents (eCmd, ptData), which the code writes        *)
(* outside the mutex; a caller says what happens to them.  The text of an  *)
(* item is what goes over the serial line: Environment's Text.             *)
(***************************************************************************)
EXTENDS Environment, SequencesExt

CONSTANTS CmdBlocks,       \* blocks malloc can return for items of SENDCMDS
          FeedbackBlocks,  \* and for items of FEEDBACK: the bound on the heap
          NULL             \* the null pointer

Items == CmdBlocks \cup FeedbackBlocks

ASSUME BlocksAssumption == CmdBlocks \cap FeedbackBlocks = {}
ASSUME NullAssumption == NULL \notin Items

(* LIBTMC200CTRL_COMMON_QUEUES *)
SENDCMDS == "SENDCMDS"
FEEDBACK == "FEEDBACK"
Queue == {SENDCMDS, FEEDBACK}

Blocks(q) == IF q = SENDCMDS THEN CmdBlocks ELSE FeedbackBlocks

(* TMC200Commands, reduced to what the code tells apart: the one command   *)
(* that may be repeated, and one that stands for all others.               *)
SV    == "SV"
GVERS == "GVERS"
Commands == {SV, GVERS}

VARIABLES
  ptQueue,      \* [Queue -> Seq(Items)]     pending items, head first
  ptFreeItems,  \* [Queue -> Seq(Items)]     recycled items, head first
  iQueueSize,   \* [Queue -> Int]            the length counter
  heap,         \* [Queue -> SUBSET Items]   live blocks of each queue
  eCmd,         \* [Items -> Commands]       contents of the items
  ptData        \* [Items -> Text]

listVars == <<ptQueue, ptFreeItems, iQueueSize, heap>>
dataVars == <<eCmd, ptData>>
queueVars == <<listVars, dataVars>>

ListsTypeOK ==
  /\ ptQueue \in [Queue -> Seq(Items)]
  /\ ptFreeItems \in [Queue -> Seq(Items)]
  /\ iQueueSize \in [Queue -> Int]
  /\ heap \in [Queue -> SUBSET Items]

DataTypeOK ==
  /\ eCmd \in [Items -> Commands]
  /\ ptData \in [Items -> Text]

QueuesTypeOK == ListsTypeOK /\ DataTypeOK

QueuesInit ==
  /\ ptQueue = [q \in Queue |-> <<>>]
  /\ ptFreeItems = [q \in Queue |-> <<>>]
  /\ iQueueSize = [q \in Queue |-> 0]
  /\ heap = [q \in Queue |-> {}]
  /\ eCmd = [i \in Items |-> GVERS]
  /\ ptData = [i \in Items |-> <<>>]

-----------------------------------------------------------------------------
(* initQueue drops both lists and leaves the counter alone.                *)
initQueue(q) ==
  /\ ptQueue' = [ptQueue EXCEPT ![q] = <<>>]
  /\ ptFreeItems' = [ptFreeItems EXCEPT ![q] = <<>>]
  /\ UNCHANGED <<iQueueSize, heap>>

(* Mutant: new items are prepended, as in recycleItemAtQueue.               *)
addItemToHead(q, item) ==
  /\ ptQueue' = [ptQueue EXCEPT ![q] = <<item>> \o @]
  /\ iQueueSize' = [iQueueSize EXCEPT ![q] = @ + 1]
  /\ UNCHANGED <<ptFreeItems, heap>>

addItemToQueue(q, item) ==
  /\ ptQueue' = [ptQueue EXCEPT ![q] = Append(@, item)]
  /\ iQueueSize' = [iQueueSize EXCEPT ![q] = @ + 1]
  /\ UNCHANGED <<ptFreeItems, heap>>

Unallocated(q) == Blocks(q) \ heap[q]

(* malloc: a new block.  Which one is immaterial, so it is a fixed choice. *)
allocateItem(q, item) ==
  /\ item \in Unallocated(q)
  /\ item = CHOOSE i \in Unallocated(q) : TRUE
  /\ heap' = [heap EXCEPT ![q] = @ \cup {item}]
  /\ UNCHANGED ptFreeItems

(* Mutant: the head of the free list is not advanced.                       *)
reuseItemKeepsHead(q, item) ==
  /\ item = Head(ptFreeItems[q])
  /\ UNCHANGED <<ptFreeItems, heap>>

reuseItem(q, item) ==
  /\ item = Head(ptFreeItems[q])
  /\ ptFreeItems' = [ptFreeItems EXCEPT ![q] = Tail(@)]
  /\ UNCHANGED heap

(* item is the pointer that getFreshItemFromQueue returns.                 *)
getFreshItemFromQueue(q, item) ==
  /\ IF ptFreeItems[q] = <<>> THEN allocateItem(q, item) ELSE reuseItem(q, item)
  /\ UNCHANGED <<ptQueue, iQueueSize>>

(* The pointer that popItemFromQueue returns.                              *)
Popped(q) == IF ptQueue[q] = <<>> THEN NULL ELSE Head(ptQueue[q])

(* Mutant: the counter goes down even if the queue is empty.               *)
popItemDiscounts(q) ==
  /\ ptQueue' = [ptQueue EXCEPT ![q] = IF @ = <<>> THEN @ ELSE Tail(@)]
  /\ iQueueSize' = [iQueueSize EXCEPT ![q] = @ - 1]
  /\ UNCHANGED <<ptFreeItems, heap>>

popItemFromQueue(q) ==
  /\ IF ptQueue[q] = <<>>
       THEN UNCHANGED <<ptQueue, iQueueSize>>
       ELSE /\ ptQueue' = [ptQueue EXCEPT ![q] = Tail(@)]
            /\ iQueueSize' = [iQueueSize EXCEPT ![q] = @ - 1]
  /\ UNCHANGED <<ptFreeItems, heap>>

recycleItemAtQueue(q, item) ==
  /\ ptFreeItems' = [ptFreeItems EXCEPT ![q] = <<item>> \o @]
  /\ UNCHANGED <<ptQueue, iQueueSize, heap>>

queueSize(q) == iQueueSize[q]

(* The blocks that deleteItems frees, called for both lists.               *)
Listed(q) == ToSet(ptQueue[q]) \cup ToSet(ptFreeItems[q])

(* cleanUpQueue leaves the list heads pointing at the freed items.         *)
cleanUpQueue(q) ==
  /\ heap' = [heap EXCEPT ![q] = @ \ Listed(q)]
  /\ UNCHANGED <<ptQueue, ptFreeItems, iQueueSize>>

=============================================================================
