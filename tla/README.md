# Verification of the TMC200 motor controller software

The repository drives a VolksBot through a TMC200 motor controller on a serial
line. This directory holds TLA+ models of its core, the TLC configurations that
check them on small instances, and theorems checked by TLAPS. Paths below are
relative to `src/ws12bp_volksbot/`.

    tlasany TmcIo.tla                                   parse
    tlc -workers 2 -config io_lifecycle.cfg MCTmcIo     one run
    tlc -workers 2 -config programs.cfg MCPrograms      another
    tlapm TmcIoProofs.tla                               the proofs

## 1. The system

| Component | Source | State | Operations |
|---|---|---|---|
| Item queues | `src/libtmc200ctrl_io/src/queues.c` | per queue: list of pending items, list of recycled items, length counter, mutex | init, add, fresh item, pop, recycle, size, clean up |
| Thread control | `.../threads_common.c` | per thread: alive flag, pause flag, condition variable | init, pause, resume, wait while paused, stop and join |
| Send thread | `.../sendtmc200cmdsthread.c` | current item, resend flags, serial port | take a command, write it, read one answer, queue the answer, repeat an SV command, pause, exit |
| Feedback thread | `.../tmc200feedbackthread.c` | current item, callback, wait flag, published string | deliver an answer, hand it to a waiting caller, pause, exit |
| `waitForTMC200Feedback` | same file, run by the caller | result of the timed wait, copy of the string | wait, pause the feedback thread, copy, resume it |
| API | `.../libtmc200ctrl_io.c` | port, argument buffer | init, setCmd (5 variants), shutdown, setters |
| ROS node | `src/tmc200ctrl/src/tmc200controller.cpp` | auto-resend flag, cut-off timer, publishers, queued callbacks | 9 subscribers, 5 services, 1 timer callback, start-up from parameters, shutdown |
| Direct wrapper | `src/libtmc200ctrl_direct/` | argument buffer | one function per command |
| Utilities | `src/libtmc200ctrl_utils/` | parsed value map and iterator | token conversion, SV feedback parsing, XML configuration |
| Examples | `src/examples/` | speed, keyboard | configure from a file, repeat, velocity by key, shutdown |
| Messages, build files | `src/tmc200ctrl/{msg,srv}` | – | – |

How they interact. The application (the node, an example, the direct wrapper)
calls the API from its own thread. `setCmd` fills an item and appends it to
the SENDCMDS queue, waking the send thread if that is paused. The send thread
writes the item to the line, reads one answer into an item of the FEEDBACK
queue, appends that and wakes the feedback thread if it is paused. The feedback
thread calls the callback and recycles the item. A caller of
`waitForTMC200Feedback` sets a flag that makes the feedback thread publish a
pointer to its current answer and stop at a gate until the caller has copied
it. `shutdown` stops and joins both threads and frees both queues. The node adds
a fourth party, ROS: messages, service requests and expiries of the cut-off
timer are queued and called back one at a time in `ros::spin`, while the
library's threads run on and call the node back with answers and errors.

What is hard here:

* three threads share two queues, two pairs of flags, one published pointer and
  several plain globals; each queue and flag operation is locked, their
  *sequences* are not (test the pause flag, then resume; pop nothing, then
  pause; publish, then wait);
* one pause flag per thread has two meanings for the feedback thread: asleep,
  and held at the gate;
* answers are matched to commands by position only; the read timeout is 502
  sleeps of a microsecond, so answers later than it are ordinary;
* the library may be shut down at any moment and initialised again, and its
  static variables survive.

What makes each part correct:

* queues: every block has one owner; nothing is lost, listed twice or freed
  while in use; first in, first out;
* thread control and API: a thread found asleep is woken; shutdown returns,
  waits for both threads before it frees anything, and frees everything;
* send thread: commands go out once each, in order; only SV is repeated, and
  only while that is switched on; an answer carries its command;
* feedback thread: answers are delivered in order; a wait returns an intact and
  recent answer or none; the thread never stays at the gate;
* node: an SV command is not repeated beyond the cut-off time; the motors are
  left alone when messages cease; a service answers with the answer to its own
  command (`io_wait_recent` shows that it may not);
* direct test program: a configuration file is sent in order, before anything else,
  and one that is none is refused;
* utilities: parsing returns the numbers and groups that are there, at their
  positions, and an iteration visits all of them
  (`text_promises` shows where they do not).

## 2. Modules

| Module | What it models |
|---|---|
| `Environment` | the device, the line, and what may go wrong around the library (`Faults`); external |
| `Queues` | `queues.c`: one action operator per function |
| `ThreadsCommon` | `threads_common.c`: flags and the program counter of every process |
| `SendThread` | the loop of the send thread, `sendData`, `receiveData` |
| `FeedbackThread` | the loop of the feedback thread, and `waitForTMC200Feedback` |
| `TmcIo` | the library: both threads, the device, and the calling thread Main with init, setCmd, shutdown and the setters |
| `CmdChannel` | the abstract specification: a channel that transmits commands one at a time, in order, and hands on their answers |
| `TmcIoProps` | the properties of `TmcIo` |
| `MCTmcIo` | the fault scenarios that the configurations name |
| `LinkedQueues` | one queue of `queues.c`, assignment by assignment, with its mutex and the `ptNext` links; implements `Queues` |
| `Gate` | the pause flag of one thread of `threads_common.c`, lock by lock, with both mutexes and the condition variable; implements `ThreadsCommon` |
| `ReceiveData` | `receiveData`, byte by byte: how answers are cut out of the stream |
| `Tmc200Controller` | the node over `CmdChannel`: start-up, callbacks, timer, shutdown |
| `DirectApp` | `tmc200ctrl_direct_test` over `CmdChannel`, with the wrapper's commands and `TMC200CfgXmlParser` |
| `SVFeedbackParser` | `TMC200SVFeedbackParser`, and the loop of `tmc200ctrl_remote` over it |
| `Conversions` | `extractNShortssFromString` and `convertToIntArray` |
| `MCPrograms` | the two programs, one per behaviour |
| `MCParts` | the parts that share nothing, one per behaviour |
| `SequenceLemmas` | facts about sequences, folds and numbers that the proofs cite |
| `TmcIoProofs`, `ChannelProofs`, `AnswerProofs` | lemmas and theorems about `TmcIo`, each module on top of the one before it |
| `LinkedQueuesProofs` | theorems about `LinkedQueues` |
| `PartsProofs` | theorems about `Gate` and `ReceiveData` |
| `UtilsProofs` | theorems about `SVFeedbackParser`, `Conversions` and `DirectApp` |
| `Tmc200ControllerProofs` | theorems about `Tmc200Controller` |

The layers: `LinkedQueues` and `Gate` show that the atomic operations `TmcIo` is
built from are what the code does; `TmcIo` implements `CmdChannel`; the programs
run over `CmdChannel`. So the programs are checked against everything the
library can do, without the library's state.

`SendThread` and `FeedbackThread` extend `Queues` and `ThreadsCommon`; `TmcIo`
extends both. An operator named after a C function is that function; `Fb...`,
`Send...`, `Receive...`, `Wait...`, `Cmd...`, `Init...` name the atomic steps of
the longer ones.

Grain of atomicity. A step is one critical section, or one access to a shared
variable that no mutex protects. Steps that touch only private data are merged
with a neighbour. `pc[p]` is the next step of process `p`.

* `pauseThread`, `resumeThread`, `isThreadAlive`, `isThreadPaused` hold the
  thread's mutex: one step each. `checkThreadPaused` waits in a loop on the
  condition variable under the mutex under which the flag is cleared and the
  broadcast made: it is the guard `~isPaused[t]`.
* `waitForTMC200FBCalled`, `processFeedbackFunc`, `currentTMC200FBStr`,
  `bResendSV` are plain ints and pointers read by one thread and written by
  another. The C standard leaves this undefined; on the word-sized variables of
  the supported builds it is an atomic load or store, in some order, which is
  how the model takes them.
* The timed wait: registering (`WaitLock`), blocked, and returning with or
  without a signal. A signal given before registering is lost, a wait may time
  out at any moment before it is signalled, and with `"spurious"` in `Faults` it
  may return by itself, which looks like a signal to the caller. The deadline is
  computed with microseconds shifted by 10 and no carry, so for part of each
  second it is invalid and the wait fails at once: `"einval"`.

Data. Commands are `SV` and one that stands for all others, the only distinction
the library makes. The text of the n-th accepted command is `Line(n)`; the
device answers with fragments that carry the same `n` (0 for `ERR`), so that an
answer can be traced to its command. Reading takes all fragments on the line,
which is how a late answer is merged with the next. `tried` and `issued` and
`delivered` are history variables, and so is `spurious`: whether the wait that is
being served returned by itself. The `ptNext` chains are sequences; blocks
returned by `malloc` are model values taken in a fixed order.

The finer modules. In `LinkedQueues` a step is one assignment to a list head, a
link or the counter; clients (a producer that takes and adds or recycles, a
consumer that asks for the size, pops and recycles) interleave between any two
of them. Under the refinement a queue is the chain that the links spell from its
head (`Chain`), and the counter is corrected for the client that is between the list and
the counter, within its critical section. In `Gate` a step is a lock, an unlock,
an access to the flag, a test or a broadcast; a wait gives its mutex up, and may
wake up by itself. A caller resumes a worker that it finds paused, as setCmd and
shutdown do, or pauses it and resumes it whatever happens meanwhile, as
`waitForTMC200Feedback` does; the worker pauses itself, or only looks at the flag, as
the feedback thread does at its gate. The test of the flag and the wait that follows it are two
steps: nothing but the mutex, which the worker holds between them, keeps a
broadcast from falling there. In `ReceiveData` bytes arrive one by one, a read takes any
number of those that are there, and the item has room for `DataSize` bytes. Unless the
device is `prompt` the read timeout may end an answer anywhere.

The node. One thread runs `main`. `nodeAt` is where it is: the stages of start-up
in the order of the code, `"spin"` between two callbacks, `"SVqueued"` in
`SVSubsClbk` between the command and the test of the flag, the wait of a service,
`"shutdown"`, `"exit"`. `calls` are the callbacks ROS has queued, in order; a
callback that runs to its end without a step of another thread that could tell
is one action. The cut-off timer counts ticks down, queues an expiry unless one
waits, and starts again; `stop` takes a queued expiry back, `setPeriod` restarts
the count. `Messages` are the callbacks in `calls` other than the expiry, at most
`MaxCalls` of them. Time passes only while the node is idle or a service waits: every
callback that does not wait is short against a period. `since` and `covered`
are history variables for the properties; `since` stops counting at `SinceBound`.

The direct test program. A document is the sequence of its nodes with names and
parents; `children` is the stack of the recursive `parsXmlNode`. The commands go
through `DirectCommand`, the mapping of `libtmc200ctrl_direct`.

## 3. Runs

The `io_` runs use `MCTmcIo`, `programs` and `node_cutoff` use
`MCPrograms`, `parts` and `text_promises` use `MCParts`. `CHECK_DEADLOCK FALSE` throughout: the application may
stop calling the library, a program may exit, the threads of a part may have
done all they do, and then everything rests.

| Run | Question | Properties |
|---|---|---|
| `io_lifecycle` | from an init that may fail half way to shutdown, with two commands, waits and callback, a device that sends errors, stays silent, splits lines or stalls writes, but is never late | `TypeOK`, `Ownership`, `TeardownQuiescent`, `AnswerTagMatches` |
| `io_wait` | answers later than the timeout, waits that fail at once | `CopyHasString`, `DeliveryInOrder`, `WaitNotStale`, `GateReopens` |
| `io_live` | two commands, repetition on and off, shutdowns and new inits: do order and repetition stay right, is everything freed, are sleepers woken, do threads and repetitions end that are told to? | `AllFreedAtDown`, `CounterNotShort`, `ImplementsChannel`, `WakeServesAll`, `SleeperExits`, `RepetitionStops` |
| `io_lost_wakeup` | is every accepted command sent? No | `AcceptedIsSent` |
| `io_shutdown_hang` | does shutdown return? No | `ShutdownReturns` |
| `io_stale_shutdown` | does a thread that shutdown has woken always exit? No | `SleeperStops` |
| `io_copy_race` | is the copied string held back while it is copied? No | `CopyIntact` |
| `io_wait_recent` | does a wait return the answer to the last command? No | `WaitReturnsRecent` |
| `programs` | the node and the direct test program, from start-up to exit | `NodeTypeOK`, `FeedbackHasPublisher`, `CutOffInTime`, `ConfigInDocumentOrder`, `FallsSilent` |
| `node_cutoff` | does the cut-off timer always stop the repetition? No | `MotorsCutOff` |
| `parts` | queues and gate against their atomic operations; framing, parsers, converters as far as they can be relied on | `QueuesImplemented`, `GateImplemented`, `NoWakeUpLost`, `GatePasses`, `AnswersWhole`, `InStreamOrder`, `ParsedGroups`, `IterationInOrder`, `ShortsWhole`, `IntsBeforeZero` |
| `text_promises` | is any of four comments on what becomes of a text true? No | `SomeTextAsPromised` |

What the passing runs show.

* `Ownership`: between init and shutdown every block is pending, recycled, or in
  the hands of exactly one thread. It is what justifies writing items outside
  the mutex.
* `AllFreedAtDown`: a stopped sender may leave with commands still queued and
  with an item in its hand; both end up where `cleanUpQueue` finds them.
* `ImplementsChannel`: `TmcIo` implements `CmdChannel` under the mapping
  `sent <- tried`, `sending <- Sending`: no command overtakes another, is
  dropped between two others, or is sent twice unless it is an SV. Commands that
  are queued when the library is restarted are given up; `Restart` says so.
* `AnswerTagMatches` holds only if the device never answers late. It is the
  reason the tag may be trusted at all; that it fails with late answers is by
  construction of the protocol and is listed as a hazard.
* `CounterNotShort`: whatever becomes of the counter, it is never below the length,
  so a sender that reads 0 and repeats an SV overtakes no queued command.
* `DeliveryInOrder`, `WaitNotStale` hold even if answers are late. `WaitNotStale`
  speaks of copies that answer some command: the copy races with the reuse of the
  item (`io_copy_race`), so it may also find the text of an `ERR`, which answers none.
* `CopyHasString` and `WaitNotStale` speak of waits that were signalled. A wait that
  returns by itself, which POSIX allows and the code, without a loop around the
  wait, takes for an answer, copies whatever was published last, and goes through
  a null pointer if nothing was.
* `GateReopens`: caller and feedback thread write the same pause flag at
  unsynchronised moments; however waits time out, delivery goes on.
* `WakeServesAll`: a sender whose flag setCmd *reads* as paused sends all that has been
  accepted, through restarts with a wrong counter too; `io_lost_wakeup` is the
  complementary case.
* `SleeperExits`: a thread whose flag shutdown reads as paused exits, but of the
  sender this holds only while the counter of its queue is right.
  `io_shutdown_hang` shows the flag read as clear, `io_stale_shutdown` the wrong counter.
* `CutOffInTime`: once an SV has come under autorepeat, repetition is wanted for at
  most a period, and the waits of the services in the queue before the expiry,
  after it was last asked for or the period was changed. The bound `period +
  MaxCalls` is reached if there is room for one more command (`MaxCmds = 5`).
  Setting the period again and again postpones the cut-off again and again.
* `FallsSilent`: when messages cease, the line does too, in whatever order the
  expiry, `stop`/`start` and the two halves of `SVSubsClbk` fall.
* `FeedbackHasPublisher`: nothing can be answered before main has set the pointer,
  because nothing is sent before the parameters; and shutdown joins the feedback
  thread before the publisher goes out of scope.
* `ConfigInDocumentOrder`: whatever the shape of the document, its commands are
  accepted in document order before any from the keyboard, and an unknown
  element that throws leaves exactly those before it accepted.
* `QueuesImplemented`: no interleaving drags a recycled item into a queue; what
  makes it so is that a fresh item's link is cleared before it is added, though
  outside the mutex, for which its single owner (`Ownership`) is needed.
* `NoWakeUpLost`: a worker asleep with its flag clear is about to be broadcast to. If
  `resumeThread` did without `tWakeUpThreadMutex`, its broadcast could fall between the
  worker's test and its wait.
* `GateImplemented`, `GatePasses`: the worker passes the gate only when it is not
  paused, and a caller that has found it paused always gets it going; the two
  mutexes lock nobody up.
* `AnswersWhole` needs a prompt device and answers that fit; `InStreamOrder` is what
  is left of it otherwise: nothing is delivered twice or out of order, but bytes may
  be lost (`text_promises`).
* `IterationInOrder`: the loop of `hasNext` and `getNext` leaves nothing out behind a
  value it has come to. `ShortsWhole` and `IntsBeforeZero` state on which texts a
  conversion can be relied on. What the comments promise beyond that is violated:
  `text_promises`.

What the violated ones show.

* `io_lost_wakeup`: pop finds nothing; setCmd appends and reads "not paused"; the
  thread pauses itself. The command waits for the next call.
* `io_shutdown_hang`: the same window seen by shutdown, which then joins a thread
  that sleeps.
* `io_stale_shutdown`: an SV under repetition leaves the static `bResendCurCmd` set; a
  second command is given up by shutdown but stays counted,
  because `initQueue` does not reset the counter. (The feedback thread has the same
  window, `tmc200feedbackthread.c:126-130`: it would spin.)
  After the next init the sender finds the flag set and the queue "not empty",
  pops NULL and pauses itself without a look at `isAlive`. shutdown wakes it once;
  it does the same again and is joined for ever.
* `io_copy_race`: the feedback thread signals and reaches the gate before the
  caller has closed it; the item is recycled, perhaps refilled, during the copy.
* `io_wait_recent`: with an earlier answer in flight a wait is served by that.
* `node_cutoff`: an SV comes while autorepeat is off, which does not start the timer;
  autorepeat is switched on before that SV is written; it is repeated for ever.
* `text_promises`: the property is the disjunction of four promises, each quoted at its
  definition, so the state that refutes it refutes each. `OnlyBreakCut`: the
  timeout ends an answer in the middle, and the terminator is put two bytes
  before its end as if a line break stood there. `IterationVisitsAll`: `hasNext`
  moves on before it looks, so the first value is skipped. `ShortsOrNull`: one number
  too few leaves the last one uninitialised; a 0 frees the array, but the loop
  goes on and stores the next number through NULL. `IntsAtPositions`: a 0 is
  not stored, so what follows it moves up.

Bounds. Two commands are enough for each pair of neighbours in the queue, for an
SV replaced by another command and for an answer mixed up with the next; with
one more the runs take far longer and reach no new kind of step. `CmdBlocks` has
one block more than commands that can be in flight at once.
`FeedbackBlocks` bounds the answers that exist at once: one being received, one
being delivered and those queued; when it is exhausted the sender would have to
wait, so it is chosen large enough that it never is. `MaxBacklog` stops
repetition while that many answers are queued (the code repeats on; the guard
`RepetitionBound` names it and lifts it once the thread is stopped). No symmetry is used: blocks are
allocated in a fixed order instead. `io_live` and `io_stale_shutdown` allow
repetition, shutdown and any number of new inits, since a counter and a flag
that are wrong after a restart matter only then. That `Ownership`
outlasts restarts and repetition, and that an init that fails half way frees what it
has allocated (`AllFreedAtDown`), is proved (section 4) and not checked by a run of its
own.

`programs`: four commands given or waiting (`MaxCmds`) let an SV, a service and
another SV meet an expiry; two waiting callbacks (`MaxCalls`) put a control message
before or behind each of them, and stay below the sizes of the subscribers' queues (10 and 2, which drop messages when full); the
periods 1 and 2 give a timer that elapses at every tick and one that does not.
`Given = {1}` leaves one command to start-up: the others take the same step.
Documents of four nodes (`MaxNodes`) have a root, nesting, siblings and text;
the names stand for a command, the root, an unknown element and a text.
`parts`: four blocks, so that three can be listed and one be in a hand; one
producer and one consumer per queue, as in the code; two callers, since both
Main and the send thread resume the feedback thread, three looks each
(`MaxLooks`); an item of 5 bytes with texts of 0 to 4, which covers an answer that
fits exactly, one that does not, an empty text and a remainder of one byte; three
answers. `FEEDBACKQUEUE_DATA_SIZE` is 127 in the code, so answers longer than 125
characters are the ones that do not fit. `Numbers` has 0, a number, one that
turns negative at 16 bits and one that becomes 0 there.

Fairness (`FairSpec`). Weak fairness of each thread, of Main inside a call, and
of the device's output: the operating system schedules runnable threads, a call
once made goes on, and what the device owes reaches the line. Calls are never
forced. A timed wait that is neither signalled nor timed out for ever is excluded
because the clock runs. No strong fairness is needed: a thread that waits for a
flag or a lock waits alone.

`NodeFairness` (`programs`, `node_cutoff`): `ros::spin` takes up what waits, time
passes, and a transmission ends, since both of its loops time out. Nothing is
assumed of the arrival of messages. `GateFairness` (`parts`): weak fairness of
every thread, and strong fairness of locking `tWakeUpThreadMutex`, because a
thread that wakes up for nothing over and over takes that mutex over and over;
a pthread mutex that is free again and again is given to the waiting thread.

## 4. Proofs

What follows is proved for every heap, any number of commands, any faults, any
subset of the API, and any topics, periods, threads, texts, documents and bounds; the
runs check it for one choice. Every invariant and every refinement that a passing run
checks is a theorem, and every property that a run refutes is refuted by a trace. Each inductive invariant was checked with TLC before it was
proved. Assumptions used: the two sets of blocks and the null pointer are
disjoint (`NullAssumption`), the worker is not one of its callers and nobody is no
thread (`ThreadsAssumption`), topics and services differ, bounds, sizes, lengths of
answers and keys are natural numbers, what `strtol` returns are integers, periods
and the size of an item are positive; for one queue on its own the same, and that its heap
is finite (`ClientsAssumption`, `ItemsAssumption`). TLC evaluates them in every run. One theorem,
`AnswersTagged`, has a hypothesis on `Faults`, and is false without it.

The library. `TmcIoProofs` begins with what the queue operations do to the types and
to the pending items. The modules build on each other:

* `TypeCorrect == Spec => []TypeOK`. `TypeOK` is not inductive: recycling or
  adding an item keeps the lists typed only if the item is not a null pointer,
  and the number of a command exists only if its text is not empty. `TypeInv`
  adds `ItemInHand` (at each label where a thread works on an item it has one)
  and `CommandHasText` (queued and current commands have a text). The second
  needs no ownership: no step ever empties a text.
* `Teardown == Spec => []TeardownQuiescent`. The invariant `LifeInv` follows the
  library through its stages: before an init has succeeded, during init, in
  service, while a thread is stopped, and down. The interesting part is a failed
  init, which closes the port *before* it stops the send thread: this is safe
  because nothing can have been queued (`NothingToSend`), and it needs
  `ItemInHand` to conclude that the thread cannot be at a write.
  `SendThreadFrame` and `FeedbackThreadFrame` say what the threads leave alone.
* `CounterSuffices == Spec => []CounterNotShort`, through any number of
  restarts. `CounterNotShort` is inductive together with `TypeInv`: each operation
  moves list and counter alike, cleaning up empties the list only, and
  `initQueue` finds the list empty. That the counter is *equal* is false
  (`io_stale_shutdown`).
* `ItemsOwned == Spec => []Ownership` and `ShutdownFreesAll == Spec => []AllFreedAtDown`
  (also in `TmcIoProofs`). `Ownership` speaks of a library in service only. `OutOfService`
  says what is allocated before, during and after it, down to the blocks that a
  stopped thread leaves in its hand; `IdleEmpty` that a sender that has found the
  queue empty holds no item when it comes back. `Ledger` states ownership by the
  elements of the two lists instead of their concatenation, and `LedgerMoves` is
  the list of all moves a block can make: a queue operation is one of them, and
  a thread's step is a change of who holds what. `SafeInv` is the conjunction of
  `TypeInv`, `LifeInv` and `OwnInv`, and the base of all that follows.
* `ChannelImplemented == Spec => ImplementsChannel` (`ChannelProofs`). Initial states map to
  initial states, and every step to one of `CmdChannel` or a stutter. A step that
  transmits is one of `CmdChannel` only if the command in the sender's hand is the
  one after the last tried, or that one again. That is `NumInv`: the pending
  items carry the numbers from there to the last accepted, in order
  (`PendingInOrder`), and the item in hand the number that is next or, with
  `bResendCurCmd`, the current (`TakenInOrder`). It needs ownership: the caller
  writes the text of a new item outside the mutex, which must not be the text
  of a queued one.
* `AnswersInOrder == Spec => DeliveryInOrder` (`AnswerProofs`). An answer passes through six
  stages: owed by the device, on the line, being received, queued, in the feedback
  thread's hand, handed to the callback. `OrderInv` says that the stages are in
  order, and the queue and what is owed are so in themselves: `Before(A, B)` if no
  answer in `A` is younger than one in `B`. It is not strict, since a repeated SV is
  answered more than once, and a read may split an answer or merge two.
* `AnswersTagged == Prompt => (Spec => []AnswerTagMatches)`, where `Prompt` is
  `"late" \notin Faults`. `OneUnderway` says that between two transmissions nothing
  is under way, and what is under way answers the command last tried; `TagInv`,
  that the tag stays with the text until the callback has it. If the device may be
  late the statement is false: the next command tags the answer.
* `CopySafe == Spec => []CopyHasString` (`AnswerProofs`), whatever the faults. The
  invariant `SignalInv` says that the string is published from the moment at which
  the waiting caller has been signalled until it has copied it. The property is
  about waits that were signalled, by the history variable `spurious`; of the others
  the like is false.
* `WaitFreshAnswer == Spec => WaitNotStale`. The thread may run on
  while the caller copies, so it is not the item that is kept (`io_copy_race`) but
  a promise about it, `FreshInv`: from the signal on no item is handed to the
  callback unless it has been published first, because the caller's flag is still
  set; and an item that is recycled is only written with later answers, which is
  what `OrderInv` says. A wait that returns by itself copies whatever was
  published last.

A queue of linked items (`LinkedQueuesProofs`), for any number of producers and
consumers and any finite heap: `ListsSpelt == LinkSpec => []LinkInv` and
`QueuesAreLinked == LinkSpec => QueuesImplemented`, so that the atomic operations
which the theorems above rest on are what the assignments of `queues.c` do.

* `LinkInv` says that there *are* two sequences which the links spell from the two
  heads (`Spells`), without repetition and without an item in common. `MutexInv` has
  the mutex with the client in a critical section; `HandsInv` has no item in two
  hands, and the link of an item cleared from where the code clears it to where
  it is added or recycled (`Linkless`), although it is cleared outside the mutex;
  `Apart` says where in the lists each client is: what it holds is in neither,
  but between taking an item and advancing the head, and after linking it.
* Each assignment is one of four changes to a spelt sequence: `SpellsTail`,
  `SpellsCons`, `SpellsAppend`, or a link of an item outside of it (`SpellsSame`).
  `Operation` is what the step is for the lists, the counter and the heap, and
  `OperationImplemented` finds it among the actions of `Queues`.
* The refinement reads a list with the recursive function `Chain`. `ChainIs` shows that
  it returns what the links spell: a function that follows the links exists
  (the spelt sequence and NULL behind it), so the recursion has the value it
  asks for, and any two such functions agree, by the least number at which they
  would not.
* The counter moves within the critical section of its list but not with it: `Size`
  adds what is `Owed` by the client in the section.

The gate (`PartsProofs`): `EveryWakeUpArrives == GateSpec => []NoWakeUpLost` and
`GateIsAtomic == GateSpec => GateImplemented`. The invariant `GateInv` says of each
mutex that its owner is the thread that is where it holds it (`Owners`), and that
the worker still finds the flag as it has read it when it begins to wait
(`Waiting`). Mutual exclusion of every two threads follows from `Owners` without
being listed, for a mutex has one owner.

The node (`Tmc200ControllerProofs`):

* `PublisherSafe == NodeSpec => []FeedbackHasPublisher`. `PublisherInv` adds that nothing is
  issued, sent or answered before the parameters are read, and that nothing is
  left to deliver once shutdown has returned.
* `NodeTypes == NodeSpec => []NodeTypeOK`. It needs that an expiry waits at most once and
  that the other callbacks stay within `MaxCalls` (`WaitingInv`).
* `MotorsCutOffInTime == NodeSpec => []CutOffInTime`. The deadline has two phases: as long as
  no expiry waits, the ticks since repetition was asked for and those left of the
  period are together within a period; once one waits, each callback before it can
  take one tick, so its *position* counts (`InTime`). `TimerInv` says that the timer
  runs once an SV has come under autorepeat. `stop` takes an expiry out of the
  queue, which moves those behind it up: `TakeBack` and its neighbours are the
  lemmas about `RemoveFirst`.

`receiveData` (`PartsProofs`):

* `OrderKept == ReceiveSpec => []InStreamOrder`, for any item size, lengths and number of
  commands, in time or late. The bytes are in five places: delivered, in the
  item, on the line, in the device, not yet asked for. `OrderInv` says that each is
  sorted by answer and position (`Sorted`) and all of one before all of the next
  (`Before`), and that the item counts only while an answer is being received:
  afterwards its bytes have been delivered. `Emit`, `Read` and `Ask` all move the first bytes
  of one place to the end of another (`Passes`), and `MovesOrder` says once
  what that does.
* `AnswersDelivered == ReceiveSpec => []AnswersWhole`. `WholeInv` says that the item, the line
  and the device hold the answer in progress between them, each its own stretch
  (`Spread`), with no line break yet at the end of what the item has; that the line is
  empty between two commands; and which text is at which place (`Delivered`).
  `BreakAtEnd` is the heart of it: the test for a line break two bytes from the end finds
  the last byte but one of an answer and no other, whatever the reads return.

The utilities and the direct test program (`UtilsProofs`):

* `ValuesParsed == ParserSpec => []ParsedGroups` and `LoopInOrder == ParserSpec =>
  []IterationInOrder`. `ParserInv` adds that, while the loop runs, it has printed
  exactly the entries up to the iterator but the first.
* `ShortsReturned == ConvertSpec => []ShortsWhole` and `IntsReturned == ConvertSpec =>
  []IntsBeforeZero`, for texts of any length and any numbers. `ConvertSpec` asks for 1 to 3
  numbers, as the callers of the first do; the lemmas under it (`FoundIn`, `IntsIn`) hold for any count.
* `ConfigurationInOrder == DirectSpec => []ConfigInDocumentOrder`, for any document. The
  recursion of `parsXmlNode` is a stack, and `Frontier` says what is on it: the
  nodes to return to are below one another, each before the next (`Stacked`), and
  together they reach all that is left of the document (what comes later and hangs on
  an earlier node is a later sibling of one on the stack). So the node
  that is taken is always the next of the document. It needs what a
  document is (`IsDocument`): the nodes between a parent and its child are below that
  parent. `DirectInv` adds the commands that have been given up to there (`TookOnly`)
  and that nothing but SV comes after them (`Took`).

Folds. `FoldLeft` of the community modules is some function that solves a recursion over
sets of positions. `IsFold` states the recursion, and `FoldWellDefined` (`SequenceLemmas`)
shows that it has a solution: there would be a least length without one, and a
solution for one position less can be extended. So the fold satisfies its
recursion, and what it returns is proved as an invariant of its steps
(`InsertParses`, `ShortTokenFinds`, `IntTokenFinds`), again by a least position. What is
selected from a sequence is stated by ranks: the element at place k is the one
with k members of the set up to it (`RankSteps`), so that a new one is compared by
cardinalities.

Only model-checked: liveness (`GateReopens`, `WakeServesAll`, `SleeperExits`,
`RepetitionStops`, `FallsSilent`, `GatePasses`), since fairness and ENABLED are beyond the
provers.

## 5. Not modelled

* In the library: debug output, formatting of arguments (the caller's buffer is
  written and read by one thread), a failing `malloc`, a shutdown called from
  within a callback, several application threads (the API's static argument
  buffer excludes them), a setCmd after a failed init (excluded by "must be called
  before other are function called", `libtmc200ctrl_io.h:21`), the arithmetic of the
  wait's deadline (its outcome, a wait that fails at once, is modelled). The error
  callback changes nothing in the library. `ShutdownCall` asks for a library that is up:
  a second shutdown would free every block again, since `cleanUpQueue` leaves the
  heads of the lists in place (`queues.c:197-205`), and a shutdown after a failed init
  would stop and join a thread that was never created, or free queues that were never
  filled; no program of the repository does either.
* In the node: the values of messages and answers, whether a service succeeds, the
  variant of the velocity topic under `PA_DEMONSTRATION`, the full subscriber
  queues of ROS. `convertToTMC200OperationMode`, which nothing calls.
* `tmc200ctrl_remote`'s keyboard loop: it publishes messages, which `Arrive` allows at
  any time.
* The XML library, ROS, pthreads and the device are modelled from how the code uses
  them. Messages, services, keyword tables and build files have no behaviour.

Met while modelling, and not the subject of a property:

* Tokens: `CutOffMotorsTimeout="2 0"` in a launch file is ignored, since a 0 makes
  `extractNShortssFromString` return NULL; `"0 500"` makes it write through NULL
  (`ShortsOrNull`, in `text_promises`). The second number is taken as nanoseconds
  where the documentation has milliseconds.
* A configuration file that holds comments only is loaded without an error, and has no
  root element: its name is asked for through NULL (`tmc200cfgxmlparser.cpp:23`).
  `programs` includes such documents (`Rootless`).
* `iRetVals` is not freed by `GENCOSrvClbk`, `GMDPTSrvClbk` and `GVREGSrvClbk`.
* The launch parameters `EncoderConstants` and `VelocityRegulatorsConstants` have names
  that the node does not read (it appends `M1`, `M2`, `M3`).
* `tmc200ctrl_remote` never spins, so its callbacks for feedback and errors are never
  called; at the end of its input it repeats the last key and ramps the speed.
* `tmc200cfgxmlparser.h:27` shows a root `tmc200ctrl`, the code wants `tmc200cfg`; the test
  program does not catch `UnknownTMC200CommandException`.
* A single byte followed by silence has the terminator written in front of the item's
  block: `ReceiveData` stops there, since the behaviour is undefined.

What could follow: liveness. Short of fairness, the steps of such a proof could be
stated as invariants (a thread found paused is being resumed or has been), as
`NoWakeUpLost` does for the gate.
