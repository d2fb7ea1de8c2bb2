----------------------- MODULE Tmc200ControllerProofs -----------------------
(***************************************************************************)
(* The node's publisher and the feedback thread, for any parameters, any   *)
(* messages and services, and any number of commands and answers.          *)
(***************************************************************************)
EXTENDS Tmc200Controller, SequenceTheorems, TLAPS

Early == {"init", "callbacks", "publisher"}

(* The feedback thread is there from init on, and processFeedbackFunc is   *)
(* set before the publisher is; what keeps it from being called is that no *)
(* command has been given.  In the end it is shutdown that leaves nothing  *)
(* to deliver.                                                             *)
PublisherInv ==
  /\ nodeAt \in Early => issued = <<>> /\ answers = <<>> /\ sent = 0 /\ ~sending /\ ~repeating
  /\ nodeAt \notin Early \cup {"exit"} => "tSVFBPublisher" \in pointers
  /\ nodeAt = "exit" => answers = <<>>

(* Before the node starts nothing has been given.                          *)
LEMMA InitPublisher == ChannelInit /\ NodeInit => PublisherInv
  BY DEF ChannelInit, NodeInit, PublisherInv, Early

(* main up to ros::spin gives no command before the publisher is there     *)
(* (tmc200controller.cpp:434-558).                                         *)
LEMMA StartUpPublisher == PublisherInv /\ StartUp => PublisherInv'
<1> SUFFICES ASSUME PublisherInv, StartUp PROVE PublisherInv'
  OBVIOUS
<1> USE DEF PublisherInv, Early, channelVars, lineVars
<1>1. CASE InitLibrary \/ SetCallbacks \/ Advertise
  BY <1>1 DEF InitLibrary, SetCallbacks, Advertise
<1>2. CASE Parameter
  BY <1>2 DEF Parameter
<1>3. CASE AutorepeatParameter \/ CreateTimer
  BY <1>3 DEF AutorepeatParameter, CreateTimer
<1> QED
  BY <1>1, <1>2, <1>3 DEF StartUp

(* The callbacks run with the publisher there.                             *)
LEMMA SpinPublisher == PublisherInv /\ Spin => PublisherInv'
<1> SUFFICES ASSUME PublisherInv, Spin PROVE PublisherInv'
  OBVIOUS
<1> USE DEF PublisherInv, Early, Take
<1>1. CASE SVSubsClbk \/ SVSubsClbkRest
  BY <1>1 DEF SVSubsClbk, SVSubsClbkRest
<1>2. CASE autoSVSubsClbk \/ cutofftoSubsClbk \/ SetterSubsClbk \/ onCutOffTimerExpire
  BY <1>2 DEF autoSVSubsClbk, cutofftoSubsClbk, SetterSubsClbk, onCutOffTimerExpire
<1>3. CASE ServiceClbk \/ ServiceReturn
  BY <1>3 DEF ServiceClbk, ServiceReturn
<1> QED
  BY <1>1, <1>2, <1>3 DEF Spin

(* The library's threads have nothing to do while no command was given.    *)
LEMMA LibraryPublisher == PublisherInv /\ NodeLibraryStep => PublisherInv'
<1> SUFFICES ASSUME PublisherInv, NodeLibraryStep PROVE PublisherInv'
  OBVIOUS
<1>1. nodeAt \notin Early
  <2> SUFFICES ASSUME nodeAt \in Early PROVE FALSE
    OBVIOUS
  <2>1. Len(issued) = 0 /\ answers = <<>> /\ sent = 0 /\ ~sending /\ ~repeating
    BY EmptySeq DEF PublisherInv
  <2> QED
    BY <2>1 DEF NodeLibraryStep, LibraryStep, Transmit, Repeat, Complete, Deliver
<1>2. nodeAt # "exit" /\ UNCHANGED <<nodeAt, pointers>>
  BY DEF NodeLibraryStep, nodeVars
<1> QED
  BY <1>1, <1>2 DEF PublisherInv

(* Whatever reaches processFeedbackFunc, in the feedback thread, finds the *)
(* publisher that it dereferences, from the start of the library over any  *)
(* callbacks and answers to the exit of main, on whose stack it lives      *)
(* (tmc200controller.cpp:119-130, 472-476, 594-597).                       *)
THEOREM PublisherSafe == NodeSpec => []FeedbackHasPublisher
<1>1. ChannelInit /\ NodeInit => PublisherInv
  BY InitPublisher
<1>2. PublisherInv /\ [NodeStep]_<<channelVars, nodeVars>> => PublisherInv'
  <2> SUFFICES ASSUME PublisherInv, [NodeStep]_<<channelVars, nodeVars>> PROVE PublisherInv'
    OBVIOUS
  <2>1. CASE StartUp
    BY <2>1, StartUpPublisher
  <2>2. CASE Spin
    BY <2>2, SpinPublisher
  <2>3. CASE Interrupted
    BY <2>3 DEF Interrupted, PublisherInv, Early
  <2>4. CASE Shutdown
    BY <2>4 DEF Shutdown, ShutDown, PublisherInv, Early
  <2>5. CASE Tick
    BY <2>5 DEF Tick, PublisherInv, Early
  <2>6. CASE NodeLibraryStep
    BY <2>6, LibraryPublisher
  <2>7. CASE \E call \in Arriving : Arrive(call)
    BY <2>7 DEF Arrive, PublisherInv, channelVars, lineVars
  <2>8. CASE UNCHANGED <<channelVars, nodeVars>>
    BY <2>8 DEF PublisherInv, channelVars, lineVars, nodeVars
  <2> QED
    BY <2>1, <2>2, <2>3, <2>4, <2>5, <2>6, <2>7, <2>8 DEF NodeStep
<1>3. PublisherInv => FeedbackHasPublisher
  BY DEF PublisherInv, FeedbackHasPublisher, Early
<1> QED
  BY <1>1, <1>2, <1>3, PTL DEF NodeSpec

-----------------------------------------------------------------------------
(* The callbacks that wait, with the timer's expiry at most once.          *)
AtMostOnce(s) == \A i, j \in 1 .. Len(s) : s[i] = Expiry /\ s[j] = Expiry => i = j
NoExpiry(s) == \A i \in 1 .. Len(s) : s[i] # Expiry

LEMMA ExpiryWaits ==
  ASSUME NEW s \in Seq(Callbacks)
  PROVE  Expiry \in ToSet(s) <=> ~NoExpiry(s)
  BY LenProperties DEF ToSet, NoExpiry

(* The least number of a set is in it.                                     *)
LEMMA LeastInSet ==
  ASSUME NEW S, NEW m \in S, \A y \in S : m <= y
  PROVE  Min(S) \in S
  BY Zenon DEF Min

(* What is left when the expiry is taken back.                             *)
LEMMA TakeBack ==
  ASSUME NEW s \in Seq(Callbacks), AtMostOnce(s)
  PROVE  /\ RemoveFirst(s, Expiry) \in Seq(Callbacks)
         /\ NoExpiry(RemoveFirst(s, Expiry))
         /\ NoExpiry(s) => RemoveFirst(s, Expiry) = s
         /\ ~NoExpiry(s) => Len(RemoveFirst(s, Expiry)) = Len(s) - 1
<1>1. CASE NoExpiry(s)
  BY <1>1 DEF NoExpiry, RemoveFirst
<1>2. CASE ~NoExpiry(s)
  <2>1. PICK i \in 1 .. Len(s) : s[i] = Expiry
    BY <1>2 DEF NoExpiry
  <2>2. SelectInSeq(s, LAMBDA v : v = Expiry) = i
    <3>1. {k \in 1 .. Len(s) : s[k] = Expiry} = {i}
      BY <2>1 DEF AtMostOnce
    <3>2. Min({i}) = i
      <4>1. i \in {i} /\ \A y \in {i} : i <= y
        BY LenProperties
      <4>2. Min({i}) \in {i}
        BY <4>1, LeastInSet
      <4> QED
        BY <4>2
    <3> QED
      BY <3>1, <3>2 DEF SelectInSeq
  <2> DEFINE front == SubSeq(s, 1, i - 1)
             back == SubSeq(s, i + 1, Len(s))
  <2>3. RemoveFirst(s, Expiry) = front \o back
    BY <2>1, <2>2 DEF RemoveFirst, RemoveAt
  <2>4. /\ front \in Seq(Callbacks) /\ Len(front) = i - 1
        /\ \A j \in 1 .. i - 1 : front[j] = s[j]
    <3>1. i \in Int /\ 1 <= i /\ \A k \in 1 .. i - 1 : s[k] \in Callbacks
      BY LenProperties, ElementOfSeq
    <3> QED
      BY <3>1, SubSeqProperties
  <2>5. /\ back \in Seq(Callbacks) /\ Len(back) = Len(s) - i
        /\ \A j \in 1 .. Len(s) - i : back[j] = s[i + j]
    <3>1. i \in Int /\ Len(s) \in Nat /\ i <= Len(s) /\ \A k \in i + 1 .. Len(s) : s[k] \in Callbacks
      BY LenProperties, ElementOfSeq
    <3> QED
      BY <3>1, SubSeqProperties
  <2> HIDE DEF front, back
  <2>6. /\ front \o back \in Seq(Callbacks) /\ Len(front \o back) = Len(s) - 1
        /\ \A j \in 1 .. Len(s) - 1 :
             (front \o back)[j] = IF j <= i - 1 THEN front[j] ELSE back[j - (i - 1)]
    <3>1. i \in Int /\ Len(s) \in Nat /\ Len(front) + Len(back) = Len(s) - 1
      BY <2>4, <2>5, LenProperties
    <3>2. /\ front \o back \in Seq(Callbacks) /\ Len(front \o back) = Len(front) + Len(back)
          /\ \A j \in 1 .. Len(front) + Len(back) :
               (front \o back)[j] = IF j <= Len(front) THEN front[j] ELSE back[j - Len(front)]
      BY <2>4, <2>5, ConcatProperties
    <3> DEFINE both == front \o back
    <3> HIDE DEF both
    <3> QED
      BY <2>4, <3>1, <3>2 DEF both
  <2>7. \A j \in 1 .. Len(s) - 1 : (front \o back)[j] # Expiry
    BY <2>1, <2>4, <2>5, <2>6, LenProperties DEF AtMostOnce
  <2> QED
    BY <1>2, <2>3, <2>6, <2>7 DEF NoExpiry
<1> QED
  BY <1>1, <1>2

LEMMA AppendWaiting ==
  ASSUME NEW s \in Seq(Callbacks), AtMostOnce(s), NEW call \in Callbacks,
         call = Expiry => NoExpiry(s)
  PROVE  LET t == Append(s, call)
         IN /\ t \in Seq(Callbacks) /\ AtMostOnce(t) /\ Len(t) = Len(s) + 1
            /\ \A i \in 1 .. Len(s) : t[i] = s[i]
            /\ t[Len(s) + 1] = call
            /\ Len(RemoveFirst(t, Expiry)) =
                 Len(RemoveFirst(s, Expiry)) + (IF call = Expiry THEN 0 ELSE 1)
<1> DEFINE t == Append(s, call)
<1>1. /\ t \in Seq(Callbacks) /\ Len(t) = Len(s) + 1 /\ Len(s) \in Nat
      /\ \A i \in 1 .. Len(s) : t[i] = s[i]
      /\ t[Len(s) + 1] = call
  BY AppendProperties, LenProperties
<1> HIDE DEF t
<1>2. AtMostOnce(t)
  BY <1>1 DEF AtMostOnce, NoExpiry
<1>3. NoExpiry(t) <=> NoExpiry(s) /\ call # Expiry
  BY <1>1 DEF NoExpiry
<1>4. Len(RemoveFirst(t, Expiry)) = Len(RemoveFirst(s, Expiry)) + (IF call = Expiry THEN 0 ELSE 1)
  <2>1. CASE NoExpiry(s)
    BY <1>1, <1>2, <1>3, <2>1, TakeBack
  <2>2. CASE ~NoExpiry(s)
    BY <1>1, <1>2, <1>3, <2>2, TakeBack
  <2> QED
    BY <2>1, <2>2
<1> QED
  BY <1>1, <1>2, <1>4 DEF t

LEMMA TailWaiting ==
  ASSUME NEW s \in Seq(Callbacks), AtMostOnce(s), s # <<>>
  PROVE  LET t == Tail(s)
         IN /\ t \in Seq(Callbacks) /\ AtMostOnce(t) /\ Len(t) = Len(s) - 1 /\ Len(s) \in Nat \ {0}
            /\ \A i \in 1 .. Len(t) : t[i] = s[i + 1]
            /\ Len(RemoveFirst(t, Expiry)) <= Len(RemoveFirst(s, Expiry))
<1> DEFINE t == Tail(s)
<1>1. /\ t \in Seq(Callbacks) /\ Len(t) = Len(s) - 1 /\ Len(s) \in Nat \ {0}
      /\ \A i \in 1 .. Len(t) : t[i] = s[i + 1]
  BY HeadTailProperties, EmptySeq
<1> HIDE DEF t
<1>2. AtMostOnce(t)
  BY <1>1 DEF AtMostOnce
<1>3. NoExpiry(s) => NoExpiry(t)
  BY <1>1 DEF NoExpiry
<1>4. Len(RemoveFirst(t, Expiry)) <= Len(RemoveFirst(s, Expiry))
  <2>1. CASE NoExpiry(s)
    BY <1>1, <1>2, <1>3, <2>1, TakeBack
  <2>2. CASE ~NoExpiry(s) /\ ~NoExpiry(t)
    BY <1>1, <1>2, <2>2, TakeBack
  <2>3. CASE ~NoExpiry(s) /\ NoExpiry(t)
    BY <1>1, <1>2, <2>3, TakeBack
  <2> QED
    BY <2>1, <2>2, <2>3
<1> QED
  BY <1>1, <1>2, <1>4 DEF t

StartLabels == {"init", "callbacks", "publisher", "params", "autorepeat", "timer"}

WaitingInv ==
  /\ calls \in Seq(Callbacks)
  /\ AtMostOnce(calls)
  /\ Len(Messages) <= MaxCalls

(* The timer runs once an SV has come under autorepeat.                    *)
TimerInv ==
  /\ left \in 1 .. period
  /\ covered => timerRuns /\ nodeAt \notin StartLabels

(* A service that is being waited for has a tick yet to take.              *)
TicksToCome == IF nodeAt = "waiting" THEN 1 ELSE 0

(* While no expiry waits, the timer elapses in time; one that waits has    *)
(* only so many callbacks before it, and each can take a tick.             *)
InTime(waiting, ago, toGo, allowed, ticks) ==
  \/ NoExpiry(waiting) /\ ago + toGo <= allowed
  \/ \E i \in 1 .. Len(waiting) :
       waiting[i] = Expiry /\ ago + (i - 1) + ticks <= allowed + MaxCalls

DeadlineInv ==
  wanted /\ covered /\ nodeAt \notin {"shutdown", "exit"} =>
    InTime(calls, since, left, period, TicksToCome)

NodeInv == NodeTypeOK /\ WaitingInv /\ TimerInv /\ DeadlineInv

(* After repetition is asked for there is time enough.                     *)
LEMMA InTimeAtFirst ==
  ASSUME NEW s \in Seq(Callbacks), AtMostOnce(s), Len(RemoveFirst(s, Expiry)) <= MaxCalls,
         NEW allowed \in Nat, NEW toGo \in 1 .. allowed
  PROVE  InTime(s, 0, toGo, allowed, 0)
<1>1. CASE NoExpiry(s)
  BY <1>1 DEF InTime
<1>2. CASE ~NoExpiry(s)
  <2>1. PICK i \in 1 .. Len(s) : s[i] = Expiry
    BY <1>2 DEF NoExpiry
  <2>2. Len(s) - 1 <= MaxCalls /\ Len(s) \in Nat /\ MaxCalls \in Nat
    BY <1>2, TakeBack, LenProperties, BoundsAssumption
  <2>3. 0 + (i - 1) + 0 <= allowed + MaxCalls
    BY <2>2
  <2> QED
    BY <2>1, <2>3 DEF InTime
<1> QED
  BY <1>1, <1>2

LEMMA InitNodeInv == ChannelInit /\ NodeInit => NodeInv
<1> SUFFICES ASSUME ChannelInit, NodeInit PROVE NodeInv
  OBVIOUS
<1>1. NodeTypeOK
  <2>1. calls \in Seq(Callbacks)
    BY EmptySeq DEF NodeInit
  <2>2. 1 \in 1 .. Len(ParameterCommands) + 1
    BY DEF ParameterCommands
  <2> QED
    BY <2>1, <2>2, PeriodsAssumption DEF NodeInit, NodeTypeOK
<1>2. WaitingInv
  <2>1. calls = <<>> /\ calls \in Seq(Callbacks) /\ Len(calls) = 0
    BY EmptySeq DEF NodeInit
  <2>2. AtMostOnce(calls) /\ NoExpiry(calls)
    <3>1. 1 .. Len(calls) = {}
      BY <2>1
    <3> QED
      BY <3>1 DEF AtMostOnce, NoExpiry
  <2>3. Messages = calls
    BY <2>1, <2>2, TakeBack DEF Messages
  <2> QED
    BY <2>1, <2>2, <2>3, BoundsAssumption DEF WaitingInv
<1>3. TimerInv /\ DeadlineInv
  BY PeriodsAssumption DEF NodeInit, TimerInv, DeadlineInv
<1> QED
  BY <1>1, <1>2, <1>3 DEF NodeInv

(* main up to ros::spin: no SV has come yet.                               *)
LEMMA StartUpNodeInv == NodeInv /\ StartUp => NodeInv'
<1> SUFFICES ASSUME NodeInv, StartUp PROVE NodeInv'
  OBVIOUS
<1>1. UNCHANGED <<calls, since, covered, timerRuns>> /\ nodeAt \in StartLabels
  BY DEF StartUp, InitLibrary, SetCallbacks, Advertise, Parameter, AutorepeatParameter, CreateTimer, StartLabels,
     timerVars, historyVars
<1>2. ~covered
  BY <1>1 DEF NodeInv, TimerInv
<1>3. NodeTypeOK' /\ left' \in 1 .. period'
  <2> USE PeriodsAssumption DEF NodeInv, NodeTypeOK, TimerInv, timerVars, historyVars
  <2>1. CASE InitLibrary \/ SetCallbacks \/ Advertise
    BY <2>1 DEF InitLibrary, SetCallbacks, Advertise
  <2>2. CASE Parameter
    <3>1. Len(ParameterCommands) = 9
      BY DEF ParameterCommands
    <3> QED
      BY <2>2, <3>1 DEF Parameter
  <2>3. CASE AutorepeatParameter
    BY <2>3 DEF AutorepeatParameter
  <2>4. CASE CreateTimer
    BY <2>4 DEF CreateTimer
  <2> QED
    BY <2>1, <2>2, <2>3, <2>4 DEF StartUp
<1> QED
  BY <1>1, <1>2, <1>3 DEF NodeInv, WaitingInv, Messages, TimerInv, DeadlineInv

(* A callback that is taken up was the first of those that wait.           *)
LEMMA TakeKeeps ==
  ASSUME NodeInv, NEW call, Take(call)
  PROVE  /\ WaitingInv' /\ nodeAt = "spin"
         /\ calls # <<>> /\ calls' = Tail(calls) /\ calls' \in Seq(Callbacks)
         /\ Len(calls) \in Nat \ {0} /\ calls[1] = call
  <1>1. calls \in Seq(Callbacks) /\ AtMostOnce(calls) /\ calls # <<>> /\ calls' = Tail(calls) /\ Head(calls) = call
    BY DEF NodeInv, WaitingInv, Take
  <1>2. /\ Len(RemoveFirst(calls, Expiry)) <= MaxCalls /\ MaxCalls \in Nat
        /\ Len(RemoveFirst(calls, Expiry)) \in Nat /\ Len(RemoveFirst(calls', Expiry)) \in Nat
        /\ calls' \in Seq(Callbacks) /\ AtMostOnce(calls') /\ Len(calls) \in Nat \ {0}
        /\ Len(RemoveFirst(calls', Expiry)) <= Len(RemoveFirst(calls, Expiry))
    BY <1>1, TailWaiting, TakeBack, LenProperties, BoundsAssumption DEF NodeInv, WaitingInv, Messages
  <1>3. calls[1] = call /\ nodeAt = "spin"
    BY <1>1 DEF Take
  <1> QED
    BY <1>1, <1>2, <1>3 DEF WaitingInv, Messages

(* Taking a callback leaves time for the wait of a service.                *)
LEMMA TakeInTime ==
  ASSUME NodeInv, NEW call \in Callbacks \ {Expiry}, Take(call),
         InTime(calls, since, left, period, 0)
  PROVE  InTime(calls', since, left, period, 1)
<1>1. /\ Len(calls) \in Nat \ {0} /\ calls[1] = call /\ Len(calls') = Len(calls) - 1
      /\ \A i \in 1 .. Len(calls') : calls'[i] = calls[i + 1]
  BY TakeKeeps, TailWaiting DEF NodeInv, WaitingInv
<1>2. CASE NoExpiry(calls) /\ since + left <= period
  <2>1. NoExpiry(calls')
    BY <1>1, <1>2 DEF NoExpiry
  <2> QED
    BY <1>2, <2>1 DEF InTime
<1>3. ASSUME NEW i \in 1 .. Len(calls), calls[i] = Expiry, since + (i - 1) + 0 <= period + MaxCalls
      PROVE  InTime(calls', since, left, period, 1)
  <2>1. i # 1
    BY <1>1, <1>3
  <2>2. i - 1 \in 1 .. Len(calls') /\ calls'[i - 1] = Expiry
    BY <1>1, <1>3, <2>1
  <2>3. since \in Nat /\ period \in Nat /\ MaxCalls \in Nat
    BY PeriodsAssumption, BoundsAssumption DEF NodeInv, NodeTypeOK
  <2>4. since + ((i - 1) - 1) + 1 <= period + MaxCalls
    BY <1>3, <2>3
  <2> QED
    BY <2>2, <2>4 DEF InTime
<1> QED
  BY <1>2, <1>3 DEF InTime

LEMMA NoTickToCome ==
  ASSUME NEW s \in Seq(Callbacks), NEW ago \in Nat, NEW toGo, NEW allowed \in Nat,
         InTime(s, ago, toGo, allowed, 1)
  PROVE  InTime(s, ago, toGo, allowed, 0)
<1>1. CASE NoExpiry(s) /\ ago + toGo <= allowed
  BY <1>1 DEF InTime
<1>2. ASSUME NEW i \in 1 .. Len(s), s[i] = Expiry, ago + (i - 1) + 1 <= allowed + MaxCalls
      PROVE  InTime(s, ago, toGo, allowed, 0)
  <2>1. MaxCalls \in Nat /\ Len(s) \in Nat
    BY BoundsAssumption, LenProperties
  <2>2. ago + (i - 1) + 0 <= allowed + MaxCalls
    BY <1>2, <2>1
  <2> QED
    BY <1>2, <2>2 DEF InTime
<1> QED
  BY <1>1, <1>2 DEF InTime

(* The callbacks but the expiry.                                           *)
LEMMA MessageNames ==
  /\ Topics \cup Services \subseteq Callbacks \ {Expiry}
  /\ "Velocity" \in Topics /\ DOMAIN TopicCommand \subseteq Topics /\ Controls \subseteq Topics
  BY DEF Topics, Services, Callbacks, Controls, TopicCommand, ServiceCommand, Expiry

(* The callbacks that ask for repetition, or change the period, start      *)
(* anew; the others leave time for what they take (tmc200controller.cpp:   *)
(* 132-431).                                                               *)
LEMMA SpinNodeInv == NodeInv /\ Spin => NodeInv'
<1> SUFFICES ASSUME NodeInv, Spin PROVE NodeInv'
  OBVIOUS
<1>0. /\ NodeTypeOK /\ WaitingInv /\ TimerInv /\ DeadlineInv
      /\ period \in Nat /\ left \in 1 .. period /\ covered \in BOOLEAN
  BY PeriodsAssumption DEF NodeInv, NodeTypeOK, TimerInv
<1>1. CASE SVSubsClbk
  <2>1. Take("Velocity") /\ "Velocity" \in Callbacks \ {Expiry}
    BY <1>1, MessageNames DEF SVSubsClbk
  <2>2. WaitingInv' /\ nodeAt = "spin" /\ calls' \in Seq(Callbacks)
    BY <2>1, TakeKeeps
  <2>3. /\ UNCHANGED <<isAutoresendSVSet, timerRuns, period, left, since, covered, wanted, param, pointers>>
        /\ nodeAt' = "SVqueued"
    BY <1>1 DEF SVSubsClbk, Take, Accept, timerVars, historyVars
  <2>4. NodeTypeOK' /\ TimerInv'
    BY <1>0, <2>2, <2>3 DEF NodeTypeOK, TimerInv, StartLabels
  <2>5. DeadlineInv'
    <3> SUFFICES ASSUME wanted, covered PROVE InTime(calls', since, left, period, 0)
      BY <2>3 DEF DeadlineInv, TicksToCome
    <3>1. InTime(calls, since, left, period, 0)
      BY <1>0, <2>2 DEF DeadlineInv, TicksToCome
    <3>2. InTime(calls', since, left, period, 1)
      BY <2>1, <3>1, TakeInTime
    <3>3. since \in Nat
      BY <1>0 DEF NodeTypeOK
    <3> QED
      BY <1>0, <2>2, <3>2, <3>3, NoTickToCome
  <2> QED
    BY <2>2, <2>4, <2>5 DEF NodeInv
<1>2. CASE SVSubsClbkRest
  <2>1. CASE ~isAutoresendSVSet
    <3>1. UNCHANGED <<calls, isAutoresendSVSet, timerVars, historyVars, wanted, param, pointers>>
          /\ nodeAt = "SVqueued" /\ nodeAt' = "spin"
      BY <1>2, <2>1 DEF SVSubsClbkRest, channelVars, timerVars, historyVars
    <3> QED
      BY <1>0, <3>1
      DEF NodeInv, NodeTypeOK, WaitingInv, Messages, TimerInv, DeadlineInv, TicksToCome, StartLabels, timerVars,
          historyVars
  <2>2. CASE isAutoresendSVSet
    <3>1. /\ UNCHANGED <<isAutoresendSVSet, period, param, pointers>> /\ nodeAt' = "spin"
          /\ calls' = RemoveFirst(calls, Expiry) /\ timerRuns' = TRUE /\ left' = period
          /\ since' = 0 /\ covered' = TRUE
      BY <1>2, <2>2 DEF SVSubsClbkRest, Messages
    <3>2. calls' \in Seq(Callbacks) /\ NoExpiry(calls') /\ Len(calls') <= MaxCalls
      BY <1>0, <3>1, TakeBack DEF WaitingInv, Messages
    <3>3. WaitingInv'
      <4>1. AtMostOnce(calls')
        BY <3>2 DEF AtMostOnce, NoExpiry
      <4>2. RemoveFirst(calls', Expiry) = calls'
        BY <3>2, <4>1, TakeBack
      <4> QED
        BY <3>2, <4>1, <4>2 DEF WaitingInv, Messages
    <3>4. NodeTypeOK' /\ TimerInv'
      BY <1>0, <3>1, <3>2 DEF NodeTypeOK, TimerInv, StartLabels
    <3>5. InTime(calls', 0, period, period, 0)
      BY <1>0, <3>2 DEF InTime
    <3> QED
      BY <3>1, <3>3, <3>4, <3>5 DEF NodeInv, DeadlineInv, TicksToCome
  <2> QED
    BY <2>1, <2>2
<1>3. CASE autoSVSubsClbk
  <2>1. WaitingInv' /\ nodeAt = "spin" /\ nodeAt' = "spin" /\ calls' \in Seq(Callbacks)
    BY <1>3, TakeKeeps DEF autoSVSubsClbk
  <2>2. /\ isAutoresendSVSet' \in BOOLEAN /\ wanted' = isAutoresendSVSet'
        /\ since' = (IF isAutoresendSVSet' THEN 0 ELSE since)
        /\ UNCHANGED <<timerRuns, period, left, covered, param, pointers>>
    BY <1>3 DEF autoSVSubsClbk, Take, Want, timerVars
  <2>3. NodeTypeOK' /\ TimerInv'
    BY <1>0, <2>1, <2>2 DEF NodeTypeOK, TimerInv, StartLabels
  <2>4. InTime(calls', 0, left, period, 0)
    BY <1>0, <2>1, InTimeAtFirst DEF WaitingInv, Messages
  <2> QED
    BY <2>1, <2>2, <2>3, <2>4 DEF NodeInv, DeadlineInv, TicksToCome
<1>4. CASE cutofftoSubsClbk
  <2>1. WaitingInv' /\ nodeAt = "spin" /\ nodeAt' = "spin" /\ calls' \in Seq(Callbacks)
    BY <1>4, TakeKeeps DEF cutofftoSubsClbk
  <2>2. /\ period' \in Periods /\ left' = period' /\ since' = 0
        /\ UNCHANGED <<isAutoresendSVSet, timerRuns, covered, param, pointers>>
    BY <1>4 DEF cutofftoSubsClbk, Take
  <2>3. period' \in Nat /\ left' \in 1 .. period'
    BY <2>2, PeriodsAssumption
  <2>4. NodeTypeOK' /\ TimerInv'
    BY <1>0, <2>1, <2>2, <2>3 DEF NodeTypeOK, TimerInv, StartLabels
  <2>5. InTime(calls', 0, left', period', 0)
    BY <2>1, <2>3, InTimeAtFirst DEF WaitingInv, Messages
  <2> QED
    BY <2>1, <2>2, <2>4, <2>5 DEF NodeInv, DeadlineInv, TicksToCome
<1>5. CASE SetterSubsClbk \/ ServiceClbk
  <2>1. PICK call \in Callbacks \ {Expiry} : Take(call)
    BY <1>5, MessageNames DEF SetterSubsClbk, ServiceClbk
  <2>2. WaitingInv' /\ nodeAt = "spin" /\ calls' \in Seq(Callbacks)
    BY <2>1, TakeKeeps
  <2>3. /\ UNCHANGED <<isAutoresendSVSet, timerRuns, period, left, since, covered, wanted, param, pointers>>
        /\ nodeAt' \in {"spin", "waiting"}
    BY <1>5, <2>2 DEF SetterSubsClbk, ServiceClbk, Take, Accept, timerVars, historyVars
  <2>4. NodeTypeOK' /\ TimerInv'
    BY <1>0, <2>2, <2>3 DEF NodeTypeOK, TimerInv, StartLabels
  <2>5. ASSUME wanted, covered PROVE InTime(calls', since, left, period, TicksToCome')
    <3>1. InTime(calls, since, left, period, 0)
      BY <1>0, <2>2, <2>5 DEF DeadlineInv, TicksToCome
    <3>2. InTime(calls', since, left, period, 1)
      BY <2>1, <3>1, TakeInTime
    <3>3. since \in Nat
      BY <1>0 DEF NodeTypeOK
    <3> QED
      BY <1>0, <2>2, <2>3, <3>2, <3>3, NoTickToCome DEF TicksToCome
  <2> QED
    BY <2>2, <2>3, <2>4, <2>5 DEF NodeInv, DeadlineInv
<1>6. CASE ServiceReturn
  <2>1. UNCHANGED <<calls, isAutoresendSVSet, timerVars, historyVars, wanted, param, pointers>>
        /\ nodeAt \in {"waiting", "waited"} /\ nodeAt' = "spin"
    BY <1>6 DEF ServiceReturn, channelVars
  <2>2. NodeTypeOK' /\ WaitingInv' /\ TimerInv'
    BY <1>0, <2>1 DEF NodeTypeOK, WaitingInv, Messages, TimerInv, StartLabels, timerVars, historyVars
  <2>3. ASSUME wanted, covered PROVE InTime(calls, since, left, period, 0)
    <3>1. InTime(calls, since, left, period, TicksToCome)
      BY <1>0, <2>1, <2>3 DEF DeadlineInv
    <3>2. since \in Nat /\ calls \in Seq(Callbacks)
      BY <1>0 DEF NodeTypeOK
    <3> QED
      BY <1>0, <3>1, <3>2, NoTickToCome DEF TicksToCome
  <2> QED
    BY <2>1, <2>2, <2>3 DEF NodeInv, DeadlineInv, TicksToCome, timerVars, historyVars
<1>7. CASE onCutOffTimerExpire
  <2>1. WaitingInv' /\ nodeAt = "spin" /\ nodeAt' = "spin" /\ calls' \in Seq(Callbacks)
    BY <1>7, TakeKeeps DEF onCutOffTimerExpire
  <2>2. UNCHANGED <<isAutoresendSVSet, timerRuns, period, left, since, covered, param, pointers>> /\ wanted' = FALSE
    BY <1>7 DEF onCutOffTimerExpire, Take, Want, timerVars, historyVars
  <2> QED
    BY <1>0, <2>1, <2>2 DEF NodeInv, NodeTypeOK, TimerInv, StartLabels, DeadlineInv
<1> QED
  BY <1>1, <1>2, <1>3, <1>4, <1>5, <1>6, <1>7 DEF Spin

(* What arrives queues up behind the expiry.                               *)
LEMMA ArriveNodeInv ==
  NodeInv /\ (\E call \in Arriving : Arrive(call)) => NodeInv'
<1> SUFFICES ASSUME NodeInv, NEW call \in Arriving, Arrive(call) PROVE NodeInv'
  OBVIOUS
<1>1. call \in Callbacks \ {Expiry}
  BY ArrivingAssumption, MessageNames
<1>2. /\ UNCHANGED <<nodeAt, param, isAutoresendSVSet, pointers, timerVars, historyVars, wanted>>
      /\ calls' = Append(calls, call) /\ Len(RemoveFirst(calls, Expiry)) < MaxCalls
  BY DEF Arrive, channelVars, Messages
<1>3. /\ calls \in Seq(Callbacks) /\ AtMostOnce(calls) /\ MaxCalls \in Nat /\ Len(calls) \in Nat
      /\ Len(RemoveFirst(calls, Expiry)) \in Nat
  BY TakeBack, LenProperties, BoundsAssumption DEF NodeInv, WaitingInv
<1>4. /\ calls' \in Seq(Callbacks) /\ AtMostOnce(calls') /\ Len(calls') = Len(calls) + 1
      /\ \A i \in 1 .. Len(calls) : calls'[i] = calls[i]
      /\ calls'[Len(calls) + 1] = call
      /\ Len(RemoveFirst(calls', Expiry)) = Len(RemoveFirst(calls, Expiry)) + 1
  BY <1>1, <1>2, <1>3, AppendWaiting
<1>5. WaitingInv'
  BY <1>2, <1>3, <1>4 DEF WaitingInv, Messages
<1>6. NodeTypeOK' /\ TimerInv'
  BY <1>2, <1>4 DEF NodeInv, NodeTypeOK, TimerInv, timerVars, historyVars
<1>7. ASSUME InTime(calls, since, left, period, TicksToCome)
      PROVE  InTime(calls', since, left, period, TicksToCome)
  <2>1. CASE NoExpiry(calls) /\ since + left <= period
    <3>1. NoExpiry(calls')
      BY <1>1, <1>3, <1>4, <2>1 DEF NoExpiry
    <3> QED
      BY <2>1, <3>1 DEF InTime
  <2>2. ASSUME NEW i \in 1 .. Len(calls), calls[i] = Expiry,
               since + (i - 1) + TicksToCome <= period + MaxCalls
        PROVE  InTime(calls', since, left, period, TicksToCome)
    <3>1. i \in 1 .. Len(calls') /\ calls'[i] = Expiry
      BY <1>3, <1>4, <2>2
    <3> QED
      BY <2>2, <3>1 DEF InTime
  <2> QED
    BY <1>7, <2>1, <2>2 DEF InTime
<1> QED
  BY <1>2, <1>5, <1>6, <1>7 DEF NodeInv, DeadlineInv, TicksToCome, timerVars, historyVars

(* A tick brings the expiry nearer, or is one of those that the callbacks  *)
(* before it may take.                                                     *)
LEMMA TickNodeInv == NodeInv /\ Tick => NodeInv'
<1> SUFFICES ASSUME NodeInv, Tick PROVE NodeInv'
  OBVIOUS
<1>0. /\ NodeTypeOK /\ WaitingInv /\ TimerInv /\ DeadlineInv
      /\ period \in Nat \ {0} /\ left \in 1 .. period /\ since \in Nat /\ MaxCalls \in Nat
      /\ calls \in Seq(Callbacks) /\ AtMostOnce(calls) /\ Len(calls) \in Nat
  BY PeriodsAssumption, BoundsAssumption, LenProperties DEF NodeInv, NodeTypeOK, TimerInv, WaitingInv
<1>1. UNCHANGED <<param, isAutoresendSVSet, pointers, timerRuns, period, covered, wanted>>
  BY DEF Tick, channelVars
<1>2. \/ nodeAt = "spin" /\ nodeAt' = "spin" /\ calls = <<>>
      \/ nodeAt = "waiting" /\ nodeAt' = "waited"
  BY DEF Tick
<1>3. /\ since' \in Nat /\ since' <= since + 1
      /\ TicksToCome' = 0 /\ TicksToCome \in {0, 1}
      /\ calls # <<>> => TicksToCome = 1
  BY <1>0, <1>2 DEF Tick, TicksToCome
<1>4. CASE timerRuns /\ left = 1 /\ NoExpiry(calls)
  <2>1. calls' = Append(calls, Expiry) /\ left' = period
    BY <1>0, <1>4, ExpiryWaits DEF Tick, Elapse
  <2>2. Expiry \in Callbacks
    BY DEF Callbacks
  <2>3. /\ calls' \in Seq(Callbacks) /\ AtMostOnce(calls') /\ Len(calls') = Len(calls) + 1
        /\ calls'[Len(calls) + 1] = Expiry
        /\ Len(RemoveFirst(calls', Expiry)) = Len(RemoveFirst(calls, Expiry)) + 0
    BY <1>0, <1>4, <2>1, <2>2, AppendWaiting
  <2>4. RemoveFirst(calls, Expiry) = calls /\ Len(calls) <= MaxCalls
    BY <1>0, <1>4, TakeBack DEF WaitingInv, Messages
  <2>5. WaitingInv' /\ NodeTypeOK' /\ TimerInv'
    BY <1>0, <1>1, <1>2, <1>3, <2>1, <2>3, <2>4 DEF WaitingInv, Messages, NodeTypeOK, TimerInv, StartLabels
  <2>6. ASSUME wanted, covered PROVE InTime(calls', since', left', period', TicksToCome')
    <3>1. since + left <= period
      BY <1>0, <1>2, <1>4, <2>6 DEF DeadlineInv, InTime, NoExpiry
    <3>2. since' + ((Len(calls) + 1) - 1) + 0 <= period + MaxCalls
      BY <1>0, <1>3, <1>4, <2>4, <3>1
    <3>3. Len(calls) + 1 \in 1 .. Len(calls')
      BY <1>0, <2>3
    <3> QED
      BY <1>1, <1>3, <2>3, <3>2, <3>3 DEF InTime
  <2> QED
    BY <1>1, <2>5, <2>6 DEF NodeInv, DeadlineInv
<1>5. CASE ~(timerRuns /\ left = 1 /\ NoExpiry(calls))
  <2>1. calls' = calls /\ left' \in 1 .. period /\ (NoExpiry(calls) /\ timerRuns => left' = left - 1)
    BY <1>0, <1>5, ExpiryWaits DEF Tick, Elapse
  <2>2. WaitingInv' /\ NodeTypeOK' /\ TimerInv'
    BY <1>0, <1>1, <1>2, <1>3, <2>1 DEF WaitingInv, Messages, NodeTypeOK, TimerInv, StartLabels
  <2>3. ASSUME wanted, covered PROVE InTime(calls', since', left', period', TicksToCome')
    <3>1. InTime(calls, since, left, period, TicksToCome) /\ timerRuns
      BY <1>0, <1>2, <2>3 DEF DeadlineInv, TimerInv
    <3>2. CASE NoExpiry(calls) /\ since + left <= period
      <4>1. PICK later \in Nat : later = since'
        BY <1>3
      <4>2. /\ since \in Nat /\ left \in Nat /\ period \in Nat /\ later <= since + 1
            /\ left' = left - 1
        BY <1>0, <1>3, <2>1, <3>1, <3>2, <4>1
      <4>3. later + (left - 1) <= period
        BY <3>2, <4>2
      <4> QED
        BY <1>1, <2>1, <3>2, <4>1, <4>2, <4>3 DEF InTime
    <3>3. ASSUME NEW i \in 1 .. Len(calls), calls[i] = Expiry,
                 since + (i - 1) + TicksToCome <= period + MaxCalls
          PROVE  InTime(calls', since', left', period', TicksToCome')
      <4>1. calls # <<>>
        BY <1>0, EmptySeq
      <4>2. PICK later \in Nat : later = since'
        BY <1>3
      <4>3. /\ since \in Nat /\ period \in Nat /\ MaxCalls \in Nat /\ i \in Nat
            /\ later <= since + 1 /\ since + (i - 1) + 1 <= period + MaxCalls
        BY <1>0, <1>3, <3>3, <4>1, <4>2
      <4>4. later + (i - 1) + 0 <= period + MaxCalls
        BY <4>3
      <4> QED
        BY <1>1, <1>3, <2>1, <3>3, <4>2, <4>4 DEF InTime
    <3> QED
      BY <3>1, <3>2, <3>3 DEF InTime
  <2> QED
    BY <1>1, <2>2, <2>3 DEF NodeInv, DeadlineInv
<1> QED
  BY <1>4, <1>5

(* The end of main, and the library's threads.                             *)
LEMMA OtherNodeInv ==
  NodeInv /\ (Interrupted \/ Shutdown \/ NodeLibraryStep \/ UNCHANGED <<channelVars, nodeVars>>) => NodeInv'
<1> SUFFICES ASSUME NodeInv, Interrupted \/ Shutdown \/ NodeLibraryStep \/ UNCHANGED <<channelVars, nodeVars>>
             PROVE  NodeInv'
  OBVIOUS
<1> USE DEF NodeInv, NodeTypeOK, WaitingInv, Messages, TimerInv, DeadlineInv, TicksToCome, StartLabels, timerVars,
    historyVars
<1>1. CASE Interrupted
  <2>1. /\ calls' = <<>> /\ <<>> \in Seq(Callbacks) /\ NoExpiry(<<>>) /\ AtMostOnce(<<>>)
    BY <1>1, EmptySeq DEF Interrupted, NoExpiry, AtMostOnce
  <2>2. calls' = <<>> /\ calls' \in Seq(Callbacks) /\ NoExpiry(calls') /\ AtMostOnce(calls') /\ Len(calls') = 0
    BY <2>1, EmptySeq
  <2>3. RemoveFirst(calls', Expiry) = calls'
    BY <2>2, TakeBack
  <2>4. Len(RemoveFirst(calls', Expiry)) <= MaxCalls
    BY <2>2, <2>3, BoundsAssumption
  <2> QED
    BY <1>1, <2>2, <2>4 DEF Interrupted
<1>2. CASE Shutdown
  BY <1>2 DEF Shutdown
<1>3. CASE NodeLibraryStep
  BY <1>3 DEF NodeLibraryStep, LibraryStep, Transmit, Repeat, Complete, Deliver, nodeVars
<1>4. CASE UNCHANGED <<channelVars, nodeVars>>
  BY <1>4 DEF channelVars, nodeVars
<1> QED
  BY <1>1, <1>2, <1>3, <1>4

LEMMA NextNodeInv == NodeInv /\ [NodeStep]_<<channelVars, nodeVars>> => NodeInv'
  BY StartUpNodeInv, SpinNodeInv, ArriveNodeInv, TickNodeInv, OtherNodeInv DEF NodeStep

(* The node's variables keep their types; in particular the cut-off timer  *)
(* is never set to a time that has passed.                                 *)
THEOREM NodeTypes == NodeSpec => []NodeTypeOK
<1>1. NodeInv => NodeTypeOK
  BY DEF NodeInv
<1> QED
  BY <1>1, InitNodeInv, NextNodeInv, PTL DEF NodeSpec

(* Once an SV has come under autorepeat, the motors are never driven on    *)
(* for longer than a period of the cut-off timer and one wait of a service *)
(* for each callback that was there before the expiry, whatever messages   *)
(* come and however they are interleaved with the timer                    *)
(* (tmc200controller.cpp:50-64, 184-220).                                  *)
THEOREM MotorsCutOffInTime == NodeSpec => []CutOffInTime
<1>1. NodeInv => CutOffInTime
  <2> SUFFICES ASSUME NodeInv, wanted, covered, nodeAt \notin {"shutdown", "exit"}
               PROVE  since <= period + MaxCalls
    BY DEF CutOffInTime, SinceBound
  <2>1. /\ InTime(calls, since, left, period, TicksToCome) /\ TicksToCome \in {0, 1}
        /\ since \in Nat /\ left \in Nat /\ period \in Nat /\ MaxCalls \in Nat /\ Len(calls) \in Nat
    BY PeriodsAssumption, BoundsAssumption, LenProperties
    DEF NodeInv, NodeTypeOK, TimerInv, WaitingInv, DeadlineInv, TicksToCome
  <2>2. CASE since + left <= period
    BY <2>1, <2>2
  <2>3. ASSUME NEW i \in 1 .. Len(calls), since + (i - 1) + TicksToCome <= period + MaxCalls
        PROVE  since <= period + MaxCalls
    BY <2>1, <2>3
  <2> QED
    BY <2>1, <2>2, <2>3 DEF InTime
<1> QED
  BY <1>1, InitNodeInv, NextNodeInv, PTL DEF NodeSpec

=============================================================================
