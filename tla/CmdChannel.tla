----------------------------- MODULE CmdChannel -----------------------------
(***************************************************************************)
(* What libtmc200ctrl_io promises of the commands it is given, whatever    *)
(* its queues and threads do: they are transmitted one at a time, in the   *)
(* order of acceptance, none skipped and none invented; only a repeatable  *)
(* command may be transmitted again, only if repetition was wanted when it *)
(* was transmitted last, and only until the next one is.  Every            *)
(* transmission yields at most one answer, and the answers are handed on   *)
(* in the order of the transmissions.  A shutdown followed by a new init   *)
(* may give up commands and answers.                                       *)
(*                                                                         *)
(* The programs that use the library are modelled over this channel.       *)
(***************************************************************************)
EXTENDS Naturals, Sequences

CONSTANTS Command,     \* the commands
          Repeatable   \* those of them that may be transmitted more than once

VARIABLES
  issued,     \* the accepted commands, in order
  sent,       \* how many of them have been transmitted or given up
  sending,    \* whether a transmission, with its answer, is under way
  wanted,     \* whether repetition is switched on
  repeating,  \* whether the command transmitted last will be repeated
  answers     \* the commands whose answers have still to be handed on

lineVars == <<sent, sending, repeating>>
channelVars == <<issued, wanted, answers, lineVars>>

ChannelTypeOK ==
  /\ issued \in Seq(Command)
  /\ sent \in 0 .. Len(issued)
  /\ sending \in BOOLEAN
  /\ wanted \in BOOLEAN
  /\ repeating \in BOOLEAN
  /\ answers \in Seq(Command)

ChannelInit ==
  /\ issued = <<>>
  /\ sent = 0
  /\ sending = FALSE
  /\ wanted = FALSE
  /\ repeating = FALSE
  /\ answers = <<>>

Accept(cmd) ==
  /\ issued' = Append(issued, cmd)
  /\ UNCHANGED <<wanted, answers, lineVars>>

Want(val) ==
  /\ wanted' = val
  /\ UNCHANGED <<issued, answers, lineVars>>

Transmit ==
  /\ ~sending /\ sending' = TRUE
  /\ sent < Len(issued)
  /\ sent' = sent + 1
  /\ repeating' = (issued[sent'] \in Repeatable /\ wanted)
  /\ UNCHANGED <<issued, wanted, answers>>

Repeat ==
  /\ ~sending /\ sending' = TRUE
  /\ repeating
  /\ sent > 0
  /\ repeating' = (issued[sent] \in Repeatable /\ wanted)
  /\ UNCHANGED <<issued, sent, wanted, answers>>

(* The transmission ends, with an answer or without one.                   *)
Complete ==
  /\ sending /\ sending' = FALSE
  /\ answers' \in {answers, Append(answers, issued[sent])}
  /\ UNCHANGED <<issued, sent, wanted, repeating>>

Deliver ==
  /\ answers # <<>>
  /\ answers' = Tail(answers)
  /\ UNCHANGED <<issued, wanted, lineVars>>

Restart ==
  /\ ~sending
  /\ sent' = Len(issued)
  /\ answers' \in {answers, <<>>}
  /\ UNCHANGED <<issued, sending, wanted, repeating>>

(* What the library's threads do of their own accord; a sender that is     *)
(* told to stop repeats nothing.  A shutdown that has returned leaves      *)
(* nothing to deliver.                                                     *)
LibraryStep(stopping) == Transmit \/ (~stopping /\ Repeat) \/ Complete \/ Deliver

ShutDown == Restart /\ answers' = <<>>

ChannelNext ==
  \/ \E cmd \in Command : Accept(cmd)
  \/ \E val \in BOOLEAN : Want(val)
  \/ Transmit \/ Repeat \/ Complete \/ Deliver \/ Restart

ChannelSpec == ChannelInit /\ [][ChannelNext]_channelVars

=============================================================================
