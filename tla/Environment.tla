---------------------------- MODULE Environment -----------------------------
(***************************************************************************)
(* What surrounds libtmc200ctrl_io: the TMC200 controller at the other end *)
(* of the serial line, and the ways in which it, the operating system and  *)
(* the clock may misbehave.  None of this is in the repository; it is      *)
(* modelled from what the library's reads, writes and waits have to cope   *)
(* with.                                                                   *)
(***************************************************************************)
EXTENDS Integers, Sequences

CONSTANT Faults

ASSUME FaultsAssumption ==
  Faults \subseteq {"late",       \* an answer may come after the read timeout
                    "err",        \* the device may answer "ERR "
                    "split",      \* an answer may arrive in two reads
                    "silent",     \* the device may not answer
                    "write",      \* a write may run into its timeout
                    "einval",     \* the clock may give a tv_nsec out of range
                    "spurious",   \* a condition wait may wake up by itself
                    "create"}     \* pthread_create may fail

(* What goes over the line: fragments of lines, each naming the command it *)
(* belongs to (by its number; 0 for an "ERR " line) and saying whether it  *)
(* carries the line break.                                                 *)
Fragment == [of : Nat, end : BOOLEAN]
Text == Seq(Fragment)
Line(n) == <<[of |-> n, end |-> TRUE]>>

VARIABLES
  reply,  \* fragments the device has still to put on the line
  line    \* fragments on the line that no read has taken

deviceVars == <<reply, line>>

DeviceTypeOK ==
  /\ reply \in Text
  /\ line \in Text

DeviceInit ==
  /\ reply = <<>>
  /\ line = <<>>

-----------------------------------------------------------------------------
(* What the device may answer to command n.                                *)
Answers(n) ==
  {Line(n)}
    \cup (IF "err" \in Faults THEN {Line(0)} ELSE {})
    \cup (IF "silent" \in Faults THEN {<<>>} ELSE {})
    \cup (IF "split" \in Faults
            THEN {<<[of |-> n, end |-> FALSE]>> \o Line(n)} ELSE {})

(* The device takes in command n and owes its answer.                      *)
DeviceAccept(n) ==
  /\ \E answer \in Answers(n) : reply' = reply \o answer
  /\ UNCHANGED line

DeviceEmit ==
  /\ reply # <<>>
  /\ line' = Append(line, Head(reply))
  /\ reply' = Tail(reply)

(* read() took all there was.                                              *)
LineTaken ==
  /\ line' = <<>>
  /\ UNCHANGED reply

(* Reads find nothing for the whole of the read timeout.                   *)
LineSilent == line = <<>> /\ (reply = <<>> \/ "late" \in Faults)

=============================================================================
