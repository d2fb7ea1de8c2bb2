---------------------------- MODULE ReceiveData ----------------------------
(***************************************************************************)
(* receiveData (sendtmc200cmdsthread.c), byte by byte: how the answers are *)
(* cut out of what comes over the serial line.  An answer is a text and    *)
(* the two characters of its line break; a read takes all that is there    *)
(* and fits into the item; the line break is looked for in one place only, *)
(* before the last character that has come.  One answer is received for    *)
(* each command.  "ERR " is left to SendThread.                            *)
(***************************************************************************)
EXTENDS Integers, SequencesExt

CONSTANTS DataSize,     \* FEEDBACKQUEUE_DATA_SIZE
          TextLengths,  \* lengths of the answers' texts
          Questions     \* how many commands are sent (a bound)

ASSUME DataSizeAssumption == DataSize \in Nat \ {0}
ASSUME TextLengthsAssumption == TextLengths \subseteq Nat
ASSUME QuestionsAssumption == Questions \in Nat

VARIABLES
  prompt,     \* whether no byte of an answer is late for the read timeout
  lengths,    \* the length of the text of each answer, -1 if there is none
  asked,      \* how many commands have been sent
  receiving,  \* whether receiveData is under way
  coming,     \* the bytes the device has still to send
  wire,       \* the bytes on the line
  data,       \* the bytes in the item, iCurPos of them
  texts       \* the texts that have been queued

receiveVars == <<prompt, lengths, asked, receiving, coming, wire, data, texts>>

Byte(of, pos, end) == [of |-> of, pos |-> pos, lineBreak |-> end]
TextOf(n) == [pos \in 1 .. lengths[n] |-> Byte(n, pos, FALSE)]
AnswerTo(n) ==
  IF lengths[n] = -1 THEN <<>>
  ELSE TextOf(n) \o <<Byte(n, lengths[n] + 1, TRUE), Byte(n, lengths[n] + 2, FALSE)>>

ReceiveInit ==
  /\ prompt \in BOOLEAN
  /\ lengths \in [1 .. Questions -> TextLengths \cup {-1}]
  /\ asked = 0 /\ receiving = FALSE
  /\ coming = <<>> /\ wire = <<>> /\ data = <<>> /\ texts = <<>>

(* Mutant: iCurPos is not reset.                                           *)
AskContinues ==
  /\ ~receiving /\ receiving' = TRUE
  /\ asked < Questions /\ asked' = asked + 1
  /\ coming' = coming \o AnswerTo(asked')
  /\ UNCHANGED <<prompt, lengths, wire, data, texts>>

(* After the terminator of a single byte, which is written in front of the *)
(* item's block, the behaviour is undefined: the model stops.              *)
Ask ==
  /\ ~receiving /\ receiving' = TRUE
  /\ Len(data) # 1
  /\ asked < Questions /\ asked' = asked + 1
  /\ coming' = coming \o AnswerTo(asked')
  /\ data' = <<>>
  /\ UNCHANGED <<prompt, lengths, wire, texts>>

(* One byte arrives.                                                       *)
Emit ==
  /\ coming # <<>>
  /\ coming' = Tail(coming)
  /\ wire' = Append(wire, Head(coming))
  /\ UNCHANGED <<prompt, lengths, asked, receiving, data, texts>>

(* Mutant: the break is looked for in the last place.                      *)
EndsInBreakLast(bytes) == Len(bytes) > 2 /\ Last(bytes).lineBreak

EndsInBreak(bytes) == Len(bytes) > 2 /\ bytes[Len(bytes) - 1].lineBreak

(* The item's text: the two last bytes make room for the terminator.       *)
Cut(bytes) == SubSeq(bytes, 1, Len(bytes) - 2)

Finish(bytes) ==
  /\ receiving' = FALSE
  /\ texts' = IF Len(bytes) < 2 THEN texts ELSE Append(texts, Cut(bytes))

Read ==
  /\ receiving /\ wire # <<>> /\ Len(data) < DataSize
  /\ LET room == DataSize - Len(data)
         taken == IF Len(wire) < room THEN Len(wire) ELSE room
     IN /\ data' = data \o SubSeq(wire, 1, taken)
        /\ wire' = SubSeq(wire, taken + 1, Len(wire))
  /\ IF EndsInBreak(data') THEN Finish(data') ELSE UNCHANGED <<receiving, texts>>
  /\ UNCHANGED <<prompt, lengths, asked, coming>>

(* 502 reads in a row returned nothing: because nothing came for so long,  *)
(* before an answer or in the middle of it, or for lack of room.           *)
ReadTimeout ==
  /\ receiving
  /\ \/ Len(data) = DataSize
     \/ wire = <<>> /\ (coming # <<>> => ~prompt)
  /\ Finish(data)
  /\ UNCHANGED <<prompt, lengths, asked, coming, wire, data>>

ReceiveStep == Ask \/ Emit \/ Read \/ ReadTimeout

-----------------------------------------------------------------------------
(* While the device is prompt and its answers fit into an item, every      *)
(* answer is delivered whole and by itself, in the order of the commands,  *)
(* however its bytes are spread over the reads; and the terminator is      *)
(* written within the item.                                                *)
Fits(n) == lengths[n] + 2 <= DataSize

AnswersWhole ==
  prompt /\ (\A n \in 1 .. Questions : Fits(n)) =>
    LET answered == {n \in 1 .. asked : lengths[n] # -1}
        delivered == IF receiving THEN answered \ {asked} ELSE answered
    IN /\ Len(texts) = Cardinality(delivered)
       /\ \A n \in delivered : texts[Cardinality({m \in delivered : m <= n})] = TextOf(n)
       /\ ~receiving => Len(data) # 1

(* Even when answers come late or in pieces and run into one another, or   *)
(* do not fit, no byte is delivered twice or before one that came earlier; *)
(* this holds up to the undefined write after a single byte.               *)
Earlier(a, b) == a.of < b.of \/ (a.of = b.of /\ a.pos < b.pos)

InStreamOrder ==
  \A i, j \in DOMAIN texts : \A k \in DOMAIN texts[i], l \in DOMAIN texts[j] :
    i < j \/ (i = j /\ k < l) => Earlier(texts[i][k], texts[j][l])

(* The terminator takes the place of the line break, and no byte of a text *)
(* is lost to it: "Set the null byte properly." (sendtmc200cmdsthread.c:   *)
(* 109).  The code breaks this when the timeout ends an unfinished answer. *)
OnlyBreakCut ==
  ~receiving /\ Len(data) >= 2 => data[Len(data) - 1].lineBreak

=============================================================================
