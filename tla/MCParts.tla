------------------------------ MODULE MCParts ------------------------------
(***************************************************************************)
(* Parts of the system that share nothing, checked side by side: a         *)
(* behaviour is one of the part that its first state chooses; "text" is    *)
(* all that handles text, receiveData, parser and conversions, at once.    *)
(***************************************************************************)
EXTENDS LinkedQueues, Gate, ReceiveData, SVFeedbackParser, Conversions

CONSTANT Parts

VARIABLE part

partVars == <<linkVars, gateVars, receiveVars, parserVars, convertVars>>

Init ==
  /\ part \in Parts
  /\ LinkInit /\ GateInit /\ ParserInit
  /\ IF part \in {"receive", "text"} THEN ReceiveInit
     ELSE ReceiveInit /\ prompt /\ \A n \in DOMAIN lengths : lengths[n] = -1
  /\ IF part \in {"convert", "text"} THEN ConvertInit
     ELSE count = 1 /\ tokens = <<>>

Next ==
  /\ UNCHANGED <<part, convertVars>>
  /\ \/ /\ part = "queue" /\ LinkStep
        /\ UNCHANGED <<gateVars, receiveVars, parserVars>>
     \/ /\ part = "gate" /\ GateStep
        /\ UNCHANGED <<linkVars, receiveVars, parserVars>>
     \/ /\ part \in {"receive", "text"} /\ ReceiveStep
        /\ UNCHANGED <<linkVars, gateVars, parserVars>>
     \/ /\ part \in {"parser", "text"} /\ ParserStep
        /\ UNCHANGED <<linkVars, gateVars, receiveVars>>

Spec == Init /\ [][Next]_<<part, partVars>> /\ (part = "gate" => GateFairness)

-----------------------------------------------------------------------------
(* One of the comments on what becomes of a text is true: on receiving it  *)
(* (OnlyBreakCut), on going through its values (IterationVisitsAll), and   *)
(* on reading numbers out of it (ShortsOrNull, IntsAtPositions).  A state  *)
(* in which this is false is one in which the code breaks all four.        *)
SomeTextAsPromised ==
  OnlyBreakCut \/ IterationVisitsAll \/ ShortsOrNull \/ IntsAtPositions

=============================================================================
