-------------------------- MODULE SVFeedbackParser --------------------------
(***************************************************************************)
(* TMC200SVFeedbackParser (libtmc200ctrl_utils) and the loop with which    *)
(* SVFBSubsClbk of tmc200ctrl_remote prints what it has parsed.  The       *)
(* feedback is a sequence of groups, a key and its numbers, each but       *)
(* perhaps the last followed by a tab; a group may be empty.  Keys are     *)
(* numbered in the order of std::map.                                      *)
(***************************************************************************)
EXTENDS Integers, SequencesExt

CONSTANTS Keys,       \* the keys
          Payloads,   \* the numbers of a group
          MaxGroups   \* how many groups a feedback has (a bound)

ASSUME KeysAssumption == Keys \subseteq Nat
ASSUME MaxGroupsAssumption == MaxGroups \in Nat

Empty == [key |-> -1]
Group == [key : Keys, payload : Payloads] \cup {Empty}
End == -1

VARIABLES
  phase,          \* of the loop; "undefined" once the behaviour is
  groups,         \* those followed by a tab
  tValueMap,
  tValueMapIter,  \* a key, or End
  printed         \* what the loop has printed of this feedback

parserVars == <<phase, groups, tValueMap, tValueMapIter, printed>>

ParserInit ==
  /\ phase = "ready"
  /\ groups = <<>> /\ tValueMap = <<>>
  /\ tValueMapIter = End
  /\ printed = <<>>

(* Mutant: the last of several groups with a key is kept.                  *)
InsertOver(map, group) ==
  [key \in DOMAIN map \cup {group.key} |-> IF key = group.key THEN group.payload ELSE map[key]]

(* map::insert keeps what is there.                                        *)
Insert(map, group) ==
  [key \in DOMAIN map \cup {group.key} |-> IF key \in DOMAIN map THEN map[key] ELSE group.payload]

Least(keys) == IF keys = {} THEN End ELSE CHOOSE key \in keys : \A other \in keys : key <= other

(* What stands behind the last tab is not looked at; the key of an empty   *)
(* group is constructed from NULL.                                         *)
parseSVFeedbackString(str, tabAtEnd) ==
  /\ phase = "ready"
  /\ groups' = IF tabAtEnd \/ str = <<>> THEN str ELSE Front(str)
  /\ IF Empty \in ToSet(groups')
       THEN phase' = "undefined" /\ UNCHANGED <<tValueMap, tValueMapIter>>
       ELSE /\ phase' = "loop"
            /\ tValueMap' = FoldLeft(Insert, <<>>, groups')
            /\ tValueMapIter' = Least(DOMAIN tValueMap')
  /\ printed' = <<>>

Later == {key \in DOMAIN tValueMap : key > tValueMapIter}

(* Mutant: getNext moves the iterator on too.                              *)
hasNextTwice ==
  LET Beyond(key) == Least({other \in DOMAIN tValueMap : key # End /\ other > key})
  IN /\ phase = "loop"
     /\ phase' = IF tValueMapIter = End THEN "undefined"
                 ELSE IF Later = {} THEN "ready" ELSE "loop"
     /\ tValueMapIter' = Beyond(Least(Later))
     /\ printed' = IF tValueMapIter = End \/ Later = {} THEN printed
                   ELSE Append(printed, <<Least(Later), tValueMap[Least(Later)]>>)
     /\ UNCHANGED <<groups, tValueMap>>

(* hasNext moves the iterator on before it looks; an entry that it has     *)
(* found is printed with getNext.  There is nothing beyond the end.        *)
hasNext ==
  /\ phase = "loop"
  /\ phase' = IF tValueMapIter = End THEN "undefined"
              ELSE IF Later = {} THEN "ready" ELSE "loop"
  /\ tValueMapIter' = Least(Later)
  /\ printed' = IF tValueMapIter = End \/ Later = {} THEN printed
                ELSE Append(printed, <<Least(Later), tValueMap[Least(Later)]>>)
  /\ UNCHANGED <<groups, tValueMap>>

ParserStep ==
  \/ \E str \in BoundedSeq(Group, MaxGroups), tabAtEnd \in BOOLEAN :
       parseSVFeedbackString(str, tabAtEnd)
  \/ hasNext

valuesExists(key) == key \in DOMAIN tValueMap
getValue(key) == tValueMap[key]

-----------------------------------------------------------------------------
(* After a parse there are values for exactly the keys of the groups that  *)
(* a tab follows, those of the first such group; nothing is left over from *)
(* the feedback before.                                                    *)
ParsedGroups ==
  phase = "loop" =>
    \A key \in Keys :
      /\ valuesExists(key) <=> \E i \in DOMAIN groups : groups[i].key = key
      /\ \A i \in DOMAIN groups :
           groups[i].key = key /\ (\A j \in 1 .. i - 1 : groups[j].key # key)
             => getValue(key) = groups[i].payload

(* The loop over hasNext and getNext prints values that were parsed, in    *)
(* the order of their keys and each at most once, and by its end every one *)
(* that another precedes; IterationVisitsAll is about the first.           *)
IterationInOrder ==
  /\ \A i, j \in DOMAIN printed : i < j => printed[i][1] < printed[j][1]
  /\ phase = "ready" =>
       /\ ToSet(printed) \subseteq {<<key, getValue(key)>> : key \in DOMAIN tValueMap}
       /\ \A before, key \in DOMAIN tValueMap :
            before < key => <<key, getValue(key)>> \in ToSet(printed)

(* "Iterator to traverse all values." (tmc200svfeedbackparser.h:108, of    *)
(* the iterator behind hasNext and getNext): at its end the loop has       *)
(* printed everything that was parsed.  hasNext moves on before it looks   *)
(* (tmc200svfeedbackparser.cpp:69), so the first value is never printed.   *)
IterationVisitsAll ==
  phase = "ready" => ToSet(printed) = {<<key, getValue(key)>> : key \in DOMAIN tValueMap}

=============================================================================
