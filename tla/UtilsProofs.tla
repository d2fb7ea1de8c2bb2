--------------------------- MODULE UtilsProofs ----------------------------
(***************************************************************************)
(* Theorems about libtmc200ctrl_utils, for texts, documents and values of  *)
(* any kind and size.                                                      *)
(***************************************************************************)
EXTENDS SVFeedbackParser, Conversions, DirectApp, SequenceLemmas

-----------------------------------------------------------------------------
(***************************************************************************)
(* TMC200SVFeedbackParser and the loop of the examples over its values.    *)
(***************************************************************************)
(* What tValueMap can be.                                                  *)
Map == UNION {[D -> Payloads] : D \in SUBSET Keys}

(* An assignment adds its key to the map.                                  *)
LEMMA InsertTyped ==
  ASSUME NEW map \in Map, NEW group \in Group \ {Empty}
  PROVE  Insert(map, group) \in Map /\ DOMAIN Insert(map, group) = DOMAIN map \cup {group.key}
<1>1. group.key \in Keys /\ group.payload \in Payloads
  BY DEF Group
<1>2. PICK D \in SUBSET Keys : map \in [D -> Payloads]
  BY DEF Map
<1>3. Insert(map, group) \in [D \cup {group.key} -> Payloads]
  BY <1>1, <1>2 DEF Insert
<1>4. D \cup {group.key} \in SUBSET Keys
  BY <1>1
<1> QED
  BY <1>2, <1>3, <1>4 DEF Map

(* A map that has been cleared.                                            *)
LEMMA EmptyMap == <<>> \in Map /\ DOMAIN <<>> = {}
<1>1. <<>> \in [{} -> Payloads]
  OBVIOUS
<1> QED
  BY <1>1 DEF Map

(* The fold over the groups, assignment by assignment.                     *)
LEMMA FoldOfInsert ==
  ASSUME NEW s \in Seq(Group \ {Empty})
  PROVE  \E map :
           /\ map[0] = <<>>
           /\ \A k \in 1 .. Len(s) : map[k] = Insert(map[k - 1], s[k])
           /\ FoldLeft(Insert, <<>>, s) = map[Len(s)]
<1> DEFINE n == Len(s)
           E == Group \ {Empty}
           op == [p \in Map \X E |-> Insert(p[1], p[2])]
           Fold(f) == f = [S \in SUBSET (1 .. n) |->
                             IF S = {} THEN <<>> ELSE Insert(f[S \ {Max(S)}], s[Max(S)])]
           fold == CHOOSE f : Fold(f)
<1>1. n \in Nat /\ DOMAIN s = 1 .. n /\ \A k \in 1 .. n : s[k] \in E
  BY LenProperties, ElementOfSeq
<1>2. FoldLeft(Insert, <<>>, s) = fold[1 .. n]
  BY <1>1, Zenon DEF FoldLeft, MapThenFoldSet
<1>3. op \in [Map \X E -> Map]
  <2>1. \A p \in Map \X E : Insert(p[1], p[2]) \in Map
    BY InsertTyped
  <2> QED
    BY <2>1
<1>4. \A map \in Map, e \in E : op[map, e] = Insert(map, e)
  OBVIOUS
<1> HIDE DEF op, E, n
<1>5. PICK f : IsFold(f, Map, op, <<>>, s)
  <2> HIDE DEF Fold, fold
  <2>1. s \in Seq(E) /\ <<>> \in Map
    BY EmptyMap DEF E
  <2> QED
    BY <1>3, <2>1, FoldWellDefined
<1>6. Fold(f)
  <2>1. ASSUME NEW S \in SUBSET (1 .. n)
        PROVE  f[S] = IF S = {} THEN <<>> ELSE Insert(f[S \ {Max(S)}], s[Max(S)])
    <3>1. S # {} => s[Max(S)] \in E /\ f[S \ {Max(S)}] \in Map
      BY <1>1, <1>5, MaxInSet DEF IsFold, n
    <3> QED
      BY <1>4, <1>5, <3>1 DEF IsFold, n
  <2> QED
    BY <1>5, <2>1 DEF IsFold, n
<1>7. Fold(fold)
  <2> HIDE DEF Fold
  <2> QED
    BY <1>6, Zenon
<1> HIDE DEF fold
<1> DEFINE map == [k \in 0 .. n |-> fold[1 .. k]]
<1>8. \A S \in SUBSET (1 .. n) :
        fold[S] = IF S = {} THEN <<>> ELSE Insert(fold[S \ {Max(S)}], s[Max(S)])
  BY <1>7
<1>9. map[0] = <<>>
  <2>1. 0 \in 0 .. n /\ 1 .. 0 = {}
    BY <1>1
  <2> QED
    BY <1>8, <2>1
<1>10. ASSUME NEW k \in 1 .. n
       PROVE  map[k] = Insert(map[k - 1], s[k])
  <2>1. k \in Nat \ {0} /\ k \in 0 .. n /\ k - 1 \in 0 .. n /\ 1 .. k \in SUBSET (1 .. n)
    BY <1>1
  <2>2. Max(1 .. k) = k /\ (1 .. k) \ {k} = 1 .. k - 1 /\ 1 .. k # {}
    BY <2>1, MaxOfInterval
  <2>3. fold[1 .. k] = Insert(fold[1 .. k - 1], s[k])
    BY <1>8, <2>1, <2>2
  <2> QED
    BY <2>1, <2>3
<1>11. FoldLeft(Insert, <<>>, s) = map[n]
  <2>1. n \in 0 .. n
    BY <1>1
  <2> QED
    BY <1>2, <2>1
<1> HIDE DEF map
<1> QED
  BY <1>9, <1>10, <1>11 DEF n

(* After k groups the map has their keys, each with the payload of the     *)
(* first group that has it.                                                *)
ParsedOf(map, s, k) ==
  /\ map \in Map
  /\ \A key \in Keys :
       /\ key \in DOMAIN map <=> \E i \in 1 .. k : s[i].key = key
       /\ \A i \in 1 .. k :
            s[i].key = key /\ (\A j \in 1 .. i - 1 : s[j].key # key) => map[key] = s[i].payload

(* One more group parsed.                                                  *)
LEMMA InsertParses ==
  ASSUME NEW s \in Seq(Group \ {Empty}), NEW k \in 1 .. Len(s), NEW map, ParsedOf(map, s, k - 1)
  PROVE  ParsedOf(Insert(map, s[k]), s, k)
<1>1. Len(s) \in Nat /\ \A i \in 1 .. Len(s) : s[i] \in Group \ {Empty}
  BY LenProperties, ElementOfSeq
<1>2. s[k] \in Group \ {Empty} /\ map \in Map
  BY <1>1 DEF ParsedOf
<1> DEFINE new == Insert(map, s[k])
<1>3. new \in Map /\ DOMAIN new = DOMAIN map \cup {s[k].key}
  BY <1>2, InsertTyped
<1>4. \A key \in DOMAIN new : new[key] = IF key \in DOMAIN map THEN map[key] ELSE s[k].payload
  BY DEF Insert
<1>5. \A i : i \in 1 .. k <=> i \in 1 .. k - 1 \/ i = k
  BY <1>1
<1> HIDE DEF new
<1>6. ASSUME NEW key \in Keys
      PROVE  key \in DOMAIN new <=> \E i \in 1 .. k : s[i].key = key
  BY <1>3, <1>5 DEF ParsedOf
<1>7. ASSUME NEW key \in Keys, NEW i \in 1 .. k, s[i].key = key,
             \A j \in 1 .. i - 1 : s[j].key # key
      PROVE  new[key] = s[i].payload
  <2>1. key \in DOMAIN new
    BY <1>6, <1>7
  <2>2. CASE i = k
    <3>1. key \notin DOMAIN map
      BY <1>7, <2>2 DEF ParsedOf
    <3> QED
      BY <1>4, <2>1, <2>2, <3>1
  <2>3. CASE i # k
    <3>1. i \in 1 .. k - 1
      BY <1>5, <2>3
    <3>2. key \in DOMAIN map /\ map[key] = s[i].payload
      BY <1>7, <3>1 DEF ParsedOf
    <3> QED
      BY <1>4, <2>1, <3>2
  <2> QED
    BY <2>2, <2>3
<1> QED
  BY <1>3, <1>6, <1>7 DEF ParsedOf, new

(* What the fold over the groups makes of them.                            *)
LEMMA FoldParses ==
  ASSUME NEW s \in Seq(Group \ {Empty})
  PROVE  ParsedOf(FoldLeft(Insert, <<>>, s), s, Len(s))
<1>1. PICK map : /\ map[0] = <<>>
                 /\ \A k \in 1 .. Len(s) : map[k] = Insert(map[k - 1], s[k])
                 /\ FoldLeft(Insert, <<>>, s) = map[Len(s)]
  BY FoldOfInsert
<1>2. Len(s) \in Nat
  BY LenProperties
<1> DEFINE Wrong == {k \in 0 .. Len(s) : ~ParsedOf(map[k], s, k)}
<1>3. ASSUME NEW k \in Wrong, \A l \in Wrong : k <= l
      PROVE  FALSE
  <2>1. CASE k = 0
    <3>1. ParsedOf(<<>>, s, 0)
      <4>1. 1 .. 0 = {}
        OBVIOUS
      <4> QED
        BY <4>1, EmptyMap DEF ParsedOf
    <3> QED
      BY <1>1, <2>1, <3>1
  <2>2. CASE k # 0
    <3>1. k \in 1 .. Len(s) /\ k - 1 \in 0 .. Len(s) /\ ~(k <= k - 1)
      BY <1>2, <2>2
    <3>2. ParsedOf(map[k - 1], s, k - 1)
      BY <1>3, <3>1
    <3>3. ParsedOf(Insert(map[k - 1], s[k]), s, k)
      BY <3>1, <3>2, InsertParses
    <3> QED
      BY <1>1, <3>1, <3>3
  <2> QED
    BY <2>1, <2>2
<1>4. Wrong = {}
  <2>1. Wrong \in SUBSET Nat
    BY <1>2
  <2> HIDE DEF Wrong
  <2> QED
    BY <1>3, <2>1, LeastNumber
<1> QED
  BY <1>1, <1>2, <1>4

(* The parser and its user.                                                *)
ParserSpec == ParserInit /\ [][ParserStep]_parserVars

(* The entries of a map, those the loop has printed, and their order.      *)
Ascending(entries) == \A i, j \in DOMAIN entries : i < j => entries[i][1] < entries[j][1]
Entries(map, keys) == {<<key, map[key]>> : key \in keys}
Passed == {key \in DOMAIN tValueMap : key # Least(DOMAIN tValueMap) /\ key <= tValueMapIter}

(* While the loop runs it has printed all it has passed.                   *)
ParserInv ==
  /\ phase \in {"ready", "loop", "undefined"}
  /\ groups \in Seq(Group) /\ tValueMap \in Map
  /\ printed \in Seq(Keys \X Payloads) /\ Ascending(printed)
  /\ phase = "loop" =>
       /\ ParsedOf(tValueMap, groups, Len(groups))
       /\ IF DOMAIN tValueMap = {} THEN tValueMapIter = End ELSE tValueMapIter \in DOMAIN tValueMap
       /\ ToSet(printed) = Entries(tValueMap, Passed)
  /\ phase = "ready" =>
       ToSet(printed) = Entries(tValueMap, DOMAIN tValueMap \ {Least(DOMAIN tValueMap)})

(* Where the iteration begins.                                             *)
LEMMA LeastIs ==
  ASSUME NEW keys \in SUBSET Keys
  PROVE  /\ keys = {} => Least(keys) = End
         /\ keys # {} => Least(keys) \in keys /\ \A key \in keys : Least(keys) <= key
<1> DEFINE IsLeast(x) == x \in keys /\ \A key \in keys : x <= key
<1>1. keys = {} => Least(keys) = End
  BY DEF Least
<1>2. ASSUME keys # {}
      PROVE  IsLeast(Least(keys))
  <2>1. Least(keys) = CHOOSE x : IsLeast(x)
    BY <1>2, Zenon DEF Least
  <2>2. \E x : IsLeast(x)
    BY <1>2, KeysAssumption, LeastNumber
  <2> HIDE DEF IsLeast
  <2> QED
    BY <2>1, <2>2, Zenon
<1> QED
  BY <1>1, <1>2

(* A parser that has been made holds nothing.                              *)
LEMMA InitParserInv == ParserInit => ParserInv
<1> SUFFICES ASSUME ParserInit PROVE ParserInv
  OBVIOUS
<1> DEFINE empty == <<>>
<1>1. /\ empty \in Map /\ DOMAIN empty = {} /\ empty \in Seq(Keys \X Payloads)
      /\ empty \in Seq(Group)
      /\ ToSet(empty) = {} /\ Entries(empty, DOMAIN empty \ {Least(DOMAIN empty)}) = {}
  BY EmptyMap, EmptyElements DEF Entries
<1>2. Ascending(empty)
  BY <1>1 DEF Ascending
<1>3. phase = "ready" /\ groups = empty /\ tValueMap = empty /\ printed = empty
  BY DEF ParserInit
<1> HIDE DEF empty
<1> QED
  BY <1>1, <1>2, <1>3 DEF ParserInv

(* A string that is parsed gives each key the value of its first group.    *)
LEMMA ParseKeepsInv ==
  ASSUME ParserInv, NEW str \in Seq(Group), NEW tabAtEnd \in BOOLEAN,
         parseSVFeedbackString(str, tabAtEnd)
  PROVE  ParserInv'
<1> DEFINE empty == <<>>
<1>1. /\ empty \in Seq(Keys \X Payloads) /\ ToSet(empty) = {} /\ Ascending(empty)
      /\ printed' = empty
  BY EmptyElements DEF Ascending, parseSVFeedbackString
<1> HIDE DEF empty
<1>2. groups' \in Seq(Group)
  <2>1. str # <<>> => Front(str) \in Seq(Group)
    <3> SUFFICES ASSUME str # <<>> PROVE Front(str) \in Seq(Group)
      OBVIOUS
    <3>1. Len(str) \in Nat /\ \A i \in 1 .. Len(str) - 1 : str[i] \in Group
      BY LenProperties, ElementOfSeq
    <3> QED
      BY <3>1, SubSeqProperties DEF Front
  <2> QED
    BY <2>1 DEF parseSVFeedbackString
<1>3. CASE Empty \in ToSet(groups')
  BY <1>1, <1>2, <1>3 DEF ParserInv, parseSVFeedbackString
<1>4. CASE Empty \notin ToSet(groups')
  <2>1. groups' \in Seq(Group \ {Empty})
    <3>1. \A i \in 1 .. Len(groups') : groups'[i] \in Group \ {Empty}
      BY <1>2, <1>4, LenProperties, ElementOfSeq DEF ToSet
    <3> QED
      BY <1>2, <3>1, LenProperties, SeqDef
  <2>2. /\ phase' = "loop" /\ tValueMap' = FoldLeft(Insert, <<>>, groups')
        /\ tValueMapIter' = Least(DOMAIN tValueMap')
    BY <1>4, Zenon DEF parseSVFeedbackString
  <2>3. ParsedOf(tValueMap, groups, Len(groups))'
    <3>1. \A s \in Seq(Group \ {Empty}) : ParsedOf(FoldLeft(Insert, <<>>, s), s, Len(s))
      BY FoldParses
    <3>2. ParsedOf(tValueMap', groups', Len(groups'))
      BY <2>1, <2>2, <3>1, Zenon
    <3> QED
      BY <3>2, Zenon DEF ParsedOf
  <2>4. tValueMap' \in Map /\ DOMAIN tValueMap' \in SUBSET Keys
    BY <2>3 DEF ParsedOf, Map
  <2>5. /\ DOMAIN tValueMap' = {} => tValueMapIter' = End
        /\ DOMAIN tValueMap' # {} => tValueMapIter' \in DOMAIN tValueMap'
    BY <2>2, <2>4, LeastIs
  <2>6. Passed' = {}
    <3>1. ASSUME NEW key \in DOMAIN tValueMap', key <= tValueMapIter'
          PROVE  key = Least(DOMAIN tValueMap')
      <4>1. tValueMapIter' <= key /\ tValueMapIter' \in Nat /\ key \in Nat
        BY <2>2, <2>4, KeysAssumption, LeastIs
      <4> QED
        BY <2>2, <3>1, <4>1
    <3> QED
      BY <3>1 DEF Passed
  <2>7. Entries(tValueMap', Passed') = {}
    BY <2>6 DEF Entries
  <2> QED
    BY <1>1, <1>2, <2>2, <2>3, <2>4, <2>5, <2>7 DEF ParserInv
<1> QED
  BY <1>3, <1>4

(* The loop over the values prints them in ascending order, the first left *)
(* out.                                                                    *)
LEMMA HasNextKeepsInv ==
  ASSUME ParserInv, hasNext
  PROVE  ParserInv'
<1>1. /\ tValueMap' = tValueMap /\ groups' = groups /\ phase = "loop"
      /\ DOMAIN tValueMap \in SUBSET Keys
  BY DEF ParserInv, hasNext, Map
<1>2. Later \in SUBSET Keys /\ Later \subseteq DOMAIN tValueMap
  BY <1>1 DEF Later
<1>3. CASE tValueMapIter = End
  <2>1. phase' = "undefined" /\ printed' = printed
    BY <1>3 DEF hasNext
  <2> QED
    BY <1>1, <2>1 DEF ParserInv
<1>4. CASE tValueMapIter # End
  <2>1. tValueMapIter \in DOMAIN tValueMap /\ tValueMapIter \in Nat
    BY <1>1, <1>4, KeysAssumption DEF ParserInv
  <2>2. CASE Later = {}
    <3>1. phase' = "ready" /\ printed' = printed
      BY <1>4, <2>2 DEF hasNext
    <3>2. Passed = DOMAIN tValueMap \ {Least(DOMAIN tValueMap)}
      <4>1. \A key \in DOMAIN tValueMap : key <= tValueMapIter
        <5> SUFFICES ASSUME NEW key \in DOMAIN tValueMap PROVE key <= tValueMapIter
          OBVIOUS
        <5>1. ~(key > tValueMapIter) /\ key \in Nat
          BY <1>1, <2>2, KeysAssumption DEF Later
        <5> QED
          BY <2>1, <5>1
      <4> QED
        BY <4>1 DEF Passed
    <3> QED
      BY <1>1, <3>1, <3>2 DEF ParserInv
  <2>3. CASE Later # {}
    <3> DEFINE l == Least(Later)
               entry == <<l, tValueMap[l]>>
    <3>1. /\ phase' = "loop" /\ tValueMapIter' = l
          /\ printed' = Append(printed, entry)
      BY <1>1, <1>4, <2>3 DEF hasNext
    <3>2. /\ l \in DOMAIN tValueMap /\ l \in Keys /\ l \in Nat /\ l > tValueMapIter
          /\ \A key \in DOMAIN tValueMap : key > tValueMapIter => l <= key
      BY <1>1, <1>2, <2>1, <2>3, LeastIs, KeysAssumption DEF Later
    <3>3. entry \in Keys \X Payloads /\ entry[1] = l
      <4>1. tValueMap[l] \in Payloads
        BY <3>2 DEF ParserInv, Map
      <4> QED
        BY <3>2, <4>1
    <3> HIDE DEF l
    <3>4. Least(DOMAIN tValueMap) # l
      <4>1. Least(DOMAIN tValueMap) <= tValueMapIter /\ Least(DOMAIN tValueMap) \in Nat
        BY <1>1, <2>1, LeastIs, KeysAssumption
      <4> QED
        BY <2>1, <3>2, <4>1
    <3>5. Passed' = Passed \cup {l}
      <4>1. ASSUME NEW key \in DOMAIN tValueMap
            PROVE  key <= l <=> key <= tValueMapIter \/ key = l
        <5>1. key \in Nat
          BY <1>1, KeysAssumption
        <5> QED
          BY <2>1, <3>2, <5>1
      <4> QED
        BY <1>1, <3>1, <3>2, <3>4, <4>1 DEF Passed
    <3>6. printed' \in Seq(Keys \X Payloads) /\ ToSet(printed') = ToSet(printed) \cup {entry}
      <4> HIDE DEF entry
      <4> QED
        BY <3>1, <3>3, AppendProperties, AppendElements DEF ParserInv
    <3>7. ToSet(printed') = Entries(tValueMap', Passed')
      BY <1>1, <3>5, <3>6 DEF ParserInv, Entries
    <3>8. Ascending(printed')
      <4>1. /\ Len(printed) \in Nat /\ DOMAIN printed = 1 .. Len(printed)
            /\ DOMAIN printed' = 1 .. Len(printed) + 1
            /\ \A i \in 1 .. Len(printed) : printed'[i] = printed[i]
            /\ printed'[Len(printed) + 1] = entry
        <5> HIDE DEF entry
        <5> QED
          BY <3>1, <3>3, AppendProperties, LenProperties DEF ParserInv
      <4>2. ASSUME NEW i \in DOMAIN printed
            PROVE  printed[i][1] < l
        <5>1. printed[i] \in Entries(tValueMap, Passed)
          BY <1>1 DEF ParserInv, ToSet
        <5>2. PICK key \in Passed : printed[i] = <<key, tValueMap[key]>>
          BY <5>1 DEF Entries
        <5>3. key <= tValueMapIter /\ key \in Nat
          BY <1>1, KeysAssumption DEF Passed
        <5> QED
          BY <2>1, <3>2, <5>2, <5>3
      <4>3. ASSUME NEW i \in DOMAIN printed', NEW j \in DOMAIN printed', i < j
            PROVE  printed'[i][1] < printed'[j][1]
        <5>1. i \in 1 .. Len(printed)
          BY <4>1, <4>3
        <5>2. CASE j \in 1 .. Len(printed)
          BY <4>1, <4>3, <5>1, <5>2 DEF ParserInv, Ascending
        <5>3. CASE j = Len(printed) + 1
          BY <3>3, <4>1, <4>2, <5>1, <5>3
        <5> QED
          BY <4>1, <5>2, <5>3
      <4> QED
        BY <4>3 DEF Ascending
    <3> QED
      BY <1>1, <2>1, <3>1, <3>2, <3>6, <3>7, <3>8 DEF ParserInv
  <2> QED
    BY <2>2, <2>3
<1> QED
  BY <1>3, <1>4

(* Every step of the parser and of its user keeps this.                    *)
LEMMA NextParserInv == ParserInv /\ [ParserStep]_parserVars => ParserInv'
<1> SUFFICES ASSUME ParserInv, [ParserStep]_parserVars PROVE ParserInv'
  OBVIOUS
<1>1. CASE ParserStep
  <2>1. \A str \in BoundedSeq(Group, MaxGroups) : str \in Seq(Group)
    BY SeqDef, MaxGroupsAssumption DEF BoundedSeq, SeqOf
  <2> QED
    BY <1>1, <2>1, ParseKeepsInv, HasNextKeepsInv DEF ParserStep
<1>2. CASE UNCHANGED parserVars
  BY <1>2 DEF ParserInv, Passed, parserVars
<1> QED
  BY <1>1, <1>2

(* After a parse there are values for exactly the keys of its groups,      *)
(* those of the first group of each, and nothing is left over from the     *)
(* feedback before; for any keys, payloads and number of groups            *)
(* (tmc200svfeedbackparser.cpp:12-66).                                     *)
THEOREM ValuesParsed == ParserSpec => []ParsedGroups
<1>1. ParserInv => ParsedGroups
  <2> SUFFICES ASSUME ParserInv, phase = "loop", NEW key \in Keys
               PROVE  /\ valuesExists(key) <=> \E i \in DOMAIN groups : groups[i].key = key
                      /\ \A i \in DOMAIN groups :
                           groups[i].key = key /\ (\A j \in 1 .. i - 1 : groups[j].key # key)
                             => getValue(key) = groups[i].payload
    BY Zenon DEF ParsedGroups
  <2>1. DOMAIN groups = 1 .. Len(groups)
    BY LenProperties DEF ParserInv
  <2> QED
    BY <2>1 DEF ParserInv, ParsedOf, valuesExists, getValue
<1> QED
  BY <1>1, InitParserInv, NextParserInv, PTL DEF ParserSpec

(* The loop of the examples over hasNext and getNext prints parsed values  *)
(* in ascending order of their keys, each once, and by its end every one   *)
(* that another precedes, for any keys and any text                        *)
(* (tmc200svfeedbackparser.cpp:68-74, tmc200ctrl_remote.cpp:31-33).        *)
THEOREM LoopInOrder == ParserSpec => []IterationInOrder
<1>1. ParserInv => IterationInOrder
  <2> SUFFICES ASSUME ParserInv PROVE IterationInOrder
    OBVIOUS
  <2>1. Ascending(printed)
    BY DEF ParserInv
  <2>2. ASSUME phase = "ready"
        PROVE  /\ ToSet(printed) \subseteq {<<key, getValue(key)>> : key \in DOMAIN tValueMap}
               /\ \A before, key \in DOMAIN tValueMap :
                    before < key => <<key, getValue(key)>> \in ToSet(printed)
    <3>1. ToSet(printed) = Entries(tValueMap, DOMAIN tValueMap \ {Least(DOMAIN tValueMap)})
      BY <2>2 DEF ParserInv
    <3>2. DOMAIN tValueMap \in SUBSET Keys
      BY DEF ParserInv, Map
    <3>3. ASSUME NEW before \in DOMAIN tValueMap, NEW key \in DOMAIN tValueMap, before < key
          PROVE  key # Least(DOMAIN tValueMap)
      <4>1. Least(DOMAIN tValueMap) <= before
        BY <3>2, LeastIs
      <4>2. before \in Nat /\ key \in Nat
        BY <3>2, KeysAssumption
      <4> QED
        BY <3>3, <4>1, <4>2
    <3> QED
      BY <3>1, <3>3 DEF Entries, getValue
  <2> QED
    BY <2>1, <2>2, Zenon DEF IterationInOrder, Ascending
<1> QED
  BY <1>1, InitParserInv, NextParserInv, PTL DEF ParserSpec

-----------------------------------------------------------------------------
(***************************************************************************)
(* The converters of numbers in a text.                                    *)
(***************************************************************************)
(* What extractNShortssFromString can find.                                *)
Shorts == {Short(number) : number \in Numbers}
Found == [values : Seq(Shorts), null : BOOLEAN, crashed : BOOLEAN]
NoShorts == [values |-> <<>>, null |-> FALSE, crashed |-> FALSE]

(* One token more gives a result of the same kind.                         *)
LEMMA ShortTokenTyped ==
  ASSUME NEW n, NEW found \in Found, NEW token \in Numbers
  PROVE  ShortToken(n, found, token) \in Found
<1>1. Append(found.values, Short(token)) \in Seq(Shorts)
  BY AppendProperties DEF Found, Shorts
<1> HIDE DEF Shorts
<1> QED
  BY <1>1 DEF ShortToken, Found

(* The fold over the tokens, token by token.                               *)
LEMMA FoldOfShortToken ==
  ASSUME NEW n \in Nat, NEW text \in Seq(Numbers)
  PROVE  \E found :
           /\ found[0] = NoShorts
           /\ \A k \in 1 .. Len(text) : found[k] = ShortToken(n, found[k - 1], text[k])
           /\ FoldLeft(LAMBDA f, token : ShortToken(n, f, token), NoShorts, text) = found[Len(text)]
<1> DEFINE len == Len(text)
           op == [p \in Found \X Numbers |-> ShortToken(n, p[1], p[2])]
           Fold(f) == f = [S \in SUBSET (1 .. len) |->
                             IF S = {} THEN NoShorts
                             ELSE ShortToken(n, f[S \ {Max(S)}], text[Max(S)])]
           fold == CHOOSE f : Fold(f)
           found == [k \in 0 .. len |-> fold[1 .. k]]
<1>1. len \in Nat /\ DOMAIN text = 1 .. len /\ \A k \in 1 .. len : text[k] \in Numbers
  BY LenProperties, ElementOfSeq
<1>2. FoldLeft(LAMBDA f, token : ShortToken(n, f, token), NoShorts, text) = fold[1 .. len]
  BY <1>1, Zenon DEF FoldLeft, MapThenFoldSet
<1>3. op \in [Found \X Numbers -> Found]
  <2>1. \A p \in Found \X Numbers : ShortToken(n, p[1], p[2]) \in Found
    BY ShortTokenTyped
  <2> QED
    BY <2>1
<1>4. \A f \in Found, token \in Numbers : op[f, token] = ShortToken(n, f, token)
  OBVIOUS
<1>0. NoShorts \in Found
  BY EmptySeq DEF NoShorts, Found
<1> HIDE DEF op, len, Fold, fold, found
<1>5. PICK f : IsFold(f, Found, op, NoShorts, text)
  BY <1>0, <1>3, FoldWellDefined
<1>6. Fold(f)
  <2>1. ASSUME NEW S \in SUBSET (1 .. len)
        PROVE  f[S] = IF S = {} THEN NoShorts ELSE ShortToken(n, f[S \ {Max(S)}], text[Max(S)])
    <3>1. S # {} => text[Max(S)] \in Numbers /\ f[S \ {Max(S)}] \in Found
      BY <1>1, <1>5, MaxInSet DEF IsFold, len
    <3> QED
      BY <1>4, <1>5, <3>1 DEF IsFold, len
  <2> QED
    BY <1>5, <2>1 DEF IsFold, Fold, len
<1>7. Fold(fold)
  BY <1>6, Zenon DEF fold
<1>8. \A S \in SUBSET (1 .. len) :
        fold[S] = IF S = {} THEN NoShorts ELSE ShortToken(n, fold[S \ {Max(S)}], text[Max(S)])
  BY <1>7 DEF Fold
<1>9. found[0] = NoShorts
  <2>1. 0 \in 0 .. len /\ 1 .. 0 = {}
    BY <1>1
  <2> QED
    BY <1>8, <2>1 DEF found
<1>10. ASSUME NEW k \in 1 .. len
       PROVE  found[k] = ShortToken(n, found[k - 1], text[k])
  <2>1. k \in Nat \ {0} /\ k \in 0 .. len /\ k - 1 \in 0 .. len /\ 1 .. k \in SUBSET (1 .. len)
    BY <1>1
  <2>2. Max(1 .. k) = k /\ (1 .. k) \ {k} = 1 .. k - 1 /\ 1 .. k # {}
    BY <2>1, MaxOfInterval
  <2>3. fold[1 .. k] = ShortToken(n, fold[1 .. k - 1], text[k])
    BY <1>8, <2>1, <2>2
  <2> QED
    BY <2>1, <2>3 DEF found
<1>11. fold[1 .. len] = found[len]
  <2>1. len \in 0 .. len
    BY <1>1
  <2> QED
    BY <2>1 DEF found
<1> QED
  BY <1>2, <1>9, <1>10, <1>11 DEF len

(* What is found in the first k tokens: as long as none of the first n is  *)
(* 0, their numbers; after a 0 nothing more, and a crash with the next     *)
(* number.                                                                 *)
ZeroAt(text, n, i) == i <= n /\ Short(text[i]) = 0
FoundIn(found, text, n, k) ==
  /\ found \in Found
  /\ found.crashed <=>
       \E i \in 1 .. k : ZeroAt(text, n, i) /\ \E j \in i + 1 .. k : Short(text[j]) # 0
  /\ ~found.crashed =>
       /\ found.null <=> \E i \in 1 .. k : ZeroAt(text, n, i)
       /\ found.null => Len(found.values) < n
       /\ ~found.null =>
            /\ Len(found.values) = IF k < n THEN k ELSE n
            /\ \A i \in 1 .. Len(found.values) : found.values[i] = Short(text[i])

(* What the next token adds.                                               *)
LEMMA ShortTokenFinds ==
  ASSUME NEW n \in Nat, NEW text \in Seq(Numbers), NEW k \in 1 .. Len(text),
         NEW found, FoundIn(found, text, n, k - 1)
  PROVE  FoundIn(ShortToken(n, found, text[k]), text, n, k)
<1> DEFINE new == ShortToken(n, found, text[k])
           values == found.values
<1>1. Len(text) \in Nat /\ k \in Nat /\ text[k] \in Numbers /\ found \in Found
  BY LenProperties, ElementOfSeq DEF FoundIn
<1>2. /\ new \in Found /\ values \in Seq(Shorts) /\ Len(values) \in Nat
      /\ found.null \in BOOLEAN /\ found.crashed \in BOOLEAN
  BY <1>1, ShortTokenTyped, LenProperties DEF Found
<1>3. \A i : i \in 1 .. k <=> i \in 1 .. k - 1 \/ i = k
  BY <1>1
<1>4. ASSUME NEW i \in 1 .. k - 1
      PROVE  /\ i \in Nat /\ i < k /\ k \in i + 1 .. k
             /\ \A j : j \in i + 1 .. k <=> j \in i + 1 .. k - 1 \/ j = k
  BY <1>1
<1>5. k + 1 .. k = {}
  BY <1>1
<1>6. ZeroAt(text, n, k) <=> k <= n /\ Short(text[k]) = 0
  BY DEF ZeroAt
<1>7. CASE found.crashed
  <2>1. new = found
    BY <1>7 DEF ShortToken
  <2> QED
    BY <1>2, <1>3, <1>4, <1>7, <2>1 DEF FoundIn
<1>8. CASE ~found.crashed /\ Len(values) = n
  <2>1. new = found
    BY <1>8 DEF ShortToken
  <2>2. ~found.null /\ n < k
    BY <1>1, <1>2, <1>8 DEF FoundIn
  <2>3. ~ZeroAt(text, n, k) /\ \A i \in 1 .. k - 1 : ~ZeroAt(text, n, i)
    BY <1>1, <1>6, <1>8, <2>2 DEF FoundIn
  <2>4. \A i \in 1 .. k : ~ZeroAt(text, n, i)
    BY <1>3, <2>3
  <2>5. ~(k < n) /\ ~(k - 1 < n)
    BY <1>1, <2>2
  <2> QED
    BY <1>2, <1>8, <2>1, <2>2, <2>4, <2>5 DEF FoundIn
<1>9. CASE ~found.crashed /\ Len(values) # n
  <2>1. ~found.null => k - 1 < n /\ k <= n /\ Len(values) = k - 1 /\ Len(values) < n
    BY <1>1, <1>9 DEF FoundIn
  <2>2. CASE Short(text[k]) = 0
    <3>1. /\ new.values = values /\ new.null /\ ~new.crashed
      BY <1>1, <1>9, <2>2 DEF ShortToken, Found
    <3>2. Len(values) < n
      BY <1>9, <2>1 DEF FoundIn
    <3>3. \E i \in 1 .. k : ZeroAt(text, n, i)
      <4>1. CASE found.null
        BY <1>3, <1>9, <4>1 DEF FoundIn
      <4>2. CASE ~found.null
        BY <1>3, <1>6, <2>1, <2>2, <4>2
      <4> QED
        BY <4>1, <4>2
    <3>4. ASSUME NEW i \in 1 .. k, ZeroAt(text, n, i), NEW j \in i + 1 .. k, Short(text[j]) # 0
          PROVE  FALSE
      <4>1. i \in 1 .. k - 1 /\ j \in i + 1 .. k - 1
        BY <1>3, <1>4, <1>5, <2>2, <3>4
      <4> QED
        BY <1>9, <3>4, <4>1 DEF FoundIn
    <3> QED
      BY <1>2, <3>1, <3>2, <3>3, <3>4 DEF FoundIn
  <2>3. CASE Short(text[k]) # 0 /\ found.null
    <3>1. new.crashed
      BY <1>1, <1>9, <2>3 DEF ShortToken, Found
    <3>2. PICK i \in 1 .. k - 1 : ZeroAt(text, n, i)
      BY <1>9, <2>3 DEF FoundIn
    <3>3. i \in 1 .. k /\ k \in i + 1 .. k
      BY <1>3, <1>4
    <3> QED
      BY <1>2, <2>3, <3>1, <3>2, <3>3 DEF FoundIn
  <2>4. CASE Short(text[k]) # 0 /\ ~found.null
    <3>1. new.values = Append(values, Short(text[k])) /\ ~new.null /\ ~new.crashed
      BY <1>1, <1>9, <2>4 DEF ShortToken, Found
    <3>2. \A i \in 1 .. k : ~ZeroAt(text, n, i)
      BY <1>3, <1>6, <1>9, <2>4 DEF FoundIn
    <3>3. Len(new.values) = k /\ \A i \in 1 .. k : new.values[i] = Short(text[i])
      <4>1. Short(text[k]) \in Shorts
        BY <1>1 DEF Shorts
      <4>2. /\ Len(new.values) = Len(values) + 1
            /\ \A i \in 1 .. Len(values) : new.values[i] = values[i]
            /\ new.values[Len(values) + 1] = Short(text[k])
        BY <1>2, <3>1, <4>1, AppendProperties
      <4>3. Len(values) = k - 1 /\ (k - 1) + 1 = k
        BY <1>1, <2>1, <2>4
      <4>4. \A i \in 1 .. k - 1 : values[i] = Short(text[i])
        BY <1>9, <2>4, <4>3 DEF FoundIn
      <4> QED
        BY <1>3, <4>2, <4>3, <4>4
    <3>4. k = IF k < n THEN k ELSE n
      BY <1>1, <2>1, <2>4
    <3> QED
      BY <1>2, <3>1, <3>2, <3>3, <3>4 DEF FoundIn
  <2> QED
    BY <2>2, <2>3, <2>4
<1> QED
  BY <1>7, <1>8, <1>9

(* What has been found when all the tokens have been read.                 *)
LEMMA ShortsFound ==
  ASSUME NEW n \in Nat, NEW text \in Seq(Numbers)
  PROVE  FoundIn(FoldLeft(LAMBDA f, token : ShortToken(n, f, token), NoShorts, text),
                 text, n, Len(text))
<1>1. PICK found :
        /\ found[0] = NoShorts
        /\ \A k \in 1 .. Len(text) : found[k] = ShortToken(n, found[k - 1], text[k])
        /\ FoldLeft(LAMBDA f, token : ShortToken(n, f, token), NoShorts, text) = found[Len(text)]
  BY FoldOfShortToken
<1>2. Len(text) \in Nat
  BY LenProperties
<1> DEFINE Wrong == {k \in 0 .. Len(text) : ~FoundIn(found[k], text, n, k)}
<1>3. FoundIn(NoShorts, text, n, 0)
  <2>1. 1 .. 0 = {} /\ 0 = IF 0 < n THEN 0 ELSE n
    OBVIOUS
  <2>2. /\ NoShorts.values = <<>> /\ ~NoShorts.null /\ ~NoShorts.crashed /\ NoShorts \in Found
        /\ Len(NoShorts.values) = 0
    BY EmptySeq DEF NoShorts, Found
  <2> QED
    BY <2>1, <2>2 DEF FoundIn
<1>4. ASSUME NEW k \in Wrong, \A l \in Wrong : k <= l
      PROVE  FALSE
  <2>1. CASE k = 0
    BY <1>1, <1>3, <2>1
  <2>2. CASE k # 0
    <3>1. k \in 1 .. Len(text) /\ k - 1 \in 0 .. Len(text) /\ ~(k <= k - 1)
      BY <1>2, <2>2
    <3>2. FoundIn(found[k - 1], text, n, k - 1)
      BY <1>4, <3>1
    <3>3. FoundIn(ShortToken(n, found[k - 1], text[k]), text, n, k)
      BY <3>1, <3>2, ShortTokenFinds
    <3> QED
      BY <1>1, <3>1, <3>3
  <2> QED
    BY <2>1, <2>2
<1>5. Wrong = {}
  <2>1. Wrong \in SUBSET Nat
    BY <1>2
  <2> HIDE DEF Wrong
  <2> QED
    BY <1>4, <2>1, LeastNumber
<1>6. FoundIn(found[Len(text)], text, n, Len(text))
  BY <1>2, <1>5
<1> QED
  BY <1>1, <1>6, Zenon

-----------------------------------------------------------------------------
(* A conversion takes no step: its result is a function of what it is      *)
(* given.                                                                  *)
ConvertSpec == ConvertInit /\ [][FALSE]_convertVars

ConvertTypeOK == count \in Nat \ {0} /\ tokens \in Seq(Numbers)

(* A conversion is given a count and a text.                               *)
LEMMA ConvertTypes == ConvertSpec => []ConvertTypeOK
<1>1. ConvertInit => ConvertTypeOK
  BY SeqDef, MaxTokensAssumption DEF ConvertInit, ConvertTypeOK, BoundedSeq, SeqOf
<1>2. ConvertTypeOK /\ [FALSE]_convertVars => ConvertTypeOK'
  BY DEF ConvertTypeOK, convertVars
<1> QED
  BY <1>1, <1>2, PTL DEF ConvertSpec

(* extractNShortssFromString returns n numbers exactly for a text that     *)
(* begins with n of them, and then those, in their order, for any numbers  *)
(* and any text (tmc200controller.cpp:65-111).                             *)
THEOREM ShortsReturned == ConvertSpec => []ShortsWhole
<1>1. ConvertTypeOK => ShortsWhole
  <2> SUFFICES ASSUME ConvertTypeOK PROVE ShortsWhole
    OBVIOUS
  <2> DEFINE fold == FoldLeft(LAMBDA f, token : ShortToken(count, f, token), NoShorts, tokens)
             found == extractNShortssFromString(count, tokens)
             returned == ~found.crashed /\ ~found.null /\ Len(found.values) = count
  <2>1. /\ FoundIn(fold, tokens, count, Len(tokens))
        /\ Len(tokens) \in Nat /\ count \in Nat \ {0}
    BY ShortsFound, LenProperties DEF ConvertTypeOK
  <2>2. found = [fold EXCEPT !.null = @ \/ Len(fold.values) < count - 1]
    BY Zenon DEF extractNShortssFromString, NoShorts
  <2> HIDE DEF fold
  <2>3. /\ fold \in Found
        /\ found.values = fold.values /\ found.crashed = fold.crashed
        /\ found.null <=> fold.null \/ Len(fold.values) < count - 1
    BY <2>1, <2>2 DEF FoundIn, Found
  <2> HIDE DEF found
  <2>4. ASSUME returned
        PROVE  /\ Whole(count, tokens)
               /\ \A i \in 1 .. count : found.values[i] = Short(tokens[i])
    <3>1. /\ Len(fold.values) = IF Len(tokens) < count THEN Len(tokens) ELSE count
          /\ \A i \in 1 .. Len(fold.values) : fold.values[i] = Short(tokens[i])
          /\ \A i \in 1 .. Len(tokens) : ~ZeroAt(tokens, count, i)
      BY <2>1, <2>3, <2>4 DEF FoundIn
    <3>2. Len(tokens) >= count /\ Len(fold.values) = count
      BY <2>1, <2>3, <2>4, <3>1
    <3>3. \A i \in 1 .. count : i \in 1 .. Len(tokens) /\ i <= count
      BY <2>1, <3>2
    <3> QED
      BY <2>3, <3>1, <3>2, <3>3 DEF Whole, ZeroAt
  <2>5. ASSUME Whole(count, tokens)
        PROVE  returned
    <3>1. \A i \in 1 .. Len(tokens) : ~ZeroAt(tokens, count, i)
      <4>1. \A i \in 1 .. Len(tokens) : i <= count => i \in 1 .. count
        BY <2>1
      <4> QED
        BY <2>5, <4>1 DEF Whole, ZeroAt
    <3>2. ~fold.crashed /\ ~fold.null
      BY <2>1, <3>1 DEF FoundIn
    <3>3. Len(fold.values) = IF Len(tokens) < count THEN Len(tokens) ELSE count
      BY <2>1, <3>2 DEF FoundIn
    <3>4. Len(fold.values) = count /\ ~(Len(fold.values) < count - 1)
      BY <2>1, <2>5, <3>3 DEF Whole
    <3> QED
      BY <2>3, <3>2, <3>4
  <2> QED
    BY <2>4, <2>5, Zenon DEF ShortsWhole, found
<1> QED
  BY <1>1, ConvertTypes, PTL

-----------------------------------------------------------------------------
(* One token more gives an array of the same kind.                         *)
LEMMA IntTokenTyped ==
  ASSUME NEW n, NEW found \in Seq(Numbers), NEW token \in Numbers
  PROVE  IntToken(n, found, token) \in Seq(Numbers)
  BY AppendProperties DEF IntToken

(* The fold over the tokens, token by token.                               *)
LEMMA FoldOfIntToken ==
  ASSUME NEW n \in Nat, NEW text \in Seq(Numbers)
  PROVE  \E found :
           /\ found[0] = <<>>
           /\ \A k \in 1 .. Len(text) : found[k] = IntToken(n, found[k - 1], text[k])
           /\ FoldLeft(LAMBDA f, token : IntToken(n, f, token), <<>>, text) = found[Len(text)]
<1> DEFINE len == Len(text)
           Found2 == Seq(Numbers)
           op == [p \in Found2 \X Numbers |-> IntToken(n, p[1], p[2])]
           Fold(f) == f = [S \in SUBSET (1 .. len) |->
                             IF S = {} THEN <<>>
                             ELSE IntToken(n, f[S \ {Max(S)}], text[Max(S)])]
           fold == CHOOSE f : Fold(f)
           found == [k \in 0 .. len |-> fold[1 .. k]]
<1>1. len \in Nat /\ DOMAIN text = 1 .. len /\ \A k \in 1 .. len : text[k] \in Numbers
  BY LenProperties, ElementOfSeq
<1>2. FoldLeft(LAMBDA f, token : IntToken(n, f, token), <<>>, text) = fold[1 .. len]
  BY <1>1, Zenon DEF FoldLeft, MapThenFoldSet
<1>3. op \in [Found2 \X Numbers -> Found2]
  <2>1. \A p \in Found2 \X Numbers : IntToken(n, p[1], p[2]) \in Found2
    BY IntTokenTyped
  <2> QED
    BY <2>1
<1>4. \A f \in Found2, token \in Numbers : op[f, token] = IntToken(n, f, token)
  OBVIOUS
<1>0. <<>> \in Found2
  BY EmptySeq
<1> HIDE DEF op, len, Fold, fold, found, Found2
<1>5. PICK f : IsFold(f, Found2, op, <<>>, text)
  BY <1>0, <1>3, FoldWellDefined
<1>6. Fold(f)
  <2>1. ASSUME NEW S \in SUBSET (1 .. len)
        PROVE  f[S] = IF S = {} THEN <<>> ELSE IntToken(n, f[S \ {Max(S)}], text[Max(S)])
    <3>1. S # {} => text[Max(S)] \in Numbers /\ f[S \ {Max(S)}] \in Found2
      BY <1>1, <1>5, MaxInSet DEF IsFold, len
    <3> QED
      BY <1>4, <1>5, <3>1 DEF IsFold, len
  <2> QED
    BY <1>5, <2>1 DEF IsFold, Fold, len
<1>7. Fold(fold)
  BY <1>6, Zenon DEF fold
<1>8. \A S \in SUBSET (1 .. len) :
        fold[S] = IF S = {} THEN <<>> ELSE IntToken(n, fold[S \ {Max(S)}], text[Max(S)])
  BY <1>7 DEF Fold
<1>9. found[0] = <<>>
  <2>1. 0 \in 0 .. len /\ 1 .. 0 = {}
    BY <1>1
  <2> QED
    BY <1>8, <2>1 DEF found
<1>10. ASSUME NEW k \in 1 .. len
       PROVE  found[k] = IntToken(n, found[k - 1], text[k])
  <2>1. k \in Nat \ {0} /\ k \in 0 .. len /\ k - 1 \in 0 .. len /\ 1 .. k \in SUBSET (1 .. len)
    BY <1>1
  <2>2. Max(1 .. k) = k /\ (1 .. k) \ {k} = 1 .. k - 1 /\ 1 .. k # {}
    BY <2>1, MaxOfInterval
  <2>3. fold[1 .. k] = IntToken(n, fold[1 .. k - 1], text[k])
    BY <1>8, <2>1, <2>2
  <2> QED
    BY <2>1, <2>3 DEF found
<1>11. fold[1 .. len] = found[len]
  <2>1. len \in 0 .. len
    BY <1>1
  <2> QED
    BY <2>1 DEF found
<1> QED
  BY <1>2, <1>9, <1>10, <1>11 DEF len

(* Where the numbers are that convertToIntArray keeps.                     *)
NonZero(text) == {j \in Nat : text[j] # 0}

(* What is found in the first k tokens: the first of them that are not 0,  *)
(* at most n.                                                              *)
IntsIn(found, text, n, k) ==
  /\ found \in Seq(Numbers)
  /\ Len(found) = IF Rank(NonZero(text), k) < n THEN Rank(NonZero(text), k) ELSE n
  /\ \A i \in 1 .. k :
       text[i] # 0 /\ Rank(NonZero(text), i) <= n => found[Rank(NonZero(text), i)] = text[i]

(* What the next token adds.                                               *)
LEMMA IntTokenFinds ==
  ASSUME NEW n \in Nat, NEW text \in Seq(Numbers), NEW k \in 1 .. Len(text),
         NEW found, IntsIn(found, text, n, k - 1)
  PROVE  IntsIn(IntToken(n, found, text[k]), text, n, k)
<1> DEFINE new == IntToken(n, found, text[k])
<1>1. /\ Len(text) \in Nat /\ k \in Nat \ {0} /\ k - 1 \in Nat /\ text[k] \in Numbers
      /\ found \in Seq(Numbers) /\ Len(found) \in Nat
  BY LenProperties, ElementOfSeq DEF IntsIn
<1>2. new \in Seq(Numbers)
  BY <1>1, IntTokenTyped
<1>3. \A i : i \in 1 .. k <=> i \in 1 .. k - 1 \/ i = k
  BY <1>1
<1>4. /\ Rank(NonZero(text), k) \in Nat /\ Rank(NonZero(text), k - 1) \in Nat
      /\ Rank(NonZero(text), k) = Rank(NonZero(text), k - 1) + (IF text[k] # 0 THEN 1 ELSE 0)
      /\ \A i \in 1 .. k - 1 : text[i] # 0 => Rank(NonZero(text), i) \in 1 .. Rank(NonZero(text), k - 1)
  <2>1. \A i \in 1 .. k : i \in NonZero(text) <=> text[i] # 0
    BY <1>1 DEF NonZero
  <2>2. k \in 1 .. k /\ \A i \in 1 .. k - 1 : i \in 1 .. k
    BY <1>1
  <2> HIDE DEF new
  <2> QED
    BY <1>1, <2>1, <2>2, RankSteps
<1>5. CASE text[k] = 0
  <2>1. new = found /\ Rank(NonZero(text), k) = Rank(NonZero(text), k - 1)
    BY <1>4, <1>5 DEF IntToken
  <2> QED
    BY <1>2, <1>3, <1>5, <2>1 DEF IntsIn
<1>6. CASE text[k] # 0 /\ Len(found) = n
  <2>1. new = found /\ ~(Rank(NonZero(text), k - 1) < n) /\ ~(Rank(NonZero(text), k) < n) /\ ~(Rank(NonZero(text), k) <= n)
    BY <1>1, <1>4, <1>6 DEF IntToken, IntsIn
  <2> QED
    BY <1>2, <1>3, <1>6, <2>1 DEF IntsIn
<1>7. CASE text[k] # 0 /\ Len(found) # n
  <2>1. /\ new = Append(found, text[k])
        /\ Len(found) = Rank(NonZero(text), k - 1) /\ Rank(NonZero(text), k) = Len(found) + 1
        /\ Rank(NonZero(text), k) = IF Rank(NonZero(text), k) < n THEN Rank(NonZero(text), k) ELSE n
    BY <1>1, <1>4, <1>7 DEF IntToken, IntsIn
  <2>2. /\ Len(new) = Len(found) + 1
        /\ \A i \in 1 .. Len(found) : new[i] = found[i]
        /\ new[Len(found) + 1] = text[k]
    BY <1>1, <2>1, AppendProperties
  <2>3. ASSUME NEW i \in 1 .. k - 1, text[i] # 0, Rank(NonZero(text), i) <= n
        PROVE  new[Rank(NonZero(text), i)] = text[i]
    BY <1>4, <2>1, <2>2, <2>3 DEF IntsIn
  <2>4. Len(new) = IF Rank(NonZero(text), k) < n THEN Rank(NonZero(text), k) ELSE n
    BY <2>1, <2>2
  <2>5. new[Rank(NonZero(text), k)] = text[k]
    BY <2>1, <2>2
  <2> HIDE DEF new
  <2>6. \A i \in 1 .. k : text[i] # 0 /\ Rank(NonZero(text), i) <= n => new[Rank(NonZero(text), i)] = text[i]
    BY <1>3, <2>3, <2>5
  <2>7. IntsIn(new, text, n, k)
    BY <1>2, <2>4, <2>6 DEF IntsIn
  <2> QED
    BY <2>7 DEF new
<1> QED
  BY <1>5, <1>6, <1>7

(* What the array holds when all the tokens have been read.                *)
LEMMA IntsFound ==
  ASSUME NEW n \in Nat, NEW text \in Seq(Numbers)
  PROVE  IntsIn(convertToIntArray(text, n), text, n, Len(text))
<1>1. PICK found :
        /\ found[0] = <<>>
        /\ \A k \in 1 .. Len(text) : found[k] = IntToken(n, found[k - 1], text[k])
        /\ FoldLeft(LAMBDA f, token : IntToken(n, f, token), <<>>, text) = found[Len(text)]
  BY FoldOfIntToken
<1>2. Len(text) \in Nat
  BY LenProperties
<1> DEFINE Wrong == {k \in 0 .. Len(text) : ~IntsIn(found[k], text, n, k)}
<1>3. IntsIn(<<>>, text, n, 0)
  <2>1. 1 .. 0 = {} /\ Rank(NonZero(text), 0) = 0 /\ 0 = IF 0 < n THEN 0 ELSE n
    BY RankSteps
  <2>2. <<>> \in Seq(Numbers) /\ Len(<<>>) = 0
    BY EmptySeq
  <2> QED
    BY <2>1, <2>2 DEF IntsIn
<1>4. ASSUME NEW k \in Wrong, \A l \in Wrong : k <= l
      PROVE  FALSE
  <2>1. CASE k = 0
    BY <1>1, <1>3, <2>1
  <2>2. CASE k # 0
    <3>1. k \in 1 .. Len(text) /\ k - 1 \in 0 .. Len(text) /\ ~(k <= k - 1)
      BY <1>2, <2>2
    <3>2. IntsIn(found[k - 1], text, n, k - 1)
      BY <1>4, <3>1
    <3>3. IntsIn(IntToken(n, found[k - 1], text[k]), text, n, k)
      BY <3>1, <3>2, IntTokenFinds
    <3> QED
      BY <1>1, <3>1, <3>3
  <2> QED
    BY <2>1, <2>2
<1>5. Wrong = {}
  <2>1. Wrong \in SUBSET Nat
    BY <1>2
  <2> HIDE DEF Wrong
  <2> QED
    BY <1>4, <2>1, LeastNumber
<1>6. IntsIn(found[Len(text)], text, n, Len(text))
  BY <1>2, <1>5
<1> QED
  BY <1>1, <1>6, Zenon DEF convertToIntArray

(* Before the first 0 every number is the first that is not 0 but those    *)
(* before it.                                                              *)
LEMMA RankBeforeZero ==
  ASSUME NEW text \in Seq(Numbers), NEW i \in 1 .. Len(text),
         \A j \in 1 .. i : text[j] # 0
  PROVE  Rank(NonZero(text), i) = i
<1>1. Len(text) \in Nat /\ i \in Nat /\ \A j \in 1 .. i : j \in Nat
  BY LenProperties
<1>2. {j \in 1 .. i : j \in NonZero(text)} = 1 .. i
  BY <1>1 DEF NonZero
<1>3. Cardinality(1 .. i) = i
  BY <1>1, FS_Interval
<1> QED
  BY <1>2, <1>3, Zenon DEF Rank

(* The numbers kept are no more than the numbers read, and no fewer than   *)
(* up to any of them.                                                      *)
LEMMA RankGrows ==
  ASSUME NEW text \in Seq(Numbers), NEW i \in 1 .. Len(text)
  PROVE  /\ Rank(NonZero(text), Len(text)) \in Nat
         /\ text[i] # 0 => Rank(NonZero(text), i) \in 1 .. Rank(NonZero(text), Len(text))
<1>1. Len(text) \in Nat
  BY LenProperties
<1>2. i \in NonZero(text) <=> text[i] # 0
  BY <1>1 DEF NonZero
<1> QED
  BY <1>1, <1>2, RankSteps

(* convertToIntArray returns at most n numbers, and every number before    *)
(* the first 0 at its position, for any numbers and any text               *)
(* (converters.cpp:13-39).                                                 *)
THEOREM IntsReturned == ConvertSpec => []IntsBeforeZero
<1>1. ConvertTypeOK => IntsBeforeZero
  <2> SUFFICES ASSUME ConvertTypeOK PROVE IntsBeforeZero
    OBVIOUS
  <2> DEFINE array == convertToIntArray(tokens, count)
             len == Len(tokens)
             rank(i) == Rank(NonZero(tokens), i)
  <2>1. IntsIn(array, tokens, count, len)
    BY IntsFound DEF ConvertTypeOK
  <2>2. len \in Nat /\ DOMAIN tokens = 1 .. len /\ count \in Nat
    BY LenProperties DEF ConvertTypeOK
  <2> HIDE DEF array
  <2>3. Len(array) = IF rank(len) < count THEN rank(len) ELSE count
    BY <2>1 DEF IntsIn
  <2>4. Len(array) <= count
    <3>1. rank(len) \in Nat
      BY <2>2, RankSteps
    <3> HIDE DEF rank, len
    <3> QED
      BY <2>2, <2>3, <3>1
  <2>5. ASSUME NEW i \in DOMAIN tokens, i <= count, \A j \in 1 .. i : tokens[j] # 0
        PROVE  i <= Len(array) /\ array[i] = tokens[i]
    <3>1. i \in 1 .. len /\ i \in 1 .. i
      BY <2>2
    <3>2. rank(i) = i
      BY <2>5, <3>1, RankBeforeZero DEF ConvertTypeOK
    <3>3. rank(len) \in Nat /\ rank(i) \in 1 .. rank(len)
      BY <2>5, <3>1, RankGrows DEF ConvertTypeOK
    <3>4. i <= Len(array)
      <4> HIDE DEF rank, len
      <4> QED
        BY <2>2, <2>3, <2>5, <3>1, <3>2, <3>3
    <3>5. array[rank(i)] = tokens[i]
      BY <2>1, <2>5, <3>1, <3>2 DEF IntsIn
    <3> QED
      BY <3>2, <3>4, <3>5, Zenon
  <2> QED
    BY <2>4, <2>5, Zenon DEF IntsBeforeZero, array
<1> QED
  BY <1>1, ConvertTypes, PTL

-----------------------------------------------------------------------------
(***************************************************************************)
(* TMC200CfgXmlParser, as the direct test program uses it.                 *)
(***************************************************************************)
(* The least number of a set is in it, and none is less.                   *)
LEMMA MinIs ==
  ASSUME NEW S \in SUBSET Nat, S # {}
  PROVE  Min(S) \in S /\ \A y \in S : Min(S) <= y
<1> DEFINE IsMin(x) == x \in S /\ \A y \in S : x <= y
<1>1. Min(S) = CHOOSE x : IsMin(x)
  BY Zenon DEF Min
<1>2. \E x : IsMin(x)
  BY LeastNumber
<1> HIDE DEF IsMin
<1>3. IsMin(CHOOSE x : IsMin(x))
  BY <1>2, Zenon
<1>4. IsMin(Min(S))
  BY <1>1, <1>3, Zenon
<1> QED
  BY <1>4, Zenon DEF IsMin

(* The parent of a node, 0 for those of the document itself.               *)
Parent(node) == document[node].parent

(* What a document is: every node comes after its parent, and the nodes    *)
(* between the two are below the same parent.                              *)
LEMMA DocumentIs ==
  ASSUME document \in Documents
  PROVE  /\ Len(document) \in Nat /\ Nodes = 1 .. Len(document)
         /\ Len(document) = 0 => document = <<>>
         /\ \A i \in Nodes : Parent(i) \in Nat /\ Parent(i) < i /\ document[i].name \in Names
         /\ \A i \in Nodes : \A j \in Parent(i) + 1 .. i - 1 : Parent(j) >= Parent(i)
<1>1. PICK n \in 0 .. MaxNodes :
        document \in [1 .. n -> [name : Names, parent : 0 .. n - 1]] /\ IsDocument(document)
  BY Zenon DEF Documents
<1>2. n \in Nat
  BY MaxNodesAssumption
<1>3. document \in Seq([name : Names, parent : 0 .. n - 1])
  <2> DEFINE Node == [name : Names, parent : 0 .. n - 1]
  <2>1. document \in [1 .. n -> Node]
    BY <1>1
  <2> HIDE DEF Node
  <2>2. document \in Seq(Node)
    BY <1>2, <2>1, SeqDef
  <2> QED
    BY <2>2 DEF Node
<1>4. DOMAIN document = 1 .. n /\ Len(document) = n
  BY <1>1, <1>2, <1>3, LenProperties
<1>5. \A i \in 1 .. n : Parent(i) \in Nat /\ document[i].name \in Names
  BY <1>1, <1>2 DEF Parent
<1>6. Len(document) = 0 => document = <<>>
  BY <1>3, EmptySeq
<1> QED
  BY <1>1, <1>2, <1>4, <1>5, <1>6 DEF Parent, IsDocument, Nodes

(* The nodes parsXmlNode will come back to: below one another and each     *)
(* before the next; all that follows hangs on them.                        *)
Above(a, b) == a < b /\ Parent(b) < Parent(a)
Stacked(s) == \A i, j \in 1 .. Len(s) : i < j => Above(s[i], s[j])

Frontier(s) ==
  /\ s \in Seq(Nodes) /\ Stacked(s)
  /\ s # <<>> =>
       \A m \in Nodes : m >= s[1] /\ Parent(m) < s[1] =>
         \E node \in ToSet(s) : Parent(m) = Parent(node) /\ m >= node

(* Two stacks make one if all of the first are above all of the second.    *)
LEMMA StackedConcat ==
  ASSUME NEW s \in Seq(Nodes), NEW t \in Seq(Nodes), Stacked(s), Stacked(t),
         \A a \in ToSet(s), b \in ToSet(t) : Above(a, b)
  PROVE  s \o t \in Seq(Nodes) /\ Stacked(s \o t) /\ ToSet(s \o t) = ToSet(s) \cup ToSet(t)
<1> DEFINE c == s \o t
<1>1. c \in Seq(Nodes) /\ ToSet(c) = ToSet(s) \cup ToSet(t)
  BY ConcatProperties, ConcatElements
<1>2. /\ Len(s) \in Nat /\ Len(t) \in Nat /\ Len(c) = Len(s) + Len(t)
      /\ \A i \in 1 .. Len(s) + Len(t) : c[i] = IF i <= Len(s) THEN s[i] ELSE t[i - Len(s)]
  BY ConcatProperties, LenProperties
<1> HIDE DEF c
<1>3. Stacked(c)
  <2> SUFFICES ASSUME NEW i \in 1 .. Len(c), NEW j \in 1 .. Len(c), i < j
               PROVE  Above(c[i], c[j])
    BY DEF Stacked
  <2>1. CASE j <= Len(s)
    <3>1. i \in 1 .. Len(s) /\ j \in 1 .. Len(s) /\ c[i] = s[i] /\ c[j] = s[j]
      BY <1>2, <2>1
    <3> QED
      BY <3>1 DEF Stacked
  <2>2. CASE i <= Len(s) /\ ~(j <= Len(s))
    <3>1. i \in 1 .. Len(s) /\ j - Len(s) \in 1 .. Len(t) /\ c[i] = s[i] /\ c[j] = t[j - Len(s)]
      BY <1>2, <2>2
    <3>2. s[i] \in ToSet(s) /\ t[j - Len(s)] \in ToSet(t)
      BY <3>1, LenProperties DEF ToSet
    <3> QED
      BY <3>1, <3>2
  <2>3. CASE ~(i <= Len(s))
    <3>1. /\ i - Len(s) \in 1 .. Len(t) /\ j - Len(s) \in 1 .. Len(t)
          /\ i - Len(s) < j - Len(s) /\ c[i] = t[i - Len(s)] /\ c[j] = t[j - Len(s)]
      BY <1>2, <2>3
    <3> QED
      BY <3>1 DEF Stacked
  <2>4. j <= Len(s) \/ (i <= Len(s) /\ ~(j <= Len(s))) \/ ~(i <= Len(s))
    OBVIOUS
  <2> QED
    BY <2>1, <2>2, <2>3, <2>4
<1> QED
  BY <1>1, <1>3 DEF c

(* Stacks of one node and of none.                                         *)
LEMMA AtMostOneStacked ==
  ASSUME NEW T, NEW x \in T
  PROVE  <<x>> \in Seq(T) /\ <<>> \in Seq(T) /\ Stacked(<<x>>) /\ Stacked(<<>>)
         /\ ToSet(<<x>>) = {x} /\ ToSet(<<>>) = {}
<1>1. <<x>> \in Seq(T) /\ <<>> \in Seq(T)
  OBVIOUS
<1>2. Len(<<x>>) = 1 /\ Len(<<>>) = 0
  OBVIOUS
<1>3. ToSet(<<x>>) = {x} /\ ToSet(<<>>) = {}
  BY EmptyElements DEF ToSet
<1> QED
  BY <1>1, <1>2, <1>3 DEF Stacked

(* The first child and the next sibling, where there are any.              *)
LEMMA ChildIs ==
  ASSUME document \in Documents, NEW c \in Nodes
  PROVE  \/ FirstChild(c) = <<>> /\ \A m \in Nodes : Parent(m) # c
         \/ /\ c + 1 \in Nodes /\ Parent(c + 1) = c /\ FirstChild(c) = <<c + 1>>
<1>1. /\ Len(document) \in Nat /\ Nodes = 1 .. Len(document)
      /\ \A i \in Nodes : Parent(i) \in Nat /\ Parent(i) < i
      /\ \A i \in Nodes : \A j \in Parent(i) + 1 .. i - 1 : Parent(j) >= Parent(i)
  BY DocumentIs
<1>2. \A m : m \in Children(c) <=> m \in Nodes /\ Parent(m) = c
  BY DEF Children, Parent
<1>3. CASE Children(c) = {}
  BY <1>2, <1>3 DEF FirstChild
<1>4. CASE Children(c) # {}
  <2> DEFINE x == Min(Children(c))
  <2>1. Children(c) \in SUBSET Nat
    BY <1>1, <1>2
  <2>2. x \in Children(c) /\ \A y \in Children(c) : x <= y
    BY <1>4, <2>1, MinIs
  <2>3. FirstChild(c) = <<x>>
    BY <1>4 DEF FirstChild
  <2> HIDE DEF x
  <2>4. x \in Nodes /\ Parent(x) = c /\ x > c /\ c \in Nat
    BY <1>1, <1>2, <2>2
  <2>5. x = c + 1
    <3> SUFFICES ASSUME x # c + 1 PROVE FALSE
      OBVIOUS
    <3>1. c + 1 \in Parent(x) + 1 .. x - 1 /\ c + 1 \in Nodes /\ ~(x <= c + 1)
      BY <1>1, <2>4
    <3>2. Parent(c + 1) >= c /\ Parent(c + 1) < c + 1 /\ Parent(c + 1) \in Nat
      BY <1>1, <2>4, <3>1
    <3>3. Parent(c + 1) = c
      BY <2>4, <3>2
    <3> QED
      BY <1>2, <2>2, <3>1, <3>3
  <2> QED
    BY <2>3, <2>4, <2>5
<1> QED
  BY <1>3, <1>4

(* The next sibling is the least one that comes later, if there is any.    *)
LEMMA SiblingIs ==
  ASSUME document \in Documents, NEW c \in Nodes
  PROVE  \/ NextSibling(c) = <<>> /\ \A m \in Nodes : m > c => Parent(m) # Parent(c)
         \/ \E next \in Nodes :
              /\ NextSibling(c) = <<next>> /\ next > c /\ Parent(next) = Parent(c)
              /\ \A m \in Nodes : m > c /\ Parent(m) = Parent(c) => next <= m
<1>1. Len(document) \in Nat /\ Nodes = 1 .. Len(document)
  BY DocumentIs
<1> DEFINE later == {m \in Children(document[c].parent) : m > c}
<1>2. \A m : m \in later <=> m \in Nodes /\ m > c /\ Parent(m) = Parent(c)
  BY DEF Children, Parent
<1>3. NextSibling(c) = IF later = {} THEN <<>> ELSE <<Min(later)>>
  BY Zenon DEF NextSibling
<1> HIDE DEF later
<1>4. CASE later = {}
  BY <1>2, <1>3, <1>4
<1>5. CASE later # {}
  <2> DEFINE next == Min(later)
  <2>1. later \in SUBSET Nat
    BY <1>1, <1>2
  <2>2. next \in later /\ \A y \in later : next <= y
    BY <1>5, <2>1, MinIs
  <2>3. NextSibling(c) = <<next>>
    BY <1>3, <1>5
  <2> HIDE DEF next
  <2> QED
    BY <1>2, <2>2, <2>3
<1> QED
  BY <1>4, <1>5

(* After a node parsXmlNode comes to the next one of the document.         *)
LEMMA NextNode ==
  ASSUME document \in Documents, NEW s, Frontier(s), s # <<>>
  PROVE  LET next == FirstChild(Head(s)) \o NextSibling(Head(s)) \o Tail(s)
         IN /\ Head(s) \in Nodes /\ Frontier(next)
            /\ Head(s) = Len(document) => next = <<>>
            /\ Head(s) # Len(document) => next # <<>> /\ Head(next) = Head(s) + 1
<1> DEFINE c == Head(s)
           child == FirstChild(c)
           sibling == NextSibling(c)
           rest == Tail(s)
           both == child \o sibling
           next == both \o rest
<1>1. /\ Len(document) \in Nat /\ Nodes = 1 .. Len(document)
      /\ \A i \in Nodes : Parent(i) \in Nat /\ Parent(i) < i
      /\ \A i \in Nodes : \A j \in Parent(i) + 1 .. i - 1 : Parent(j) >= Parent(i)
  BY DocumentIs
<1>2. s \in Seq(Nodes) /\ Len(s) \in Nat /\ Len(s) # 0 /\ Stacked(s)
      /\ \A i \in 1 .. Len(s) : s[i] \in Nodes
  <2>1. s \in Seq(Nodes) /\ Stacked(s)
    BY DEF Frontier
  <2>2. Len(s) \in Nat /\ Len(s) # 0
    BY <2>1, LenProperties, EmptySeq
  <2> QED
    BY <2>1, <2>2, ElementOfSeq
<1>3. /\ c = s[1] /\ c \in Nodes /\ rest \in Seq(Nodes) /\ Len(rest) = Len(s) - 1
      /\ \A i \in 1 .. Len(s) - 1 : rest[i] = s[i + 1]
  BY <1>2, HeadTailProperties
<1>4. \/ child = <<>> /\ \A m \in Nodes : Parent(m) # c
      \/ c + 1 \in Nodes /\ Parent(c + 1) = c /\ child = <<c + 1>>
  BY <1>3, ChildIs
<1>5. \/ sibling = <<>> /\ \A m \in Nodes : m > c => Parent(m) # Parent(c)
      \/ \E node \in Nodes :
              /\ sibling = <<node>> /\ node > c /\ Parent(node) = Parent(c)
              /\ \A m \in Nodes : m > c /\ Parent(m) = Parent(c) => node <= m
  BY <1>3, SiblingIs
<1> HIDE DEF child, sibling
<1>6. child \in Seq(Nodes) /\ Stacked(child) /\ \A x \in ToSet(child) : x \in Nodes /\ x = c + 1 /\ Parent(x) = c
  <2>1. CASE child = <<>>
    BY <1>3, <2>1, AtMostOneStacked
  <2>2. CASE c + 1 \in Nodes /\ Parent(c + 1) = c /\ child = <<c + 1>>
    <3> DEFINE x == c + 1
    <3>1. x \in Nodes /\ child = <<x>>
      BY <2>2
    <3> HIDE DEF x
    <3>2. child \in Seq(Nodes) /\ Stacked(child) /\ ToSet(child) = {x}
      BY <3>1, AtMostOneStacked
    <3> QED
      BY <2>2, <3>2 DEF x
  <2> QED
    BY <1>4, <2>1, <2>2
<1>7. /\ sibling \in Seq(Nodes) /\ Stacked(sibling)
      /\ \A x \in ToSet(sibling) :
           /\ x \in Nodes /\ x > c /\ Parent(x) = Parent(c)
           /\ \A m \in Nodes : m > c /\ Parent(m) = Parent(c) => x <= m
  <2>1. CASE sibling = <<>>
    BY <1>3, <2>1, AtMostOneStacked
  <2>2. ASSUME NEW node \in Nodes, sibling = <<node>>
        PROVE  sibling \in Seq(Nodes) /\ Stacked(sibling) /\ ToSet(sibling) = {node}
    BY <2>2, AtMostOneStacked
  <2> QED
    BY <1>5, <2>1, <2>2
<1>8. Stacked(rest) /\ \A x \in ToSet(rest) : x \in Nodes /\ Above(c, x)
  <2>1. \A i \in 1 .. Len(rest) : i + 1 \in 1 .. Len(s) /\ 1 < i + 1 /\ 1 \in 1 .. Len(s) /\ rest[i] = s[i + 1]
    BY <1>2, <1>3
  <2>2. Stacked(rest)
    <3> SUFFICES ASSUME NEW i \in 1 .. Len(rest), NEW j \in 1 .. Len(rest), i < j
                 PROVE  Above(rest[i], rest[j])
      BY DEF Stacked
    <3>1. i + 1 < j + 1
      OBVIOUS
    <3> QED
      BY <1>2, <2>1, <3>1 DEF Stacked
  <2>3. ASSUME NEW x \in ToSet(rest) PROVE x \in Nodes /\ Above(c, x)
    <3>1. PICK i \in 1 .. Len(rest) : x = rest[i]
      BY <1>3, LenProperties DEF ToSet
    <3> QED
      BY <1>2, <1>3, <2>1, <3>1 DEF Stacked
  <2> QED
    BY <2>2, <2>3
<1>9. ToSet(s) = {c} \cup ToSet(rest)
  <2>1. ASSUME NEW x PROVE x \in ToSet(s) <=> x = c \/ x \in ToSet(rest)
    <3>1. x \in ToSet(s) <=> \E i \in 1 .. Len(s) : x = s[i]
      BY <1>2, LenProperties DEF ToSet
    <3>2. x \in ToSet(rest) <=> \E i \in 1 .. Len(rest) : x = rest[i]
      BY <1>3, LenProperties DEF ToSet
    <3>3. \A i \in 1 .. Len(s) : i = 1 \/ (i - 1 \in 1 .. Len(rest) /\ rest[i - 1] = s[i])
      BY <1>2, <1>3
    <3>4. \A i \in 1 .. Len(rest) : i + 1 \in 1 .. Len(s) /\ rest[i] = s[i + 1]
      BY <1>2, <1>3
    <3>5. 1 \in 1 .. Len(s)
      BY <1>2
    <3> QED
      BY <1>3, <3>1, <3>2, <3>3, <3>4, <3>5
  <2> QED
    BY <2>1
<1>10. \A a \in ToSet(child), b \in ToSet(sibling) : Above(a, b)
  BY <1>1, <1>3, <1>6, <1>7 DEF Above
<1>11. \A a \in ToSet(child), b \in ToSet(rest) : Above(a, b)
  <2> SUFFICES ASSUME NEW a \in ToSet(child), NEW b \in ToSet(rest) PROVE Above(a, b)
    OBVIOUS
  <2>1. a = c + 1 /\ Parent(a) = c /\ b > c /\ Parent(b) < Parent(c) /\ Parent(c) < c /\ a \in Nodes /\ b \in Nodes
    BY <1>1, <1>3, <1>6, <1>8 DEF Above
  <2>2. a # b
    BY <1>1, <1>3, <2>1
  <2> QED
    BY <1>1, <1>3, <2>1, <2>2 DEF Above
<1>12. \A a \in ToSet(sibling), b \in ToSet(rest) : Above(a, b)
  <2> SUFFICES ASSUME NEW a \in ToSet(sibling), NEW b \in ToSet(rest) PROVE Above(a, b)
    OBVIOUS
  <2>1. /\ a > c /\ Parent(a) = Parent(c) /\ b > c /\ Parent(b) < Parent(c) /\ Parent(c) < c
        /\ a \in Nodes /\ b \in Nodes /\ Parent(a) \in Nat /\ Parent(b) \in Nat
    BY <1>1, <1>3, <1>7, <1>8 DEF Above
  <2>2. a # b
    BY <2>1
  <2>3. ~(b < a)
    <3> SUFFICES ASSUME b < a PROVE FALSE
      OBVIOUS
    <3>1. b \in Parent(a) + 1 .. a - 1
      BY <1>1, <1>3, <2>1
    <3>2. Parent(b) >= Parent(a)
      BY <1>1, <2>1, <3>1
    <3> QED
      BY <2>1, <3>2
  <2> QED
    BY <1>1, <2>1, <2>2, <2>3 DEF Above
<1> HIDE DEF c, rest
<1>13. both \in Seq(Nodes) /\ Stacked(both) /\ ToSet(both) = ToSet(child) \cup ToSet(sibling)
  BY <1>6, <1>7, <1>10, StackedConcat
<1> HIDE DEF both
<1>14. next \in Seq(Nodes) /\ Stacked(next)
       /\ ToSet(next) = ToSet(child) \cup ToSet(sibling) \cup ToSet(rest)
  BY <1>3, <1>8, <1>11, <1>12, <1>13, StackedConcat
<1> HIDE DEF next
<1>15. \A x \in ToSet(next) : x \in Nodes /\ x > c
  BY <1>1, <1>3, <1>6, <1>7, <1>8, <1>14 DEF Above
<1>16. ASSUME NEW m \in Nodes, m > c, Parent(m) <= c
       PROVE  \E node \in ToSet(next) : Parent(m) = Parent(node) /\ m >= node
  <2>1. CASE Parent(m) = c
    <3>1. child = <<c + 1>> /\ Parent(c + 1) = c /\ c + 1 \in Nodes
      BY <1>4, <2>1
    <3>2. c + 1 \in ToSet(child)
      BY <3>1, AtMostOneStacked
    <3>3. m >= c + 1
      BY <1>1, <1>3, <1>16
    <3> QED
      BY <1>14, <2>1, <3>1, <3>2, <3>3
  <2>2. CASE Parent(m) # c
    <3>1. Parent(m) < c /\ m >= c
      BY <1>1, <1>3, <1>16, <2>2
    <3>2. PICK node \in ToSet(s) : Parent(m) = Parent(node) /\ m >= node
      BY <1>3, <3>1 DEF Frontier
    <3>3. CASE node \in ToSet(rest)
      BY <1>14, <3>2, <3>3
    <3>4. CASE node = c
      <4>1. PICK x \in Nodes : /\ sibling = <<x>> /\ Parent(x) = Parent(c) /\ x <= m
        BY <1>5, <1>16, <3>2, <3>4
      <4>2. x \in ToSet(sibling)
        BY <4>1, AtMostOneStacked
      <4>3. m >= x
        BY <1>1, <4>1
      <4> QED
        BY <1>14, <3>2, <3>4, <4>1, <4>2, <4>3
    <3> QED
      BY <1>9, <3>2, <3>3, <3>4
  <2> QED
    BY <2>1, <2>2
<1>17. ASSUME next # <<>>
       PROVE  next[1] \in ToSet(next) /\ Head(next) = next[1] /\ \A x \in ToSet(next) : next[1] <= x
  <2>1. Len(next) \in Nat /\ Len(next) # 0
    BY <1>14, <1>17, LenProperties, EmptySeq
  <2>2. \A i \in 1 .. Len(next) : next[i] \in ToSet(next) /\ next[1] <= next[i]
    <3>1. 1 \in 1 .. Len(next) /\ \A i \in 1 .. Len(next) : i = 1 \/ 1 < i
      BY <2>1
    <3>2. \A i \in 1 .. Len(next) : next[i] \in ToSet(next) /\ next[i] \in Nodes
      BY <1>14, LenProperties, ElementOfSeq DEF ToSet
    <3>3. \A i \in 1 .. Len(next) : i = 1 \/ next[1] < next[i]
      BY <1>14, <3>1 DEF Stacked, Above
    <3> QED
      BY <1>1, <3>1, <3>2, <3>3
  <2>3. Head(next) = next[1]
    BY <1>14, <1>17, HeadTailProperties
  <2> QED
    BY <1>14, <2>1, <2>2, <2>3, LenProperties DEF ToSet
<1>18. ASSUME c # Len(document)
       PROVE  next # <<>> /\ Head(next) = c + 1
  <2>1. c + 1 \in Nodes /\ c + 1 > c /\ Parent(c + 1) <= c
    BY <1>1, <1>3, <1>18
  <2>2. PICK node \in ToSet(next) : c + 1 >= node
    BY <1>16, <2>1
  <2>3. node = c + 1
    BY <1>1, <1>3, <1>15, <2>2
  <2>4. next # <<>>
    BY <2>2, EmptyElements
  <2>5. next[1] <= c + 1 /\ next[1] \in Nodes /\ next[1] > c
    BY <1>15, <1>17, <2>2, <2>3, <2>4
  <2> QED
    BY <1>1, <1>3, <1>17, <2>4, <2>5
<1>19. ASSUME c = Len(document)
       PROVE  next = <<>>
  <2> SUFFICES ASSUME next # <<>> PROVE FALSE
    OBVIOUS
  <2> QED
    BY <1>1, <1>15, <1>17, <1>19
<1>20. Frontier(next)
  <2>1. ASSUME next # <<>>, NEW m \in Nodes, m >= next[1], Parent(m) < next[1]
        PROVE  \E node \in ToSet(next) : Parent(m) = Parent(node) /\ m >= node
    <3>1. next[1] = c + 1
      BY <1>17, <1>18, <1>19, <2>1
    <3>2. m > c /\ Parent(m) <= c
      BY <1>1, <1>3, <2>1, <3>1
    <3> QED
      BY <1>16, <3>2
  <2> QED
    BY <1>14, <2>1 DEF Frontier
<1> QED
  BY <1>3, <1>18, <1>19, <1>20, Zenon DEF next, both, child, sibling, rest, c

(* The program with the library beside it.                                 *)
DirectSpec == ChannelInit /\ DirectInit /\ [][DirectStep]_<<channelVars, directVars>>

(* What can be given: the file's commands and SV.                          *)
Issuable == Command \cup {"SV"}
CommandElements == {node \in Nodes : document[node].name \in Command}

(* The commands of the document's first nodes come first, in their order.  *)
Took(commands, last) ==
  /\ Len(commands) >= Rank(CommandElements, last)
  /\ \A node \in 1 .. last :
       node \in CommandElements => commands[Rank(CommandElements, node)] = document[node].name
TookOnly(commands, last) ==
  Took(commands, last) /\ Len(commands) = Rank(CommandElements, last)

(* The last node parsXmlNode has come to, and the last that counts.        *)
Reached(stack) == IF stack = <<>> THEN Len(document) ELSE Head(stack) - 1
OfFile == IF Refused THEN 0 ELSE Len(document)

(* What the program has given at each place.                               *)
DirectInv ==
  /\ directAt \in {"init", "failed", "config", "crashed", "parse", "terminated"}
                    \cup {"repeat", "keys", "shutdown", "exit"}
  /\ document \in Documents /\ issued \in Seq(Issuable)
  /\ directAt \in {"init", "failed", "config", "crashed"} => issued = <<>>
  /\ directAt \in {"parse", "terminated"} =>
       ~Refused /\ Frontier(children) /\ TookOnly(issued, Reached(children))
  /\ (directAt = "parse" /\ bThrowUnknownTMC200CommandException) \/ directAt = "terminated"
     => \A node \in 1 .. Reached(children) : ~Unknown(node)
  /\ directAt \in {"repeat", "keys", "shutdown", "exit"} =>
       /\ Took(issued, OfFile)
       /\ \A i \in Rank(CommandElements, OfFile) + 1 .. Len(issued) : issued[i] = "SV"

(* Each command element of the document has a place among the commands.    *)
LEMMA TookRanks ==
  ASSUME document \in Documents, NEW last \in 0 .. Len(document)
  PROVE  /\ last \in Nat /\ Rank(CommandElements, last) \in Nat
         /\ \A node \in 1 .. last :
              node \in CommandElements => Rank(CommandElements, node) \in 1 .. Rank(CommandElements, last)
<1>1. last \in Nat
  BY DocumentIs
<1> QED
  BY <1>1, RankSteps

(* The first child of the document is its first node, and all the others   *)
(* hang on it.                                                             *)
LEMMA RootIsFirst ==
  ASSUME document \in Documents, document # <<>>
  PROVE  FirstChild(0) = <<1>> /\ Frontier(<<1>>)
<1>1. /\ Len(document) \in Nat /\ Nodes = 1 .. Len(document) /\ Len(document) # 0
      /\ \A i \in Nodes : Parent(i) \in Nat /\ Parent(i) < i
  BY DocumentIs
<1>2. 1 \in Nodes /\ Parent(1) = 0
  <2>1. 1 \in Nodes
    BY <1>1
  <2>2. Parent(1) \in Nat /\ Parent(1) < 1
    BY <1>1, <2>1
  <2> QED
    BY <2>1, <2>2
<1>3. Children(0) \in SUBSET Nat /\ 1 \in Children(0)
  BY <1>1, <1>2 DEF Children, Parent
<1>4. Min(Children(0)) = 1
  <2> DEFINE first == Min(Children(0))
  <2>1. first \in Children(0) /\ first <= 1
    BY <1>3, MinIs
  <2> HIDE DEF first
  <2>2. first \in Nodes
    BY <2>1 DEF Children
  <2>3. first = 1
    BY <1>1, <2>1, <2>2
  <2> QED
    BY <2>3 DEF first
<1>5. FirstChild(0) = <<1>>
  BY <1>3, <1>4, Zenon DEF FirstChild
<1> DEFINE s == <<1>>
<1>6. s \in Seq(Nodes) /\ Stacked(s) /\ ToSet(s) = {1} /\ s[1] = 1
  BY <1>2, AtMostOneStacked
<1> HIDE DEF s
<1>7. Frontier(s)
  <2> SUFFICES ASSUME NEW m \in Nodes, Parent(m) < 1
               PROVE  \E node \in ToSet(s) : Parent(m) = Parent(node) /\ m >= node
    BY <1>6 DEF Frontier
  <2>1. Parent(m) = 0 /\ m >= 1
    BY <1>1
  <2> QED
    BY <1>2, <1>6, <2>1
<1> QED
  BY <1>5, <1>7 DEF s

(* A command of the next node is the next command.                         *)
LEMMA TakeNode ==
  ASSUME document \in Documents, NEW commands \in Seq(Issuable), NEW node \in Nodes,
         TookOnly(commands, node - 1), NEW after \in Seq(Issuable),
         after = IF document[node].name \in Command THEN Append(commands, document[node].name)
                 ELSE commands
  PROVE  TookOnly(after, node)
<1> DEFINE rank(k) == Rank(CommandElements, k)
<1>1. node \in Nat /\ node # 0 /\ node - 1 \in Nat /\ node - 1 \in 0 .. Len(document)
  BY DocumentIs
<1>2. /\ rank(node) = rank(node - 1) + (IF node \in CommandElements THEN 1 ELSE 0)
      /\ \A k \in 1 .. node - 1 : k \in CommandElements => rank(k) \in 1 .. rank(node - 1)
      /\ rank(node - 1) \in Nat /\ rank(node) \in Nat
  BY <1>1, RankSteps
<1>3. node \in CommandElements <=> document[node].name \in Command
  BY DEF CommandElements
<1> HIDE DEF rank
<1>4. /\ Len(commands) = rank(node - 1)
      /\ \A k \in 1 .. node - 1 : k \in CommandElements => commands[rank(k)] = document[k].name
  BY DEF TookOnly, Took, rank
<1>5. CASE node \notin CommandElements
  <2>1. after = commands /\ \A k \in 1 .. node : k \in CommandElements => k \in 1 .. node - 1
    BY <1>1, <1>3, <1>5
  <2> QED
    BY <1>2, <1>4, <1>5, <2>1 DEF TookOnly, Took, rank
<1>6. CASE node \in CommandElements
  <2> DEFINE name == document[node].name
  <2>1. name \in Issuable /\ after = Append(commands, name)
    BY <1>3, <1>6 DEF Issuable
  <2> HIDE DEF name
  <2>2. /\ Len(after) = Len(commands) + 1 /\ after[Len(commands) + 1] = name
        /\ \A i \in 1 .. Len(commands) : after[i] = commands[i]
    BY <2>1, AppendProperties
  <2>3. ASSUME NEW k \in 1 .. node, k \in CommandElements
        PROVE  after[rank(k)] = document[k].name
    <3>1. k \in 1 .. node - 1 \/ k = node
      BY <1>1
    <3>2. CASE k \in 1 .. node - 1
      BY <1>2, <1>4, <2>2, <2>3, <3>2
    <3>3. CASE k = node
      BY <1>2, <1>4, <1>6, <2>2, <3>3 DEF name
    <3> QED
      BY <3>1, <3>2, <3>3
  <2>4. Len(after) = rank(node) /\ Len(after) >= rank(node)
    BY <1>2, <1>4, <1>6, <2>2
  <2> QED
    BY <2>3, <2>4 DEF TookOnly, Took, rank
<1> QED
  BY <1>5, <1>6

(* Commands given later leave those of the file where they are.            *)
LEMMA TakeLater ==
  ASSUME document \in Documents, NEW commands \in Seq(Issuable), NEW last \in 0 .. Len(document),
         Took(commands, last),
         \A i \in Rank(CommandElements, last) + 1 .. Len(commands) : commands[i] = "SV",
         NEW after, after = Append(commands, "SV")
  PROVE  /\ after \in Seq(Issuable) /\ Took(after, last)
         /\ \A i \in Rank(CommandElements, last) + 1 .. Len(after) : after[i] = "SV"
<1>1. /\ last \in Nat /\ Rank(CommandElements, last) \in Nat
      /\ \A node \in 1 .. last :
           node \in CommandElements => Rank(CommandElements, node) \in 1 .. Rank(CommandElements, last)
  BY TookRanks
<1>2. /\ after \in Seq(Issuable) /\ Len(after) = Len(commands) + 1 /\ after[Len(commands) + 1] = "SV"
      /\ \A i \in 1 .. Len(commands) : after[i] = commands[i]
      /\ Len(commands) \in Nat
  <2>1. "SV" \in Issuable
    BY DEF Issuable
  <2> QED
    BY <2>1, AppendProperties, LenProperties
<1>3. Len(commands) >= Rank(CommandElements, last)
  BY DEF Took
<1>4. Took(after, last)
  <2>1. ASSUME NEW node \in 1 .. last, node \in CommandElements
        PROVE  after[Rank(CommandElements, node)] = document[node].name
    <3>1. Rank(CommandElements, node) \in 1 .. Len(commands)
      BY <1>1, <1>2, <1>3, <2>1
    <3> QED
      BY <1>2, <2>1, <3>1 DEF Took
  <2> QED
    BY <1>1, <1>2, <1>3, <2>1 DEF Took
<1>5. ASSUME NEW i \in Rank(CommandElements, last) + 1 .. Len(after)
      PROVE  after[i] = "SV"
  <2>1. i = Len(commands) + 1 \/ (i \in 1 .. Len(commands) /\ i \in Rank(CommandElements, last) + 1 .. Len(commands))
    BY <1>1, <1>2
  <2> QED
    BY <1>2, <2>1
<1> QED
  BY <1>2, <1>4, <1>5

(* At first nothing has been given.                                        *)
LEMMA DirectInvInit ==
  ASSUME ChannelInit, DirectInit PROVE DirectInv
<1>1. directAt = "init" /\ issued = <<>> /\ document \in Documents
  BY DEF ChannelInit, DirectInit
<1>2. <<>> \in Seq(Issuable)
  BY EmptySeq
<1> QED
  BY <1>1, <1>2 DEF DirectInv

(* Every step of the program and of the library keeps this.                *)
LEMMA DirectInvNext ==
  ASSUME DirectInv, [DirectStep]_<<channelVars, directVars>>
  PROVE  DirectInv'
<1> DEFINE throws == bThrowUnknownTMC200CommandException
<1>1. document' = document /\ throws' = throws
  BY DEF DirectStep, InitDirect, sendConfigurationFromFile, parsXmlNode, Configured, SendRepetitive,
         Key, ShutdownDirect, DirectLibraryStep, directVars
<1>2. /\ directAt \in {"init", "failed", "config", "crashed", "parse", "terminated"}
                        \cup {"repeat", "keys", "shutdown", "exit"}
      /\ document \in Documents /\ issued \in Seq(Issuable)
      /\ directAt \in {"init", "failed", "config", "crashed"} => issued = <<>>
      /\ directAt \in {"parse", "terminated"} =>
           ~Refused /\ Frontier(children) /\ TookOnly(issued, Reached(children))
      /\ (directAt = "parse" /\ throws) \/ directAt = "terminated"
           => \A node \in 1 .. Reached(children) : ~Unknown(node)
      /\ directAt \in {"repeat", "keys", "shutdown", "exit"} =>
           /\ Took(issued, OfFile)
           /\ \A i \in Rank(CommandElements, OfFile) + 1 .. Len(issued) : issued[i] = "SV"
  BY DEF DirectInv
<1>3. /\ Refused' = Refused /\ CommandElements' = CommandElements /\ OfFile' = OfFile
      /\ \A node : Unknown(node)' = Unknown(node)
  BY <1>1 DEF Refused, RootElement, Children, Nodes, IsElement, CommandElements, OfFile, Unknown
<1> SUFFICES
      /\ directAt' \in {"init", "failed", "config", "crashed", "parse", "terminated"}
                        \cup {"repeat", "keys", "shutdown", "exit"}
      /\ issued' \in Seq(Issuable)
      /\ directAt' \in {"init", "failed", "config", "crashed"} => issued' = <<>>
      /\ directAt' \in {"parse", "terminated"} =>
           ~Refused /\ Frontier(children') /\ TookOnly(issued', Reached(children'))
      /\ (directAt' = "parse" /\ throws) \/ directAt' = "terminated"
           => \A node \in 1 .. Reached(children') : ~Unknown(node)
      /\ directAt' \in {"repeat", "keys", "shutdown", "exit"} =>
           /\ Took(issued', OfFile)
           /\ \A i \in Rank(CommandElements, OfFile) + 1 .. Len(issued') : issued'[i] = "SV"
  BY <1>1, <1>2, <1>3 DEF DirectInv, Frontier, Stacked, Above, Parent, Nodes, TookOnly, Took, Rank, Reached
<1>4. CASE InitDirect
  <2>1. directAt = "init" /\ directAt' \in {"config", "failed"} /\ issued' = issued
    BY <1>4 DEF InitDirect, channelVars
  <2> QED
    BY <1>2, <2>1
<1>5. CASE sendConfigurationFromFile
  <2>1. directAt = "config" /\ issued' = issued /\ issued = <<>>
    BY <1>2, <1>5 DEF sendConfigurationFromFile, channelVars
  <2>2. Len(document) \in Nat
    BY <1>2, DocumentIs
  <2>3. Rank(CommandElements, 0) = 0 /\ 1 .. 0 = {} /\ Len(issued) = 0
    BY <2>1, RankSteps
  <2>4. TookOnly(issued, 0)
    BY <2>3 DEF TookOnly, Took
  <2>7. CASE Rootless
    <3>1. directAt' = "crashed"
      BY <1>5, <2>7 DEF sendConfigurationFromFile
    <3> QED
      BY <1>2, <2>1, <3>1
  <2>5. CASE ~Rootless /\ Refused
    <3>1. directAt' = "repeat" /\ OfFile = 0
      BY <1>5, <2>5 DEF sendConfigurationFromFile, OfFile
    <3>2. \A i \in 0 + 1 .. 0 : FALSE
      OBVIOUS
    <3>3. \A i \in Rank(CommandElements, OfFile) + 1 .. Len(issued') : issued'[i] = "SV"
      BY <2>1, <2>3, <3>1, <3>2
    <3> QED
      BY <1>2, <2>1, <2>4, <3>1, <3>3 DEF TookOnly
  <2>6. CASE ~Rootless /\ ~Refused
    <3>1. directAt' = "parse" /\ children' = FirstChild(0) /\ document # <<>>
      BY <1>5, <2>6 DEF sendConfigurationFromFile, Refused
    <3> DEFINE s == <<1>>
    <3>2. children' = s /\ Frontier(s)
      BY <1>2, <3>1, RootIsFirst
    <3>3. s # <<>> /\ Head(s) = 1
      OBVIOUS
    <3> HIDE DEF s
    <3>4. Reached(children') = 0
      BY <3>2, <3>3 DEF Reached
    <3> QED
      BY <1>2, <2>1, <2>3, <2>4, <2>6, <3>1, <3>2, <3>4
  <2> QED
    BY <2>5, <2>6, <2>7
<1>6. CASE parsXmlNode
  <2> DEFINE node == Head(children)
             name == document[node].name
             next == FirstChild(node) \o NextSibling(node) \o Tail(children)
  <2>1. /\ directAt = "parse" /\ children # <<>>
        /\ IF name \in Command THEN Accept(name) ELSE UNCHANGED channelVars
        /\ IF Unknown(node) /\ throws
           THEN directAt' = "terminated" /\ UNCHANGED children
           ELSE UNCHANGED directAt /\ children' = next
    BY <1>6, Zenon DEF parsXmlNode
  <2>2. ~Refused /\ Frontier(children) /\ TookOnly(issued, Reached(children))
    BY <1>2, <2>1
  <2>3. Reached(children) = node - 1
    BY <2>1 DEF Reached
  <2>4. /\ node \in Nodes /\ Frontier(next)
        /\ node = Len(document) => next = <<>>
        /\ node # Len(document) => next # <<>> /\ Head(next) = node + 1
    BY <1>2, <2>1, <2>2, NextNode
  <2>5. Reached(next) = node
    <3>1. node \in Int
      BY <1>2, <2>4, DocumentIs
    <3> HIDE DEF node, next
    <3> QED
      BY <2>4, <3>1 DEF Reached
  <2> HIDE DEF node, next
  <2>6. issued' = IF name \in Command THEN Append(issued, name) ELSE issued
    BY <2>1 DEF Accept, channelVars
  <2>7. issued' \in Seq(Issuable)
    <3>1. name \in Command => name \in Issuable
      BY DEF Issuable
    <3> HIDE DEF name
    <3> QED
      BY <1>2, <2>6, <3>1, AppendProperties
  <2>8. TookOnly(issued', node)
    BY <1>2, <2>2, <2>3, <2>4, <2>6, <2>7, TakeNode
  <2>9. CASE Unknown(node) /\ throws
    <3>1. directAt' = "terminated" /\ children' = children
      BY <2>1, <2>9
    <3>2. issued' = issued
      BY <2>6, <2>9 DEF Unknown
    <3>3. \A n \in 1 .. Reached(children) : ~Unknown(n)
      BY <1>2, <2>1, <2>9
    <3> QED
      BY <2>2, <2>7, <3>1, <3>2, <3>3
  <2>10. CASE ~(Unknown(node) /\ throws)
    <3>1. directAt' = "parse" /\ children' = next
      BY <2>1, <2>10
    <3>2. throws => \A n \in 1 .. node : ~Unknown(n)
      <4>1. \A n \in 1 .. node : n \in 1 .. node - 1 \/ n = node
        BY <1>2, <2>4, DocumentIs
      <4>2. throws => \A n \in 1 .. node - 1 : ~Unknown(n)
        BY <1>2, <2>1, <2>3
      <4> QED
        BY <2>10, <4>1, <4>2
    <3> QED
      BY <2>2, <2>4, <2>5, <2>7, <2>8, <3>1, <3>2
  <2> QED
    BY <2>9, <2>10
<1>7. CASE Configured
  <2>1. directAt = "parse" /\ children = <<>> /\ directAt' = "repeat" /\ issued' = issued
    BY <1>7 DEF Configured, channelVars
  <2>2. ~Refused /\ TookOnly(issued, Len(document)) /\ OfFile = Len(document)
    BY <1>2, <2>1 DEF Reached, OfFile
  <2>3. Rank(CommandElements, OfFile) \in Nat
    BY <1>2, <2>2, DocumentIs, RankSteps
  <2>4. \A i \in Rank(CommandElements, OfFile) + 1 .. Rank(CommandElements, OfFile) : FALSE
    BY <2>3
  <2> QED
    BY <1>2, <2>1, <2>2, <2>4 DEF TookOnly
<1>8. CASE SendRepetitive
  <2>1. directAt = "repeat" /\ directAt' = "keys" /\ issued' = issued
    BY <1>8 DEF SendRepetitive, Want
  <2> QED
    BY <1>2, <2>1
<1>9. CASE Key
  <2>1. \/ directAt = "keys" /\ directAt' = "keys" /\ issued' = Append(issued, "SV")
        \/ directAt = "keys" /\ directAt' = "shutdown" /\ issued' = issued
    BY <1>9 DEF Key, Accept, DirectCommand, DirectFunctions, channelVars
  <2>2. CASE directAt = "keys" /\ directAt' = "keys" /\ issued' = Append(issued, "SV")
    <3>1. OfFile \in 0 .. Len(document)
      BY <1>2, DocumentIs DEF OfFile
    <3>2. Took(issued, OfFile) /\ \A i \in Rank(CommandElements, OfFile) + 1 .. Len(issued) : issued[i] = "SV"
      BY <1>2, <2>2
    <3>3. /\ issued' \in Seq(Issuable) /\ Took(issued', OfFile)
          /\ \A i \in Rank(CommandElements, OfFile) + 1 .. Len(issued') : issued'[i] = "SV"
      BY <1>2, <2>2, <3>1, <3>2, TakeLater
    <3> QED
      BY <2>2, <3>3
  <2>3. CASE directAt = "keys" /\ directAt' = "shutdown" /\ issued' = issued
    BY <1>2, <2>3
  <2> QED
    BY <2>1, <2>2, <2>3
<1>10. CASE ShutdownDirect
  <2>1. directAt = "shutdown" /\ directAt' = "exit" /\ issued' = issued
    BY <1>10 DEF ShutdownDirect, ShutDown, Restart
  <2> QED
    BY <1>2, <2>1
<1>11. CASE DirectLibraryStep
  <2>1. issued' = issued /\ directAt' = directAt /\ children' = children
    BY <1>11 DEF DirectLibraryStep, LibraryStep, Transmit, Repeat, Complete, Deliver, directVars
  <2> QED
    BY <1>2, <2>1
<1>12. CASE UNCHANGED <<channelVars, directVars>>
  <2>1. issued' = issued /\ directAt' = directAt /\ children' = children
    BY <1>12 DEF channelVars, directVars
  <2> QED
    BY <1>2, <2>1
<1> QED
  BY <1>4, <1>5, <1>6, <1>7, <1>8, <1>9, <1>10, <1>11, <1>12 DEF DirectStep

(* The configuration is accepted in document order, none of its commands   *)
(* left out, before any command of the keyboard, for any document, any     *)
(* names and any number of keys; an unknown element that is thrown leaves  *)
(* exactly the commands before it (tmc200cfgxmlparser.cpp:14-91).          *)
THEOREM ConfigurationInOrder == DirectSpec => []ConfigInDocumentOrder
<1>1. DirectInv => ConfigInDocumentOrder
  <2> SUFFICES ASSUME DirectInv PROVE ConfigInDocumentOrder
    OBVIOUS
  <2>1. \A last : CommandNodes(last) = {n \in 1 .. last : document[n].name \in Command}
    BY DEF CommandNodes
  <2>2. document \in Documents /\ Len(document) \in Nat /\ Nodes = 1 .. Len(document)
    BY DocumentIs DEF DirectInv
  <2>3. ASSUME NEW last \in 0 .. Len(document)
        PROVE  /\ Cardinality(CommandNodes(last)) = Rank(CommandElements, last)
               /\ Took(issued, last) => AcceptedUpTo(last)
    <3>1. CommandNodes(last) = {j \in 1 .. last : j \in CommandElements}
      BY <2>2 DEF CommandNodes, CommandElements
    <3>2. Cardinality(CommandNodes(last)) = Rank(CommandElements, last)
      BY <3>1, Zenon DEF Rank
    <3>3. ASSUME Took(issued, last), NEW node \in CommandNodes(last)
          PROVE  issued[Cardinality({n \in CommandNodes(last) : n <= node})] = document[node].name
      <4>1. node \in 1 .. last /\ node \in CommandElements
        BY <3>1
      <4>2. \A n : n \in 1 .. last /\ n <= node <=> n \in 1 .. node
        BY <2>2, <4>1
      <4>3. {n \in CommandNodes(last) : n <= node} = {j \in 1 .. node : j \in CommandElements}
        BY <3>1, <4>2
      <4>4. Rank(CommandElements, node) = Cardinality({n \in CommandNodes(last) : n <= node})
        BY <4>3, Zenon DEF Rank
      <4>5. issued[Rank(CommandElements, node)] = document[node].name
        BY <3>3, <4>1 DEF Took
      <4> QED
        BY <4>4, <4>5, Zenon
    <3>4. Took(issued, last) => Len(issued) >= Cardinality(CommandNodes(last))
      BY <3>2 DEF Took
    <3> QED
      BY <3>2, <3>3, <3>4, Zenon DEF AcceptedUpTo
  <2>4. directAt \in {"parse", "terminated"} =>
          /\ Reached(children) \in 0 .. Len(document)
          /\ AcceptedUpTo(Reached(children))
          /\ Len(issued) = Cardinality(CommandNodes(Reached(children)))
    <3> SUFFICES ASSUME directAt \in {"parse", "terminated"}
                 PROVE  /\ Reached(children) \in 0 .. Len(document)
                        /\ AcceptedUpTo(Reached(children))
                        /\ Len(issued) = Cardinality(CommandNodes(Reached(children)))
      OBVIOUS
    <3>1. Frontier(children) /\ TookOnly(issued, Reached(children))
      BY DEF DirectInv
    <3>2. Reached(children) \in 0 .. Len(document)
      <4>1. CASE children = <<>>
        BY <2>2, <4>1 DEF Reached
      <4>2. CASE children # <<>>
        <5>1. Head(children) \in Nodes
          BY <2>2, <3>1, <4>2, NextNode
        <5> QED
          BY <2>2, <4>2, <5>1 DEF Reached
      <4> QED
        BY <4>1, <4>2
    <3> QED
      BY <2>3, <3>1, <3>2 DEF TookOnly
  <2>5. directAt \in {"repeat", "keys", "shutdown", "exit"} =>
          /\ AcceptedUpTo(OfFile)
          /\ \A i \in Cardinality(CommandNodes(OfFile)) + 1 .. Len(issued) : issued[i] = "SV"
    <3>1. OfFile \in 0 .. Len(document)
      BY <2>2 DEF OfFile
    <3> QED
      BY <2>3, <3>1 DEF DirectInv
  <2>6. /\ directAt \in {"failed", "config", "crashed"} => issued = <<>>
        /\ directAt = "terminated" => \A node \in 1 .. Reached(children) : ~Unknown(node)
    BY DEF DirectInv
  <2> QED
    BY <2>4, <2>5, <2>6, Zenon DEF ConfigInDocumentOrder, Reached, OfFile
<1>2. ChannelInit /\ DirectInit => DirectInv
  BY DirectInvInit
<1>3. DirectInv /\ [DirectStep]_<<channelVars, directVars>> => DirectInv'
  BY DirectInvNext
<1> QED
  BY <1>1, <1>2, <1>3, PTL DEF DirectSpec

=============================================================================
