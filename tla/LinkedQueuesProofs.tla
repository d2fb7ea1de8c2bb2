------------------------- MODULE LinkedQueuesProofs -------------------------
(***************************************************************************)
(* A queue of linked items is the atomic queue of Queues: no interleaving  *)
(* of the assignments of any number of producers and consumers, over any   *)
(* heap, loses an item or drags one from one list into the other.          *)
(***************************************************************************)
EXTENDS LinkedQueues, SequenceLemmas, FiniteSetTheorems

LinkSpec == LinkInit /\ [][LinkStep]_linkVars

Pointer == HeapBlocks \cup {NULL}
FirstOf(s) == IF s = <<>> THEN NULL ELSE s[1]

(* The links spell s from a head, without repetition.                      *)
Spells(s, head, next) ==
  /\ s \in Seq(HeapBlocks) /\ IsInjective(s)
  /\ head = FirstOf(s)
  /\ \A i \in 1 .. Len(s) : next[s[i]] = IF i = Len(s) THEN NULL ELSE s[i + 1]

(* Where a client is within a critical section, and of which kind.         *)
Section ==
  {"getBody", "getAdvance", "getUnlock", "addBody", "walk", "count", "popBody", "popAdvance",
   "discount", "recycleBody", "recycleHead", "unlock"}
FullHanded ==
  {"getAdvance", "getUnlock", "clear", "add", "addBody", "walk", "count", "popAdvance", "discount",
   "unlink", "recycle", "recycleBody", "recycleHead"}
EmptyHanded == {"get", "getBody", "pop", "popBody", "size"}
ConsumerLabels == {"pop", "popBody", "popAdvance", "discount", "size"}
Labels == Section \cup FullHanded \cup EmptyHanded \cup {"outside"}

LinkTypeOK ==
  /\ ptQueue \in Pointer /\ ptFreeItems \in Pointer
  /\ iQueueSize \in Int
  /\ ptNext \in [HeapBlocks -> Pointer]
  /\ allocated \subseteq HeapBlocks
  /\ at \in [Clients -> Labels]
  /\ item \in [Clients -> Pointer] /\ ptTmp \in [Clients -> Pointer]

(* The mutex belongs to the client in a critical section.                  *)
MutexInv == \A c \in Clients : tQueueMutex = c <=> at[c] \in Section

(* What a client holds, and with what link: a producer that is to add an   *)
(* item has cleared the link, and so has a client that is to recycle one.  *)
Linkless(c) ==
  \/ at[c] \in {"add", "addBody", "walk", "recycle", "recycleBody"}
  \/ at[c] = "outside" /\ c \in Producers /\ item[c] # NULL
Hand(c) ==
  /\ at[c] \in FullHanded => item[c] # NULL
  /\ at[c] \in EmptyHanded => item[c] = NULL
  /\ c \in Producers => at[c] \notin ConsumerLabels /\ (at[c] = "unlock" => item[c] = NULL)
  /\ item[c] # NULL => item[c] \in allocated
  /\ Linkless(c) => ptNext[item[c]] = NULL

HandsInv ==
  /\ \A c \in Clients : Hand(c)
  /\ \A c, d \in Clients : c # d /\ item[c] = item[d] => item[c] = NULL

(* The two lists, q and f, and where in them each client is.               *)
Apart(c, q, f) ==
  /\ at[c] \notin {"getAdvance", "popAdvance", "count"} /\ item[c] # NULL
       => item[c] \notin ToSet(q) /\ item[c] \notin ToSet(f)
  /\ at[c] = "getAdvance" => f # <<>> /\ item[c] = f[1]
  /\ at[c] = "popAdvance" => q # <<>> /\ item[c] = q[1]
  /\ at[c] = "walk" => ptTmp[c] \in ToSet(q)
  /\ at[c] = "recycleHead" => f # <<>> /\ ptNext[item[c]] = f[1]

Lists(q, f) ==
  /\ Spells(q, ptQueue, ptNext) /\ Spells(f, ptFreeItems, ptNext)
  /\ ToSet(q) \cap ToSet(f) = {}
  /\ ToSet(q) \cup ToSet(f) \subseteq allocated
  /\ \A c \in Clients : Apart(c, q, f)

LinkInv == LinkTypeOK /\ MutexInv /\ HandsInv /\ \E q, f \in Seq(HeapBlocks) : Lists(q, f)

-----------------------------------------------------------------------------
(* Chain finds the sequence that the links spell: its pointers are the     *)
(* elements, and NULL from there on.                                       *)
LEMMA FitsHeap ==
  ASSUME NEW s, NEW head, NEW next, Spells(s, head, next)
  PROVE  /\ Len(s) \in Nat /\ Cardinality(HeapBlocks) \in Nat /\ Len(s) <= Cardinality(HeapBlocks)
         /\ DOMAIN s = 1 .. Len(s) /\ s = [n \in 1 .. Len(s) |-> s[n]]
         /\ \A i \in 1 .. Len(s) : s[i] \in HeapBlocks /\ s[i] # NULL
<1>1. /\ Len(s) \in Nat /\ DOMAIN s = 1 .. Len(s) /\ s = [n \in 1 .. Len(s) |-> s[n]]
      /\ \A i \in 1 .. Len(s) : s[i] \in HeapBlocks
  BY LenProperties, ElementOfSeq DEF Spells
<1>2. s \in Injection(1 .. Len(s), HeapBlocks)
  BY <1>1 DEF Spells, IsInjective, Injection
<1>3. Cardinality(1 .. Len(s)) <= Cardinality(HeapBlocks)
  BY <1>2, ItemsAssumption, FS_Injection
<1>4. Cardinality(1 .. Len(s)) = Len(s)
  <2>1. \A k \in Nat : Cardinality(1 .. k) = IF 1 > k THEN 0 ELSE k - 1 + 1
    BY FS_Interval
  <2> QED
    BY <1>1, <2>1
<1>5. Cardinality(HeapBlocks) \in Nat
  BY ItemsAssumption, FS_CardinalityType
<1> QED
  BY <1>1, <1>3, <1>4, <1>5, ItemsAssumption

LEMMA ChainIs ==
  ASSUME NEW s, NEW head, NEW next, Spells(s, head, next)
  PROVE  Chain(head, next) = s
<1> DEFINE N == Cardinality(HeapBlocks)
           Follows(f) == [n \in 1 .. N |-> IF n = 1 THEN head
                                           ELSE IF f[n - 1] = NULL THEN NULL ELSE next[f[n - 1]]]
           IsPointer(f) == f = Follows(f)
           spelt == [n \in 1 .. N |-> IF n <= Len(s) THEN s[n] ELSE NULL]
           pointer == CHOOSE f : IsPointer(f)
           Found(f) == [n \in {m \in DOMAIN f : f[m] # NULL} |-> f[n]]
<1>1. /\ Len(s) \in Nat /\ N \in Nat /\ Len(s) <= N
      /\ s = [n \in 1 .. Len(s) |-> s[n]]
      /\ \A i \in 1 .. Len(s) : s[i] # NULL
      /\ \A i \in 1 .. Len(s) : next[s[i]] = IF i = Len(s) THEN NULL ELSE s[i + 1]
      /\ head = IF Len(s) = 0 THEN NULL ELSE s[1]
  <2>1. Len(s) = 0 <=> s = <<>>
    BY EmptySeq DEF Spells
  <2> QED
    BY <2>1, FitsHeap DEF Spells, FirstOf
<1> HIDE DEF N
<1>2. ASSUME NEW n \in 1 .. N PROVE spelt[n] = Follows(spelt)[n]
  <2>1. CASE n = 1
    BY <1>1, <2>1
  <2>2. CASE n # 1 /\ n - 1 <= Len(s)
    <3>1. n - 1 \in 1 .. N /\ n - 1 \in 1 .. Len(s) /\ (n - 1) + 1 = n
      BY <1>1, <2>2
    <3>2. spelt[n - 1] = s[n - 1] /\ spelt[n - 1] # NULL
      BY <1>1, <3>1
    <3>3. Follows(spelt)[n] = next[s[n - 1]]
      BY <2>2, <3>2
    <3>4. next[s[n - 1]] = IF n - 1 = Len(s) THEN NULL ELSE s[n]
      BY <1>1, <3>1
    <3> QED
      BY <1>1, <3>1, <3>3, <3>4
  <2>3. CASE n # 1 /\ ~(n - 1 <= Len(s))
    BY <1>1, <2>3
  <2> QED
    BY <2>1, <2>2, <2>3
<1>3. IsPointer(spelt)
  BY <1>2
<1>4. Chain(head, next) = Found(pointer)
  BY Zenon DEF Chain, N
<1>5. IsPointer(pointer)
  <2> HIDE DEF IsPointer
  <2> QED
    BY <1>3, Zenon
<1> HIDE DEF pointer
<1>6. DOMAIN pointer = 1 .. N
      /\ \A n \in 1 .. N : pointer[n] = IF n = 1 THEN head
                             ELSE IF pointer[n - 1] = NULL THEN NULL ELSE next[pointer[n - 1]]
  BY <1>5
<1>7. DOMAIN spelt = 1 .. N
      /\ \A n \in 1 .. N : spelt[n] = IF n = 1 THEN head
                             ELSE IF spelt[n - 1] = NULL THEN NULL ELSE next[spelt[n - 1]]
  BY <1>3
<1> HIDE DEF spelt
<1>8. \A n \in 1 .. N : pointer[n] = spelt[n]
  <2> DEFINE Other == {n \in 1 .. N : pointer[n] # spelt[n]}
  <2> SUFFICES ASSUME Other # {} PROVE FALSE
    OBVIOUS
  <2>1. Other \subseteq Nat
    BY <1>1
  <2>2. PICK n \in Other : \A m \in Other : n <= m
    BY <2>1, LeastNumber
  <2>3. n # 1
    BY <1>6, <1>7, <2>2
  <2>4. n - 1 \in 1 .. N /\ n - 1 \notin Other
    BY <1>1, <2>2, <2>3
  <2>5. pointer[n - 1] = spelt[n - 1]
    BY <2>4
  <2>6. /\ n \in 1 .. N
        /\ pointer[n] = IF pointer[n - 1] = NULL THEN NULL ELSE next[pointer[n - 1]]
    BY <1>6, <2>2, <2>3
  <2>7. spelt[n] = IF spelt[n - 1] = NULL THEN NULL ELSE next[spelt[n - 1]]
    BY <1>7, <2>3, <2>6
  <2>8. pointer[n] = spelt[n]
    BY <2>5, <2>6, <2>7
  <2> QED
    BY <2>2, <2>8
<1>9. {m \in DOMAIN pointer : pointer[m] # NULL} = 1 .. Len(s)
      /\ \A n \in 1 .. Len(s) : pointer[n] = s[n]
  BY <1>1, <1>6, <1>8 DEF spelt
<1>10. Found(pointer) = [n \in 1 .. Len(s) |-> s[n]]
  BY <1>9
<1> QED
  BY <1>1, <1>4, <1>10

-----------------------------------------------------------------------------
(* What an assignment to a head or a link does to what is spelt.           *)
LEMMA SpellsNothing ==
  ASSUME NEW next
  PROVE  Spells(<<>>, NULL, next)
  BY EmptySeq DEF Spells, FirstOf, IsInjective

LEMMA SpeltHead ==
  ASSUME NEW s, NEW head, NEW next, Spells(s, head, next)
  PROVE  /\ head = NULL <=> s = <<>>
         /\ s # <<>> => /\ head = s[1] /\ head \in HeapBlocks /\ head \in ToSet(s)
                        /\ Head(s) = head /\ Len(s) >= 1
<1>1. s \in Seq(HeapBlocks) /\ head = FirstOf(s) /\ Len(s) \in Nat /\ DOMAIN s = 1 .. Len(s)
      /\ (Len(s) = 0 <=> s = <<>>)
  BY LenProperties, EmptySeq DEF Spells
<1>2. CASE s = <<>>
  BY <1>1, <1>2 DEF FirstOf
<1>3. CASE s # <<>>
  <2>1. head = s[1] /\ 1 \in 1 .. Len(s)
    BY <1>1, <1>3 DEF FirstOf
  <2>2. s[1] \in HeapBlocks /\ s[1] # NULL
    BY <2>1, FitsHeap
  <2>3. Head(s) = s[1]
    BY <1>1, <1>3, HeadTailProperties
  <2> QED
    BY <1>1, <1>3, <2>1, <2>2, <2>3 DEF ToSet
<1> QED
  BY <1>2, <1>3

LEMMA SpellsSame ==
  ASSUME NEW s, NEW head, NEW next, NEW new, Spells(s, head, next),
         \A x \in ToSet(s) : new[x] = next[x]
  PROVE  Spells(s, head, new)
<1>1. \A i \in 1 .. Len(s) : s[i] \in ToSet(s)
  BY FitsHeap DEF ToSet
<1> QED
  BY <1>1 DEF Spells

LEMMA SpellsTail ==
  ASSUME NEW s, NEW head, NEW next, Spells(s, head, next), s # <<>>
  PROVE  Spells(Tail(s), next[head], next) /\ ToSet(Tail(s)) = ToSet(s) \ {head}
<1> DEFINE t == Tail(s)
<1>1. /\ t \in Seq(HeapBlocks) /\ Len(t) = Len(s) - 1 /\ Len(s) \in Nat \ {0}
      /\ \A i \in 1 .. Len(s) - 1 : t[i] = s[i + 1]
      /\ (t = <<>> <=> Len(s) = 1)
      /\ IsInjective(t) /\ ToSet(t) = ToSet(s) \ {head}
  <2>1. s \in Seq(HeapBlocks) /\ IsInjective(s) /\ Head(s) = head
    BY SpeltHead DEF Spells
  <2>2. /\ t \in Seq(HeapBlocks) /\ Len(t) = Len(s) - 1 /\ Len(s) \in Nat \ {0}
        /\ \A i \in 1 .. Len(s) - 1 : t[i] = s[i + 1]
    BY <2>1, EmptySeq, HeadTailProperties
  <2>3. IsInjective(t) /\ ToSet(t) = ToSet(s) \ {head}
    BY <2>1, TailInjective
  <2>4. t = <<>> <=> Len(t) = 0
    BY <2>2, EmptySeq
  <2> QED
    BY <2>2, <2>3, <2>4
<1> HIDE DEF t
<1>2. \A i \in 1 .. Len(s) : next[s[i]] = IF i = Len(s) THEN NULL ELSE s[i + 1]
  BY DEF Spells
<1>3. head = s[1]
  BY SpeltHead
<1>4. next[head] = FirstOf(t)
  <2>1. next[head] = IF 1 = Len(s) THEN NULL ELSE s[1 + 1]
    BY <1>1, <1>2, <1>3
  <2>2. Len(s) # 1 => t[1] = s[1 + 1]
    BY <1>1
  <2> QED
    BY <1>1, <2>1, <2>2 DEF FirstOf
<1>5. ASSUME NEW i \in 1 .. Len(t) PROVE next[t[i]] = IF i = Len(t) THEN NULL ELSE t[i + 1]
  <2>1. t[i] = s[i + 1] /\ i + 1 \in 1 .. Len(s) /\ (i = Len(t) <=> i + 1 = Len(s))
    BY <1>1
  <2>2. next[t[i]] = IF i + 1 = Len(s) THEN NULL ELSE s[(i + 1) + 1]
    BY <1>2, <2>1
  <2>3. i # Len(t) => t[i + 1] = s[(i + 1) + 1]
    BY <1>1
  <2> QED
    BY <2>1, <2>2, <2>3
<1>6. Spells(t, next[head], next)
  BY <1>1, <1>4, <1>5 DEF Spells
<1> QED
  BY <1>1, <1>6 DEF t

LEMMA SpellsCons ==
  ASSUME NEW s, NEW head, NEW next, Spells(s, head, next),
         NEW x \in HeapBlocks, x \notin ToSet(s), next[x] = head
  PROVE  Spells(<<x>> \o s, x, next) /\ ToSet(<<x>> \o s) = ToSet(s) \cup {x}
<1> DEFINE o == <<x>>
           c == o \o s
<1>1. o \in Seq(HeapBlocks) /\ Len(o) = 1 /\ o[1] = x
  BY OneElement
<1>2. s \in Seq(HeapBlocks) /\ IsInjective(s) /\ Len(s) \in Nat
      /\ \A i \in 1 .. Len(s) : next[s[i]] = IF i = Len(s) THEN NULL ELSE s[i + 1]
  BY FitsHeap DEF Spells
<1>3. IsInjective(c) /\ ToSet(c) = ToSet(s) \cup {x}
  BY <1>2, ConsInjective
<1> HIDE DEF o
<1>4. /\ c \in Seq(HeapBlocks) /\ Len(c) = 1 + Len(s)
      /\ \A i \in 1 .. 1 + Len(s) : c[i] = IF i <= 1 THEN o[i] ELSE s[i - 1]
  <2>1. /\ c \in Seq(HeapBlocks) /\ Len(c) = Len(o) + Len(s)
        /\ \A i \in 1 .. Len(o) + Len(s) : c[i] = IF i <= Len(o) THEN o[i] ELSE s[i - Len(o)]
    BY <1>1, <1>2, ConcatProperties
  <2> HIDE DEF c
  <2> QED
    BY <1>1, <2>1
<1> HIDE DEF c
<1>5. c # <<>> /\ c[1] = x
  <2>1. 1 \in 1 .. 1 + Len(s) /\ Len(c) # 0
    BY <1>2, <1>4
  <2> QED
    BY <1>1, <1>4, <2>1, EmptySeq
<1>6. ASSUME NEW i \in 1 .. Len(c) PROVE next[c[i]] = IF i = Len(c) THEN NULL ELSE c[i + 1]
  <2>1. CASE i = 1
    <3>1. next[c[i]] = head
      BY <1>5, <2>1
    <3>2. CASE s = <<>>
      BY <1>4, <2>1, <3>1, <3>2, SpeltHead, EmptySeq
    <3>3. CASE s # <<>>
      <4>1. head = s[1] /\ Len(s) >= 1
        BY <3>3, SpeltHead
      <4>2. i + 1 \in 1 .. 1 + Len(s) /\ ~(i + 1 <= 1) /\ (i + 1) - 1 = 1 /\ i # Len(c)
        BY <1>2, <1>4, <2>1, <4>1
      <4>3. c[i + 1] = s[1]
        BY <1>4, <4>2
      <4> QED
        BY <3>1, <4>1, <4>2, <4>3
    <3> QED
      BY <3>2, <3>3
  <2>2. CASE i # 1
    <3>1. i - 1 \in 1 .. Len(s) /\ ~(i <= 1) /\ i \in 1 .. 1 + Len(s)
          /\ (i = Len(c) <=> i - 1 = Len(s)) /\ (i - 1) + 1 = i
      BY <1>2, <1>4, <2>2
    <3>2. next[c[i]] = IF i - 1 = Len(s) THEN NULL ELSE s[i]
      BY <1>2, <1>4, <3>1
    <3>3. i # Len(c) => i + 1 \in 1 .. 1 + Len(s) /\ ~(i + 1 <= 1) /\ (i + 1) - 1 = i
      BY <1>2, <1>4, <3>1
    <3>4. i # Len(c) => c[i + 1] = s[i]
      BY <1>4, <3>3
    <3> QED
      BY <3>1, <3>2, <3>4
  <2> QED
    BY <2>1, <2>2
<1>7. Spells(c, x, next) /\ ToSet(c) = ToSet(s) \cup {x}
  BY <1>3, <1>4, <1>5, <1>6 DEF Spells, FirstOf
<1> QED
  BY <1>7 DEF c, o

LEMMA Walks ==
  ASSUME NEW s, NEW head, NEW next, Spells(s, head, next), NEW x \in ToSet(s), next[x] # NULL
  PROVE  next[x] \in ToSet(s)
<1>1. PICK i \in 1 .. Len(s) : x = s[i]
  BY FitsHeap DEF ToSet
<1>2. next[x] = IF i = Len(s) THEN NULL ELSE s[i + 1]
  BY <1>1 DEF Spells
<1>3. i + 1 \in 1 .. Len(s)
  BY <1>2, FitsHeap
<1> QED
  BY <1>2, <1>3, FitsHeap DEF ToSet

LEMMA SpellsOne ==
  ASSUME NEW next, NEW x \in HeapBlocks, next[x] = NULL
  PROVE  Spells(Append(<<>>, x), x, next) /\ ToSet(Append(<<>>, x)) = {x}
<1> DEFINE e == <<>>
           o == Append(e, x)
<1>1. e \in Seq(HeapBlocks) /\ Len(e) = 0 /\ IsInjective(e) /\ ToSet(e) = {}
  BY EmptySeq DEF IsInjective, ToSet
<1> HIDE DEF e
<1>b. e \in Seq(HeapBlocks) /\ x \in HeapBlocks
  BY <1>1
<1>c. o \in Seq(HeapBlocks) /\ o # <<>> /\ Len(o) = Len(e) + 1 /\ o[Len(e) + 1] = x
  BY <1>b, AppendProperties
<1>d. ToSet(o) = ToSet(e) \cup {x}
  BY <1>b, AppendElements
<1>a. IsInjective(o) /\ ToSet(o) = {x}
  BY <1>1, <1>d, AppendKeepsInjective
<1>2. o \in Seq(HeapBlocks) /\ o # <<>> /\ Len(o) = 1 /\ o[1] = x
  <2> HIDE DEF o
  <2> QED
    BY <1>1, <1>c
<1> HIDE DEF o
<1>3. Spells(o, x, next) /\ ToSet(o) = {x}
  BY <1>2, <1>a DEF Spells, FirstOf
<1> QED
  BY <1>3 DEF o, e

LEMMA SpellsAppend ==
  ASSUME NEW s, NEW head, NEW next, Spells(s, head, next),
         NEW x \in HeapBlocks, x \notin ToSet(s), next[x] = NULL,
         NEW last \in ToSet(s), next[last] = NULL,
         NEW new, new[last] = x, \A y \in HeapBlocks \ {last} : new[y] = next[y]
  PROVE  Spells(Append(s, x), head, new) /\ ToSet(Append(s, x)) = ToSet(s) \cup {x}
<1> DEFINE a == Append(s, x)
<1>1. /\ s \in Seq(HeapBlocks) /\ IsInjective(s) /\ Len(s) \in Nat /\ DOMAIN s = 1 .. Len(s)
      /\ \A i \in 1 .. Len(s) : next[s[i]] = IF i = Len(s) THEN NULL ELSE s[i + 1]
      /\ \A i \in 1 .. Len(s) : s[i] \in HeapBlocks /\ s[i] # NULL /\ s[i] \in ToSet(s)
  BY FitsHeap DEF Spells, ToSet
<1>a. s \in Seq(HeapBlocks) /\ IsInjective(s)
  BY <1>1
<1>c. Len(s) \in Nat
  BY <1>1
<1>2. /\ a \in Seq(HeapBlocks) /\ a # <<>> /\ Len(a) = Len(s) + 1 /\ a[Len(s) + 1] = x
      /\ \A i \in 1 .. Len(s) : a[i] = s[i]
  BY <1>a, AppendProperties
<1>b. IsInjective(a) /\ ToSet(a) = ToSet(s) \cup {x}
  BY <1>a, AppendElements, AppendKeepsInjective
<1> HIDE DEF a
<1>3. PICK k \in 1 .. Len(s) : last = s[k]
  BY <1>1 DEF ToSet
<1>4. k = Len(s)
  <2>1. k # Len(s) => k + 1 \in 1 .. Len(s)
    BY <1>c
  <2>2. k = Len(s) \/ next[s[k]] = s[k + 1]
    BY <1>1
  <2>3. k # Len(s) => s[k + 1] # NULL
    BY <1>1, <2>1
  <2> QED
    BY <1>3, <2>2, <2>3
<1>5. /\ new[last] = x /\ last \in HeapBlocks
      /\ \A y \in HeapBlocks : y # last => new[y] = next[y]
  <2>1. last \in HeapBlocks
    BY <1>1, <1>3
  <2> QED
    BY <2>1
<1>6. head = FirstOf(a)
  <2>1. 1 \in 1 .. Len(s) /\ s # <<>>
    BY <1>c, EmptySeq
  <2> QED
    BY <1>2, <2>1 DEF Spells, FirstOf
<1>7. ASSUME NEW i \in 1 .. Len(a) PROVE new[a[i]] = IF i = Len(a) THEN NULL ELSE a[i + 1]
  <2>1. CASE i = Len(s) + 1
    <3>1. a[i] = x /\ i = Len(a) /\ x # last
      BY <1>2, <2>1
    <3> QED
      BY <1>5, <3>1
  <2>2. CASE i = Len(s)
    <3>1. i + 1 = Len(s) + 1 /\ i # Len(a)
      BY <1>c, <1>2, <2>2
    <3>2. a[i] = last
      BY <1>2, <1>3, <1>4, <2>2
    <3> QED
      BY <1>2, <1>5, <3>1, <3>2
  <2>3. CASE i \in 1 .. Len(s) /\ i # Len(s)
    <3>1. a[i] = s[i] /\ s[i] # last
      <4>1. s[i] = s[k] => i = k
        BY <1>1, <2>3 DEF IsInjective
      <4> QED
        BY <1>2, <1>3, <1>4, <2>3, <4>1
    <3>2. i + 1 \in 1 .. Len(s) /\ i # Len(a)
      BY <1>c, <1>2, <2>3
    <3>3. next[s[i]] = s[i + 1] /\ a[i + 1] = s[i + 1] /\ s[i] \in HeapBlocks
      BY <1>1, <1>2, <2>3, <3>2
    <3> QED
      BY <1>5, <3>1, <3>2, <3>3
  <2>4. i = Len(s) + 1 \/ i \in 1 .. Len(s)
    BY <1>c, <1>2
  <2> QED
    BY <2>1, <2>2, <2>3, <2>4
<1>8. Spells(a, head, new) /\ ToSet(a) = ToSet(s) \cup {x}
  BY <1>2, <1>b, <1>6, <1>7 DEF Spells
<1> QED
  BY <1>8 DEF a

-----------------------------------------------------------------------------
(* The first state.                                                        *)
LEMMA InitLinkInv == LinkInit => LinkInv
<1> SUFFICES ASSUME LinkInit PROVE LinkInv
  OBVIOUS
<1>1. LinkTypeOK
  BY DEF LinkInit, LinkTypeOK, Pointer, Labels
<1>2. MutexInv
  BY ClientsAssumption DEF LinkInit, MutexInv, Section
<1>3. HandsInv
  BY DEF LinkInit, HandsInv, Hand, Linkless, FullHanded, EmptyHanded, ConsumerLabels
<1>4. Lists(<<>>, <<>>)
  <2> DEFINE e == <<>>
  <2>1. Spells(e, NULL, ptNext) /\ ToSet(e) = {}
    BY SpellsNothing, EmptyElements
  <2> HIDE DEF e
  <2>2. Lists(e, e)
    BY <2>1 DEF LinkInit, Lists, Apart
  <2> QED
    BY <2>2 DEF e
<1>5. <<>> \in Seq(HeapBlocks)
  BY EmptySeq
<1> QED
  BY <1>1, <1>2, <1>3, <1>4, <1>5 DEF LinkInv

(* A step of one client moves it alone.                                    *)
LEMMA Goes ==
  ASSUME LinkTypeOK, NEW c \in Clients, NEW from, NEW to, Go(c, from, to)
  PROVE  /\ at[c] = from /\ at'[c] = to
         /\ \A d \in Clients \ {c} : at'[d] = at[d]
  BY DEF Go, LinkTypeOK

(* Only locking and unlocking takes a client into a critical section or    *)
(* out of it.                                                              *)
Within(c) ==
  \/ Malloc(c) \/ Reuse(c) \/ ReuseAdvance(c)
  \/ AddFirst(c) \/ AddStart(c) \/ AddWalk(c) \/ AddLast(c) \/ AddCount(c)
  \/ PopNothing(c) \/ PopHead(c) \/ PopAdvance(c) \/ PopCount(c)
  \/ RecycleLink(c) \/ RecycleHead(c)

LEMMA WithinMoves ==
  ASSUME LinkTypeOK, NEW c \in Clients, Within(c)
  PROVE  /\ at[c] \in Section /\ at'[c] \in Section
         /\ \A d \in Clients \ {c} : at'[d] = at[d] /\ item'[d] = item[d] /\ ptTmp'[d] = ptTmp[d]
         /\ at' \in [Clients -> Labels]
         /\ UNCHANGED tQueueMutex
<1>1. \E from, to \in Section : Go(c, from, to)
  BY DEF Within, Malloc, Reuse, ReuseAdvance, AddFirst, AddStart, AddWalk, AddLast, AddCount,
     PopNothing, PopHead, PopAdvance, PopCount, RecycleLink, RecycleHead, Section
<1>2. PICK from \in Section, to \in Section : Go(c, from, to)
  BY <1>1
<1>3. /\ at[c] = from /\ at'[c] = to
      /\ \A d \in Clients \ {c} : at'[d] = at[d]
  BY <1>2, Goes
<1>4. at' \in [Clients -> Labels]
  BY <1>2 DEF Go, LinkTypeOK, Labels
<1>5. UNCHANGED tQueueMutex
  BY DEF Within, Malloc, Reuse, ReuseAdvance, AddFirst, AddStart, AddWalk, AddLast, AddCount,
     PopNothing, PopHead, PopAdvance, PopCount, RecycleLink, RecycleHead
<1>6. \A d \in Clients \ {c} : item'[d] = item[d] /\ ptTmp'[d] = ptTmp[d]
  BY DEF Within, Malloc, Reuse, ReuseAdvance, AddFirst, AddStart, AddWalk, AddLast, AddCount,
     PopNothing, PopHead, PopAdvance, PopCount, RecycleLink, RecycleHead, LinkTypeOK
<1> QED
  BY <1>3, <1>4, <1>5, <1>6

LEMMA OutsideMoves ==
  ASSUME LinkTypeOK, NEW c \in Clients, Call(c) \/ Lock(c) \/ Unlock(c) \/ Clear(c)
  PROVE  /\ \A d \in Clients \ {c} : at'[d] = at[d] /\ item'[d] = item[d] /\ ptTmp'[d] = ptTmp[d]
         /\ at' \in [Clients -> Labels]
         /\ UNCHANGED <<item, ptTmp, ptQueue, ptFreeItems, iQueueSize, allocated>>
         /\ \/ at[c] \notin Section /\ at'[c] \notin Section /\ UNCHANGED tQueueMutex
            \/ at[c] \notin Section /\ at'[c] \in Section /\ tQueueMutex = NULL /\ tQueueMutex' = c
            \/ at[c] \in Section /\ at'[c] \notin Section /\ tQueueMutex' = NULL
<1>0. ASSUME NEW from, NEW to \in Labels, Go(c, from, to)
      PROVE  /\ at[c] = from /\ at'[c] = to
             /\ \A d \in Clients \ {c} : at'[d] = at[d]
             /\ at' \in [Clients -> Labels]
  <2>1. at' \in [Clients -> Labels]
    BY <1>0 DEF Go, LinkTypeOK
  <2> QED
    BY <1>0, <2>1, Goes
<1>1. CASE Call(c)
  <2>1. PICK op \in {"get", "pop", "size", "add", "unlink"} : Go(c, "outside", op)
    BY <1>1 DEF Call, Calls
  <2>2. op \in Labels /\ op \notin Section /\ "outside" \notin Section
    BY DEF Labels, Section, FullHanded, EmptyHanded
  <2>3. UNCHANGED <<item, ptTmp, ptQueue, ptFreeItems, iQueueSize, allocated>>
        /\ UNCHANGED tQueueMutex
    BY <1>1 DEF Call, sharedVars
  <2>4. at[c] \notin Section /\ at'[c] \notin Section /\ at' \in [Clients -> Labels]
        /\ \A d \in Clients \ {c} : at'[d] = at[d]
    BY <1>0, <2>1, <2>2
  <2> QED
    BY <2>3, <2>4
<1>2. CASE Lock(c)
  <2>1. PICK op \in DOMAIN Bodies : Go(c, op, Bodies[op])
    BY <1>2 DEF Lock
  <2>2. op \in {"get", "add", "pop", "size", "recycle"}
        /\ Bodies[op] \in {"getBody", "addBody", "popBody", "unlock", "recycleBody"}
    BY DEF Bodies
  <2>3. op \notin Section /\ Bodies[op] \in Section /\ Bodies[op] \in Labels
    BY <2>2 DEF Labels, Section
  <2>4. UNCHANGED <<item, ptTmp, ptQueue, ptFreeItems, iQueueSize, allocated>>
        /\ tQueueMutex = NULL /\ tQueueMutex' = c
    BY <1>2 DEF Lock, sharedVars
  <2>5. at[c] \notin Section /\ at'[c] \in Section /\ at' \in [Clients -> Labels]
        /\ \A d \in Clients \ {c} : at'[d] = at[d]
    BY <1>0, <2>1, <2>2, <2>3 DEF Section
  <2> QED
    BY <2>4, <2>5
<1>3. CASE Unlock(c)
  <2>1. PICK from \in {"unlock", "getUnlock"}, to \in {"outside", "clear"} : Go(c, from, to)
    BY <1>3 DEF Unlock
  <2>2. from \in Section /\ to \notin Section /\ to \in Labels
    BY DEF Labels, Section, FullHanded
  <2>3. UNCHANGED <<item, ptTmp, ptQueue, ptFreeItems, iQueueSize, allocated>> /\ tQueueMutex' = NULL
    BY <1>3 DEF Unlock, sharedVars
  <2>4. at[c] \in Section /\ at'[c] \notin Section /\ at' \in [Clients -> Labels]
        /\ \A d \in Clients \ {c} : at'[d] = at[d]
    BY <1>0, <2>1, <2>2
  <2> QED
    BY <2>3, <2>4
<1>4. CASE Clear(c)
  <2>1. PICK from \in {"clear", "unlink"}, to \in {"outside", "recycle"} : Go(c, from, to)
    BY <1>4 DEF Clear
  <2>2. from \notin Section /\ to \notin Section /\ to \in Labels
    BY DEF Labels, Section, FullHanded
  <2>3. UNCHANGED <<item, ptTmp, ptQueue, ptFreeItems, iQueueSize, allocated, tQueueMutex>>
    BY <1>4 DEF Clear
  <2> QED
    BY <1>0, <2>1, <2>2, <2>3
<1> QED
  BY <1>1, <1>2, <1>3, <1>4

LEMMA MutexStep == LinkTypeOK /\ MutexInv /\ LinkStep => MutexInv'
<1> SUFFICES ASSUME LinkTypeOK, MutexInv, LinkStep PROVE MutexInv'
  OBVIOUS
<1>1. PICK c \in Clients : Within(c) \/ Call(c) \/ Lock(c) \/ Unlock(c) \/ Clear(c)
  BY DEF LinkStep, Within
<1>2. CASE Within(c)
  BY <1>2, WithinMoves DEF MutexInv
<1>3. CASE Call(c) \/ Lock(c) \/ Unlock(c) \/ Clear(c)
  BY <1>3, OutsideMoves, ClientsAssumption DEF MutexInv
<1> QED
  BY <1>1, <1>2, <1>3

-----------------------------------------------------------------------------
(* A step of one client leaves the hands of the others as they are if it   *)
(* takes no item of theirs and keeps the links of what they hold.          *)
OthersKept(c) ==
  /\ \A d \in Clients \ {c} : at'[d] = at[d] /\ item'[d] = item[d] /\ ptTmp'[d] = ptTmp[d]
  /\ \A d \in Clients \ {c} : item[d] # NULL => ptNext'[item[d]] = ptNext[item[d]]
  /\ allocated \subseteq allocated'

LEMMA HandsFrame ==
  ASSUME HandsInv, NEW c \in Clients, OthersKept(c), Hand(c)',
         \A d \in Clients \ {c} : item'[c] = item[d] => item[d] = NULL
  PROVE  HandsInv'
<1>1. ASSUME NEW d \in Clients \ {c} PROVE Hand(d)'
  <2>1. /\ at'[d] = at[d] /\ item'[d] = item[d] /\ allocated \subseteq allocated'
        /\ item[d] # NULL => ptNext'[item[d]] = ptNext[item[d]]
    BY DEF OthersKept
  <2>2. Hand(d)
    BY DEF HandsInv
  <2>3. Linkless(d) => item[d] # NULL
    BY <2>2 DEF Linkless, Hand, FullHanded
  <2> QED
    BY <2>1, <2>2, <2>3 DEF Hand, Linkless
<1>2. ASSUME NEW d \in Clients, NEW e \in Clients, d # e, item'[d] = item'[e]
      PROVE  item'[d] = NULL
  BY <1>2 DEF OthersKept, HandsInv
<1> QED
  BY <1>1, <1>2 DEF HandsInv

(* The others find their places in the lists again if the lists are the    *)
(* same, or if they get no item but those of the client in the critical    *)
(* section.                                                                *)
LEMMA PlacesFrame ==
  ASSUME HandsInv, MutexInv, NEW c \in Clients, OthersKept(c),
         NEW q, NEW f, \A d \in Clients : Apart(d, q, f),
         NEW q2, NEW f2,
         \/ q2 = q /\ f2 = f
         \/ at[c] \in Section /\ ToSet(q2) \cup ToSet(f2) \subseteq ToSet(q) \cup ToSet(f) \cup {item[c]},
         Apart(c, q2, f2)'
  PROVE  \A d \in Clients : Apart(d, q2, f2)'
<1> SUFFICES ASSUME NEW d \in Clients \ {c} PROVE Apart(d, q2, f2)'
  OBVIOUS
<1>1. /\ at'[d] = at[d] /\ item'[d] = item[d] /\ ptTmp'[d] = ptTmp[d]
      /\ item[d] # NULL => ptNext'[item[d]] = ptNext[item[d]] /\ item[d] # item[c]
  BY DEF OthersKept, HandsInv
<1>2. Apart(d, q, f) /\ (at[d] = "recycleHead" => item[d] # NULL)
  BY DEF HandsInv, Hand, FullHanded
<1>3. CASE q2 = q /\ f2 = f
  BY <1>1, <1>2, <1>3 DEF Apart
<1>4. CASE at[c] \in Section /\ ToSet(q2) \cup ToSet(f2) \subseteq ToSet(q) \cup ToSet(f) \cup {item[c]}
  <2>1. at[d] \notin Section
    BY <1>4 DEF MutexInv
  <2>2. at[d] \notin {"getAdvance", "popAdvance", "count", "walk", "recycleHead"}
    BY <2>1 DEF Section
  <2>3. item[d] # NULL => item[d] \notin ToSet(q) /\ item[d] \notin ToSet(f)
    BY <1>2, <2>2 DEF Apart
  <2>4. item[d] # NULL => item[d] \notin ToSet(q2) /\ item[d] \notin ToSet(f2)
    BY <1>1, <1>4, <2>3
  <2> QED
    BY <1>1, <2>2, <2>4 DEF Apart
<1> QED
  BY <1>3, <1>4

-----------------------------------------------------------------------------
(* The counter as Queues has it: what the client in the critical section   *)
(* has still to count is in it.                                            *)
Size == iQueueSize + Counting("count") - Counting("discount")

LEMMA CountOne ==
  ASSUME MutexInv, NEW c \in Clients, at[c] \in Section, NEW label \in Section
  PROVE  Counting(label) = IF at[c] = label THEN 1 ELSE 0
<1> DEFINE There == {d \in Clients : at[d] = label}
<1>1. \A d \in Clients : at[d] \in Section => d = c
  BY DEF MutexInv
<1>2. CASE at[c] = label
  <2>1. There = {c}
    BY <1>1, <1>2
  <2>2. Cardinality({c}) = 1
    BY FS_Singleton
  <2> QED
    BY <1>2, <2>1, <2>2 DEF Counting
<1>3. CASE at[c] # label
  <2>1. There = {}
    BY <1>1, <1>3
  <2>2. Cardinality({}) = 0
    BY FS_EmptySet
  <2> QED
    BY <1>3, <2>1, <2>2 DEF Counting
<1> QED
  BY <1>2, <1>3

LEMMA CountSame ==
  ASSUME NEW c \in Clients, \A d \in Clients \ {c} : at'[d] = at[d], NEW label,
         at[c] = label <=> at'[c] = label
  PROVE  Counting(label)' = Counting(label)
<1>1. {d \in Clients : at'[d] = label} = {d \in Clients : at[d] = label}
  OBVIOUS
<1> QED
  BY <1>1 DEF Counting

(* What the client in the critical section has still to count.             *)
Owed(label) == IF label = "count" THEN 1 ELSE IF label = "discount" THEN -1 ELSE 0

LEMMA SizeSame ==
  ASSUME NEW c \in Clients, \A d \in Clients \ {c} : at'[d] = at[d],
         at[c] \notin {"count", "discount"}, at'[c] \notin {"count", "discount"},
         UNCHANGED iQueueSize
  PROVE  Size' = Size
<1>1. Counting("count")' = Counting("count") /\ Counting("discount")' = Counting("discount")
  BY CountSame
<1> QED
  BY <1>1 DEF Size

SizeCounts ==
  \A c \in Clients : at[c] \in Section => Size = iQueueSize + Owed(at[c])

LEMMA SizeIs == LinkTypeOK /\ MutexInv => SizeCounts
<1> SUFFICES ASSUME LinkTypeOK, MutexInv, NEW c \in Clients, at[c] \in Section
             PROVE  Size = iQueueSize + Owed(at[c])
  BY DEF SizeCounts
<1>1. Counting("count") = (IF at[c] = "count" THEN 1 ELSE 0)
      /\ Counting("discount") = (IF at[c] = "discount" THEN 1 ELSE 0)
  BY CountOne DEF Section
<1> QED
  BY <1>1 DEF Size, Owed, LinkTypeOK

LEMMA NewSizeIs == (LinkTypeOK /\ MutexInv)' => SizeCounts'
  BY SizeIs, PTL

-----------------------------------------------------------------------------
(* What a step may do to the lists q and f, the counter and the heap.      *)
Fresh(unallocated) == CHOOSE i \in unallocated : TRUE

Operation(q, f, q2, f2) ==
  \/ q2 = q /\ f2 = f /\ Size' = Size /\ allocated' = allocated
  \/ /\ \E x \in HeapBlocks : q2 = Append(q, x)
     /\ f2 = f /\ Size' = Size + 1 /\ allocated' = allocated
  \/ q # <<>> /\ q2 = Tail(q) /\ f2 = f /\ Size' = Size - 1 /\ allocated' = allocated
  \/ f # <<>> /\ q2 = q /\ f2 = Tail(f) /\ Size' = Size /\ allocated' = allocated
  \/ /\ f = <<>> /\ q2 = q /\ f2 = f /\ Size' = Size
     /\ HeapBlocks \ allocated # {}
     /\ allocated' = allocated \cup {Fresh(HeapBlocks \ allocated)}
  \/ /\ \E x \in HeapBlocks : f2 = <<x>> \o f
     /\ q2 = q /\ Size' = Size /\ allocated' = allocated

LinkState(q, f) == LinkTypeOK /\ MutexInv /\ HandsInv /\ Lists(q, f)
Result(q, f, q2, f2) == LinkTypeOK' /\ HandsInv' /\ Lists(q2, f2)' /\ Operation(q, f, q2, f2)

(* What is left to show of a step: that the new lists are spelt, and where *)
(* the client that takes it ends up.                                       *)
LEMMA NewLists ==
  ASSUME NEW q, NEW f, LinkState(q, f), NEW c \in Clients, OthersKept(c), at[c] \in Section,
         NEW q2, NEW f2, Spells(q2, ptQueue', ptNext'), Spells(f2, ptFreeItems', ptNext'),
         ToSet(q2) \subseteq ToSet(q) \cup ToSet(f) \cup {item[c]},
         ToSet(f2) \subseteq ToSet(q) \cup ToSet(f) \cup {item[c]},
         ToSet(q2) \cap ToSet(f2) = {}, ToSet(q2) \cup ToSet(f2) \subseteq allocated',
         Hand(c)', Apart(c, q2, f2)',
         \A d \in Clients \ {c} : item'[c] = item[d] => item[d] = NULL
  PROVE  HandsInv' /\ Lists(q2, f2)'
<1>1. HandsInv'
  BY HandsFrame DEF LinkState
<1>2. ToSet(q2) \cup ToSet(f2) \subseteq ToSet(q) \cup ToSet(f) \cup {item[c]}
  OBVIOUS
<1>3. \A d \in Clients : Apart(d, q2, f2)'
  BY <1>2, PlacesFrame DEF LinkState, Lists
<1> QED
  BY <1>1, <1>3 DEF Lists

LEMMA SameLists ==
  ASSUME NEW q, NEW f, LinkState(q, f), NEW c \in Clients, OthersKept(c),
         UNCHANGED <<ptQueue, ptFreeItems>>,
         \A x \in ToSet(q) \cup ToSet(f) : ptNext'[x] = ptNext[x],
         Hand(c)', Apart(c, q, f)',
         \A d \in Clients \ {c} : item'[c] = item[d] => item[d] = NULL
  PROVE  HandsInv' /\ Lists(q, f)'
<1>1. /\ Spells(q, ptQueue, ptNext) /\ Spells(f, ptFreeItems, ptNext)
      /\ ToSet(q) \cap ToSet(f) = {} /\ ToSet(q) \cup ToSet(f) \subseteq allocated
  BY DEF LinkState, Lists
<1>2. Spells(q, ptQueue', ptNext') /\ Spells(f, ptFreeItems', ptNext')
  BY <1>1, SpellsSame
<1>3. ToSet(q) \cup ToSet(f) \subseteq allocated'
  BY <1>1 DEF OthersKept
<1>4. HandsInv'
  BY HandsFrame DEF LinkState
<1>5. \A d \in Clients : Apart(d, q, f)'
  BY PlacesFrame DEF LinkState, Lists
<1> QED
  BY <1>1, <1>2, <1>3, <1>4, <1>5 DEF Lists

(* What a client holds is held by no other.                                *)
LEMMA Held ==
  ASSUME LinkTypeOK, HandsInv, NEW c \in Clients
  PROVE  /\ Hand(c)
         /\ item[c] # NULL => item[c] \in HeapBlocks /\ item[c] \in allocated
         /\ at[c] \in FullHanded => item[c] # NULL
         /\ \A d \in Clients \ {c} : item[c] = item[d] => item[d] = NULL
<1>1. Hand(c) /\ item[c] \in HeapBlocks \cup {NULL}
  BY DEF HandsInv, LinkTypeOK, Pointer
<1> QED
  BY <1>1 DEF Hand, HandsInv

-----------------------------------------------------------------------------
(* Calls, and the mutex taken and given back.                              *)
LEMMA CallStep ==
  ASSUME NEW q, NEW f, LinkState(q, f), NEW c \in Clients, Call(c)
  PROVE  Result(q, f, q, f)
<1>1. PICK op \in Calls(c) : Go(c, "outside", op)
  BY DEF Call
<1>2. /\ UNCHANGED <<item, ptTmp, ptQueue, ptFreeItems, iQueueSize, ptNext, allocated>>
      /\ at[c] = "outside" /\ at'[c] = op
      /\ \A d \in Clients \ {c} : at'[d] = at[d]
      /\ at' \in [Clients -> Labels]
  BY <1>1, Goes, OutsideMoves DEF Call, sharedVars, LinkState
<1>3. LinkTypeOK'
  BY <1>2 DEF LinkTypeOK, LinkState
<1>4. OthersKept(c)
  BY <1>2 DEF OthersKept
<1>5. Hand(c)
  BY Held DEF LinkState
<1>6. \/ op \in {"get", "pop", "size"} /\ item[c] = NULL /\ (c \in Producers => op = "get")
      \/ op \in {"add", "unlink"} /\ item[c] # NULL /\ (c \in Producers \/ op = "unlink")
  <2>1. CASE item[c] = NULL
    BY <2>1 DEF Calls
  <2>2. CASE item[c] # NULL
    BY <2>2 DEF Calls
  <2> QED
    BY <2>1, <2>2
<1>7. Hand(c)'
  BY <1>2, <1>5, <1>6 DEF Hand, Linkless, FullHanded, EmptyHanded, ConsumerLabels
<1>8. Apart(c, q, f)
  BY DEF LinkState, Lists
<1>9. Apart(c, q, f)'
  BY <1>2, <1>6, <1>8 DEF Apart
<1>10. HandsInv' /\ Lists(q, f)'
  BY <1>2, <1>4, <1>7, <1>9, SameLists, Held DEF LinkState
<1>11. Size' = Size
  BY <1>2, <1>6, SizeSame
<1> QED
  BY <1>2, <1>3, <1>10, <1>11 DEF Result, Operation

LEMMA LockStep ==
  ASSUME NEW q, NEW f, LinkState(q, f), NEW c \in Clients, Lock(c) \/ Unlock(c)
  PROVE  Result(q, f, q, f)
<1>1. /\ UNCHANGED <<item, ptTmp, ptQueue, ptFreeItems, iQueueSize, ptNext, allocated>>
      /\ \A d \in Clients \ {c} : at'[d] = at[d]
      /\ at' \in [Clients -> Labels]
  BY OutsideMoves DEF Lock, Unlock, sharedVars, LinkState
<1>2. \/ at[c] = "get" /\ at'[c] = "getBody"
      \/ at[c] = "add" /\ at'[c] = "addBody"
      \/ at[c] = "pop" /\ at'[c] = "popBody"
      \/ at[c] = "size" /\ at'[c] = "unlock"
      \/ at[c] = "recycle" /\ at'[c] = "recycleBody"
      \/ at[c] = "unlock" /\ at'[c] = "outside"
      \/ at[c] = "getUnlock" /\ at'[c] = "clear"
  <2>1. CASE Lock(c)
    <3>1. PICK op \in DOMAIN Bodies : Go(c, op, Bodies[op])
      BY <2>1 DEF Lock
    <3>2. at[c] = op /\ at'[c] = Bodies[op]
      BY <3>1, Goes DEF LinkState
    <3> QED
      BY <3>2 DEF Bodies
  <2>2. CASE Unlock(c)
    <3>1. Go(c, "unlock", "outside") \/ Go(c, "getUnlock", "clear")
      BY <2>2 DEF Unlock
    <3> QED
      BY <3>1, Goes DEF LinkState
  <2> QED
    BY <2>1, <2>2
<1>3. LinkTypeOK'
  BY <1>1 DEF LinkTypeOK, LinkState
<1>4. OthersKept(c)
  BY <1>1 DEF OthersKept
<1>5. Hand(c)
  BY Held DEF LinkState
<1>6. Hand(c)'
  BY <1>1, <1>2, <1>5 DEF Hand, Linkless, FullHanded, EmptyHanded, ConsumerLabels
<1>7. Apart(c, q, f)
  BY DEF LinkState, Lists
<1>8. Apart(c, q, f)'
  BY <1>1, <1>2, <1>7 DEF Apart
<1>9. HandsInv' /\ Lists(q, f)'
  BY <1>1, <1>4, <1>6, <1>8, SameLists, Held DEF LinkState
<1>10. Size' = Size
  BY <1>1, <1>2, SizeSame
<1> QED
  BY <1>1, <1>3, <1>9, <1>10 DEF Result, Operation

(* The link that is cleared is of an item in neither list and in no other  *)
(* hand.                                                                   *)
LEMMA ClearStep ==
  ASSUME NEW q, NEW f, LinkState(q, f), NEW c \in Clients, Clear(c)
  PROVE  Result(q, f, q, f)
<1>1. /\ UNCHANGED <<item, ptTmp, ptQueue, ptFreeItems, iQueueSize, allocated>>
      /\ \A d \in Clients \ {c} : at'[d] = at[d]
      /\ at' \in [Clients -> Labels]
      /\ ptNext' = [ptNext EXCEPT ![item[c]] = NULL]
  BY OutsideMoves DEF Clear, LinkState
<1>2. \/ at[c] = "clear" /\ at'[c] = "outside"
      \/ at[c] = "unlink" /\ at'[c] = "recycle"
  <2>1. Go(c, "clear", "outside") \/ Go(c, "unlink", "recycle")
    BY DEF Clear
  <2> QED
    BY <2>1, Goes DEF LinkState
<1>3. ptNext \in [HeapBlocks -> Pointer] /\ item[c] # NULL /\ item[c] \in HeapBlocks
  BY <1>2, Held DEF LinkState, LinkTypeOK, FullHanded
<1>4. /\ ptNext' \in [HeapBlocks -> Pointer] /\ ptNext'[item[c]] = NULL
      /\ \A x \in HeapBlocks \ {item[c]} : ptNext'[x] = ptNext[x]
  BY <1>1, <1>3 DEF Pointer
<1>5. LinkTypeOK'
  BY <1>1, <1>4 DEF LinkTypeOK, LinkState
<1>6. \A d \in Clients \ {c} : item[c] # item[d]
  BY <1>3, Held DEF LinkState
<1>7. OthersKept(c)
  <2>1. ASSUME NEW d \in Clients \ {c}, item[d] # NULL PROVE ptNext'[item[d]] = ptNext[item[d]]
    BY <1>4, <1>6, <2>1, Held DEF LinkState
  <2> QED
    BY <1>1, <2>1 DEF OthersKept
<1>8. Hand(c)
  BY Held DEF LinkState
<1>9. Hand(c)'
  BY <1>1, <1>2, <1>3, <1>4, <1>8 DEF Hand, Linkless, FullHanded, EmptyHanded, ConsumerLabels
<1>10. Apart(c, q, f)
  BY DEF LinkState, Lists
<1>11. item[c] \notin ToSet(q) /\ item[c] \notin ToSet(f)
  BY <1>2, <1>3, <1>10 DEF Apart
<1>12. Apart(c, q, f)'
  BY <1>1, <1>2, <1>11 DEF Apart
<1>13. ToSet(q) \cup ToSet(f) \subseteq HeapBlocks
  BY DEF LinkState, Lists, LinkTypeOK
<1>14. HandsInv' /\ Lists(q, f)'
  BY <1>1, <1>4, <1>6, <1>7, <1>9, <1>11, <1>12, <1>13, SameLists
<1>15. Size' = Size
  BY <1>1, <1>2, SizeSame
<1> QED
  BY <1>1, <1>5, <1>14, <1>15 DEF Result, Operation

-----------------------------------------------------------------------------
(* Within a critical section.  The heads of the lists are in no hand but   *)
(* that of the client in the section, and what others hold is in no list.  *)
LEMMA Inside ==
  ASSUME NEW q, NEW f, LinkState(q, f), NEW c \in Clients, at[c] \in Section
  PROVE  /\ \A d \in Clients \ {c} :
              item[d] # NULL => /\ item[d] \in HeapBlocks /\ item[d] \in allocated
                                /\ item[d] \notin ToSet(q) /\ item[d] \notin ToSet(f)
         /\ Hand(c) /\ Apart(c, q, f)
         /\ item[c] # NULL => item[c] \in HeapBlocks /\ item[c] \in allocated
         /\ Spells(q, ptQueue, ptNext) /\ Spells(f, ptFreeItems, ptNext)
         /\ ToSet(q) \cap ToSet(f) = {}
         /\ ToSet(q) \cup ToSet(f) \subseteq allocated
         /\ ToSet(q) \cup ToSet(f) \subseteq HeapBlocks
         /\ ptNext \in [HeapBlocks -> Pointer]
         /\ Size = iQueueSize + Owed(at[c]) /\ iQueueSize \in Int
<1>1. ASSUME NEW d \in Clients \ {c}, item[d] # NULL
      PROVE  /\ item[d] \in HeapBlocks /\ item[d] \in allocated
             /\ item[d] \notin ToSet(q) /\ item[d] \notin ToSet(f)
  <2>1. at[d] \notin Section
    BY DEF LinkState, MutexInv
  <2>2. at[d] \notin {"getAdvance", "popAdvance", "count"}
    BY <2>1 DEF Section
  <2>3. Apart(d, q, f)
    BY DEF LinkState, Lists
  <2> QED
    BY <1>1, <2>2, <2>3, Held DEF LinkState, Apart
<1>2. Hand(c) /\ Apart(c, q, f)
      /\ (item[c] # NULL => item[c] \in HeapBlocks /\ item[c] \in allocated)
  BY Held DEF LinkState, Lists
<1>3. /\ Spells(q, ptQueue, ptNext) /\ Spells(f, ptFreeItems, ptNext)
      /\ ToSet(q) \cap ToSet(f) = {}
      /\ ToSet(q) \cup ToSet(f) \subseteq allocated
      /\ allocated \subseteq HeapBlocks
      /\ ptNext \in [HeapBlocks -> Pointer]
      /\ iQueueSize \in Int
  BY DEF LinkState, Lists, LinkTypeOK
<1>4. Size = iQueueSize + Owed(at[c])
  BY SizeIs DEF LinkState, SizeCounts
<1> QED
  BY <1>1, <1>2, <1>3, <1>4

(* A step from one place in a critical section to another keeps what the   *)
(* others have, if it writes no link but that of an item that it has or    *)
(* that is in a list.                                                      *)
LEMMA SectionStep ==
  ASSUME NEW q, NEW f, LinkState(q, f), NEW c \in Clients, Within(c),
         NEW from, NEW to, Go(c, from, to),
         allocated \subseteq allocated',
         NEW last \in ToSet(q) \cup ToSet(f) \cup {item[c], NULL},
         \A x \in HeapBlocks \ {last} : ptNext'[x] = ptNext[x]
  PROVE  /\ at[c] = from /\ at'[c] = to /\ at[c] \in Section
         /\ at' \in [Clients -> Labels] /\ OthersKept(c)
<1>1. /\ at[c] = from /\ at'[c] = to /\ at[c] \in Section /\ at' \in [Clients -> Labels]
      /\ \A d \in Clients \ {c} : at'[d] = at[d] /\ item'[d] = item[d] /\ ptTmp'[d] = ptTmp[d]
  BY Goes, WithinMoves DEF LinkState
<1>2. ASSUME NEW d \in Clients \ {c}, item[d] # NULL PROVE ptNext'[item[d]] = ptNext[item[d]]
  <2>1. item[d] \in HeapBlocks /\ item[d] \notin ToSet(q) /\ item[d] \notin ToSet(f)
    BY <1>1, <1>2, Inside
  <2>2. item[d] # item[c]
    BY <1>2, Held DEF LinkState
  <2> QED
    BY <1>2, <2>1, <2>2
<1> QED
  BY <1>1, <1>2 DEF OthersKept

-----------------------------------------------------------------------------
(* A fresh item is the head of the free list, or new on the heap.          *)
LEMMA ReuseStep ==
  ASSUME NEW q, NEW f, LinkState(q, f), MutexInv', NEW c \in Clients, Reuse(c)
  PROVE  Result(q, f, q, f)
<1>1. /\ Within(c) /\ Go(c, "getBody", "getAdvance") /\ ptFreeItems # NULL
      /\ item' = [item EXCEPT ![c] = ptFreeItems]
      /\ UNCHANGED <<ptQueue, ptFreeItems, iQueueSize, ptNext, allocated, ptTmp>>
  BY DEF Within, Reuse, sharedVars
<1>2. at[c] = "getBody" /\ at'[c] = "getAdvance" /\ at[c] \in Section
      /\ at' \in [Clients -> Labels] /\ OthersKept(c)
  BY <1>1, SectionStep
<1>3. /\ f # <<>> /\ ptFreeItems = f[1] /\ ptFreeItems \in ToSet(f) /\ ptFreeItems \in HeapBlocks
      /\ ptFreeItems \in allocated
  BY <1>1, <1>2, Inside, SpeltHead
<1>4. item \in [Clients -> Pointer] /\ item'[c] = ptFreeItems
  BY <1>1 DEF LinkState, LinkTypeOK
<1>5. LinkTypeOK'
  BY <1>1, <1>2, <1>3 DEF LinkState, LinkTypeOK, Pointer
<1>6. Hand(c)'
  BY <1>1, <1>2, <1>3, <1>4, Inside DEF Hand, Linkless, FullHanded, EmptyHanded, ConsumerLabels
<1>7. Apart(c, q, f)'
  BY <1>2, <1>3, <1>4 DEF Apart
<1>8. \A d \in Clients \ {c} : item'[c] = item[d] => item[d] = NULL
  BY <1>2, <1>3, <1>4, Inside
<1>9. HandsInv' /\ Lists(q, f)'
  BY <1>1, <1>2, <1>6, <1>7, <1>8, SameLists
<1>10. Size' = Size
  BY <1>1, <1>2, SizeSame DEF OthersKept
<1> QED
  BY <1>1, <1>5, <1>9, <1>10 DEF Result, Operation

LEMMA ReuseAdvanceStep ==
  ASSUME NEW q, NEW f, LinkState(q, f), MutexInv', NEW c \in Clients, ReuseAdvance(c)
  PROVE  f # <<>> /\ Result(q, f, q, Tail(f))
<1>1. /\ Within(c) /\ Go(c, "getAdvance", "getUnlock")
      /\ ptFreeItems' = ptNext[ptFreeItems]
      /\ UNCHANGED <<ptQueue, iQueueSize, ptNext, allocated, item, ptTmp>>
  BY DEF Within, ReuseAdvance
<1>2. at[c] = "getAdvance" /\ at'[c] = "getUnlock" /\ at[c] \in Section
      /\ at' \in [Clients -> Labels] /\ OthersKept(c)
  BY <1>1, SectionStep
<1>3. f # <<>> /\ item[c] = f[1]
  BY <1>2, Inside DEF Apart
<1>4. ptFreeItems = f[1] /\ ptFreeItems \in ToSet(f) /\ ptFreeItems \in HeapBlocks
  BY <1>2, <1>3, Inside, SpeltHead
<1> DEFINE t == Tail(f)
<1>5. Spells(t, ptFreeItems', ptNext') /\ ToSet(t) = ToSet(f) \ {ptFreeItems}
  BY <1>1, <1>2, <1>3, Inside, SpellsTail
<1> HIDE DEF t
<1>6. LinkTypeOK'
  BY <1>1, <1>2, <1>4 DEF LinkState, LinkTypeOK
<1>7. Hand(c)'
  BY <1>1, <1>2, Inside DEF Hand, Linkless, FullHanded, EmptyHanded, ConsumerLabels
<1>8. Apart(c, q, t)'
  BY <1>1, <1>2, <1>3, <1>4, <1>5, Inside DEF Apart
<1>9. \A d \in Clients \ {c} : item'[c] = item[d] => item[d] = NULL
  BY <1>1, Held DEF LinkState
<1>10. Spells(q, ptQueue', ptNext') /\ ToSet(q) \cap ToSet(t) = {}
       /\ ToSet(q) \cup ToSet(t) \subseteq allocated'
  BY <1>1, <1>2, <1>5, Inside
<1>11. HandsInv' /\ Lists(q, t)'
  BY <1>2, <1>5, <1>7, <1>8, <1>9, <1>10, NewLists
<1>12. Size' = Size
  BY <1>1, <1>2, SizeSame DEF OthersKept
<1>13. Result(q, f, q, t)
  BY <1>1, <1>3, <1>6, <1>11, <1>12 DEF Result, Operation, t
<1> QED
  BY <1>3, <1>13 DEF t

LEMMA MallocStep ==
  ASSUME NEW q, NEW f, LinkState(q, f), MutexInv', NEW c \in Clients, Malloc(c)
  PROVE  Result(q, f, q, f)
<1> DEFINE new == Fresh(HeapBlocks \ allocated)
<1>0. /\ allocated # HeapBlocks
      /\ item' = [item EXCEPT ![c] = new]
      /\ allocated' = allocated \cup {item'[c]}
  BY Zenon DEF Malloc, Fresh
<1>1. /\ Within(c) /\ Go(c, "getBody", "getUnlock") /\ ptFreeItems = NULL
      /\ UNCHANGED <<ptQueue, ptFreeItems, iQueueSize, ptNext, ptTmp>>
  BY DEF Within, Malloc
<1>2. HeapBlocks \ allocated # {}
  BY <1>0 DEF LinkState, LinkTypeOK
<1>3. new \in HeapBlocks \ allocated
  BY <1>2, Zenon DEF Fresh
<1> HIDE DEF new
<1>4. item'[c] = new /\ item \in [Clients -> Pointer] /\ allocated' = allocated \cup {new}
  BY <1>0 DEF LinkState, LinkTypeOK
<1>5. at[c] = "getBody" /\ at'[c] = "getUnlock" /\ at[c] \in Section
      /\ at' \in [Clients -> Labels] /\ OthersKept(c)
  BY <1>1, <1>4, SectionStep
<1>6. LinkTypeOK'
  BY <1>0, <1>1, <1>3, <1>4, <1>5 DEF LinkState, LinkTypeOK, Pointer
<1>7. f = <<>>
  BY <1>1, <1>5, Inside, SpeltHead
<1>8. Hand(c)'
  BY <1>3, <1>4, <1>5, ItemsAssumption DEF Hand, Linkless, FullHanded, EmptyHanded, ConsumerLabels
<1>9. Apart(c, q, f)'
  BY <1>3, <1>4, <1>5, Inside DEF Apart
<1>10. \A d \in Clients \ {c} : item'[c] = item[d] => item[d] = NULL
  BY <1>3, <1>4, <1>5, Inside
<1>11. HandsInv' /\ Lists(q, f)'
  BY <1>1, <1>5, <1>8, <1>9, <1>10, SameLists
<1>12. Size' = Size
  BY <1>1, <1>5, SizeSame DEF OthersKept
<1> QED
  BY <1>2, <1>4, <1>6, <1>7, <1>11, <1>12 DEF Result, Operation, new

-----------------------------------------------------------------------------
(* The item is linked to the last item that the walk finds, or is the      *)
(* first one.                                                              *)
LEMMA AddWalkStep ==
  ASSUME NEW q, NEW f, LinkState(q, f), MutexInv', NEW c \in Clients, AddStart(c) \/ AddWalk(c)
  PROVE  Result(q, f, q, f)
<1>1. PICK from \in {"addBody", "walk"} : Within(c) /\ Go(c, from, "walk")
  BY DEF Within, AddStart, AddWalk
<1>2. UNCHANGED <<ptQueue, ptFreeItems, iQueueSize, ptNext, allocated, item>>
  BY DEF AddStart, AddWalk, sharedVars
<1>3. at[c] \in {"addBody", "walk"} /\ at'[c] = "walk" /\ at[c] \in Section
      /\ at' \in [Clients -> Labels] /\ OthersKept(c)
  BY <1>1, <1>2, SectionStep
<1>4. ptTmp' \in [Clients -> Pointer] /\ ptTmp'[c] \in ToSet(q)
  <2>1. ptTmp \in [Clients -> Pointer]
    BY DEF LinkState, LinkTypeOK
  <2>2. CASE AddStart(c)
    <3>1. ptQueue # NULL /\ ptTmp' = [ptTmp EXCEPT ![c] = ptQueue]
      BY <2>2 DEF AddStart
    <3>2. ptQueue \in ToSet(q) /\ ptQueue \in HeapBlocks
      BY <1>3, <3>1, Inside, SpeltHead
    <3> QED
      BY <2>1, <3>1, <3>2 DEF Pointer
  <2>3. CASE AddWalk(c)
    <3>1. /\ at[c] = "walk" /\ ptNext[ptTmp[c]] # NULL
          /\ ptTmp' = [ptTmp EXCEPT ![c] = ptNext[ptTmp[c]]]
      BY <2>1, <2>3, Goes DEF AddWalk, LinkState
    <3>2. ptTmp[c] \in ToSet(q)
      BY <1>3, <3>1, Inside DEF Apart
    <3>3. ptNext[ptTmp[c]] \in ToSet(q)
      BY <1>3, <3>1, <3>2, Inside, Walks
    <3>4. ptNext[ptTmp[c]] \in HeapBlocks
      BY <1>3, <3>3, Inside
    <3> QED
      BY <2>1, <3>1, <3>3, <3>4 DEF Pointer
  <2> QED
    BY <2>2, <2>3
<1>5. LinkTypeOK'
  BY <1>2, <1>3, <1>4 DEF LinkState, LinkTypeOK
<1>6. Hand(c) /\ Apart(c, q, f) /\ item[c] # NULL
  BY <1>3, Held, Inside DEF LinkState, FullHanded
<1>7. Hand(c)'
  BY <1>2, <1>3, <1>6 DEF Hand, Linkless, FullHanded, EmptyHanded, ConsumerLabels
<1>8. Apart(c, q, f)'
  BY <1>2, <1>3, <1>4, <1>6 DEF Apart
<1>9. HandsInv' /\ Lists(q, f)'
  BY <1>2, <1>3, <1>7, <1>8, SameLists, Held DEF LinkState
<1>10. Size' = Size
  BY <1>2, <1>3, SizeSame DEF OthersKept
<1> QED
  BY <1>2, <1>5, <1>9, <1>10 DEF Result, Operation

LEMMA AddFirstStep ==
  ASSUME NEW q, NEW f, LinkState(q, f), MutexInv', NEW c \in Clients, AddFirst(c)
  PROVE  \E q2, f2 : Result(q, f, q2, f2)
<1>0. PICK x : x = item[c]
  OBVIOUS
<1>1. /\ Within(c) /\ Go(c, "addBody", "count") /\ ptQueue = NULL /\ ptQueue' = item[c]
      /\ UNCHANGED <<ptFreeItems, iQueueSize, ptNext, allocated, item, ptTmp>>
  BY <1>0 DEF Within, AddFirst
<1>2. at[c] = "addBody" /\ at'[c] = "count" /\ at[c] \in Section
      /\ at' \in [Clients -> Labels] /\ OthersKept(c)
  BY <1>1, SectionStep
<1>3. /\ item[c] # NULL /\ item[c] \in HeapBlocks /\ item[c] \in allocated
      /\ item[c] \notin ToSet(q) /\ item[c] \notin ToSet(f)
      /\ ptNext[item[c]] = NULL /\ Hand(c)
  BY <1>0, <1>2, Inside DEF Hand, Apart, Linkless, FullHanded
<1>4. q = <<>>
  BY <1>1, <1>2, Inside, SpeltHead
<1> DEFINE a == Append(q, x)
<1>5. Spells(a, ptQueue', ptNext') /\ ToSet(a) = {item[c]}
  BY <1>0, <1>1, <1>3, <1>4, SpellsOne
<1>6. Operation(q, f, a, f)
  <2>1. LinkTypeOK'
    BY <1>1, <1>2, <1>3 DEF LinkState, LinkTypeOK, Pointer
  <2>2. Size' = iQueueSize + 1
    BY <1>1, <1>2, <2>1, NewSizeIs DEF SizeCounts, Owed, Section
  <2>3. Size = iQueueSize + 0 /\ iQueueSize \in Int
    BY <1>2, Inside DEF Owed
  <2>4. Size' = Size + 1
    BY <2>2, <2>3
  <2> QED
    BY <1>0, <1>1, <1>3, <2>4 DEF Operation
<1> HIDE DEF a
<1>7. LinkTypeOK'
  BY <1>1, <1>2, <1>3 DEF LinkState, LinkTypeOK, Pointer
<1>8. Hand(c)'
  BY <1>1, <1>2, <1>3 DEF Hand, Linkless, FullHanded, EmptyHanded, ConsumerLabels
<1>9. Apart(c, a, f)'
  BY <1>0, <1>2 DEF Apart
<1>10. HandsInv' /\ Lists(a, f)'
  <2>1. Spells(f, ptFreeItems', ptNext') /\ ToSet(a) \cap ToSet(f) = {}
        /\ ToSet(a) \cup ToSet(f) \subseteq allocated'
    BY <1>0, <1>1, <1>2, <1>3, <1>5, Inside
  <2>2. /\ ToSet(a) \subseteq ToSet(q) \cup ToSet(f) \cup {item[c]}
        /\ ToSet(f) \subseteq ToSet(q) \cup ToSet(f) \cup {item[c]}
    BY <1>5
  <2>3. \A d \in Clients \ {c} : item'[c] = item[d] => item[d] = NULL
    BY <1>1, Held DEF LinkState
  <2> QED
    BY <1>0, <1>2, <1>5, <1>8, <1>9, <2>1, <2>2, <2>3, NewLists
<1>11. Result(q, f, a, f)
  BY <1>0, <1>6, <1>7, <1>10 DEF Result
<1> QED
  BY <1>11

LEMMA AddLastStep ==
  ASSUME NEW q, NEW f, LinkState(q, f), MutexInv', NEW c \in Clients, AddLast(c)
  PROVE  \E q2, f2 : Result(q, f, q2, f2)
<1>0. PICK x, last : x = item[c] /\ last = ptTmp[c]
  OBVIOUS
<1> DEFINE a == Append(q, x)
<1>1. /\ Within(c) /\ Go(c, "walk", "count") /\ ptNext[last] = NULL
      /\ ptNext' = [ptNext EXCEPT ![last] = item[c]]
      /\ UNCHANGED <<ptQueue, ptFreeItems, iQueueSize, allocated, item, ptTmp>>
  BY <1>0 DEF Within, AddLast
<1>2. at[c] = "walk" /\ at'[c] = "count" /\ at[c] \in Section /\ last \in ToSet(q)
      /\ last \in HeapBlocks /\ ptNext \in [HeapBlocks -> Pointer]
  <2>1. at[c] = "walk" /\ at'[c] = "count"
    BY <1>1, Goes DEF LinkState
  <2>2. at[c] \in Section
    BY <2>1 DEF Section
  <2> QED
    BY <1>0, <2>1, <2>2, Inside DEF Apart
<1>3. /\ ptNext' \in [HeapBlocks -> Pointer] \/ item[c] = NULL
      /\ \A y \in HeapBlocks \ {last} : ptNext'[y] = ptNext[y]
  BY <1>0, <1>1, <1>2, Held DEF LinkState, Pointer
<1>4. at' \in [Clients -> Labels] /\ OthersKept(c)
  BY <1>1, <1>2, <1>3, SectionStep
<1>5. /\ item[c] # NULL /\ item[c] \in HeapBlocks /\ item[c] \in allocated
      /\ item[c] \notin ToSet(q) /\ item[c] \notin ToSet(f)
      /\ ptNext[item[c]] = NULL /\ Hand(c)
  BY <1>0, <1>2, Inside DEF Hand, Apart, Linkless, FullHanded
<1>6. Spells(a, ptQueue', ptNext') /\ ToSet(a) = ToSet(q) \cup {item[c]}
  <2>1. /\ Spells(q, ptQueue, ptNext) /\ ptQueue' = ptQueue
        /\ x \in HeapBlocks /\ x \notin ToSet(q) /\ ptNext[x] = NULL
        /\ last \in ToSet(q) /\ ptNext[last] = NULL
        /\ ptNext'[last] = x /\ \A y \in HeapBlocks \ {last} : ptNext'[y] = ptNext[y]
    BY <1>0, <1>1, <1>2, <1>3, <1>5, Inside
  <2>2. Spells(a, ptQueue, ptNext') /\ ToSet(a) = ToSet(q) \cup {x}
    BY <2>1, SpellsAppend
  <2> HIDE DEF a
  <2> QED
    BY <1>0, <2>1, <2>2
<1>7. LinkTypeOK'
  BY <1>1, <1>3, <1>4, <1>5 DEF LinkState, LinkTypeOK
<1>8. Operation(q, f, a, f)
  <2>1. Size' = iQueueSize + 1
    BY <1>1, <1>2, <1>7, NewSizeIs DEF SizeCounts, Owed, Section
  <2>2. Size = iQueueSize + 0 /\ iQueueSize \in Int
    BY <1>2, Inside DEF Owed
  <2>3. Size' = Size + 1
    BY <2>1, <2>2
  <2> QED
    BY <1>0, <1>1, <1>5, <2>3 DEF Operation
<1> HIDE DEF a
<1>9. Hand(c)'
  BY <1>1, <1>2, <1>5 DEF Hand, Linkless, FullHanded, EmptyHanded, ConsumerLabels
<1>10. Apart(c, a, f)'
  BY <1>0, <1>2 DEF Apart
<1>11. Spells(f, ptFreeItems', ptNext') /\ ToSet(a) \cap ToSet(f) = {}
       /\ ToSet(a) \cup ToSet(f) \subseteq allocated'
  <2>1. /\ Spells(f, ptFreeItems, ptNext) /\ ToSet(q) \cap ToSet(f) = {}
        /\ ToSet(q) \cup ToSet(f) \subseteq allocated
        /\ ToSet(f) \subseteq HeapBlocks
    BY <1>2, Inside
  <2>2. \A y \in ToSet(f) : ptNext'[y] = ptNext[y]
    BY <1>2, <1>3, <2>1
  <2>3. Spells(f, ptFreeItems', ptNext')
    BY <1>1, <2>1, <2>2, SpellsSame
  <2> QED
    BY <1>0, <1>1, <1>5, <1>6, <2>1, <2>3
<1>12. HandsInv' /\ Lists(a, f)'
  <2>1. \A d \in Clients \ {c} : item'[c] = item[d] => item[d] = NULL
    BY <1>1, Held DEF LinkState
  <2> QED
    BY <1>0, <1>2, <1>4, <1>6, <1>9, <1>10, <1>11, <2>1, NewLists
<1>13. Result(q, f, a, f)
  BY <1>0, <1>7, <1>8, <1>12 DEF Result
<1> QED
  BY <1>13

LEMMA AddCountStep ==
  ASSUME NEW q, NEW f, LinkState(q, f), MutexInv', NEW c \in Clients, AddCount(c)
  PROVE  Result(q, f, q, f)
<1>1. /\ Within(c) /\ Go(c, "count", "unlock") /\ iQueueSize' = iQueueSize + 1
      /\ item' = [item EXCEPT ![c] = NULL]
      /\ UNCHANGED <<ptQueue, ptFreeItems, ptNext, allocated, ptTmp>>
  BY DEF Within, AddCount
<1>2. at[c] = "count" /\ at'[c] = "unlock" /\ at[c] \in Section
      /\ at' \in [Clients -> Labels] /\ OthersKept(c)
  BY <1>1, SectionStep
<1>3. item \in [Clients -> Pointer] /\ item'[c] = NULL
  BY <1>1 DEF LinkState, LinkTypeOK
<1>4. LinkTypeOK'
  <2>1. iQueueSize' \in Int
    BY <1>1 DEF LinkState, LinkTypeOK
  <2>2. item' \in [Clients -> Pointer]
    BY <1>1, <1>3 DEF Pointer
  <2> QED
    BY <1>1, <1>2, <2>1, <2>2 DEF LinkState, LinkTypeOK
<1>5. Hand(c)'
  BY <1>2, <1>3 DEF Hand, Linkless, FullHanded, EmptyHanded, ConsumerLabels
<1>6. Apart(c, q, f)'
  BY <1>2, <1>3 DEF Apart
<1>7. HandsInv' /\ Lists(q, f)'
  BY <1>1, <1>2, <1>3, <1>5, <1>6, SameLists
<1>8. Size' = Size
  <2>1. Size' = iQueueSize' + 0
    BY <1>2, <1>4, NewSizeIs DEF SizeCounts, Owed, Section
  <2>2. Size = iQueueSize + 1 /\ iQueueSize \in Int
    BY <1>2, Inside DEF Owed
  <2> QED
    BY <1>1, <2>1, <2>2
<1> QED
  BY <1>1, <1>4, <1>7, <1>8 DEF Result, Operation

-----------------------------------------------------------------------------
(* The head of the queue is popped.                                        *)
LEMMA PopHeadStep ==
  ASSUME NEW q, NEW f, LinkState(q, f), MutexInv', NEW c \in Clients, PopHead(c)
  PROVE  Result(q, f, q, f)
<1>1. /\ Within(c) /\ Go(c, "popBody", "popAdvance") /\ ptQueue # NULL
      /\ item' = [item EXCEPT ![c] = ptQueue]
      /\ UNCHANGED <<ptQueue, ptFreeItems, iQueueSize, ptNext, allocated, ptTmp>>
  BY DEF Within, PopHead, sharedVars
<1>2. at[c] = "popBody" /\ at'[c] = "popAdvance" /\ at[c] \in Section
      /\ at' \in [Clients -> Labels] /\ OthersKept(c)
  BY <1>1, SectionStep
<1>3. /\ q # <<>> /\ ptQueue = q[1] /\ ptQueue \in ToSet(q) /\ ptQueue \in HeapBlocks
      /\ ptQueue \in allocated
  BY <1>1, <1>2, Inside, SpeltHead
<1>4. item \in [Clients -> Pointer] /\ item'[c] = ptQueue
  BY <1>1 DEF LinkState, LinkTypeOK
<1>5. LinkTypeOK'
  BY <1>1, <1>2, <1>3 DEF LinkState, LinkTypeOK, Pointer
<1>6. Hand(c)'
  BY <1>1, <1>2, <1>3, <1>4, Inside DEF Hand, Linkless, FullHanded, EmptyHanded, ConsumerLabels
<1>7. Apart(c, q, f)'
  BY <1>2, <1>3, <1>4 DEF Apart
<1>8. \A d \in Clients \ {c} : item'[c] = item[d] => item[d] = NULL
  BY <1>2, <1>3, <1>4, Inside
<1>9. HandsInv' /\ Lists(q, f)'
  BY <1>1, <1>2, <1>6, <1>7, <1>8, SameLists
<1>10. Size' = Size
  BY <1>1, <1>2, SizeSame DEF OthersKept
<1> QED
  BY <1>1, <1>5, <1>9, <1>10 DEF Result, Operation

LEMMA PopAdvanceStep ==
  ASSUME NEW q, NEW f, LinkState(q, f), MutexInv', NEW c \in Clients, PopAdvance(c)
  PROVE  q # <<>> /\ Result(q, f, Tail(q), f)
<1>1. /\ Within(c) /\ Go(c, "popAdvance", "discount")
      /\ ptQueue' = ptNext[ptQueue]
      /\ UNCHANGED <<ptFreeItems, iQueueSize, ptNext, allocated, item, ptTmp>>
  BY DEF Within, PopAdvance
<1>2. at[c] = "popAdvance" /\ at'[c] = "discount" /\ at[c] \in Section
      /\ at' \in [Clients -> Labels] /\ OthersKept(c)
  BY <1>1, SectionStep
<1>3. q # <<>> /\ item[c] = q[1]
  BY <1>2, Inside DEF Apart
<1>4. ptQueue = q[1] /\ ptQueue \in ToSet(q) /\ ptQueue \in HeapBlocks
  BY <1>2, <1>3, Inside, SpeltHead
<1> DEFINE t == Tail(q)
<1>5. Spells(t, ptQueue', ptNext') /\ ToSet(t) = ToSet(q) \ {ptQueue}
  BY <1>1, <1>2, <1>3, Inside, SpellsTail
<1> HIDE DEF t
<1>6. LinkTypeOK'
  BY <1>1, <1>2, <1>4 DEF LinkState, LinkTypeOK
<1>7. Hand(c)'
  BY <1>1, <1>2, Inside DEF Hand, Linkless, FullHanded, EmptyHanded, ConsumerLabels
<1>8. Apart(c, t, f)'
  BY <1>1, <1>2, <1>3, <1>4, <1>5, Inside DEF Apart
<1>9. \A d \in Clients \ {c} : item'[c] = item[d] => item[d] = NULL
  BY <1>1, Held DEF LinkState
<1>10. Spells(f, ptFreeItems', ptNext') /\ ToSet(t) \cap ToSet(f) = {}
       /\ ToSet(t) \cup ToSet(f) \subseteq allocated'
  BY <1>1, <1>2, <1>5, Inside
<1>11. HandsInv' /\ Lists(t, f)'
  BY <1>2, <1>5, <1>7, <1>8, <1>9, <1>10, NewLists
<1>12. Size' = Size - 1
  <2>1. Size' = iQueueSize - 1
    BY <1>1, <1>2, <1>6, NewSizeIs DEF SizeCounts, Owed, Section
  <2>2. Size = iQueueSize + 0 /\ iQueueSize \in Int
    BY <1>2, Inside DEF Owed
  <2> QED
    BY <2>1, <2>2
<1>13. Result(q, f, t, f)
  BY <1>1, <1>3, <1>6, <1>11, <1>12 DEF Result, Operation, t
<1> QED
  BY <1>3, <1>13 DEF t

LEMMA PopCountStep ==
  ASSUME NEW q, NEW f, LinkState(q, f), MutexInv', NEW c \in Clients, PopCount(c) \/ PopNothing(c)
  PROVE  Result(q, f, q, f)
<1>1. PICK from \in {"discount", "popBody"} : Within(c) /\ Go(c, from, "unlock")
  BY DEF Within, PopCount, PopNothing
<1>2. UNCHANGED <<ptQueue, ptFreeItems, ptNext, allocated, item, ptTmp>> /\ iQueueSize' \in Int
  BY DEF PopCount, PopNothing, sharedVars, LinkState, LinkTypeOK
<1>3. at[c] \in {"discount", "popBody"} /\ at'[c] = "unlock" /\ at[c] \in Section
      /\ at' \in [Clients -> Labels] /\ OthersKept(c)
  BY <1>1, <1>2, SectionStep
<1>4. LinkTypeOK'
  BY <1>2, <1>3 DEF LinkState, LinkTypeOK
<1>5. Hand(c) /\ Apart(c, q, f)
  BY <1>3, Inside
<1>6. Hand(c)'
  BY <1>2, <1>3, <1>5 DEF Hand, Linkless, FullHanded, EmptyHanded, ConsumerLabels
<1>7. Apart(c, q, f)'
  BY <1>2, <1>3, <1>5 DEF Apart
<1>8. HandsInv' /\ Lists(q, f)'
  BY <1>2, <1>3, <1>6, <1>7, SameLists, Held DEF LinkState
<1>9. Size' = Size
  <2>1. Size' = iQueueSize' + 0
    BY <1>3, <1>4, NewSizeIs DEF SizeCounts, Owed, Section
  <2>2. Size = iQueueSize + Owed(at[c]) /\ iQueueSize \in Int
    BY <1>3, Inside
  <2>3. CASE PopCount(c)
    <3>1. at[c] = "discount" /\ iQueueSize' = iQueueSize - 1
      BY <2>3, Goes DEF PopCount, LinkState
    <3> QED
      BY <2>1, <2>2, <3>1 DEF Owed
  <2>4. CASE PopNothing(c)
    <3>1. at[c] = "popBody" /\ iQueueSize' = iQueueSize
      BY <2>4, Goes DEF PopNothing, LinkState, sharedVars
    <3> QED
      BY <2>1, <2>2, <3>1 DEF Owed
  <2> QED
    BY <2>3, <2>4
<1> QED
  BY <1>2, <1>4, <1>8, <1>9 DEF Result, Operation

-----------------------------------------------------------------------------
(* The item is linked to the free list and becomes its head.               *)
LEMMA RecycleLinkStep ==
  ASSUME NEW q, NEW f, LinkState(q, f), MutexInv', NEW c \in Clients, RecycleLink(c)
  PROVE  Result(q, f, q, f)
<1> DEFINE last == item[c]
<1>1. /\ Within(c) /\ Go(c, "recycleBody", "recycleHead") /\ ptFreeItems # NULL
      /\ ptNext' = [ptNext EXCEPT ![last] = ptFreeItems]
      /\ UNCHANGED <<ptQueue, ptFreeItems, iQueueSize, allocated, item, ptTmp>>
  BY DEF Within, RecycleLink
<1>2. at[c] = "recycleBody" /\ at'[c] = "recycleHead" /\ at[c] \in Section
  BY <1>1, Goes DEF LinkState, Section
<1>3. /\ last # NULL /\ last \in HeapBlocks /\ last \in allocated
      /\ last \notin ToSet(q) /\ last \notin ToSet(f) /\ Hand(c)
  BY <1>2, Inside DEF Hand, Apart, FullHanded
<1>4. /\ f # <<>> /\ ptFreeItems = f[1] /\ ptFreeItems \in HeapBlocks
  BY <1>1, <1>2, Inside, SpeltHead
<1>5. /\ ptNext' \in [HeapBlocks -> Pointer] /\ ptNext'[last] = ptFreeItems
      /\ \A x \in HeapBlocks \ {last} : ptNext'[x] = ptNext[x]
  BY <1>1, <1>3, <1>4 DEF LinkState, LinkTypeOK, Pointer
<1>6. at' \in [Clients -> Labels] /\ OthersKept(c)
  BY <1>1, <1>2, <1>5, SectionStep
<1>7. LinkTypeOK'
  BY <1>1, <1>5, <1>6 DEF LinkState, LinkTypeOK
<1>8. Hand(c)'
  BY <1>1, <1>2, <1>3 DEF Hand, Linkless, FullHanded, EmptyHanded, ConsumerLabels
<1>9. Apart(c, q, f)'
  BY <1>1, <1>2, <1>3, <1>4, <1>5 DEF Apart
<1>10. \A x \in ToSet(q) \cup ToSet(f) : ptNext'[x] = ptNext[x]
  BY <1>2, <1>3, <1>5, Inside
<1>11. HandsInv' /\ Lists(q, f)'
  BY <1>1, <1>6, <1>8, <1>9, <1>10, SameLists, Held DEF LinkState
<1>12. Size' = Size
  BY <1>1, <1>2, <1>6, SizeSame DEF OthersKept
<1> QED
  BY <1>1, <1>7, <1>11, <1>12 DEF Result, Operation

LEMMA RecycleHeadStep ==
  ASSUME NEW q, NEW f, LinkState(q, f), MutexInv', NEW c \in Clients, RecycleHead(c)
  PROVE  \E q2, f2 : Result(q, f, q2, f2)
<1>0. PICK x : x = item[c]
  OBVIOUS
<1> DEFINE g == <<x>> \o f
<1>1. PICK from \in {"recycleHead", "recycleBody"} :
        /\ Within(c) /\ Go(c, from, "unlock")
        /\ from = "recycleBody" => ptFreeItems = NULL
  BY <1>0 DEF Within, RecycleHead
<1>2. /\ ptFreeItems' = x /\ item' = [item EXCEPT ![c] = NULL]
      /\ UNCHANGED <<ptQueue, iQueueSize, ptNext, allocated, ptTmp>>
  BY <1>0 DEF RecycleHead
<1>3. at[c] = from /\ at'[c] = "unlock" /\ at[c] \in Section
      /\ at' \in [Clients -> Labels] /\ OthersKept(c)
  BY <1>1, <1>2, SectionStep
<1>4. /\ x # NULL /\ x \in HeapBlocks /\ x \in allocated
      /\ x \notin ToSet(q) /\ x \notin ToSet(f) /\ Hand(c)
  BY <1>0, <1>3, Inside DEF Hand, Apart, FullHanded
<1>5. ptNext[x] = ptFreeItems
  <2>1. CASE from = "recycleHead"
    <3>1. f # <<>> /\ ptNext[x] = f[1]
      BY <1>0, <1>3, <2>1, Inside DEF Apart
    <3> QED
      BY <1>3, <3>1, Inside, SpeltHead
  <2>2. CASE from = "recycleBody"
    BY <1>0, <1>1, <1>3, <1>4, <2>2 DEF Hand, Linkless
  <2> QED
    BY <1>0, <2>1, <2>2
<1>6. Spells(g, ptFreeItems', ptNext') /\ ToSet(g) = ToSet(f) \cup {x}
  BY <1>0, <1>2, <1>3, <1>4, <1>5, Inside, SpellsCons
<1>7. item \in [Clients -> Pointer] /\ item'[c] = NULL
  BY <1>2 DEF LinkState, LinkTypeOK
<1>8. LinkTypeOK'
  BY <1>2, <1>3, <1>4 DEF LinkState, LinkTypeOK, Pointer
<1>9. Operation(q, f, q, g)
  <2>1. Size' = Size
    BY <1>2, <1>3, SizeSame DEF OthersKept
  <2> QED
    BY <1>0, <1>2, <1>4, <2>1 DEF Operation
<1> HIDE DEF g
<1>10. Hand(c)'
  BY <1>3, <1>7 DEF Hand, Linkless, FullHanded, EmptyHanded, ConsumerLabels
<1>11. Apart(c, q, g)'
  BY <1>0, <1>3, <1>7 DEF Apart
<1>12. HandsInv' /\ Lists(q, g)'
  <2>1. Spells(q, ptQueue', ptNext') /\ ToSet(q) \cap ToSet(g) = {}
        /\ ToSet(q) \cup ToSet(g) \subseteq allocated'
    BY <1>0, <1>2, <1>3, <1>4, <1>6, Inside
  <2>2. /\ ToSet(q) \subseteq ToSet(q) \cup ToSet(f) \cup {item[c]}
        /\ ToSet(g) \subseteq ToSet(q) \cup ToSet(f) \cup {item[c]}
    BY <1>0, <1>6
  <2>3. \A d \in Clients \ {c} : item'[c] = item[d] => item[d] = NULL
    BY <1>7
  <2>4. OthersKept(c) /\ at[c] \in Section
    BY <1>3
  <2>5. Spells(g, ptFreeItems', ptNext')
    BY <1>0, <1>6
  <2> QED
    BY <1>0, <1>10, <1>11, <2>1, <2>2, <2>3, <2>4, <2>5, NewLists
<1>13. Result(q, f, q, g)
  BY <1>0, <1>8, <1>9, <1>12 DEF Result
<1> QED
  BY <1>13

-----------------------------------------------------------------------------
(* Every step.                                                             *)
LEMMA StepResult ==
  ASSUME NEW q, NEW f, LinkState(q, f), LinkStep
  PROVE  MutexInv' /\ \E q2, f2 : Result(q, f, q2, f2)
<1>1. MutexInv'
  BY MutexStep DEF LinkState
<1>2. PICK c \in Clients :
        \/ Call(c) \/ Lock(c) \/ Unlock(c)
        \/ Malloc(c) \/ Reuse(c) \/ ReuseAdvance(c) \/ Clear(c)
        \/ AddFirst(c) \/ AddStart(c) \/ AddWalk(c) \/ AddLast(c) \/ AddCount(c)
        \/ PopNothing(c) \/ PopHead(c) \/ PopAdvance(c) \/ PopCount(c)
        \/ RecycleLink(c) \/ RecycleHead(c)
  BY DEF LinkStep
<1>3. CASE Call(c)
  BY <1>1, <1>3, CallStep
<1>4. CASE Lock(c) \/ Unlock(c)
  BY <1>1, <1>4, LockStep
<1>5. CASE Malloc(c)
  BY <1>1, <1>5, MallocStep
<1>6. CASE Reuse(c)
  BY <1>1, <1>6, ReuseStep
<1>7. CASE ReuseAdvance(c)
  BY <1>1, <1>7, ReuseAdvanceStep
<1>8. CASE Clear(c)
  BY <1>1, <1>8, ClearStep
<1>9. CASE AddFirst(c)
  BY <1>1, <1>9, AddFirstStep
<1>10. CASE AddStart(c) \/ AddWalk(c)
  BY <1>1, <1>10, AddWalkStep
<1>11. CASE AddLast(c)
  BY <1>1, <1>11, AddLastStep
<1>12. CASE AddCount(c)
  BY <1>1, <1>12, AddCountStep
<1>13. CASE PopCount(c) \/ PopNothing(c)
  BY <1>1, <1>13, PopCountStep
<1>14. CASE PopHead(c)
  BY <1>1, <1>14, PopHeadStep
<1>15. CASE PopAdvance(c)
  BY <1>1, <1>15, PopAdvanceStep
<1>16. CASE RecycleLink(c)
  BY <1>1, <1>16, RecycleLinkStep
<1>17. CASE RecycleHead(c)
  BY <1>1, <1>17, RecycleHeadStep
<1>18. \E q2, f2 : Result(q, f, q2, f2)
  BY <1>2, <1>3, <1>4, <1>5, <1>6, <1>7, <1>8, <1>9, <1>10, <1>11, <1>12, <1>13, <1>14, <1>15,
     <1>16, <1>17
<1> QED
  BY <1>1, <1>18

LEMMA NextLinkInv == LinkInv /\ [LinkStep]_linkVars => LinkInv'
<1> SUFFICES ASSUME LinkInv, [LinkStep]_linkVars PROVE LinkInv'
  OBVIOUS
<1>1. PICK q, f : LinkState(q, f)
  BY DEF LinkInv, LinkState
<1>2. CASE LinkStep
  <2>1. MutexInv' /\ \E q2, f2 : Result(q, f, q2, f2)
    BY <1>1, <1>2, StepResult
  <2>2. PICK q2, f2 : Result(q, f, q2, f2)
    BY <2>1
  <2>3. q2 \in Seq(HeapBlocks) /\ f2 \in Seq(HeapBlocks)
    BY <2>2 DEF Result, Lists, Spells
  <2> QED
    BY <2>1, <2>2, <2>3 DEF Result, LinkInv
<1>3. CASE UNCHANGED linkVars
  <2>1. LinkTypeOK' /\ MutexInv' /\ HandsInv'
    BY <1>3 DEF LinkInv, linkVars, sharedVars, LinkTypeOK, MutexInv, HandsInv, Hand, Linkless
  <2>2. Lists(q, f)'
    BY <1>1, <1>3 DEF LinkState, Lists, Apart, linkVars, sharedVars
  <2>3. q \in Seq(HeapBlocks) /\ f \in Seq(HeapBlocks)
    BY <1>1 DEF LinkState, Lists, Spells
  <2> QED
    BY <2>1, <2>2, <2>3 DEF LinkInv
<1> QED
  BY <1>2, <1>3

(* In every reachable state the links spell two lists without repetition   *)
(* and without an item in common, a client in a critical section has the   *)
(* mutex, no two clients hold the same item, and what they hold is out of  *)
(* the lists until the assignment that links it (queues.c:69-174).        *)
THEOREM ListsSpelt == LinkSpec => []LinkInv
<1>1. LinkInit => LinkInv
  BY InitLinkInv
<1>2. LinkInv /\ [LinkStep]_linkVars => LinkInv'
  BY NextLinkInv
<1> QED
  BY <1>1, <1>2, PTL DEF LinkSpec

-----------------------------------------------------------------------------
(* The refinement: what the mapped variables are, and that every operation *)
(* on the lists is one of Queues.                                          *)
LEMMA FeedbackExcept ==
  ASSUME NEW v, NEW w, NEW z
  PROVE  /\ [[FEEDBACK |-> v, SENDCMDS |-> z] EXCEPT !["FEEDBACK"] = w]
              = [FEEDBACK |-> w, SENDCMDS |-> z]
         /\ [FEEDBACK |-> v, SENDCMDS |-> z]["FEEDBACK"] = v
  OBVIOUS

LEMMA SpeltChains ==
  ASSUME NEW q, NEW f, Lists(q, f)
  PROVE  Chain(ptQueue, ptNext) = q /\ Chain(ptFreeItems, ptNext) = f
  BY ChainIs DEF Lists

LEMMA OperationImplemented ==
  ASSUME LinkTypeOK, NEW q, NEW f, Lists(q, f), NEW q2, NEW f2, Lists(q2, f2)',
         Operation(q, f, q2, f2)
  PROVE  \/ UNCHANGED AtomicQueues!listVars
         \/ \E i \in HeapBlocks :
              \/ AtomicQueues!addItemToQueue("FEEDBACK", i)
              \/ AtomicQueues!getFreshItemFromQueue("FEEDBACK", i)
              \/ AtomicQueues!popItemFromQueue("FEEDBACK")
              \/ AtomicQueues!recycleItemAtQueue("FEEDBACK", i)
<1> DEFINE none == <<>>
           nowhere == {}
           queue == [FEEDBACK |-> Chain(ptQueue, ptNext), SENDCMDS |-> none]
           free == [FEEDBACK |-> Chain(ptFreeItems, ptNext), SENDCMDS |-> none]
           size == [FEEDBACK |-> Size, SENDCMDS |-> 0]
           blocks == [FEEDBACK |-> allocated, SENDCMDS |-> nowhere]
<1>1. /\ queue = [FEEDBACK |-> q, SENDCMDS |-> none]
      /\ free = [FEEDBACK |-> f, SENDCMDS |-> none]
      /\ queue' = [FEEDBACK |-> q2, SENDCMDS |-> none]
      /\ free' = [FEEDBACK |-> f2, SENDCMDS |-> none]
  <2>1. Chain(ptQueue, ptNext) = q /\ Chain(ptFreeItems, ptNext) = f
    BY SpeltChains
  <2>2. Chain(ptQueue', ptNext') = q2 /\ Chain(ptFreeItems', ptNext') = f2
    BY ChainIs DEF Lists
  <2> QED
    BY <2>1, <2>2
<1>2. /\ \A i \in HeapBlocks :
           /\ AtomicQueues!addItemToQueue("FEEDBACK", i)
                <=> /\ queue' = [queue EXCEPT !["FEEDBACK"] = Append(queue["FEEDBACK"], i)]
                    /\ size' = [size EXCEPT !["FEEDBACK"] = size["FEEDBACK"] + 1]
                    /\ UNCHANGED <<free, blocks>>
           /\ AtomicQueues!recycleItemAtQueue("FEEDBACK", i)
                <=> /\ free' = [free EXCEPT !["FEEDBACK"] = <<i>> \o free["FEEDBACK"]]
                    /\ UNCHANGED <<queue, size, blocks>>
      /\ AtomicQueues!popItemFromQueue("FEEDBACK")
           <=> /\ IF queue["FEEDBACK"] = none
                    THEN UNCHANGED <<queue, size>>
                    ELSE /\ queue' = [queue EXCEPT !["FEEDBACK"] = Tail(queue["FEEDBACK"])]
                         /\ size' = [size EXCEPT !["FEEDBACK"] = size["FEEDBACK"] - 1]
               /\ UNCHANGED <<free, blocks>>
  BY Zenon DEF AtomicQueues!addItemToQueue, AtomicQueues!recycleItemAtQueue,
     AtomicQueues!popItemFromQueue, Size
<1>3. ASSUME NEW i \in HeapBlocks, f = none, i \in HeapBlocks \ allocated,
             i = Fresh(HeapBlocks \ allocated),
             blocks' = [blocks EXCEPT !["FEEDBACK"] = blocks["FEEDBACK"] \cup {i}],
             UNCHANGED <<queue, free, size>>
      PROVE  AtomicQueues!getFreshItemFromQueue("FEEDBACK", i)
  <2> DEFINE unallocated == AtomicQueues!Unallocated("FEEDBACK")
  <2>1. unallocated = HeapBlocks \ allocated
    BY DEF AtomicQueues!Unallocated, AtomicQueues!Blocks, AtomicQueues!SENDCMDS
  <2> HIDE DEF unallocated
  <2>2. i \in unallocated /\ i = Fresh(unallocated)
    BY <1>3, <2>1
  <2>3. i = CHOOSE j \in unallocated : TRUE
    BY <2>2, Zenon DEF Fresh
  <2>4. AtomicQueues!allocateItem("FEEDBACK", i)
    BY <1>3, <2>2, <2>3, Zenon DEF AtomicQueues!allocateItem, unallocated
  <2>5. free["FEEDBACK"] = none
    BY <1>1, <1>3
  <2> QED
    BY <1>3, <2>4, <2>5, Zenon DEF AtomicQueues!getFreshItemFromQueue, Size
<1>4. ASSUME NEW i \in HeapBlocks, f # none, i = Head(f),
             free' = [free EXCEPT !["FEEDBACK"] = Tail(free["FEEDBACK"])],
             UNCHANGED <<queue, size, blocks>>
      PROVE  AtomicQueues!getFreshItemFromQueue("FEEDBACK", i)
  <2>1. free["FEEDBACK"] = f
    BY <1>1
  <2>2. AtomicQueues!reuseItem("FEEDBACK", i)
    BY <1>4, <2>1, Zenon DEF AtomicQueues!reuseItem
  <2> QED
    BY <1>4, <2>1, <2>2, Zenon DEF AtomicQueues!getFreshItemFromQueue, Size
<1>5. /\ queue["FEEDBACK"] = q /\ free["FEEDBACK"] = f /\ size["FEEDBACK"] = Size
      /\ blocks["FEEDBACK"] = allocated
  BY <1>1
<1>6. /\ \A v : [queue EXCEPT !["FEEDBACK"] = v] = [FEEDBACK |-> v, SENDCMDS |-> none]
      /\ \A v : [free EXCEPT !["FEEDBACK"] = v] = [FEEDBACK |-> v, SENDCMDS |-> none]
      /\ \A v : [size EXCEPT !["FEEDBACK"] = v] = [FEEDBACK |-> v, SENDCMDS |-> 0]
      /\ \A v : [blocks EXCEPT !["FEEDBACK"] = v] = [FEEDBACK |-> v, SENDCMDS |-> nowhere]
  BY FeedbackExcept, Zenon
<1>7. size' = [FEEDBACK |-> Size', SENDCMDS |-> 0]
      /\ blocks' = [FEEDBACK |-> allocated', SENDCMDS |-> nowhere]
  OBVIOUS
<1>8. CASE q2 = q /\ f2 = f /\ Size' = Size /\ allocated' = allocated
  <2>1. UNCHANGED <<queue, free, size, blocks>>
    BY <1>1, <1>8
  <2> QED
    BY <2>1, Zenon DEF AtomicQueues!listVars, Size
<1>9. CASE /\ \E x \in HeapBlocks : q2 = Append(q, x)
           /\ f2 = f /\ Size' = Size + 1 /\ allocated' = allocated
  <2>1. PICK x \in HeapBlocks : q2 = Append(q, x)
    BY <1>9
  <2>2. queue' = [queue EXCEPT !["FEEDBACK"] = Append(q, x)]
        /\ size' = [size EXCEPT !["FEEDBACK"] = Size + 1] /\ UNCHANGED <<free, blocks>>
    BY <1>1, <1>6, <1>7, <1>9, <2>1
  <2> HIDE DEF queue, free, size, blocks
  <2> QED
    BY <1>2, <1>5, <2>2, Zenon
<1>10. CASE q # none /\ q2 = Tail(q) /\ f2 = f /\ Size' = Size - 1 /\ allocated' = allocated
  <2>1. queue' = [queue EXCEPT !["FEEDBACK"] = Tail(q)]
        /\ size' = [size EXCEPT !["FEEDBACK"] = Size - 1] /\ UNCHANGED <<free, blocks>>
    BY <1>1, <1>6, <1>7, <1>10
  <2>2. HeapBlocks # {}
    <3>1. q # <<>> /\ Spells(q, ptQueue, ptNext)
      BY <1>10 DEF Lists
    <3> QED
      BY <3>1, SpeltHead
  <2> HIDE DEF queue, free, size, blocks
  <2>3. AtomicQueues!popItemFromQueue("FEEDBACK")
    BY <1>2, <1>5, <1>10, <2>1, Zenon
  <2> QED
    BY <2>2, <2>3
<1>11. CASE f # none /\ q2 = q /\ f2 = Tail(f) /\ Size' = Size /\ allocated' = allocated
  <2>1. free' = [free EXCEPT !["FEEDBACK"] = Tail(f)] /\ UNCHANGED <<queue, size, blocks>>
    BY <1>1, <1>6, <1>7, <1>11
  <2>2. Head(f) \in HeapBlocks
    <3>1. f # <<>> /\ Spells(f, ptFreeItems, ptNext)
      BY <1>11 DEF Lists
    <3> QED
      BY <3>1, SpeltHead
  <2> HIDE DEF queue, free, size, blocks
  <2>3. free' = [free EXCEPT !["FEEDBACK"] = Tail(free["FEEDBACK"])]
    BY <1>5, <2>1, Zenon
  <2> QED
    BY <1>4, <1>11, <2>1, <2>2, <2>3
<1>12. CASE /\ f = none /\ q2 = q /\ f2 = f /\ Size' = Size
            /\ HeapBlocks \ allocated # {}
            /\ allocated' = allocated \cup {Fresh(HeapBlocks \ allocated)}
  <2> DEFINE new == Fresh(HeapBlocks \ allocated)
  <2>1. new \in HeapBlocks \ allocated
    BY <1>12, Zenon DEF Fresh
  <2>a. allocated' = allocated \cup {new} /\ new = Fresh(HeapBlocks \ allocated)
    BY <1>12
  <2> HIDE DEF new
  <2>2. blocks' = [blocks EXCEPT !["FEEDBACK"] = allocated \cup {new}]
        /\ UNCHANGED <<queue, free, size>>
    BY <1>1, <1>6, <1>7, <1>12, <2>a
  <2> HIDE DEF queue, free, size, blocks
  <2>3. blocks' = [blocks EXCEPT !["FEEDBACK"] = blocks["FEEDBACK"] \cup {new}]
    BY <1>5, <2>2, Zenon
  <2> QED
    BY <1>3, <1>12, <2>1, <2>a, <2>2, <2>3
<1>13. CASE /\ \E x \in HeapBlocks : f2 = <<x>> \o f
            /\ q2 = q /\ Size' = Size /\ allocated' = allocated
  <2>1. PICK x \in HeapBlocks : f2 = <<x>> \o f
    BY <1>13
  <2>2. free' = [free EXCEPT !["FEEDBACK"] = <<x>> \o f] /\ UNCHANGED <<queue, size, blocks>>
    BY <1>1, <1>6, <1>7, <1>13, <2>1
  <2> HIDE DEF queue, free, size, blocks
  <2> QED
    BY <1>2, <1>5, <2>2, Zenon
<1> QED
  BY <1>8, <1>9, <1>10, <1>11, <1>12, <1>13 DEF Operation

LEMMA StepImplemented ==
  LinkInv /\ [LinkStep]_linkVars
    => [\E i \in HeapBlocks :
          \/ AtomicQueues!addItemToQueue("FEEDBACK", i)
          \/ AtomicQueues!getFreshItemFromQueue("FEEDBACK", i)
          \/ AtomicQueues!popItemFromQueue("FEEDBACK")
          \/ AtomicQueues!recycleItemAtQueue("FEEDBACK", i)]_(AtomicQueues!listVars)
<1>1. ASSUME LinkInv, LinkStep
      PROVE  \/ UNCHANGED AtomicQueues!listVars
             \/ \E i \in HeapBlocks :
                  \/ AtomicQueues!addItemToQueue("FEEDBACK", i)
                  \/ AtomicQueues!getFreshItemFromQueue("FEEDBACK", i)
                  \/ AtomicQueues!popItemFromQueue("FEEDBACK")
                  \/ AtomicQueues!recycleItemAtQueue("FEEDBACK", i)
  <2>1. PICK q, f : LinkState(q, f)
    BY <1>1 DEF LinkInv, LinkState
  <2>2. PICK q2, f2 : Result(q, f, q2, f2)
    BY <1>1, <2>1, StepResult
  <2>3. LinkTypeOK /\ Lists(q, f) /\ Lists(q2, f2)' /\ Operation(q, f, q2, f2)
    BY <2>1, <2>2 DEF LinkState, Result
  <2> QED
    BY <2>3, OperationImplemented
<1>2. ASSUME UNCHANGED linkVars PROVE UNCHANGED AtomicQueues!listVars
  <2>1. Chain(ptQueue, ptNext)' = Chain(ptQueue, ptNext)
        /\ Chain(ptFreeItems, ptNext)' = Chain(ptFreeItems, ptNext)
        /\ iQueueSize' = iQueueSize /\ allocated' = allocated /\ at' = at
    BY <1>2 DEF linkVars, sharedVars
  <2>2. Counting("count")' = Counting("count") /\ Counting("discount")' = Counting("discount")
    BY <2>1 DEF Counting
  <2> QED
    BY <2>1, <2>2 DEF AtomicQueues!listVars
<1> QED
  BY <1>1, <1>2

(* Whatever the threads do between one another's assignments, the lists    *)
(* and the counter of a queue change only as by the atomic operations of   *)
(* Queues (queues.c:69-174).                                              *)
THEOREM QueuesAreLinked == LinkSpec => QueuesImplemented
<1>1. LinkSpec => []LinkInv
  BY ListsSpelt
<1>2. LinkInv /\ [LinkStep]_linkVars
        => [\E i \in HeapBlocks :
              \/ AtomicQueues!addItemToQueue("FEEDBACK", i)
              \/ AtomicQueues!getFreshItemFromQueue("FEEDBACK", i)
              \/ AtomicQueues!popItemFromQueue("FEEDBACK")
              \/ AtomicQueues!recycleItemAtQueue("FEEDBACK", i)]_(AtomicQueues!listVars)
  BY StepImplemented
<1> QED
  BY <1>1, <1>2, PTL DEF LinkSpec, QueuesImplemented

=============================================================================
