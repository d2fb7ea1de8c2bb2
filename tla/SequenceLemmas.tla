--------------------------- MODULE SequenceLemmas ---------------------------
(***************************************************************************)
(* Facts about sequences, the elements in them and their repetitions, and  *)
(* about natural numbers, that the proofs about the queues cite.           *)
(***************************************************************************)
EXTENDS SequencesExt, SequenceTheorems, FiniteSetTheorems, WellFoundedInduction, TLAPS

(* The elements of a sequence after append and tail.                       *)
LEMMA AppendElements ==
  ASSUME NEW T, NEW s \in Seq(T), NEW e \in T
  PROVE  ToSet(Append(s, e)) = ToSet(s) \cup {e}
  BY AppendProperties, LenProperties DEF ToSet

LEMMA TailElements ==
  ASSUME NEW T, NEW s \in Seq(T), s # <<>>
  PROVE  Head(s) \in ToSet(s) /\ ToSet(Tail(s)) \subseteq ToSet(s)
  BY HeadTailProperties, LenProperties, EmptySeq DEF ToSet

LEMMA EmptyElements == ToSet(<<>>) = {}
  BY DEF ToSet

(* A sequence is free of repetitions if its elements at any two places     *)
(* differ; so are the halves of one, and they share no element.            *)
LEMMA ConcatInjective ==
  ASSUME NEW T, NEW s \in Seq(T), NEW t \in Seq(T)
  PROVE  IsInjective(s \o t)
           <=> IsInjective(s) /\ IsInjective(t) /\ ToSet(s) \cap ToSet(t) = {}
<1> DEFINE c == s \o t
<1>1. /\ DOMAIN s = 1 .. Len(s) /\ DOMAIN t = 1 .. Len(t) /\ DOMAIN c = 1 .. Len(s) + Len(t)
      /\ Len(s) \in Nat /\ Len(t) \in Nat
      /\ \A i \in 1 .. Len(s) : i \in DOMAIN c /\ c[i] = s[i]
      /\ \A i \in 1 .. Len(t) : Len(s) + i \in DOMAIN c /\ c[Len(s) + i] = t[i]
      /\ \A k \in DOMAIN c : k \in 1 .. Len(s) \/ \E i \in 1 .. Len(t) : k = Len(s) + i
  <2>1. c \in Seq(T) /\ Len(c) = Len(s) + Len(t)
        /\ \A i \in 1 .. Len(s) + Len(t) : c[i] = IF i <= Len(s) THEN s[i] ELSE t[i - Len(s)]
    BY ConcatProperties
  <2>2. Len(s) \in Nat /\ Len(t) \in Nat /\ DOMAIN s = 1 .. Len(s) /\ DOMAIN t = 1 .. Len(t)
        /\ DOMAIN c = 1 .. Len(c)
    BY <2>1, LenProperties
  <2> HIDE DEF c
  <2>3. ASSUME NEW k \in 1 .. Len(s) + Len(t), k \notin 1 .. Len(s)
        PROVE  \E i \in 1 .. Len(t) : k = Len(s) + i
    <3>1. k - Len(s) \in 1 .. Len(t) /\ k = Len(s) + (k - Len(s))
      BY <2>2, <2>3
    <3> QED
      BY <3>1
  <2>4. ASSUME NEW i \in 1 .. Len(t)
        PROVE  Len(s) + i \in 1 .. Len(s) + Len(t) /\ c[Len(s) + i] = t[i]
    <3>1. Len(s) + i \in 1 .. Len(s) + Len(t) /\ ~(Len(s) + i <= Len(s)) /\ (Len(s) + i) - Len(s) = i
      BY <2>2
    <3> QED
      BY <2>1, <3>1
  <2>5. \A i \in 1 .. Len(s) : i \in 1 .. Len(s) + Len(t) /\ c[i] = s[i]
    BY <2>1, <2>2
  <2>6. DOMAIN c = 1 .. Len(s) + Len(t)
    BY <2>1, <2>2
  <2> QED
    BY <2>2, <2>3, <2>4, <2>5, <2>6
<1> HIDE DEF c
<1>2. ASSUME IsInjective(c)
      PROVE  IsInjective(s) /\ IsInjective(t) /\ ToSet(s) \cap ToSet(t) = {}
  <2>1. IsInjective(s)
    BY <1>1, <1>2 DEF IsInjective
  <2>2. ASSUME NEW i \in 1 .. Len(t), NEW j \in 1 .. Len(t), t[i] = t[j]
        PROVE  i = j
    <3>1. Len(s) + i = Len(s) + j
      BY <1>1, <1>2, <2>2 DEF IsInjective
    <3> QED
      BY <1>1, <3>1
  <2>3. ASSUME NEW i \in 1 .. Len(s), NEW j \in 1 .. Len(t), s[i] = t[j]
        PROVE  FALSE
    <3>1. i = Len(s) + j
      BY <1>1, <1>2, <2>3 DEF IsInjective
    <3> QED
      BY <1>1, <3>1
  <2> QED
    BY <1>1, <2>1, <2>2, <2>3 DEF IsInjective, ToSet
<1>3. ASSUME IsInjective(s), IsInjective(t), ToSet(s) \cap ToSet(t) = {}
      PROVE  IsInjective(c)
  <2> SUFFICES ASSUME NEW j \in DOMAIN c, NEW k \in DOMAIN c, c[j] = c[k] PROVE j = k
    BY DEF IsInjective
  <2>1. CASE j \in 1 .. Len(s) /\ k \in 1 .. Len(s)
    BY <1>1, <1>3, <2>1 DEF IsInjective
  <2>2. CASE j \notin 1 .. Len(s) /\ k \notin 1 .. Len(s)
    <3>1. PICK i \in 1 .. Len(t), l \in 1 .. Len(t) : j = Len(s) + i /\ k = Len(s) + l
      BY <1>1, <2>2
    <3>2. t[i] = t[l]
      BY <1>1, <3>1
    <3> QED
      BY <1>1, <1>3, <3>1, <3>2 DEF IsInjective
  <2>3. \A i \in 1 .. Len(s), l \in 1 .. Len(t) : s[i] # t[l]
    BY <1>1, <1>3 DEF ToSet
  <2>4. CASE j \in 1 .. Len(s) /\ k \notin 1 .. Len(s)
    BY <1>1, <2>3, <2>4
  <2>5. CASE j \notin 1 .. Len(s) /\ k \in 1 .. Len(s)
    BY <1>1, <2>3, <2>5
  <2> QED
    BY <2>1, <2>2, <2>4, <2>5
<1> QED
  BY <1>2, <1>3 DEF c

(* Taking the head off and putting an element at the end.                  *)
LEMMA TailInjective ==
  ASSUME NEW T, NEW s \in Seq(T), s # <<>>, IsInjective(s)
  PROVE  IsInjective(Tail(s)) /\ ToSet(Tail(s)) = ToSet(s) \ {Head(s)}
<1>1. /\ Len(s) \in Nat /\ Len(s) > 0 /\ DOMAIN s = 1 .. Len(s)
      /\ DOMAIN Tail(s) = 1 .. Len(s) - 1
      /\ \A i \in 1 .. Len(s) - 1 : Tail(s)[i] = s[i + 1] /\ i + 1 \in DOMAIN s
      /\ Head(s) = s[1]
  <2>1. Len(s) \in Nat \ {0} /\ Tail(s) \in Seq(T) /\ Len(Tail(s)) = Len(s) - 1
        /\ \A i \in 1 .. Len(Tail(s)) : Tail(s)[i] = s[i + 1]
    BY EmptySeq, HeadTailProperties
  <2>2. DOMAIN s = 1 .. Len(s) /\ DOMAIN Tail(s) = 1 .. Len(Tail(s))
    BY <2>1, LenProperties
  <2>3. Head(s) = s[1]
    OBVIOUS
  <2> QED
    BY <2>1, <2>2, <2>3
<1>2. IsInjective(Tail(s))
  <2> SUFFICES ASSUME NEW i \in 1 .. Len(s) - 1, NEW j \in 1 .. Len(s) - 1, s[i + 1] = s[j + 1]
               PROVE  i = j
    BY <1>1 DEF IsInjective
  <2>1. i + 1 = j + 1
    BY <1>1 DEF IsInjective
  <2> QED
    BY <1>1, <2>1
<1>3. ASSUME NEW i \in 1 .. Len(s) - 1
      PROVE  s[i + 1] \in ToSet(s) \ {s[1]}
  <2>1. i + 1 # 1 /\ 1 \in DOMAIN s
    BY <1>1
  <2> QED
    BY <1>1, <2>1 DEF IsInjective, ToSet
<1>4. ASSUME NEW k \in DOMAIN s, s[k] # s[1]
      PROVE  s[k] \in ToSet(Tail(s))
  <2>1. k - 1 \in 1 .. Len(s) - 1 /\ k = (k - 1) + 1
    BY <1>1, <1>4
  <2>2. Tail(s)[k - 1] = s[k]
    BY <1>1, <2>1
  <2> QED
    BY <1>1, <2>1, <2>2 DEF ToSet
<1> QED
  BY <1>1, <1>2, <1>3, <1>4 DEF ToSet

LEMMA OneElement ==
  ASSUME NEW T, NEW e \in T
  PROVE  <<e>> \in Seq(T) /\ IsInjective(<<e>>) /\ ToSet(<<e>>) = {e}
<1>1. <<e>> \in Seq(T)
  OBVIOUS
<1>2. DOMAIN <<e>> = {1} /\ <<e>>[1] = e
  BY <1>1
<1> DEFINE o == <<e>>
<1>3. o \in Seq(T) /\ DOMAIN o = {1} /\ o[1] = e
  BY <1>1, <1>2
<1> HIDE DEF o
<1>4. o \in Seq(T) /\ IsInjective(o) /\ ToSet(o) = {e}
  BY <1>3 DEF IsInjective, ToSet
<1> QED
  BY <1>4 DEF o

LEMMA AppendKeepsInjective ==
  ASSUME NEW T, NEW s \in Seq(T), NEW e \in T, IsInjective(s), e \notin ToSet(s)
  PROVE  IsInjective(Append(s, e))
<1>1. Append(s, e) = s \o <<e>> /\ ToSet(s) \cap ToSet(<<e>>) = {}
  BY AppendIsConcat, OneElement
<1>2. <<e>> \in Seq(T) /\ IsInjective(<<e>>)
  BY OneElement
<1>3. IsInjective(s \o <<e>>)
  BY <1>1, <1>2, ConcatInjective
<1> QED
  BY <1>1, <1>3

LEMMA ConcatElements ==
  ASSUME NEW T, NEW s \in Seq(T), NEW t \in Seq(T)
  PROVE  ToSet(s \o t) = ToSet(s) \cup ToSet(t)
<1>1. Range(s \o t) = Range(s) \cup Range(t)
  BY RangeConcatenation
<1>2. ToSet(s \o t) = Range(s \o t) /\ ToSet(s) = Range(s) /\ ToSet(t) = Range(t)
  BY Zenon DEF ToSet, Range
<1> QED
  BY <1>1, <1>2

LEMMA ConsInjective ==
  ASSUME NEW T, NEW s \in Seq(T), NEW e \in T, IsInjective(s), e \notin ToSet(s)
  PROVE  IsInjective(<<e>> \o s) /\ ToSet(<<e>> \o s) = ToSet(s) \cup {e}
<1> DEFINE o == <<e>>
<1>1. o \in Seq(T) /\ IsInjective(o) /\ ToSet(o) = {e}
  BY OneElement
<1> HIDE DEF o
<1>2. IsInjective(o \o s) /\ ToSet(o \o s) = ToSet(o) \cup ToSet(s)
  BY <1>1, ConcatInjective, ConcatElements
<1> QED
  BY <1>1, <1>2 DEF o

(* What is put at the end of the second half is at the end of the whole;   *)
(* what is put before a sequence is its head.                              *)
LEMMA ConcatAppend ==
  ASSUME NEW T, NEW s \in Seq(T), NEW t \in Seq(T), NEW e \in T
  PROVE  s \o Append(t, e) = Append(s \o t, e)
<1> DEFINE a == Append(t, e)
           st == s \o t
           l == s \o a
           r == Append(st, e)
<1>1. /\ a \in Seq(T) /\ Len(a) = Len(t) + 1 /\ a[Len(t) + 1] = e
      /\ \A i \in 1 .. Len(t) : a[i] = t[i]
  BY AppendProperties
<1>2. /\ st \in Seq(T) /\ Len(st) = Len(s) + Len(t)
      /\ \A i \in 1 .. Len(s) + Len(t) : st[i] = IF i <= Len(s) THEN s[i] ELSE t[i - Len(s)]
  BY ConcatProperties
<1>3. Len(s) \in Nat /\ Len(t) \in Nat
  BY LenProperties
<1> HIDE DEF a, st
<1>b. a \in Seq(T) /\ st \in Seq(T)
  BY <1>1, <1>2
<1>4. /\ l \in Seq(T) /\ Len(l) = Len(s) + Len(a)
      /\ \A i \in 1 .. Len(s) + Len(a) : l[i] = IF i <= Len(s) THEN s[i] ELSE a[i - Len(s)]
  BY <1>b, ConcatProperties
<1>5. /\ r \in Seq(T) /\ Len(r) = Len(st) + 1 /\ r[Len(st) + 1] = e
      /\ \A i \in 1 .. Len(st) : r[i] = st[i]
  BY <1>b, AppendProperties
<1> HIDE DEF l, r
<1>6. Len(l) = Len(r) /\ Len(l) = Len(s) + Len(t) + 1
  BY <1>1, <1>2, <1>3, <1>4, <1>5
<1>7. ASSUME NEW i \in 1 .. Len(l) PROVE l[i] = r[i]
  <2>1. CASE i <= Len(s)
    <3>1. i \in 1 .. Len(s) + Len(t) /\ i \in 1 .. Len(s) + Len(a) /\ i \in 1 .. Len(st)
      BY <1>1, <1>2, <1>3, <1>6, <2>1
    <3> QED
      BY <1>2, <1>4, <1>5, <2>1, <3>1
  <2>2. CASE ~(i <= Len(s)) /\ i <= Len(s) + Len(t)
    <3>1. i - Len(s) \in 1 .. Len(t)
      BY <1>3, <1>6, <2>2
    <3>2. l[i] = t[i - Len(s)]
      BY <1>1, <1>4, <2>2, <3>1
    <3> QED
      BY <1>2, <1>3, <1>5, <2>2, <3>2
  <2>3. CASE i = Len(s) + Len(t) + 1
    <3>1. ~(i <= Len(s)) /\ i - Len(s) = Len(t) + 1
      BY <1>3, <2>3
    <3> QED
      BY <1>1, <1>2, <1>4, <1>5, <2>3, <3>1
  <2> QED
    BY <1>3, <1>6, <2>1, <2>2, <2>3
<1>8. l = r
  BY <1>4, <1>5, <1>6, <1>7, SeqEqual
<1> QED
  BY <1>8 DEF l, r, a, st

LEMMA ConsTail ==
  ASSUME NEW T, NEW e \in T, NEW s \in Seq(T)
  PROVE  <<e>> \o s # <<>> /\ Tail(<<e>> \o s) = s
<1> DEFINE o == <<e>>
           c == o \o s
<1>1. o \in Seq(T) /\ Len(o) = 1
  BY OneElement
<1> HIDE DEF o
<1>0. /\ c \in Seq(T) /\ Len(c) = Len(o) + Len(s) /\ Len(s) \in Nat
      /\ \A i \in 1 .. Len(o) + Len(s) : c[i] = IF i <= Len(o) THEN o[i] ELSE s[i - Len(o)]
  BY <1>1, ConcatProperties, LenProperties
<1> HIDE DEF c
<1>2. /\ c \in Seq(T) /\ Len(c) = 1 + Len(s) /\ Len(s) \in Nat
      /\ \A i \in 1 .. 1 + Len(s) : c[i] = IF i <= 1 THEN o[i] ELSE s[i - 1]
  BY <1>0, <1>1
<1>3. c # <<>>
  BY <1>2, EmptySeq
<1>4. /\ Tail(c) \in Seq(T) /\ Len(Tail(c)) = Len(s)
      /\ \A i \in 1 .. Len(s) : Tail(c)[i] = c[i + 1]
  BY <1>2, <1>3, HeadTailProperties
<1>5. ASSUME NEW i \in 1 .. Len(s) PROVE Tail(c)[i] = s[i]
  <2>1. i + 1 \in 1 .. 1 + Len(s) /\ ~(i + 1 <= 1) /\ (i + 1) - 1 = i
    BY <1>2
  <2> QED
    BY <1>2, <1>4, <2>1
<1>6. Tail(c) = s
  BY <1>2, <1>4, <1>5, SeqEqual
<1> QED
  BY <1>3, <1>6 DEF o, c
-----------------------------------------------------------------------------
(* Induction without a predicate: a set of natural numbers has a least.    *)
LEMMA LeastNumber ==
  ASSUME NEW T \in SUBSET Nat, T # {}
  PROVE  \E x \in T : \A y \in T : x <= y
<1> DEFINE Less == {p \in Nat \X Nat : p[1] < p[2]}
<1>1. IsWellFoundedOn(Less, Nat)
  BY NatLessThanWellFounded DEF OpToRel
<1> HIDE DEF Less
<1>2. PICK x \in T : \A y \in T : <<y, x>> \notin Less
  BY <1>1, WFMin
<1>3. \A y \in T : ~(y < x)
  BY <1>2 DEF Less
<1> QED
  BY <1>3

(* FoldLeft works on prefixes: what it takes off is the last place.        *)
LEMMA MaxOfInterval ==
  ASSUME NEW k \in Nat \ {0}
  PROVE  Max(1 .. k) = k /\ (1 .. k) \ {k} = 1 .. k - 1 /\ 1 .. k # {}
<1> DEFINE IsMax(x) == x \in 1 .. k /\ \A y \in 1 .. k : x >= y
<1>1. Max(1 .. k) = CHOOSE x : IsMax(x)
  BY DEF Max
<1>2. IsMax(k)
  OBVIOUS
<1>3. \A x : IsMax(x) => x = k
  <2> SUFFICES ASSUME NEW x, IsMax(x) PROVE x = k
    OBVIOUS
  <2> QED
    BY <1>2
<1> HIDE DEF IsMax
<1>4. IsMax(CHOOSE x : IsMax(x))
  BY <1>2, Zenon
<1>5. (CHOOSE x : IsMax(x)) = k
  BY <1>3, <1>4, Zenon
<1>6. \A x : x \in (1 .. k) \ {k} <=> x \in 1 .. k - 1
  OBVIOUS
<1>7. (1 .. k) \ {k} = 1 .. k - 1
  BY <1>6, Zenon
<1>8. 1 .. k # {}
  <2>1. k \in 1 .. k
    OBVIOUS
  <2> QED
    BY <2>1
<1>9. Max(1 .. k) = k
  BY <1>1, <1>5, Zenon
<1>10. QED
  BY <1>7, <1>8, <1>9

(* The same of any set of the first numbers that has the last of them.     *)
LEMMA MaxOfPrefix ==
  ASSUME NEW k \in Nat \ {0}, NEW S \in SUBSET (1 .. k), k \in S
  PROVE  Max(S) = k
<1> DEFINE IsMax(x) == x \in S /\ \A y \in S : x >= y
<1>1. Max(S) = CHOOSE x : IsMax(x)
  BY Zenon DEF Max
<1>2. IsMax(k)
  OBVIOUS
<1>3. \A x : IsMax(x) => x = k
  <2> SUFFICES ASSUME NEW x, IsMax(x) PROVE x = k
    OBVIOUS
  <2>1. x >= k /\ x \in 1 .. k
    OBVIOUS
  <2> QED
    BY <2>1
<1> HIDE DEF IsMax
<1>4. IsMax(CHOOSE x : IsMax(x))
  BY <1>2, Zenon
<1>5. (CHOOSE x : IsMax(x)) = k
  BY <1>3, <1>4, Zenon
<1> QED
  BY <1>1, <1>5

(* The greatest number of a set is in it.                                  *)
LEMMA MaxInSet ==
  ASSUME NEW n \in Nat, NEW S \in SUBSET (1 .. n), S # {}
  PROVE  Max(S) \in S
<1> DEFINE Below == {n - x : x \in S}
           IsMax(x) == x \in S /\ \A y \in S : x >= y
<1>1. Below \in SUBSET Nat /\ Below # {}
  <2>1. \A x \in S : n - x \in Nat
    OBVIOUS
  <2> QED
    BY <2>1
<1>2. PICK b \in Below : \A c \in Below : b <= c
  BY <1>1, LeastNumber
<1>3. PICK x \in S : b = n - x
  BY <1>2
<1>4. \A y \in S : n - x <= n - y /\ y \in Nat
  BY <1>2, <1>3
<1>5. IsMax(x)
  BY <1>4
<1>6. Max(S) = CHOOSE y : IsMax(y)
  BY Zenon DEF Max
<1>7. IsMax(CHOOSE y : IsMax(y))
  <2> HIDE DEF IsMax
  <2> QED
    BY <1>5, Zenon
<1> QED
  BY <1>6, <1>7, Zenon

(* The recursion of a fold with a function has a solution.                 *)
IsFold(f, R, op, base, s) ==
  /\ f \in [SUBSET (1 .. Len(s)) -> R]
  /\ \A S \in SUBSET (1 .. Len(s)) :
       f[S] = IF S = {} THEN base ELSE op[f[S \ {Max(S)}], s[Max(S)]]

(* Such a function exists, so FoldLeft is what its recursion says.         *)
LEMMA FoldWellDefined ==
  ASSUME NEW R, NEW E, NEW op \in [R \X E -> R], NEW base \in R, NEW s \in Seq(E)
  PROVE  \E f : IsFold(f, R, op, base, s)
<1> DEFINE Folds(f, k) ==
             /\ f \in [SUBSET (1 .. k) -> R]
             /\ \A S \in SUBSET (1 .. k) :
                  f[S] = IF S = {} THEN base ELSE op[f[S \ {Max(S)}], s[Max(S)]]
           Unsolved == {k \in 0 .. Len(s) : ~\E f : Folds(f, k)}
<1>1. Len(s) \in Nat /\ \A k \in 1 .. Len(s) : s[k] \in E
  BY LenProperties, ElementOfSeq
<1>0. Unsolved \subseteq 0 .. Len(s)
  OBVIOUS
<1>4. \A k \in 0 .. Len(s) : k \in Unsolved <=> ~\E f : Folds(f, k)
  <2> HIDE DEF Folds
  <2> QED
    OBVIOUS
<1> HIDE DEF Folds, Unsolved
<1>2. Unsolved = {}
  <2> SUFFICES ASSUME Unsolved # {} PROVE FALSE
    OBVIOUS
  <2>1. PICK k \in 0 .. Len(s) : k \in Unsolved /\ \A l \in Unsolved : k <= l
    BY <1>0, <1>1, LeastNumber
  <2>2. k # 0
    <3> DEFINE f == [S \in SUBSET (1 .. 0) |-> base]
    <3>0. 1 .. 0 = {}
      OBVIOUS
    <3>1. \A S \in SUBSET (1 .. 0) : S = {} /\ f[S] = base
      BY <3>0
    <3>2. f \in [SUBSET (1 .. 0) -> R]
      OBVIOUS
    <3> HIDE DEF f
    <3>3. Folds(f, 0)
      BY <3>1, <3>2 DEF Folds
    <3> QED
      BY <1>4, <2>1, <3>3
  <2>3. k \in Nat \ {0} /\ k \in 1 .. Len(s) /\ k - 1 \in 0 .. Len(s) /\ ~(k <= k - 1)
    BY <1>1, <2>2
  <2>4. k - 1 \notin Unsolved
    BY <2>1, <2>3
  <2>5. PICK g : Folds(g, k - 1)
    BY <1>4, <2>3, <2>4
  <2> DEFINE h == [S \in SUBSET (1 .. k) |-> IF k \in S THEN op[g[S \ {k}], s[k]] ELSE g[S]]
  <2>6. ASSUME NEW S \in SUBSET (1 .. k)
        PROVE  S \ {k} \in SUBSET (1 .. k - 1) /\ (k \notin S => S \in SUBSET (1 .. k - 1))
    <3>0. k \in Nat \ {0}
      BY <2>3
    <3>1. \A x \in 1 .. k : x # k => x \in 1 .. k - 1
      BY <3>0
    <3> QED
      BY <3>1
  <2>7. \A S \in SUBSET (1 .. k - 1) : g[S] \in R
    BY <2>5 DEF Folds
  <2>8. h \in [SUBSET (1 .. k) -> R]
    <3> SUFFICES ASSUME NEW S \in SUBSET (1 .. k)
                 PROVE  (IF k \in S THEN op[g[S \ {k}], s[k]] ELSE g[S]) \in R
      OBVIOUS
    <3>1. CASE k \in S
      <4>1. g[S \ {k}] \in R /\ s[k] \in E
        BY <1>1, <2>3, <2>6, <2>7
      <4> QED
        BY <3>1, <4>1
    <3>2. CASE k \notin S
      BY <2>6, <2>7, <3>2
    <3> QED
      BY <3>1, <3>2
  <2>9. ASSUME NEW S \in SUBSET (1 .. k)
        PROVE  h[S] = IF S = {} THEN base ELSE op[h[S \ {Max(S)}], s[Max(S)]]
    <3>1. CASE k \in S
      <4>1. Max(S) = k
        BY <2>3, <3>1, MaxOfPrefix
      <4>2. S \ {k} \in SUBSET (1 .. k) /\ k \notin S \ {k}
        OBVIOUS
      <4>3. h[S \ {k}] = g[S \ {k}]
        BY <4>2
      <4> QED
        BY <3>1, <4>1, <4>3
    <3>2. CASE k \notin S
      <4>1. h[S] = g[S] /\ S \in SUBSET (1 .. k - 1)
        BY <2>6, <3>2
      <4>2. g[S] = IF S = {} THEN base ELSE op[g[S \ {Max(S)}], s[Max(S)]]
        BY <2>5, <4>1 DEF Folds
      <4>3. S \ {Max(S)} \in SUBSET (1 .. k) /\ k \notin S \ {Max(S)}
        BY <3>2
      <4>4. h[S \ {Max(S)}] = g[S \ {Max(S)}]
        BY <4>3
      <4> QED
        BY <4>1, <4>2, <4>4, Zenon
    <3> QED
      BY <3>1, <3>2
  <2> HIDE DEF h
  <2>10. Folds(h, k)
    BY <2>8, <2>9 DEF Folds
  <2> QED
    BY <1>4, <2>1, <2>10
<1>3. \E f : Folds(f, Len(s))
  <2>1. Len(s) \in 0 .. Len(s)
    BY <1>1
  <2> QED
    BY <1>2, <1>4, <2>1
<1> QED
  BY <1>3 DEF Folds, IsFold

(* How many of the first k numbers are in a set.                           *)
Rank(T, k) == Cardinality({j \in 1 .. k : j \in T})

(* The count goes up by one at each number that is in the set.             *)
LEMMA RankSteps ==
  ASSUME NEW T, NEW k \in Nat
  PROVE  /\ Rank(T, k) \in Nat
         /\ k # 0 => Rank(T, k) = Rank(T, k - 1) + (IF k \in T THEN 1 ELSE 0)
         /\ k = 0 => Rank(T, k) = 0
         /\ \A i \in 1 .. k : Rank(T, i) <= Rank(T, k)
         /\ \A i \in 1 .. k : i \in T => Rank(T, i) \in 1 .. Rank(T, k)
<1> DEFINE Upto(m) == {j \in 1 .. m : j \in T}
<1>1. ASSUME NEW m \in Nat
      PROVE  IsFiniteSet(Upto(m)) /\ Cardinality(Upto(m)) \in Nat
  <2>1. IsFiniteSet(1 .. m) /\ Upto(m) \in SUBSET (1 .. m)
    BY FS_Interval
  <2> HIDE DEF Upto
  <2> QED
    BY <2>1, FS_Subset, FS_CardinalityType
<1>2. ASSUME NEW m \in Nat \ {0}
      PROVE  Cardinality(Upto(m)) = Cardinality(Upto(m - 1)) + (IF m \in T THEN 1 ELSE 0)
  <2>1. \A j : j \in 1 .. m <=> j \in 1 .. m - 1 \/ j = m
    OBVIOUS
  <2>2. m - 1 \in Nat /\ m \notin Upto(m - 1)
    OBVIOUS
  <2>3. CASE m \in T
    <3>1. Upto(m) = Upto(m - 1) \cup {m}
      BY <2>1, <2>3
    <3> HIDE DEF Upto
    <3> QED
      BY <1>1, <2>2, <2>3, <3>1, FS_AddElement
  <2>4. CASE m \notin T
    <3>1. Upto(m) = Upto(m - 1)
      BY <2>1, <2>4
    <3> HIDE DEF Upto
    <3> QED
      BY <1>1, <2>2, <2>4, <3>1
  <2> QED
    BY <2>3, <2>4
<1>3. Cardinality(Upto(0)) = 0
  <2>1. Upto(0) = {}
    OBVIOUS
  <2> QED
    BY <2>1, FS_EmptySet
<1>4. ASSUME NEW i \in 1 .. k
      PROVE  Cardinality(Upto(i)) <= Cardinality(Upto(k))
  <2>1. Upto(i) \in SUBSET Upto(k)
    OBVIOUS
  <2> HIDE DEF Upto
  <2> QED
    BY <1>1, <2>1, FS_Subset
<1> HIDE DEF Upto
<1>5. \A m : Rank(T, m) = Cardinality(Upto(m))
  BY Zenon DEF Rank, Upto
<1>6. ASSUME NEW i \in 1 .. k, i \in T
      PROVE  Cardinality(Upto(i)) \in 1 .. Cardinality(Upto(k))
  <2>1. i \in Nat \ {0} /\ i - 1 \in Nat
    OBVIOUS
  <2> QED
    BY <1>1, <1>2, <1>4, <1>6, <2>1
<1> QED
  BY <1>1, <1>2, <1>3, <1>4, <1>5, <1>6

=============================================================================
