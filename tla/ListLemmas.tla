----------------------------- MODULE ListLemmas -----------------------------
(***************************************************************************)
(* What the proofs about the tree of a chromo, about uris and about        *)
(* mutations need of lists: the operators of SequencesExt on lists in      *)
(* which nothing is twice, the order of what is in them, FlattenSeq, which *)
(* is defined along the list, the folds over a list, which are defined     *)
(* along the set of its places, and what is found in a text and cut from it. *)
(***************************************************************************)
EXTENDS SequencesExt, StdString, SequenceTheorems, WellFoundedInduction, TLAPS

-----------------------------------------------------------------------------
\* The least and the greatest of some numbers.

\* A set of natural numbers that is not empty has a least one.
LEMMA LeastNat ==
  ASSUME NEW I \in SUBSET Nat, I # {}
  PROVE  \E i \in I : \A j \in I : i <= j
<1> DEFINE R == {ss \in Nat \X Nat : ss[1] < ss[2]}
<1>1. IsWellFoundedOn(R, Nat)
  BY NatLessThanWellFounded, Zenon DEF OpToRel
<1>2. \A i, j \in Nat : i < j => <<i, j>> \in R
  OBVIOUS
<1> HIDE DEF R
<1>3. PICK i \in I : \A j \in I : <<j, i>> \notin R
  BY <1>1, WFMin
<1>4. \A j \in I : i <= j
  <2> SUFFICES ASSUME NEW j \in I PROVE i <= j
    OBVIOUS
  <2>1. i \in Nat /\ j \in Nat /\ ~(j < i)
    BY <1>2, <1>3
  <2>2. QED
    BY <2>1
<1>5. QED
  BY <1>4

\* Min finds it.
LEMMA MinIsLeast ==
  ASSUME NEW I \in SUBSET Nat, I # {}
  PROVE  Min(I) \in I /\ \A j \in I : Min(I) <= j
  BY LeastNat DEF Min

\* Max finds the greatest of some numbers up to n.
LEMMA MaxIsGreatest ==
  ASSUME NEW n \in Nat, NEW I \in SUBSET (1 .. n), I # {}
  PROVE  Max(I) \in I /\ \A j \in I : j <= Max(I)
<1> DEFINE J == {m \in Nat : n - m \in I}
<1>1. J # {}
  <2>1. PICK i \in I : TRUE
    OBVIOUS
  <2>2. n - i \in Nat /\ n - (n - i) = i
    BY <2>1
  <2>3. QED
    BY <2>1, <2>2
<1>2. PICK k \in J : \A j \in J : k <= j
  BY <1>1, LeastNat
<1>3. n - k \in I /\ \A j \in I : j <= n - k
  <2>1. \A j \in I : n - j \in J
    OBVIOUS
  <2>2. QED
    BY <1>2, <2>1
<1>4. QED
  BY <1>3 DEF Max

-----------------------------------------------------------------------------
\* Lists without repetition, and the order in them.

\* No node is twice in the list.
Once(s) == \A i, j \in 1 .. Len(s) : s[i] = s[j] => i = j

\* x comes before y in the list.
Ahead(s, x, y) == \E i, j \in 1 .. Len(s) : i < j /\ s[i] = x /\ s[j] = y

\* ToSet has what is in the list, each at some place of it.
LEMMA ToSetOfSeq ==
  ASSUME NEW S, NEW s \in Seq(S)
  PROVE  /\ Len(s) \in Nat
         /\ \A i \in 1 .. Len(s) : s[i] \in S /\ s[i] \in ToSet(s)
         /\ \A x \in ToSet(s) : \E i \in 1 .. Len(s) : s[i] = x
         /\ ToSet(s) \subseteq S
  BY DEF ToSet

\* InsertAt puts e at the place i, and what was there and behind it one further.
LEMMA InsertAtElements ==
  ASSUME NEW S, NEW s \in Seq(S), NEW e \in S, NEW i \in 1 .. Len(s) + 1
  PROVE  /\ InsertAt(s, i, e) \in Seq(S)
         /\ Len(InsertAt(s, i, e)) = Len(s) + 1
         /\ \A k \in 1 .. Len(s) + 1 :
              InsertAt(s, i, e)[k] = IF k < i THEN s[k] ELSE IF k = i THEN e ELSE s[k - 1]
<1> DEFINE a == SubSeq(s, 1, i - 1)
           b == SubSeq(s, i, Len(s))
<1>1. /\ a \in Seq(S) /\ Len(a) = i - 1 /\ \A k \in 1 .. i - 1 : a[k] = s[k]
      /\ b \in Seq(S) /\ Len(b) = Len(s) + 1 - i
      /\ \A k \in 1 .. Len(s) + 1 - i : b[k] = s[i + k - 1]
  OBVIOUS
<1> HIDE DEF a, b
<1>2. /\ a \o <<e>> \in Seq(S) /\ Len(a \o <<e>>) = i
      /\ \A k \in 1 .. i : (a \o <<e>>)[k] = IF k < i THEN s[k] ELSE e
  BY <1>1
<1> DEFINE c == a \o <<e>>
<1> HIDE DEF c
<1>3. c \in Seq(S) /\ Len(c) = i /\ \A k \in 1 .. i : c[k] = IF k < i THEN s[k] ELSE e
  BY <1>2 DEF c
<1>4. /\ c \o b \in Seq(S) /\ Len(c \o b) = Len(s) + 1
      /\ \A k \in 1 .. Len(s) + 1 : (c \o b)[k] = IF k <= i THEN c[k] ELSE b[k - i]
  BY <1>1, <1>3, Len(c) + Len(b) = Len(s) + 1
<1>5. \A k \in 1 .. Len(s) + 1 :
        (c \o b)[k] = IF k < i THEN s[k] ELSE IF k = i THEN e ELSE s[k - 1]
  BY <1>1, <1>3, <1>4
<1>6. InsertAt(s, i, e) = c \o b
  BY DEF InsertAt, a, b, c
<1>7. QED
  BY <1>4, <1>5, <1>6

\* RemoveAt takes away what is at the place i, and what is behind it goes one back.
LEMMA RemoveAtElements ==
  ASSUME NEW S, NEW s \in Seq(S), NEW i \in 1 .. Len(s)
  PROVE  /\ RemoveAt(s, i) \in Seq(S)
         /\ Len(RemoveAt(s, i)) = Len(s) - 1
         /\ \A k \in 1 .. Len(s) - 1 :
              RemoveAt(s, i)[k] = IF k < i THEN s[k] ELSE s[k + 1]
<1> DEFINE a == SubSeq(s, 1, i - 1)
           b == SubSeq(s, i + 1, Len(s))
<1>1. /\ a \in Seq(S) /\ Len(a) = i - 1 /\ \A k \in 1 .. i - 1 : a[k] = s[k]
      /\ b \in Seq(S) /\ Len(b) = Len(s) - i
      /\ \A k \in 1 .. Len(s) - i : b[k] = s[i + k]
  OBVIOUS
<1> HIDE DEF a, b
<1>2. /\ a \o b \in Seq(S) /\ Len(a \o b) = Len(s) - 1
      /\ \A k \in 1 .. Len(s) - 1 : (a \o b)[k] = IF k <= i - 1 THEN a[k] ELSE b[k - (i - 1)]
  BY <1>1, Len(a) + Len(b) = Len(s) - 1
<1>3. \A k \in 1 .. Len(s) - 1 : (a \o b)[k] = IF k < i THEN s[k] ELSE s[k + 1]
  BY <1>1, <1>2
<1>4. QED
  BY <1>2, <1>3 DEF RemoveAt, a, b

\* What is put into a list that did not have it is there once, and the order of the
\* others stays.
LEMMA InsertedOnce ==
  ASSUME NEW S, NEW s \in Seq(S), NEW e \in S, NEW i \in 1 .. Len(s) + 1,
         Once(s), e \notin ToSet(s)
  PROVE  LET t == InsertAt(s, i, e)
         IN  /\ t \in Seq(S) /\ Once(t) /\ ToSet(t) = ToSet(s) \cup {e}
             /\ \A x, y : Ahead(s, x, y) => Ahead(t, x, y)
<1> DEFINE t == InsertAt(s, i, e)
<1>1. /\ t \in Seq(S) /\ Len(t) = Len(s) + 1
      /\ \A k \in 1 .. Len(t) : t[k] = IF k < i THEN s[k] ELSE IF k = i THEN e ELSE s[k - 1]
  BY InsertAtElements
<1> HIDE DEF t
<1>2. Len(s) \in Nat /\ \A k \in 1 .. Len(s) : s[k] \in ToSet(s)
  BY DEF ToSet
<1>3. Once(t)
  <2> SUFFICES ASSUME NEW j \in 1 .. Len(t), NEW k \in 1 .. Len(t), t[j] = t[k], j < k
               PROVE  FALSE
    BY <1>1, <1>2 DEF Once
  <2>1. CASE j = i
    <3>1. t[j] = e /\ t[k] = s[k - 1] /\ k - 1 \in 1 .. Len(s)
      BY <2>1, <1>1, <1>2
    <3>2. QED
      BY <3>1, <1>2
  <2>2. CASE k = i
    <3>1. t[k] = e /\ t[j] = s[j] /\ j \in 1 .. Len(s)
      BY <2>2, <1>1, <1>2
    <3>2. QED
      BY <3>1, <1>2
  <2>3. CASE j # i /\ k # i
    <3> DEFINE back(l) == IF l < i THEN l ELSE l - 1
    <3>1. /\ back(j) \in 1 .. Len(s) /\ back(k) \in 1 .. Len(s) /\ back(j) # back(k)
          /\ t[j] = s[back(j)] /\ t[k] = s[back(k)]
      BY <2>3, <1>1, <1>2
    <3>2. QED
      BY <3>1 DEF Once
  <2>4. QED
    BY <2>1, <2>2, <2>3
<1>4. \A k \in 1 .. Len(s) : \E l \in 1 .. Len(t) : l = (IF k < i THEN k ELSE k + 1) /\ t[l] = s[k]
  BY <1>1, <1>2
<1>5. ToSet(t) = ToSet(s) \cup {e}
  <2>1. ASSUME NEW x \in ToSet(t)
        PROVE  x \in ToSet(s) \cup {e}
    <3>1. PICK k \in 1 .. Len(t) : t[k] = x
      BY DEF ToSet
    <3>2. CASE k = i
      BY <1>1, <3>1, <3>2
    <3>3. CASE k < i
      <4>1. k \in 1 .. Len(s) /\ x = s[k]
        BY <1>1, <1>2, <3>1, <3>3
      <4>2. QED
        BY <1>2, <4>1
    <3>4. CASE k > i
      <4>1. k - 1 \in 1 .. Len(s) /\ x = s[k - 1]
        BY <1>1, <1>2, <3>1, <3>4
      <4>2. QED
        BY <1>2, <4>1
    <3>5. QED
      BY <3>2, <3>3, <3>4
  <2>2. e \in ToSet(t)
    BY <1>1, <1>2 DEF ToSet
  <2>3. ASSUME NEW x \in ToSet(s)
        PROVE  x \in ToSet(t)
    <3>1. PICK k \in 1 .. Len(s) : s[k] = x
      BY DEF ToSet
    <3>2. PICK l \in 1 .. Len(t) : t[l] = x
      BY <1>4, <3>1
    <3>3. QED
      BY <1>1, <3>2 DEF ToSet
  <2>4. QED
    BY <2>1, <2>2, <2>3
<1>6. ASSUME NEW x, NEW y, Ahead(s, x, y)
      PROVE  Ahead(t, x, y)
  <2>1. PICK j, k \in 1 .. Len(s) : j < k /\ s[j] = x /\ s[k] = y
    BY <1>6 DEF Ahead
  <2>2. PICK l \in 1 .. Len(t) : l = (IF j < i THEN j ELSE j + 1) /\ t[l] = x
    BY <1>4, <2>1
  <2>3. PICK m \in 1 .. Len(t) : m = (IF k < i THEN k ELSE k + 1) /\ t[m] = y
    BY <1>4, <2>1
  <2>4. l < m
    BY <1>2, <2>1, <2>2, <2>3
  <2>5. QED
    BY <2>2, <2>3, <2>4 DEF Ahead
<1>7. QED
  BY <1>1, <1>3, <1>5, <1>6 DEF t

\* Where the only n in s is.
LEMMA Position ==
  ASSUME NEW S, NEW s \in Seq(S), Once(s), NEW n \in ToSet(s)
  PROVE  /\ SelectInSeq(s, LAMBDA x : x = n) \in 1 .. Len(s)
         /\ s[SelectInSeq(s, LAMBDA x : x = n)] = n
<1>1. PICK i \in 1 .. Len(s) : s[i] = n
  BY DEF ToSet
<1>2. {k \in 1 .. Len(s) : s[k] = n} = {i}
  BY <1>1 DEF Once
<1>3. Min({i}) = i
  BY <1>1 DEF Min
<1>4. SelectInSeq(s, LAMBDA x : x = n) = i
  BY <1>2, <1>3 DEF SelectInSeq
<1>5. QED
  BY <1>1, <1>4

\* RemoveFirst takes the only n out of the list, and the order of the others stays.
LEMMA Removed ==
  ASSUME NEW S, NEW s \in Seq(S), Once(s), NEW n
  PROVE  LET t == RemoveFirst(s, n)
         IN  /\ t \in Seq(S) /\ Once(t) /\ ToSet(t) = ToSet(s) \ {n}
             /\ \A x, y : Ahead(s, x, y) /\ x # n /\ y # n => Ahead(t, x, y)
<1>1. CASE n \notin ToSet(s)
  <2>1. RemoveFirst(s, n) = s
    BY <1>1 DEF RemoveFirst, ToSet
  <2>2. QED
    BY <1>1, <2>1
<1>2. CASE n \in ToSet(s)
  <2> DEFINE i == SelectInSeq(s, LAMBDA x : x = n)
             t == RemoveAt(s, i)
  <2>1. i \in 1 .. Len(s) /\ s[i] = n
    BY <1>2, Position
  <2>2. RemoveFirst(s, n) = t
    <3>1. \E k \in 1 .. Len(s) : s[k] = n
      BY <2>1
    <3>2. QED
      BY <3>1 DEF RemoveFirst
  <2> HIDE DEF i
  <2>3. /\ t \in Seq(S) /\ Len(t) = Len(s) - 1
        /\ \A k \in 1 .. Len(t) : t[k] = IF k < i THEN s[k] ELSE s[k + 1]
    BY <2>1, RemoveAtElements
  <2> HIDE DEF t
  <2>4. Len(s) \in Nat /\ \A k \in 1 .. Len(s) : s[k] \in ToSet(s)
    BY DEF ToSet
  <2>5. Once(t)
    <3> SUFFICES ASSUME NEW j \in 1 .. Len(t), NEW k \in 1 .. Len(t), t[j] = t[k], j < k
                 PROVE  FALSE
      BY <2>3, <2>4 DEF Once
    <3> DEFINE back(l) == IF l < i THEN l ELSE l + 1
    <3>1. /\ back(j) \in 1 .. Len(s) /\ back(k) \in 1 .. Len(s) /\ back(j) # back(k)
          /\ t[j] = s[back(j)] /\ t[k] = s[back(k)]
      BY <2>1, <2>3, <2>4
    <3>2. QED
      BY <3>1 DEF Once
  <2>6. \A k \in 1 .. Len(s) :
          k # i => \E l \in 1 .. Len(t) : l = (IF k < i THEN k ELSE k - 1) /\ t[l] = s[k]
    BY <2>1, <2>3, <2>4
  <2>7. ToSet(t) = ToSet(s) \ {n}
    <3>1. ASSUME NEW l \in 1 .. Len(t)
          PROVE  t[l] \in ToSet(s) /\ t[l] # n
      <4>1. PICK k \in 1 .. Len(s) : k # i /\ t[l] = s[k]
        BY <2>1, <2>3, <2>4
      <4>2. QED
        BY <4>1, <2>1, <2>4 DEF Once
    <3>2. ToSet(t) \subseteq ToSet(s) \ {n}
      BY <2>3, <3>1 DEF ToSet
    <3>3. ASSUME NEW x \in ToSet(s), x # n
          PROVE  x \in ToSet(t)
      BY <3>3, <2>1, <2>3, <2>6 DEF ToSet
    <3>4. QED
      BY <3>2, <3>3
  <2>8. ASSUME NEW x, NEW y, Ahead(s, x, y), x # n, y # n
        PROVE  Ahead(t, x, y)
    <3>1. PICK j, k \in 1 .. Len(s) : j < k /\ s[j] = x /\ s[k] = y
      BY <2>8 DEF Ahead
    <3>2. j # i /\ k # i
      BY <2>1, <2>8, <3>1
    <3>3. PICK l \in 1 .. Len(t) : l = (IF j < i THEN j ELSE j - 1) /\ t[l] = x
      BY <2>6, <3>1, <3>2
    <3>4. PICK m \in 1 .. Len(t) : m = (IF k < i THEN k ELSE k - 1) /\ t[m] = y
      BY <2>6, <3>1, <3>2
    <3>5. l < m
      BY <2>1, <3>1, <3>2, <3>3, <3>4
    <3>6. QED
      BY <3>3, <3>4, <3>5 DEF Ahead
  <2>9. QED
    BY <2>2, <2>3, <2>5, <2>7, <2>8
<1>3. QED
  BY <1>1, <1>2

\* Behind the last of a list.
LEMMA AppendedIs ==
  ASSUME NEW S, NEW s \in Seq(S), NEW e \in S
  PROVE  LET t == Append(s, e)
         IN  /\ t \in Seq(S)
             /\ ToSet(t) = ToSet(s) \cup {e}
             /\ Once(t) <=> Once(s) /\ e \notin ToSet(s)
             /\ \A x, y : Ahead(t, x, y) <=> Ahead(s, x, y) \/ (x \in ToSet(s) /\ y = e)
<1> DEFINE t == Append(s, e)
           n == Len(s)
<1>1. /\ t \in Seq(S) /\ Len(t) = n + 1
      /\ \A k \in 1 .. n : t[k] = s[k]
      /\ t[n + 1] = e
  BY AppendProperties
<1>2. /\ n \in Nat /\ \A k \in 1 .. n : s[k] \in ToSet(s)
      /\ \A x \in ToSet(s) : \E k \in 1 .. n : s[k] = x
  BY ToSetOfSeq
<1> HIDE DEF t, n
<1>3. \A x : x \in ToSet(t) <=> \E k \in 1 .. n + 1 : t[k] = x
  BY <1>1 DEF ToSet
<1>4. ToSet(t) = ToSet(s) \cup {e}
  <2>1. ASSUME NEW x \in ToSet(t)
        PROVE  x \in ToSet(s) \cup {e}
    BY <1>1, <1>2, <1>3
  <2>2. ASSUME NEW x \in ToSet(s)
        PROVE  x \in ToSet(t)
    BY <1>1, <1>2, <1>3
  <2>3. e \in ToSet(t)
    BY <1>1, <1>2, <1>3
  <2>4. QED
    BY <2>1, <2>2, <2>3
<1>5. ASSUME Once(t)
      PROVE  Once(s) /\ e \notin ToSet(s)
  <2>1. Once(s)
    BY <1>1, <1>2, <1>5 DEF Once, n
  <2>2. ASSUME NEW k \in 1 .. n, s[k] = e
        PROVE  FALSE
    BY <1>1, <1>2, <1>5, <2>2 DEF Once
  <2>3. QED
    BY <1>2, <2>1, <2>2
<1>6. ASSUME Once(s), e \notin ToSet(s)
      PROVE  Once(t)
  BY <1>1, <1>2, <1>6 DEF Once, n
<1>7. ASSUME NEW x, NEW y, Ahead(t, x, y)
      PROVE  Ahead(s, x, y) \/ (x \in ToSet(s) /\ y = e)
  <2>1. PICK i, j \in 1 .. n + 1 : i < j /\ t[i] = x /\ t[j] = y
    BY <1>1, <1>7 DEF Ahead
  <2>2. i \in 1 .. n /\ s[i] = x
    BY <1>1, <1>2, <2>1
  <2>3. QED
    BY <1>1, <1>2, <2>1, <2>2 DEF Ahead, n
<1>8. ASSUME NEW x, NEW y, Ahead(s, x, y) \/ (x \in ToSet(s) /\ y = e)
      PROVE  Ahead(t, x, y)
  <2>1. CASE Ahead(s, x, y)
    BY <1>1, <1>2, <2>1 DEF Ahead, n
  <2>2. CASE x \in ToSet(s) /\ y = e
    <3>1. PICK i \in 1 .. n : s[i] = x
      BY <1>2, <2>2
    <3>2. i \in 1 .. n + 1 /\ n + 1 \in 1 .. n + 1 /\ i < n + 1 /\ t[i] = x /\ t[n + 1] = y
      BY <1>1, <1>2, <2>2, <3>1
    <3>3. QED
      BY <1>1, <3>2 DEF Ahead
  <2>3. QED
    BY <1>8, <2>1, <2>2
<1>9. QED
  BY <1>1, <1>4, <1>5, <1>6, <1>7, <1>8 DEF t

\* The same of a node that was not in the list.
LEMMA Appended ==
  ASSUME NEW S, NEW s \in Seq(S), NEW e \in S, Once(s), e \notin ToSet(s)
  PROVE  LET t == Append(s, e)
         IN  /\ t \in Seq(S) /\ Once(t) /\ ToSet(t) = ToSet(s) \cup {e}
             /\ \A x, y : Ahead(s, x, y) => Ahead(t, x, y)
  BY AppendedIs

\* Of two nodes in a list one is ahead of the other, and only one.
LEMMA AheadIsTotal ==
  ASSUME NEW S, NEW s \in Seq(S), Once(s), NEW x \in ToSet(s), NEW y \in ToSet(s)
  PROVE  /\ x # y => Ahead(s, x, y) \/ Ahead(s, y, x)
         /\ ~(Ahead(s, x, y) /\ Ahead(s, y, x))
         /\ ~Ahead(s, x, x)
<1>1. PICK i \in 1 .. Len(s) : s[i] = x
  BY ToSetOfSeq
<1>2. PICK j \in 1 .. Len(s) : s[j] = y
  BY ToSetOfSeq
<1>3. /\ \A k \in 1 .. Len(s) : s[k] = x => k = i
      /\ \A k \in 1 .. Len(s) : s[k] = y => k = j
  BY <1>1, <1>2 DEF Once
<1>4. x # y => Ahead(s, x, y) \/ Ahead(s, y, x)
  <2>1. x # y => i < j \/ j < i
    BY <1>1, <1>2
  <2>2. QED
    BY <1>1, <1>2, <2>1 DEF Ahead
<1>5. ~(Ahead(s, x, y) /\ Ahead(s, y, x)) /\ ~Ahead(s, x, x)
  BY <1>3 DEF Ahead
<1>6. QED
  BY <1>4, <1>5

\* What is ahead of y is ahead of all that y is ahead of.
LEMMA AheadIsTransitive ==
  ASSUME NEW S, NEW s \in Seq(S), Once(s), NEW x, NEW y, NEW z, Ahead(s, x, y), Ahead(s, y, z)
  PROVE  Ahead(s, x, z)
<1>1. PICK i, j \in 1 .. Len(s) : i < j /\ s[i] = x /\ s[j] = y
  BY DEF Ahead
<1>2. PICK k, l \in 1 .. Len(s) : k < l /\ s[k] = y /\ s[l] = z
  BY DEF Ahead
<1>3. k = j
  BY <1>1, <1>2 DEF Once
<1>4. i < l
  BY <1>1, <1>2, <1>3
<1>5. QED
  BY <1>1, <1>2, <1>4 DEF Ahead

-----------------------------------------------------------------------------
\* What is defined step by step.

\* Induction over the numbers in a set.
LEMMA NatInduced ==
  ASSUME NEW J \in SUBSET Nat, 0 \in J, \A n \in J : n + 1 \in J
  PROVE  \A n \in Nat : n \in J
<1> SUFFICES ASSUME Nat \ J # {} PROVE FALSE
  OBVIOUS
<1>1. PICK i \in Nat \ J : \A j \in Nat \ J : i <= j
  BY LeastNat
<1>2. i - 1 \in Nat /\ ~(i <= i - 1)
  BY <1>1
<1>3. QED
  BY <1>1, <1>2

\* What is defined by its first value and by each from the one before it, exists.
Iterates(f, V, first, step) ==
  f \in [Nat -> V] /\ f[0] = first /\ \A k \in Nat : f[k + 1] = step[<<k, f[k]>>]

\* There is one for every first value and every step.
LEMMA Iterated ==
  ASSUME NEW V, NEW first \in V, NEW step \in [Nat \X V -> V]
  PROVE  \E f : Iterates(f, V, first, step)
<1> DEFINE UpTo(f, n) == f[0] = first /\ \A k \in Nat : k < n => f[k + 1] = step[<<k, f[k]>>]
           J == {n \in Nat : \E f \in [Nat -> V] : UpTo(f, n)}
<1>1. 0 \in J
  <2> DEFINE f == [k \in Nat |-> first]
  <2>1. f \in [Nat -> V] /\ UpTo(f, 0)
    OBVIOUS
  <2>2. QED
    BY <2>1
<1>2. ASSUME NEW n \in J
      PROVE  n + 1 \in J
  <2>1. PICK f \in [Nat -> V] : UpTo(f, n)
    OBVIOUS
  <2> DEFINE h == [k \in Nat |-> IF k = n + 1 THEN step[<<n, f[n]>>] ELSE f[k]]
  <2>2. h \in [Nat -> V]
    OBVIOUS
  <2>3. UpTo(h, n + 1)
    <3>1. h[0] = first
      BY <2>1
    <3>2. ASSUME NEW k \in Nat, k < n + 1
          PROVE  h[k + 1] = step[<<k, h[k]>>]
      <4>1. h[k] = f[k] /\ h[k + 1] = IF k = n THEN step[<<n, f[n]>>] ELSE f[k + 1]
        BY <3>2
      <4>2. k # n => f[k + 1] = step[<<k, f[k]>>]
        BY <2>1, <3>2
      <4>3. QED
        BY <4>1, <4>2
    <3>3. QED
      BY <3>1, <3>2
  <2> HIDE DEF h, UpTo
  <2>4. QED
    BY <2>2, <2>3
<1>3. \A n \in Nat : \E f \in [Nat -> V] : UpTo(f, n)
  <2>1. \A n \in Nat : n \in J
    <3> HIDE DEF J
    <3>1. J \in SUBSET Nat
      BY DEF J
    <3>2. QED
      BY <1>1, <1>2, <3>1, NatInduced
  <2>2. QED
    BY <2>1
<1> DEFINE A(n) == CHOOSE f \in [Nat -> V] : UpTo(f, n)
<1>4. \A n \in Nat : A(n) \in [Nat -> V] /\ UpTo(A(n), n)
  BY <1>3
<1> HIDE DEF A
<1>5. ASSUME NEW n \in Nat
      PROVE  A(n + 1)[n] = A(n)[n]
  <2> DEFINE I == {k \in Nat : k <= n => A(n + 1)[k] = A(n)[k]}
  <2>1. UpTo(A(n), n) /\ UpTo(A(n + 1), n + 1)
    BY <1>4
  <2>2. 0 \in I
    BY <2>1
  <2>3. ASSUME NEW k \in I
        PROVE  k + 1 \in I
    <3>1. CASE k + 1 <= n
      <4>1. A(n)[k + 1] = step[<<k, A(n)[k]>>] /\ A(n + 1)[k + 1] = step[<<k, A(n + 1)[k]>>]
        BY <2>1, <3>1
      <4>2. QED
        BY <4>1, <3>1
    <3>2. QED
      BY <3>1
  <2>4. n \in I
    <3> HIDE DEF I
    <3>1. I \in SUBSET Nat
      BY DEF I
    <3>2. QED
      BY <2>2, <2>3, <3>1, NatInduced
  <2>5. QED
    BY <2>4
<1> DEFINE F == [n \in Nat |-> A(n)[n]]
<1>6. F \in [Nat -> V]
  BY <1>4
<1>7. F[0] = first
  BY <1>4
<1>8. ASSUME NEW k \in Nat
      PROVE  F[k + 1] = step[<<k, F[k]>>]
  <2>1. A(k + 1)[k + 1] = step[<<k, A(k + 1)[k]>>]
    BY <1>4
  <2>2. QED
    BY <1>5, <2>1
<1>9. Iterates(F, V, first, step)
  BY <1>6, <1>7, <1>8 DEF Iterates
<1>10. QED
  BY <1>9

-----------------------------------------------------------------------------
\* Lists of lists.

\* FlattenSeq adds one list after the other.
LEMMA FlattenBy ==
  ASSUME NEW S, NEW ss \in Seq(Seq(S)), NEW f \in [Nat -> Seq(S)], f[0] = << >>,
         \A k \in Nat : k < Len(ss) => f[k + 1] = f[k] \o ss[k + 1]
  PROVE  FlattenSeq(ss) = f[Len(ss)]
<1> DEFINE n == Len(ss)
           Is(h) == h = [i \in 1 .. n |-> IF i = 1 THEN ss[i] ELSE h[i - 1] \o ss[i]]
           h0 == [i \in 1 .. n |-> f[i]]
<1>0. n \in Nat /\ \A i \in 1 .. n : ss[i] \in Seq(S)
  OBVIOUS
<1>1. CASE n = 0
  <2>1. ss = << >>
    BY <1>1
  <2>2. QED
    BY <1>1, <2>1 DEF FlattenSeq
<1>2. CASE n # 0
  <2>1. Is(h0)
    <3>1. \A i \in 1 .. n : h0[i] = IF i = 1 THEN ss[i] ELSE h0[i - 1] \o ss[i]
      <4> SUFFICES ASSUME NEW i \in 1 .. n
                   PROVE  f[i] = IF i = 1 THEN ss[i] ELSE h0[i - 1] \o ss[i]
        OBVIOUS
      <4>1. f[i] = f[i - 1] \o ss[i]
        <5>1. i - 1 \in Nat /\ i - 1 < Len(ss) /\ (i - 1) + 1 = i
          BY <1>0
        <5>2. QED
          BY <5>1
      <4>2. CASE i = 1
        <5>1. f[i - 1] = << >> /\ ss[i] \in Seq(S)
          BY <1>0, <4>2
        <5>2. << >> \o ss[i] = ss[i]
          BY <5>1
        <5>3. QED
          BY <4>1, <4>2, <5>1, <5>2
      <4>3. CASE i # 1
        <5>1. h0[i - 1] = f[i - 1]
          BY <1>0, <4>3
        <5>2. QED
          BY <4>1, <4>3, <5>1
      <4>4. QED
        BY <4>2, <4>3
    <3>2. QED
      BY <3>1
  <2> DEFINE h == CHOOSE x : Is(x)
  <2>2. Is(h)
    BY <2>1
  <2>3. FlattenSeq(ss) = h[n]
    BY <1>2 DEF FlattenSeq
  <2> HIDE DEF h
  <2>4. \A i \in 1 .. n : h[i] = IF i = 1 THEN ss[i] ELSE h[i - 1] \o ss[i]
    BY <2>2
  <2> DEFINE I == {i \in Nat : i \in 1 .. n => h[i] = f[i]}
  <2>5. 0 \in I
    OBVIOUS
  <2>6. ASSUME NEW i \in I
        PROVE  i + 1 \in I
    <3>1. CASE i + 1 \in 1 .. n
      <4>1. i \in Nat /\ i < Len(ss) /\ (i \in 1 .. n => h[i] = f[i])
        BY <1>0, <3>1
      <4> HIDE DEF I
      <4>2. f[i + 1] = f[i] \o ss[i + 1] /\ ss[i + 1] \in Seq(S)
        BY <1>0, <3>1, <4>1
      <4>3. h[i + 1] = f[i + 1]
        <5>1. CASE i = 0
          <6>1. h[i + 1] = ss[i + 1] /\ f[i] = << >>
            BY <2>4, <3>1, <5>1
          <6>2. << >> \o ss[i + 1] = ss[i + 1]
            BY <4>2
          <6>3. QED
            BY <4>2, <6>1, <6>2
        <5>2. CASE i # 0
          <6>1. i + 1 # 1 /\ (i + 1) - 1 = i /\ i \in 1 .. n
            <7>1. n \in Nat /\ i \in Nat /\ i < n
              BY <1>0, <4>1
            <7> HIDE DEF n
            <7>2. QED
              BY <5>2, <7>1
          <6>2. h[i + 1] = h[i] \o ss[i + 1]
            BY <2>4, <3>1, <6>1
          <6>3. QED
            BY <4>1, <4>2, <6>1, <6>2
        <5>3. QED
          BY <5>1, <5>2
      <4>4. QED
        BY <4>1, <4>3 DEF I
    <3>2. QED
      BY <3>1
  <2>7. n \in I
    <3> HIDE DEF I, n
    <3>1. I \in SUBSET Nat
      BY DEF I
    <3>2. QED
      BY <1>0, <2>5, <2>6, <3>1, NatInduced
  <2>8. QED
    BY <1>0, <1>2, <2>3, <2>7
<1>3. QED
  BY <1>1, <1>2

\* The lists so far.
LEMMA Flattening ==
  ASSUME NEW S, NEW ss \in Seq(Seq(S))
  PROVE  \E f \in [Nat -> Seq(S)] :
           /\ f[0] = << >>
           /\ \A k \in Nat : k < Len(ss) => f[k + 1] = f[k] \o ss[k + 1]
           /\ FlattenSeq(ss) = f[Len(ss)]
<1> DEFINE g == [z \in Nat \X Seq(S) |-> IF z[1] < Len(ss) THEN z[2] \o ss[z[1] + 1] ELSE z[2]]
<1>1. g \in [Nat \X Seq(S) -> Seq(S)]
  <2>1. ASSUME NEW k \in Nat, NEW s \in Seq(S), k < Len(ss)
        PROVE  s \o ss[k + 1] \in Seq(S)
    BY <2>1
  <2>2. QED
    BY <2>1
<1>2. \A k \in Nat, s \in Seq(S) : k < Len(ss) => g[<<k, s>>] = s \o ss[k + 1]
  OBVIOUS
<1> HIDE DEF g
<1>3. << >> \in Seq(S)
  OBVIOUS
<1>4. PICK f \in [Nat -> Seq(S)] : f[0] = << >> /\ \A k \in Nat : f[k + 1] = g[<<k, f[k]>>]
  <2>1. PICK f : Iterates(f, Seq(S), << >>, g)
    BY <1>1, <1>3, Iterated
  <2>2. QED
    BY <2>1 DEF Iterates
<1>5. \A k \in Nat : k < Len(ss) => f[k + 1] = f[k] \o ss[k + 1]
  BY <1>2, <1>4
<1>6. FlattenSeq(ss) = f[Len(ss)]
  BY <1>4, <1>5, FlattenBy
<1>7. QED
  BY <1>4, <1>5, <1>6

\* FlattenSeq of one list more is that list behind the others.
LEMMA FlattenAppend ==
  ASSUME NEW S, NEW ss \in Seq(Seq(S)), NEW s \in Seq(S)
  PROVE  /\ FlattenSeq(ss) \in Seq(S)
         /\ FlattenSeq(Append(ss, s)) = FlattenSeq(ss) \o s
<1>1. PICK f \in [Nat -> Seq(S)] :
           /\ f[0] = << >>
           /\ \A k \in Nat : k < Len(ss) => f[k + 1] = f[k] \o ss[k + 1]
           /\ FlattenSeq(ss) = f[Len(ss)]
  BY Flattening
<1> DEFINE n == Len(ss)
           tt == Append(ss, s)
           h == [k \in Nat |-> IF k = n + 1 THEN f[n] \o s ELSE f[k]]
<1>2. n \in Nat /\ tt \in Seq(Seq(S)) /\ Len(tt) = n + 1 /\ tt[n + 1] = s
      /\ \A k \in 1 .. n : tt[k] = ss[k]
  BY AppendProperties
<1>3. f[n] \in Seq(S) /\ f[n] \o s \in Seq(S)
  BY <1>2
<1> HIDE DEF n, tt
<1>4. h \in [Nat -> Seq(S)] /\ h[0] = << >> /\ h[n + 1] = f[n] \o s
  <2>1. PICK x \in Seq(S) : x = f[n] \o s
    BY <1>3
  <2>2. h = [k \in Nat |-> IF k = n + 1 THEN x ELSE f[k]]
    BY <2>1
  <2> HIDE DEF h
  <2>3. h[0] = f[0] /\ h[n + 1] = x
    BY <1>2, <2>2
  <2>4. h \in [Nat -> Seq(S)]
    BY <2>2
  <2>5. QED
    BY <1>1, <2>1, <2>3, <2>4
<1>5. \A k \in Nat : k < Len(tt) => h[k + 1] = h[k] \o tt[k + 1]
  <2> SUFFICES ASSUME NEW k \in Nat, k < n + 1
               PROVE  h[k + 1] = h[k] \o tt[k + 1]
    BY <1>2
  <2>1. h[k] = f[k]
    BY <1>2
  <2>2. CASE k = n
    BY <1>2, <1>4, <2>1, <2>2
  <2>3. CASE k # n
    <3>1. n \in Nat /\ \A j \in 1 .. n : tt[j] = ss[j]
      BY <1>2
    <3>2. k < n /\ k + 1 \in 1 .. n /\ k + 1 # n + 1
      <4>1. n \in Nat
        BY <1>2
      <4>2. QED
        BY <2>3, <4>1
    <3>3. h[k + 1] = f[k + 1] /\ tt[k + 1] = ss[k + 1]
      BY <3>1, <3>2
    <3>4. f[k + 1] = f[k] \o ss[k + 1]
      BY <1>1, <3>2 DEF n
    <3>5. QED
      BY <2>1, <3>3, <3>4
  <2>4. QED
    BY <2>2, <2>3
<1> HIDE DEF h
<1>6. FlattenSeq(tt) = h[Len(tt)]
  BY <1>2, <1>4, <1>5, FlattenBy
<1>7. QED
  BY <1>1, <1>2, <1>3, <1>4, <1>6 DEF n, tt

\* Induction over the prefixes of a list.
LEMMA PrefixInduced ==
  ASSUME NEW S, NEW s \in Seq(S), NEW J \in SUBSET Seq(S), << >> \in J,
         \A k \in 1 .. Len(s) : SubSeq(s, 1, k - 1) \in J => SubSeq(s, 1, k) \in J
  PROVE  s \in J
<1> DEFINE I == {k \in Nat : k <= Len(s) => SubSeq(s, 1, k) \in J}
<1>1. 0 \in I
  <2>1. SubSeq(s, 1, 0) = << >>
    OBVIOUS
  <2>2. QED
    BY <2>1
<1>2. ASSUME NEW k \in I
      PROVE  k + 1 \in I
  <2>1. CASE k + 1 <= Len(s)
    <3>1. k + 1 \in 1 .. Len(s) /\ (k + 1) - 1 = k /\ k <= Len(s)
      BY <2>1
    <3>2. QED
      BY <3>1
  <2>2. QED
    BY <2>1
<1>3. Len(s) \in I
  <2> HIDE DEF I
  <2>1. I \in SUBSET Nat /\ Len(s) \in Nat
    BY DEF I
  <2>2. QED
    BY <1>1, <1>2, <2>1, NatInduced
<1>4. SubSeq(s, 1, Len(s)) = s /\ Len(s) \in Nat
  OBVIOUS
<1>5. SubSeq(s, 1, Len(s)) \in J
  BY <1>3, <1>4
<1>6. QED
  BY <1>4, <1>5

\* A prefix is the one before it and one more.
LEMMA PrefixGrows ==
  ASSUME NEW S, NEW s \in Seq(S), NEW k \in 1 .. Len(s)
  PROVE  /\ SubSeq(s, 1, k - 1) \in Seq(S) /\ s[k] \in S
         /\ SubSeq(s, 1, k) = Append(SubSeq(s, 1, k - 1), s[k])
<1>1. SubSeq(s, 1, k - 1) \in Seq(S) /\ s[k] \in S /\ Len(SubSeq(s, 1, k - 1)) = k - 1
      /\ \A i \in 1 .. k - 1 : SubSeq(s, 1, k - 1)[i] = s[i]
  OBVIOUS
<1>2. SubSeq(s, 1, k) \in Seq(S) /\ Len(SubSeq(s, 1, k)) = k
      /\ \A i \in 1 .. k : SubSeq(s, 1, k)[i] = s[i]
  OBVIOUS
<1> DEFINE a == SubSeq(s, 1, k - 1)
           b == SubSeq(s, 1, k)
<1> HIDE DEF a, b
<1>3. Append(a, s[k]) \in Seq(S) /\ Len(Append(a, s[k])) = k
      /\ \A i \in 1 .. k : Append(a, s[k])[i] = IF i = k THEN s[k] ELSE a[i]
  BY <1>1 DEF a
<1>4. b = Append(a, s[k])
  BY <1>1, <1>2, <1>3, SeqEqual DEF a, b
<1>5. QED
  BY <1>1, <1>4 DEF a, b

\* The lists of two lists of lists, one after the other.
LEMMA FlattenConcat ==
  ASSUME NEW S, NEW ss \in Seq(Seq(S)), NEW tt \in Seq(Seq(S))
  PROVE  FlattenSeq(ss \o tt) = FlattenSeq(ss) \o FlattenSeq(tt)
<1> DEFINE Q == Seq(S)
           J == {uu \in Seq(Q) : FlattenSeq(ss \o uu) = FlattenSeq(ss) \o FlattenSeq(uu)}
<1>1. << >> \in J
  <2>1. FlattenSeq(<< >>) = << >> /\ ss \o << >> = ss /\ << >> \in Seq(Q)
    BY DEF FlattenSeq
  <2>2. FlattenSeq(ss) \in Seq(S)
    BY FlattenAppend
  <2>3. FlattenSeq(ss) \o << >> = FlattenSeq(ss)
    BY <2>2
  <2>4. QED
    BY <2>1, <2>3
<1>2. ASSUME NEW k \in 1 .. Len(tt), SubSeq(tt, 1, k - 1) \in J
      PROVE  SubSeq(tt, 1, k) \in J
  <2>1. PICK uu, x : uu = SubSeq(tt, 1, k - 1) /\ x = tt[k]
    OBVIOUS
  <2>2. uu \in Seq(Q) /\ x \in Q /\ SubSeq(tt, 1, k) = Append(uu, x)
    BY <2>1, PrefixGrows
  <2>3. FlattenSeq(ss \o uu) = FlattenSeq(ss) \o FlattenSeq(uu)
    BY <1>2, <2>1
  <2>4. ss \o Append(uu, x) = Append(ss \o uu, x) /\ ss \o uu \in Seq(Q) /\ Append(uu, x) \in Seq(Q)
    <3>1. \A T : \A a, b \in Seq(T), y \in T :
            a \o Append(b, y) = Append(a \o b, y) /\ a \o b \in Seq(T) /\ Append(b, y) \in Seq(T)
      OBVIOUS
    <3>2. QED
      BY <2>2, <3>1, Zenon
  <2>5. /\ FlattenSeq(Append(ss \o uu, x)) = FlattenSeq(ss \o uu) \o x
        /\ FlattenSeq(Append(uu, x)) = FlattenSeq(uu) \o x
        /\ FlattenSeq(ss) \in Seq(S) /\ FlattenSeq(uu) \in Seq(S)
    BY <2>2, <2>4, FlattenAppend
  <2>6. (FlattenSeq(ss) \o FlattenSeq(uu)) \o x = FlattenSeq(ss) \o (FlattenSeq(uu) \o x)
    <3>1. \A a, b, c \in Seq(S) : (a \o b) \o c = a \o (b \o c)
      BY ConcatAssociative
    <3>2. QED
      BY <2>2, <2>5, <3>1, Zenon
  <2>7. QED
    BY <2>2, <2>3, <2>4, <2>5, <2>6
<1> HIDE DEF J
<1>3. J \in SUBSET Seq(Q)
  BY DEF J
<1>4. tt \in J
  BY <1>1, <1>2, <1>3, PrefixInduced
<1>5. QED
  BY <1>4 DEF J

-----------------------------------------------------------------------------
\* Folds.

\* What a fold over the places 1 to n goes by: it takes out of a set of places
\* the one that pick says, last in the order of rank.
Picks(n, pick, rank) ==
  /\ pick \in [SUBSET (1 .. n) -> 1 .. n]
  /\ rank \in [1 .. n -> 1 .. n]
  /\ \A i, j \in 1 .. n : rank[i] = rank[j] => i = j
  /\ \A p \in SUBSET (1 .. n) :
       p # {} => pick[p] \in p /\ \A i \in p : rank[i] <= rank[pick[p]]

\* The value of a fold for every set of places.
FoldsBy(h, V, n, first, op, pick) ==
  /\ h \in [SUBSET (1 .. n) -> V]
  /\ \A p \in SUBSET (1 .. n) :
       h[p] = IF p = {} THEN first ELSE op[<<h[p \ {pick[p]}], pick[p]>>]

\* The recursive function in a fold exists.
LEMMA FoldExists ==
  ASSUME NEW V, NEW n \in Nat \ {0}, NEW first \in V, NEW op \in [V \X (1 .. n) -> V],
         NEW pick, NEW rank, Picks(n, pick, rank)
  PROVE  \E h : FoldsBy(h, V, n, first, op, pick)
<1> DEFINE D == SUBSET (1 .. n)
           W == [D -> V]
           start == [p \in D |-> first]
           step == [z \in Nat \X W |->
                      [p \in D |-> IF p # {} /\ rank[pick[p]] = z[1] + 1
                                     THEN op[<<z[2][p \ {pick[p]}], pick[p]>>]
                                     ELSE z[2][p]]]
<1>0. /\ pick \in [D -> 1 .. n]
      /\ rank \in [1 .. n -> 1 .. n]
      /\ \A i, j \in 1 .. n : rank[i] = rank[j] => i = j
      /\ \A p \in D : p # {} => pick[p] \in p /\ \A i \in p : rank[i] <= rank[pick[p]]
  BY DEF Picks
<1>1. start \in W
  OBVIOUS
<1>2. ASSUME NEW k \in Nat, NEW w \in W
      PROVE  /\ step[<<k, w>>] \in W
             /\ \A p \in D : step[<<k, w>>][p] = IF p # {} /\ rank[pick[p]] = k + 1
                                                  THEN op[<<w[p \ {pick[p]}], pick[p]>>]
                                                  ELSE w[p]
  <2> DEFINE v == [p \in D |-> IF p # {} /\ rank[pick[p]] = k + 1
                                THEN op[<<w[p \ {pick[p]}], pick[p]>>]
                                ELSE w[p]]
  <2>1. step[<<k, w>>] = v
    OBVIOUS
  <2>2. ASSUME NEW p \in D
        PROVE  (IF p # {} /\ rank[pick[p]] = k + 1
                  THEN op[<<w[p \ {pick[p]}], pick[p]>>] ELSE w[p]) \in V
    <3>1. p \ {pick[p]} \in D /\ pick[p] \in 1 .. n /\ w[p] \in V
      BY <1>0
    <3>2. w[p \ {pick[p]}] \in V
      BY <3>1
    <3>3. op[<<w[p \ {pick[p]}], pick[p]>>] \in V
      BY <3>1, <3>2
    <3>4. QED
      BY <3>1, <3>3
  <2>3. v \in W
    BY <2>2
  <2> HIDE DEF step
  <2>4. QED
    BY <2>1, <2>3
<1>3. step \in [Nat \X W -> W]
  <2> DEFINE s2 == step
  <2>1. step = [z \in Nat \X W |-> step[z]]
    OBVIOUS
  <2> HIDE DEF step, W
  <2>2. \A z \in Nat \X W : step[z] \in W
    BY <1>2
  <2>3. QED
    BY <2>1, <2>2
<1> HIDE DEF step
<1>4. PICK g : g \in [Nat -> W] /\ g[0] = start /\ \A k \in Nat : g[k + 1] = step[<<k, g[k]>>]
  <2> HIDE DEF start, W
  <2>1. PICK g : Iterates(g, W, start, step)
    BY <1>1, <1>3, Iterated
  <2>2. QED
    BY <2>1 DEF Iterates
<1>5. ASSUME NEW k \in Nat, NEW p \in D
      PROVE  g[k + 1][p] = IF p # {} /\ rank[pick[p]] = k + 1
                             THEN op[<<g[k][p \ {pick[p]}], pick[p]>>]
                             ELSE g[k][p]
  <2>1. PICK w : w = g[k]
    OBVIOUS
  <2>2. w \in W /\ g[k + 1] = step[<<k, w>>]
    BY <1>4, <2>1
  <2> HIDE DEF D, W
  <2>3. \A q \in D : step[<<k, w>>][q] = IF q # {} /\ rank[pick[q]] = k + 1
                                           THEN op[<<w[q \ {pick[q]}], pick[q]>>]
                                           ELSE w[q]
    BY <1>2, <2>2
  <2>4. QED
    BY <2>1, <2>2, <2>3
<1>6. ASSUME NEW p \in D, NEW m \in Nat, p # {} => rank[pick[p]] <= m
      PROVE  \A j \in Nat : g[m + j][p] = g[m][p]
  <2> DEFINE J == {j \in Nat : g[m + j][p] = g[m][p]}
  <2>1. 0 \in J
    OBVIOUS
  <2>2. ASSUME NEW j \in J
        PROVE  j + 1 \in J
    <3>1. j \in Nat /\ m + j \in Nat /\ (m + j) + 1 = m + (j + 1) /\ g[m + j][p] = g[m][p]
      OBVIOUS
    <3>2. p # {} => rank[pick[p]] # (m + j) + 1
      <4>1. p # {} => rank[pick[p]] \in 1 .. n /\ rank[pick[p]] <= m
        BY <1>0, <1>6
      <4> HIDE DEF J, D
      <4>2. QED
        BY <3>1, <4>1
    <3> HIDE DEF J, D
    <3>3. g[(m + j) + 1][p] = g[m + j][p]
      BY <1>5, <3>1, <3>2
    <3>4. g[m + (j + 1)][p] = g[m][p]
      BY <3>1, <3>3
    <3>5. QED
      BY <3>1, <3>4 DEF J
  <2>3. J \in SUBSET Nat
    OBVIOUS
  <2> HIDE DEF J
  <2>4. \A j \in Nat : j \in J
    BY <2>1, <2>2, <2>3, NatInduced
  <2>5. QED
    BY <2>4 DEF J
<1> DEFINE h == g[n]
<1>7. h \in W
  BY <1>4
<1>8. ASSUME NEW p \in D
      PROVE  h[p] = IF p = {} THEN first ELSE op[<<h[p \ {pick[p]}], pick[p]>>]
  <2>1. CASE p = {}
    <3>1. g[0 + n][p] = g[0][p] /\ 0 + n = n
      BY <1>6, <2>1
    <3>2. g[0][p] = first
      BY <1>4
    <3>3. QED
      BY <2>1, <3>1, <3>2
  <2>2. CASE p # {}
    <3>1. PICK x, m : x = pick[p] /\ m = rank[x]
      OBVIOUS
    <3>2. x \in p /\ x \in 1 .. n /\ m \in 1 .. n /\ \A i \in p : rank[i] <= m
      BY <1>0, <2>2, <3>1
    <3>3. PICK l : l = m - 1
      OBVIOUS
    <3>4. l \in Nat /\ l + 1 = m /\ n - m \in Nat /\ m + (n - m) = n
          /\ (n - l) \in Nat /\ l + (n - l) = n /\ m \in Nat
      BY <3>2, <3>3
    <3>5. h[p] = g[m][p]
      <4>1. g[m + (n - m)][p] = g[m][p]
        BY <1>6, <3>1, <3>2, <3>4
      <4>2. QED
        BY <3>4, <4>1
    <3>6. g[m][p] = op[<<g[l][p \ {x}], x>>]
      <4> HIDE DEF D
      <4>1. QED
        BY <1>5, <2>2, <3>1, <3>4
    <3>7. PICK q : q = p \ {x}
      OBVIOUS
    <3>8. q \in D
      BY <3>7
    <3>9. q # {} => rank[pick[q]] <= l
      <4> SUFFICES ASSUME q # {} PROVE rank[pick[q]] <= l
        OBVIOUS
      <4>1. pick[q] \in q /\ pick[q] \in p /\ pick[q] # x /\ pick[q] \in 1 .. n
        BY <1>0, <3>7, <3>8
      <4>2. rank[pick[q]] <= m /\ rank[pick[q]] # m /\ rank[pick[q]] \in 1 .. n
        BY <1>0, <3>1, <3>2, <4>1
      <4>3. QED
        BY <3>2, <3>3, <4>2
    <3>10. h[q] = g[l][q]
      <4>1. g[l + (n - l)][q] = g[l][q]
        BY <1>6, <3>4, <3>8, <3>9
      <4>2. QED
        BY <3>4, <4>1
    <3>11. QED
      BY <2>2, <3>1, <3>5, <3>6, <3>7, <3>10
  <2>3. QED
    BY <2>1, <2>2
<1> HIDE DEF h
<1>9. QED
  BY <1>7, <1>8 DEF FoldsBy

\* Two lists, the second of which grows.
LEMMA GrowsBehind ==
  ASSUME NEW S, NEW s \in Seq(S), NEW t \in Seq(S), NEW k \in 1 .. Len(t)
  PROVE  s \o SubSeq(t, 1, k) = Append(s \o SubSeq(t, 1, k - 1), t[k])
<1>1. PICK u \in Seq(S), e \in S : u = SubSeq(t, 1, k - 1) /\ e = t[k]
  BY PrefixGrows
<1>2. SubSeq(t, 1, k) = Append(u, e)
  BY <1>1, PrefixGrows
<1>3. Append(s \o u, e) = s \o Append(u, e)
  OBVIOUS
<1>4. QED
  BY <1>1, <1>2, <1>3

\* Two lists, the first of which grows to the front.
LEMMA GrowsBefore ==
  ASSUME NEW S, NEW s \in Seq(S), NEW t \in Seq(S), NEW k \in 1 .. Len(t)
  PROVE  SubSeq(t, k, Len(t)) \o s = <<t[k]>> \o (SubSeq(t, k + 1, Len(t)) \o s)
<1>1. PICK n : n = Len(t)
  OBVIOUS
<1>2. n \in Nat /\ k \in Nat /\ 1 <= k /\ k <= n
  BY <1>1
<1>3. PICK u, v, e : u = SubSeq(t, k + 1, n) /\ v = SubSeq(t, k, n) /\ e = t[k]
  OBVIOUS
<1>4. /\ u \in Seq(S) /\ Len(u) = n - k /\ \A i \in 1 .. n - k : u[i] = t[i + k]
      /\ v \in Seq(S) /\ Len(v) = n - k + 1 /\ \A i \in 1 .. n - k + 1 : v[i] = t[i + k - 1]
      /\ e \in S
  BY <1>1, <1>2, <1>3
<1>5. PICK w : w = <<e>>
  OBVIOUS
<1>6. w \in Seq(S) /\ Len(w) = 1 /\ w[1] = e
  BY <1>4, <1>5
<1>7. /\ w \o u \in Seq(S) /\ Len(w \o u) = n - k + 1
      /\ \A i \in 1 .. n - k + 1 : (w \o u)[i] = IF i <= 1 THEN w[i] ELSE u[i - 1]
  <2>1. /\ w \o u \in Seq(S) /\ Len(w \o u) = Len(w) + Len(u)
        /\ \A i \in 1 .. Len(w) + Len(u) : (w \o u)[i] = IF i <= Len(w) THEN w[i] ELSE u[i - Len(w)]
    BY <1>4, <1>6, ConcatProperties
  <2>2. Len(w) = 1 /\ Len(w) + Len(u) = n - k + 1
    BY <1>2, <1>4, <1>6
  <2>3. QED
    BY <2>1, <2>2
<1>8. ASSUME NEW i \in 1 .. n - k + 1
      PROVE  (w \o u)[i] = v[i]
  <2>1. CASE i = 1
    BY <1>2, <1>3, <1>4, <1>6, <1>7, <2>1
  <2>2. CASE i # 1
    <3>1. i - 1 \in 1 .. n - k /\ (i - 1) + k = i + k - 1
      BY <1>2, <2>2
    <3>2. (w \o u)[i] = u[i - 1]
      BY <1>2, <1>7, <2>2
    <3>3. u[i - 1] = t[(i - 1) + k]
      BY <1>4, <3>1
    <3>4. QED
      BY <1>4, <3>1, <3>2, <3>3
  <2>3. QED
    BY <2>1, <2>2
<1>9. w \o u = v
  BY <1>4, <1>7, <1>8, SeqEqual
<1>10. (w \o u) \o s = w \o (u \o s)
  <2>1. PICK a \in Seq(S), b \in Seq(S) : a = w /\ b = u
    BY <1>4, <1>6
  <2>2. (a \o b) \o s = a \o (b \o s)
    BY ConcatAssociative
  <2>3. QED
    BY <2>1, <2>2
<1>11. QED
  BY <1>1, <1>3, <1>5, <1>9, <1>10

\* The greatest of the numbers up to k.
LEMMA MaxUpTo ==
  ASSUME NEW k \in Nat \ {0}
  PROVE  Max(1 .. k) = k
<1>1. PICK I : I = 1 .. k
  OBVIOUS
<1>2. I \subseteq 1 .. k /\ k \in I
  BY <1>1
<1>3. Max(I) \in I /\ \A j \in I : j <= Max(I)
  BY <1>2, MaxIsGreatest
<1>4. Max(I) \in 1 .. k
  BY <1>2, <1>3
<1>5. k <= Max(I)
  BY <1>2, <1>3
<1>6. QED
  BY <1>1, <1>4, <1>5

\* The least of the numbers from k on.
LEMMA MinFrom ==
  ASSUME NEW n \in Nat, NEW k \in 1 .. n
  PROVE  Min(k .. n) = k
<1>1. PICK I : I = k .. n
  OBVIOUS
<1>2. I \in SUBSET Nat /\ I # {} /\ k \in I
  BY <1>1
<1>3. Min(I) \in I /\ \A j \in I : Min(I) <= j
  BY <1>2, MinIsLeast
<1>4. QED
  BY <1>1, <1>2, <1>3

\* The two folds by which lists are joined.
AppendAll(s, t) == FoldLeft(Append, s, t)
PrependAll(t, s) == FoldRight(LAMBDA u, us : <<u>> \o us, t, s)

\* Appending the elements of a list one by one, from the first one on, puts it
\* behind the other list.
LEMMA FoldAppend ==
  ASSUME NEW S, NEW s \in Seq(S), NEW t \in Seq(S)
  PROVE  AppendAll(s, t) = s \o t
<1> DEFINE n == Len(t)
           D == SUBSET (1 .. n)
           Is(h) == h = [p \in D |-> IF p = {} THEN s ELSE Append(h[p \ {Max(p)}], t[Max(p)])]
           h == CHOOSE x : Is(x)
<1>1. n \in Nat /\ DOMAIN t = 1 .. n
  OBVIOUS
<1>2. AppendAll(s, t) = h[1 .. n]
  BY <1>1 DEF AppendAll, FoldLeft, MapThenFoldSet
<1>3. CASE n = 0
  <2>1. D = {{}} /\ 1 .. n = {}
    BY <1>3
  <2>2. Is([p \in D |-> s])
    BY <2>1
  <2>3. Is(h)
    BY <2>2
  <2> HIDE DEF h
  <2>4. h[{}] = s
    BY <2>1, <2>3
  <2>5. t = << >> /\ s \o << >> = s
    BY <1>3
  <2>6. QED
    BY <1>2, <2>1, <2>4, <2>5
<1>4. CASE n # 0
  <2> DEFINE V == Seq(S)
             op == [z \in V \X (1 .. n) |-> Append(z[1], t[z[2]])]
             pick == [p \in D |-> IF p = {} THEN 1 ELSE Max(p)]
             rank == [i \in 1 .. n |-> i]
  <2>1. op \in [V \X (1 .. n) -> V] /\ \A w \in V, i \in 1 .. n : op[<<w, i>>] = Append(w, t[i])
    <3>1. \A w \in V, i \in 1 .. n : Append(w, t[i]) \in V
      OBVIOUS
    <3>2. QED
      BY <3>1
  <2>2. Picks(n, pick, rank)
    <3>1. ASSUME NEW p \in D, p # {}
          PROVE  Max(p) \in p /\ (\A i \in p : i <= Max(p)) /\ Max(p) \in 1 .. n
      BY <1>1, <3>1, MaxIsGreatest
    <3>2. 1 \in 1 .. n
      BY <1>1, <1>4
    <3>3. pick \in [D -> 1 .. n] /\ rank \in [1 .. n -> 1 .. n]
      BY <3>1, <3>2
    <3>4. ASSUME NEW p \in D, p # {}
          PROVE  pick[p] = Max(p) /\ \A i \in p : rank[i] = i /\ rank[pick[p]] = Max(p)
      BY <3>1, <3>4
    <3>5. \A i, j \in 1 .. n : rank[i] = rank[j] => i = j
      OBVIOUS
    <3> HIDE DEF pick, rank
    <3>6. ASSUME NEW p \in D, p # {}
          PROVE  pick[p] \in p /\ \A i \in p : rank[i] <= rank[pick[p]]
      BY <3>1, <3>4, <3>6
    <3>7. QED
      BY <3>3, <3>5, <3>6 DEF Picks
  <2>3. \A p \in D : p # {} => pick[p] = Max(p)
    OBVIOUS
  <2> HIDE DEF op, pick, rank, V
  <2>4. PICK f : FoldsBy(f, V, n, s, op, pick)
    <3>1. s \in V /\ n \in Nat \ {0}
      BY <1>1, <1>4 DEF V
    <3> HIDE DEF n
    <3>2. QED
      BY <2>1, <2>2, <3>1, FoldExists
  <2>5. Picks(n, pick, rank) /\ f \in [D -> V]
    BY <2>2, <2>4 DEF FoldsBy
  <2>6. ASSUME NEW p \in D
        PROVE  f[p] = IF p = {} THEN s ELSE Append(f[p \ {Max(p)}], t[Max(p)])
    <3>1. CASE p = {}
      BY <2>4, <3>1 DEF FoldsBy
    <3>2. CASE p # {}
      <4>1. f[p] = op[<<f[p \ {pick[p]}], pick[p]>>]
        BY <2>4, <3>2 DEF FoldsBy
      <4>2. pick[p] \in 1 .. n /\ pick[p] = Max(p)
        BY <2>3, <2>5, <3>2 DEF Picks
      <4>3. p \ {Max(p)} \in D
        OBVIOUS
      <4>4. f[p \ {Max(p)}] \in V
        BY <2>5, <4>3
      <4>5. QED
        BY <2>1, <3>2, <4>1, <4>2, <4>4
    <3>3. QED
      BY <3>1, <3>2
  <2>7. Is(f)
    <3>1. f = [p \in D |-> f[p]]
      BY <2>5
    <3> HIDE DEF D, n
    <3>2. QED
      BY <2>6, <3>1
  <2>8. Is(h)
    BY <2>7
  <2> HIDE DEF h
  <2>9. \A p \in D : h[p] = IF p = {} THEN s ELSE Append(h[p \ {Max(p)}], t[Max(p)])
    BY <2>8
  <2> DEFINE J == {u \in Seq(S) : Len(u) <= n /\ h[1 .. Len(u)] = s \o u}
  <2>10. << >> \in J
    <3>1. {} \in D /\ 1 .. Len(<< >>) = {} /\ s \o << >> = s /\ << >> \in Seq(S) /\ Len(<< >>) <= n
      BY <1>1
    <3> HIDE DEF D, n
    <3>2. h[{}] = s
      BY <2>9, <3>1
    <3>3. QED
      BY <3>1, <3>2
  <2>11. ASSUME NEW k \in 1 .. n, SubSeq(t, 1, k - 1) \in J
         PROVE  SubSeq(t, 1, k) \in J
    <3>0. k \in Nat /\ 1 <= k /\ k <= n
      BY <1>1
    <3>1. PICK u : u = SubSeq(t, 1, k - 1)
      OBVIOUS
    <3>2. u \in Seq(S) /\ t[k] \in S /\ SubSeq(t, 1, k) = Append(u, t[k])
      BY <3>1, PrefixGrows
    <3>3. Len(u) = k - 1 /\ h[1 .. k - 1] = s \o u
      <4>1. Len(u) = k - 1
        BY <3>0, <3>1
      <4>2. h[1 .. Len(u)] = s \o u
        BY <2>11, <3>1
      <4>3. QED
        BY <4>1, <4>2
    <3>4. Max(1 .. k) = k
      BY <3>0, MaxUpTo
    <3>5. 1 .. k \in D /\ 1 .. k # {} /\ (1 .. k) \ {k} = 1 .. k - 1
      <4> HIDE DEF n, J
      <4>1. 1 .. k \subseteq 1 .. n /\ k \in 1 .. k
        BY <3>0, <1>1
      <4>2. (1 .. k) \ {k} = 1 .. k - 1
        BY <3>0
      <4>3. QED
        BY <4>1, <4>2
    <3>6. h[1 .. k] = Append(s \o u, t[k])
      <4> HIDE DEF D, n
      <4>1. QED
        BY <2>9, <3>3, <3>4, <3>5
    <3>7. PICK w : w = SubSeq(t, 1, k)
      OBVIOUS
    <3>8. w \in Seq(S) /\ Len(w) = k
      BY <3>0, <3>7
    <3>9. h[1 .. k] = s \o w
      BY <3>1, <3>6, <3>7, GrowsBehind
    <3>10. h[1 .. Len(w)] = s \o w /\ Len(w) <= n
      BY <3>0, <3>8, <3>9
    <3>11. QED
      BY <3>7, <3>8, <3>10
  <2>12. t \in J
    <3>1. J \in SUBSET Seq(S)
      OBVIOUS
    <3> HIDE DEF J
    <3>2. QED
      BY <2>10, <2>11, <3>1, PrefixInduced
  <2>13. QED
    BY <1>2, <2>12
<1>5. QED
  BY <1>3, <1>4

\* Putting the elements of a list one by one before another, from the last one
\* on, puts the list before the other.
LEMMA FoldPrepend ==
  ASSUME NEW S, NEW s \in Seq(S), NEW t \in Seq(S)
  PROVE  PrependAll(t, s) = t \o s
<1> DEFINE n == Len(t)
           D == SUBSET (1 .. n)
           Is(h) == h = [p \in D |-> IF p = {} THEN s ELSE <<t[Min(p)]>> \o h[p \ {Min(p)}]]
           h == CHOOSE x : Is(x)
<1>1. n \in Nat /\ DOMAIN t = 1 .. n
  OBVIOUS
<1>2. PrependAll(t, s) = h[1 .. n]
  BY <1>1 DEF PrependAll, FoldRight, MapThenFoldSet
<1>3. CASE n = 0
  <2>1. D = {{}} /\ 1 .. n = {}
    BY <1>3
  <2>2. Is([p \in D |-> s])
    BY <2>1
  <2>3. Is(h)
    BY <2>2
  <2> HIDE DEF h
  <2>4. h[{}] = s
    BY <2>1, <2>3
  <2>5. t = << >> /\ << >> \o s = s
    BY <1>3
  <2>6. QED
    BY <1>2, <2>1, <2>4, <2>5
<1>4. CASE n # 0
  <2> DEFINE V == Seq(S)
             op == [z \in V \X (1 .. n) |-> <<t[z[2]]>> \o z[1]]
             pick == [p \in D |-> IF p = {} THEN 1 ELSE Min(p)]
             rank == [i \in 1 .. n |-> n + 1 - i]
  <2>1. op \in [V \X (1 .. n) -> V] /\ \A w \in V, i \in 1 .. n : op[<<w, i>>] = <<t[i]>> \o w
    <3>1. \A w \in V, i \in 1 .. n : <<t[i]>> \o w \in V
      OBVIOUS
    <3>2. QED
      BY <3>1
  <2>2. Picks(n, pick, rank)
    <3>1. ASSUME NEW p \in D, p # {}
          PROVE  Min(p) \in p /\ (\A i \in p : Min(p) <= i) /\ Min(p) \in 1 .. n
      <4>1. p \in SUBSET Nat
        BY <1>1
      <4>2. QED
        BY <3>1, <4>1, MinIsLeast
    <3>2. 1 \in 1 .. n
      BY <1>1, <1>4
    <3>3. pick \in [D -> 1 .. n] /\ rank \in [1 .. n -> 1 .. n]
      BY <1>1, <3>1, <3>2
    <3>4. ASSUME NEW p \in D, p # {}
          PROVE  pick[p] = Min(p) /\ \A i \in p : rank[i] = n + 1 - i /\ rank[pick[p]] = n + 1 - Min(p)
      BY <3>1, <3>4
    <3>5. \A i, j \in 1 .. n : rank[i] = rank[j] => i = j
      BY <1>1
    <3> HIDE DEF pick, rank
    <3>6. ASSUME NEW p \in D, p # {}
          PROVE  pick[p] \in p /\ \A i \in p : rank[i] <= rank[pick[p]]
      <4> SUFFICES ASSUME NEW i \in p
                   PROVE  pick[p] \in p /\ rank[i] <= rank[pick[p]]
        BY <3>1, <3>4, <3>6
      <4>1. rank[i] = n + 1 - i /\ rank[pick[p]] = n + 1 - Min(p) /\ pick[p] \in p
        BY <3>1, <3>4, <3>6
      <4>2. Min(p) <= i /\ i \in 1 .. n /\ Min(p) \in 1 .. n
        BY <3>1, <3>6
      <4> HIDE DEF n
      <4>3. QED
        BY <1>1, <4>1, <4>2
    <3>7. QED
      BY <3>3, <3>5, <3>6 DEF Picks
  <2>3. \A p \in D : p # {} => pick[p] = Min(p)
    OBVIOUS
  <2> HIDE DEF op, pick, rank, V
  <2>4. PICK f : FoldsBy(f, V, n, s, op, pick)
    <3>1. s \in V /\ n \in Nat \ {0}
      BY <1>1, <1>4 DEF V
    <3> HIDE DEF n
    <3>2. QED
      BY <2>1, <2>2, <3>1, FoldExists
  <2>5. Picks(n, pick, rank) /\ f \in [D -> V]
    BY <2>2, <2>4 DEF FoldsBy
  <2>6. ASSUME NEW p \in D
        PROVE  f[p] = IF p = {} THEN s ELSE <<t[Min(p)]>> \o f[p \ {Min(p)}]
    <3>1. CASE p = {}
      BY <2>4, <3>1 DEF FoldsBy
    <3>2. CASE p # {}
      <4>1. f[p] = op[<<f[p \ {pick[p]}], pick[p]>>]
        BY <2>4, <3>2 DEF FoldsBy
      <4>2. pick[p] \in 1 .. n /\ pick[p] = Min(p)
        BY <2>3, <2>5, <3>2 DEF Picks
      <4>3. p \ {Min(p)} \in D
        OBVIOUS
      <4>4. f[p \ {Min(p)}] \in V
        BY <2>5, <4>3
      <4>5. QED
        BY <2>1, <3>2, <4>1, <4>2, <4>4
    <3>3. QED
      BY <3>1, <3>2
  <2>7. Is(f)
    <3>1. f = [p \in D |-> f[p]]
      BY <2>5
    <3> HIDE DEF D, n
    <3>2. QED
      BY <2>6, <3>1
  <2>8. Is(h)
    BY <2>7
  <2> HIDE DEF h
  <2>9. \A p \in D : h[p] = IF p = {} THEN s ELSE <<t[Min(p)]>> \o h[p \ {Min(p)}]
    BY <2>8
  <2> DEFINE J == {j \in Nat : j <= n => h[n - j + 1 .. n] = SubSeq(t, n - j + 1, n) \o s}
  <2>10. 0 \in J
    <3>1. {} \in D /\ n - 0 + 1 .. n = {}
      BY <1>1
    <3>2. SubSeq(t, n - 0 + 1, n) = << >> /\ << >> \o s = s
      BY <1>1
    <3> HIDE DEF D, n
    <3>3. h[{}] = s
      BY <2>9, <3>1
    <3>4. QED
      BY <3>1, <3>2, <3>3
  <2>11. ASSUME NEW j \in J
         PROVE  j + 1 \in J
    <3>1. j \in Nat
      OBVIOUS
    <3>2. CASE j + 1 <= n
      <4>1. PICK k : k = n - j
        OBVIOUS
      <4>2. k \in 1 .. n /\ n - j + 1 = k + 1 /\ n - (j + 1) + 1 = k /\ j <= n /\ k \in Nat
        <5> HIDE DEF n
        <5>1. QED
          BY <1>1, <3>1, <3>2, <4>1
      <4>3. h[k + 1 .. n] = SubSeq(t, k + 1, n) \o s
        <5>1. h[n - j + 1 .. n] = SubSeq(t, n - j + 1, n) \o s
          BY <4>2
        <5>2. QED
          BY <4>2, <5>1
      <4>4. Min(k .. n) = k
        <5> HIDE DEF n
        <5>1. QED
          BY <1>1, <4>2, MinFrom
      <4>5. k .. n \in D /\ k .. n # {} /\ (k .. n) \ {k} = k + 1 .. n
        <5> HIDE DEF n
        <5>1. k .. n \subseteq 1 .. n /\ k \in k .. n
          BY <1>1, <4>2
        <5>2. (k .. n) \ {k} = k + 1 .. n
          BY <1>1, <4>2
        <5>3. QED
          BY <5>1, <5>2
      <4>6. h[k .. n] = <<t[k]>> \o (SubSeq(t, k + 1, n) \o s)
        <5> HIDE DEF D, n
        <5>1. QED
          BY <2>9, <4>3, <4>4, <4>5
      <4>7. SubSeq(t, k, n) \o s = <<t[k]>> \o (SubSeq(t, k + 1, n) \o s)
        BY <4>2, GrowsBefore
      <4>8. PICK i : i = j + 1
        OBVIOUS
      <4>9. i \in Nat /\ i <= n /\ n - i + 1 = k
        BY <3>1, <3>2, <4>2, <4>8
      <4>10. h[n - i + 1 .. n] = SubSeq(t, n - i + 1, n) \o s
        BY <4>6, <4>7, <4>9
      <4>11. i \in J
        BY <4>9, <4>10
      <4>12. QED
        BY <4>8, <4>11
    <3>3. QED
      BY <3>1, <3>2
  <2>12. n \in J
    <3>1. J \in SUBSET Nat
      OBVIOUS
    <3> HIDE DEF J
    <3>2. QED
      BY <1>1, <2>10, <2>11, <3>1, NatInduced
  <2>13. n - n + 1 = 1 /\ SubSeq(t, 1, n) = t /\ n <= n
    BY <1>1
  <2>14. h[1 .. n] = t \o s
    <3>1. h[n - n + 1 .. n] = SubSeq(t, n - n + 1, n) \o s
      BY <2>12, <2>13
    <3>2. QED
      BY <2>13, <3>1
  <2>15. QED
    BY <1>2, <2>14
<1>5. QED
  BY <1>3, <1>4

-----------------------------------------------------------------------------
\* Texts.

\* What find_first_of gives: nothing is found, or the first place from i on.
LEMMA FindFirstOfIs ==
  ASSUME NEW S, NEW s \in Seq(S), NEW cs, NEW i \in Nat
  PROVE  \/ /\ FindFirstOf(s, cs, i) = npos
            /\ \A j \in i .. Len(s) - 1 : s[j + 1] \notin cs
         \/ /\ FindFirstOf(s, cs, i) \in i .. Len(s) - 1
            /\ s[FindFirstOf(s, cs, i) + 1] \in cs
            /\ \A j \in i .. FindFirstOf(s, cs, i) - 1 : s[j + 1] \notin cs
<1> DEFINE found == {j \in i .. Len(s) - 1 : s[j + 1] \in cs}
<1>1. CASE found = {}
  BY <1>1 DEF FindFirstOf
<1>2. CASE found # {}
  <2>1. found \in SUBSET Nat /\ found # {} /\ Len(s) \in Nat
    BY <1>2
  <2>2. \E j \in found : \A k \in found : j <= k
    BY <2>1, LeastNat
  <2>3. PICK f : f = FindFirstOf(s, cs, i)
    OBVIOUS
  <2>4. f \in found /\ \A k \in found : f <= k
    BY <1>2, <2>2, <2>3 DEF FindFirstOf
  <2>5. \A j \in i .. f - 1 : s[j + 1] \notin cs
    <3> SUFFICES ASSUME NEW j \in i .. f - 1, s[j + 1] \in cs PROVE FALSE
      OBVIOUS
    <3>1. f \in i .. Len(s) - 1 /\ i \in Nat
      BY <2>4
    <3>2. j \in i .. Len(s) - 1 /\ ~(f <= j)
      BY <3>1
    <3>3. QED
      BY <2>4, <3>2
  <2>6. QED
    BY <2>3, <2>4, <2>5
<1>3. QED
  BY <1>1, <1>2

\* A part of a text: from i on, up to j, or to its end.
LEMMA SubstrIs ==
  ASSUME NEW S, NEW s \in Seq(S), NEW i \in Nat, NEW j \in {npos} \cup 0 .. Len(s)
  PROVE  Substr(s, i, j) \in Seq(S)
<1>1. PICK e : e = IF j = npos THEN Len(s) ELSE j
  OBVIOUS
<1>2. e \in Nat /\ e <= Len(s) /\ Len(s) \in Nat
  BY <1>1 DEF npos
<1>3. PICK t : t = SubSeq(s, i + 1, e)
  OBVIOUS
<1>4. t \in Seq(S)
  BY <1>2, <1>3
<1>5. QED
  BY <1>1, <1>3, <1>4 DEF Substr

=============================================================================
