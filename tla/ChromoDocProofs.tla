-------------------------- MODULE ChromoDocProofs --------------------------
(***************************************************************************)
(* Proof that a chromo is a document of mutations as MutDoc has it, with   *)
(* attributes and without, for any document that was read and any order of *)
(* the calls.  To the lists of children every call is to take one node out *)
(* of a list, to put one into a list, to do the two one after the other,   *)
(* or to empty a list and all that is under it.  Leaving what is no        *)
(* mutation out of the lists (Only) makes the same of it, or nothing at    *)
(* all; and what is not under the root is not in the document.             *)
(***************************************************************************)
EXTENDS ChromoAttrProofs

-----------------------------------------------------------------------------
\* Lists that are put together of parts.

\* Two parts of a list, and an element between them.
Parts(a, b) == a \o b
With(a, e, b) == a \o <<e>> \o b

\* A list and its parts.
LEMMA Parted ==
  ASSUME NEW S, NEW s \in Seq(S)
  PROVE  /\ \A i \in 1 .. Len(s) + 1, e \in S :
              \E a, b \in Seq(S) : s = Parts(a, b) /\ InsertAt(s, i, e) = With(a, e, b)
         /\ \A i \in 1 .. Len(s) :
              \E a, b \in Seq(S) : s = With(a, s[i], b) /\ RemoveAt(s, i) = Parts(a, b)
<1>1. ASSUME NEW i \in 1 .. Len(s) + 1
      PROVE  LET a == SubSeq(s, 1, i - 1)
                 b == SubSeq(s, i, Len(s))
             IN  a \in Seq(S) /\ b \in Seq(S) /\ Len(a) = i - 1 /\ s = a \o b
  <2> DEFINE a == SubSeq(s, 1, i - 1)
             b == SubSeq(s, i, Len(s))
  <2>1. /\ a \in Seq(S) /\ Len(a) = i - 1 /\ \A k \in 1 .. i - 1 : a[k] = s[k]
        /\ b \in Seq(S) /\ Len(b) = Len(s) + 1 - i
        /\ \A k \in 1 .. Len(s) + 1 - i : b[k] = s[i + k - 1]
    OBVIOUS
  <2> HIDE DEF a, b
  <2>2. /\ a \o b \in Seq(S) /\ Len(a \o b) = Len(s) /\ Len(s) \in Nat
        /\ \A k \in 1 .. Len(s) : (a \o b)[k] = IF k <= i - 1 THEN a[k] ELSE b[k - (i - 1)]
    BY <2>1, Len(a) + Len(b) = Len(s)
  <2>3. ASSUME NEW k \in 1 .. Len(s)
        PROVE  (a \o b)[k] = s[k]
    <3>1. CASE k <= i - 1
      BY <2>1, <2>2, <3>1
    <3>2. CASE ~(k <= i - 1)
      <4>1. PICK l : l = k - (i - 1) /\ l \in 1 .. Len(s) + 1 - i /\ i + l - 1 = k
        BY <2>2, <3>2
      <4>2. QED
        BY <2>1, <2>2, <3>2, <4>1
    <3>3. QED
      BY <3>1, <3>2
  <2>4. a \o b = s
    BY <2>2, <2>3, SeqEqual
  <2>5. QED
    BY <2>1, <2>4 DEF a, b
<1>2. ASSUME NEW i \in 1 .. Len(s)
      PROVE  LET a == SubSeq(s, 1, i - 1)
                 b == SubSeq(s, i + 1, Len(s))
             IN  a \in Seq(S) /\ b \in Seq(S) /\ Len(a) = i - 1 /\ s = a \o <<s[i]>> \o b
  <2> DEFINE a == SubSeq(s, 1, i - 1)
             b == SubSeq(s, i + 1, Len(s))
             c == a \o <<s[i]>>
  <2>1. /\ a \in Seq(S) /\ Len(a) = i - 1 /\ \A k \in 1 .. i - 1 : a[k] = s[k]
        /\ b \in Seq(S) /\ Len(b) = Len(s) - i
        /\ \A k \in 1 .. Len(s) - i : b[k] = s[i + k]
    OBVIOUS
  <2> HIDE DEF a, b
  <2>2. /\ c \in Seq(S) /\ Len(c) = i /\ \A k \in 1 .. i : c[k] = s[k]
    BY <2>1
  <2> HIDE DEF c
  <2>3. /\ c \o b \in Seq(S) /\ Len(c \o b) = Len(s) /\ Len(s) \in Nat
        /\ \A k \in 1 .. Len(s) : (c \o b)[k] = IF k <= i THEN c[k] ELSE b[k - i]
    <3>1. /\ c \o b \in Seq(S) /\ Len(c \o b) = Len(c) + Len(b)
          /\ \A k \in 1 .. Len(c) + Len(b) : (c \o b)[k] = IF k <= Len(c) THEN c[k] ELSE b[k - Len(c)]
      BY <2>1, <2>2, ConcatProperties
    <3>2. Len(c) = i /\ Len(c) + Len(b) = Len(s) /\ Len(s) \in Nat
      BY <2>1, <2>2
    <3>3. QED
      BY <3>1, <3>2
  <2>4. ASSUME NEW k \in 1 .. Len(s)
        PROVE  (c \o b)[k] = s[k]
    <3>1. CASE k <= i
      BY <2>2, <2>3, <3>1
    <3>2. CASE ~(k <= i)
      <4>1. Len(s) \in Nat
        OBVIOUS
      <4>2. PICK l : l = k - i
        OBVIOUS
      <4>3. l \in 1 .. Len(s) - i /\ i + l = k
        BY <3>2, <4>1, <4>2
      <4>4. b[l] = s[k]
        BY <2>1, <4>3
      <4>5. (c \o b)[k] = b[k - i]
        BY <2>3, <3>2
      <4>6. QED
        BY <4>2, <4>4, <4>5
    <3>3. QED
      BY <3>1, <3>2
  <2>5. c \o b = s
    BY <2>3, <2>4, SeqEqual
  <2>6. QED
    BY <2>1, <2>5 DEF a, b, c
<1>3. ASSUME NEW i \in 1 .. Len(s) + 1, NEW e \in S
      PROVE  \E a, b \in Seq(S) : s = Parts(a, b) /\ InsertAt(s, i, e) = With(a, e, b)
  <2> DEFINE a == SubSeq(s, 1, i - 1)
             b == SubSeq(s, i, Len(s))
  <2>1. a \in Seq(S) /\ b \in Seq(S) /\ s = a \o b
    BY <1>1
  <2>2. InsertAt(s, i, e) = a \o <<e>> \o b
    BY Zenon DEF InsertAt
  <2> HIDE DEF a, b
  <2>3. s = Parts(a, b) /\ InsertAt(s, i, e) = With(a, e, b)
    BY <2>1, <2>2 DEF Parts, With
  <2>4. QED
    BY <2>1, <2>3
<1>4. ASSUME NEW i \in 1 .. Len(s)
      PROVE  \E a, b \in Seq(S) : s = With(a, s[i], b) /\ RemoveAt(s, i) = Parts(a, b)
  <2> DEFINE a == SubSeq(s, 1, i - 1)
             b == SubSeq(s, i + 1, Len(s))
  <2>1. a \in Seq(S) /\ b \in Seq(S) /\ s = a \o <<s[i]>> \o b
    BY <1>2
  <2>2. RemoveAt(s, i) = a \o b
    BY Zenon DEF RemoveAt
  <2> HIDE DEF a, b
  <2>3. s = With(a, s[i], b) /\ RemoveAt(s, i) = Parts(a, b)
    BY <2>1, <2>2, Zenon DEF Parts, With
  <2>4. QED
    BY <2>1, <2>3
<1>5. QED
  BY <1>3, <1>4

\* An element put between the parts, or taken from between them.
LEMMA Between ==
  ASSUME NEW S, NEW a \in Seq(S), NEW b \in Seq(S), NEW e \in S
  PROVE  \E i : /\ i \in 1 .. Len(Parts(a, b)) + 1
                /\ InsertAt(Parts(a, b), i, e) = With(a, e, b)
                /\ i \in 1 .. Len(With(a, e, b)) /\ With(a, e, b)[i] = e
                /\ RemoveAt(With(a, e, b), i) = Parts(a, b)
<1>1. PICK s, c, t, n : s = a \o b /\ c = a \o <<e>> /\ t = c \o b /\ n = Len(a) + 1
  OBVIOUS
<1>2. n \in Nat /\ Len(a) = n - 1 /\ Len(b) \in Nat /\ n >= 1
  BY <1>1
<1>3. /\ s \in Seq(S) /\ Len(s) = n - 1 + Len(b)
      /\ \A k \in 1 .. n - 1 + Len(b) : s[k] = IF k <= n - 1 THEN a[k] ELSE b[k - (n - 1)]
  <2>1. /\ a \o b \in Seq(S) /\ Len(a \o b) = Len(a) + Len(b)
        /\ \A k \in 1 .. Len(a) + Len(b) : (a \o b)[k] = IF k <= Len(a) THEN a[k] ELSE b[k - Len(a)]
    BY ConcatProperties
  <2>2. QED
    BY <1>1, <1>2, <2>1
<1>4. /\ c \in Seq(S) /\ Len(c) = n /\ \A k \in 1 .. n : c[k] = IF k < n THEN a[k] ELSE e
  BY <1>1
<1>5. /\ t \in Seq(S) /\ Len(t) = n + Len(b)
      /\ \A k \in 1 .. n + Len(b) : t[k] = IF k <= n THEN c[k] ELSE b[k - n]
  <2>1. /\ c \o b \in Seq(S) /\ Len(c \o b) = Len(c) + Len(b)
        /\ \A k \in 1 .. Len(c) + Len(b) : (c \o b)[k] = IF k <= Len(c) THEN c[k] ELSE b[k - Len(c)]
    BY <1>4, ConcatProperties
  <2>2. QED
    BY <1>1, <1>4, <2>1
<1>6. n \in 1 .. Len(s) + 1 /\ n \in 1 .. Len(t) /\ t[n] = e
  <2>1. n \in 1 .. n + Len(b) /\ n \in 1 .. n
    BY <1>2
  <2>2. t[n] = c[n] /\ c[n] = e
    BY <1>4, <1>5, <2>1
  <2>3. QED
    BY <1>2, <1>3, <1>5, <2>1, <2>2
<1>7. \A k \in 1 .. n - 1 : t[k] = s[k]
  <2> SUFFICES ASSUME NEW k \in 1 .. n - 1 PROVE t[k] = s[k]
    OBVIOUS
  <2>1. k \in 1 .. n - 1 + Len(b) /\ k \in 1 .. n /\ k \in 1 .. n + Len(b) /\ k < n
    BY <1>2
  <2>2. s[k] = a[k]
    BY <1>3, <2>1
  <2>3. c[k] = a[k]
    BY <1>4, <2>1
  <2>4. t[k] = c[k]
    BY <1>5, <2>1
  <2>5. QED
    BY <2>2, <2>3, <2>4
<1>8. \A k \in n .. n - 1 + Len(b) : t[k + 1] = s[k]
  <2> SUFFICES ASSUME NEW k \in n .. n - 1 + Len(b) PROVE t[k + 1] = s[k]
    OBVIOUS
  <2>1. /\ k \in 1 .. n - 1 + Len(b) /\ k + 1 \in 1 .. n + Len(b) /\ ~(k + 1 <= n) /\ ~(k <= n - 1)
        /\ k + 1 - n = k - (n - 1)
    BY <1>2
  <2>2. s[k] = b[k - (n - 1)]
    BY <1>3, <2>1
  <2>3. PICK l : l = k + 1
    OBVIOUS
  <2>4. t[l] = b[l - n]
    BY <1>5, <2>1, <2>3
  <2>5. l - n = k - (n - 1)
    <3>1. k \in Nat /\ n \in Nat /\ l = k + 1
      BY <1>2, <2>3
    <3>2. QED
      BY <3>1
  <2>6. b[l - n] = b[k - (n - 1)]
    BY <2>5
  <2>7. t[l] = s[k]
    BY <2>2, <2>4, <2>6
  <2>8. QED
    BY <2>3, <2>7
<1>9. InsertAt(s, n, e) = t
  <2>1. PICK u : u = InsertAt(s, n, e)
    OBVIOUS
  <2>2. /\ u \in Seq(S) /\ Len(u) = Len(s) + 1
        /\ \A k \in 1 .. Len(s) + 1 : u[k] = IF k < n THEN s[k] ELSE IF k = n THEN e ELSE s[k - 1]
    <3>1. n \in 1 .. Len(s) + 1
      BY <1>6
    <3>2. /\ InsertAt(s, n, e) \in Seq(S) /\ Len(InsertAt(s, n, e)) = Len(s) + 1
          /\ \A k \in 1 .. Len(s) + 1 :
               InsertAt(s, n, e)[k] = IF k < n THEN s[k] ELSE IF k = n THEN e ELSE s[k - 1]
      BY <1>3, <3>1, InsertAtElements
    <3>3. QED
      BY <2>1, <3>2
  <2>3. Len(u) = n + Len(b) /\ Len(s) + 1 = n + Len(b)
    BY <1>2, <1>3, <2>2
  <2>4. ASSUME NEW k \in 1 .. n + Len(b)
        PROVE  u[k] = t[k]
    <3>0. u[k] = IF k < n THEN s[k] ELSE IF k = n THEN e ELSE s[k - 1]
      BY <2>2, <2>3
    <3>1. CASE k < n
      <4>1. k \in 1 .. n - 1
        BY <1>2, <3>1
      <4>2. t[k] = s[k]
        BY <1>7, <4>1
      <4>3. QED
        BY <3>0, <3>1, <4>2
    <3>2. CASE k = n
      BY <1>6, <1>2, <3>0, <3>2
    <3>3. CASE k > n
      <4>1. PICK l : l = k - 1 /\ l \in n .. n - 1 + Len(b) /\ l + 1 = k
        BY <1>2, <3>3
      <4>2. u[k] = s[k - 1]
        BY <1>2, <3>0, <3>3
      <4>3. t[l + 1] = s[l]
        BY <1>8, <4>1
      <4>4. QED
        BY <4>1, <4>2, <4>3
    <3>4. QED
      BY <1>2, <3>1, <3>2, <3>3
  <2>5. QED
    BY <1>5, <2>1, <2>2, <2>3, <2>4, SeqEqual
<1>10. RemoveAt(t, n) = s
  <2>1. PICK u : u = RemoveAt(t, n)
    OBVIOUS
  <2>2. /\ u \in Seq(S) /\ Len(u) = Len(t) - 1
        /\ \A k \in 1 .. Len(t) - 1 : u[k] = IF k < n THEN t[k] ELSE t[k + 1]
    BY <1>5, <1>6, <2>1, RemoveAtElements
  <2>3. Len(u) = n - 1 + Len(b) /\ Len(t) - 1 = n - 1 + Len(b)
    BY <1>2, <1>5, <2>2
  <2>4. ASSUME NEW k \in 1 .. n - 1 + Len(b)
        PROVE  u[k] = s[k]
    <3>1. CASE k < n
      BY <1>2, <1>7, <2>2, <2>3, <3>1
    <3>2. CASE ~(k < n)
      BY <1>2, <1>8, <2>2, <2>3, <3>2
    <3>3. QED
      BY <3>1, <3>2
  <2>5. QED
    BY <1>3, <2>1, <2>2, <2>3, <2>4, SeqEqual
<1>11. s = Parts(a, b) /\ t = With(a, e, b)
  BY <1>1 DEF Parts, With
<1>12. QED
  BY <1>6, <1>9, <1>10, <1>11

\* Only of the parts.
LEMMA OnlyBetween ==
  ASSUME NEW S, NEW a \in Seq(S), NEW b \in Seq(S), NEW n \in S, NEW N
  PROVE  /\ Only(a, N) \in Seq(S) /\ Only(b, N) \in Seq(S)
         /\ Only(Parts(a, b), N) = Parts(Only(a, N), Only(b, N))
         /\ Only(With(a, n, b), N) = IF n \in N THEN With(Only(a, N), n, Only(b, N))
                                                ELSE Parts(Only(a, N), Only(b, N))
<1>1. Only(a, N) \in Seq(S) /\ Only(b, N) \in Seq(S)
  BY OnlyOf
<1>2. Only(a \o b, N) = Only(a, N) \o Only(b, N)
  BY OnlyConcat
<1>3. Only(Append(a, n), N) = IF n \in N THEN Append(Only(a, N), n) ELSE Only(a, N)
  BY OnlyOf
<1>4. a \o <<n>> = Append(a, n)
  BY AppendIsConcat
<1>5. Append(a, n) \in Seq(S)
  OBVIOUS
<1>6. Append(Only(a, N), n) = Only(a, N) \o <<n>>
  BY <1>1, AppendIsConcat
<1>7. Only(Append(a, n) \o b, N) = Only(Append(a, n), N) \o Only(b, N)
  <2> DEFINE c == Append(a, n)
  <2>1. c \in Seq(S)
    BY <1>5
  <2> HIDE DEF c
  <2>2. Only(c \o b, N) = Only(c, N) \o Only(b, N)
    BY <2>1, OnlyConcat
  <2>3. QED
    BY <2>2 DEF c
<1>8. Parts(a, b) = a \o b /\ With(a, n, b) = Append(a, n) \o b
  BY <1>4, Zenon DEF Parts, With
<1>9. /\ Parts(Only(a, N), Only(b, N)) = Only(a, N) \o Only(b, N)
      /\ With(Only(a, N), n, Only(b, N)) = Append(Only(a, N), n) \o Only(b, N)
  BY <1>6, Zenon DEF Parts, With
<1>10. QED
  BY <1>1, <1>2, <1>3, <1>7, <1>8, <1>9, Zenon

\* What Only makes of one more in the list.
LEMMA OnlyInsert ==
  ASSUME NEW S, NEW s \in Seq(S), NEW i \in 1 .. Len(s) + 1, NEW n \in S, NEW N
  PROVE  /\ n \in N => \E j \in 1 .. Len(Only(s, N)) + 1 :
                         Only(InsertAt(s, i, n), N) = InsertAt(Only(s, N), j, n)
         /\ n \notin N => Only(InsertAt(s, i, n), N) = Only(s, N)
<1>1. PICK a \in Seq(S), b \in Seq(S) : s = Parts(a, b) /\ InsertAt(s, i, n) = With(a, n, b)
  BY Parted
<1>2. /\ Only(a, N) \in Seq(S) /\ Only(b, N) \in Seq(S)
      /\ Only(Parts(a, b), N) = Parts(Only(a, N), Only(b, N))
      /\ Only(With(a, n, b), N) = IF n \in N THEN With(Only(a, N), n, Only(b, N))
                                             ELSE Parts(Only(a, N), Only(b, N))
  BY OnlyBetween
<1>3. \E j : /\ j \in 1 .. Len(Parts(Only(a, N), Only(b, N))) + 1
             /\ InsertAt(Parts(Only(a, N), Only(b, N)), j, n) = With(Only(a, N), n, Only(b, N))
  <2>1. Only(a, N) \in Seq(S) /\ Only(b, N) \in Seq(S)
    BY <1>2
  <2>2. QED
    BY <2>1, Between
<1>4. QED
  BY <1>1, <1>2, <1>3

\* And of one less.
LEMMA OnlyRemove ==
  ASSUME NEW S, NEW s \in Seq(S), NEW i \in 1 .. Len(s), NEW N
  PROVE  /\ s[i] \in N => \E j \in 1 .. Len(Only(s, N)) :
                            /\ Only(s, N)[j] = s[i]
                            /\ Only(RemoveAt(s, i), N) = RemoveAt(Only(s, N), j)
         /\ s[i] \notin N => Only(RemoveAt(s, i), N) = Only(s, N)
<1>1. PICK a \in Seq(S), b \in Seq(S) : s = With(a, s[i], b) /\ RemoveAt(s, i) = Parts(a, b)
  BY Parted
<1>2. PICK n \in S : n = s[i]
  OBVIOUS
<1>3. /\ Only(a, N) \in Seq(S) /\ Only(b, N) \in Seq(S)
      /\ Only(Parts(a, b), N) = Parts(Only(a, N), Only(b, N))
      /\ Only(With(a, n, b), N) = IF n \in N THEN With(Only(a, N), n, Only(b, N))
                                             ELSE Parts(Only(a, N), Only(b, N))
  BY OnlyBetween
<1>4. \E j : /\ j \in 1 .. Len(With(Only(a, N), n, Only(b, N)))
             /\ With(Only(a, N), n, Only(b, N))[j] = n
             /\ RemoveAt(With(Only(a, N), n, Only(b, N)), j) = Parts(Only(a, N), Only(b, N))
  BY <1>3, Between
<1>5. Only(s, N) = Only(With(a, n, b), N) /\ Only(RemoveAt(s, i), N) = Only(Parts(a, b), N)
  BY <1>1, <1>2
<1>6. QED
  BY <1>2, <1>3, <1>4, <1>5

-----------------------------------------------------------------------------
\* What is under the root.

\* Lists of children that make trees in which Root is nobody's child.
Rooted(ml) ==
  /\ ml \in Lists
  /\ \A m \in Node : Once(ml[m]) /\ Root \notin ToSet(ml[m])
  /\ \A p, q \in Node : p # q => ToSet(ml[p]) \cap ToSet(ml[q]) = {}
  /\ Acyclic(ml)

\* What is under Root, and the lists of it.
UnderRoot(ml) == Reach(ml, Root)
ListsOf(ml) == [n \in UnderRoot(ml) |-> ml[n]]

\* Where the lists of what is under Root are the same, the same is under Root.
LEMMA SameLists ==
  ASSUME NEW ml \in Lists, NEW ml2 \in Lists, \A m \in UnderRoot(ml) : ml2[m] = ml[m]
  PROVE  UnderRoot(ml2) = UnderRoot(ml) /\ ListsOf(ml2) = ListsOf(ml)
<1>1. Root \in Node
  BY TreeAssumption
<1>2. /\ Root \in UnderRoot(ml) /\ UnderRoot(ml) \subseteq Node /\ Closed(ml, UnderRoot(ml))
      /\ Root \in UnderRoot(ml2) /\ UnderRoot(ml2) \subseteq Node /\ Closed(ml2, UnderRoot(ml2))
  BY <1>1, ReachIsClosed DEF UnderRoot
<1>3. UnderRoot(ml2) \subseteq UnderRoot(ml)
  <2>1. Closed(ml2, UnderRoot(ml))
    BY <1>2 DEF Closed
  <2>2. QED
    BY <1>1, <1>2, <2>1, ReachIsLeast DEF UnderRoot
<1>4. UnderRoot(ml) \subseteq UnderRoot(ml2)
  <2>1. Closed(ml, UnderRoot(ml2))
    BY <1>2, <1>3 DEF Closed
  <2>2. QED
    BY <1>1, <1>2, <2>1, ReachIsLeast DEF UnderRoot
<1>5. QED
  BY <1>3, <1>4 DEF ListsOf

\* What is not under Root has nothing under it that is.
LEMMA NothingInside ==
  ASSUME NEW ml, Rooted(ml), NEW n \in Node, n \notin UnderRoot(ml)
  PROVE  Reach(ml, n) \cap UnderRoot(ml) = {}
<1>1. Root \in Node /\ ml \in Lists
  BY TreeAssumption DEF Rooted
<1>2. /\ Root \in UnderRoot(ml) /\ UnderRoot(ml) \subseteq Node /\ Closed(ml, UnderRoot(ml))
  BY <1>1, ReachIsClosed DEF UnderRoot
<1> DEFINE S == UnderRoot(ml) \ Reach(ml, n)
<1>3. Root \notin Reach(ml, n)
  <2>1. Root # n
    BY <1>2
  <2>2. QED
    BY <1>1, <2>1, ReachByParent, ReachIsClosed DEF Rooted
<1>4. ASSUME NEW m \in S, NEW x \in ToSet(ml[m])
      PROVE  x \in S
  <2>1. x \in UnderRoot(ml) /\ x # n /\ m \in Node
    BY <1>2 DEF Closed
  <2>2. ASSUME x \in Reach(ml, n)
        PROVE  FALSE
    <3>1. PICK p \in Reach(ml, n) : x \in ToSet(ml[p])
      BY <1>1, <2>1, <2>2, ReachByParent
    <3>2. p \in Node
      BY <1>1, ReachIsClosed
    <3>3. p = m
      BY <2>1, <3>1, <3>2 DEF Rooted
    <3>4. QED
      BY <3>1, <3>3
  <2>3. QED
    BY <2>1, <2>2
<1>5. S \in SUBSET Node /\ Root \in S /\ Closed(ml, S)
  BY <1>2, <1>3, <1>4 DEF Closed
<1>6. UnderRoot(ml) \subseteq S
  BY <1>1, <1>5, ReachIsLeast DEF UnderRoot
<1>7. QED
  BY <1>6

\* Taking n, which is under p, away takes away what is under n.
LEMMA TakenAway ==
  ASSUME NEW ml, Rooted(ml), NEW ml2 \in Lists, NEW p \in UnderRoot(ml),
         NEW n \in ToSet(ml[p]), ToSet(ml2[p]) = ToSet(ml[p]) \ {n},
         \A m \in UnderRoot(ml) \ (Reach(ml, n) \cup {p}) : ml2[m] = ml[m]
  PROVE  /\ UnderRoot(ml2) = UnderRoot(ml) \ Reach(ml, n)
         /\ n \in Reach(ml, n) /\ Reach(ml, n) \subseteq UnderRoot(ml) /\ p \in UnderRoot(ml2)
<1>1. Root \in Node /\ ml \in Lists
  BY TreeAssumption DEF Rooted
<1>2. /\ Root \in UnderRoot(ml) /\ UnderRoot(ml) \subseteq Node /\ Closed(ml, UnderRoot(ml))
      /\ Root \in UnderRoot(ml2) /\ UnderRoot(ml2) \subseteq Node /\ Closed(ml2, UnderRoot(ml2))
  BY <1>1, ReachIsClosed DEF UnderRoot
<1>3. p \in Node /\ n \in UnderRoot(ml) /\ n \in Node /\ n # Root
  BY <1>2 DEF Closed, Rooted
<1>4. n \in Reach(ml, n) /\ Reach(ml, n) \subseteq Node /\ Closed(ml, Reach(ml, n))
  BY <1>1, <1>3, ReachIsClosed
<1>5. p \notin Reach(ml, n)
  BY <1>3 DEF Rooted, Acyclic
<1>6. Root \notin Reach(ml, n)
  BY <1>1, <1>3, <1>4, ReachByParent DEF Rooted
<1> DEFINE S == UnderRoot(ml) \ Reach(ml, n)
<1>7. ASSUME NEW m \in S, NEW x \in ToSet(ml2[m])
      PROVE  x \in S
  <2>1. m \in Node /\ x \in ToSet(ml[m]) /\ x # n
    <3>1. CASE m = p
      BY <1>3, <3>1
    <3>2. CASE m # p
      <4>1. m \in Node /\ x \in ToSet(ml[m])
        BY <1>2, <3>2
      <4>2. x # n
        BY <1>3, <3>2, <4>1 DEF Rooted
      <4>3. QED
        BY <4>1, <4>2
    <3>3. QED
      BY <3>1, <3>2
  <2>2. x \in UnderRoot(ml)
    BY <1>2, <2>1 DEF Closed
  <2>3. ASSUME x \in Reach(ml, n)
        PROVE  FALSE
    <3>1. PICK q \in Reach(ml, n) : x \in ToSet(ml[q])
      BY <1>1, <1>3, <2>1, <2>3, ReachByParent
    <3>2. q \in Node
      BY <1>4
    <3>3. q = m
      BY <2>1, <3>1, <3>2 DEF Rooted
    <3>4. QED
      BY <3>1, <3>3
  <2>4. QED
    BY <2>2, <2>3
<1>8. UnderRoot(ml2) \subseteq S
  <2>1. S \in SUBSET Node /\ Root \in S /\ Closed(ml2, S)
    BY <1>2, <1>6, <1>7 DEF Closed
  <2>2. QED
    BY <1>1, <2>1, ReachIsLeast DEF UnderRoot
<1>9. UnderRoot(ml) \subseteq UnderRoot(ml2) \cup Reach(ml, n)
  <2> DEFINE T == UnderRoot(ml2) \cup Reach(ml, n)
  <2>1. ASSUME NEW m \in T, NEW x \in ToSet(ml[m])
        PROVE  x \in T
    <3>1. CASE m \in Reach(ml, n)
      BY <1>4, <3>1 DEF Closed
    <3>2. CASE m \notin Reach(ml, n)
      <4>1. m \in UnderRoot(ml2) /\ m \in S
        BY <1>8, <3>2
      <4>2. x \in ToSet(ml2[m]) \cup {n}
        <5>1. CASE m = p
          BY <5>1
        <5>2. CASE m # p
          BY <3>2, <4>1, <5>2
        <5>3. QED
          BY <5>1, <5>2
      <4>3. QED
        BY <1>2, <1>4, <4>1, <4>2 DEF Closed
    <3>3. QED
      BY <3>1, <3>2
  <2>2. T \in SUBSET Node /\ Root \in T /\ Closed(ml, T)
    BY <1>2, <1>4, <2>1 DEF Closed
  <2>3. QED
    BY <1>1, <2>2, ReachIsLeast DEF UnderRoot
<1>10. Reach(ml, n) \subseteq UnderRoot(ml)
  BY <1>1, <1>2, <1>3, ReachIsLeast
<1>11. UnderRoot(ml2) = UnderRoot(ml) \ Reach(ml, n)
  BY <1>8, <1>9
<1>12. QED
  BY <1>4, <1>5, <1>10, <1>11

\* Emptying the list of p takes away what was in it, with what was under that.
LEMMA Emptied ==
  ASSUME NEW ml, Rooted(ml), NEW ml2 \in Lists, NEW p \in UnderRoot(ml), ml2[p] = << >>,
         \A m \in UnderRoot(ml) \ Reach(ml, p) : ml2[m] = ml[m]
  PROVE  /\ UnderRoot(ml2) \subseteq (UnderRoot(ml) \ Reach(ml, p)) \cup {p}
         /\ p \in UnderRoot(ml2)
<1>1. Root \in Node /\ ml \in Lists
  BY TreeAssumption DEF Rooted
<1>2. /\ Root \in UnderRoot(ml) /\ UnderRoot(ml) \subseteq Node /\ Closed(ml, UnderRoot(ml))
      /\ Root \in UnderRoot(ml2) /\ UnderRoot(ml2) \subseteq Node /\ Closed(ml2, UnderRoot(ml2))
  BY <1>1, ReachIsClosed DEF UnderRoot
<1>3. p \in Node /\ p \in Reach(ml, p) /\ Reach(ml, p) \subseteq Node /\ Closed(ml, Reach(ml, p))
  BY <1>1, <1>2, ReachIsClosed
<1>4. Root \in Reach(ml, p) => Root = p
  BY <1>1, <1>3, ReachByParent DEF Rooted
<1> DEFINE S == (UnderRoot(ml) \ Reach(ml, p)) \cup {p}
<1>5. ASSUME NEW m \in S, NEW x \in ToSet(ml2[m])
      PROVE  x \in S
  <2>1. m # p
    BY DEF ToSet
  <2>2. m \in Node /\ m \in UnderRoot(ml) /\ m \notin Reach(ml, p) /\ x \in ToSet(ml[m])
    BY <1>2, <2>1
  <2>3. x \in UnderRoot(ml)
    BY <1>2, <2>2 DEF Closed
  <2>4. ASSUME x \in Reach(ml, p), x # p
        PROVE  FALSE
    <3>1. PICK q \in Reach(ml, p) : x \in ToSet(ml[q])
      BY <1>1, <1>3, <2>4, ReachByParent
    <3>2. q = m
      BY <1>3, <2>2, <3>1 DEF Rooted
    <3>3. QED
      BY <2>2, <3>1, <3>2
  <2>5. QED
    BY <2>3, <2>4
<1>6. UnderRoot(ml2) \subseteq S
  <2>1. S \in SUBSET Node /\ Root \in S /\ Closed(ml2, S)
    BY <1>2, <1>3, <1>4, <1>5 DEF Closed
  <2>2. QED
    BY <1>1, <2>1, ReachIsLeast DEF UnderRoot
<1>7. UnderRoot(ml) \subseteq UnderRoot(ml2) \cup Reach(ml, p)
  <2> DEFINE T == UnderRoot(ml2) \cup Reach(ml, p)
  <2>1. ASSUME NEW m \in T, NEW x \in ToSet(ml[m])
        PROVE  x \in T
    <3>1. CASE m \in Reach(ml, p)
      BY <1>3, <3>1 DEF Closed
    <3>2. CASE m \notin Reach(ml, p)
      <4>1. m \in UnderRoot(ml2) /\ m \in UnderRoot(ml) /\ ml2[m] = ml[m]
        BY <1>3, <1>6, <3>2
      <4>2. QED
        BY <1>2, <4>1 DEF Closed
    <3>3. QED
      BY <3>1, <3>2
  <2>2. T \in SUBSET Node /\ Root \in T /\ Closed(ml, T)
    BY <1>2, <1>3, <2>1 DEF Closed
  <2>3. QED
    BY <1>1, <2>2, ReachIsLeast DEF UnderRoot
<1>8. p \in UnderRoot(ml2)
  <2>1. CASE p = Root
    BY <1>2, <2>1
  <2>2. CASE p # Root
    <3>1. PICK q \in UnderRoot(ml) : p \in ToSet(ml[q])
      BY <1>1, <2>2, ReachByParent DEF UnderRoot
    <3>2. q \in Node /\ q \notin Reach(ml, p)
      BY <1>2, <3>1 DEF Rooted, Acyclic
    <3>3. q \in UnderRoot(ml2) /\ ml2[q] = ml[q]
      BY <1>7, <3>2
    <3>4. QED
      BY <1>2, <3>1, <3>3 DEF Closed
  <2>3. QED
    BY <2>1, <2>2
<1>9. QED
  BY <1>6, <1>8

\* Putting n, which is not under Root, under p adds to what is under Root.
LEMMA PutIn ==
  ASSUME NEW ml \in Lists, NEW ml2 \in Lists, NEW p \in UnderRoot(ml), NEW n \in Node,
         ToSet(ml2[p]) = ToSet(ml[p]) \cup {n},
         \A m \in UnderRoot(ml) \ {p} : ml2[m] = ml[m]
  PROVE  UnderRoot(ml) \cup {n} \subseteq UnderRoot(ml2)
<1>1. Root \in Node
  BY TreeAssumption
<1>2. /\ Root \in UnderRoot(ml) /\ UnderRoot(ml) \subseteq Node /\ Closed(ml, UnderRoot(ml))
      /\ Root \in UnderRoot(ml2) /\ UnderRoot(ml2) \subseteq Node /\ Closed(ml2, UnderRoot(ml2))
  BY <1>1, ReachIsClosed DEF UnderRoot
<1> DEFINE S == UnderRoot(ml) \cap UnderRoot(ml2)
<1>3. ASSUME NEW m \in S, NEW x \in ToSet(ml[m])
      PROVE  x \in S
  <2>1. x \in ToSet(ml2[m])
    OBVIOUS
  <2>2. QED
    BY <1>2, <2>1 DEF Closed
<1>4. UnderRoot(ml) \subseteq S
  <2>1. S \in SUBSET Node /\ Root \in S /\ Closed(ml, S)
    BY <1>2, <1>3 DEF Closed
  <2>2. QED
    BY <1>1, <2>1, ReachIsLeast DEF UnderRoot
<1>5. QED
  BY <1>2, <1>4 DEF Closed

-----------------------------------------------------------------------------
\* Changes to lists of children, and what they are to the document.

\* The operators on lists are the same in MutDoc.
LEMMA DocLists ==
  /\ \A s, i : Doc!RemoveAt(s, i) = RemoveAt(s, i)
  /\ \A s, i, e : Doc!InsertAt(s, i, e) = InsertAt(s, i, e)
  BY DEF Doc!RemoveAt, RemoveAt, Doc!InsertAt, InsertAt

\* What is left of a list when one place of it is removed.
LEMMA RemovedAt ==
  ASSUME NEW S, NEW s \in Seq(S), Once(s), NEW i \in 1 .. Len(s)
  PROVE  RemoveAt(s, i) \in Seq(S) /\ ToSet(RemoveAt(s, i)) = ToSet(s) \ {s[i]}
<1>1. PICK t : t = RemoveAt(s, i)
  OBVIOUS
<1>2. /\ t \in Seq(S) /\ Len(t) = Len(s) - 1 /\ Len(s) \in Nat /\ i \in Nat
      /\ \A k \in 1 .. Len(s) - 1 : t[k] = IF k < i THEN s[k] ELSE s[k + 1]
  BY <1>1, RemoveAtElements
<1>3. ASSUME NEW x \in ToSet(t)
      PROVE  x \in ToSet(s) \ {s[i]}
  <2>1. PICK k \in 1 .. Len(s) - 1 : t[k] = x
    BY <1>2, ToSetOfSeq
  <2>2. PICK l : l = IF k < i THEN k ELSE k + 1
    OBVIOUS
  <2>3. l \in 1 .. Len(s) /\ l # i
    BY <1>2, <2>2
  <2>4. x = s[l]
    BY <1>2, <2>1, <2>2
  <2>5. x \in ToSet(s)
    BY <2>3, <2>4, ToSetOfSeq
  <2>6. x # s[i]
    BY <2>3, <2>4 DEF Once
  <2>7. QED
    BY <2>5, <2>6
<1>4. ASSUME NEW x \in ToSet(s), x # s[i]
      PROVE  x \in ToSet(t)
  <2>1. PICK l \in 1 .. Len(s) : s[l] = x
    BY ToSetOfSeq
  <2>2. PICK k : k = IF l < i THEN l ELSE l - 1
    OBVIOUS
  <2>3. l # i
    BY <1>4, <2>1
  <2>4. k \in 1 .. Len(s) - 1
    BY <1>2, <2>2, <2>3
  <2>5. (k < i /\ l = k) \/ (~(k < i) /\ l = k + 1)
    BY <1>2, <2>2, <2>3
  <2>6. t[k] = x
    BY <1>2, <2>1, <2>4, <2>5
  <2>7. t[k] \in ToSet(t)
    BY <1>2, <2>4, ToSetOfSeq
  <2>8. QED
    BY <2>6, <2>7
<1>5. QED
  BY <1>1, <1>2, <1>3, <1>4

\* n is taken out of the one list it is in, or it is put into the list of p.
TakeOut(ml, ml2, n) ==
  \A m \in Node : \/ n \notin ToSet(ml[m]) /\ ml2[m] = ml[m]
                  \/ \E i \in 1 .. Len(ml[m]) : ml[m][i] = n /\ ml2[m] = RemoveAt(ml[m], i)

PutAt(ml, ml2, p, n) ==
  /\ \E j \in 1 .. Len(ml[p]) + 1 : ml2[p] = InsertAt(ml[p], j, n)
  /\ \A m \in Node \ {p} : ml2[m] = ml[m]

\* A node that is not under Root is taken out somewhere else.
LEMMA TakenOutside ==
  ASSUME NEW ml, Rooted(ml), NEW ml2 \in Lists, NEW n \in Node, TakeOut(ml, ml2, n),
         n \notin UnderRoot(ml)
  PROVE  UnderRoot(ml2) = UnderRoot(ml) /\ ListsOf(ml2) = ListsOf(ml)
<1>1. Root \in Node /\ ml \in Lists
  BY TreeAssumption DEF Rooted
<1>2. UnderRoot(ml) \subseteq Node /\ Closed(ml, UnderRoot(ml))
  BY <1>1, ReachIsClosed DEF UnderRoot
<1>3. ASSUME NEW m \in UnderRoot(ml)
      PROVE  ml2[m] = ml[m]
  <2>1. n \notin ToSet(ml[m]) /\ m \in Node /\ ml[m] \in Seq(Node)
    BY <1>1, <1>2 DEF Closed, Lists
  <2>2. \A i \in 1 .. Len(ml[m]) : ml[m][i] # n
    BY <2>1, ToSetOfSeq
  <2>3. QED
    BY <2>1, <2>2 DEF TakeOut
<1>4. QED
  BY <1>1, <1>3, SameLists

\* A node that is under Root is pruned.
LEMMA Pruned ==
  ASSUME NEW ml, Rooted(ml), NEW ml2 \in Lists, NEW n \in Node, TakeOut(ml, ml2, n),
         n \in UnderRoot(ml), n # Root
  PROVE  \E p \in UnderRoot(ml) : \E i \in 1 .. Len(ml[p]) :
           /\ ml[p][i] = n /\ ml2[p] = RemoveAt(ml[p], i)
           /\ \A m \in Node \ {p} : ml2[m] = ml[m]
           /\ UnderRoot(ml2) = UnderRoot(ml) \ Reach(ml, n)
           /\ n \in Reach(ml, n) /\ p \in UnderRoot(ml2)
           /\ Doc!Prune(ListsOf(ml), ListsOf(ml2), p)
<1>1. Root \in Node /\ ml \in Lists
  BY TreeAssumption DEF Rooted
<1>2. UnderRoot(ml) \subseteq Node
  BY <1>1, ReachIsClosed DEF UnderRoot
<1>3. PICK p \in UnderRoot(ml) : n \in ToSet(ml[p])
  BY <1>1, ReachByParent DEF UnderRoot
<1>4. p \in Node /\ ml[p] \in Seq(Node) /\ Once(ml[p])
  BY <1>1, <1>2 DEF Rooted, Lists
<1>5. PICK i \in 1 .. Len(ml[p]) : ml[p][i] = n /\ ml2[p] = RemoveAt(ml[p], i)
  BY <1>3, <1>4 DEF TakeOut
<1>6. ASSUME NEW m \in Node \ {p}
      PROVE  ml2[m] = ml[m]
  <2>1. n \notin ToSet(ml[m]) /\ ml[m] \in Seq(Node)
    BY <1>1, <1>3, <1>4 DEF Rooted, Lists
  <2>2. \A k \in 1 .. Len(ml[m]) : ml[m][k] # n
    BY <2>1, ToSetOfSeq
  <2>3. QED
    BY <2>1, <2>2 DEF TakeOut
<1>7. ToSet(ml2[p]) = ToSet(ml[p]) \ {n}
  BY <1>4, <1>5, RemovedAt
<1>8. /\ UnderRoot(ml2) = UnderRoot(ml) \ Reach(ml, n)
      /\ n \in Reach(ml, n) /\ p \in UnderRoot(ml2)
  BY <1>2, <1>3, <1>6, <1>7, TakenAway
<1>9. Doc!Prune(ListsOf(ml), ListsOf(ml2), p)
  <2> DEFINE before == ListsOf(ml)
             after == ListsOf(ml2)
  <2>1. /\ DOMAIN before = UnderRoot(ml) /\ DOMAIN after = UnderRoot(ml2)
        /\ \A m \in UnderRoot(ml) : before[m] = ml[m]
        /\ \A m \in UnderRoot(ml2) : after[m] = ml2[m]
    BY DEF ListsOf
  <2> HIDE DEF before, after
  <2>2. Doc!OthersKept(before, after, {p})
    BY <1>2, <1>6, <2>1 DEF Doc!OthersKept
  <2>3. /\ i \in 1 .. Len(before[p]) /\ before[p][i] \notin DOMAIN after
        /\ after[p] = RemoveAt(before[p], i)
    BY <1>3, <1>5, <1>8, <2>1
  <2>4. Doc!Prune(before, after, p)
    <3>1. DOMAIN after \subseteq DOMAIN before /\ p \in DOMAIN after
      BY <1>8, <2>1
    <3>2. \E k \in 1 .. Len(before[p]) :
            before[p][k] \notin DOMAIN after /\ after[p] = RemoveAt(before[p], k)
      BY <2>3
    <3>3. QED
      BY <2>2, <3>1, <3>2, DocLists, Zenon DEF Doc!Prune
  <2>5. QED
    BY <2>4 DEF before, after
<1>10. QED
  BY <1>5, <1>6, <1>8, <1>9

\* A node that comes in under one that is under Root is grafted.
LEMMA Grafted ==
  ASSUME NEW ml \in Lists, NEW ml2 \in Lists, NEW p \in UnderRoot(ml), NEW n \in Node,
         PutAt(ml, ml2, p, n), Once(ml[p]), n \notin UnderRoot(ml)
  PROVE  Doc!Graft(ListsOf(ml), ListsOf(ml2), p)
<1>1. Root \in Node
  BY TreeAssumption
<1>2. UnderRoot(ml) \subseteq Node /\ Closed(ml, UnderRoot(ml))
  BY <1>1, ReachIsClosed DEF UnderRoot
<1>3. p \in Node /\ ml[p] \in Seq(Node) /\ n \notin ToSet(ml[p])
  BY <1>2 DEF Closed, Lists
<1>4. PICK j \in 1 .. Len(ml[p]) + 1 : ml2[p] = InsertAt(ml[p], j, n)
  BY DEF PutAt
<1>5. ToSet(ml2[p]) = ToSet(ml[p]) \cup {n}
  BY <1>3, <1>4, InsertedOnce
<1>6. \A m \in UnderRoot(ml) \ {p} : ml2[m] = ml[m]
  BY <1>2 DEF PutAt
<1>7. UnderRoot(ml) \cup {n} \subseteq UnderRoot(ml2)
  BY <1>5, <1>6, PutIn
<1> DEFINE before == ListsOf(ml)
           after == ListsOf(ml2)
<1>8. /\ DOMAIN before = UnderRoot(ml) /\ DOMAIN after = UnderRoot(ml2)
      /\ \A m \in UnderRoot(ml) : before[m] = ml[m]
      /\ \A m \in UnderRoot(ml2) : after[m] = ml2[m]
  BY DEF ListsOf
<1> HIDE DEF before, after
<1>9. Doc!OthersKept(before, after, {p})
  BY <1>6, <1>8 DEF Doc!OthersKept
<1>10. /\ j \in 1 .. Len(before[p]) + 1 /\ n \in DOMAIN after \ DOMAIN before
       /\ after[p] = InsertAt(before[p], j, n)
  BY <1>4, <1>7, <1>8
<1>11. Doc!Graft(before, after, p)
  <2>1. DOMAIN before \subseteq DOMAIN after
    BY <1>7, <1>8
  <2>2. \E k \in 1 .. Len(before[p]) + 1, m \in DOMAIN after \ DOMAIN before :
          after[p] = InsertAt(before[p], k, m)
    BY <1>10
  <2>3. QED
    BY <1>9, <2>1, <2>2, DocLists, Zenon DEF Doc!Graft
<1>12. QED
  BY <1>11 DEF before, after

\* What a change of the lists of mutations is to the document.
IsChange(ml, ml2) ==
  ListsOf(ml2) = ListsOf(ml) \/ Doc!Changes(ListsOf(ml), ListsOf(ml2))

\* Taking out a node is a change, or none.
LEMMA TakeOutIsChange ==
  ASSUME NEW ml, Rooted(ml), NEW ml2 \in Lists, NEW n \in Node, TakeOut(ml, ml2, n), n # Root
  PROVE  IsChange(ml, ml2)
<1>1. CASE n \in UnderRoot(ml)
  <2>1. PICK p \in UnderRoot(ml) : Doc!Prune(ListsOf(ml), ListsOf(ml2), p)
    BY <1>1, Pruned
  <2>2. p \in DOMAIN ListsOf(ml)
    BY DEF ListsOf
  <2>3. QED
    BY <2>1, <2>2 DEF IsChange, Doc!Changes
<1>2. CASE n \notin UnderRoot(ml)
  BY <1>2, TakenOutside DEF IsChange
<1>3. QED
  BY <1>1, <1>2

\* So is putting in one that was not under Root.
LEMMA PutAtIsChange ==
  ASSUME NEW ml, Rooted(ml), NEW ml2 \in Lists, NEW p \in Node, NEW n \in Node,
         PutAt(ml, ml2, p, n), n \notin UnderRoot(ml)
  PROVE  IsChange(ml, ml2)
<1>1. ml \in Lists /\ Once(ml[p]) /\ UnderRoot(ml) \subseteq Node
  BY TreeAssumption, ReachIsClosed DEF Rooted, UnderRoot
<1>2. CASE p \in UnderRoot(ml)
  <2>1. Doc!Graft(ListsOf(ml), ListsOf(ml2), p)
    BY <1>1, <1>2, Grafted
  <2>2. p \in DOMAIN ListsOf(ml)
    BY <1>2 DEF ListsOf
  <2>3. QED
    BY <2>1, <2>2 DEF IsChange, Doc!Changes
<1>3. CASE p \notin UnderRoot(ml)
  <2>1. \A m \in UnderRoot(ml) : ml2[m] = ml[m]
    BY <1>1, <1>3 DEF PutAt
  <2>2. QED
    BY <1>1, <2>1, SameLists DEF IsChange
<1>4. QED
  BY <1>2, <1>3

\* Taking n out and putting it in again.
LEMMA MoveIsChange ==
  ASSUME NEW ml, Rooted(ml), NEW ml1, Rooted(ml1), NEW ml2 \in Lists,
         NEW n \in Node, NEW q \in Node, TakeOut(ml, ml1, n), PutAt(ml1, ml2, q, n),
         n # Root, q \notin Reach(ml, n), \A m \in Node : n \notin ToSet(ml1[m])
  PROVE  IsChange(ml, ml2)
<1>1. Root \in Node /\ ml \in Lists /\ ml1 \in Lists
  BY TreeAssumption DEF Rooted
<1>2. /\ Root \in UnderRoot(ml) /\ UnderRoot(ml) \subseteq Node /\ Closed(ml, UnderRoot(ml))
      /\ UnderRoot(ml1) \subseteq Node /\ Closed(ml1, UnderRoot(ml1))
      /\ UnderRoot(ml2) \subseteq Node /\ Closed(ml2, UnderRoot(ml2)) /\ Root \in UnderRoot(ml2)
  BY <1>1, ReachIsClosed DEF UnderRoot
<1>3. n \notin UnderRoot(ml1)
  <2>1. ASSUME n \in UnderRoot(ml1)
        PROVE  FALSE
    <3>1. PICK m \in UnderRoot(ml1) : n \in ToSet(ml1[m])
      BY <1>1, <2>1, ReachByParent DEF UnderRoot
    <3>2. QED
      BY <1>2, <3>1
  <2>2. QED
    BY <2>1
<1>4. CASE n \notin UnderRoot(ml)
  <2>1. UnderRoot(ml1) = UnderRoot(ml) /\ ListsOf(ml1) = ListsOf(ml)
    BY <1>1, <1>4, TakenOutside
  <2>2. IsChange(ml1, ml2)
    BY <1>3, PutAtIsChange
  <2>3. QED
    BY <2>1, <2>2 DEF IsChange
<1>5. CASE n \in UnderRoot(ml) /\ q \notin UnderRoot(ml1)
  <2>1. \A m \in UnderRoot(ml1) : ml2[m] = ml1[m]
    BY <1>2, <1>5 DEF PutAt
  <2>2. ListsOf(ml2) = ListsOf(ml1)
    BY <1>1, <2>1, SameLists
  <2>3. IsChange(ml, ml1)
    BY <1>1, TakeOutIsChange
  <2>4. QED
    BY <2>2, <2>3 DEF IsChange
<1>6. CASE n \in UnderRoot(ml) /\ q \in UnderRoot(ml1)
  <2>1. PICK p, i :
           /\ p \in UnderRoot(ml) /\ i \in 1 .. Len(ml[p])
           /\ ml[p][i] = n /\ ml1[p] = RemoveAt(ml[p], i)
           /\ \A m \in Node \ {p} : ml1[m] = ml[m]
           /\ UnderRoot(ml1) = UnderRoot(ml) \ Reach(ml, n)
           /\ n \in Reach(ml, n) /\ p \in UnderRoot(ml1)
    BY <1>1, <1>6, Pruned
  <2>2. PICK j \in 1 .. Len(ml1[q]) + 1 : ml2[q] = InsertAt(ml1[q], j, n)
    BY DEF PutAt
  <2>3. \A m \in Node \ {q} : ml2[m] = ml1[m]
    BY DEF PutAt
  <2>4. ml1[q] \in Seq(Node) /\ Once(ml1[q]) /\ n \notin ToSet(ml1[q])
    BY <1>1 DEF Rooted, Lists
  <2>5. ToSet(ml2[q]) = ToSet(ml1[q]) \cup {n}
    BY <2>2, <2>4, InsertedOnce
  <2>6. UnderRoot(ml1) \cup {n} \subseteq UnderRoot(ml2)
    BY <1>1, <1>2, <1>6, <2>3, <2>5, PutIn
  <2>7. Reach(ml, n) \subseteq Node /\ Closed(ml, Reach(ml, n)) /\ Reach(ml, n) \subseteq UnderRoot(ml)
    BY <1>1, <1>2, <1>6, ReachIsClosed, ReachIsLeast
  <2>8. \A m \in Reach(ml, n) : ml2[m] = ml[m]
    BY <1>6, <2>1, <2>3, <2>7
  <2>9. Reach(ml, n) \subseteq UnderRoot(ml2)
    <3> DEFINE S == UnderRoot(ml2) \cap Reach(ml, n)
    <3>1. S \in SUBSET Node /\ n \in S /\ Closed(ml, S)
      BY <1>2, <2>1, <2>6, <2>7, <2>8 DEF Closed
    <3>2. QED
      BY <3>1, ReachIsLeast
  <2>10. ASSUME NEW m \in UnderRoot(ml), NEW x \in ToSet(ml2[m])
         PROVE  x \in UnderRoot(ml)
    <3>1. m \in Node /\ x \in ToSet(ml1[m]) \cup {n}
      BY <1>2, <2>3, <2>5
    <3>2. ml[p] \in Seq(Node) /\ Once(ml[p])
      BY <1>1, <1>2, <2>1 DEF Rooted, Lists
    <3>3. ToSet(ml1[p]) = ToSet(ml[p]) \ {n}
      BY <2>1, <3>2, RemovedAt
    <3>4. x \in ToSet(ml[m]) \cup {n}
      BY <2>1, <3>1, <3>3
    <3>5. QED
      BY <1>2, <1>6, <3>4 DEF Closed
  <2>11. UnderRoot(ml2) \subseteq UnderRoot(ml)
    <3>1. Closed(ml2, UnderRoot(ml))
      BY <2>10 DEF Closed
    <3>2. QED
      BY <1>1, <1>2, <3>1, ReachIsLeast DEF UnderRoot
  <2>12. UnderRoot(ml2) = UnderRoot(ml)
    BY <2>1, <2>6, <2>9, <2>11
  <2> DEFINE before == ListsOf(ml)
             after == ListsOf(ml2)
             left == [before EXCEPT ![p] = RemoveAt(@, i)]
  <2>13. /\ DOMAIN before = UnderRoot(ml) /\ DOMAIN after = UnderRoot(ml)
         /\ before = [m \in UnderRoot(ml) |-> ml[m]] /\ after = [m \in UnderRoot(ml) |-> ml2[m]]
    BY <2>12 DEF ListsOf
  <2> HIDE DEF before, after
  <2>14. left = [m \in UnderRoot(ml) |-> ml1[m]]
    BY <1>2, <2>1, <2>13
  <2> HIDE DEF left
  <2>15. q \in UnderRoot(ml)
    BY <1>6, <2>1
  <2>16. after = [left EXCEPT ![q] = InsertAt(@, j, n)]
    BY <1>2, <2>2, <2>3, <2>13, <2>14, <2>15
  <2>17. /\ i \in 1 .. Len(before[p]) /\ before[p][i] = n
         /\ j \in 1 .. Len(left[q]) + 1
    BY <2>1, <2>2, <2>13, <2>14, <2>15
  <2>18. Doc!OthersKept(before, after, {p, q})
    BY <1>2, <2>1, <2>3, <2>13 DEF Doc!OthersKept
  <2>19. Doc!Move(before, after, p, q)
    <3>1. DOMAIN after = DOMAIN before
      BY <2>13
    <3>2. /\ i \in 1 .. Len(before[p]) /\ j \in 1 .. Len(left[q]) + 1
          /\ after = [left EXCEPT ![q] = InsertAt(@, j, before[p][i])]
      BY <2>16, <2>17
    <3>3. QED
      BY <2>18, <3>1, <3>2, DocLists, Zenon DEF Doc!Move, left
  <2>20. Doc!Changes(before, after)
    <3>1. p \in DOMAIN before /\ q \in DOMAIN before
      BY <2>1, <2>13, <2>15
    <3>2. QED
      BY <2>19, <3>1, Zenon DEF Doc!Changes
  <2>21. QED
    BY <2>20 DEF before, after, IsChange
<1>7. QED
  BY <1>4, <1>5, <1>6

\* Emptying the list of a node.
LEMMA EmptyIsChange ==
  ASSUME NEW ml, Rooted(ml), NEW ml2 \in Lists, NEW p \in Node, ml2[p] = << >>,
         \A m \in UnderRoot(ml) \ Reach(ml, p) : ml2[m] = ml[m]
  PROVE  IsChange(ml, ml2)
<1>1. Root \in Node /\ ml \in Lists
  BY TreeAssumption DEF Rooted
<1>2. UnderRoot(ml) \subseteq Node
  BY <1>1, ReachIsClosed DEF UnderRoot
<1>3. CASE p \notin UnderRoot(ml)
  <2>1. \A m \in UnderRoot(ml) : ml2[m] = ml[m]
    BY <1>3, NothingInside
  <2>2. QED
    BY <1>1, <2>1, SameLists DEF IsChange
<1>4. CASE p \in UnderRoot(ml)
  <2>1. /\ UnderRoot(ml2) \subseteq (UnderRoot(ml) \ Reach(ml, p)) \cup {p}
        /\ p \in UnderRoot(ml2)
    BY <1>4, Emptied
  <2>2. ASSUME NEW k \in 1 .. Len(ml[p])
        PROVE  ml[p][k] \notin UnderRoot(ml2)
    <3>1. ml[p] \in Seq(Node) /\ ml[p][k] \in ToSet(ml[p])
      BY <1>1, ToSetOfSeq DEF Lists
    <3>2. PICK x : x = ml[p][k]
      OBVIOUS
    <3>3. x \in Node /\ x \in ToSet(ml[p])
      BY <3>1, <3>2
    <3>4. x \in Reach(ml, p)
      BY <1>1, <3>3, ReachIsClosed DEF Closed
    <3>5. x # p
      BY <1>1, <3>3, ReachIsClosed DEF Rooted, Acyclic
    <3>6. QED
      BY <2>1, <3>2, <3>4, <3>5
  <2> DEFINE before == ListsOf(ml)
             after == ListsOf(ml2)
  <2>3. /\ DOMAIN before = UnderRoot(ml) /\ DOMAIN after = UnderRoot(ml2)
        /\ \A m \in UnderRoot(ml) : before[m] = ml[m]
        /\ \A m \in UnderRoot(ml2) : after[m] = ml2[m]
    BY DEF ListsOf
  <2> HIDE DEF before, after
  <2>4. Doc!OthersKept(before, after, {p})
    BY <2>1, <2>3 DEF Doc!OthersKept
  <2>5. DOMAIN after \subseteq DOMAIN before /\ p \in DOMAIN after /\ after[p] = << >>
        /\ \A k \in 1 .. Len(before[p]) : before[p][k] \notin DOMAIN after
    BY <1>4, <2>1, <2>2, <2>3
  <2>6. Doc!Clear(before, after, p)
    BY <2>4, <2>5 DEF Doc!Clear
  <2>7. Doc!Changes(before, after)
    BY <1>4, <2>3, <2>6 DEF Doc!Changes
  <2>8. QED
    BY <2>7 DEF before, after, IsChange
<1>5. QED
  BY <1>3, <1>4

-----------------------------------------------------------------------------
\* The mutations in the lists of children.

\* The document has the root under it and is nobody's child.
Tops(kd, ks) ==
  /\ kd[Document] = "document"
  /\ Root \in ToSet(ks[Document])
  /\ \A p \in Node : Document \notin ToSet(ks[p])

\* What the lists have in N, for the nodes in N.
MutLists(ks, N) == [n \in Node |-> IF n \in N THEN Only(ks[n], N) ELSE << >>]

\* They are part of the lists, and as acyclic.
LEMMA MutListsAre ==
  ASSUME NEW kd, NEW ks \in Lists, Forest(kd, ks), NEW N
  PROVE  LET ml == MutLists(ks, N)
         IN  /\ ml \in Lists
             /\ \A m \in Node : /\ Once(ml[m]) /\ ToSet(ml[m]) \subseteq ToSet(ks[m]) \cap N
                                /\ m \in N => ml[m] = Only(ks[m], N) /\ ToSet(ml[m]) = ToSet(ks[m]) \cap N
                                /\ m \notin N => ml[m] = << >>
             /\ \A n \in Node : Reach(ml, n) \subseteq Reach(ks, n)
             /\ Acyclic(ml)
<1> DEFINE ml == MutLists(ks, N)
<1>1. \A m \in Node : ml[m] = IF m \in N THEN Only(ks[m], N) ELSE << >>
  BY DEF MutLists
<1>2. \A m \in Node : LET t == Only(ks[m], N) IN t \in Seq(Node) /\ Once(t) /\ ToSet(t) = ToSet(ks[m]) \cap N
  BY ForestIs, OnlyKeeps DEF Lists
<1>3. << >> \in Seq(Node) /\ Once(<< >>) /\ ToSet(<< >>) = {}
  BY DEF Once, ToSet
<1>4. ml \in Lists
  BY <1>2, <1>3 DEF Lists, MutLists
<1> HIDE DEF ml
<1>5. \A m \in Node : /\ Once(ml[m]) /\ ToSet(ml[m]) \subseteq ToSet(ks[m]) \cap N
                      /\ m \in N => ml[m] = Only(ks[m], N) /\ ToSet(ml[m]) = ToSet(ks[m]) \cap N
                      /\ m \notin N => ml[m] = << >>
  BY <1>1, <1>2, <1>3
<1>6. (\A n \in Node : Reach(ml, n) \subseteq Reach(ks, n)) /\ Acyclic(ml)
  <2>1. \A m \in Node : ToSet(ml[m]) \subseteq ToSet(ks[m])
    BY <1>5
  <2>2. Acyclic(ks)
    BY ForestIs
  <2>3. QED
    BY <1>4, <2>1, <2>2, FewerChildren
<1>7. QED
  BY <1>4, <1>5, <1>6 DEF ml

\* Nothing that is not made is under Root in them, and Root is in none.
LEMMA MutListsRooted ==
  ASSUME NEW kd, NEW ks \in Lists, Forest(kd, ks), Tops(kd, ks), NEW N, Document \notin N
  PROVE  /\ Rooted(MutLists(ks, N))
         /\ \A n \in UnderRoot(MutLists(ks, N)) : n \in Node /\ IsMade(kd, n)
<1> DEFINE ml == MutLists(ks, N)
<1>1. /\ ml \in Lists /\ Acyclic(ml)
      /\ \A m \in Node : /\ Once(ml[m]) /\ ToSet(ml[m]) \subseteq ToSet(ks[m]) \cap N
                         /\ m \notin N => ml[m] = << >>
  BY MutListsAre
<1>2. Root \in Node /\ Document \in Node
  BY TreeAssumption
<1>3. ml[Document] = << >>
  BY <1>1, <1>2
<1> HIDE DEF ml
<1>4. \A m \in Node : Root \in ToSet(ks[m]) => m = Document
  BY <1>2, ForestIs DEF Tops
<1>5. \A m \in Node : Root \notin ToSet(ml[m])
  <2>1. Root \notin ToSet(ml[Document])
    BY <1>3 DEF ToSet
  <2>2. QED
    BY <1>1, <1>4, <2>1
<1>6. \A p, q \in Node : p # q => ToSet(ml[p]) \cap ToSet(ml[q]) = {}
  BY <1>1, ForestIs
<1>7. Rooted(ml)
  BY <1>1, <1>5, <1>6 DEF Rooted
<1>8. ASSUME NEW n \in UnderRoot(ml)
      PROVE  n \in Node /\ IsMade(kd, n)
  <2>1. UnderRoot(ml) \subseteq Node
    BY <1>1, <1>2, ReachIsClosed DEF UnderRoot
  <2>2. CASE n = Root
    BY <1>2, <2>2, ForestIs DEF Tops
  <2>3. CASE n # Root
    <3>1. PICK p \in UnderRoot(ml) : n \in ToSet(ml[p])
      BY <1>1, <1>2, <2>3, ReachByParent DEF UnderRoot
    <3>2. p \in Node /\ n \in ToSet(ks[p])
      BY <1>1, <2>1, <3>1
    <3>3. QED
      BY <2>1, <3>2, ForestIs
  <2>4. QED
    BY <2>2, <2>3
<1>9. QED
  BY <1>7, <1>8 DEF ml

\* The lists keep the same of them when N changes by what is in no list and has none.
LEMMA MutListsSame ==
  ASSUME NEW ks \in Lists, NEW N, NEW N2,
         \A n \in Node : (n \in N <=> n \in N2)
                         \/ (ToSet(ks[n]) = {} /\ \A m \in Node : n \notin ToSet(ks[m]))
  PROVE  MutLists(ks, N2) = MutLists(ks, N)
<1>1. ASSUME NEW m \in Node
      PROVE  (IF m \in N2 THEN Only(ks[m], N2) ELSE << >>) = (IF m \in N THEN Only(ks[m], N) ELSE << >>)
  <2>1. ks[m] \in Seq(Node) /\ \A x \in ToSet(ks[m]) : x \in Node /\ (x \in N <=> x \in N2)
    BY ToSetOfSeq DEF Lists
  <2>2. Only(ks[m], N) = Only(ks[m], N2)
    BY <2>1, OnlySame
  <2>3. CASE m \in N <=> m \in N2
    BY <2>2, <2>3
  <2>4. CASE ToSet(ks[m]) = {}
    <3>1. ks[m] = << >>
      <4>1. Len(ks[m]) = 0
        BY <2>1, <2>4, ToSetOfSeq
      <4>2. QED
        BY <2>1, <4>1
    <3>2. Only(<< >>, N) = << >> /\ Only(<< >>, N2) = << >>
      <4>1. << >> \in Seq(Node)
        OBVIOUS
      <4>2. QED
        BY <4>1, OnlyOf
    <3>3. QED
      BY <3>1, <3>2
  <2>5. QED
    BY <2>3, <2>4
<1>2. QED
  BY <1>1 DEF MutLists

\* Only adds nothing to a list.
LEMMA OnlyWithin ==
  ASSUME NEW S, NEW s \in Seq(S), NEW N
  PROVE  ToSet(Only(s, N)) \subseteq ToSet(s)
<1> DEFINE J == {u \in Seq(S) : ToSet(Only(u, N)) \subseteq ToSet(u)}
<1>1. << >> \in J
  BY OnlyOf
<1>2. ASSUME NEW k \in 1 .. Len(s), SubSeq(s, 1, k - 1) \in J
      PROVE  SubSeq(s, 1, k) \in J
  <2> DEFINE a == SubSeq(s, 1, k - 1)
             b == SubSeq(s, 1, k)
  <2>1. a \in Seq(S) /\ s[k] \in S /\ b = Append(a, s[k]) /\ ToSet(Only(a, N)) \subseteq ToSet(a)
    BY <1>2, PrefixGrows
  <2> HIDE DEF a, b
  <2>2. /\ Only(a, N) \in Seq(S)
        /\ Only(Append(a, s[k]), N) = IF s[k] \in N THEN Append(Only(a, N), s[k]) ELSE Only(a, N)
    <3>1. a \in Seq(S) /\ s[k] \in S
      BY <2>1
    <3>2. \A e \in S : Only(Append(a, e), N) = IF e \in N THEN Append(Only(a, N), e) ELSE Only(a, N)
      BY <3>1, OnlyOf
    <3>3. Only(a, N) \in Seq(S)
      BY <3>1, OnlyOf
    <3>4. QED
      BY <3>1, <3>2, <3>3
  <2>3. /\ ToSet(Append(Only(a, N), s[k])) = ToSet(Only(a, N)) \cup {s[k]}
        /\ b \in Seq(S) /\ ToSet(b) = ToSet(a) \cup {s[k]}
    BY <2>1, <2>2, AppendedIs
  <2>4. b \in J
    BY <2>1, <2>2, <2>3
  <2>5. QED
    BY <2>4 DEF b
<1>3. J \in SUBSET Seq(S)
  OBVIOUS
<1> HIDE DEF J
<1>4. s \in J
  BY <1>1, <1>2, <1>3, PrefixInduced
<1>5. QED
  BY <1>4 DEF J

\* Taking a mutation out of the lists takes it out of these.
LEMMA TakeOutOnly ==
  ASSUME NEW ks \in Lists, NEW ks2 \in Lists, NEW N, NEW n \in N, TakeOut(ks, ks2, n)
  PROVE  TakeOut(MutLists(ks, N), MutLists(ks2, N), n)
<1> DEFINE ml == MutLists(ks, N)
           ml2 == MutLists(ks2, N)
<1>1. ASSUME NEW m \in Node
      PROVE  \/ n \notin ToSet(ml[m]) /\ ml2[m] = ml[m]
             \/ \E i \in 1 .. Len(ml[m]) : ml[m][i] = n /\ ml2[m] = RemoveAt(ml[m], i)
  <2>1. /\ ml[m] = IF m \in N THEN Only(ks[m], N) ELSE << >>
        /\ ml2[m] = IF m \in N THEN Only(ks2[m], N) ELSE << >>
    BY DEF MutLists
  <2>2. ks[m] \in Seq(Node) /\ ks2[m] \in Seq(Node)
    BY DEF Lists
  <2> HIDE DEF ml, ml2
  <2>3. CASE m \notin N
    BY <2>1, <2>3 DEF ToSet
  <2>4. CASE m \in N /\ n \notin ToSet(ks[m]) /\ ks2[m] = ks[m]
    <3>1. ToSet(Only(ks[m], N)) \subseteq ToSet(ks[m])
      BY <2>2, OnlyWithin
    <3>2. QED
      BY <2>1, <2>4, <3>1
  <2>5. CASE m \in N /\ \E i \in 1 .. Len(ks[m]) : ks[m][i] = n /\ ks2[m] = RemoveAt(ks[m], i)
    <3>1. PICK i \in 1 .. Len(ks[m]) : ks[m][i] = n /\ ks2[m] = RemoveAt(ks[m], i)
      BY <2>5
    <3>2. \E j \in 1 .. Len(Only(ks[m], N)) :
            Only(ks[m], N)[j] = ks[m][i] /\ Only(RemoveAt(ks[m], i), N) = RemoveAt(Only(ks[m], N), j)
      BY <2>2, <3>1, OnlyRemove
    <3>3. QED
      BY <2>1, <2>5, <3>1, <3>2
  <2>6. QED
    BY <2>3, <2>4, <2>5 DEF TakeOut
<1>2. QED
  BY <1>1 DEF TakeOut

\* Putting a node in puts it into these if it and its parent are in N.
LEMMA PutAtOnly ==
  ASSUME NEW ks \in Lists, NEW ks2 \in Lists, NEW N, NEW p \in Node, NEW n \in Node,
         PutAt(ks, ks2, p, n)
  PROVE  \/ PutAt(MutLists(ks, N), MutLists(ks2, N), p, n)
         \/ MutLists(ks2, N) = MutLists(ks, N)
<1> DEFINE ml == MutLists(ks, N)
           ml2 == MutLists(ks2, N)
<1>1. PICK i \in 1 .. Len(ks[p]) + 1 : ks2[p] = InsertAt(ks[p], i, n)
  BY DEF PutAt
<1>2. \A m \in Node \ {p} : ks2[m] = ks[m]
  BY DEF PutAt
<1>3. \A m \in Node : /\ ml[m] = IF m \in N THEN Only(ks[m], N) ELSE << >>
                      /\ ml2[m] = IF m \in N THEN Only(ks2[m], N) ELSE << >>
  BY DEF MutLists
<1>4. (\A m \in Node : ml2[m] = ml[m]) => ml2 = ml
  BY DEF MutLists
<1> HIDE DEF ml, ml2
<1>5. \A m \in Node \ {p} : ml2[m] = ml[m]
  BY <1>2, <1>3
<1>6. ks[p] \in Seq(Node)
  BY DEF Lists
<1>7. CASE p \notin N
  <2>1. ml2 = ml
    BY <1>3, <1>4, <1>5, <1>7
  <2>2. QED
    BY <2>1 DEF ml, ml2
<1>8. CASE p \in N /\ n \notin N
  <2>1. Only(InsertAt(ks[p], i, n), N) = Only(ks[p], N)
    BY <1>6, <1>8, OnlyInsert
  <2>2. ml2[p] = ml[p]
    BY <1>1, <1>3, <1>8, <2>1
  <2>3. ml2 = ml
    BY <1>4, <1>5, <2>2
  <2>4. QED
    BY <2>3 DEF ml, ml2
<1>9. CASE p \in N /\ n \in N
  <2>1. \E j \in 1 .. Len(Only(ks[p], N)) + 1 :
          Only(InsertAt(ks[p], i, n), N) = InsertAt(Only(ks[p], N), j, n)
    BY <1>6, <1>9, OnlyInsert
  <2>2. \E j \in 1 .. Len(ml[p]) + 1 : ml2[p] = InsertAt(ml[p], j, n)
    BY <1>1, <1>3, <1>9, <2>1
  <2>3. PutAt(ml, ml2, p, n)
    BY <1>5, <2>2 DEF PutAt
  <2>4. QED
    BY <2>3 DEF ml, ml2
<1>10. QED
  BY <1>7, <1>8, <1>9 DEF ml, ml2

\* The functions of libxml2 are such changes.
LEMMA UnlinkTakesOut ==
  ASSUME NEW ks \in Lists, NEW n \in Node, \A m \in Node : Once(ks[m])
  PROVE  TakeOut(ks, Unlink(ks, n), n)
<1>1. ASSUME NEW m \in Node
      PROVE  \/ n \notin ToSet(ks[m]) /\ Unlink(ks, n)[m] = ks[m]
             \/ \E i \in 1 .. Len(ks[m]) : ks[m][i] = n /\ Unlink(ks, n)[m] = RemoveAt(ks[m], i)
  <2>1. Unlink(ks, n)[m] = RemoveFirst(ks[m], n)
    BY DEF Unlink
  <2>2. ks[m] \in Seq(Node) /\ Once(ks[m])
    BY DEF Lists
  <2>3. CASE n \notin ToSet(ks[m])
    <3>1. ~ \E k \in 1 .. Len(ks[m]) : ks[m][k] = n
      BY <2>2, <2>3, ToSetOfSeq
    <3>2. RemoveFirst(ks[m], n) = ks[m]
      BY <3>1 DEF RemoveFirst
    <3>3. QED
      BY <2>1, <2>3, <3>2
  <2>4. CASE n \in ToSet(ks[m])
    <3> DEFINE at == SelectInSeq(ks[m], LAMBDA x : x = n)
    <3>1. at \in 1 .. Len(ks[m]) /\ ks[m][at] = n
      BY <2>2, <2>4, Position
    <3>2. RemoveFirst(ks[m], n) = RemoveAt(ks[m], at)
      <4>1. \E k \in 1 .. Len(ks[m]) : ks[m][k] = n
        BY <3>1
      <4>2. QED
        BY <4>1 DEF RemoveFirst
    <3> HIDE DEF at
    <3>3. QED
      BY <2>1, <3>1, <3>2
  <2>5. QED
    BY <2>3, <2>4
<1>2. QED
  BY <1>1 DEF TakeOut

\* Under puts a node behind the others, Beside next to another one.
LEMMA UnderPuts ==
  ASSUME NEW ks \in Lists, NEW p \in Node, NEW n \in Node
  PROVE  PutAt(ks, Under(ks, p, n), p, n)
<1>1. ks[p] \in Seq(Node) /\ Len(ks[p]) \in Nat
  BY DEF Lists
<1>2. PICK s, l : s = ks[p] /\ l = Len(s) + 1
  OBVIOUS
<1>3. s \in Seq(Node) /\ Len(s) \in Nat /\ l \in 1 .. Len(s) + 1
  BY <1>1, <1>2
<1>4. InsertAt(s, l, n) = Append(s, n)
  <2>1. PICK t, u : t = InsertAt(s, l, n) /\ u = Append(s, n)
    OBVIOUS
  <2>2. /\ t \in Seq(Node) /\ Len(t) = Len(s) + 1
        /\ \A k \in 1 .. Len(s) + 1 : t[k] = IF k < l THEN s[k] ELSE IF k = l THEN n ELSE s[k - 1]
    <3>1. /\ InsertAt(s, l, n) \in Seq(Node) /\ Len(InsertAt(s, l, n)) = Len(s) + 1
          /\ \A k \in 1 .. Len(s) + 1 :
               InsertAt(s, l, n)[k] = IF k < l THEN s[k] ELSE IF k = l THEN n ELSE s[k - 1]
      BY <1>3, InsertAtElements
    <3>2. QED
      BY <2>1, <3>1
  <2>3. /\ u \in Seq(Node) /\ Len(u) = Len(s) + 1
        /\ \A k \in 1 .. Len(s) + 1 : u[k] = IF k = Len(s) + 1 THEN n ELSE s[k]
    BY <1>3, <2>1
  <2>4. ASSUME NEW k \in 1 .. Len(s) + 1
        PROVE  t[k] = u[k]
    <3>1. k < l \/ k = l
      BY <1>2, <1>3
    <3>2. QED
      BY <1>2, <1>3, <2>2, <2>3, <3>1
  <2>5. QED
    BY <2>1, <2>2, <2>3, <2>4, SeqEqual
<1>5. Under(ks, p, n)[p] = Append(s, n) /\ \A m \in Node \ {p} : Under(ks, p, n)[m] = ks[m]
  BY <1>2 DEF Under, Lists
<1>6. QED
  BY <1>2, <1>3, <1>4, <1>5 DEF PutAt

\* The place of a node that has another one next to it.
LEMMA BesidePuts ==
  ASSUME NEW kd, NEW ks \in Lists, Forest(kd, ks), NEW p \in Node, NEW n \in Node,
         NEW d \in ToSet(ks[p]), NEW after \in {0, 1}
  PROVE  PutAt(ks, Beside(ks, d, n, after), p, n)
<1> DEFINE at == SelectInSeq(ks[p], LAMBDA x : x = d)
<1>1. ks[p] \in Seq(Node) /\ Once(ks[p]) /\ Len(ks[p]) \in Nat
  BY ForestIs DEF Lists
<1>2. at \in 1 .. Len(ks[p])
  BY <1>1, Position
<1>3. \A m \in Node : d \in ToSet(ks[m]) <=> m = p
  BY ForestIs
<1>4. /\ Beside(ks, d, n, after)[p] = InsertAt(ks[p], at + after, n)
      /\ \A m \in Node \ {p} : Beside(ks, d, n, after)[m] = ks[m]
  BY <1>3 DEF Beside
<1> HIDE DEF at
<1>5. at + after \in 1 .. Len(ks[p]) + 1
  BY <1>1, <1>2
<1>6. QED
  BY <1>4, <1>5 DEF PutAt

\* Nothing but n comes into a list.
LEMMA PutAtAdds ==
  ASSUME NEW ks \in Lists, NEW ks2, NEW p \in Node, NEW n \in Node, PutAt(ks, ks2, p, n),
         NEW m \in Node
  PROVE  ToSet(ks2[m]) \subseteq ToSet(ks[m]) \cup {n}
<1>1. CASE m # p
  BY <1>1 DEF PutAt
<1>2. CASE m = p
  <2>1. PICK i \in 1 .. Len(ks[p]) + 1 : ks2[p] = InsertAt(ks[p], i, n)
    BY DEF PutAt
  <2>2. PICK s, t : s = ks[p] /\ t = ks2[p]
    OBVIOUS
  <2>3. s \in Seq(Node) /\ Len(s) \in Nat /\ i \in 1 .. Len(s) + 1
    BY <2>1, <2>2 DEF Lists
  <2>4. /\ t \in Seq(Node) /\ Len(t) = Len(s) + 1
        /\ \A k \in 1 .. Len(s) + 1 : t[k] = IF k < i THEN s[k] ELSE IF k = i THEN n ELSE s[k - 1]
    <3>1. /\ InsertAt(s, i, n) \in Seq(Node) /\ Len(InsertAt(s, i, n)) = Len(s) + 1
          /\ \A k \in 1 .. Len(s) + 1 :
               InsertAt(s, i, n)[k] = IF k < i THEN s[k] ELSE IF k = i THEN n ELSE s[k - 1]
      BY <2>3, InsertAtElements
    <3>2. QED
      BY <2>1, <2>2, <3>1
  <2>5. ASSUME NEW x \in ToSet(t), x # n
        PROVE  x \in ToSet(s)
    <3>1. PICK k \in 1 .. Len(s) + 1 : t[k] = x
      BY <2>4, ToSetOfSeq
    <3>2. PICK l : l = IF k < i THEN k ELSE k - 1
      OBVIOUS
    <3>3. k # i
      BY <2>4, <2>5, <3>1
    <3>4. l \in 1 .. Len(s)
      BY <2>3, <3>2, <3>3
    <3>5. x = s[l]
      BY <2>4, <3>1, <3>2, <3>3
    <3>6. QED
      BY <2>3, <3>4, <3>5, ToSetOfSeq
  <2>6. QED
    BY <1>2, <2>2, <2>5
<1>3. QED
  BY <1>1, <1>2

-----------------------------------------------------------------------------
\* The calls: what comes in, and what moves.

\* The nodes are a tree with the document and the root on top.
TopInv == TreeInv /\ Tops(kind, kids)

\* A step keeps them on top, and is none or a change to the document of mutations.
DocStep ==
  /\ Tops(kind', kids') /\ kind'[Root] = kind[Root]
  /\ IsChange(MutLists(kids, Handles), MutLists(kids', Handles'))

\* The document is no mutation, and the root is under it.
LEMMA DocumentIsNoHandle ==
  ASSUME TopInv
  PROVE  /\ Document \in Node /\ Root \in Node /\ Document \notin Handles
         /\ IsMade(kind, Document) /\ IsMade(kind, Root) /\ Attached(Root)
  BY TreeAssumption, ForestIs
     DEF TopInv, Tops, Handles, TreeInv, IsForest, IsMade, Attached, Children

\* Neither is under a mutation but the root under itself.
LEMMA TopsAbove ==
  ASSUME TopInv, NEW n \in Handles, n # Root
  PROVE  Root \notin Below(n) /\ Document \notin Below(n)
<1>1. n \in Node /\ n # Document /\ Root \in Node /\ Document \in Node /\ kids \in Lists
  BY DocumentIsNoHandle DEF Handles, TopInv, TreeInv
<1>2. Below(n) \subseteq Node
  BY <1>1, ReachIsClosed DEF Below
<1>3. Document \notin Below(n)
  BY <1>1, <1>2, ReachByParent DEF Below, TopInv, Tops
<1>4. ASSUME Root \in Below(n)
      PROVE  FALSE
  <2>1. PICK p \in Below(n) : Root \in ToSet(kids[p])
    BY <1>1, <1>4, ReachByParent DEF Below
  <2>2. p = Document
    BY <1>1, <1>2, <2>1, ForestIs DEF TopInv, Tops, TreeInv, IsForest
  <2>3. QED
    BY <1>3, <2>1, <2>2
<1>5. QED
  BY <1>3, <1>4

\* They stay on top when they are not among what is moved or freed.
LEMMA TopsKept ==
  ASSUME TopInv, NEW S, Changed(S), Root \notin S, Document \notin S,
         \A p \in Node : Document \notin ToSet(kids'[p])
  PROVE  Tops(kind', kids') /\ kind'[Root] = kind[Root]
<1>1. /\ Document \in Node /\ Root \in Node /\ IsMade(kind, Document) /\ IsMade(kind, Root)
  BY DocumentIsNoHandle
<1>2. /\ Kept(kids, kids', S)
      /\ \A n \in Node : kind[n] = "unused" \/ kind'[n] = kind[n] \/ n \in S
  BY DEF Changed
<1>3. kind'[Document] = kind[Document] /\ kind'[Root] = kind[Root]
  BY <1>1, <1>2 DEF IsMade
<1>4. Root \in ToSet(kids'[Document])
  BY <1>1, <1>2 DEF Kept, TopInv, Tops
<1>5. QED
  BY <1>3, <1>4 DEF TopInv, Tops

\* The lists of mutations.
LEMMA MutKidsRooted ==
  ASSUME TopInv
  PROVE  /\ Rooted(MutLists(kids, Handles))
         /\ \A n \in UnderRoot(MutLists(kids, Handles)) : n \in Node /\ IsMade(kind, n)
  BY DocumentIsNoHandle, MutListsRooted DEF TopInv, TreeInv, IsForest

\* After a change they are lists again.
LEMMA MutKidsLater ==
  ASSUME NEW S, Changed(S)
  PROVE  kids' \in Lists /\ MutLists(kids', Handles') \in Lists
<1>1. kids' \in Lists /\ Forest(kind', kids')
  BY DEF Changed
<1>2. QED
  BY <1>1, MutListsAre

\* A made node comes to be under p, when it was not under the root.
LEMMA PutIsStep ==
  ASSUME TopInv, Changed({}), NEW p \in Node, NEW n \in Node, ~IsMade(kind, n), PutAt(kids, kids', p, n),
         \A m \in Node \ {n} : kind'[m] = kind[m]
  PROVE  DocStep
<1>1. Document # n /\ kids \in Lists /\ Forest(kind, kids)
  BY DocumentIsNoHandle DEF TopInv, TreeInv, IsForest
<1>2. \A m \in Node : Document \notin ToSet(kids'[m])
  BY <1>1, PutAtAdds DEF TopInv, Tops
<1>3. Tops(kind', kids') /\ kind'[Root] = kind[Root]
  BY <1>2, TopsKept
<1> DEFINE ml == MutLists(kids, Handles)
           ml1 == MutLists(kids, Handles')
           ml2 == MutLists(kids', Handles')
<1>4. ml1 = ml
  <2>1. \A m \in Node \ {n} : m \in Handles <=> m \in Handles'
    BY DEF Handles
  <2>2. ToSet(kids[n]) = {} /\ \A m \in Node : n \notin ToSet(kids[m])
    BY <1>1, NotMade
  <2>3. \A m \in Node : (m \in Handles <=> m \in Handles')
                        \/ (ToSet(kids[m]) = {} /\ \A q \in Node : m \notin ToSet(kids[q]))
    BY <2>1, <2>2
  <2>4. QED
    BY <1>1, <2>3, MutListsSame
<1>5. Rooted(ml) /\ \A m \in UnderRoot(ml) : IsMade(kind, m)
  BY MutKidsRooted
<1>6. kids' \in Lists /\ ml2 \in Lists
  BY MutKidsLater
<1>7. PutAt(ml1, ml2, p, n) \/ ml2 = ml1
  BY <1>1, <1>6, PutAtOnly
<1> HIDE DEF ml, ml1, ml2
<1>8. IsChange(ml, ml2)
  <2>1. CASE PutAt(ml, ml2, p, n)
    <3>1. n \notin UnderRoot(ml)
      BY <1>5
    <3>2. QED
      BY <1>5, <1>6, <2>1, <3>1, PutAtIsChange
  <2>2. CASE ml2 = ml
    BY <2>2 DEF IsChange
  <2>3. QED
    BY <1>4, <1>7, <2>1, <2>2
<1>9. QED
  BY <1>3, <1>8 DEF DocStep, ml, ml2

\* AddChild of a type or of a TMut, and AddNext of a type.
LEMMA AddChildNewStep ==
  ASSUME TopInv, NEW p \in Node, NEW n \in Node, NEW t \in Type \cup {"text"}, AddChildNew(p, t, n)
  PROVE  DocStep
<1>1. Changed({})
  BY AddChildNewChanges DEF TopInv
<1>2. /\ kind[n] = "unused" /\ kind' = [kind EXCEPT ![n] = t] /\ kids' = Under(kids, p, n)
      /\ kind \in [Node -> Kind] /\ kids \in Lists
  BY DEF AddChildNew, TopInv, TreeInv
<1>3. ~IsMade(kind, n) /\ \A m \in Node \ {n} : kind'[m] = kind[m]
  BY <1>2 DEF IsMade
<1>4. PutAt(kids, kids', p, n)
  BY <1>2, UnderPuts
<1>5. QED
  BY <1>1, <1>3, <1>4, PutIsStep

\* AddNext of a type.
LEMMA AddNextNewStep ==
  ASSUME TopInv, NEW d \in Node, NEW n \in Node, NEW t \in Type, AddNextNew(d, t, n)
  PROVE  DocStep
<1>1. Changed({})
  BY AddNextNewChanges DEF TopInv
<1>2. /\ kind[n] = "unused" /\ kind' = [kind EXCEPT ![n] = t] /\ kids' = Beside(kids, d, n, 1)
      /\ kind \in [Node -> Kind] /\ kids \in Lists /\ Forest(kind, kids) /\ Attached(d)
  BY DEF AddNextNew, TopInv, TreeInv, IsForest
<1>3. ~IsMade(kind, n) /\ \A m \in Node \ {n} : kind'[m] = kind[m]
  BY <1>2 DEF IsMade
<1>4. PICK p \in Node : d \in ToSet(kids[p])
  BY <1>2 DEF Attached, Children
<1>5. PutAt(kids, kids', p, n)
  BY <1>2, <1>4, BesidePuts
<1>6. QED
  BY <1>1, <1>3, <1>5, PutIsStep

\* AddChild of what has been detached.
LEMMA AddDetachedStep ==
  ASSUME TopInv, NEW p \in Node, NEW n \in Node, AddDetached(p, n)
  PROVE  DocStep
<1>1. /\ p \in Handles /\ n \in Handles /\ ~Attached(n)
      /\ kids' = Under(kids, p, n) /\ kind' = kind
      /\ kids \in Lists /\ Forest(kind, kids)
  BY DEF AddDetached, TopInv, TreeInv, IsForest
<1>2. Changed({n}) /\ n # Root /\ n # Document /\ Root \in Node
  BY <1>1, AddDetachedChanges, DocumentIsNoHandle DEF TopInv
<1>3. PutAt(kids, kids', p, n)
  BY <1>1, UnderPuts
<1>4. \A m \in Node : Document \notin ToSet(kids'[m])
  BY <1>1, <1>2, <1>3, PutAtAdds DEF TopInv, Tops
<1>5. Tops(kind', kids') /\ kind'[Root] = kind[Root]
  BY <1>2, <1>4, TopsKept
<1> DEFINE ml == MutLists(kids, Handles)
           ml2 == MutLists(kids', Handles)
<1>6. Handles' = Handles
  BY <1>1 DEF Handles
<1>7. Rooted(ml) /\ ml2 \in Lists /\ kids' \in Lists
  BY <1>2, <1>6, MutKidsRooted, MutKidsLater
<1>8. \A m \in Node : ToSet(ml[m]) \subseteq ToSet(kids[m])
  BY <1>1, MutListsAre
<1>9. PutAt(ml, ml2, p, n) \/ ml2 = ml
  BY <1>1, <1>3, <1>7, PutAtOnly
<1> HIDE DEF ml, ml2
<1>10. n \notin UnderRoot(ml)
  <2>1. ml \in Lists /\ UnderRoot(ml) \subseteq Node
    BY <1>2, <1>7, ReachIsClosed DEF Rooted, UnderRoot
  <2>2. \A m \in Node : n \notin ToSet(ml[m])
    BY <1>1, <1>8 DEF Attached, Children
  <2>3. QED
    BY <1>2, <2>1, <2>2, ReachByParent DEF UnderRoot
<1>11. IsChange(ml, ml2)
  <2>1. CASE PutAt(ml, ml2, p, n)
    BY <1>7, <1>10, <2>1, PutAtIsChange
  <2>2. CASE ml2 = ml
    BY <2>2 DEF IsChange
  <2>3. QED
    BY <1>9, <2>1, <2>2
<1>12. QED
  BY <1>5, <1>6, <1>11 DEF DocStep, ml, ml2

\* A mutation is taken from where it is and put under p.
LEMMA MoveIsStep ==
  ASSUME TopInv, NEW n \in Handles \ {Root}, NEW p \in Node, p \notin Reach(kids, n), Changed({n}),
         PutAt(Unlink(kids, n), kids', p, n), kind' = kind
  PROVE  DocStep
<1> DEFINE ks == Unlink(kids, n)
<1>1. n \in Node /\ n # Document /\ Document \notin Handles /\ kids \in Lists /\ Forest(kind, kids)
  BY DocumentIsNoHandle DEF Handles, TopInv, TreeInv, IsForest
<1>2. \A m \in Node : Once(kids[m])
  BY <1>1, ForestIs
<1>3. /\ ks \in Lists /\ Forest(kind, ks)
      /\ \A m \in Node : ToSet(ks[m]) = ToSet(kids[m]) \ {n}
  BY <1>1, UnlinkMakes
<1>4. TakeOut(kids, ks, n)
  BY <1>1, <1>2, UnlinkTakesOut
<1> HIDE DEF ks
<1>5. \A m \in Node : Document \notin ToSet(kids'[m])
  BY <1>1, <1>3, PutAtAdds DEF TopInv, Tops, ks
<1>6. Tops(kind', kids') /\ kind'[Root] = kind[Root]
  BY <1>1, <1>5, TopsKept
<1>7. Tops(kind, ks)
  BY <1>3, DocumentIsNoHandle DEF TopInv, Tops
<1> DEFINE ml == MutLists(kids, Handles)
           ml1 == MutLists(ks, Handles)
           ml2 == MutLists(kids', Handles)
<1>8. Handles' = Handles
  BY DEF Handles
<1>9. Rooted(ml) /\ Rooted(ml1) /\ ml1 \in Lists /\ ml2 \in Lists /\ kids' \in Lists
  <2>1. Rooted(ml) /\ ml2 \in Lists /\ kids' \in Lists
    BY <1>8, MutKidsRooted, MutKidsLater
  <2>2. Rooted(ml1)
    BY <1>1, <1>3, <1>7, MutListsRooted
  <2>3. QED
    BY <2>1, <2>2 DEF Rooted
<1>10. \A m \in Node : n \notin ToSet(ml1[m])
  <2>1. \A m \in Node : ToSet(ml1[m]) \subseteq ToSet(ks[m])
    BY <1>3, MutListsAre
  <2>2. QED
    BY <1>3, <2>1
<1>11. p \notin Reach(ml, n)
  <2>1. Reach(ml, n) \subseteq Reach(kids, n)
    BY <1>1, MutListsAre
  <2>2. QED
    BY <2>1
<1>12. TakeOut(ml, ml1, n)
  BY <1>1, <1>3, <1>4, TakeOutOnly
<1>13. PutAt(ml1, ml2, p, n) \/ ml2 = ml1
  BY <1>1, <1>3, <1>9, PutAtOnly DEF ks
<1> HIDE DEF ml, ml1, ml2
<1>14. IsChange(ml, ml2)
  <2>1. CASE PutAt(ml1, ml2, p, n)
    BY <1>1, <1>9, <1>10, <1>11, <1>12, <2>1, MoveIsChange
  <2>2. CASE ml2 = ml1
    BY <1>1, <1>9, <1>12, <2>2, TakeOutIsChange
  <2>3. QED
    BY <1>13, <2>1, <2>2
<1>15. QED
  BY <1>6, <1>8, <1>14 DEF DocStep, ml, ml2

\* MoveNextTo and MovePrevTo.
LEMMA MoveToStep ==
  ASSUME TopInv, NEW n \in Node, NEW d \in Node, NEW after \in {0, 1}, MoveTo(n, d, after)
  PROVE  DocStep
<1> DEFINE ks == Unlink(kids, n)
<1>1. /\ n \in Handles \ {Root} /\ Attached(d) /\ d \notin Reach(kids, n)
      /\ kids' = Beside(ks, d, n, after) /\ kind' = kind
      /\ kids \in Lists /\ Forest(kind, kids) /\ Changed({n})
  BY MoveToChanges DEF MoveTo, Below, TopInv, TreeInv, IsForest
<1>2. PICK p \in Node : d \in ToSet(kids[p])
  BY <1>1 DEF Attached, Children
<1>3. d # n /\ p \notin Reach(kids, n)
  BY <1>1, <1>2, ReachIsClosed DEF Closed
<1>4. ks \in Lists /\ Forest(kind, ks) /\ d \in ToSet(ks[p])
  BY <1>1, <1>2, <1>3, UnlinkMakes
<1> HIDE DEF ks
<1>5. PutAt(ks, kids', p, n)
  BY <1>1, <1>4, BesidePuts
<1>6. QED
  BY <1>1, <1>3, <1>5, MoveIsStep DEF ks

\* MoveToEnd takes a node out and puts it behind its siblings.
LEMMA MoveToEndStep ==
  ASSUME TopInv, NEW n \in Node, MoveToEnd(n)
  PROVE  DocStep
<1> DEFINE ks == Unlink(kids, n)
<1>1. /\ n \in Handles \ {Root} /\ Attached(n) /\ kind' = kind
      /\ kids' = [m \in Node |-> IF n \in Children(m) THEN Append(RemoveFirst(kids[m], n), n)
                                                      ELSE kids[m]]
      /\ kids \in Lists /\ Forest(kind, kids) /\ Changed({n})
  BY MoveToEndChanges DEF MoveToEnd, TopInv, TreeInv, IsForest
<1>2. PICK p \in Node : n \in ToSet(kids[p])
  BY <1>1 DEF Attached, Children
<1>3. p \notin Reach(kids, n) /\ \A m \in Node \ {p} : n \notin ToSet(kids[m])
  BY <1>1, <1>2, ForestIs DEF Acyclic
<1>4. \A m \in Node : ks[m] = RemoveFirst(kids[m], n)
  BY DEF Unlink
<1>5. \A m \in Node \ {p} : RemoveFirst(kids[m], n) = kids[m]
  <2> SUFFICES ASSUME NEW m \in Node \ {p}
               PROVE  RemoveFirst(kids[m], n) = kids[m]
    OBVIOUS
  <2>1. kids[m] \in Seq(Node) /\ n \notin ToSet(kids[m])
    BY <1>1, <1>3 DEF Lists
  <2>2. ~ \E k \in 1 .. Len(kids[m]) : kids[m][k] = n
    BY <2>1, ToSetOfSeq
  <2>3. QED
    BY <2>2 DEF RemoveFirst
<1>6. ks \in Lists
  BY <1>1, UnlinkMakes
<1> HIDE DEF ks
<1>7. kids' = Under(ks, p, n)
  <2>1. \A m \in Node : Under(ks, p, n)[m] = IF m = p THEN Append(ks[p], n) ELSE ks[m]
    BY <1>6 DEF Under, Lists
  <2>2. \A m \in Node : kids'[m] = IF m = p THEN Append(ks[p], n) ELSE ks[m]
    BY <1>1, <1>2, <1>3, <1>4, <1>5 DEF Children
  <2>3. kids' \in Lists /\ Under(ks, p, n) = [m \in Node |-> Under(ks, p, n)[m]]
    BY <1>1, <1>6 DEF Changed, Under, Lists
  <2>4. QED
    BY <2>1, <2>2, <2>3 DEF Lists
<1>8. PutAt(ks, kids', p, n)
  BY <1>6, <1>7, UnderPuts
<1>9. QED
  BY <1>1, <1>3, <1>8, MoveIsStep DEF ks

-----------------------------------------------------------------------------
\* The calls: what leaves, what is emptied and what is copied.

\* RmChild with aDeattachOnly.
LEMMA DetachStep ==
  ASSUME TopInv, NEW n \in Node, Detach(n)
  PROVE  DocStep
<1> DEFINE ks == Unlink(kids, n)
<1>1. /\ n \in Handles \ {Root} /\ kids' = ks /\ kind' = kind
      /\ kids \in Lists /\ Forest(kind, kids) /\ Changed({n})
  BY DetachChanges DEF Detach, TopInv, TreeInv, IsForest
<1>2. n # Document
  BY <1>1, DocumentIsNoHandle
<1>3. \A m \in Node : Once(kids[m])
  BY <1>1, ForestIs
<1>4. ks \in Lists /\ \A m \in Node : ToSet(ks[m]) = ToSet(kids[m]) \ {n}
  BY <1>1, UnlinkMakes
<1>5. TakeOut(kids, ks, n)
  BY <1>1, <1>3, UnlinkTakesOut
<1> HIDE DEF ks
<1>6. Tops(kind', kids') /\ kind'[Root] = kind[Root]
  <2>1. \A m \in Node : Document \notin ToSet(kids'[m])
    BY <1>1, <1>4 DEF TopInv, Tops
  <2>2. QED
    BY <1>1, <1>2, <2>1, TopsKept
<1> DEFINE ml == MutLists(kids, Handles)
           ml2 == MutLists(kids', Handles)
<1>7. Handles' = Handles
  BY <1>1 DEF Handles
<1>8. Rooted(ml) /\ ml2 \in Lists
  BY <1>1, <1>7, MutKidsRooted, MutKidsLater
<1>9. TakeOut(ml, ml2, n)
  BY <1>1, <1>4, <1>5, TakeOutOnly
<1> HIDE DEF ml, ml2
<1>10. IsChange(ml, ml2)
  BY <1>1, <1>8, <1>9, TakeOutIsChange
<1>11. QED
  BY <1>6, <1>7, <1>10 DEF DocStep, ml, ml2

\* Rm and RmChild.
LEMMA RmStep ==
  ASSUME TopInv, NEW n \in Node, Rm(n)
  PROVE  DocStep
<1> DEFINE gone == Below(n)
           ks == Unlink(kids, n)
<1>1. /\ n \in Handles \ {Root}
      /\ kind' = [m \in Node |-> IF m \in gone THEN "freed" ELSE kind[m]]
      /\ kids' = [m \in Node |-> IF m \in gone THEN << >> ELSE RemoveFirst(kids[m], n)]
      /\ kids \in Lists /\ Forest(kind, kids) /\ Changed(gone) /\ TreeInv
  BY RmChanges DEF Rm, TopInv, TreeInv, IsForest
<1>2. Root \notin gone /\ Document \notin gone /\ Root \in Node
  BY <1>1, TopsAbove, TreeAssumption
<1>3. gone \subseteq Node /\ n \in gone
  BY <1>1, ReachIsClosed DEF Below
<1>4. \A m \in Node \ gone : \A x \in ToSet(kids[m]) : x # n => x \notin gone
  BY <1>1, OutsideStaysOutside
<1>5. \A m \in Node : Once(kids[m])
  BY <1>1, ForestIs
<1>6. /\ ks \in Lists /\ Forest(kind, ks) /\ \A m \in Node : ToSet(ks[m]) = ToSet(kids[m]) \ {n}
  BY <1>1, UnlinkMakes
<1>7. TakeOut(kids, ks, n)
  BY <1>1, <1>5, UnlinkTakesOut
<1>8. \A m \in Node : kids'[m] = IF m \in gone THEN << >> ELSE ks[m]
  BY <1>1 DEF Unlink
<1> HIDE DEF ks, gone
<1>9. Tops(kind', kids') /\ kind'[Root] = kind[Root]
  <2>1. \A m \in Node : Document \notin ToSet(kids'[m])
    BY <1>6, <1>8 DEF TopInv, Tops, ToSet
  <2>2. QED
    BY <1>1, <1>2, <2>1, TopsKept
<1> DEFINE ml == MutLists(kids, Handles)
           ml1 == MutLists(ks, Handles)
           ml2 == MutLists(kids', Handles')
<1>10. Rooted(ml) /\ ml1 \in Lists /\ ml2 \in Lists /\ \A m \in Node : ToSet(ml1[m]) \subseteq ToSet(ks[m])
  <2>1. Rooted(ml) /\ ml2 \in Lists
    BY <1>1, MutKidsRooted, MutKidsLater
  <2>2. ml1 \in Lists /\ \A m \in Node : ToSet(ml1[m]) \subseteq ToSet(ks[m])
    BY <1>6, MutListsAre
  <2>3. QED
    BY <2>1, <2>2
<1>11. TakeOut(ml, ml1, n)
  BY <1>1, <1>6, <1>7, TakeOutOnly
<1>12. ASSUME NEW m \in Node \ gone
       PROVE  ml2[m] = ml1[m]
  <2>1. \A x \in Node \ gone : x \in Handles' <=> x \in Handles
    BY <1>1 DEF Handles
  <2>2. ks[m] \in Seq(Node) /\ \A x \in ToSet(ks[m]) : x \in Node \ gone
    BY <1>4, <1>6, ToSetOfSeq DEF Lists
  <2>3. Only(ks[m], Handles') = Only(ks[m], Handles)
    BY <2>1, <2>2, OnlySame
  <2>4. kids'[m] = ks[m]
    BY <1>8
  <2>5. QED
    BY <2>1, <2>3, <2>4 DEF MutLists
<1> HIDE DEF ml, ml1, ml2
<1>13. UnderRoot(ml1) \cap gone = {}
  <2>1. ASSUME NEW m \in Node \ gone, NEW x \in ToSet(ml1[m])
        PROVE  x \in Node \ gone
    <3>1. x \in ToSet(kids[m]) /\ x # n /\ x \in Node
      BY <1>6, <1>10, ToSetOfSeq DEF Lists
    <3>2. QED
      BY <1>4, <3>1
  <2>2. Closed(ml1, Node \ gone) /\ Node \ gone \in SUBSET Node
    BY <2>1 DEF Closed
  <2>3. UnderRoot(ml1) \subseteq Node \ gone
    BY <1>2, <2>2, ReachIsLeast DEF UnderRoot
  <2>4. QED
    BY <2>3
<1>14. ListsOf(ml2) = ListsOf(ml1)
  <2>1. UnderRoot(ml1) \subseteq Node
    BY <1>2, <1>10, ReachIsClosed DEF UnderRoot
  <2>2. QED
    BY <1>10, <1>12, <1>13, <2>1, SameLists
<1>15. IsChange(ml, ml1)
  BY <1>1, <1>10, <1>11, TakeOutIsChange
<1>16. QED
  BY <1>9, <1>14, <1>15 DEF DocStep, IsChange, ml, ml2

\* SetContent.
LEMMA SetContentStep ==
  ASSUME TopInv, NEW p \in Node, NEW text \in Node \cup {NoNode}, SetContent(p, text)
  PROVE  DocStep
<1> DEFINE gone == Below(p) \ {p}
<1>1. /\ p \in Handles /\ (text = NoNode \/ kind[text] = "unused")
      /\ kind' = [m \in Node |-> IF m \in gone THEN "freed"
                                 ELSE IF m = text THEN "text" ELSE kind[m]]
      /\ kids' = [m \in Node |-> IF m \in gone THEN << >>
                                 ELSE IF m # p THEN kids[m]
                                 ELSE IF text = NoNode THEN << >> ELSE <<text>>]
      /\ kids \in Lists /\ Forest(kind, kids) /\ Changed(gone) /\ TreeInv
  BY SetContentChanges DEF SetContent, TopInv, TreeInv, IsForest
<1>2. Below(p) \subseteq Node /\ p \in Below(p) /\ Root \in Node /\ p # Document
  BY <1>1, ReachIsClosed, DocumentIsNoHandle DEF Below
<1>3. Document \notin Below(p)
  BY <1>1, <1>2, ReachByParent DEF Below, TopInv, Tops
<1>4. Root \in Below(p) => Root = p
  BY <1>1, TopsAbove
<1>5. text # Document /\ NoNode \notin Node /\ text \notin Handles
  BY <1>1, TreeAssumption, DocumentIsNoHandle DEF IsMade, Handles
<1>6. Tops(kind', kids') /\ kind'[Root] = kind[Root]
  <2>1. ASSUME NEW m \in Node
        PROVE  Document \notin ToSet(kids'[m])
    <3>1. ToSet(<< >>) = {} /\ ToSet(<<text>>) = {text}
      BY DEF ToSet
    <3>2. kids'[m] = << >> \/ kids'[m] = kids[m] \/ kids'[m] = <<text>>
      BY <1>1
    <3>3. QED
      BY <1>5, <3>1, <3>2 DEF TopInv, Tops
  <2>2. QED
    BY <1>1, <1>3, <1>4, <2>1, TopsKept
<1> DEFINE ml == MutLists(kids, Handles)
           ml2 == MutLists(kids', Handles')
<1>7. Rooted(ml) /\ ml2 \in Lists /\ ml \in Lists
  BY <1>1, MutKidsRooted, MutKidsLater DEF Rooted
<1>8. \A m \in Node : ToSet(ml[m]) \subseteq ToSet(kids[m])
  BY <1>1, MutListsAre
<1>9. \A m \in Node : m \in Handles' <=> m \in Handles /\ m \notin gone
  BY <1>1, <1>5, TreeAssumption DEF Handles
<1>10. ml2[p] = << >>
  <2>1. ml2[p] = IF p \in Handles' THEN Only(kids'[p], Handles') ELSE << >>
    BY DEF MutLists
  <2>2. Only(<< >>, Handles') = << >>
    <3>1. << >> \in Seq(Node)
      OBVIOUS
    <3>2. QED
      BY <3>1, OnlyOf
  <2>3. CASE text = NoNode
    BY <1>1, <2>1, <2>2, <2>3
  <2>4. CASE text # NoNode
    <3>1. text \in Node /\ text \notin Handles' /\ kids'[p] = <<text>>
      BY <1>1, <1>5, <1>9, <2>4
    <3>2. << >> \in Seq(Node) /\ Append(<< >>, text) = <<text>>
      OBVIOUS
    <3>3. PICK e, N2 : e = << >> /\ N2 = Handles'
      OBVIOUS
    <3>4. e \in Seq(Node) /\ Append(e, text) = <<text>>
      BY <3>2, <3>3
    <3>5. \A x \in Node : Only(Append(e, x), N2) = IF x \in N2 THEN Append(Only(e, N2), x) ELSE Only(e, N2)
      BY <3>4, OnlyOf
    <3>6. Only(<<text>>, N2) = Only(e, N2)
      BY <3>1, <3>3, <3>4, <3>5
    <3>7. QED
      BY <2>1, <2>2, <3>1, <3>3, <3>6
  <2>5. QED
    BY <2>3, <2>4
<1>11. ASSUME NEW m \in Node \ Below(p)
       PROVE  ml2[m] = ml[m]
  <2>1. kids[m] \in Seq(Node) /\ kids'[m] = kids[m] /\ m \notin gone
    BY <1>1, <1>2 DEF Lists
  <2>2. \A x \in ToSet(kids[m]) : x \in Node /\ x \notin gone
    BY <1>1, <2>1, OutsideStaysOutside, ToSetOfSeq
  <2>3. Only(kids[m], Handles') = Only(kids[m], Handles)
    BY <1>9, <2>1, <2>2, OnlySame
  <2>4. QED
    BY <1>9, <2>1, <2>3 DEF MutLists
<1> HIDE DEF ml, ml2
<1>12. Reach(ml, p) \subseteq Node /\ p \in Reach(ml, p) /\ Closed(ml, Reach(ml, p))
       /\ UnderRoot(ml) \subseteq Node /\ Root \in UnderRoot(ml) /\ Closed(ml, UnderRoot(ml))
  BY <1>2, <1>7, ReachIsClosed DEF UnderRoot
<1>13. UnderRoot(ml) \cap Below(p) \subseteq Reach(ml, p)
  <2> DEFINE S == (UnderRoot(ml) \ Below(p)) \cup Reach(ml, p)
  <2>1. ASSUME NEW m \in S, NEW x \in ToSet(ml[m])
        PROVE  x \in S
    <3>1. CASE m \in Reach(ml, p)
      BY <1>12, <3>1 DEF Closed
    <3>2. CASE m \in UnderRoot(ml) \ Below(p)
      <4>1. x \in UnderRoot(ml) /\ x \in ToSet(kids[m]) /\ m \in Node
        BY <1>8, <1>12, <3>2 DEF Closed
      <4>2. x # p => x \notin Below(p)
        BY <1>1, <3>2, <4>1, OutsideStaysOutside
      <4>3. QED
        BY <1>12, <4>1, <4>2
    <3>3. QED
      BY <3>1, <3>2
  <2>2. S \in SUBSET Node /\ Root \in S /\ Closed(ml, S)
    BY <1>4, <1>12, <2>1 DEF Closed
  <2>3. UnderRoot(ml) \subseteq S
    BY <1>2, <2>2, ReachIsLeast DEF UnderRoot
  <2>4. QED
    BY <2>3
<1>14. \A m \in UnderRoot(ml) \ Reach(ml, p) : ml2[m] = ml[m]
  BY <1>11, <1>12, <1>13
<1>15. IsChange(ml, ml2)
  BY <1>7, <1>10, <1>14, EmptyIsChange
<1>16. QED
  BY <1>6, <1>15 DEF DocStep, ml, ml2

\* AddChild, AddNext and AddPrev of a copy.
LEMMA AddCopyStep ==
  ASSUME TopInv, NEW d \in Node, NEW n \in Node, NEW how \in {"under", "after", "before"},
         NEW r \in BOOLEAN, NEW f \in Copies(n, r), AddCopy(d, n, how, f)
  PROVE  DocStep
<1> DEFINE new == {f[a] : a \in DOMAIN f}
           kd == Copied(f).kind
           ks == Copied(f).kids
           ks2 == CASE how = "under"  -> Under(ks, d, f[n])
                    [] how = "after"  -> Beside(ks, d, f[n], 1)
                    [] how = "before" -> Beside(ks, d, f[n], 0)
<1>1. /\ d \in Handles /\ n \in Handles /\ (how = "under" \/ Attached(d))
      /\ kind' = kd /\ kids' = ks2
      /\ kids \in Lists /\ Forest(kind, kids) /\ TreeInv /\ Changed({})
  BY AddCopyChanges DEF AddCopy, TopInv, TreeInv, IsForest
<1>2. /\ Copying(f) /\ n \in DOMAIN f /\ \A a \in DOMAIN f : IsMade(kind, a)
  BY <1>1, CopiesAre
<1>3. /\ kd \in [Node -> Kind] /\ ks \in Lists /\ Forest(kd, ks)
      /\ \A p \in Node : \A x \in ToSet(ks[p]) : x \in new \/ x \in ToSet(kids[p])
  <2>1. \A p \in Node : \A x \in ToSet(ks[p]) :
           \/ p \notin new /\ x \notin new /\ x \in ToSet(kids[p])
           \/ \E a, b \in DOMAIN f : p = f[a] /\ x = f[b] /\ b \in Children(a)
    BY <1>1, <1>2, CopiedMakes DEF TreeInv, IsForest
  <2>2. QED
    BY <1>1, <1>2, <2>1, CopiedMakes DEF TreeInv, IsForest
<1>4. \A m \in Node \ new : kd[m] = kind[m] /\ ks[m] = kids[m]
  BY <1>1, <1>2, CopiedIs DEF TreeInv
<1>5. f[n] \in new /\ \A m \in new : m \in Node /\ kind[m] = "unused" /\ ~IsMade(kind, m)
  BY <1>2 DEF Copying, IsMade
<1>6. f[n] \in Node /\ Document \notin new /\ Root \notin new /\ Document \in Node /\ Root \in Node
  BY <1>5, DocumentIsNoHandle
<1> HIDE DEF kd, ks, new
<1>7. \E p \in Node : PutAt(ks, ks2, p, f[n])
  <2>1. CASE how = "under"
    BY <1>3, <1>6, <2>1, UnderPuts
  <2>2. CASE how # "under"
    <3>1. PICK p \in Node : d \in ToSet(kids[p]) /\ IsMade(kind, p)
      BY <1>1, <2>2, OneParent
    <3>2. d \in ToSet(ks[p])
      BY <1>4, <1>5, <3>1
    <3>3. PutAt(ks, Beside(ks, d, f[n], 0), p, f[n]) /\ PutAt(ks, Beside(ks, d, f[n], 1), p, f[n])
      BY <1>3, <1>6, <3>2, BesidePuts
    <3>4. ks2 = Beside(ks, d, f[n], 0) \/ ks2 = Beside(ks, d, f[n], 1)
      BY <2>2
    <3>5. QED
      BY <3>3, <3>4
  <2>3. QED
    BY <2>1, <2>2
<1> HIDE DEF ks2
<1>8. PICK p \in Node : PutAt(ks, kids', p, f[n])
  BY <1>1, <1>7
<1>9. Tops(kd, ks)
  BY <1>3, <1>4, <1>6 DEF TopInv, Tops
<1>10. Tops(kind', kids') /\ kind'[Root] = kind[Root]
  <2>1. ASSUME NEW m \in Node
        PROVE  Document \notin ToSet(kids'[m])
    <3>1. ToSet(kids'[m]) \subseteq ToSet(ks[m]) \cup {f[n]}
      BY <1>3, <1>6, <1>8, PutAtAdds
    <3>2. Document \notin ToSet(ks[m])
      BY <1>9 DEF Tops
    <3>3. f[n] # Document
      BY <1>5, <1>6
    <3>4. QED
      BY <3>1, <3>2, <3>3
  <2>2. QED
    BY <1>1, <2>1, TopsKept
<1> DEFINE N2 == Handles'
           ml == MutLists(kids, Handles)
           ml1 == MutLists(ks, N2)
           ml2 == MutLists(kids', N2)
<1>11. \A m \in Node : m \in N2 <=> kd[m] \in Type
  BY <1>1 DEF Handles
<1>12. Document \notin N2
  BY <1>9, <1>11, TreeAssumption DEF Tops
<1>13. Rooted(ml) /\ ml2 \in Lists /\ kids' \in Lists /\ \A m \in UnderRoot(ml) : m \in Node /\ IsMade(kind, m)
  BY <1>1, MutKidsRooted, MutKidsLater
<1> HIDE DEF N2
<1>14. Rooted(ml1)
  BY <1>3, <1>9, <1>12, MutListsRooted
<1>15. ASSUME NEW m \in UnderRoot(ml)
       PROVE  ml1[m] = ml[m]
  <2>1. m \in Node \ new
    BY <1>5, <1>13
  <2>2. ks[m] = kids[m] /\ (m \in N2 <=> m \in Handles)
    BY <1>4, <1>11, <2>1 DEF Handles
  <2>3. kids[m] \in Seq(Node)
    BY <1>1, <2>1 DEF Lists
  <2>4. \A x \in ToSet(kids[m]) : x \in N2 <=> x \in Handles
    <3>1. \A x \in ToSet(kids[m]) : x \in Node /\ IsMade(kind, x)
      BY <1>1, <2>1, <2>3, ForestIs, ToSetOfSeq
    <3>2. \A x \in ToSet(kids[m]) : x \in Node \ new
      BY <1>5, <3>1
    <3>3. QED
      BY <1>4, <1>11, <3>2 DEF Handles
  <2>5. Only(kids[m], N2) = Only(kids[m], Handles)
    BY <2>3, <2>4, OnlySame
  <2>6. QED
    BY <2>1, <2>2, <2>5 DEF MutLists
<1>16. PutAt(ml1, ml2, p, f[n]) \/ ml2 = ml1
  BY <1>3, <1>6, <1>8, <1>13, PutAtOnly
<1> HIDE DEF ml, ml1, ml2
<1>17. UnderRoot(ml1) = UnderRoot(ml) /\ ListsOf(ml1) = ListsOf(ml)
  BY <1>13, <1>14, <1>15, SameLists DEF Rooted
<1>18. f[n] \notin UnderRoot(ml1)
  BY <1>5, <1>13, <1>17
<1>19. IsChange(ml1, ml2)
  <2>1. CASE PutAt(ml1, ml2, p, f[n])
    BY <1>6, <1>13, <1>14, <1>18, <2>1, PutAtIsChange
  <2>2. CASE ml2 = ml1
    BY <2>2 DEF IsChange
  <2>3. QED
    BY <1>16, <2>1, <2>2
<1>20. IsChange(ml, ml2)
  BY <1>17, <1>19 DEF IsChange
<1>21. QED
  BY <1>10, <1>20 DEF DocStep, ml, ml2, N2

-----------------------------------------------------------------------------
\* The steps.

\* The document of mutations, as ChromoTree binds it.
DocMap == [n \in InDoc |-> Only(kids[n], Handles)]

\* The lists of what is under Root and in N.
DocOf(ks, N) ==
  [n \in (UNION {Reach(ml, Root) : ml \in {MutLists(ks, N)}}) \cap N |-> Only(ks[n], N)]

\* They are the lists of mutations under Root, none if Root is no mutation.
LEMMA DocOfIs ==
  ASSUME NEW kd, NEW ks \in Lists, Forest(kd, ks), NEW N
  PROVE  /\ Root \in N => DocOf(ks, N) = ListsOf(MutLists(ks, N))
         /\ Root \notin N => DocOf(ks, N) = [n \in {} |-> << >>]
<1> DEFINE ml == MutLists(ks, N)
           at == UnderRoot(ml)
           D  == (UNION {Reach(x, Root) : x \in {ml}}) \cap N
<1>0. ml \in Lists
  BY MutListsAre
<1>1. Root \in Node
  BY TreeAssumption
<1>2. \A m \in Node : ml[m] = IF m \in N THEN Only(ks[m], N) ELSE << >>
  BY DEF MutLists
<1>3. \A m \in Node : ToSet(ml[m]) \subseteq N
  BY MutListsAre
<1>4. D = at \cap N
  BY DEF UnderRoot
<1>5. DocOf(ks, N) = [n \in D |-> Only(ks[n], N)]
  BY DEF DocOf
<1> HIDE DEF ml, D
<1>6. at \in SUBSET Node /\ Root \in at /\ Closed(ml, at)
  BY <1>0, <1>1, ReachIsClosed DEF UnderRoot
<1>7. ASSUME Root \in N
      PROVE  DocOf(ks, N) = ListsOf(ml)
  <2>1. Closed(ml, at \cap N)
    BY <1>3, <1>6 DEF Closed
  <2>2. at \cap N \in SUBSET Node /\ Root \in at \cap N
    BY <1>6, <1>7
  <2>3. at \subseteq at \cap N
    BY <1>1, <2>1, <2>2, ReachIsLeast DEF UnderRoot
  <2>4. D = at /\ \A n \in at : n \in Node /\ n \in N
    BY <1>4, <1>6, <2>3
  <2>5. QED
    BY <1>2, <1>5, <2>4 DEF ListsOf
<1>8. ASSUME Root \notin N
      PROVE  D = {}
  <2>1. ml[Root] = << >>
    BY <1>1, <1>2, <1>8
  <2>2. ToSet(<< >>) = {}
    BY DEF ToSet
  <2>3. Closed(ml, {Root})
    BY <2>1, <2>2 DEF Closed
  <2>4. at \subseteq {Root}
    BY <1>1, <2>3, ReachIsLeast DEF UnderRoot
  <2>5. QED
    BY <1>4, <1>8, <2>4
<1>9. QED
  BY <1>5, <1>7, <1>8 DEF ml

\* Before a step and after it.
LEMMA DocMapIs == DocMap = DocOf(kids, Handles) /\ DocMap' = DocOf(kids', Handles')
  BY DEF DocMap, InDoc, MutKids, DocOf, MutLists, Handles

\* A step of the tree is one of the document, or none, and leaves it on top.
DocNext == [Doc!Next]_DocMap /\ Tops(kind', kids')

\* What was shown of the calls is that.
LEMMA DocStepIs ==
  ASSUME TopInv, NEW S, Changed(S), DocStep
  PROVE  DocNext
<1>1. kids \in Lists /\ kids' \in Lists /\ Root \in Node
  BY TreeAssumption, MutKidsLater DEF TopInv, TreeInv
<1>2. Forest(kind, kids) /\ Forest(kind', kids')
  BY DEF TopInv, TreeInv, IsForest, Changed
<1>3. Root \in Handles <=> Root \in Handles'
  BY <1>1 DEF Handles, DocStep
<1>4. DocMap' = DocMap \/ Doc!Changes(DocMap, DocMap')
  <2>1. CASE Root \in Handles
    <3>1. DocMap = ListsOf(MutLists(kids, Handles))
      BY <1>1, <1>2, <2>1, DocMapIs, DocOfIs
    <3>2. DocMap' = ListsOf(MutLists(kids', Handles'))
      BY <1>1, <1>2, <1>3, <2>1, DocMapIs, DocOfIs
    <3>3. PICK d, e : d = DocMap /\ e = DocMap'
      OBVIOUS
    <3>4. e = d \/ Doc!Changes(d, e)
      BY <3>1, <3>2, <3>3 DEF DocStep, IsChange
    <3>5. QED
      BY <3>3, <3>4
  <2>2. CASE Root \notin Handles
    <3>1. DocMap = [n \in {} |-> << >>]
      BY <1>1, <1>2, <2>2, DocMapIs, DocOfIs
    <3>2. DocMap' = [n \in {} |-> << >>]
      BY <1>1, <1>2, <1>3, <2>2, DocMapIs, DocOfIs
    <3>3. QED
      BY <3>1, <3>2
  <2>3. QED
    BY <2>1, <2>2
<1>5. [Doc!Next]_DocMap
  BY <1>4, Zenon DEF Doc!Next, DocMap
<1>6. QED
  BY <1>5 DEF DocStep, DocNext

\* Where nothing is changed nothing is.
LEMMA DocStays ==
  ASSUME Tops(kind, kids), kind' = kind, kids' = kids
  PROVE  DocNext
<1>1. DocMap' = DocMap
  BY DocMapIs DEF Handles
<1>2. QED
  BY <1>1 DEF DocNext

\* With what an iterator has passed.
TopIInv == TreeIInv /\ Tops(kind, kids)

\* The calls of Change are.
LEMMA ChangeIsDoc ==
  ASSUME TopInv, Change
  PROVE  DocNext
<1>1. TreeInv
  BY DEF TopInv
<1>2. PICK n \in Node :
        \/ \E d \in Node, t \in Type : AddChildNew(d, t, n) \/ AddNextNew(d, t, n)
        \/ \E r \in BOOLEAN : \E f \in Copies(n, r) :
             \E d \in Node, how \in {"under", "after", "before"} : AddCopy(d, n, how, f)
        \/ \E d \in Node : AddDetached(d, n)
        \/ \E d \in Node, after \in {0, 1} : MoveTo(n, d, after)
  BY DEF Change
<1>3. ASSUME NEW d \in Node, NEW t \in Type, AddChildNew(d, t, n)
      PROVE  DocNext
  BY <1>1, <1>3, AddChildNewChanges, AddChildNewStep, DocStepIs
<1>4. ASSUME NEW d \in Node, NEW t \in Type, AddNextNew(d, t, n)
      PROVE  DocNext
  BY <1>1, <1>4, AddNextNewChanges, AddNextNewStep, DocStepIs
<1>5. ASSUME NEW r \in BOOLEAN, NEW f \in Copies(n, r), NEW d \in Node,
             NEW how \in {"under", "after", "before"}, AddCopy(d, n, how, f)
      PROVE  DocNext
  BY <1>1, <1>5, AddCopyChanges, AddCopyStep, DocStepIs
<1>6. ASSUME NEW d \in Node, AddDetached(d, n)
      PROVE  DocNext
  BY <1>1, <1>6, AddDetachedChanges, AddDetachedStep, DocStepIs
<1>7. ASSUME NEW d \in Node, NEW after \in {0, 1}, MoveTo(n, d, after)
      PROVE  DocNext
  BY <1>1, <1>7, MoveToChanges, MoveToStep, DocStepIs
<1>8. QED
  BY <1>2, <1>3, <1>4, <1>5, <1>6, <1>7

\* The calls of ChangeOne are.
LEMMA ChangeOneIsDoc ==
  ASSUME TopInv, ChangeOne
  PROVE  DocNext
<1>1. TreeInv
  BY DEF TopInv
<1>2. PICK n \in Node : \/ MoveToEnd(n) \/ Detach(n) \/ Rm(n)
                        \/ \E text \in Node \cup {NoNode} : SetContent(n, text)
  BY DEF ChangeOne
<1>3. CASE MoveToEnd(n)
  BY <1>1, <1>3, MoveToEndChanges, MoveToEndStep, DocStepIs
<1>4. CASE Detach(n)
  BY <1>1, <1>4, DetachChanges, DetachStep, DocStepIs
<1>5. CASE Rm(n)
  BY <1>1, <1>5, RmChanges, RmStep, DocStepIs
<1>6. ASSUME NEW text \in Node \cup {NoNode}, SetContent(n, text)
      PROVE  DocNext
  BY <1>1, <1>6, SetContentChanges, SetContentStep, DocStepIs
<1>7. QED
  BY <1>2, <1>3, <1>4, <1>5, <1>6

\* What libxml2 has read has them on top.
LEMMA InitDoc == Init => TopIInv
  BY InitTree, TreeAssumption DEF Init, TopIInv, Tops

\* Every step of the tree keeps them there and is one of the document, or none.
LEMMA NextDoc == TopIInv /\ [Next]_vars => TopIInv' /\ [Doc!Next]_DocMap
<1> SUFFICES ASSUME TopIInv, [Next]_vars PROVE TopIInv' /\ [Doc!Next]_DocMap
  OBVIOUS
<1>1. TopInv /\ Tops(kind, kids) /\ TreeIInv
  BY DEF TopIInv, TopInv, TreeIInv, TypeInv
<1>2. TreeIInv'
  BY <1>1, NextTree
<1>3. Tops(kind, kids)' <=> Tops(kind', kids')
  BY DEF Tops
<1>4. DocNext
  <2>1. CASE Change
    BY <1>1, <2>1, ChangeIsDoc
  <2>2. CASE ChangeOne
    BY <1>1, <2>2, ChangeOneIsDoc
  <2>3. CASE Iterate
    <3>1. kind' = kind /\ kids' = kids
      BY <2>3 DEF Iterate, Begin, Rbegin, Advance
    <3>2. QED
      BY <1>1, <3>1, DocStays
  <2>4. CASE UNCHANGED vars
    BY <1>1, <2>4, DocStays DEF vars
  <2>5. QED
    BY <2>1, <2>2, <2>3, <2>4 DEF Next
<1>5. QED
  BY <1>2, <1>3, <1>4 DEF TopIInv, DocNext

\* Whatever else is in the file, the chromo is a document of mutations.
THEOREM TreeIsDoc == Spec => DocSpec
<1>1. DocSpec <=> [][Doc!Next]_DocMap
  BY DEF DocSpec, Doc!Spec, DocMap
<1>2. QED
  BY <1>1, InitDoc, NextDoc, PTL DEF Spec

\* So does and is every step with attributes.
LEMMA AttrNextDoc == TopIInv /\ [AttrNext]_attrVars => TopIInv' /\ [Doc!Next]_DocMap
<1> SUFFICES ASSUME TopIInv, [AttrNext]_attrVars PROVE TopIInv' /\ [Doc!Next]_DocMap
  OBVIOUS
<1>1. TopInv /\ Tops(kind, kids) /\ TreeIInv /\ TreeInv
  BY DEF TopIInv, TopInv, TreeIInv, TypeInv
<1>2. TreeIInv'
  BY <1>1, AttrNextTree
<1>3. Tops(kind, kids)' <=> Tops(kind', kids')
  BY DEF Tops
<1>4. ASSUME NEW p \in Node, NEW n \in Node, NEW mut \in Mut, AddMut(p, mut, n)
      PROVE  DocNext
  <2> DEFINE t == IF mut.type \in Type THEN mut.type ELSE "text"
  <2>1. AddChildNew(p, t, n) /\ t \in Type \cup {"text"}
    BY <1>4 DEF AddMut
  <2> HIDE DEF t
  <2>2. QED
    BY <1>1, <2>1, AddChildNewChanges, AddChildNewStep, DocStepIs
<1>5. ASSUME NEW n \in Node, NEW r \in BOOLEAN, NEW f \in Copies(n, r), NEW d \in Node,
             NEW how \in {"under", "after", "before"}, AddCopyOf(d, n, how, f)
      PROVE  DocNext
  <2>1. AddCopy(d, n, how, f)
    BY <1>5 DEF AddCopyOf
  <2>2. QED
    BY <1>1, <2>1, AddCopyChanges, AddCopyStep, DocStepIs
<1>6. ASSUME Rearrange
      PROVE  DocNext
  <2>1. ASSUME NEW n \in Node, NEW d \in Node, NEW t \in Type, AddNextNew(d, t, n)
        PROVE  DocNext
    BY <1>1, <2>1, AddNextNewChanges, AddNextNewStep, DocStepIs
  <2>2. ASSUME NEW n \in Node, NEW d \in Node, AddDetached(d, n)
        PROVE  DocNext
    BY <1>1, <2>2, AddDetachedChanges, AddDetachedStep, DocStepIs
  <2>3. ASSUME NEW n \in Node, NEW d \in Node, NEW after \in {0, 1}, MoveTo(n, d, after)
        PROVE  DocNext
    BY <1>1, <2>3, MoveToChanges, MoveToStep, DocStepIs
  <2>4. ASSUME ChangeOne
        PROVE  DocNext
    BY <1>1, <2>4, ChangeOneIsDoc
  <2>5. QED
    BY <1>6, <2>1, <2>2, <2>3, <2>4 DEF Rearrange
<1>7. ASSUME UNCHANGED vars
      PROVE  DocNext
  BY <1>1, <1>7, DocStays DEF vars
<1>8. ASSUME SetAttrs
      PROVE  DocNext
  <2>1. \E n \in Node : Setting(n)
    BY <1>8, AttrAssumption DEF SetAttrs, SetAttr, RmAttr, Deactivate, Activate
  <2>2. QED
    BY <1>7, <2>1 DEF Setting
<1>9. DocNext
  BY <1>4, <1>5, <1>6, <1>7, <1>8 DEF AttrNext, attrVars
<1>10. QED
  BY <1>2, <1>3, <1>9 DEF TopIInv, DocNext

\* With the attributes, and what agents append to the log, it still is.
THEOREM AttrIsDoc == AttrSpec => DocSpec
<1>1. DocSpec <=> [][Doc!Next]_DocMap
  BY DEF DocSpec, Doc!Spec, DocMap
<1>2. AttrInit => TopIInv
  BY InitDoc DEF AttrInit
<1>3. QED
  BY <1>1, <1>2, AttrNextDoc, PTL DEF AttrSpec

=============================================================================
