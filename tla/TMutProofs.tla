----------------------------- MODULE TMutProofs -----------------------------
(***************************************************************************)
(* What holds of a mutation and its text for any names of types and        *)
(* attributes and any values: the types, that the text of a mutation never *)
(* makes the parser throw, that it is read back exactly if no value holds  *)
(* an escape symbol, and which attributes are lost otherwise.              *)
(*                                                                         *)
(* The text of a mutation is laid out in parts, one for each attribute     *)
(* (Laid), and the parser cuts a text at every separator that has no       *)
(* escape before it (Cut).  All cuts of such a text lie between its parts; *)
(* the invariant OwnInv says that the parser takes one cut after the other *)
(* and what it has at each of them.                                        *)
(***************************************************************************)
EXTENDS TMut, FiniteSetTheorems, ListLemmas

-----------------------------------------------------------------------------
\* Lists that grow by one.

\* A list that is another one with something behind it.
LEMMA IsAppend ==
  ASSUME NEW S, NEW s \in Seq(S), NEW e \in S, NEW t \in Seq(S), Len(t) = Len(s) + 1,
         \A i \in 1 .. Len(s) : t[i] = s[i], t[Len(s) + 1] = e
  PROVE  t = Append(s, e)
<1>1. PICK n : n = Len(s)
  OBVIOUS
<1>2. n \in Nat /\ \A i \in 1 .. n + 1 : i = n + 1 \/ i \in 1 .. n
  BY <1>1
<1>3. PICK u : u = Append(s, e)
  OBVIOUS
<1>4. /\ u \in Seq(S) /\ Len(u) = n + 1 /\ u[n + 1] = e
      /\ \A i \in 1 .. n : u[i] = s[i]
  BY <1>1, <1>3, AppendProperties
<1>5. \A i \in 1 .. n + 1 : t[i] = u[i]
  BY <1>1, <1>2, <1>4
<1>6. t = u
  BY <1>1, <1>4, <1>5, SeqEqual
<1>7. QED
  BY <1>3, <1>6

\* Induction over lists: what holds of the empty one and of every list with one
\* element more.
LEMMA SeqInduced ==
  ASSUME NEW S, NEW J \in SUBSET Seq(S), << >> \in J,
         \A s \in J, e \in S : Append(s, e) \in J
  PROVE  \A s \in Seq(S) : s \in J
<1> SUFFICES ASSUME NEW s \in Seq(S) PROVE s \in J
  OBVIOUS
<1>1. \A k \in 1 .. Len(s) : SubSeq(s, 1, k - 1) \in J => SubSeq(s, 1, k) \in J
  <2> SUFFICES ASSUME NEW k \in 1 .. Len(s), SubSeq(s, 1, k - 1) \in J
               PROVE  SubSeq(s, 1, k) \in J
    OBVIOUS
  <2>1. PICK u, e : u = SubSeq(s, 1, k - 1) /\ e = s[k]
    OBVIOUS
  <2>2. u \in J /\ e \in S /\ SubSeq(s, 1, k) = Append(u, e)
    BY <2>1, PrefixGrows
  <2>3. QED
    BY <2>2
<1>2. QED
  BY <1>1, PrefixInduced

-----------------------------------------------------------------------------
\* Symbols and escaping.

\* The control symbols are three symbols, and no name is one of them.
LEMMA Controls ==
  /\ KSep \in Symbol /\ KAttrSep \in Symbol /\ KEsc \in Symbol
  /\ KSep # KAttrSep /\ KSep # KEsc /\ KAttrSep # KEsc
  /\ \A x \in Names : x \in Symbol /\ x # KSep /\ x # KAttrSep /\ x # KEsc
<1>1. KSep # KAttrSep /\ KSep # KEsc /\ KAttrSep # KEsc
  BY DEF KSep, KAttrSep, KEsc
<1>2. KSep \in Symbol /\ KAttrSep \in Symbol /\ KEsc \in Symbol /\ Names \subseteq Symbol
  BY DEF Symbol
<1>3. QED
  BY <1>1, <1>2, TMutAssumption

\* What EscapeCtrls joins.
EscapeOf(x) == IF x \in {KSep, KAttrSep, KEsc} THEN <<KEsc, x>> ELSE <<x>>
Escapes(value) == [i \in DOMAIN value |-> EscapeOf(value[i])]

\* What DeEscCtrls joins.
Dropped(value, i) == value[i] = KEsc /\ i < Len(value) /\ IsCtrlSymb(value[i + 1])
DeEscOf(value, i) == IF Dropped(value, i) THEN << >> ELSE <<value[i]>>
DeEscs(value) == [i \in DOMAIN value |-> DeEscOf(value, i)]

LEMMA EscapesIs ==
  ASSUME NEW value \in Seq(Symbol)
  PROVE  /\ Escapes(value) \in Seq(Seq(Symbol)) /\ Len(Escapes(value)) = Len(value)
         /\ \A i \in 1 .. Len(value) : Escapes(value)[i] = EscapeOf(value[i])
         /\ EscapeCtrls(value) = FlattenSeq(Escapes(value))
         /\ EscapeCtrls(value) \in Seq(Symbol)
<1>1. DOMAIN value = 1 .. Len(value) /\ Len(value) \in Nat
      /\ \A i \in 1 .. Len(value) : value[i] \in Symbol
  OBVIOUS
<1>2. \A x \in Symbol : EscapeOf(x) \in Seq(Symbol)
  BY Controls DEF EscapeOf
<1>3. Escapes(value) \in Seq(Seq(Symbol)) /\ Len(Escapes(value)) = Len(value)
      /\ \A i \in 1 .. Len(value) : Escapes(value)[i] = EscapeOf(value[i])
  BY <1>1, <1>2 DEF Escapes
<1>4. EscapeCtrls(value) = FlattenSeq(Escapes(value))
  BY DEF EscapeCtrls, Escapes, EscapeOf
<1>5. << >> \in Seq(Symbol)
  OBVIOUS
<1>6. FlattenSeq(Escapes(value)) \in Seq(Symbol)
  BY <1>3, <1>5, FlattenAppend
<1>7. QED
  BY <1>3, <1>4, <1>6

\* One symbol more is escaped behind the others.
LEMMA EscapeAppend ==
  ASSUME NEW value \in Seq(Symbol), NEW x \in Symbol
  PROVE  EscapeCtrls(Append(value, x)) = EscapeCtrls(value) \o EscapeOf(x)
<1>1. PICK more : more = Append(value, x)
  OBVIOUS
<1>2. PICK n : n = Len(value)
  OBVIOUS
<1>3. /\ more \in Seq(Symbol) /\ Len(more) = n + 1 /\ more[n + 1] = x /\ n \in Nat
      /\ \A i \in 1 .. n : more[i] = value[i]
  BY <1>1, <1>2, AppendProperties
<1>4. PICK ss \in Seq(Seq(Symbol)) : ss = Escapes(value)
  BY EscapesIs
<1>5. PICK tt \in Seq(Seq(Symbol)) : tt = Escapes(more)
  BY <1>3, EscapesIs
<1>6. Len(ss) = n /\ Len(tt) = n + 1
      /\ (\A i \in 1 .. n : ss[i] = EscapeOf(value[i]))
      /\ (\A i \in 1 .. n + 1 : tt[i] = EscapeOf(more[i]))
  BY <1>2, <1>3, <1>4, <1>5, EscapesIs
<1>7. PICK u : u = EscapeOf(x)
  OBVIOUS
<1>8. n + 1 \in 1 .. n + 1 /\ \A i \in 1 .. n : i \in 1 .. n + 1
  BY <1>3
<1>9. tt[n + 1] = u /\ \A i \in 1 .. n : tt[i] = ss[i]
  BY <1>3, <1>6, <1>7, <1>8
<1>10. u \in Seq(Symbol)
  BY Controls, <1>7 DEF EscapeOf
<1>11. tt = Append(ss, u)
  BY <1>6, <1>9, <1>10, IsAppend
<1>12. FlattenSeq(Append(ss, u)) = FlattenSeq(ss) \o u
  BY <1>10, FlattenAppend
<1>13. QED
  BY <1>1, <1>3, <1>4, <1>5, <1>7, <1>11, <1>12, EscapesIs

\* The two ways a symbol is escaped.
LEMMA EscapeOfIs ==
  ASSUME NEW x \in Symbol
  PROVE  /\ EscapeOf(x) \in Seq(Symbol)
         /\ x \in {KSep, KAttrSep, KEsc} => EscapeOf(x) = <<KEsc, x>>
         /\ x \notin {KSep, KAttrSep, KEsc} => EscapeOf(x) = <<x>>
  BY Controls DEF EscapeOf

\* An empty value stays empty.
LEMMA EscapeNone == EscapeCtrls(<< >>) = << >>
<1>1. PICK v : v = << >>
  OBVIOUS
<1>2. v \in Seq(Symbol)
  BY <1>1
<1>3. Escapes(v) \in Seq(Seq(Symbol)) /\ Len(Escapes(v)) = 0
  BY <1>2, <1>1, EscapesIs
<1>4. Escapes(v) = << >>
  BY <1>3
<1>5. PICK ss : ss = << >>
  OBVIOUS
<1>6. ss \in Seq(Seq(Symbol))
  BY <1>5
<1>7. PICK f \in [Nat -> Seq(Symbol)] : f[0] = << >> /\ FlattenSeq(ss) = f[Len(ss)]
  BY <1>6, Flattening
<1>8. FlattenSeq(ss) = << >>
  BY <1>5, <1>7
<1>9. QED
  BY <1>2, <1>1, <1>4, <1>5, <1>8, EscapesIs

\* In an escaped value every separator has an escape before it.
Guarded(text) ==
  \A q \in 1 .. Len(text) : text[q] \in {KSep, KAttrSep} => q > 1 /\ text[q - 1] = KEsc

\* A text with one symbol more that is no separator, and one with a separator
\* and the escape before it.
LEMMA GuardedGrows ==
  ASSUME NEW s \in Seq(Symbol), NEW x \in Symbol, Guarded(s)
  PROVE  Guarded(s \o EscapeOf(x))
<1>1. PICK n : n = Len(s)
  OBVIOUS
<1>2. CASE x \in {KSep, KAttrSep, KEsc}
  <2>1. PICK u : u = s \o <<KEsc, x>>
    OBVIOUS
  <2>2. KEsc \in Symbol
    BY Controls
  <2>3. Len(u) = n + 2 /\ u[n + 1] = KEsc /\ u[n + 2] = x /\ \A i \in 1 .. n : u[i] = s[i]
    BY <1>1, <2>1, <2>2
  <2>4. n \in Nat
    BY <1>1
  <2>5. ASSUME NEW q \in 1 .. n + 2, u[q] \in {KSep, KAttrSep}
        PROVE  q > 1 /\ u[q - 1] = KEsc
    <3>1. q # n + 1
      BY <2>3, <2>5, Controls
    <3>2. CASE q = n + 2
      BY <2>3, <2>4, <3>2
    <3>3. CASE q \in 1 .. n
      <4>1. q > 1 /\ s[q - 1] = KEsc
        BY <1>1, <2>3, <2>5, <3>3 DEF Guarded
      <4>2. q - 1 \in 1 .. n
        BY <2>4, <3>3, <4>1
      <4>3. QED
        BY <2>3, <4>1, <4>2
    <3>4. QED
      BY <2>4, <3>1, <3>2, <3>3
  <2>6. QED
    BY <1>2, <2>1, <2>3, <2>5, EscapeOfIs DEF Guarded
<1>3. CASE x \notin {KSep, KAttrSep, KEsc}
  <2>1. PICK u : u = s \o <<x>>
    OBVIOUS
  <2>2. n \in Nat /\ Len(u) = n + 1 /\ u[n + 1] = x /\ \A i \in 1 .. n : u[i] = s[i]
    BY <1>1, <2>1
  <2>3. ASSUME NEW q \in 1 .. n + 1, u[q] \in {KSep, KAttrSep}
        PROVE  q > 1 /\ u[q - 1] = KEsc
    <3>1. q \in 1 .. n
      BY <1>3, <2>2, <2>3
    <3>2. q > 1 /\ s[q - 1] = KEsc
      BY <1>1, <2>2, <2>3, <3>1 DEF Guarded
    <3>3. q - 1 \in 1 .. n
      BY <2>2, <3>1, <3>2
    <3>4. QED
      BY <2>2, <3>2, <3>3
  <2>4. QED
    BY <1>3, <2>1, <2>2, <2>3, EscapeOfIs DEF Guarded
<1>4. QED
  BY <1>2, <1>3

LEMMA EscapeGuards ==
  ASSUME NEW value \in Seq(Symbol)
  PROVE  Guarded(EscapeCtrls(value))
<1> DEFINE J == {v \in Seq(Symbol) : Guarded(EscapeCtrls(v))}
<1>1. << >> \in J
  BY EscapeNone DEF Guarded
<1>2. ASSUME NEW v \in J, NEW x \in Symbol
      PROVE  Append(v, x) \in J
  <2>1. v \in Seq(Symbol) /\ EscapeCtrls(v) \in Seq(Symbol) /\ Guarded(EscapeCtrls(v))
    BY EscapesIs
  <2>2. Guarded(EscapeCtrls(v) \o EscapeOf(x))
    BY <2>1, GuardedGrows
  <2>3. Guarded(EscapeCtrls(Append(v, x)))
    BY <2>1, <2>2, EscapeAppend
  <2>4. QED
    BY <2>1, <2>3
<1>3. J \in SUBSET Seq(Symbol)
  OBVIOUS
<1> HIDE DEF J
<1>4. value \in J
  BY <1>1, <1>2, <1>3, SeqInduced
<1>5. QED
  BY <1>4 DEF J

\* An escaped value ends as the value does.
LEMMA EscapeEnds ==
  ASSUME NEW value \in Seq(Symbol), value # << >>
  PROVE  LET text == EscapeCtrls(value)
         IN  Len(text) > 0 /\ text[Len(text)] = value[Len(value)]
<1>1. PICK n : n = Len(value)
  OBVIOUS
<1>2. n \in Nat /\ n > 0 /\ n \in 1 .. Len(value)
  BY <1>1
<1>3. PICK s, x : s = SubSeq(value, 1, n - 1) /\ x = value[n]
  OBVIOUS
<1>4. s \in Seq(Symbol) /\ x \in Symbol /\ SubSeq(value, 1, n) = Append(s, x)
  BY <1>2, <1>3, PrefixGrows
<1>5. value = Append(s, x)
  BY <1>1, <1>4
<1>6. PICK a \in Seq(Symbol) : a = EscapeCtrls(s)
  BY <1>4, EscapesIs
<1>7. PICK text : text = EscapeCtrls(value)
  OBVIOUS
<1>8. text = a \o EscapeOf(x)
  BY <1>4, <1>5, <1>6, <1>7, EscapeAppend
<1>9. Len(text) > 0 /\ text[Len(text)] = x
  <2>1. CASE EscapeOf(x) = <<KEsc, x>>
    BY <1>4, <1>8, <2>1, Controls
  <2>2. CASE EscapeOf(x) = <<x>>
    BY <1>4, <1>8, <2>2
  <2>3. QED
    BY <1>4, <2>1, <2>2, EscapeOfIs
<1>10. QED
  BY <1>1, <1>3, <1>7, <1>9

LEMMA DeEscsIs ==
  ASSUME NEW value \in Seq(Symbol)
  PROVE  /\ DeEscs(value) \in Seq(Seq(Symbol)) /\ Len(DeEscs(value)) = Len(value)
         /\ \A i \in 1 .. Len(value) : DeEscs(value)[i] = DeEscOf(value, i)
         /\ DeEscCtrls(value) = FlattenSeq(DeEscs(value))
         /\ DeEscCtrls(value) \in Seq(Symbol)
<1>1. DOMAIN value = 1 .. Len(value) /\ Len(value) \in Nat
      /\ \A i \in 1 .. Len(value) : value[i] \in Symbol
  OBVIOUS
<1>2. \A i \in 1 .. Len(value) : DeEscOf(value, i) \in Seq(Symbol)
  BY <1>1 DEF DeEscOf
<1>3. DeEscs(value) \in Seq(Seq(Symbol)) /\ Len(DeEscs(value)) = Len(value)
      /\ \A i \in 1 .. Len(value) : DeEscs(value)[i] = DeEscOf(value, i)
  BY <1>1, <1>2 DEF DeEscs
<1>4. DeEscCtrls(value) = FlattenSeq(DeEscs(value))
  BY DEF DeEscCtrls, DeEscs, DeEscOf, Dropped
<1>5. << >> \in Seq(Symbol)
  OBVIOUS
<1>6. FlattenSeq(DeEscs(value)) \in Seq(Symbol)
  BY <1>3, <1>5, FlattenAppend
<1>7. QED
  BY <1>3, <1>4, <1>6

\* What is dropped of a value does not change when a symbol comes behind it that
\* makes no escaped separator of its end; of the symbol itself nothing is dropped.
LEMMA DeEscsAppend ==
  ASSUME NEW s \in Seq(Symbol), NEW x \in Symbol,
         s # << >> /\ s[Len(s)] = KEsc => ~IsCtrlSymb(x)
  PROVE  DeEscs(Append(s, x)) = Append(DeEscs(s), <<x>>)
<1>1. PICK more, n : more = Append(s, x) /\ n = Len(s)
  OBVIOUS
<1>2. /\ more \in Seq(Symbol) /\ Len(more) = n + 1 /\ more[n + 1] = x /\ n \in Nat
      /\ \A i \in 1 .. n : more[i] = s[i]
  BY <1>1, AppendProperties
<1>3. PICK ss, tt : ss = DeEscs(s) /\ tt = DeEscs(more)
  OBVIOUS
<1>4. ss \in Seq(Seq(Symbol)) /\ tt \in Seq(Seq(Symbol)) /\ Len(ss) = n /\ Len(tt) = n + 1
      /\ (\A i \in 1 .. n : ss[i] = DeEscOf(s, i))
      /\ (\A i \in 1 .. n + 1 : tt[i] = DeEscOf(more, i))
  BY <1>1, <1>2, <1>3, DeEscsIs
<1>5. tt[n + 1] = <<x>>
  <2>1. n + 1 \in 1 .. n + 1 /\ ~(n + 1 < Len(more))
    BY <1>2
  <2>2. DeEscOf(more, n + 1) = <<more[n + 1]>>
    BY <2>1 DEF DeEscOf, Dropped
  <2>3. QED
    BY <1>2, <1>4, <2>1, <2>2
<1>6. ASSUME NEW i \in 1 .. n
      PROVE  tt[i] = ss[i]
  <2>1. more[i] = s[i] /\ i \in 1 .. n + 1 /\ i < Len(more)
    BY <1>2
  <2>2. Dropped(more, i) <=> Dropped(s, i)
    <3>1. CASE i = n
      <4>1. s # << >> /\ n = Len(s) /\ ~(i < Len(s))
        BY <1>1, <1>2, <3>1
      <4>2. s[i] = KEsc => ~IsCtrlSymb(more[i + 1])
        BY <1>2, <3>1, <4>1
      <4>3. QED
        BY <2>1, <4>1, <4>2 DEF Dropped
    <3>2. CASE i # n
      <4>1. i + 1 \in 1 .. n /\ i < n
        BY <1>2, <3>2
      <4>2. more[i + 1] = s[i + 1] /\ i < Len(s)
        BY <1>1, <1>2, <4>1
      <4>3. QED
        BY <2>1, <4>2 DEF Dropped
    <3>3. QED
      BY <3>1, <3>2
  <2>3. DeEscOf(more, i) = DeEscOf(s, i)
    BY <2>1, <2>2 DEF DeEscOf
  <2>4. QED
    BY <1>4, <2>1, <2>3
<1>7. <<x>> \in Seq(Symbol)
  OBVIOUS
<1>8. tt = Append(ss, <<x>>)
  BY <1>4, <1>5, <1>6, <1>7, IsAppend
<1>9. QED
  BY <1>1, <1>3, <1>8

LEMMA DeEscAppend ==
  ASSUME NEW s \in Seq(Symbol), NEW x \in Symbol,
         s # << >> /\ s[Len(s)] = KEsc => ~IsCtrlSymb(x)
  PROVE  DeEscCtrls(Append(s, x)) = Append(DeEscCtrls(s), x)
<1>1. PICK ss, more : ss = DeEscs(s) /\ more = Append(s, x)
  OBVIOUS
<1>2. ss \in Seq(Seq(Symbol)) /\ more \in Seq(Symbol) /\ <<x>> \in Seq(Symbol)
  BY <1>1, DeEscsIs
<1>3. FlattenSeq(Append(ss, <<x>>)) = FlattenSeq(ss) \o <<x>> /\ FlattenSeq(ss) \in Seq(Symbol)
  BY <1>2, FlattenAppend
<1>4. DeEscs(more) = Append(ss, <<x>>)
  BY <1>1, DeEscsAppend
<1>5. DeEscCtrls(more) = FlattenSeq(Append(ss, <<x>>)) /\ DeEscCtrls(s) = FlattenSeq(ss)
  BY <1>1, <1>2, <1>4, DeEscsIs
<1>6. PICK a : a = FlattenSeq(ss)
  OBVIOUS
<1>7. a \o <<x>> = Append(a, x)
  BY <1>3, <1>6
<1>8. QED
  BY <1>1, <1>3, <1>5, <1>6, <1>7

\* A separator loses the escape before it.
LEMMA DeEscPair ==
  ASSUME NEW s \in Seq(Symbol), NEW x \in Symbol, IsCtrlSymb(x)
  PROVE  DeEscCtrls(Append(Append(s, KEsc), x)) = Append(DeEscCtrls(s), x)
<1>1. KEsc \in Symbol /\ ~IsCtrlSymb(KEsc)
  BY Controls DEF IsCtrlSymb
<1>2. PICK m, more, n : m = Append(s, KEsc) /\ more = Append(m, x) /\ n = Len(s)
  OBVIOUS
<1>3. /\ m \in Seq(Symbol) /\ Len(m) = n + 1 /\ m[n + 1] = KEsc /\ n \in Nat
      /\ \A i \in 1 .. n : m[i] = s[i]
  BY <1>1, <1>2, AppendProperties
<1>4. /\ more \in Seq(Symbol) /\ Len(more) = n + 2 /\ more[n + 2] = x
      /\ \A i \in 1 .. n + 1 : more[i] = m[i]
  <2>1. more \in Seq(Symbol) /\ Len(more) = Len(m) + 1 /\ more[Len(m) + 1] = x
        /\ \A i \in 1 .. Len(m) : more[i] = m[i]
    BY <1>2, <1>3, AppendProperties
  <2>2. QED
    BY <1>3, <2>1
<1>5. PICK ss, mm, tt : ss = DeEscs(s) /\ mm = DeEscs(m) /\ tt = DeEscs(more)
  OBVIOUS
<1>6. /\ ss \in Seq(Seq(Symbol)) /\ Len(ss) = n
      /\ mm \in Seq(Seq(Symbol)) /\ Len(mm) = n + 1
      /\ (\A i \in 1 .. n + 1 : mm[i] = DeEscOf(m, i))
      /\ tt \in Seq(Seq(Symbol)) /\ Len(tt) = n + 2
      /\ (\A i \in 1 .. n + 2 : tt[i] = DeEscOf(more, i))
  BY <1>2, <1>3, <1>4, <1>5, DeEscsIs
<1>7. mm = Append(ss, <<KEsc>>)
  BY <1>1, <1>2, <1>5, DeEscsAppend
<1>8. PICK nn : nn = Append(ss, << >>)
  OBVIOUS
<1>9. << >> \in Seq(Symbol) /\ <<x>> \in Seq(Symbol) /\ <<KEsc>> \in Seq(Symbol)
  BY <1>1
<1>10. nn \in Seq(Seq(Symbol)) /\ Len(nn) = n + 1 /\ nn[n + 1] = << >>
      /\ (\A i \in 1 .. n : nn[i] = ss[i] /\ mm[i] = ss[i])
  BY <1>6, <1>7, <1>8, <1>9, AppendProperties
<1>11. tt[n + 2] = <<x>>
  <2>1. n + 2 \in 1 .. n + 2 /\ ~(n + 2 < Len(more))
    BY <1>3, <1>4
  <2>2. DeEscOf(more, n + 2) = <<more[n + 2]>>
    BY <2>1 DEF DeEscOf, Dropped
  <2>3. QED
    BY <1>4, <1>6, <2>1, <2>2
<1>12. tt[n + 1] = << >>
  <2>1. n + 1 \in 1 .. n + 1 /\ n + 1 \in 1 .. n + 2 /\ n + 1 < Len(more) /\ (n + 1) + 1 = n + 2
    BY <1>3, <1>4
  <2>2. more[n + 1] = KEsc /\ IsCtrlSymb(more[(n + 1) + 1])
    BY <1>3, <1>4, <2>1
  <2>3. DeEscOf(more, n + 1) = << >>
    BY <2>1, <2>2 DEF DeEscOf, Dropped
  <2>4. QED
    BY <1>6, <2>1, <2>3
<1>13. ASSUME NEW i \in 1 .. n
       PROVE  tt[i] = nn[i]
  <2>1. i \in 1 .. n + 1 /\ i + 1 \in 1 .. n + 1 /\ i \in 1 .. n + 2
        /\ i < Len(more) /\ i < Len(m)
    BY <1>3, <1>4
  <2>2. more[i] = m[i] /\ more[i + 1] = m[i + 1]
    BY <1>4, <2>1
  <2>3. DeEscOf(more, i) = DeEscOf(m, i)
    BY <2>1, <2>2 DEF DeEscOf, Dropped
  <2>4. tt[i] = mm[i]
    BY <1>6, <2>1, <2>3
  <2>5. QED
    BY <1>10, <2>4
<1>14. tt = Append(nn, <<x>>)
  <2>1. Len(tt) = Len(nn) + 1 /\ tt[Len(nn) + 1] = <<x>>
    BY <1>3, <1>6, <1>10, <1>11
  <2>2. \A i \in 1 .. Len(nn) : tt[i] = nn[i]
    <3>1. \A i \in 1 .. n + 1 : i = n + 1 \/ i \in 1 .. n
      BY <1>3
    <3>2. QED
      BY <1>10, <1>12, <1>13, <3>1
  <2>3. QED
    BY <1>6, <1>9, <1>10, <2>1, <2>2, IsAppend
<1>15. FlattenSeq(tt) = FlattenSeq(nn) \o <<x>>
  BY <1>9, <1>10, <1>14, FlattenAppend
<1>16. FlattenSeq(nn) = FlattenSeq(ss) \o << >> /\ FlattenSeq(ss) \in Seq(Symbol)
  BY <1>6, <1>8, <1>9, FlattenAppend
<1>17. PICK a : a = FlattenSeq(ss)
  OBVIOUS
<1>18. a \in Seq(Symbol) /\ a \o << >> = a /\ a \o <<x>> = Append(a, x)
  BY <1>16, <1>17
<1>19. DeEscCtrls(more) = FlattenSeq(tt) /\ DeEscCtrls(s) = FlattenSeq(ss)
  BY <1>4, <1>5, DeEscsIs
<1>20. QED
  BY <1>2, <1>15, <1>16, <1>17, <1>18, <1>19

LEMMA DeEscNone == DeEscCtrls(<< >>) = << >>
<1>1. PICK v, ss : v = << >> /\ ss = << >>
  OBVIOUS
<1>2. v \in Seq(Symbol) /\ ss \in Seq(Seq(Symbol))
  BY <1>1
<1>3. DeEscs(v) \in Seq(Seq(Symbol)) /\ Len(DeEscs(v)) = 0
  BY <1>1, <1>2, DeEscsIs
<1>4. DeEscs(v) = << >>
  BY <1>3
<1>5. PICK f \in [Nat -> Seq(Symbol)] : f[0] = << >> /\ FlattenSeq(ss) = f[Len(ss)]
  BY <1>2, Flattening
<1>6. FlattenSeq(ss) = << >>
  BY <1>1, <1>5
<1>7. QED
  BY <1>1, <1>2, <1>4, <1>6, DeEscsIs

\* What becomes of a value that is escaped and read: nothing is lost, and it has
\* grown if there is an escape symbol in it.
NoEsc(value) == \A i \in 1 .. Len(value) : value[i] # KEsc
Back(value, read) ==
  /\ read \in Seq(Symbol) /\ Len(value) <= Len(read)
  /\ NoEsc(value) => read = value
  /\ ~NoEsc(value) => Len(value) < Len(read)

\* A symbol more is read back as itself, or twice if it is the escape symbol.
LEMMA DeEscOfOne ==
  ASSUME NEW value \in Seq(Symbol), NEW x \in Symbol
  PROVE  LET read == DeEscCtrls(EscapeCtrls(value))
             more == DeEscCtrls(EscapeCtrls(Append(value, x)))
         IN  more = IF x = KEsc THEN Append(Append(read, x), x) ELSE Append(read, x)
<1>1. PICK s, t : s = EscapeCtrls(value) /\ t = EscapeCtrls(Append(value, x))
  OBVIOUS
<1>2. s \in Seq(Symbol) /\ t = s \o EscapeOf(x) /\ KEsc \in Symbol
  BY <1>1, EscapesIs, EscapeAppend, Controls
<1>3. CASE x \in {KSep, KAttrSep}
  <2>1. t = Append(Append(s, KEsc), x)
    <3>1. EscapeOf(x) = <<KEsc, x>>
      BY <1>3, EscapeOfIs
    <3>2. s \o <<KEsc, x>> = Append(Append(s, KEsc), x)
      BY <1>2
    <3>3. QED
      BY <1>2, <3>1, <3>2
  <2>2. DeEscCtrls(t) = Append(DeEscCtrls(s), x)
    BY <1>2, <1>3, <2>1, DeEscPair DEF IsCtrlSymb
  <2>3. QED
    BY <1>1, <1>3, <2>2, Controls
<1>4. CASE x = KEsc
  <2>1. PICK u : u = Append(s, x)
    OBVIOUS
  <2>2. t = Append(u, x)
    <3>1. EscapeOf(x) = <<x, x>>
      BY <1>4, EscapeOfIs
    <3>2. s \o <<x, x>> = Append(Append(s, x), x)
      BY <1>2
    <3>3. QED
      BY <1>2, <2>1, <3>1, <3>2
  <2>3. ~IsCtrlSymb(x) /\ u \in Seq(Symbol)
    BY <1>2, <1>4, <2>1, Controls DEF IsCtrlSymb
  <2>4. DeEscCtrls(u) = Append(DeEscCtrls(s), x)
    BY <1>2, <2>1, <2>3, DeEscAppend
  <2>5. DeEscCtrls(t) = Append(DeEscCtrls(u), x)
    BY <2>2, <2>3, DeEscAppend
  <2>6. QED
    BY <1>1, <1>4, <2>4, <2>5
<1>5. CASE x \notin {KSep, KAttrSep, KEsc}
  <2>1. t = Append(s, x)
    <3>1. EscapeOf(x) = <<x>> /\ s \o <<x>> = Append(s, x)
      BY <1>2, <1>5, EscapeOfIs
    <3>2. QED
      BY <1>2, <3>1
  <2>2. ~IsCtrlSymb(x)
    BY <1>5 DEF IsCtrlSymb
  <2>3. DeEscCtrls(t) = Append(DeEscCtrls(s), x)
    BY <1>2, <2>1, <2>2, DeEscAppend
  <2>4. QED
    BY <1>1, <1>5, <2>3
<1>6. QED
  BY <1>3, <1>4, <1>5

LEMMA BackGrows ==
  ASSUME NEW v \in Seq(Symbol), NEW d, NEW x \in Symbol, Back(v, d)
  PROVE  Back(Append(v, x), IF x = KEsc THEN Append(Append(d, x), x) ELSE Append(d, x))
<1>1. PICK w, n : w = Append(v, x) /\ n = Len(v)
  OBVIOUS
<1>2. w \in Seq(Symbol) /\ Len(w) = n + 1 /\ w[n + 1] = x /\ n \in Nat
      /\ \A i \in 1 .. n : w[i] = v[i]
  BY <1>1, AppendProperties
<1>3. d \in Seq(Symbol) /\ n <= Len(d) /\ (NoEsc(v) => d = v) /\ (~NoEsc(v) => n < Len(d))
  BY <1>1 DEF Back
<1>4. PICK e : e = Append(d, x)
  OBVIOUS
<1>5. e \in Seq(Symbol) /\ Len(e) = Len(d) + 1 /\ Len(d) \in Nat
  BY <1>3, <1>4
<1>6. CASE x = KEsc
  <2>1. PICK r : r = Append(e, x)
    OBVIOUS
  <2>2. r \in Seq(Symbol) /\ Len(r) = Len(d) + 2
    BY <1>5, <2>1
  <2>3. n + 1 \in 1 .. Len(w)
    BY <1>2
  <2>4. ~NoEsc(w)
    BY <1>2, <1>6, <2>3 DEF NoEsc
  <2>5. Back(w, r)
    BY <1>2, <1>3, <1>5, <2>2, <2>4 DEF Back
  <2>6. QED
    BY <1>1, <1>4, <1>6, <2>1, <2>5
<1>7. CASE x # KEsc
  <2>1. NoEsc(w) <=> NoEsc(v)
    <3>1. \A i \in 1 .. n + 1 : i = n + 1 \/ i \in 1 .. n
      BY <1>2
    <3>2. \A i \in 1 .. n : i \in 1 .. n + 1
      BY <1>2
    <3>3. QED
      BY <1>1, <1>2, <1>7, <3>1, <3>2 DEF NoEsc
  <2>2. NoEsc(v) => e = w
    BY <1>1, <1>3, <1>4
  <2>3. Back(w, e)
    BY <1>2, <1>3, <1>5, <2>1, <2>2 DEF Back
  <2>4. QED
    BY <1>1, <1>4, <1>7, <2>3
<1>8. QED
  BY <1>6, <1>7

\* A value is read back as it was exactly if there is no escape symbol in it.
LEMMA DeEscOfEscape ==
  ASSUME NEW value \in Seq(Symbol)
  PROVE  DeEscCtrls(EscapeCtrls(value)) = value <=> KEsc \notin Range(value)
<1> DEFINE J == {v \in Seq(Symbol) : Back(v, DeEscCtrls(EscapeCtrls(v)))}
<1>1. << >> \in J
  <2>1. DeEscCtrls(EscapeCtrls(<< >>)) = << >>
    BY EscapeNone, DeEscNone
  <2>2. Back(<< >>, << >>)
    BY DEF Back, NoEsc
  <2>3. QED
    BY <2>1, <2>2
<1>2. ASSUME NEW v \in J, NEW x \in Symbol
      PROVE  Append(v, x) \in J
  <2>1. PICK d, w : d = DeEscCtrls(EscapeCtrls(v)) /\ w = Append(v, x)
    OBVIOUS
  <2>2. v \in Seq(Symbol) /\ Back(v, d) /\ w \in Seq(Symbol)
    BY <2>1
  <2>3. DeEscCtrls(EscapeCtrls(w)) = IF x = KEsc THEN Append(Append(d, x), x) ELSE Append(d, x)
    BY <2>1, <2>2, DeEscOfOne
  <2>4. Back(w, DeEscCtrls(EscapeCtrls(w)))
    BY <2>1, <2>2, <2>3, BackGrows
  <2>5. QED
    BY <2>1, <2>2, <2>4
<1>3. J \in SUBSET Seq(Symbol)
  OBVIOUS
<1> HIDE DEF J
<1>4. value \in J
  BY <1>1, <1>2, <1>3, SeqInduced
<1>5. PICK read : read = DeEscCtrls(EscapeCtrls(value))
  OBVIOUS
<1>6. Back(value, read)
  BY <1>4, <1>5 DEF J
<1>7. NoEsc(value) <=> KEsc \notin Range(value)
  BY DEF NoEsc, Range
<1>8. Len(value) \in Nat
  OBVIOUS
<1>9. QED
  BY <1>5, <1>6, <1>7, <1>8 DEF Back

-----------------------------------------------------------------------------
\* The order of attributes.

Increasing(order, n) == \A i, j \in 1 .. n : i < j => order[i] < order[j]

\* The least one first, and then the others in their order.
LEMMA OrderGrows ==
  ASSUME NEW S \in SUBSET Nat, NEW x \in S, \A y \in S : x <= y, NEW m \in Nat,
         NEW rest \in [1 .. m -> S \ {x}], Increasing(rest, m)
  PROVE  \E order \in [1 .. m + 1 -> S] : Increasing(order, m + 1)
<1> DEFINE order == [i \in 1 .. m + 1 |-> IF i = 1 THEN x ELSE rest[i - 1]]
<1>1. \A i \in 1 .. m + 1 : i = 1 \/ i - 1 \in 1 .. m
  OBVIOUS
<1>2. order \in [1 .. m + 1 -> S]
  BY <1>1
<1>3. /\ order[1] = x
      /\ \A i \in 1 .. m + 1 : i # 1 => order[i] = rest[i - 1]
  OBVIOUS
<1> HIDE DEF order
<1>4. ASSUME NEW i \in 1 .. m + 1, NEW j \in 1 .. m + 1, i < j
      PROVE  order[i] < order[j]
  <2>1. j - 1 \in 1 .. m /\ j # 1
    BY <1>4
  <2>2. order[j] = rest[j - 1] /\ rest[j - 1] \in S /\ rest[j - 1] # x
    BY <1>3, <2>1
  <2>3. CASE i = 1
    <3>1. PICK y : y = rest[j - 1]
      OBVIOUS
    <3>2. x <= y /\ x # y /\ x \in Nat /\ y \in Nat
      BY <2>2, <3>1
    <3>3. QED
      BY <1>3, <2>2, <2>3, <3>1, <3>2
  <2>4. CASE i # 1
    <3>1. i - 1 \in 1 .. m /\ i - 1 < j - 1
      BY <1>4, <2>4
    <3>2. rest[i - 1] < rest[j - 1]
      BY <2>1, <3>1 DEF Increasing
    <3>3. QED
      BY <1>3, <2>2, <2>4, <3>2
  <2>5. QED
    BY <2>3, <2>4
<1>5. QED
  BY <1>2, <1>4 DEF Increasing

\* There is an order of any keys.
Ordered(S, m) == \E order \in [1 .. m -> S] : Increasing(order, m)

LEMMA OrderExists ==
  ASSUME NEW S \in SUBSET Nat, IsFiniteSet(S)
  PROVE  Ordered(S, Cardinality(S))
<1> DEFINE J == {m \in Nat : \A K \in SUBSET Nat :
                               IsFiniteSet(K) /\ Cardinality(K) = m => Ordered(K, m)}
<1>1. 0 \in J
  <2>1. ASSUME NEW K
        PROVE  Ordered(K, 0)
    <3>1. PICK order : order = [i \in 1 .. 0 |-> i]
      OBVIOUS
    <3>2. order \in [1 .. 0 -> K] /\ Increasing(order, 0)
      BY <3>1 DEF Increasing
    <3>3. QED
      BY <3>2 DEF Ordered
  <2>2. QED
    BY <2>1
<1>2. ASSUME NEW m \in J
      PROVE  m + 1 \in J
  <2>1. m \in Nat
    OBVIOUS
  <2>2. ASSUME NEW K \in SUBSET Nat, IsFiniteSet(K), Cardinality(K) = m + 1
        PROVE  Ordered(K, m + 1)
    <3>1. K # {}
      BY <2>1, <2>2, FS_EmptySet
    <3>2. PICK x \in K : \A y \in K : x <= y
      BY <3>1, LeastNat
    <3>3. IsFiniteSet(K \ {x}) /\ Cardinality(K \ {x}) = m
      <4>1. IsFiniteSet(K \ {x}) /\ Cardinality(K \ {x}) = Cardinality(K) - 1
        BY <2>2, <3>2, FS_RemoveElement
      <4>2. QED
        BY <2>1, <2>2, <4>1
    <3>4. Ordered(K \ {x}, m)
      BY <3>3
    <3>5. PICK rest \in [1 .. m -> K \ {x}] : Increasing(rest, m)
      BY <3>4 DEF Ordered
    <3>6. QED
      BY <2>1, <3>2, <3>5, OrderGrows DEF Ordered
  <2>3. QED
    BY <2>1, <2>2
<1>3. J \in SUBSET Nat
  OBVIOUS
<1>4. Cardinality(S) \in Nat
  BY FS_CardinalityType
<1> HIDE DEF J
<1>5. Cardinality(S) \in J
  BY <1>1, <1>2, <1>3, <1>4, NatInduced
<1>6. QED
  BY <1>5 DEF J

\* InOrder has every key once, the smaller ones first.
LEMMA InOrderIs ==
  ASSUME NEW S \in SUBSET Nat, IsFiniteSet(S)
  PROVE  LET n == Cardinality(S)
             order == InOrder(S)
         IN  /\ n \in Nat /\ order \in [1 .. n -> S] /\ Increasing(order, n)
             /\ \A x \in S : \E i \in 1 .. n : order[i] = x
<1>1. PICK n : n = Cardinality(S)
  OBVIOUS
<1>2. n \in Nat
  BY <1>1, FS_CardinalityType
<1>3. PICK order : order = InOrder(S)
  OBVIOUS
<1>4. order \in [1 .. n -> S] /\ Increasing(order, n)
  <2>1. \E o \in [1 .. n -> S] : \A i, j \in 1 .. n : i < j => o[i] < o[j]
    BY <1>1, OrderExists DEF Ordered, Increasing
  <2>2. order = CHOOSE o \in [1 .. n -> S] : \A i, j \in 1 .. n : i < j => o[i] < o[j]
    BY <1>1, <1>3 DEF InOrder
  <2>3. order \in [1 .. n -> S] /\ \A i, j \in 1 .. n : i < j => order[i] < order[j]
    BY <2>1, <2>2
  <2>4. QED
    BY <2>3 DEF Increasing
<1>5. order \in Injection(1 .. n, S)
  <2>1. ASSUME NEW i \in 1 .. n, NEW j \in 1 .. n, i # j
        PROVE  order[i] # order[j]
    <3>1. i < j \/ j < i
      BY <1>2, <2>1
    <3>2. PICK a, b : a = order[i] /\ b = order[j]
      OBVIOUS
    <3>3. a \in Nat /\ b \in Nat
      BY <1>4, <3>2
    <3>4. a < b \/ b < a
      BY <1>4, <3>1, <3>2 DEF Increasing
    <3>5. QED
      BY <3>2, <3>3, <3>4
  <2>2. QED
    BY <1>4, <2>1 DEF Injection, IsInjective
<1>6. Cardinality(1 .. n) = n
  BY <1>2, FS_Interval
<1>7. order \in Surjection(1 .. n, S)
  BY <1>1, <1>5, <1>6, FS_Injection
<1>8. \A x \in S : \E i \in 1 .. n : order[i] = x
  BY <1>7 DEF Surjection
<1>9. QED
  BY <1>1, <1>2, <1>3, <1>4, <1>8

-----------------------------------------------------------------------------
\* The text of a mutation.

\* Where each of some lists is in what FlattenSeq makes of them.
Places(ss, text, at) ==
  /\ at \in [1 .. Len(ss) + 1 -> Nat]
  /\ at[1] = 0 /\ at[Len(ss) + 1] = Len(text)
  /\ \A k \in 1 .. Len(ss) + 1 : at[k] <= Len(text)
  /\ \A k \in 1 .. Len(ss) :
       /\ at[k + 1] = at[k] + Len(ss[k])
       /\ \A q \in 1 .. Len(ss[k]) : text[at[k] + q] = ss[k][q]

LEMMA PlacesGrow ==
  ASSUME NEW S, NEW ss \in Seq(Seq(S)), NEW text \in Seq(S), NEW s \in Seq(S),
         NEW at, Places(ss, text, at)
  PROVE  \E more : Places(Append(ss, s), text \o s, more)
<1>1. PICK n, tt, u : n = Len(ss) /\ tt = Append(ss, s) /\ u = text \o s
  OBVIOUS
<1>2. /\ tt \in Seq(Seq(S)) /\ Len(tt) = n + 1 /\ tt[n + 1] = s /\ n \in Nat
      /\ \A k \in 1 .. n : tt[k] = ss[k]
  BY <1>1, AppendProperties
<1>3. PICK l, d : l = Len(text) /\ d = Len(s)
  OBVIOUS
<1>4. /\ u \in Seq(S) /\ l \in Nat /\ d \in Nat /\ Len(u) = l + d
      /\ \A p \in 1 .. l : u[p] = text[p]
      /\ \A q \in 1 .. d : u[l + q] = s[q]
  BY <1>1, <1>3, ConcatProperties
<1>5. /\ at \in [1 .. n + 1 -> Nat] /\ at[1] = 0 /\ at[n + 1] = l
      /\ \A k \in 1 .. n + 1 : at[k] <= l
      /\ \A k \in 1 .. n :
           /\ at[k + 1] = at[k] + Len(ss[k])
           /\ \A q \in 1 .. Len(ss[k]) : text[at[k] + q] = ss[k][q]
  BY <1>1, <1>3 DEF Places
<1> DEFINE more == [k \in 1 .. n + 2 |-> IF k = n + 2 THEN l + d ELSE at[k]]
<1>6. more \in [1 .. n + 2 -> Nat]
  <2>1. \A k \in 1 .. n + 2 : k = n + 2 \/ k \in 1 .. n + 1
    BY <1>2
  <2>2. l + d \in Nat
    BY <1>4
  <2>3. QED
    BY <1>5, <2>1, <2>2
<1>7. more[n + 2] = l + d /\ \A k \in 1 .. n + 1 : more[k] = at[k]
  BY <1>2
<1> HIDE DEF more
<1>8. more[1] = 0
  BY <1>2, <1>5, <1>7
<1>9. \A k \in 1 .. n + 2 : more[k] <= l + d
  <2>1. \A k \in 1 .. n + 2 : k = n + 2 \/ k \in 1 .. n + 1
    BY <1>2
  <2>2. ASSUME NEW k \in 1 .. n + 1
        PROVE  more[k] <= l + d
    <3>1. PICK a : a = at[k]
      OBVIOUS
    <3>2. a \in Nat /\ a <= l
      BY <1>5, <3>1
    <3>3. QED
      BY <1>4, <1>7, <3>1, <3>2
  <2>3. QED
    BY <1>4, <1>7, <2>1, <2>2
<1>10. ASSUME NEW k \in 1 .. n + 1
       PROVE  /\ more[k + 1] = more[k] + Len(tt[k])
              /\ \A q \in 1 .. Len(tt[k]) : u[more[k] + q] = tt[k][q]
  <2>1. CASE k = n + 1
    <3>1. more[k] = l /\ more[k + 1] = l + d /\ tt[k] = s
      BY <1>2, <1>5, <1>7, <2>1
    <3>2. QED
      BY <1>3, <1>4, <3>1
  <2>2. CASE k \in 1 .. n
    <3>1. k + 1 \in 1 .. n + 1
      BY <1>2, <2>2
    <3>2. PICK a, b, x : a = at[k] /\ b = at[k + 1] /\ x = ss[k]
      OBVIOUS
    <3>3. a \in Nat /\ b \in Nat /\ b <= l /\ x \in Seq(S) /\ b = a + Len(x)
          /\ \A q \in 1 .. Len(x) : text[a + q] = x[q]
      <4>1. a \in Nat /\ b \in Nat /\ b <= l
        BY <1>5, <3>1, <3>2
      <4>2. x \in Seq(S)
        BY <1>1, <2>2, <3>2
      <4>3. b = a + Len(x) /\ \A q \in 1 .. Len(x) : text[a + q] = x[q]
        BY <1>5, <2>2, <3>2
      <4>4. QED
        BY <4>1, <4>2, <4>3
    <3>4. more[k] = a /\ more[k + 1] = b /\ tt[k] = x
      BY <1>2, <1>7, <2>2, <3>1, <3>2
    <3>5. ASSUME NEW q \in 1 .. Len(x)
          PROVE  u[a + q] = x[q]
      <4>1. a + q \in 1 .. l
        BY <1>4, <3>3
      <4>2. QED
        BY <1>4, <3>3, <4>1
    <3>6. QED
      BY <3>3, <3>4, <3>5
  <2>3. QED
    BY <1>2, <2>1, <2>2
<1>11. Places(tt, u, more)
  BY <1>2, <1>4, <1>6, <1>7, <1>8, <1>9, <1>10 DEF Places
<1>12. QED
  BY <1>1, <1>11

LEMMA PlacesExist ==
  ASSUME NEW S, NEW ss \in Seq(Seq(S))
  PROVE  \E at : Places(ss, FlattenSeq(ss), at)
<1> DEFINE Q == Seq(S)
           J == {tt \in Seq(Q) : \E at : Places(tt, FlattenSeq(tt), at)}
<1>1. << >> \in J
  <2>1. PICK tt : tt = << >>
    OBVIOUS
  <2>2. tt \in Seq(Seq(S)) /\ Len(tt) = 0
    BY <2>1
  <2>3. PICK f \in [Nat -> Seq(S)] : f[0] = << >> /\ FlattenSeq(tt) = f[Len(tt)]
    BY <2>2, Flattening
  <2>4. FlattenSeq(tt) = << >>
    BY <2>2, <2>3
  <2>5. PICK at : at = [k \in 1 .. 1 |-> 0]
    OBVIOUS
  <2>6. Places(tt, << >>, at)
    BY <2>2, <2>5 DEF Places
  <2>7. QED
    BY <2>1, <2>2, <2>4, <2>6
<1>2. ASSUME NEW tt \in J, NEW s \in Q
      PROVE  Append(tt, s) \in J
  <2>1. tt \in Seq(Seq(S)) /\ s \in Seq(S)
    OBVIOUS
  <2>2. PICK at : Places(tt, FlattenSeq(tt), at)
    OBVIOUS
  <2> HIDE DEF J
  <2>3. PICK text : text = FlattenSeq(tt)
    OBVIOUS
  <2>4. text \in Seq(S) /\ FlattenSeq(Append(tt, s)) = text \o s
    BY <2>1, <2>3, FlattenAppend
  <2>5. \E more : Places(Append(tt, s), text \o s, more)
    BY <2>1, <2>2, <2>3, <2>4, PlacesGrow
  <2>6. Append(tt, s) \in Seq(Q)
    BY <2>1
  <2>7. QED
    BY <2>4, <2>5, <2>6 DEF J
<1>3. J \in SUBSET Seq(Q)
  OBVIOUS
<1>4. ss \in Seq(Q)
  OBVIOUS
<1> HIDE DEF J, Q
<1>5. ss \in J
  BY <1>1, <1>2, <1>3, <1>4, SeqInduced
<1>6. QED
  BY <1>5 DEF J

\* The attributes of a TMut.
AttrMap == UNION {[own -> Seq(Symbol)] : own \in SUBSET Attrs}

LEMMA AttrMapIs ==
  ASSUME NEW attrs \in AttrMap
  PROVE  /\ DOMAIN attrs \in SUBSET Attrs /\ attrs \in [DOMAIN attrs -> Seq(Symbol)]
         /\ DOMAIN attrs \in SUBSET Nat /\ IsFiniteSet(DOMAIN attrs)
<1>1. PICK own \in SUBSET Attrs : attrs \in [own -> Seq(Symbol)]
  BY DEF AttrMap
<1>2. DOMAIN attrs = own
  BY <1>1
<1>3. IsFiniteSet(own)
  BY TMutAssumption, FS_Subset
<1>4. own \in SUBSET Nat
  BY TMutAssumption
<1>5. QED
  BY <1>1, <1>2, <1>3, <1>4

\* The parts of a text, one for each attribute.
Part(attrs, a) == <<KSep, KNodeAttrsNames[a], KAttrSep>> \o EscapeCtrls(attrs[a])
Parts(attrs, order) == [i \in DOMAIN order |-> Part(attrs, order[i])]

LEMMA PartIs ==
  ASSUME NEW attrs \in AttrMap, NEW a \in DOMAIN attrs
  PROVE  LET value == EscapeCtrls(attrs[a])
             part == Part(attrs, a)
         IN  /\ value \in Seq(Symbol) /\ part \in Seq(Symbol) /\ Len(part) = 3 + Len(value)
             /\ part[1] = KSep /\ part[2] = KNodeAttrsNames[a] /\ part[3] = KAttrSep
             /\ \A q \in 1 .. Len(value) : part[3 + q] = value[q]
<1>1. PICK value, name : value = EscapeCtrls(attrs[a]) /\ name = KNodeAttrsNames[a]
  OBVIOUS
<1>2. attrs[a] \in Seq(Symbol) /\ a \in Attrs
  BY AttrMapIs
<1>3. value \in Seq(Symbol)
  BY <1>1, <1>2, EscapesIs
<1>4. name \in Names
  BY <1>1, <1>2 DEF Names, Range, Attrs
<1>5. KSep \in Symbol /\ name \in Symbol /\ KAttrSep \in Symbol
  BY <1>4, Controls
<1>6. PICK lead : lead = <<KSep, name, KAttrSep>>
  OBVIOUS
<1>7. lead \in Seq(Symbol) /\ Len(lead) = 3
      /\ lead[1] = KSep /\ lead[2] = name /\ lead[3] = KAttrSep
  BY <1>5, <1>6
<1>8. PICK part : part = lead \o value
  OBVIOUS
<1>9. PICK d : d = Len(value)
  OBVIOUS
<1>10. d \in Nat /\ part \in Seq(Symbol) /\ Len(part) = 3 + d
       /\ (\A p \in 1 .. 3 : part[p] = lead[p])
       /\ (\A q \in 1 .. d : part[3 + q] = value[q])
  <2>1. PICK l : l = Len(lead)
    OBVIOUS
  <2>2. d \in Nat /\ l \in Nat /\ part \in Seq(Symbol) /\ Len(part) = l + d
        /\ (\A p \in 1 .. l : part[p] = lead[p])
        /\ (\A q \in 1 .. d : part[l + q] = value[q])
    <3>1. lead \in Seq(Symbol)
      BY <1>7
    <3>2. QED
      BY <1>3, <1>8, <1>9, <2>1, <3>1, ConcatProperties
  <2>3. l = 3
    BY <1>7, <2>1
  <2>4. QED
    BY <2>2, <2>3
<1>11. part[1] = KSep /\ part[2] = name /\ part[3] = KAttrSep
  BY <1>7, <1>10
<1>12. part = Part(attrs, a)
  BY <1>1, <1>6, <1>8 DEF Part
<1>13. QED
  BY <1>1, <1>3, <1>9, <1>10, <1>11, <1>12

LEMMA PartsAre ==
  ASSUME NEW attrs \in AttrMap, NEW n \in Nat, NEW order \in [1 .. n -> DOMAIN attrs]
  PROVE  /\ Parts(attrs, order) \in Seq(Seq(Symbol)) /\ Len(Parts(attrs, order)) = n
         /\ \A i \in 1 .. n : Parts(attrs, order)[i] = Part(attrs, order[i])
<1>1. DOMAIN order = 1 .. n
  OBVIOUS
<1>2. \A i \in 1 .. n : Part(attrs, order[i]) \in Seq(Symbol)
  BY PartIs
<1>3. QED
  BY <1>1, <1>2 DEF Parts

\* A text with the parts of some attributes behind the type: the order of the
\* attributes, and where the part of each starts and ends.
Laid(text, type, attrs, n, order, start) ==
  /\ text \in Seq(Symbol) /\ Len(text) > 0 /\ text[1] = KNodeTypesNames[type]
  /\ n \in Nat /\ order \in [1 .. n -> DOMAIN attrs] /\ Increasing(order, n)
  /\ \A a \in DOMAIN attrs : \E i \in 1 .. n : order[i] = a
  /\ start \in [1 .. n + 1 -> Nat] /\ start[1] = 1 /\ start[n + 1] = Len(text)
  /\ \A k \in 1 .. n :
       LET value == EscapeCtrls(attrs[order[k]])
       IN  /\ start[k + 1] = start[k] + 3 + Len(value) /\ start[k + 1] <= Len(text)
           /\ text[start[k] + 1] = KSep
           /\ text[start[k] + 2] = KNodeAttrsNames[order[k]]
           /\ text[start[k] + 3] = KAttrSep
           /\ \A q \in 1 .. Len(value) : text[start[k] + 3 + q] = value[q]

\* What operator string makes of a TMut.
LEMMA ToTextIs ==
  ASSUME NEW type, NEW attrs \in AttrMap
  PROVE  LET n == Cardinality(DOMAIN attrs)
             order == InOrder(DOMAIN attrs)
         IN  /\ n \in Nat /\ order \in [1 .. n -> DOMAIN attrs] /\ Increasing(order, n)
             /\ \A a \in DOMAIN attrs : \E i \in 1 .. n : order[i] = a
             /\ ToText(type, attrs) = NodeTypeName(type) \o FlattenSeq(Parts(attrs, order))
<1>1. PICK n, order : n = Cardinality(DOMAIN attrs) /\ order = InOrder(DOMAIN attrs)
  OBVIOUS
<1>2. /\ n \in Nat /\ order \in [1 .. n -> DOMAIN attrs] /\ Increasing(order, n)
      /\ \A a \in DOMAIN attrs : \E i \in 1 .. n : order[i] = a
  BY <1>1, AttrMapIs, InOrderIs
<1>3. ToText(type, attrs) = NodeTypeName(type) \o FlattenSeq(Parts(attrs, order))
  BY <1>1 DEF ToText, Parts, Part
<1>4. QED
  BY <1>1, <1>2, <1>3

LEMMA ToTextIsText ==
  ASSUME NEW type \in Types \cup {ENt_Unknown}, NEW attrs \in AttrMap
  PROVE  ToText(type, attrs) \in Seq(Symbol)
<1>1. NodeTypeName(type) \in Seq(Symbol)
  <2>1. CASE type \in Types
    <3>1. KNodeTypesNames[type] \in Names
      BY <2>1 DEF Names, Range, Types
    <3>2. KNodeTypesNames[type] \in Symbol
      BY <3>1, Controls
    <3>3. QED
      BY <2>1, <3>2 DEF NodeTypeName
  <2>2. CASE type \notin Types
    BY <2>2 DEF NodeTypeName
  <2>3. QED
    BY <2>1, <2>2
<1>2. PICK n, order : n = Cardinality(DOMAIN attrs) /\ order = InOrder(DOMAIN attrs)
  OBVIOUS
<1>3. /\ n \in Nat /\ order \in [1 .. n -> DOMAIN attrs]
      /\ ToText(type, attrs) = NodeTypeName(type) \o FlattenSeq(Parts(attrs, order))
  BY <1>2, ToTextIs
<1>4. Parts(attrs, order) \in Seq(Seq(Symbol)) /\ << >> \in Seq(Symbol)
  BY <1>3, PartsAre
<1>5. FlattenSeq(Parts(attrs, order)) \in Seq(Symbol)
  BY <1>4, FlattenAppend
<1>6. QED
  BY <1>1, <1>3, <1>5

\* The text of a TMut of a known type is laid out that way.
LEMMA TextIsLaid ==
  ASSUME NEW type \in Types, NEW attrs \in AttrMap
  PROVE  \E n, order, start : Laid(ToText(type, attrs), type, attrs, n, order, start)
<1>1. PICK n, order : n = Cardinality(DOMAIN attrs) /\ order = InOrder(DOMAIN attrs)
  OBVIOUS
<1>2. /\ n \in Nat /\ order \in [1 .. n -> DOMAIN attrs] /\ Increasing(order, n)
      /\ \A a \in DOMAIN attrs : \E i \in 1 .. n : order[i] = a
      /\ ToText(type, attrs) = NodeTypeName(type) \o FlattenSeq(Parts(attrs, order))
  BY <1>1, ToTextIs
<1>3. PICK ss, flat, name : ss = Parts(attrs, order) /\ flat = FlattenSeq(ss)
                            /\ name = KNodeTypesNames[type]
  OBVIOUS
<1>4. ss \in Seq(Seq(Symbol)) /\ Len(ss) = n /\ \A i \in 1 .. n : ss[i] = Part(attrs, order[i])
  BY <1>2, <1>3, PartsAre
<1>5. PICK at : Places(ss, flat, at)
  BY <1>3, <1>4, PlacesExist
<1>6. flat \in Seq(Symbol)
  <2>1. << >> \in Seq(Symbol)
    OBVIOUS
  <2>2. QED
    BY <1>3, <1>4, <2>1, FlattenAppend
<1>7. name \in Symbol
  <2>1. name \in Names
    BY <1>3 DEF Names, Range, Types
  <2>2. QED
    BY <2>1, Controls
<1>8. PICK text, m : text = <<name>> \o flat /\ m = Len(flat)
  OBVIOUS
<1>9. text \in Seq(Symbol) /\ m \in Nat /\ Len(text) = 1 + m /\ text[1] = name
      /\ \A p \in 1 .. m : text[1 + p] = flat[p]
  <2>1. PICK lead, l : lead = <<name>> /\ l = Len(lead)
    OBVIOUS
  <2>2. lead \in Seq(Symbol) /\ l = 1 /\ lead[1] = name
    BY <1>7, <2>1
  <2>3. text \in Seq(Symbol) /\ m \in Nat /\ Len(text) = l + m
        /\ (\A p \in 1 .. l : text[p] = lead[p])
        /\ (\A p \in 1 .. m : text[l + p] = flat[p])
    BY <1>6, <1>8, <2>1, <2>2, ConcatProperties
  <2>4. QED
    BY <2>2, <2>3
<1>10. ToText(type, attrs) = text
  <2>1. NodeTypeName(type) = <<name>>
    BY <1>3 DEF NodeTypeName
  <2>2. QED
    BY <1>2, <1>3, <1>8, <2>1
<1>11. /\ at \in [1 .. n + 1 -> Nat] /\ at[1] = 0 /\ at[n + 1] = m
       /\ \A k \in 1 .. n + 1 : at[k] <= m
       /\ \A k \in 1 .. n :
            /\ at[k + 1] = at[k] + Len(ss[k])
            /\ \A q \in 1 .. Len(ss[k]) : flat[at[k] + q] = ss[k][q]
  BY <1>4, <1>5, <1>8 DEF Places
<1> DEFINE start == [k \in 1 .. n + 1 |-> 1 + at[k]]
<1>12. start \in [1 .. n + 1 -> Nat] /\ \A k \in 1 .. n + 1 : start[k] = 1 + at[k]
  BY <1>11
<1> HIDE DEF start
<1>13. start[1] = 1 /\ start[n + 1] = Len(text)
  <2>1. 1 \in 1 .. n + 1 /\ n + 1 \in 1 .. n + 1
    BY <1>2
  <2>2. QED
    BY <1>9, <1>11, <1>12, <2>1
<1>14. ASSUME NEW k \in 1 .. n
       PROVE  LET value == EscapeCtrls(attrs[order[k]])
              IN  /\ start[k + 1] = start[k] + 3 + Len(value) /\ start[k + 1] <= Len(text)
                  /\ text[start[k] + 1] = KSep
                  /\ text[start[k] + 2] = KNodeAttrsNames[order[k]]
                  /\ text[start[k] + 3] = KAttrSep
                  /\ \A q \in 1 .. Len(value) : text[start[k] + 3 + q] = value[q]
  <2>1. k \in 1 .. n + 1 /\ k + 1 \in 1 .. n + 1
    BY <1>2
  <2>2. PICK a, b, o : a = at[k] /\ b = at[k + 1] /\ o = order[k]
    OBVIOUS
  <2>3. PICK part, value : part = Part(attrs, o) /\ value = EscapeCtrls(attrs[o])
    OBVIOUS
  <2>4. o \in DOMAIN attrs
    BY <1>2, <2>2
  <2>5. PICK d : d = Len(value)
    OBVIOUS
  <2>6. /\ d \in Nat /\ part \in Seq(Symbol) /\ Len(part) = 3 + d
        /\ part[1] = KSep /\ part[2] = KNodeAttrsNames[o] /\ part[3] = KAttrSep
        /\ \A q \in 1 .. d : part[3 + q] = value[q]
    <3>1. /\ value \in Seq(Symbol) /\ part \in Seq(Symbol) /\ Len(part) = 3 + Len(value)
          /\ part[1] = KSep /\ part[2] = KNodeAttrsNames[o] /\ part[3] = KAttrSep
          /\ \A q \in 1 .. Len(value) : part[3 + q] = value[q]
      BY <2>3, <2>4, PartIs
    <3>2. QED
      BY <2>5, <3>1
  <2>7. a \in Nat /\ b \in Nat /\ b <= m
    BY <1>11, <2>1, <2>2
  <2>8. ss[k] = part
    BY <1>4, <2>2, <2>3
  <2>9. b = a + (3 + d) /\ \A q \in 1 .. 3 + d : flat[a + q] = part[q]
    BY <1>11, <2>2, <2>6, <2>8
  <2>10. ASSUME NEW q \in 1 .. 3 + d
         PROVE  text[(1 + a) + q] = part[q]
    <3>1. a + q \in 1 .. m /\ 1 + (a + q) = (1 + a) + q
      BY <1>9, <2>6, <2>7, <2>9
    <3>2. text[1 + (a + q)] = flat[a + q]
      BY <1>9, <3>1
    <3>3. QED
      BY <2>9, <3>1, <3>2
  <2>11. 1 \in 1 .. 3 + d /\ 2 \in 1 .. 3 + d /\ 3 \in 1 .. 3 + d
    BY <2>6
  <2>12. start[k] = 1 + a /\ start[k + 1] = 1 + b
    BY <1>12, <2>1, <2>2
  <2>13. start[k + 1] = start[k] + 3 + d /\ start[k + 1] <= Len(text)
    BY <1>9, <2>6, <2>7, <2>9, <2>12
  <2>14. ASSUME NEW q \in 1 .. d
         PROVE  text[start[k] + 3 + q] = value[q]
    <3>1. 3 + q \in 1 .. 3 + d /\ (1 + a) + (3 + q) = (1 + a) + 3 + q
      BY <2>6, <2>7
    <3>2. text[(1 + a) + (3 + q)] = part[3 + q]
      BY <2>10, <3>1
    <3>3. QED
      BY <2>6, <2>12, <3>1, <3>2
  <2>15. text[start[k] + 1] = KSep /\ text[start[k] + 2] = KNodeAttrsNames[o]
         /\ text[start[k] + 3] = KAttrSep
    BY <2>6, <2>10, <2>11, <2>12
  <2>16. QED
    BY <2>2, <2>3, <2>5, <2>13, <2>14, <2>15
<1>15. Len(text) > 0 /\ text[1] = KNodeTypesNames[type]
  BY <1>3, <1>9
<1>16. Laid(text, type, attrs, n, order, start)
  BY <1>2, <1>9, <1>12, <1>13, <1>14, <1>15 DEF Laid
<1>17. QED
  BY <1>10, <1>16

\* The separators the parser takes for the end of a part.
Cut(text, p) == p \in 1 .. Len(text) - 1 /\ text[p + 1] = KSep /\ text[p] # KEsc

\* What Laid says of one part: it takes the places from a + 1 to b, is the part
\* of the attribute o, and has the text of its value, of length d, behind the
\* first three.
PartAt(text, attrs, order, start, k, a, b, d, o, value) ==
  /\ a \in Nat \ {0} /\ b \in Nat /\ d \in Nat /\ o \in DOMAIN attrs /\ value \in Seq(Symbol)
  /\ a = start[k] /\ b = start[k + 1] /\ o = order[k]
  /\ value = EscapeCtrls(attrs[o]) /\ d = Len(value)
  /\ b = a + 3 + d /\ b <= Len(text)
  /\ text[a + 1] = KSep /\ text[a + 2] = KNodeAttrsNames[o] /\ text[a + 3] = KAttrSep
  /\ \A q \in 1 .. d : text[a + 3 + q] = value[q]

LEMMA LaidPart ==
  ASSUME NEW text, NEW type, NEW attrs \in AttrMap, NEW n, NEW order, NEW start,
         Laid(text, type, attrs, n, order, start), NEW k \in 1 .. n
  PROVE  \E a, b, d, o, value : PartAt(text, attrs, order, start, k, a, b, d, o, value)
<1>1. PICK a, b, o : a = start[k] /\ b = start[k + 1] /\ o = order[k]
  OBVIOUS
<1>2. PICK value, d : value = EscapeCtrls(attrs[o]) /\ d = Len(value)
  OBVIOUS
<1>3. n \in Nat /\ start \in [1 .. n + 1 -> Nat] /\ order \in [1 .. n -> DOMAIN attrs]
  BY DEF Laid
<1>4. a \in Nat /\ b \in Nat
  <2>1. k \in 1 .. n + 1 /\ k + 1 \in 1 .. n + 1
    BY <1>3
  <2>2. QED
    BY <1>1, <1>3, <2>1
<1>5. o \in DOMAIN attrs
  BY <1>1, <1>3
<1>6. value \in Seq(Symbol) /\ d \in Nat
  <2>1. value \in Seq(Symbol)
    BY <1>2, <1>5, AttrMapIs, EscapesIs
  <2>2. QED
    BY <1>2, <2>1
<1>7. /\ b = a + 3 + d /\ b <= Len(text)
      /\ text[a + 1] = KSep /\ text[a + 2] = KNodeAttrsNames[o] /\ text[a + 3] = KAttrSep
      /\ \A q \in 1 .. d : text[a + 3 + q] = value[q]
  BY <1>1, <1>2 DEF Laid
<1>8. a > 0
  <2> DEFINE J == {i \in Nat : i + 1 <= n + 1 => start[i + 1] > 0}
  <2>1. 0 \in J
    BY <1>3 DEF Laid
  <2>2. ASSUME NEW i \in J
        PROVE  i + 1 \in J
    <3>1. i \in Nat
      OBVIOUS
    <3>2. ASSUME (i + 1) + 1 <= n + 1
          PROVE  start[(i + 1) + 1] > 0
      <4>1. PICK j : j = i + 1
        OBVIOUS
      <4>2. j \in 1 .. n /\ j \in 1 .. n + 1 /\ j + 1 \in 1 .. n + 1
        BY <1>3, <3>1, <3>2, <4>1
      <4>3. start[j] > 0
        BY <1>3, <4>1, <4>2
      <4>4. start[j + 1] = start[j] + 3 + Len(EscapeCtrls(attrs[order[j]]))
        BY <4>2 DEF Laid
      <4>5. order[j] \in DOMAIN attrs
        BY <1>3, <4>2
      <4>6. EscapeCtrls(attrs[order[j]]) \in Seq(Symbol)
        BY <4>5, AttrMapIs, EscapesIs
      <4>7. PICK e : e = Len(EscapeCtrls(attrs[order[j]]))
        OBVIOUS
      <4>8. e \in Nat
        BY <4>6, <4>7
      <4>9. start[j] \in Nat
        BY <1>3, <4>2
      <4>10. QED
        BY <4>1, <4>3, <4>4, <4>7, <4>8, <4>9
    <3>3. QED
      BY <3>1, <3>2
  <2>3. J \in SUBSET Nat
    OBVIOUS
  <2> HIDE DEF J
  <2>4. k - 1 \in J
    <3>1. k - 1 \in Nat
      BY <1>3
    <3>2. QED
      BY <2>1, <2>2, <2>3, <3>1, NatInduced
  <2>5. (k - 1) + 1 = k /\ k <= n + 1
    BY <1>3
  <2>6. start[(k - 1) + 1] > 0
    BY <2>4, <2>5 DEF J
  <2>7. QED
    BY <1>1, <2>5, <2>6
<1>9. PartAt(text, attrs, order, start, k, a, b, d, o, value)
  BY <1>1, <1>2, <1>4, <1>5, <1>6, <1>7, <1>8 DEF PartAt
<1>10. QED
  BY <1>9

\* The parts come one after the other.
LEMMA StartsAscend ==
  ASSUME NEW text, NEW type, NEW attrs \in AttrMap, NEW n, NEW order, NEW start,
         Laid(text, type, attrs, n, order, start),
         NEW i \in 1 .. n + 1, NEW j \in 1 .. n + 1, i < j
  PROVE  start[i] < start[j]
<1>1. n \in Nat /\ start \in [1 .. n + 1 -> Nat]
  BY DEF Laid
<1> DEFINE J == {d \in Nat : i + d + 1 <= n + 1 => start[i] < start[i + d + 1]}
<1>2. ASSUME NEW k \in 1 .. n
      PROVE  start[k] < start[k + 1]
  <2>1. PICK a, b, d, o, value : PartAt(text, attrs, order, start, k, a, b, d, o, value)
    BY LaidPart
  <2>2. QED
    BY <2>1 DEF PartAt
<1>3. 0 \in J
  <2>1. i \in 1 .. n /\ i + 0 + 1 = i + 1
    BY <1>1
  <2>2. QED
    BY <1>2, <2>1
<1>4. ASSUME NEW d \in J
      PROVE  d + 1 \in J
  <2>1. d \in Nat
    OBVIOUS
  <2>2. ASSUME i + (d + 1) + 1 <= n + 1
        PROVE  start[i] < start[i + (d + 1) + 1]
    <3>1. PICK k : k = i + d + 1
      OBVIOUS
    <3>2. k \in 1 .. n /\ k \in 1 .. n + 1 /\ k + 1 \in 1 .. n + 1 /\ k + 1 = i + (d + 1) + 1
      BY <1>1, <2>1, <2>2, <3>1
    <3>3. start[i] < start[k]
      BY <1>1, <3>1, <3>2
    <3>4. start[k] < start[k + 1]
      BY <1>2, <3>2
    <3>5. PICK a, b, c : a = start[i] /\ b = start[k] /\ c = start[k + 1]
      OBVIOUS
    <3>6. a \in Nat /\ b \in Nat /\ c \in Nat
      BY <1>1, <3>2, <3>5
    <3>7. a < c
      BY <3>3, <3>4, <3>5, <3>6
    <3>8. QED
      BY <3>2, <3>5, <3>7
  <2>3. QED
    BY <2>1, <2>2
<1>5. J \in SUBSET Nat
  OBVIOUS
<1>6. j - i - 1 \in Nat /\ i + (j - i - 1) + 1 = j
  BY <1>1
<1> HIDE DEF J
<1>7. j - i - 1 \in J
  BY <1>3, <1>4, <1>5, <1>6, NatInduced
<1>8. i + (j - i - 1) + 1 <= n + 1 => start[i] < start[i + (j - i - 1) + 1]
  BY <1>7 DEF J
<1>9. QED
  BY <1>1, <1>6, <1>8

\* All cuts lie between parts: a separator in a value has an escape before it.
LEMMA CutsAreStarts ==
  ASSUME NEW text, NEW type, NEW attrs \in AttrMap, NEW n, NEW order, NEW start,
         Laid(text, type, attrs, n, order, start), NEW p, Cut(text, p)
  PROVE  \E k \in 1 .. n : p = start[k]
<1>1. /\ n \in Nat /\ start \in [1 .. n + 1 -> Nat]
      /\ start[1] = 1 /\ start[n + 1] = Len(text) /\ text \in Seq(Symbol)
  BY DEF Laid
<1>2. p \in Nat /\ 1 <= p /\ p + 1 <= Len(text) /\ text[p + 1] = KSep /\ text[p] # KEsc
  BY <1>1 DEF Cut
<1> DEFINE K == {k \in 1 .. n + 1 : p + 1 <= start[k]}
<1>3. K \in SUBSET Nat /\ K # {}
  <2>1. n + 1 \in K
    BY <1>1, <1>2
  <2>2. QED
    BY <2>1
<1>4. PICK k \in K : \A j \in K : k <= j
  BY <1>3, LeastNat
<1>5. k \in 1 .. n + 1 /\ p + 1 <= start[k]
  OBVIOUS
<1>6. k # 1
  BY <1>1, <1>2, <1>5
<1>7. PICK j : j = k - 1
  OBVIOUS
<1>8. j \in 1 .. n /\ j \in 1 .. n + 1 /\ j + 1 = k /\ ~(k <= j)
  BY <1>1, <1>5, <1>6, <1>7
<1>9. ~(p + 1 <= start[j])
  BY <1>4, <1>8
<1> HIDE DEF K
<1>10. PICK a, b, d, o, value : PartAt(text, attrs, order, start, j, a, b, d, o, value)
  BY <1>8, LaidPart
<1>11. /\ a \in Nat \ {0} /\ b \in Nat /\ d \in Nat /\ o \in DOMAIN attrs
       /\ value \in Seq(Symbol) /\ value = EscapeCtrls(attrs[o]) /\ d = Len(value)
       /\ a = start[j] /\ b = start[j + 1] /\ b = a + 3 + d /\ b <= Len(text)
       /\ text[a + 1] = KSep /\ text[a + 2] = KNodeAttrsNames[o] /\ text[a + 3] = KAttrSep
       /\ \A q \in 1 .. d : text[a + 3 + q] = value[q]
  BY <1>10 DEF PartAt
<1>12. a \in Nat /\ a > 0 /\ b \in Nat /\ d \in Nat /\ b = a + 3 + d
  BY <1>11
<1>13. a <= p /\ p + 1 <= a + 3 + d
  <2>1. start[k] = b /\ start[j] = a
    BY <1>8, <1>11
  <2>2. QED
    BY <1>2, <1>5, <1>9, <1>12, <2>1
<1>14. p # a + 1
  <2>1. o \in Attrs
    BY <1>11, AttrMapIs
  <2>2. KNodeAttrsNames[o] \in Names
    BY <2>1 DEF Names, Range, Attrs
  <2>3. text[a + 2] # KSep
    BY <1>11, <2>2, Controls
  <2>4. p = a + 1 => p + 1 = a + 2
    BY <1>11
  <2>5. QED
    BY <1>2, <2>3, <2>4
<1>15. p # a + 2
  <2>1. p = a + 2 => p + 1 = a + 3
    BY <1>11
  <2>2. QED
    BY <1>2, <1>11, <2>1, Controls
<1>16. ASSUME p > a + 2
       PROVE  FALSE
  <2>1. PICK q : q = p - a - 2
    OBVIOUS
  <2>2. q \in 1 .. d /\ a + 3 + q = p + 1
    BY <1>2, <1>12, <1>13, <1>16, <2>1
  <2>3. value[q] = KSep
    BY <1>2, <1>11, <2>2
  <2>4. Guarded(value)
    BY <1>11, AttrMapIs, EscapeGuards
  <2>5. q > 1 /\ value[q - 1] = KEsc
    BY <1>11, <2>2, <2>3, <2>4 DEF Guarded
  <2>6. q - 1 \in 1 .. d /\ a + 3 + (q - 1) = p
    BY <1>2, <1>12, <2>2, <2>5
  <2>7. text[p] = KEsc
    BY <1>11, <2>5, <2>6
  <2>8. QED
    BY <1>2, <2>7
<1>17. p = a
  BY <1>2, <1>12, <1>13, <1>14, <1>15, <1>16
<1>18. QED
  BY <1>8, <1>11, <1>17

\* A part that starts with no cut is hidden by the value before it.
LEMMA HiddenBy ==
  ASSUME NEW text, NEW type \in Types, NEW attrs \in AttrMap, NEW n, NEW order, NEW start,
         Laid(text, type, attrs, n, order, start), NEW k \in 1 .. n, ~Cut(text, start[k])
  PROVE  /\ k - 1 \in 1 .. n
         /\ LET value == attrs[order[k - 1]]
            IN  value \in Seq(Symbol) /\ value # << >> /\ value[Len(value)] = KEsc
<1>1. /\ n \in Nat /\ start[1] = 1 /\ text \in Seq(Symbol)
      /\ text[1] = KNodeTypesNames[type]
  BY DEF Laid
<1>2. PICK a, b, d, x, y : PartAt(text, attrs, order, start, k, a, b, d, x, y)
  BY LaidPart
<1>3. a \in Nat \ {0} /\ a = start[k] /\ d \in Nat /\ b = a + 3 + d /\ b <= Len(text) /\ text[a + 1] = KSep
  BY <1>2 DEF PartAt
<1>4. Len(text) \in Nat
  BY <1>1
<1>5. a \in 1 .. Len(text) - 1
  BY <1>3, <1>4
<1>6. text[a] = KEsc
  BY <1>3, <1>5 DEF Cut
<1>7. k # 1
  <2>1. text[1] \in Names
    BY <1>1 DEF Names, Range, Types
  <2>2. QED
    BY <1>1, <1>3, <1>6, <2>1, Controls
<1>8. PICK j : j = k - 1
  OBVIOUS
<1>9. j \in 1 .. n /\ j + 1 = k
  BY <1>1, <1>7, <1>8
<1>10. PICK c, f, e, o, text2 : PartAt(text, attrs, order, start, j, c, f, e, o, text2)
  BY <1>9, LaidPart
<1>11. /\ c \in Nat \ {0} /\ f \in Nat /\ e \in Nat /\ o \in DOMAIN attrs
       /\ text2 \in Seq(Symbol) /\ text2 = EscapeCtrls(attrs[o]) /\ e = Len(text2)
       /\ c = start[j] /\ f = start[j + 1] /\ o = order[j]
       /\ f = c + 3 + e /\ text[c + 3] = KAttrSep
       /\ \A q \in 1 .. e : text[c + 3 + q] = text2[q]
  BY <1>10 DEF PartAt
<1>12. a = c + 3 + e
  <2>1. start[j + 1] = start[k]
    BY <1>9
  <2>2. f = start[k] /\ f = c + 3 + e
    BY <1>11, <2>1
  <2>3. a = start[k]
    BY <1>3
  <2>4. QED
    BY <2>2, <2>3
<1>13. e # 0
  <2>1. e = 0 => a = c + 3
    BY <1>11, <1>12
  <2>2. QED
    BY <1>6, <1>11, <2>1, Controls
<1>14. PICK value : value = attrs[o]
  OBVIOUS
<1>15. value \in Seq(Symbol)
  BY <1>11, <1>14, AttrMapIs
<1>16. value # << >>
  <2>1. text2 # << >>
    BY <1>11, <1>13
  <2>2. QED
    BY <1>11, <1>14, <2>1, EscapeNone
<1>17. text2[e] = KEsc
  <2>1. e \in 1 .. e /\ c + 3 + e = a
    BY <1>11, <1>13, <1>12
  <2>2. QED
    BY <1>6, <1>11, <2>1
<1>18. value[Len(value)] = KEsc
  BY <1>11, <1>14, <1>15, <1>16, <1>17, EscapeEnds
<1>19. QED
  BY <1>8, <1>9, <1>11, <1>14, <1>15, <1>16, <1>18

-----------------------------------------------------------------------------
\* Names and attributes.

\* A name is looked up to what has it, or to the value that stands for none.
LEMMA LookupIs ==
  ASSUME NEW table, NEW name, NEW unknown
  PROVE  Lookup(table, name, unknown) \in DOMAIN table \cup {unknown}
<1>1. CASE \E k \in DOMAIN table : name = <<table[k]>>
  BY <1>1 DEF Lookup
<1>2. CASE ~ \E k \in DOMAIN table : name = <<table[k]>>
  BY <1>2 DEF Lookup
<1>3. QED
  BY <1>1, <1>2

\* Of different keys with different names each is found by its name.
LEMMA LookupFinds ==
  ASSUME NEW table, IsInjective(table), NEW key \in DOMAIN table, NEW unknown
  PROVE  Lookup(table, <<table[key]>>, unknown) = key
<1>1. PICK x : x = table[key]
  OBVIOUS
<1>2. \A k \in DOMAIN table : <<x>> = <<table[k]>> => k = key
  BY <1>1 DEF IsInjective
<1>3. \E k \in DOMAIN table : <<x>> = <<table[k]>>
  BY <1>1
<1>4. QED
  BY <1>1, <1>2, <1>3 DEF Lookup

\* No name is empty.
LEMMA NoNameIsEmpty ==
  ASSUME NEW table, NEW unknown
  PROVE  Lookup(table, << >>, unknown) = unknown
<1>1. \A x : << >> # <<x>>
  OBVIOUS
<1>2. QED
  BY <1>1 DEF Lookup

LEMMA AttrMapHas ==
  ASSUME NEW own \in SUBSET Attrs, NEW attrs \in [own -> Seq(Symbol)]
  PROVE  attrs \in AttrMap
BY DEF AttrMap

LEMMA WithAttrIs ==
  ASSUME NEW attrs \in AttrMap, NEW attr \in Attrs, NEW value \in Seq(Symbol)
  PROVE  LET more == WithAttr(attrs, attr, value)
         IN  /\ more \in AttrMap /\ DOMAIN more = DOMAIN attrs \cup {attr}
             /\ more[attr] = value
             /\ \A a \in DOMAIN attrs : a # attr => more[a] = attrs[a]
<1>1. PICK own, more : own = DOMAIN attrs \cup {attr} /\ more = WithAttr(attrs, attr, value)
  OBVIOUS
<1>2. DOMAIN attrs \in SUBSET Attrs /\ attrs \in [DOMAIN attrs -> Seq(Symbol)]
  BY AttrMapIs
<1>3. own \in SUBSET Attrs
  BY <1>1, <1>2
<1>4. more = [a \in own |-> IF a = attr THEN value ELSE attrs[a]]
  BY <1>1 DEF WithAttr
<1>5. \A a \in own : (IF a = attr THEN value ELSE attrs[a]) \in Seq(Symbol)
  BY <1>1, <1>2
<1>6. more \in [own -> Seq(Symbol)]
  BY <1>4, <1>5
<1>7. more \in AttrMap
  BY <1>3, <1>6, AttrMapHas
<1>8. QED
  BY <1>1, <1>4, <1>7

\* One of the attributes goes, the others keep their values.
LEMMA WithoutAttr ==
  ASSUME NEW attrs \in AttrMap, NEW own \in SUBSET DOMAIN attrs
  PROVE  Restrict(attrs, own) \in AttrMap
<1>1. DOMAIN attrs \in SUBSET Attrs /\ attrs \in [DOMAIN attrs -> Seq(Symbol)]
  BY AttrMapIs
<1>2. own \in SUBSET Attrs
  BY <1>1
<1>3. Restrict(attrs, own) \in [own -> Seq(Symbol)]
  BY <1>1 DEF Restrict
<1>4. QED
  BY <1>2, <1>3, AttrMapHas

\* What a constructor inserts: for each attribute the first of its values.
LEMMA InsertedIs ==
  ASSUME NEW args \in Args
  PROVE  Inserted(args) \in AttrMap
<1>1. PICK n \in 0 .. 3 : args \in [1 .. n -> Attrs \X Values]
  BY DEF Args
<1>2. args \in Seq(Attrs \X Values) /\ Len(args) = n /\ DOMAIN args = 1 .. n
  BY <1>1
<1> DEFINE Has(m) == {args[k][1] : k \in 1 .. m}
           First(a, i) == args[i][1] = a /\ a \notin Has(i - 1)
<1>3. Has(n) \in SUBSET Attrs
  BY <1>1
<1>4. ASSUME NEW a \in Has(n)
      PROVE  \E i \in 1 .. n : First(a, i)
  <2> DEFINE K == {i \in 1 .. n : args[i][1] = a}
  <2>1. K \in SUBSET Nat /\ K # {}
    OBVIOUS
  <2>2. PICK i \in K : \A j \in K : i <= j
    BY <2>1, LeastNat
  <2>3. i \in 1 .. n /\ args[i][1] = a
    OBVIOUS
  <2>4. ASSUME NEW k \in 1 .. i - 1
        PROVE  args[k][1] # a
    <3>1. k \in 1 .. n /\ ~(i <= k)
      BY <1>1, <2>3
    <3>2. QED
      BY <2>2, <3>1
  <2>5. QED
    BY <2>3, <2>4
<1>5. ASSUME NEW a \in Has(n)
      PROVE  args[CHOOSE i \in 1 .. n : First(a, i)][2] \in Seq(Symbol)
  <2>1. PICK i : i = CHOOSE j \in 1 .. n : First(a, j)
    OBVIOUS
  <2>2. i \in 1 .. n
    BY <1>4, <2>1
  <2>3. args[i][2] \in Values
    BY <1>1, <2>2
  <2>4. QED
    BY <2>1, <2>3, TMutAssumption
<1>6. Inserted(args) = [a \in Has(n) |-> args[CHOOSE i \in 1 .. n : First(a, i)][2]]
  BY <1>2 DEF Inserted
<1>7. Inserted(args) \in [Has(n) -> Seq(Symbol)]
  BY <1>5, <1>6
<1>8. QED
  BY <1>3, <1>7, AttrMapHas

-----------------------------------------------------------------------------
\* The state.

\* What a TMut is made from.
Origins == [mType : Types \cup {ENt_Unknown}, mAttrs : AttrMap, some : BOOLEAN]

\* The type invariant as it is inductive: where the loops of the parser are,
\* and what the offsets are good for there.
TypeInv ==
  /\ mType \in Types \cup {ENt_Unknown} /\ mAttrs \in AttrMap
  /\ origin \in Origins
  /\ aSpec \in Seq(Symbol)
  /\ attr_beg \in 0 .. Len(aSpec) /\ attr_mid \in 0 .. Len(aSpec)
  /\ attr_end \in npos .. Len(aSpec) - 1
  /\ pc \in {"new", "type", "sep", "attr", "done", "throws"}
  /\ pc = "new" => attr_beg = 0 /\ attr_mid = 0 /\ attr_end = npos
  /\ pc = "sep" => attr_beg <= attr_mid
  /\ pc = "attr" => attr_end = npos \/ attr_beg <= attr_end

LEMMA NoAttrsIs == NoAttrs \in AttrMap
<1>1. {} \in SUBSET Attrs /\ NoAttrs \in [{} -> Seq(Symbol)]
  BY DEF NoAttrs
<1>2. QED
  BY <1>1, AttrMapHas

LEMMA InitTypeInv == Init => TypeInv
<1> SUFFICES ASSUME Init PROVE TypeInv
  OBVIOUS
<1>1. aSpec = << >> /\ Len(aSpec) = 0 /\ aSpec \in Seq(Symbol)
  BY DEF Init
<1>2. origin \in Origins
  BY NoAttrsIs DEF Init, NoTMut, Origins
<1>3. QED
  BY <1>1, <1>2, NoAttrsIs DEF Init, TypeInv, npos

LEMMA TypeInvConstruct ==
  ASSUME TypeInv, Construct
  PROVE  TypeInv'
<1>1. mAttrs' \in AttrMap
  BY InsertedIs DEF Construct
<1>2. QED
  BY <1>1 DEF TypeInv, Construct, parser

LEMMA TypeInvFromNode ==
  ASSUME TypeInv, FromNode
  PROVE  TypeInv'
<1>1. mAttrs' \in AttrMap
  <2>1. PICK own \in SUBSET Attrs : mAttrs' \in [own -> Values]
    BY DEF FromNode
  <2>2. mAttrs' \in [own -> Seq(Symbol)]
    BY <2>1, TMutAssumption
  <2>3. QED
    BY <2>2, AttrMapHas
<1>2. QED
  BY <1>1 DEF TypeInv, FromNode, parser

LEMMA TypeInvFromText ==
  ASSUME TypeInv, FromText
  PROVE  TypeInv'
<1>1. aSpec' \in Seq(Symbol)
  BY TMutAssumption DEF FromText
<1>2. Len(aSpec') \in Nat
  BY <1>1
<1>3. attr_beg' = 0 /\ attr_mid' = 0 /\ attr_end' = npos
  BY DEF TypeInv, FromText
<1>4. QED
  BY <1>1, <1>2, <1>3 DEF TypeInv, FromText, npos

LEMMA TypeInvParseType ==
  ASSUME TypeInv, ParseType
  PROVE  TypeInv'
<1>1. PICK len, end, type :
        /\ len = Len(aSpec) /\ end = FindFirstOf(aSpec, {KSep}, 0)
        /\ type = NodeType(Substr(aSpec, 0, end))
  OBVIOUS
<1>2. len \in Nat /\ aSpec \in Seq(Symbol)
  BY <1>1 DEF TypeInv
<1>3. end \in npos .. len - 1
  <2>1. end = npos \/ end \in 0 .. len - 1
    BY <1>1, <1>2, FindFirstOfIs
  <2>2. QED
    BY <1>2, <2>1 DEF npos
<1>4. type \in Types \cup {ENt_Unknown}
  BY <1>1, LookupIs DEF NodeType, Types
<1>5. /\ mType' = type /\ attr_beg' = end + 1 /\ attr_mid' = end + 1 /\ attr_end' = end
      /\ pc' = IF type = ENt_Unknown THEN "throws" ELSE IF end = npos THEN "done" ELSE "sep"
      /\ mAttrs' = mAttrs /\ aSpec' = aSpec /\ origin' = origin
  BY <1>1 DEF ParseType
<1>6. end + 1 \in 0 .. len
  BY <1>2, <1>3 DEF npos
<1>7. pc' \in {"throws", "done", "sep"}
  BY <1>5
<1>8. attr_beg' <= attr_mid'
  BY <1>5, <1>6
<1>9. QED
  BY <1>1, <1>3, <1>4, <1>5, <1>6, <1>7, <1>8 DEF TypeInv

LEMMA TypeInvFindSep ==
  ASSUME TypeInv, FindSep
  PROVE  TypeInv'
<1>1. PICK len, sep : len = Len(aSpec) /\ sep = FindFirstOf(aSpec, {KSep}, attr_mid)
  OBVIOUS
<1>2. /\ len \in Nat /\ aSpec \in Seq(Symbol) /\ attr_mid \in 0 .. len /\ attr_mid \in Nat
      /\ attr_beg \in 0 .. len /\ attr_beg <= attr_mid
  BY <1>1 DEF TypeInv, FindSep
<1>3. sep = npos \/ sep \in attr_mid .. len - 1
  BY <1>1, <1>2, FindFirstOfIs
<1>4. /\ attr_end' = sep /\ attr_mid' = sep + 1 /\ attr_beg' = attr_beg
      /\ pc' = IF sep # npos /\ aSpec[sep] = KEsc THEN "sep" ELSE "attr"
      /\ mType' = mType /\ mAttrs' = mAttrs /\ aSpec' = aSpec /\ origin' = origin
  BY <1>1 DEF FindSep
<1>5. sep + 1 \in 0 .. len /\ sep \in npos .. len - 1
  BY <1>2, <1>3 DEF npos
<1>6. pc' \in {"sep", "attr"}
  BY <1>4
<1>7. pc' = "sep" => attr_beg' <= attr_mid'
  BY <1>2, <1>3, <1>4
<1>8. pc' = "attr" => attr_end' = npos \/ attr_beg' <= attr_end'
  BY <1>2, <1>3, <1>4
<1>9. QED
  BY <1>1, <1>4, <1>5, <1>6, <1>7, <1>8 DEF TypeInv

LEMMA TypeInvParseAttr ==
  ASSUME TypeInv, ParseAttr
  PROVE  TypeInv'
<1>1. PICK len, text, end, attr :
        /\ len = Len(aSpec) /\ text = Substr(aSpec, attr_beg, attr_end)
        /\ end = FindFirstOf(text, {KAttrSep}, 0)
        /\ attr = IF end = npos THEN ENa_Unknown ELSE NodeAttr(SubSeq(text, 1, end))
  OBVIOUS
<1>2. /\ len \in Nat /\ aSpec \in Seq(Symbol) /\ attr_beg \in Nat
      /\ attr_end \in {npos} \cup 0 .. len /\ attr_end \in npos .. len - 1
      /\ attr_beg \in 0 .. len
  BY <1>1 DEF TypeInv, npos
<1>3. text \in Seq(Symbol)
  BY <1>1, <1>2, SubstrIs
<1>4. attr \in Attrs \cup {ENa_Unknown}
  BY <1>1, LookupIs DEF NodeAttr, Attrs
<1>5. /\ mType' = mType /\ aSpec' = aSpec /\ attr_end' = attr_end /\ origin' = origin
      /\ attr = ENa_Unknown => /\ pc' = "throws" /\ mAttrs' = mAttrs
                               /\ attr_beg' = attr_beg /\ attr_mid' = attr_mid
      /\ attr # ENa_Unknown =>
           /\ mAttrs' = WithAttr(mAttrs, attr, DeEscCtrls(Substr(text, end + 1, npos)))
           /\ attr_beg' = attr_end + 1 /\ attr_mid' = attr_end + 1
           /\ pc' = IF attr_end = npos THEN "done" ELSE "sep"
  BY <1>1 DEF ParseAttr
<1>6. CASE attr = ENa_Unknown
  BY <1>5, <1>6 DEF TypeInv
<1>7. CASE attr # ENa_Unknown
  <2>1. end # npos
    BY <1>1, <1>7
  <2>2. end \in Nat
    <3>1. end \in 0 .. Len(text) - 1
      BY <1>1, <1>3, <2>1, FindFirstOfIs
    <3>2. QED
      BY <1>3, <3>1
  <2>3. DeEscCtrls(Substr(text, end + 1, npos)) \in Seq(Symbol)
    <3>1. Substr(text, end + 1, npos) \in Seq(Symbol)
      BY <1>3, <2>2, SubstrIs
    <3>2. QED
      BY <3>1, DeEscsIs
  <2>4. attr \in Attrs
    BY <1>4, <1>7
  <2>5. mAttrs' \in AttrMap
    <3>1. PICK value : value = DeEscCtrls(Substr(text, end + 1, npos))
      OBVIOUS
    <3>2. mAttrs \in AttrMap /\ value \in Seq(Symbol)
      BY <2>3, <3>1 DEF TypeInv
    <3>3. WithAttr(mAttrs, attr, value) \in AttrMap
      BY <2>4, <3>2, WithAttrIs
    <3>4. QED
      BY <1>5, <1>7, <3>1, <3>3
  <2>6. attr_end + 1 \in 0 .. len
    BY <1>2 DEF npos
  <2>7. attr_beg' \in 0 .. len /\ attr_mid' \in 0 .. len /\ attr_beg' <= attr_mid'
    BY <1>5, <1>7, <2>6
  <2>8. pc' \in {"done", "sep"}
    BY <1>5, <1>7
  <2>9. mType \in Types \cup {ENt_Unknown} /\ origin \in Origins
    BY DEF TypeInv
  <2>10. QED
    BY <1>1, <1>2, <1>5, <2>5, <2>7, <2>8, <2>9 DEF TypeInv
<1>8. QED
  BY <1>6, <1>7

LEMMA TypeInvSetAttr ==
  ASSUME TypeInv, SetAttr
  PROVE  TypeInv'
<1>1. mAttrs' \in AttrMap
  <2>1. PICK attr \in Attrs, value \in Values : mAttrs' = WithAttr(mAttrs, attr, value)
    BY DEF SetAttr
  <2>2. value \in Seq(Symbol) /\ mAttrs \in AttrMap
    BY TMutAssumption DEF TypeInv
  <2>3. QED
    BY <2>1, <2>2, WithAttrIs
<1>2. QED
  BY <1>1 DEF TypeInv, SetAttr, parser

LEMMA TypeInvRmAttr ==
  ASSUME TypeInv, RmAttr
  PROVE  TypeInv'
<1>1. mAttrs' \in AttrMap
  <2>1. PICK attr \in DOMAIN mAttrs : mAttrs' = Restrict(mAttrs, DOMAIN mAttrs \ {attr})
    BY DEF RmAttr
  <2>2. PICK own : own = DOMAIN mAttrs \ {attr}
    OBVIOUS
  <2>3. mAttrs \in AttrMap /\ own \in SUBSET DOMAIN mAttrs
    BY <2>2 DEF TypeInv
  <2>4. Restrict(mAttrs, own) \in AttrMap
    BY <2>3, WithoutAttr
  <2>5. QED
    BY <2>1, <2>2, <2>4
<1>2. QED
  BY <1>1 DEF TypeInv, RmAttr, parser

LEMMA TypeInvThrough ==
  ASSUME TypeInv, Through
  PROVE  TypeInv'
<1>1. origin' \in Origins
  BY DEF TypeInv, Through, Origins
<1>2. aSpec' \in Seq(Symbol)
  <2>1. mType \in Types \cup {ENt_Unknown} /\ mAttrs \in AttrMap
    BY DEF TypeInv
  <2>2. QED
    BY <2>1, ToTextIsText DEF Through
<1>3. Len(aSpec') \in Nat
  BY <1>2
<1>4. QED
  BY <1>1, <1>2, <1>3, NoAttrsIs DEF TypeInv, Through, npos

LEMMA TypeInvStep == TypeInv /\ [Next]_vars => TypeInv'
<1> SUFFICES ASSUME TypeInv, [Next]_vars PROVE TypeInv'
  OBVIOUS
<1>1. CASE Construct
  BY <1>1, TypeInvConstruct
<1>2. CASE FromNode
  BY <1>2, TypeInvFromNode
<1>3. CASE FromText
  BY <1>3, TypeInvFromText
<1>4. CASE ParseType
  BY <1>4, TypeInvParseType
<1>5. CASE FindSep
  BY <1>5, TypeInvFindSep
<1>6. CASE ParseAttr
  BY <1>6, TypeInvParseAttr
<1>7. CASE SetAttr
  BY <1>7, TypeInvSetAttr
<1>8. CASE RmAttr
  BY <1>8, TypeInvRmAttr
<1>9. CASE Through
  BY <1>9, TypeInvThrough
<1>10. CASE UNCHANGED vars
  BY <1>10 DEF TypeInv, vars, parser
<1>11. QED
  BY <1>1, <1>2, <1>3, <1>4, <1>5, <1>6, <1>7, <1>8, <1>9, <1>10 DEF Next, Parse

\* A TMut has a type of the table or none, attributes of the table only, and
\* the offsets of TMut(const string&) never leave the text, whatever it is.
THEOREM TMutTypeOK == Spec => []TypeOK
<1>1. TypeInv => TypeOK
  <2> SUFFICES ASSUME TypeInv PROVE TypeOK
    OBVIOUS
  <2>1. ASSUME NEW attrs \in AttrMap
        PROVE  IsAttrMap(attrs)
    BY AttrMapIs DEF IsAttrMap
  <2>2. mAttrs \in AttrMap /\ origin.mAttrs \in AttrMap
    BY DEF TypeInv, Origins
  <2>3. QED
    BY <2>1, <2>2 DEF TypeInv, TypeOK
<1>2. QED
  BY <1>1, InitTypeInv, TypeInvStep, PTL DEF Spec

-----------------------------------------------------------------------------
\* What TMut(const string&) makes of the text of a TMut.

\* ENt_Unknown has no name, so its text starts with a separator if it is not
\* empty, and no type is found in it.
LEMMA NoTypeInText ==
  ASSUME NEW attrs \in AttrMap
  PROVE  LET text == ToText(ENt_Unknown, attrs)
         IN  NodeType(Substr(text, 0, FindFirstOf(text, {KSep}, 0))) = ENt_Unknown
<1>1. PICK n, order : n = Cardinality(DOMAIN attrs) /\ order = InOrder(DOMAIN attrs)
  OBVIOUS
<1>2. /\ n \in Nat /\ order \in [1 .. n -> DOMAIN attrs]
      /\ ToText(ENt_Unknown, attrs) = NodeTypeName(ENt_Unknown) \o FlattenSeq(Parts(attrs, order))
  BY <1>1, ToTextIs
<1>3. PICK ss, flat : ss = Parts(attrs, order) /\ flat = FlattenSeq(ss)
  OBVIOUS
<1>4. ss \in Seq(Seq(Symbol)) /\ Len(ss) = n /\ \A i \in 1 .. n : ss[i] = Part(attrs, order[i])
  BY <1>2, <1>3, PartsAre
<1>5. flat \in Seq(Symbol)
  <2>1. << >> \in Seq(Symbol)
    OBVIOUS
  <2>2. QED
    BY <1>3, <1>4, <2>1, FlattenAppend
<1>6. ToText(ENt_Unknown, attrs) = flat
  <2>1. NodeTypeName(ENt_Unknown) = << >>
    BY TMutAssumption DEF NodeTypeName
  <2>2. QED
    BY <1>2, <1>3, <1>5, <2>1
<1>7. PICK end : end = FindFirstOf(flat, {KSep}, 0)
  OBVIOUS
<1>8. ASSUME flat # << >>
      PROVE  flat[1] = KSep
  <2>1. PICK at : Places(ss, flat, at)
    BY <1>3, <1>4, PlacesExist
  <2>2. n # 0
    <3>1. at[1] = 0 /\ at[n + 1] = Len(flat)
      BY <1>4, <2>1 DEF Places
    <3>2. QED
      BY <1>5, <1>8, <3>1
  <2>3. 1 \in 1 .. n
    BY <1>2, <2>2
  <2>4. order[1] \in DOMAIN attrs
    BY <1>2, <2>3
  <2>5. PICK part : part = ss[1]
    OBVIOUS
  <2>6. part = Part(attrs, order[1])
    BY <1>4, <2>3, <2>5
  <2>7. part[1] = KSep /\ Len(part) >= 3 /\ part \in Seq(Symbol)
    <3>1. PICK value : value = EscapeCtrls(attrs[order[1]])
      OBVIOUS
    <3>2. value \in Seq(Symbol) /\ part \in Seq(Symbol) /\ Len(part) = 3 + Len(value) /\ part[1] = KSep
      BY <2>4, <2>6, <3>1, PartIs
    <3>3. Len(value) \in Nat
      BY <3>2
    <3>4. QED
      BY <3>2, <3>3
  <2>8. at[1] = 0 /\ \A q \in 1 .. Len(part) : flat[at[1] + q] = part[q]
    BY <1>4, <2>1, <2>3, <2>5 DEF Places
  <2>9. 1 \in 1 .. Len(part) /\ 0 + 1 = 1
    BY <2>7
  <2>10. QED
    BY <2>7, <2>8, <2>9
<1>9. end = npos => flat = << >>
  <2> SUFFICES ASSUME end = npos, flat # << >>
               PROVE  FALSE
    OBVIOUS
  <2>1. \A j \in 0 .. Len(flat) - 1 : flat[j + 1] \notin {KSep}
    <3>1. 0 \in Nat
      OBVIOUS
    <3>2. end \notin 0 .. Len(flat) - 1
      BY DEF npos
    <3>3. QED
      BY <1>5, <1>7, <3>1, <3>2, FindFirstOfIs
  <2>2. 0 \in 0 .. Len(flat) - 1 /\ 0 + 1 = 1
    BY <1>5
  <2>3. QED
    BY <1>8, <2>1, <2>2
<1>10. end # npos => end = 0
  <2> SUFFICES ASSUME end # npos, end # 0
               PROVE  FALSE
    OBVIOUS
  <2>1. end \in 0 .. Len(flat) - 1 /\ \A j \in 0 .. end - 1 : flat[j + 1] \notin {KSep}
    BY <1>5, <1>7, FindFirstOfIs
  <2>2. 0 \in 0 .. end - 1 /\ 0 + 1 = 1 /\ flat # << >>
    BY <1>5, <2>1
  <2>3. QED
    BY <1>8, <2>1, <2>2
<1>11. Substr(flat, 0, end) = << >>
  <2>1. CASE end = npos
    BY <1>9, <2>1 DEF Substr
  <2>2. CASE end # npos
    <3>1. end = 0 /\ 0 # npos
      BY <1>10, <2>2 DEF npos
    <3>2. QED
      BY <1>5, <3>1 DEF Substr
  <2>3. QED
    BY <2>1, <2>2
<1>12. QED
  BY <1>6, <1>7, <1>11, NoNameIsEmpty DEF NodeType

\* The text of the first symbol.
LEMMA FirstOf ==
  ASSUME NEW S, NEW s \in Seq(S), Len(s) > 0
  PROVE  SubSeq(s, 1, 1) = <<s[1]>>
<1>1. PICK t, x : t = SubSeq(s, 1, 1) /\ x = s[1]
  OBVIOUS
<1>2. x \in S
  BY <1>1
<1>3. t \in Seq(S) /\ Len(t) = 1 /\ t[1] = x
  BY <1>1
<1>4. << >> \in Seq(S) /\ Len(<< >>) = 0
  OBVIOUS
<1>5. t = Append(<< >>, x)
  <2>1. PICK none : none = << >>
    OBVIOUS
  <2>2. none \in Seq(S) /\ Len(none) = 0
    BY <2>1
  <2>3. Len(t) = Len(none) + 1 /\ t[Len(none) + 1] = x
    BY <1>3, <2>2
  <2>4. \A i \in 1 .. Len(none) : t[i] = none[i]
    BY <2>2
  <2>5. t = Append(none, x)
    BY <1>2, <1>3, <2>2, <2>3, <2>4, IsAppend
  <2>6. QED
    BY <2>1, <2>5
<1>6. Append(<< >>, x) = <<x>>
  OBVIOUS
<1>7. QED
  BY <1>1, <1>5, <1>6

\* The type is found in the text of a TMut that has one, and a separator behind
\* it exactly if there is an attribute.
LEMMA TypeInText ==
  ASSUME NEW text, NEW type \in Types, NEW attrs \in AttrMap, NEW n, NEW order, NEW start,
         Laid(text, type, attrs, n, order, start)
  PROVE  LET end == FindFirstOf(text, {KSep}, 0)
         IN  /\ NodeType(Substr(text, 0, end)) = type
             /\ end = npos => n = 0
             /\ end # npos => n > 0 /\ end = start[1] /\ Cut(text, start[1])
<1>1. PICK len, name, end : len = Len(text) /\ name = KNodeTypesNames[type]
                            /\ end = FindFirstOf(text, {KSep}, 0)
  OBVIOUS
<1>2. /\ text \in Seq(Symbol) /\ len \in Nat /\ len > 0 /\ text[1] = name
      /\ n \in Nat /\ start[1] = 1 /\ start[n + 1] = len
  BY <1>1 DEF Laid
<1>3. name # KSep /\ name # KEsc
  <2>1. name \in Names
    BY <1>1 DEF Names, Range, Types
  <2>2. QED
    BY <2>1, Controls
<1>4. \/ end = npos /\ \A j \in 0 .. len - 1 : text[j + 1] \notin {KSep}
      \/ /\ end \in 0 .. len - 1 /\ text[end + 1] \in {KSep}
         /\ \A j \in 0 .. end - 1 : text[j + 1] \notin {KSep}
  BY <1>1, <1>2, FindFirstOfIs
<1>5. ASSUME n > 0
      PROVE  len > 1 /\ text[2] = KSep
  <2>1. 1 \in 1 .. n
    BY <1>2, <1>5
  <2>2. PICK a, b, d, o, value : PartAt(text, attrs, order, start, 1, a, b, d, o, value)
    BY <2>1, LaidPart
  <2>3. a = start[1] /\ b \in Nat /\ d \in Nat /\ b = a + 3 + d /\ b <= len /\ text[a + 1] = KSep
    BY <1>1, <2>2 DEF PartAt
  <2>4. a = 1 /\ a + 1 = 2
    BY <1>2, <2>3
  <2>5. QED
    BY <1>2, <2>3, <2>4
<1>6. CASE n = 0
  <2>1. len = 1
    BY <1>2, <1>6
  <2>2. end = npos
    <3>1. ASSUME end \in 0 .. len - 1, text[end + 1] \in {KSep}
          PROVE  FALSE
      <4>1. end = 0 /\ end + 1 = 1
        BY <2>1, <3>1
      <4>2. QED
        BY <1>2, <1>3, <3>1, <4>1
    <3>2. QED
      BY <1>4, <3>1
  <2>3. Substr(text, 0, end) = <<name>>
    <3>1. Substr(text, 0, end) = SubSeq(text, 1, 1)
      BY <1>1, <2>1, <2>2 DEF Substr
    <3>2. SubSeq(text, 1, 1) = <<name>>
      BY <1>1, <1>2, FirstOf
    <3>3. QED
      BY <3>1, <3>2
  <2>4. NodeType(<<name>>) = type
    BY <1>1, LookupFinds, TMutAssumption DEF NodeType, Types
  <2>5. QED
    BY <1>1, <1>6, <2>2, <2>3, <2>4
<1>7. CASE n > 0
  <2>1. len > 1 /\ text[2] = KSep
    BY <1>5, <1>7
  <2>2. 1 \in 0 .. len - 1 /\ 1 + 1 = 2
    BY <1>2, <2>1
  <2>3. end \in 0 .. len - 1 /\ text[end + 1] = KSep
        /\ \A j \in 0 .. end - 1 : text[j + 1] # KSep
    BY <1>4, <2>1, <2>2
  <2>4. end # 0
    <3>1. end = 0 => end + 1 = 1
      OBVIOUS
    <3>2. QED
      BY <1>2, <1>3, <2>3, <3>1
  <2>5. ASSUME end > 1
        PROVE  FALSE
    <3>1. 1 \in 0 .. end - 1
      BY <2>3, <2>5
    <3>2. QED
      BY <2>1, <2>2, <2>3, <3>1
  <2>6. end = 1
    BY <2>3, <2>4, <2>5
  <2>7. Substr(text, 0, end) = <<name>>
    <3>1. 1 # npos
      BY DEF npos
    <3>2. Substr(text, 0, end) = SubSeq(text, 1, 1)
      BY <2>6, <3>1 DEF Substr
    <3>3. SubSeq(text, 1, 1) = <<name>>
      BY <1>1, <1>2, FirstOf
    <3>4. QED
      BY <3>2, <3>3
  <2>8. NodeType(<<name>>) = type
    BY <1>1, LookupFinds, TMutAssumption DEF NodeType, Types
  <2>9. Cut(text, start[1])
    <3>1. 1 \in 1 .. len - 1
      BY <1>2, <2>1
    <3>2. QED
      BY <1>1, <1>2, <1>3, <2>1, <3>1 DEF Cut
  <2>10. end # npos
    BY <2>6 DEF npos
  <2>11. QED
    BY <1>1, <1>2, <1>7, <2>6, <2>7, <2>8, <2>9, <2>10
<1>8. QED
  BY <1>2, <1>6, <1>7

\* What SubSeq takes of a text.
LEMMA SameText ==
  ASSUME NEW S, NEW s \in Seq(S), NEW t \in Seq(S), NEW d, Len(s) = d, Len(t) = d,
         \A q \in 1 .. d : s[q] = t[q]
  PROVE  s = t
OBVIOUS

LEMMA SubSeqIs ==
  ASSUME NEW S, NEW s \in Seq(S), NEW i \in Nat \ {0}, NEW c \in Nat, i <= c + 1, c <= Len(s)
  PROVE  /\ SubSeq(s, i, c) \in Seq(S) /\ Len(SubSeq(s, i, c)) = c - i + 1
         /\ \A q \in 1 .. c - i + 1 : SubSeq(s, i, c)[q] = s[i + q - 1]
OBVIOUS

\* What lies between the starts of parts k and j, without the separator: it
\* begins with the name of an attribute, and holds behind it just the value of
\* that attribute if the parts follow each other.
Segment(text, start, k, j) == SubSeq(text, start[k] + 2, start[j])

SegmentReads(segment, attrs, order, k, j) ==
  /\ segment \in Seq(Symbol) /\ FindFirstOf(segment, {KAttrSep}, 0) = 1
  /\ NodeAttr(SubSeq(segment, 1, 1)) = order[k]
  /\ j = k + 1 => Substr(segment, 2, npos) = EscapeCtrls(attrs[order[k]])

LEMMA PartInText ==
  ASSUME NEW text, NEW type, NEW attrs \in AttrMap, NEW n, NEW order, NEW start,
         Laid(text, type, attrs, n, order, start), NEW k \in 1 .. n, NEW j \in 1 .. n + 1,
         k < j
  PROVE  SegmentReads(Segment(text, start, k, j), attrs, order, k, j)
<1>1. PICK a, b, d, o, value : PartAt(text, attrs, order, start, k, a, b, d, o, value)
  BY LaidPart
<1>2. /\ a \in Nat /\ a > 0 /\ b \in Nat /\ d \in Nat /\ o \in DOMAIN attrs
      /\ value \in Seq(Symbol) /\ a = start[k] /\ b = start[k + 1] /\ o = order[k]
      /\ value = EscapeCtrls(attrs[o]) /\ d = Len(value) /\ b = a + 3 + d
      /\ text[a + 2] = KNodeAttrsNames[o] /\ text[a + 3] = KAttrSep
      /\ \A q \in 1 .. d : text[a + 3 + q] = value[q]
  BY <1>1 DEF PartAt
<1>3. a \in Nat /\ a > 0 /\ b \in Nat /\ d \in Nat /\ b = a + 3 + d
  BY <1>2
<1>4. PICK c, len : c = start[j] /\ len = Len(text)
  OBVIOUS
<1>5. n \in Nat /\ start \in [1 .. n + 1 -> Nat] /\ text \in Seq(Symbol) /\ start[n + 1] = len
  BY <1>4 DEF Laid
<1>6. /\ k \in Nat /\ j \in Nat /\ k + 1 \in 1 .. n + 1 /\ j \in 1 .. n + 1 /\ n + 1 \in 1 .. n + 1
      /\ j = k + 1 \/ k + 1 < j
  BY <1>5
<1>7. c \in Nat /\ b <= c /\ len \in Nat /\ c <= len
  <2>1. c \in Nat /\ len \in Nat
    BY <1>4, <1>5, <1>6
  <2>2. b <= c
    <3>1. CASE j = k + 1
      <4>1. c = b
        BY <1>2, <1>4, <3>1
      <4>2. QED
        BY <1>3, <4>1
    <3>2. CASE k + 1 < j
      <4>1. start[k + 1] < start[j]
        BY <1>6, <3>2, StartsAscend
      <4>2. b < c
        BY <1>2, <1>4, <4>1
      <4>3. QED
        BY <1>3, <2>1, <4>2
    <3>3. QED
      BY <1>6, <3>1, <3>2
  <2>3. c <= len
    <3>1. j = n + 1 \/ j < n + 1
      BY <1>5, <1>6
    <3>2. CASE j = n + 1
      BY <1>4, <1>5, <2>1, <3>2
    <3>3. CASE j < n + 1
      <4>1. start[j] < start[n + 1]
        BY <1>6, <3>3, StartsAscend
      <4>2. QED
        BY <1>4, <1>5, <2>1, <4>1
    <3>4. QED
      BY <3>1, <3>2, <3>3
  <2>4. QED
    BY <2>1, <2>2, <2>3
<1>8. PICK part, m, p : part = SubSeq(text, p, c) /\ m = Len(part) /\ p = a + 2
  OBVIOUS
<1>9. p \in Nat /\ p > 0 /\ p <= c
  BY <1>3, <1>7, <1>8
<1>10. part \in Seq(Symbol) /\ m = c - p + 1 /\ \A q \in 1 .. c - p + 1 : part[q] = text[p + q - 1]
  <2>1. p <= c + 1 /\ c <= Len(text) /\ text \in Seq(Symbol) /\ c \in Nat /\ p \in Nat \ {0}
    BY <1>4, <1>5, <1>7, <1>9
  <2>2. /\ SubSeq(text, p, c) \in Seq(Symbol) /\ Len(SubSeq(text, p, c)) = c - p + 1
        /\ \A q \in 1 .. c - p + 1 : SubSeq(text, p, c)[q] = text[p + q - 1]
    BY <2>1, SubSeqIs
  <2>3. QED
    BY <1>8, <2>2
<1>11. m = c - a - 1 /\ m \in Nat /\ m >= 2 + d
  BY <1>3, <1>7, <1>8, <1>9, <1>10
<1>12. m > 0 /\ 3 <= m + 1
  BY <1>3, <1>11
<1>13. ASSUME NEW q \in 1 .. m
       PROVE  part[q] = text[a + 1 + q]
  <2>1. p + q - 1 = a + 1 + q /\ q \in 1 .. c - p + 1
    BY <1>3, <1>8, <1>10, <1>11
  <2>2. QED
    BY <1>10, <2>1
<1>14. PICK name : name = KNodeAttrsNames[o]
  OBVIOUS
<1>15. name # KAttrSep /\ o \in Attrs
  <2>1. o \in Attrs
    BY <1>2, AttrMapIs
  <2>2. name \in Names
    BY <1>14, <2>1 DEF Names, Range, Attrs
  <2>3. QED
    BY <2>1, <2>2, Controls
<1>16. part[1] = name /\ part[2] = KAttrSep
  <2>1. 1 \in 1 .. m /\ 2 \in 1 .. m /\ a + 1 + 1 = a + 2 /\ a + 1 + 2 = a + 3
    BY <1>2, <1>11
  <2>2. QED
    BY <1>2, <1>13, <1>14, <2>1
<1>17. FindFirstOf(part, {KAttrSep}, 0) = 1
  <2>1. PICK end : end = FindFirstOf(part, {KAttrSep}, 0)
    OBVIOUS
  <2>2. \/ end = npos /\ \A i \in 0 .. m - 1 : part[i + 1] \notin {KAttrSep}
        \/ /\ end \in 0 .. m - 1 /\ part[end + 1] \in {KAttrSep}
           /\ \A i \in 0 .. end - 1 : part[i + 1] \notin {KAttrSep}
    BY <1>8, <1>10, <2>1, FindFirstOfIs
  <2>3. 1 \in 0 .. m - 1 /\ 1 + 1 = 2
    BY <1>2, <1>11
  <2>4. end \in 0 .. m - 1 /\ part[end + 1] = KAttrSep
        /\ \A i \in 0 .. end - 1 : part[i + 1] # KAttrSep
    BY <1>16, <2>2, <2>3
  <2>5. end # 0
    <3>1. end = 0 => end + 1 = 1
      OBVIOUS
    <3>2. QED
      BY <1>15, <1>16, <2>4, <3>1
  <2>6. ASSUME end > 1
        PROVE  FALSE
    <3>1. 1 \in 0 .. end - 1
      BY <1>11, <2>4, <2>6
    <3>2. QED
      BY <1>16, <2>3, <2>4, <3>1
  <2>7. end = 1
    BY <1>11, <2>4, <2>5, <2>6
  <2>8. QED
    BY <2>1, <2>7
<1>18. NodeAttr(SubSeq(part, 1, 1)) = o
  <2>1. SubSeq(part, 1, 1) = <<name>>
    <3>1. Len(part) = m /\ m > 0
      BY <1>8, <1>12
    <3>2. QED
      BY <1>10, <1>16, <3>1, FirstOf
  <2>2. NodeAttr(<<name>>) = o
    BY <1>14, <1>15, LookupFinds, TMutAssumption DEF NodeAttr, Attrs
  <2>3. QED
    BY <2>1, <2>2
<1>19. ASSUME j = k + 1
       PROVE  Substr(part, 2, npos) = value
  <2>1. m = 2 + d
    <3>1. c = b
      BY <1>2, <1>4, <1>19
    <3>2. QED
      BY <1>3, <1>11, <3>1
  <2>2. PICK read : read = SubSeq(part, 3, m)
    OBVIOUS
  <2>3. read \in Seq(Symbol) /\ Len(read) = d /\ \A q \in 1 .. d : read[q] = part[q + 2]
    <3>1. read \in Seq(Symbol) /\ Len(read) = m - 3 + 1 /\ \A q \in 1 .. m - 3 + 1 : read[q] = part[3 + q - 1]
      <4>1. m \in Nat /\ 3 \in Nat \ {0} /\ 3 <= m + 1 /\ m <= Len(part)
        <5>1. Len(part) = m
          BY <1>8
        <5>2. QED
          BY <1>11, <1>12, <5>1
      <4>2. QED
        BY <1>10, <2>2, <4>1, SubSeqIs
    <3>2. m - 3 + 1 = d
      BY <1>3, <1>11, <2>1
    <3>3. \A q \in 1 .. d : 3 + q - 1 = q + 2
      BY <1>3
    <3>4. QED
      BY <3>1, <3>2, <3>3
  <2>4. ASSUME NEW q \in 1 .. d
        PROVE  read[q] = value[q]
    <3>1. q + 2 \in 1 .. m /\ a + 1 + (q + 2) = a + 3 + q
      BY <1>3, <2>1
    <3>2. part[q + 2] = text[a + 1 + (q + 2)]
      BY <1>13, <3>1
    <3>3. QED
      BY <1>2, <2>3, <3>1, <3>2
  <2>5. read = value
    <3>1. value \in Seq(Symbol) /\ Len(value) = d
      BY <1>2
    <3>2. read \in Seq(Symbol) /\ Len(read) = d
      BY <2>3
    <3>3. QED
      BY <2>4, <3>1, <3>2, SameText
  <2>6. Substr(part, 2, npos) = read
    <3>1. 2 + 1 = 3
      OBVIOUS
    <3>2. Substr(part, 2, npos) = SubSeq(part, 2 + 1, m)
      BY <1>8 DEF Substr
    <3>3. QED
      BY <2>2, <3>1, <3>2
  <2>7. QED
    BY <2>5, <2>6
<1>20. Segment(text, start, k, j) = part
  BY <1>2, <1>4, <1>8 DEF Segment
<1>21. QED
  BY <1>2, <1>10, <1>17, <1>18, <1>19, <1>20 DEF SegmentReads

-----------------------------------------------------------------------------
\* A constructor that parses the text of a TMut.

\* It has the attributes whose parts are before part k and start with a cut,
\* and of those the values that it read alone.
Taken(n, order, start, k) ==
  /\ \A a : a \in DOMAIN mAttrs <=> \E i \in 1 .. k - 1 : order[i] = a /\ Cut(aSpec, start[i])
  /\ \A i \in 1 .. k - 1 :
       Cut(aSpec, start[i]) /\ (i = n \/ Cut(aSpec, start[i + 1])) =>
         mAttrs[order[i]] = DeEscCtrls(EscapeCtrls(origin.mAttrs[order[i]]))

Uncut(p, q) == \A r \in p .. q : ~Cut(aSpec, r)

\* Part k is the next one that it reads, or reads now.
Reads(n, order, start, k) ==
  /\ Laid(aSpec, origin.mType, origin.mAttrs, n, order, start)
  /\ k \in 1 .. n + 1 /\ Taken(n, order, start, k)
  /\ pc \in {"type", "sep", "attr", "done"}
  /\ pc = "type" => k = 1
  /\ pc # "type" => mType = origin.mType
  /\ pc \in {"sep", "attr"} =>
       k \in 1 .. n /\ Cut(aSpec, start[k]) /\ attr_beg = start[k] + 1
  /\ pc = "sep" => Uncut(attr_beg, attr_mid - 1)
  /\ pc = "attr" =>
       \/ attr_end = npos /\ Uncut(attr_beg, Len(aSpec) - 1)
       \/ attr_end # npos /\ Cut(aSpec, attr_end) /\ Uncut(attr_beg, attr_end - 1)
  /\ pc = "done" => k = n + 1

OwnInv ==
  origin.some =>
    /\ aSpec = ToText(origin.mType, origin.mAttrs)
    /\ origin.mType = ENt_Unknown => pc \in {"type", "throws"}
    /\ origin.mType # ENt_Unknown => \E n, order, start, k : Reads(n, order, start, k)

LEMMA OwnThrough ==
  ASSUME TypeInv, Through
  PROVE  OwnInv'
<1>1. /\ origin' = [mType |-> mType, mAttrs |-> mAttrs, some |-> TRUE]
      /\ aSpec' = ToText(mType, mAttrs) /\ mAttrs' = NoAttrs /\ pc' = "type"
  BY DEF Through
<1>2. mType \in Types \cup {ENt_Unknown} /\ mAttrs \in AttrMap
  BY DEF TypeInv
<1>3. aSpec' = ToText(origin.mType, origin.mAttrs)'
  BY <1>1
<1>4. ASSUME origin'.mType # ENt_Unknown
      PROVE  \E n, order, start, k : Reads(n, order, start, k)'
  <2>1. mType \in Types
    BY <1>1, <1>2, <1>4
  <2>2. PICK n, order, start : Laid(aSpec', mType, mAttrs, n, order, start)
    BY <1>1, <1>2, <2>1, TextIsLaid
  <2>3. Laid(aSpec, origin.mType, origin.mAttrs, n, order, start)'
    <3>1. origin'.mType = mType /\ origin'.mAttrs = mAttrs
      BY <1>1
    <3>2. QED
      BY <2>2, <3>1 DEF Laid
  <2>4. Taken(n, order, start, 1)'
    <3>1. DOMAIN mAttrs' = {} /\ 1 .. 1 - 1 = {}
      BY <1>1 DEF NoAttrs
    <3>2. QED
      BY <3>1 DEF Taken
  <2>5. 1 \in 1 .. n + 1
    BY <2>2 DEF Laid
  <2>6. Reads(n, order, start, 1)'
    BY <1>1, <2>3, <2>4, <2>5 DEF Reads
  <2>7. QED
    BY <2>6
<1>5. QED
  BY <1>1, <1>3, <1>4 DEF OwnInv

LEMMA OwnParseType ==
  ASSUME TypeInv, OwnInv, ParseType
  PROVE  OwnInv'
<1> SUFFICES ASSUME origin'.some
             PROVE  /\ aSpec' = ToText(origin'.mType, origin'.mAttrs)
                    /\ origin'.mType = ENt_Unknown => pc' \in {"type", "throws"}
                    /\ origin'.mType # ENt_Unknown =>
                         \E n, order, start, k : Reads(n, order, start, k)'
  BY DEF OwnInv
<1>1. PICK end, type : end = FindFirstOf(aSpec, {KSep}, 0) /\ type = NodeType(Substr(aSpec, 0, end))
  OBVIOUS
<1>2. /\ mType' = type /\ attr_beg' = end + 1 /\ attr_mid' = end + 1 /\ attr_end' = end
      /\ pc' = IF type = ENt_Unknown THEN "throws" ELSE IF end = npos THEN "done" ELSE "sep"
      /\ mAttrs' = mAttrs /\ aSpec' = aSpec /\ origin' = origin /\ pc = "type"
  BY <1>1 DEF ParseType
<1>3. /\ aSpec = ToText(origin.mType, origin.mAttrs)
      /\ origin.mType # ENt_Unknown => \E n, order, start, k : Reads(n, order, start, k)
  BY <1>2 DEF OwnInv
<1>4. origin.mType \in Types \cup {ENt_Unknown} /\ origin.mAttrs \in AttrMap
  BY DEF TypeInv, Origins
<1>5. CASE origin.mType = ENt_Unknown
  <2>1. type = ENt_Unknown
    BY <1>1, <1>3, <1>4, <1>5, NoTypeInText
  <2>2. QED
    BY <1>2, <1>3, <1>5, <2>1
<1>6. CASE origin.mType # ENt_Unknown
  <2>1. PICK n, order, start, k : Reads(n, order, start, k)
    BY <1>3, <1>6
  <2>2. /\ Laid(aSpec, origin.mType, origin.mAttrs, n, order, start)
        /\ k = 1 /\ k \in 1 .. n + 1 /\ Taken(n, order, start, k)
    BY <1>2, <2>1 DEF Reads
  <2>3. origin.mType \in Types
    BY <1>4, <1>6
  <2>4. /\ type = origin.mType
        /\ end = npos => n = 0
        /\ end # npos => n > 0 /\ end = start[1] /\ Cut(aSpec, start[1])
    BY <1>1, <1>4, <2>2, <2>3, TypeInText
  <2>5. pc' = IF end = npos THEN "done" ELSE "sep"
    BY <1>2, <1>6, <2>4
  <2>6. n \in Nat /\ start[1] = 1
    BY <2>2 DEF Laid
  <2>7. Laid(aSpec, origin.mType, origin.mAttrs, n, order, start)'
    BY <1>2, <2>2 DEF Laid
  <2>8. Taken(n, order, start, k)'
    BY <1>2, <2>2 DEF Taken
  <2>9. pc' = "done" => k = n + 1
    BY <2>2, <2>4, <2>5, <2>6
  <2>10. pc' = "sep" => /\ k \in 1 .. n /\ Cut(aSpec, start[k])' /\ attr_beg' = start[k] + 1
                        /\ Uncut(attr_beg, attr_mid - 1)'
    <3> SUFFICES ASSUME pc' = "sep"
                 PROVE  /\ k \in 1 .. n /\ Cut(aSpec, start[k])' /\ attr_beg' = start[k] + 1
                        /\ Uncut(attr_beg, attr_mid - 1)'
      OBVIOUS
    <3>1. end # npos
      BY <2>5
    <3>2. n > 0 /\ end = 1 /\ Cut(aSpec, start[1])
      BY <2>4, <2>6, <3>1
    <3>3. attr_beg' = 2 /\ attr_mid' = 2
      BY <1>2, <3>2
    <3>4. Uncut(attr_beg, attr_mid - 1)'
      <4>1. 2 .. 2 - 1 = {}
        OBVIOUS
      <4>2. QED
        BY <3>3, <4>1 DEF Uncut
    <3>5. k \in 1 .. n
      BY <2>2, <2>6, <3>2
    <3>6. Cut(aSpec, start[k])'
      BY <1>2, <2>2, <3>2 DEF Cut
    <3>7. QED
      BY <2>2, <2>6, <3>3, <3>4, <3>5, <3>6
  <2>11. pc' \in {"done", "sep"}
    BY <2>5
  <2>12. mType' = origin'.mType
    BY <1>2, <2>4
  <2>13. Reads(n, order, start, k)'
    BY <2>2, <2>7, <2>8, <2>9, <2>10, <2>11, <2>12 DEF Reads
  <2>14. QED
    BY <1>2, <1>3, <1>6, <2>13
<1>7. QED
  BY <1>5, <1>6

LEMMA OwnFindSep ==
  ASSUME TypeInv, OwnInv, FindSep
  PROVE  OwnInv'
<1> SUFFICES ASSUME origin'.some
             PROVE  /\ aSpec' = ToText(origin'.mType, origin'.mAttrs)
                    /\ origin'.mType = ENt_Unknown => pc' \in {"type", "throws"}
                    /\ origin'.mType # ENt_Unknown =>
                         \E n, order, start, k : Reads(n, order, start, k)'
  BY DEF OwnInv
<1>1. PICK len, sep : len = Len(aSpec) /\ sep = FindFirstOf(aSpec, {KSep}, attr_mid)
  OBVIOUS
<1>2. /\ attr_end' = sep /\ attr_mid' = sep + 1 /\ attr_beg' = attr_beg
      /\ pc' = IF sep # npos /\ aSpec[sep] = KEsc THEN "sep" ELSE "attr"
      /\ mType' = mType /\ mAttrs' = mAttrs /\ aSpec' = aSpec /\ origin' = origin /\ pc = "sep"
  BY <1>1 DEF FindSep
<1>3. /\ aSpec = ToText(origin.mType, origin.mAttrs)
      /\ origin.mType # ENt_Unknown
      /\ \E n, order, start, k : Reads(n, order, start, k)
  BY <1>2 DEF OwnInv
<1>4. PICK n, order, start, k : Reads(n, order, start, k)
  BY <1>3
<1>5. /\ Laid(aSpec, origin.mType, origin.mAttrs, n, order, start)
      /\ k \in 1 .. n + 1 /\ Taken(n, order, start, k)
      /\ k \in 1 .. n /\ Cut(aSpec, start[k]) /\ attr_beg = start[k] + 1
      /\ Uncut(attr_beg, attr_mid - 1) /\ mType = origin.mType
  BY <1>2, <1>4 DEF Reads
<1>6. /\ len \in Nat /\ aSpec \in Seq(Symbol) /\ attr_mid \in Nat /\ attr_mid <= len
      /\ attr_beg \in Nat /\ attr_beg <= attr_mid
  BY <1>1, <1>2 DEF TypeInv
<1>7. attr_beg > 0
  <2>1. start[k] \in 1 .. len - 1
    BY <1>1, <1>5 DEF Cut
  <2>2. QED
    BY <1>5, <1>6, <2>1
<1>8. \/ sep = npos /\ \A j \in attr_mid .. len - 1 : aSpec[j + 1] \notin {KSep}
      \/ /\ sep \in attr_mid .. len - 1 /\ aSpec[sep + 1] \in {KSep}
         /\ \A j \in attr_mid .. sep - 1 : aSpec[j + 1] \notin {KSep}
  BY <1>1, <1>6, FindFirstOfIs
<1>9. ASSUME NEW r \in attr_beg .. len - 1, Cut(aSpec, r)
      PROVE  r \in attr_mid .. len - 1 /\ aSpec[r + 1] = KSep
  <2>1. r \notin attr_beg .. attr_mid - 1
    BY <1>5, <1>9 DEF Uncut
  <2>2. r \in attr_mid .. len - 1
    BY <1>6, <2>1
  <2>3. QED
    BY <1>9, <2>2 DEF Cut
<1>10. pc' = "sep" => Uncut(attr_beg, attr_mid - 1)'
  <2> SUFFICES ASSUME pc' = "sep", NEW r \in attr_beg .. sep, Cut(aSpec, r)
               PROVE  FALSE
    <3>1. sep \in Int
      BY <1>6, <1>8 DEF npos
    <3>2. attr_mid' = sep + 1
      BY <1>2
    <3>3. attr_mid' - 1 = sep
      BY <3>1, <3>2
    <3>4. attr_beg' = attr_beg /\ aSpec' = aSpec
      BY <1>2
    <3>5. QED
      BY <3>3, <3>4 DEF Uncut, Cut
  <2>1. sep # npos /\ aSpec[sep] = KEsc
    BY <1>2
  <2>2. sep \in attr_mid .. len - 1 /\ \A j \in attr_mid .. sep - 1 : aSpec[j + 1] # KSep
    BY <1>8, <2>1
  <2>3. r # sep
    BY <2>1 DEF Cut
  <2>4. r \in attr_beg .. len - 1
    BY <1>6, <2>2
  <2>5. r \in attr_mid .. len - 1 /\ aSpec[r + 1] = KSep
    BY <1>9, <2>4
  <2>6. r \in attr_mid .. sep - 1
    BY <1>6, <2>2, <2>3, <2>5
  <2>7. QED
    BY <2>2, <2>5, <2>6
<1>11. pc' = "attr" =>
         \/ attr_end' = npos /\ Uncut(attr_beg, Len(aSpec) - 1)'
         \/ attr_end' # npos /\ Cut(aSpec, attr_end)' /\ Uncut(attr_beg, attr_end - 1)'
  <2> SUFFICES ASSUME pc' = "attr"
               PROVE  \/ attr_end' = npos /\ Uncut(attr_beg, Len(aSpec) - 1)'
                      \/ attr_end' # npos /\ Cut(aSpec, attr_end)' /\ Uncut(attr_beg, attr_end - 1)'
    OBVIOUS
  <2>1. CASE sep = npos
    <3>1. \A j \in attr_mid .. len - 1 : aSpec[j + 1] # KSep
      BY <1>6, <1>8, <2>1 DEF npos
    <3>2. ASSUME NEW r \in attr_beg .. len - 1
          PROVE  ~Cut(aSpec, r)
      BY <1>9, <3>1
    <3>3. Uncut(attr_beg, Len(aSpec) - 1)'
      BY <1>1, <1>2, <3>2 DEF Uncut, Cut
    <3>4. QED
      BY <1>2, <2>1, <3>3
  <2>2. CASE sep # npos
    <3>1. /\ sep \in attr_mid .. len - 1 /\ aSpec[sep + 1] = KSep
          /\ \A j \in attr_mid .. sep - 1 : aSpec[j + 1] # KSep
      BY <1>8, <2>2
    <3>2. aSpec[sep] # KEsc
      BY <1>2, <2>2
    <3>3. sep \in 1 .. len - 1
      BY <1>6, <1>7, <3>1
    <3>4. Cut(aSpec, attr_end)'
      BY <1>1, <1>2, <3>1, <3>2, <3>3 DEF Cut
    <3>5. ASSUME NEW r \in attr_beg .. sep - 1
          PROVE  ~Cut(aSpec, r)
      <4>1. r \in attr_beg .. len - 1
        BY <1>6, <3>1
      <4>2. ASSUME Cut(aSpec, r)
            PROVE  FALSE
        <5>1. r \in attr_mid .. len - 1 /\ aSpec[r + 1] = KSep
          BY <1>9, <4>1, <4>2
        <5>2. r \in attr_mid .. sep - 1
          BY <1>6, <3>1, <5>1
        <5>3. QED
          BY <3>1, <5>1, <5>2
      <4>3. QED
        BY <4>2
    <3>6. Uncut(attr_beg, attr_end - 1)'
      BY <1>2, <3>5 DEF Uncut, Cut
    <3>7. QED
      BY <1>2, <2>2, <3>4, <3>6
  <2>3. QED
    BY <2>1, <2>2
<1>12. pc' \in {"sep", "attr"}
  BY <1>2
<1>13. Laid(aSpec, origin.mType, origin.mAttrs, n, order, start)'
  BY <1>2, <1>5 DEF Laid
<1>14. Taken(n, order, start, k)' /\ Cut(aSpec, start[k])'
  BY <1>2, <1>5 DEF Taken, Cut
<1>15. mType' = origin'.mType /\ attr_beg' = start[k] + 1
  BY <1>2, <1>5
<1>16. Reads(n, order, start, k)'
  BY <1>5, <1>10, <1>11, <1>12, <1>13, <1>14, <1>15 DEF Reads
<1>17. QED
  BY <1>2, <1>3, <1>16

LEMMA OwnParseAttr ==
  ASSUME TypeInv, OwnInv, ParseAttr
  PROVE  OwnInv'
<1> SUFFICES ASSUME origin'.some
             PROVE  /\ aSpec' = ToText(origin'.mType, origin'.mAttrs)
                    /\ origin'.mType = ENt_Unknown => pc' \in {"type", "throws"}
                    /\ origin'.mType # ENt_Unknown =>
                         \E n, order, start, k : Reads(n, order, start, k)'
  BY DEF OwnInv
<1>1. PICK len, part, end, attr, value :
        /\ len = Len(aSpec) /\ part = Substr(aSpec, attr_beg, attr_end)
        /\ end = FindFirstOf(part, {KAttrSep}, 0)
        /\ attr = IF end = npos THEN ENa_Unknown ELSE NodeAttr(SubSeq(part, 1, end))
        /\ value = DeEscCtrls(Substr(part, end + 1, npos))
  OBVIOUS
<1>2. /\ mType' = mType /\ aSpec' = aSpec /\ attr_end' = attr_end /\ origin' = origin /\ pc = "attr"
      /\ attr # ENa_Unknown =>
           /\ mAttrs' = WithAttr(mAttrs, attr, value)
           /\ attr_beg' = attr_end + 1 /\ attr_mid' = attr_end + 1
           /\ pc' = IF attr_end = npos THEN "done" ELSE "sep"
  BY <1>1 DEF ParseAttr
<1>3. /\ aSpec = ToText(origin.mType, origin.mAttrs)
      /\ origin.mType # ENt_Unknown
      /\ \E n, order, start, k : Reads(n, order, start, k)
  BY <1>2 DEF OwnInv
<1>4. PICK n, order, start, k : Reads(n, order, start, k)
  BY <1>3
<1>5. /\ Laid(aSpec, origin.mType, origin.mAttrs, n, order, start)
      /\ k \in 1 .. n + 1 /\ Taken(n, order, start, k)
      /\ k \in 1 .. n /\ Cut(aSpec, start[k]) /\ attr_beg = start[k] + 1 /\ mType = origin.mType
      /\ \/ attr_end = npos /\ Uncut(attr_beg, len - 1)
         \/ attr_end # npos /\ Cut(aSpec, attr_end) /\ Uncut(attr_beg, attr_end - 1)
  BY <1>1, <1>2, <1>4 DEF Reads
<1>6. /\ len \in Nat /\ aSpec \in Seq(Symbol) /\ attr_beg \in Nat /\ attr_end \in npos .. len - 1
      /\ attr_end = npos \/ attr_beg <= attr_end
      /\ mAttrs \in AttrMap /\ origin.mAttrs \in AttrMap
  BY <1>1, <1>2 DEF TypeInv, Origins
<1>7. /\ n \in Nat /\ order \in [1 .. n -> DOMAIN origin.mAttrs] /\ Increasing(order, n)
      /\ start \in [1 .. n + 1 -> Nat] /\ start[n + 1] = len
  BY <1>1, <1>5 DEF Laid
<1>8. k \in Nat /\ k \in 1 .. n + 1 /\ n + 1 \in 1 .. n + 1
  BY <1>5, <1>7
<1>9. ASSUME NEW i \in 1 .. n + 1, i > k
      PROVE  start[i] \in Nat /\ start[i] >= attr_beg
  <2>1. start[k] < start[i]
    BY <1>5, <1>6, <1>8, <1>9, StartsAscend
  <2>2. start[i] \in Nat /\ start[k] \in Nat
    BY <1>7, <1>8
  <2>3. QED
    BY <1>5, <2>1, <2>2
\* The part ends where part j starts; the parts between have no cut.
<1>10. \E j \in k + 1 .. n + 1 :
         /\ attr_end = npos => j = n + 1
         /\ attr_end # npos => j \in 1 .. n /\ attr_end = start[j] /\ Cut(aSpec, start[j])
         /\ \A i \in k + 1 .. j - 1 : ~Cut(aSpec, start[i])
  <2>1. CASE attr_end = npos
    <3>1. ASSUME NEW i \in k + 1 .. n, Cut(aSpec, start[i])
          PROVE  FALSE
      <4>1. i \in 1 .. n + 1 /\ i > k
        BY <1>7, <1>8
      <4>2. start[i] \in Nat /\ start[i] >= attr_beg
        BY <1>9, <4>1
      <4>3. start[i] \in 1 .. len - 1
        BY <1>1, <3>1 DEF Cut
      <4>4. start[i] \in attr_beg .. len - 1
        BY <1>6, <4>2, <4>3
      <4>5. QED
        BY <1>5, <2>1, <3>1, <4>4 DEF Uncut
    <3>2. PICK j : j = n + 1
      OBVIOUS
    <3>3. j \in k + 1 .. n + 1 /\ j - 1 = n
      BY <1>5, <1>7, <1>8, <3>2
    <3>4. \A i \in k + 1 .. j - 1 : ~Cut(aSpec, start[i])
      BY <3>1, <3>3
    <3>5. QED
      BY <2>1, <3>2, <3>3, <3>4
  <2>2. CASE attr_end # npos
    <3>1. Cut(aSpec, attr_end) /\ Uncut(attr_beg, attr_end - 1) /\ attr_beg <= attr_end
      BY <1>5, <1>6, <2>2
    <3>2. PICK j \in 1 .. n : attr_end = start[j]
      BY <1>5, <1>6, <3>1, CutsAreStarts
    <3>3. j \in Nat /\ j \in 1 .. n + 1
      BY <1>7
    <3>4. start[j] \in Nat /\ start[k] \in Nat
      BY <1>7, <1>8, <3>3
    <3>5. start[k] < start[j]
      BY <1>5, <3>1, <3>2, <3>4
    <3>6. j > k
      <4>1. ASSUME j < k
            PROVE  FALSE
        <5>1. start[j] < start[k]
          BY <1>5, <1>6, <1>8, <3>3, <4>1, StartsAscend
        <5>2. QED
          BY <3>4, <3>5, <5>1
      <4>2. j # k
        BY <3>4, <3>5
      <4>3. QED
        BY <1>8, <3>3, <4>1, <4>2
    <3>7. j \in k + 1 .. n + 1
      BY <1>8, <3>3, <3>6
    <3>8. ASSUME NEW i \in k + 1 .. j - 1, Cut(aSpec, start[i])
          PROVE  FALSE
      <4>1. i \in 1 .. n + 1 /\ i > k /\ i < j
        BY <1>7, <1>8, <3>3
      <4>2. start[i] \in Nat /\ start[i] >= attr_beg
        BY <1>9, <4>1
      <4>3. start[i] < start[j]
        BY <1>5, <1>6, <3>3, <4>1, StartsAscend
      <4>4. start[i] \in attr_beg .. attr_end - 1
        BY <1>6, <3>2, <3>4, <4>2, <4>3
      <4>5. QED
        BY <3>1, <3>8, <4>4 DEF Uncut
    <3>9. QED
      BY <2>2, <3>1, <3>2, <3>7, <3>8
  <2>3. QED
    BY <2>1, <2>2
<1>11. PICK j \in k + 1 .. n + 1 :
         /\ attr_end = npos => j = n + 1
         /\ attr_end # npos => j \in 1 .. n /\ attr_end = start[j] /\ Cut(aSpec, start[j])
         /\ \A i \in k + 1 .. j - 1 : ~Cut(aSpec, start[i])
  BY <1>10
<1>12. j \in Nat /\ j > k /\ j \in 1 .. n + 1 /\ k \in 1 .. j - 1
  BY <1>7, <1>8
<1>13. PICK o : o = order[k]
  OBVIOUS
<1>14. o \in DOMAIN origin.mAttrs /\ o \in Attrs /\ o # ENa_Unknown
  <2>1. o \in DOMAIN origin.mAttrs
    BY <1>5, <1>7, <1>13
  <2>2. o \in Attrs
    BY <1>6, <2>1, AttrMapIs
  <2>3. QED
    BY <2>1, <2>2, TMutAssumption
<1>15. part = SubSeq(aSpec, start[k] + 2, start[j])
  <2>1. start[k] \in Nat
    BY <1>7, <1>8
  <2>2. attr_beg + 1 = start[k] + 2
    BY <1>5, <2>1
  <2>3. (IF attr_end = npos THEN Len(aSpec) ELSE attr_end) = start[j]
    BY <1>1, <1>7, <1>11
  <2>4. QED
    BY <1>1, <2>2, <2>3 DEF Substr
<1>16. /\ part \in Seq(Symbol) /\ FindFirstOf(part, {KAttrSep}, 0) = 1
       /\ NodeAttr(SubSeq(part, 1, 1)) = o
       /\ j = k + 1 => Substr(part, 2, npos) = EscapeCtrls(origin.mAttrs[o])
  <2>1. PICK type, attrs : type = origin.mType /\ attrs = origin.mAttrs
    OBVIOUS
  <2>2. attrs \in AttrMap /\ k \in 1 .. n /\ Laid(aSpec, type, attrs, n, order, start)
    BY <1>5, <1>6, <2>1
  <2>3. SegmentReads(Segment(aSpec, start, k, j), attrs, order, k, j)
    <3>1. k < j /\ j \in 1 .. n + 1
      BY <1>8, <1>12
    <3>2. QED
      BY <2>2, <3>1, PartInText
  <2>4. part = Segment(aSpec, start, k, j)
    BY <1>15 DEF Segment
  <2>5. QED
    BY <1>13, <2>1, <2>3, <2>4 DEF SegmentReads
<1>17. end = 1 /\ end # npos /\ end + 1 = 2 /\ attr = o
  <2>1. end = 1
    BY <1>1, <1>16
  <2>2. end # npos /\ end + 1 = 2
    BY <2>1 DEF npos
  <2>3. attr = NodeAttr(SubSeq(part, 1, 1))
    BY <1>1, <2>1, <2>2
  <2>4. QED
    BY <1>16, <2>1, <2>2, <2>3
<1>18. j = k + 1 => value = DeEscCtrls(EscapeCtrls(origin.mAttrs[o]))
  BY <1>1, <1>16, <1>17
<1>19. value \in Seq(Symbol)
  <2>1. Substr(part, 2, npos) \in Seq(Symbol)
    BY <1>16, SubstrIs
  <2>2. QED
    BY <1>1, <1>17, <2>1, DeEscsIs
<1>20. /\ DOMAIN mAttrs' = DOMAIN mAttrs \cup {o} /\ mAttrs'[o] = value
       /\ \A a \in DOMAIN mAttrs : a # o => mAttrs'[a] = mAttrs[a]
  <2>1. PICK more : more = WithAttr(mAttrs, o, value)
    OBVIOUS
  <2>2. mAttrs' = more
    BY <1>2, <1>14, <1>17, <2>1
  <2>3. /\ DOMAIN more = DOMAIN mAttrs \cup {o} /\ more[o] = value
        /\ \A a \in DOMAIN mAttrs : a # o => more[a] = mAttrs[a]
    <3>1. mAttrs \in AttrMap /\ o \in Attrs
      BY <1>6, <1>14
    <3>2. LET m == WithAttr(mAttrs, o, value)
          IN  /\ m \in AttrMap /\ DOMAIN m = DOMAIN mAttrs \cup {o}
              /\ m[o] = value
              /\ \A a \in DOMAIN mAttrs : a # o => m[a] = mAttrs[a]
      BY <1>19, <3>1, WithAttrIs, Zenon
    <3>3. QED
      BY <2>1, <3>2
  <2>4. QED
    BY <2>2, <2>3
<1>21. Taken(n, order, start, j)'
  <2>1. ASSUME NEW a
        PROVE  a \in DOMAIN mAttrs' <=> \E i \in 1 .. j - 1 : order[i] = a /\ Cut(aSpec, start[i])
    <3>1. a \in DOMAIN mAttrs <=> \E i \in 1 .. k - 1 : order[i] = a /\ Cut(aSpec, start[i])
      BY <1>5 DEF Taken
    <3>2. \A i \in 1 .. k - 1 : i \in 1 .. j - 1
      BY <1>8, <1>12
    <3>3. \A i \in 1 .. j - 1 : i \in 1 .. k - 1 \/ i = k \/ i \in k + 1 .. j - 1
      BY <1>8, <1>12
    <3>4. \A i \in 1 .. j - 1 : Cut(aSpec, start[i]) => i \in 1 .. k - 1 \/ i = k
      BY <1>11, <3>3
    <3>5. QED
      BY <1>5, <1>12, <1>13, <1>20, <3>1, <3>2, <3>4
  <2>2. ASSUME NEW i \in 1 .. j - 1, Cut(aSpec, start[i]), i = n \/ Cut(aSpec, start[i + 1])
        PROVE  mAttrs'[order[i]] = DeEscCtrls(EscapeCtrls(origin.mAttrs[order[i]]))
    <3>1. i \in 1 .. k - 1 \/ i = k
      <4>1. i \in 1 .. k - 1 \/ i = k \/ i \in k + 1 .. j - 1
        BY <1>8, <1>12
      <4>2. QED
        BY <1>11, <2>2, <4>1
    <3>2. CASE i \in 1 .. k - 1
      <4>1. mAttrs[order[i]] = DeEscCtrls(EscapeCtrls(origin.mAttrs[order[i]]))
        BY <1>5, <2>2, <3>2 DEF Taken
      <4>2. order[i] \in DOMAIN mAttrs
        BY <1>5, <2>2, <3>2 DEF Taken
      <4>3. i \in 1 .. n /\ i < k
        <5>1. k \in 1 .. n
          BY <1>5
        <5>2. QED
          BY <1>7, <3>2, <5>1
      <4>4. order[i] \in Nat /\ order[k] \in Nat
        BY <1>5, <1>6, <1>7, <4>3, AttrMapIs
      <4>5. order[i] < order[k]
        BY <1>5, <1>7, <4>3 DEF Increasing
      <4>6. order[i] # o
        BY <1>13, <4>4, <4>5
      <4>7. QED
        BY <1>20, <4>1, <4>2, <4>6
    <3>3. CASE i = k
      <4>1. j = k + 1
        <5>1. ASSUME j # k + 1
              PROVE  FALSE
          <6>1. k + 1 \in k + 1 .. j - 1 /\ k # n
            BY <1>7, <1>8, <1>12, <5>1
          <6>2. QED
            BY <1>11, <2>2, <3>3, <6>1
        <5>2. QED
          BY <5>1
      <4>2. QED
        BY <1>13, <1>18, <1>19, <1>20, <3>3, <4>1
    <3>4. QED
      BY <3>1, <3>2, <3>3
  <2>3. aSpec' = aSpec /\ origin' = origin
    BY <1>2
  <2>4. QED
    BY <2>1, <2>2, <2>3 DEF Taken, Cut
<1>22. Laid(aSpec, origin.mType, origin.mAttrs, n, order, start)'
  BY <1>2, <1>5 DEF Laid
<1>23. /\ attr_beg' = attr_end + 1 /\ attr_mid' = attr_end + 1 /\ mType' = origin'.mType
       /\ pc' = IF attr_end = npos THEN "done" ELSE "sep"
  BY <1>2, <1>5, <1>14, <1>17
<1>24. pc' = "done" => j = n + 1
  BY <1>11, <1>23
<1>25. pc' = "sep" => /\ j \in 1 .. n /\ Cut(aSpec, start[j])' /\ attr_beg' = start[j] + 1
                      /\ Uncut(attr_beg, attr_mid - 1)'
  <2> SUFFICES ASSUME pc' = "sep"
               PROVE  /\ j \in 1 .. n /\ Cut(aSpec, start[j])' /\ attr_beg' = start[j] + 1
                      /\ Uncut(attr_beg, attr_mid - 1)'
    OBVIOUS
  <2>1. attr_end # npos
    BY <1>23
  <2>2. j \in 1 .. n /\ attr_end = start[j] /\ Cut(aSpec, start[j])
    BY <1>11, <2>1
  <2>3. Cut(aSpec, start[j])'
    BY <1>2, <2>2 DEF Cut
  <2>4. attr_beg' = attr_mid' /\ attr_mid' \in Int
    BY <1>6, <1>23 DEF npos
  <2>5. attr_beg' .. attr_mid' - 1 = {}
    <3>1. PICK x : x = attr_mid'
      OBVIOUS
    <3>2. x \in Int /\ attr_beg' = x
      BY <2>4, <3>1
    <3>3. x .. x - 1 = {}
      BY <3>2
    <3>4. QED
      BY <3>1, <3>2, <3>3
  <2>6. Uncut(attr_beg, attr_mid - 1)'
    BY <2>5 DEF Uncut
  <2>7. QED
    BY <1>23, <2>2, <2>3, <2>6
<1>26. pc' \in {"done", "sep"}
  BY <1>23
<1>27. Reads(n, order, start, j)'
  BY <1>12, <1>21, <1>22, <1>23, <1>24, <1>25, <1>26 DEF Reads
<1>28. QED
  BY <1>2, <1>3, <1>27

LEMMA OwnStep == TypeInv /\ OwnInv /\ [Next]_vars => OwnInv'
<1> SUFFICES ASSUME TypeInv, OwnInv, [Next]_vars PROVE OwnInv'
  OBVIOUS
<1>1. ASSUME pc = "new"
      PROVE  ~origin.some
  BY <1>1 DEF OwnInv, Reads
<1>2. CASE Construct \/ FromNode \/ FromText
  <2>1. pc = "new" /\ origin' = origin
    BY <1>2 DEF Construct, FromNode, FromText
  <2>2. QED
    BY <1>1, <2>1 DEF OwnInv
<1>3. CASE SetAttr \/ RmAttr
  BY <1>3 DEF OwnInv, SetAttr, RmAttr
<1>4. CASE ParseType
  BY <1>4, OwnParseType
<1>5. CASE FindSep
  BY <1>5, OwnFindSep
<1>6. CASE ParseAttr
  BY <1>6, OwnParseAttr
<1>7. CASE Through
  BY <1>7, OwnThrough
<1>8. CASE UNCHANGED vars
  <2>1. /\ mType' = mType /\ mAttrs' = mAttrs /\ aSpec' = aSpec /\ pc' = pc /\ origin' = origin
        /\ attr_beg' = attr_beg /\ attr_mid' = attr_mid /\ attr_end' = attr_end
    BY <1>8 DEF vars, parser
  <2>2. ASSUME NEW n, NEW order, NEW start, NEW k, Reads(n, order, start, k)
        PROVE  Reads(n, order, start, k)'
    <3>1. Laid(aSpec, origin.mType, origin.mAttrs, n, order, start)'
      BY <2>1, <2>2 DEF Reads, Laid
    <3>2. Taken(n, order, start, k)'
      BY <2>1, <2>2 DEF Reads, Taken, Cut
    <3>3. QED
      BY <2>1, <2>2, <3>1, <3>2 DEF Reads, Uncut, Cut
  <2>3. QED
    BY <2>1, <2>2 DEF OwnInv
<1>9. QED
  BY <1>2, <1>3, <1>4, <1>5, <1>6, <1>7, <1>8 DEF Next, Parse

LEMMA InitOwn == Init => OwnInv
BY DEF Init, NoTMut, OwnInv

LEMMA TMutInv == Spec => [](TypeInv /\ OwnInv)
BY InitTypeInv, InitOwn, TypeInvStep, OwnStep, PTL DEF Spec

\* Once the constructor is done it has read all parts that start with a cut.
AllTaken(attrs, n, order, start) ==
  /\ \A a : a \in DOMAIN mAttrs <=> \E i \in 1 .. n : order[i] = a /\ Cut(aSpec, start[i])
  /\ \A i \in 1 .. n :
       Cut(aSpec, start[i]) /\ (i = n \/ Cut(aSpec, start[i + 1])) =>
         mAttrs[order[i]] = DeEscCtrls(EscapeCtrls(attrs[order[i]]))

LEMMA DoneIs ==
  ASSUME TypeInv, OwnInv, origin.some, pc = "done"
  PROVE  \E n, order, start :
           /\ Laid(aSpec, origin.mType, origin.mAttrs, n, order, start)
           /\ AllTaken(origin.mAttrs, n, order, start)
           /\ mType = origin.mType /\ origin.mType \in Types /\ origin.mAttrs \in AttrMap
<1>1. origin.mType # ENt_Unknown
  BY DEF OwnInv
<1>2. PICK n, order, start, k : Reads(n, order, start, k)
  BY <1>1 DEF OwnInv
<1>3. origin.mType \in Types /\ origin.mAttrs \in AttrMap
  BY <1>1 DEF TypeInv, Origins
<1>4. /\ Laid(aSpec, origin.mType, origin.mAttrs, n, order, start)
      /\ Taken(n, order, start, k) /\ k = n + 1 /\ mType = origin.mType
  BY <1>2 DEF Reads
<1>5. AllTaken(origin.mAttrs, n, order, start)
  <2>1. PICK m : m = k - 1
    OBVIOUS
  <2>2. /\ \A a : a \in DOMAIN mAttrs <=> \E i \in 1 .. m : order[i] = a /\ Cut(aSpec, start[i])
        /\ \A i \in 1 .. m :
             Cut(aSpec, start[i]) /\ (i = n \/ Cut(aSpec, start[i + 1])) =>
               mAttrs[order[i]] = DeEscCtrls(EscapeCtrls(origin.mAttrs[order[i]]))
    BY <1>4, <2>1, Zenon DEF Taken
  <2>3. n \in Nat
    BY <1>4 DEF Laid
  <2>4. m = n
    BY <1>4, <2>1, <2>3
  <2>5. QED
    BY <2>2, <2>4, Zenon DEF AllTaken
<1>6. QED
  BY <1>3, <1>4, <1>5

LEMMA DoneOnlyEscHides ==
  ASSUME TypeInv, OwnInv
  PROVE  OnlyEscHides
<1> SUFFICES ASSUME origin.some, pc = "done", NEW a \in DOMAIN origin.mAttrs \ DOMAIN mAttrs
             PROVE  \E b \in DOMAIN origin.mAttrs :
                      /\ b < a /\ \A c \in DOMAIN origin.mAttrs : c <= b \/ c >= a
                      /\ origin.mAttrs[b] # << >> /\ Last(origin.mAttrs[b]) = KEsc
  BY DEF OnlyEscHides
<1>1. PICK type, attrs : type = origin.mType /\ attrs = origin.mAttrs
  OBVIOUS
<1>2. PICK n, order, start : /\ Laid(aSpec, type, attrs, n, order, start)
                             /\ AllTaken(attrs, n, order, start)
                             /\ type \in Types /\ attrs \in AttrMap
  BY <1>1, DoneIs
<1>3. /\ n \in Nat /\ order \in [1 .. n -> DOMAIN attrs] /\ Increasing(order, n)
      /\ \A x \in DOMAIN attrs : \E i \in 1 .. n : order[i] = x
  BY <1>2 DEF Laid
<1>4. PICK i \in 1 .. n : order[i] = a
  BY <1>1, <1>3
<1>5. ~Cut(aSpec, start[i])
  BY <1>2, <1>4 DEF AllTaken
<1>6. PICK j, value : j = i - 1 /\ value = attrs[order[j]]
  OBVIOUS
<1>7. j \in 1 .. n /\ value \in Seq(Symbol) /\ value # << >> /\ value[Len(value)] = KEsc
  BY <1>2, <1>5, <1>6, HiddenBy
<1>8. PICK b : b = order[j]
  OBVIOUS
<1>9. \A m \in 1 .. n : order[m] \in Nat
  BY <1>2, <1>3, AttrMapIs
<1>10. b \in DOMAIN attrs /\ b \in Nat /\ a \in Nat
  BY <1>3, <1>4, <1>7, <1>8, <1>9
<1>11. \A m \in 1 .. n, p \in 1 .. n : m < p => order[m] < order[p]
  BY <1>3 DEF Increasing
<1>12. b < a
  <2>1. j < i
    BY <1>3, <1>6
  <2>2. QED
    BY <1>4, <1>7, <1>8, <1>11, <2>1
<1>13. ASSUME NEW c \in DOMAIN attrs
       PROVE  c <= b \/ c >= a
  <2>1. PICK m \in 1 .. n : order[m] = c
    BY <1>3
  <2>2. m < j \/ m = j \/ m = i \/ i < m
    BY <1>3, <1>6
  <2>3. c \in Nat
    BY <1>9, <2>1
  <2>4. CASE m < j
    <3>1. c < b
      BY <1>7, <1>8, <1>11, <2>1, <2>4
    <3>2. QED
      BY <1>10, <2>3, <3>1
  <2>5. CASE m = j
    BY <1>8, <1>10, <2>1, <2>5
  <2>6. CASE m = i
    BY <1>4, <1>10, <2>1, <2>6
  <2>7. CASE i < m
    <3>1. a < c
      BY <1>4, <1>11, <2>1, <2>7
    <3>2. QED
      BY <1>10, <2>3, <3>1
  <2>8. QED
    BY <2>2, <2>4, <2>5, <2>6, <2>7
<1>14. Last(value) = KEsc
  BY <1>7 DEF Last
<1>15. QED
  BY <1>1, <1>6, <1>7, <1>8, <1>10, <1>12, <1>13, <1>14

LEMMA DoneReadsBack ==
  ASSUME TypeInv, OwnInv
  PROVE  ReadsBack
<1> SUFFICES ASSUME origin.some, pc = "done"
             PROVE  mType = origin.mType /\ mAttrs = origin.mAttrs <=> ~HasEsc(origin.mAttrs)
  BY DEF ReadsBack
<1>1. PICK type, attrs : type = origin.mType /\ attrs = origin.mAttrs
  OBVIOUS
<1>2. PICK n, order, start : /\ Laid(aSpec, type, attrs, n, order, start)
                             /\ AllTaken(attrs, n, order, start)
                             /\ mType = type /\ type \in Types /\ attrs \in AttrMap
  BY <1>1, DoneIs
<1>3. /\ n \in Nat /\ order \in [1 .. n -> DOMAIN attrs] /\ Increasing(order, n)
      /\ \A x \in DOMAIN attrs : \E i \in 1 .. n : order[i] = x
  BY <1>2 DEF Laid
<1>4. \A a : a \in DOMAIN mAttrs <=> \E i \in 1 .. n : order[i] = a /\ Cut(aSpec, start[i])
  BY <1>2, Zenon DEF AllTaken
<1>5. \A i \in 1 .. n :
        Cut(aSpec, start[i]) /\ (i = n \/ Cut(aSpec, start[i + 1])) =>
          mAttrs[order[i]] = DeEscCtrls(EscapeCtrls(attrs[order[i]]))
  BY <1>2, Zenon DEF AllTaken
<1>6. attrs \in [DOMAIN attrs -> Seq(Symbol)]
  BY <1>2, AttrMapIs
<1>7. ASSUME \A i \in 1 .. n : Cut(aSpec, start[i]), NEW i \in 1 .. n
      PROVE  mAttrs[order[i]] = DeEscCtrls(EscapeCtrls(attrs[order[i]]))
  <2>1. i = n \/ i + 1 \in 1 .. n
    BY <1>3
  <2>2. QED
    BY <1>5, <1>7, <2>1
<1>8. ASSUME ~HasEsc(attrs)
      PROVE  mAttrs = attrs
  <2>1. ASSUME NEW i \in 1 .. n, ~Cut(aSpec, start[i])
        PROVE  FALSE
    <3>1. PICK j, value : j = i - 1 /\ value = attrs[order[j]]
      OBVIOUS
    <3>2. j \in 1 .. n /\ value \in Seq(Symbol) /\ value # << >> /\ value[Len(value)] = KEsc
      BY <1>2, <2>1, <3>1, HiddenBy
    <3>3. KEsc \in Range(value)
      <4>1. Len(value) \in DOMAIN value
        BY <3>2
      <4>2. QED
        BY <3>2, <4>1 DEF Range
    <3>4. order[j] \in DOMAIN attrs
      BY <1>3, <3>2
    <3>5. QED
      BY <1>8, <3>1, <3>3, <3>4 DEF HasEsc
  <2>2. \A i \in 1 .. n : Cut(aSpec, start[i])
    BY <2>1
  <2>3. DOMAIN mAttrs = DOMAIN attrs
    <3>1. ASSUME NEW a
          PROVE  a \in DOMAIN mAttrs <=> a \in DOMAIN attrs
      <4>1. a \in DOMAIN mAttrs <=> \E i \in 1 .. n : order[i] = a /\ Cut(aSpec, start[i])
        BY <1>4, Zenon
      <4>2. QED
        BY <1>3, <2>2, <4>1
    <3>2. QED
      BY <3>1, Zenon
  <2>4. ASSUME NEW a \in DOMAIN attrs
        PROVE  mAttrs[a] = attrs[a]
    <3>1. PICK i \in 1 .. n : order[i] = a
      BY <1>3
    <3>2. mAttrs[a] = DeEscCtrls(EscapeCtrls(attrs[a]))
      BY <1>7, <2>2, <3>1
    <3>3. attrs[a] \in Seq(Symbol) /\ KEsc \notin Range(attrs[a])
      BY <1>6, <1>8 DEF HasEsc
    <3>4. QED
      BY <3>2, <3>3, DeEscOfEscape
  <2>5. mAttrs \in [DOMAIN mAttrs -> Seq(Symbol)]
    BY AttrMapIs DEF TypeInv
  <2>6. QED
    BY <1>6, <2>3, <2>4, <2>5
<1>9. ASSUME mAttrs = attrs
       PROVE  ~HasEsc(attrs)
  <2>1. ASSUME NEW i \in 1 .. n
        PROVE  Cut(aSpec, start[i])
    <3>1. PICK a : a = order[i]
      OBVIOUS
    <3>2. a \in DOMAIN mAttrs
      BY <1>3, <1>9, <3>1
    <3>3. PICK j \in 1 .. n : order[j] = a /\ Cut(aSpec, start[j])
      BY <1>4, <3>2
    <3>4. j = i
      <4>1. \A m \in 1 .. n, p \in 1 .. n : m < p => order[m] < order[p]
        BY <1>3 DEF Increasing
      <4>2. a \in Nat
        BY <1>2, <1>9, <3>2, AttrMapIs
      <4>3. j < i \/ j = i \/ i < j
        BY <1>3
      <4>4. ~(a < a)
        BY <4>2
      <4>5. QED
        BY <3>1, <3>3, <4>1, <4>3, <4>4
    <3>5. QED
      BY <3>3, <3>4
  <2>2. ASSUME NEW a \in DOMAIN attrs
        PROVE  KEsc \notin Range(attrs[a])
    <3>1. PICK i \in 1 .. n : order[i] = a
      BY <1>3
    <3>2. mAttrs[a] = DeEscCtrls(EscapeCtrls(attrs[a]))
      BY <1>7, <2>1, <3>1
    <3>3. attrs[a] \in Seq(Symbol)
      BY <1>6
    <3>4. QED
      BY <1>9, <3>2, <3>3, DeEscOfEscape
  <2>3. QED
    BY <2>2 DEF HasEsc
<1>10. QED
  BY <1>1, <1>2, <1>8, <1>9

\* A TMut comes back from its text exactly if none of its values holds an
\* escape symbol, whatever tables, values and number of attributes there are.
THEOREM TMutReadsBack == Spec => []ReadsBack
<1>1. TypeInv /\ OwnInv => ReadsBack
  BY DoneReadsBack
<1>2. QED
  BY <1>1, TMutInv, PTL

\* The text of a TMut of a known type never makes TMut(const string&) throw.
THEOREM TMutOwnTextParses == Spec => []OwnTextParses
<1>1. TypeInv /\ OwnInv => OwnTextParses
  BY DEF OwnInv, Reads, OwnTextParses
<1>2. QED
  BY <1>1, TMutInv, PTL

\* An attribute that is lost on the way through a text comes right behind one
\* whose value ends in an escape symbol.
THEOREM TMutOnlyEscHides == Spec => []OnlyEscHides
<1>1. TypeInv /\ OwnInv => OnlyEscHides
  BY DoneOnlyEscHides
<1>2. QED
  BY <1>1, TMutInv, PTL

-----------------------------------------------------------------------------
\* Why the constructor ends: what the parser still has before it.
Left ==
  CASE pc = "type" -> 2 * Len(aSpec) + 3
    [] pc = "sep"  -> 2 * (Len(aSpec) - attr_mid) + 2
    [] pc = "attr" -> IF attr_end = npos THEN 1 ELSE 2 * (Len(aSpec) - attr_end) + 1
    [] OTHER       -> 0

LEMMA LeftIs == TypeInv => Left \in Nat
<1> SUFFICES ASSUME TypeInv PROVE Left \in Nat
  OBVIOUS
<1>1. PICK len, mid, end : len = Len(aSpec) /\ mid = attr_mid /\ end = attr_end
  OBVIOUS
<1>2. len \in Nat /\ mid \in 0 .. len /\ end \in npos .. len - 1
  BY <1>1 DEF TypeInv
<1>3. 2 * len + 3 \in Nat /\ 2 * (len - mid) + 2 \in Nat
  BY <1>2
<1>4. end # npos => 2 * (len - end) + 1 \in Nat
  BY <1>2 DEF npos
<1>5. QED
  BY <1>1, <1>3, <1>4 DEF Left

LEMMA ParseAdvances ==
  ASSUME TypeInv, Parse
  PROVE  Left' < Left
<1>1. PICK len, beg, mid, end :
        len = Len(aSpec) /\ beg = attr_beg /\ mid = attr_mid /\ end = attr_end
  OBVIOUS
<1>2. /\ len \in Nat /\ beg \in 0 .. len /\ mid \in 0 .. len /\ end \in npos .. len - 1
      /\ aSpec \in Seq(Symbol)
  BY <1>1 DEF TypeInv
<1>3. aSpec' = aSpec
  BY DEF Parse, ParseType, FindSep, ParseAttr
<1>4. CASE ParseType
  <2>1. PICK found : found = FindFirstOf(aSpec, {KSep}, 0)
    OBVIOUS
  <2>2. /\ pc = "type" /\ attr_mid' = found + 1
        /\ pc' \in {"throws", "done", "sep"} /\ (pc' = "sep" => found # npos)
    BY <1>4, <2>1 DEF ParseType
  <2>3. found = npos \/ found \in 0 .. len - 1
    BY <1>1, <1>2, <2>1, FindFirstOfIs
  <2>4. Left = 2 * len + 3
    BY <1>1, <2>2 DEF Left
  <2>5. CASE pc' = "sep"
    <3>1. Left' = 2 * (len - (found + 1)) + 2
      BY <1>1, <1>3, <2>2, <2>5 DEF Left
    <3>2. found \in 0 .. len - 1
      BY <2>2, <2>3, <2>5
    <3>3. QED
      BY <1>2, <2>4, <3>1, <3>2
  <2>6. CASE pc' \in {"throws", "done"}
    <3>1. Left' = 0
      BY <2>6 DEF Left
    <3>2. QED
      BY <1>2, <2>4, <3>1
  <2>7. QED
    BY <2>2, <2>5, <2>6
<1>5. CASE FindSep
  <2>1. PICK found : found = FindFirstOf(aSpec, {KSep}, mid)
    OBVIOUS
  <2>2. /\ pc = "sep" /\ attr_mid' = found + 1 /\ attr_end' = found
        /\ pc' \in {"sep", "attr"} /\ (pc' = "sep" => found # npos)
    BY <1>1, <1>5, <2>1 DEF FindSep
  <2>3. found = npos \/ found \in mid .. len - 1
    <3>1. mid \in Nat
      BY <1>2
    <3>2. QED
      BY <1>1, <1>2, <2>1, <3>1, FindFirstOfIs
  <2>4. Left = 2 * (len - mid) + 2
    BY <1>1, <2>2 DEF Left
  <2>5. CASE pc' = "sep"
    <3>1. Left' = 2 * (len - (found + 1)) + 2
      BY <1>1, <1>3, <2>2, <2>5 DEF Left
    <3>2. found \in mid .. len - 1
      BY <2>2, <2>3, <2>5
    <3>3. QED
      BY <1>2, <2>4, <3>1, <3>2
  <2>6. CASE pc' = "attr"
    <3>1. Left' = IF found = npos THEN 1 ELSE 2 * (len - found) + 1
      BY <1>1, <1>3, <2>2, <2>6 DEF Left
    <3>2. CASE found = npos
      <4>1. Left' = 1
        BY <3>1, <3>2
      <4>2. QED
        BY <1>2, <2>4, <4>1
    <3>3. CASE found # npos
      <4>1. Left' = 2 * (len - found) + 1 /\ found \in mid .. len - 1
        BY <2>3, <3>1, <3>3
      <4>2. QED
        BY <1>2, <2>4, <4>1
    <3>4. QED
      BY <3>2, <3>3
  <2>7. QED
    BY <2>2, <2>5, <2>6
<1>6. CASE ParseAttr
  <2>1. /\ pc = "attr"
        /\ pc' = "sep" => end # npos /\ attr_mid' = end + 1
        /\ pc' \in {"throws", "done", "sep"}
    BY <1>1, <1>6 DEF ParseAttr
  <2>2. Left = IF end = npos THEN 1 ELSE 2 * (len - end) + 1
    BY <1>1, <2>1 DEF Left
  <2>3. Left \in Nat /\ Left > 0
    <3>1. end # npos => 2 * (len - end) + 1 \in Nat /\ 2 * (len - end) + 1 > 0
      BY <1>2 DEF npos
    <3>2. QED
      BY <2>2, <3>1
  <2>4. CASE pc' = "sep"
    <3>1. Left' = 2 * (len - (end + 1)) + 2
      BY <1>1, <1>3, <2>1, <2>4 DEF Left
    <3>2. Left = 2 * (len - end) + 1 /\ end \in Int
      BY <1>2, <2>1, <2>2, <2>4 DEF npos
    <3>3. QED
      BY <1>2, <3>1, <3>2
  <2>5. CASE pc' \in {"throws", "done"}
    <3>1. Left' = 0
      BY <2>5 DEF Left
    <3>2. QED
      BY <2>3, <3>1
  <2>6. QED
    BY <2>1, <2>4, <2>5
<1>7. QED
  BY <1>4, <1>5, <1>6 DEF Parse

\* Every step of TMut(const string&), for any text, leaves the parser less to
\* do, and there is only so much: its two loops cannot go on for ever.
THEOREM TMutParseAdvances == Spec => [](Left \in Nat) /\ [][Parse => Left' < Left]_vars
<1>1. TypeInv /\ [Next]_vars => [Parse => Left' < Left]_vars
  BY ParseAdvances
<1>2. QED
  BY <1>1, InitTypeInv, TypeInvStep, LeftIs, PTL DEF Spec

=============================================================================
