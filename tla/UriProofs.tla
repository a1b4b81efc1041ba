------------------------------ MODULE UriProofs ------------------------------
(***************************************************************************)
(* What holds of a Uri and of the parts of a chromo's uri whatever the     *)
(* texts: that the parser loses no character, that a readable uri is read  *)
(* back as it was, that joining two uris keeps both, and how path and      *)
(* fragment make up the text.                                              *)
(*                                                                         *)
(* The invariants are UriTypeInv (types, and where the parser is),         *)
(* SpellInv (the units spell the text so far), ReadInv (what is rendered   *)
(* has no character that ends a part of it) and FoundInv (what Compare has *)
(* found stays there).                                                     *)
(***************************************************************************)
EXTENDS ChromoUri, ListLemmas

-----------------------------------------------------------------------------
\* Texts.

\* A list of two parts, and its parts.
LEMMA SplitAt ==
  ASSUME NEW S, NEW s \in Seq(S), NEW i \in 0 .. Len(s), NEW j \in i .. Len(s),
         NEW k \in j .. Len(s)
  PROVE  SubSeq(s, i + 1, j) \o SubSeq(s, j + 1, k) = SubSeq(s, i + 1, k)
<1>1. PICK a, b, c : a = SubSeq(s, i + 1, j) /\ b = SubSeq(s, j + 1, k) /\ c = SubSeq(s, i + 1, k)
  OBVIOUS
<1>2. i \in Nat /\ j \in Nat /\ k \in Nat /\ Len(s) \in Nat /\ i <= j /\ j <= k /\ k <= Len(s)
  OBVIOUS
<1>3. /\ a \in Seq(S) /\ Len(a) = j - i /\ \A l \in 1 .. j - i : a[l] = s[i + l]
      /\ b \in Seq(S) /\ Len(b) = k - j /\ \A l \in 1 .. k - j : b[l] = s[j + l]
      /\ c \in Seq(S) /\ Len(c) = k - i /\ \A l \in 1 .. k - i : c[l] = s[i + l]
  BY <1>1, <1>2
<1>4. /\ a \o b \in Seq(S) /\ Len(a \o b) = Len(a) + Len(b)
      /\ \A l \in 1 .. Len(a) + Len(b) : (a \o b)[l] = IF l <= Len(a) THEN a[l] ELSE b[l - Len(a)]
  BY <1>3, ConcatProperties
<1>5. Len(a \o b) = Len(c) /\ Len(c) = k - i
  BY <1>2, <1>3, <1>4
<1>6. ASSUME NEW l \in 1 .. k - i
      PROVE  (a \o b)[l] = c[l]
  <2>1. (a \o b)[l] = IF l <= j - i THEN a[l] ELSE b[l - (j - i)]
    <3>1. l \in 1 .. Len(a) + Len(b)
      BY <1>4, <1>5
    <3>2. Len(a) = j - i
      BY <1>3
    <3>3. QED
      BY <1>4, <3>1, <3>2
  <2>2. CASE l <= j - i
    BY <1>2, <1>3, <2>1, <2>2
  <2>3. CASE ~(l <= j - i)
    <3>1. l - (j - i) \in 1 .. k - j /\ j + (l - (j - i)) = i + l
      BY <1>2, <2>3
    <3>2. b[l - (j - i)] = s[j + (l - (j - i))]
      BY <1>3, <3>1
    <3>3. QED
      BY <1>3, <2>1, <2>3, <3>1, <3>2
  <2>4. QED
    BY <2>2, <2>3
<1>7. a \o b = c
  BY <1>3, <1>4, <1>5, <1>6, SeqEqual
<1>8. QED
  BY <1>1, <1>7

-----------------------------------------------------------------------------
\* Units.

\* The list of names with marks that GetUri joins, and those that Spelled joins.
Piece(elems, i) ==
  (IF i = 1 /\ elems[1].mName # << >> /\ elems[1].mRel # "/" THEN <<".", ":">> ELSE << >>)
    \o elems[i].mName \o (IF i < Len(elems) THEN <<":">> ELSE << >>)

\* A rendered uri is a text.
LEMMA GetUriIs ==
  ASSUME NEW elems \in Seq(Unit)
  PROVE  /\ GetUri(elems) \in Seq(Char)
         /\ [i \in 1 .. Len(elems) |-> Piece(elems, i)] \in Seq(Seq(Char))
         /\ GetUri(elems) = FlattenSeq([i \in 1 .. Len(elems) |-> Piece(elems, i)])
<1>1. ASSUME NEW i \in 1 .. Len(elems)
      PROVE  Piece(elems, i) \in Seq(Char)
  <2>1. elems[i] \in Unit
    OBVIOUS
  <2>2. elems[i].mName \in Seq(Char)
    BY <2>1 DEF Unit
  <2>3. "." \in Char /\ ":" \in Char
    BY DEF Char, KRelTypesMarks
  <2>4. <<".", ":">> \in Seq(Char) /\ << >> \in Seq(Char) /\ <<":">> \in Seq(Char)
    BY <2>3
  <2>5. PICK a, b : /\ a = IF i = 1 /\ elems[1].mName # << >> /\ elems[1].mRel # "/"
                         THEN <<".", ":">> ELSE << >>
                    /\ b = IF i < Len(elems) THEN <<":">> ELSE << >>
    OBVIOUS
  <2>6. a \in Seq(Char) /\ b \in Seq(Char)
    BY <2>4, <2>5
  <2>7. a \o elems[i].mName \o b \in Seq(Char)
    BY <2>2, <2>6
  <2>8. QED
    BY <2>5, <2>7 DEF Piece
<1>2. [i \in 1 .. Len(elems) |-> Piece(elems, i)] \in Seq(Seq(Char))
  <2>1. Len(elems) \in Nat
    OBVIOUS
  <2>2. QED
    BY <1>1, <2>1
<1>3. GetUri(elems) = FlattenSeq([i \in 1 .. Len(elems) |-> Piece(elems, i)])
  BY DEF GetUri, Piece
<1>4. PICK pp \in Seq(Seq(Char)) : pp = [i \in 1 .. Len(elems) |-> Piece(elems, i)]
  BY <1>2
<1>5. FlattenSeq(pp) \in Seq(Char)
  <2>1. << >> \in Seq(Char)
    OBVIOUS
  <2>2. QED
    BY <2>1, FlattenAppend
<1>6. QED
  BY <1>2, <1>3, <1>4, <1>5

\* A part of a list, which may be empty.
LEMMA PartIs ==
  ASSUME NEW S, NEW s \in Seq(S), NEW i \in Nat \ {0}, NEW j \in Int, j <= Len(s)
  PROVE  /\ SubSeq(s, i, j) \in Seq(S)
         /\ Len(SubSeq(s, i, j)) = IF i <= j THEN j - i + 1 ELSE 0
         /\ \A k \in 1 .. Len(SubSeq(s, i, j)) : SubSeq(s, i, j)[k] = s[i + k - 1]
<1>1. CASE i <= j
  BY <1>1
<1>2. CASE ~(i <= j)
  <2>1. SubSeq(s, i, j) = << >>
    BY <1>2
  <2>2. QED
    BY <1>2, <2>1
<1>3. QED
  BY <1>1, <1>2

\* Where something is found, as an offset.
LEMMA FoundIs ==
  ASSUME NEW S, NEW s \in Seq(S), NEW cs, NEW i \in Nat
  PROVE  /\ FindFirstOf(s, cs, i) \in Int
         /\ FindFirstOf(s, cs, i) < Len(s)
         /\ \/ FindFirstOf(s, cs, i) = npos
            \/ FindFirstOf(s, cs, i) \in Nat /\ i <= FindFirstOf(s, cs, i)
         /\ Substr(s, i, FindFirstOf(s, cs, i)) \in Seq(S)
<1>1. PICK f : f = FindFirstOf(s, cs, i)
  OBVIOUS
<1>2. f = npos \/ f \in i .. Len(s) - 1
  BY <1>1, FindFirstOfIs
<1>3. f \in {npos} \cup 0 .. Len(s)
  BY <1>2
<1>4. Substr(s, i, f) \in Seq(S)
  BY <1>3, SubstrIs
<1>5. f \in Int /\ f < Len(s) /\ (f = npos \/ (f \in Nat /\ i <= f))
  BY <1>2 DEF npos
<1>6. QED
  BY <1>1, <1>4, <1>5

-----------------------------------------------------------------------------
\* Types.

\* The types, and where the parser is.
UriTypeInv ==
  /\ TypeOK
  /\ pc \in {"base", "head"} => pos = 0 /\ iElems = << >>
  /\ pc = "unit" => pos \in Nat
  /\ cmp.matched => Len(other) <= cmp.end

\* The base part.
LEMMA BaseKeepsTypes ==
  ASSUME UriTypeInv, ParseBase
  PROVE  UriTypeInv'
<1> DEFINE e == FindFirstOf(iUri, {"#"}, 0)
           b == SubSeq(iUri, 1, e)
           frag == SubSeq(iUri, e + 2, Len(iUri))
           q == FindFirstOf(frag, {"?"}, 0)
<1>1. iUri \in Seq(Char) /\ iScheme \in Seq(Char) /\ iAuthority \in Seq(Char) /\ iPath \in Seq(Char)
  BY DEF UriTypeInv, TypeOK
<1>2. e \in Int /\ e < Len(iUri) /\ e + 2 \in Nat \ {0} /\ e <= Len(iUri) /\ Len(iUri) \in Int
  BY <1>1, FoundIs DEF npos
<1>3. b \in Seq(Char) /\ frag \in Seq(Char)
  <2>1. b \in Seq(Char)
    <3> HIDE DEF e
    <3>1. QED
      BY <1>1, <1>2, PartIs
  <2>2. frag \in Seq(Char)
    <3> HIDE DEF e
    <3>1. QED
      BY <1>1, <1>2, PartIs
  <2>3. QED
    BY <2>1, <2>2
<1>4. /\ iBase' = b
      /\ hier' = Substr(frag, 0, q)
      /\ \/ UNCHANGED <<iScheme, iAuthority, iPath>> /\ pc' = "head"
         \/ /\ iScheme' = SubSeq(b, 1, SchemeEnd(b))
            /\ iAuthority' = IF HasAuthority(b) THEN Substr(b, AuthBeg(b), AuthEnd(b)) ELSE << >>
            /\ \/ UNCHANGED iPath /\ pc' = "throws"
               \/ iPath' = Substr(b, PathBeg(b), FindFirstOf(b, {"?"}, PathBeg(b))) /\ pc' = "head"
      /\ UNCHANGED <<iUri, iElems, iErr, pos, rtype, other, origin, cmp>>
      /\ pc = "base"
  BY DEF ParseBase
<1> HIDE DEF e, b, frag
<1>5. hier' \in Seq(Char)
  BY <1>3, <1>4, FoundIs
<1> HIDE DEF q
<1>6. iScheme' \in Seq(Char) /\ iAuthority' \in Seq(Char) /\ iPath' \in Seq(Char)
  <2>1. SchemeEnd(b) \in Int /\ SchemeEnd(b) < Len(b) /\ SchemeEnd(b) + 1 \in Nat /\ Len(b) \in Nat
    BY <1>3, FoundIs DEF npos, SchemeEnd
  <2>2. SubSeq(b, 1, SchemeEnd(b)) \in Seq(Char)
    BY <1>3, <2>1, PartIs
  <2>3. AuthBeg(b) \in Nat
    BY <2>1 DEF AuthBeg
  <2>4. HasAuthority(b) => /\ Substr(b, AuthBeg(b), AuthEnd(b)) \in Seq(Char)
                           /\ AuthEnd(b) \in Nat \/ AuthEnd(b) = npos
    BY <1>3, <2>3, FoundIs DEF AuthEnd
  <2>5. ~HasAuthority(b) => AuthEnd(b) \in Nat
    BY <2>3 DEF AuthEnd
  <2>6. PathBeg(b) \in Nat
    BY <2>4, <2>5 DEF PathBeg, npos
  <2>7. Substr(b, PathBeg(b), FindFirstOf(b, {"?"}, PathBeg(b))) \in Seq(Char)
    BY <1>3, <2>6, FoundIs
  <2>8. << >> \in Seq(Char)
    OBVIOUS
  <2>9. QED
    BY <1>1, <1>4, <2>2, <2>4, <2>7, <2>8
<1>7. pos = 0 /\ iElems = << >> /\ iElems \in Seq(Unit) /\ iErr \in BOOLEAN /\ rtype \in Rel
      /\ other \in Seq(Unit) /\ origin \in {"none", "rendered", "joined"}
      /\ cmp.matched \in BOOLEAN /\ cmp.end \in npos .. Len(iElems) + Len(other)
  BY <1>4 DEF UriTypeInv, TypeOK
<1>8. pos' \in npos .. Len(hier')
  BY <1>4, <1>5, <1>7 DEF npos
<1>9. TypeOK'
  BY <1>1, <1>3, <1>4, <1>5, <1>6, <1>7, <1>8 DEF TypeOK
<1>10. QED
  BY <1>4, <1>7, <1>9 DEF UriTypeInv

\* The start of the hierarchical part.
LEMMA HeadKeepsTypes ==
  ASSUME UriTypeInv, ParseHead
  PROVE  UriTypeInv'
<1>1. /\ hier \in Seq(Char) /\ pc = "head" /\ pos = 0 /\ iElems = << >> /\ TypeOK
      /\ UNCHANGED <<iUri, base, hier, iErr, other, origin, cmp>>
  BY DEF UriTypeInv, TypeOK, ParseHead
<1>2. Len(hier) \in Nat
  BY <1>1
<1>3. CASE Len(hier) <= 1
  <2>1. pc' = "done" /\ UNCHANGED <<iElems, pos, rtype>>
    BY <1>3 DEF ParseHead
  <2>2. QED
    BY <1>1, <2>1 DEF UriTypeInv, TypeOK, base
<1>4. CASE ~(Len(hier) <= 1)
  <2> DEFINE beg == IF hier[1] = "." /\ hier[2] # "." THEN 1 ELSE 0
             sym == hier[beg + 1] \in KRelTypesMarks
  <2>1. /\ rtype' = IF sym THEN hier[beg + 1] ELSE KSepNone
        /\ pos' = IF sym THEN beg + 1 ELSE beg
        /\ iElems' = IF sym /\ hier[1] # "."
                       THEN <<[mName |-> << >>, mRel |-> rtype']>> ELSE << >>
        /\ pc' = "unit"
    BY <1>4 DEF ParseHead
  <2>2. beg \in Nat /\ beg + 1 <= Len(hier)
    BY <1>2, <1>4
  <2>3. rtype' \in Rel /\ (sym => rtype' \in KRelTypesMarks)
    BY <2>1 DEF Rel
  <2>4. iElems' \in Seq(Unit)
    <3>1. << >> \in Seq(Char)
      OBVIOUS
    <3>2. sym => [mName |-> << >>, mRel |-> rtype'] \in Unit
      BY <2>3, <3>1 DEF Unit
    <3> HIDE DEF sym
    <3>3. CASE sym /\ hier[1] # "."
      <4>1. iElems' = <<[mName |-> << >>, mRel |-> rtype']>>
        BY <2>1, <3>3
      <4>2. QED
        BY <3>2, <3>3, <4>1
    <3>4. CASE ~(sym /\ hier[1] # ".")
      BY <2>1, <3>4
    <3>5. QED
      BY <3>3, <3>4
  <2>5. pos' \in Nat /\ pos' \in npos .. Len(hier)
    BY <1>2, <2>1, <2>2 DEF npos
  <2>6. cmp.end \in npos .. Len(iElems') + Len(other)
    <3>1. cmp.end \in npos .. 0 + Len(other) /\ other \in Seq(Unit)
      BY <1>1 DEF TypeOK
    <3>2. Len(iElems') \in Nat /\ Len(other) \in Nat
      BY <2>4, <3>1
    <3>3. QED
      BY <3>1, <3>2 DEF npos
  <2> HIDE DEF beg, sym
  <2>7. QED
    BY <1>1, <2>1, <2>3, <2>4, <2>5, <2>6 DEF UriTypeInv, TypeOK, base
<1>5. QED
  BY <1>3, <1>4

\* A turn of the loop.
LEMMA UnitKeepsTypes ==
  ASSUME UriTypeInv, NextUnit
  PROVE  UriTypeInv'
<1>1. /\ hier \in Seq(Char) /\ pc = "unit" /\ pos \in Nat /\ TypeOK /\ iElems \in Seq(Unit)
      /\ rtype \in Rel /\ rtype # KSepNone
      /\ UNCHANGED <<iUri, base, hier, iErr, other, origin, cmp>>
      /\ iElems' = Append(iElems, [mName |-> NextName, mRel |-> rtype])
      /\ IF NameEnd = npos
           THEN pos' = npos /\ pc' = "done" /\ UNCHANGED rtype
           ELSE /\ pos' = NameEnd + 1
                /\ rtype' = hier[NameEnd + 1]
                /\ pc' = IF pos' < Len(hier) THEN "unit" ELSE "done"
  BY DEF UriTypeInv, TypeOK, NextUnit
<1>2. /\ NameEnd = npos \/ NameEnd \in Nat
      /\ NameEnd < Len(hier) /\ Len(hier) \in Nat
      /\ NextName \in Seq(Char)
  BY <1>1, FoundIs DEF NameEnd, NextName
<1>3. NameEnd # npos => hier[NameEnd + 1] \in KRelTypesMarks
  BY <1>1, FindFirstOfIs DEF NameEnd
<1>4. [mName |-> NextName, mRel |-> rtype] \in Unit
  BY <1>1, <1>2 DEF Unit, Rel
<1>5. iElems' \in Seq(Unit) /\ Len(iElems') = Len(iElems) + 1
  <2>1. PICK u \in Unit : u = [mName |-> NextName, mRel |-> rtype]
    BY <1>4
  <2>2. iElems' = Append(iElems, u)
    BY <1>1, <2>1
  <2>3. QED
    BY <1>1, <2>2
<1>6. pos' \in npos .. Len(hier) /\ (pc' = "unit" => pos' \in Nat) /\ pc' \in {"unit", "done"}
  BY <1>1, <1>2 DEF npos
<1>7. rtype' \in Rel
  BY <1>1, <1>3 DEF Rel
<1>8. cmp.end \in npos .. Len(iElems') + Len(other)
  <2>1. cmp.end \in npos .. Len(iElems) + Len(other) /\ other \in Seq(Unit)
    BY <1>1 DEF TypeOK
  <2>2. Len(iElems) \in Nat /\ Len(other) \in Nat
    BY <1>1, <2>1
  <2>3. QED
    BY <1>5, <2>1, <2>2 DEF npos
<1>9. QED
  BY <1>1, <1>5, <1>6, <1>7, <1>8 DEF UriTypeInv, TypeOK, base

\* What a client does.
LEMMA UseKeepsTypes ==
  ASSUME UriTypeInv, Use
  PROVE  UriTypeInv'
<1>1. TypeOK /\ iElems \in Seq(Unit) /\ other \in Seq(Unit) /\ Len(iElems) \in Nat
        /\ Len(other) \in Nat
  BY DEF UriTypeInv, TypeOK
<1>2. NoCompare.matched = FALSE /\ NoCompare.end = npos
  BY DEF NoCompare
<1>3. ASSUME NEW t \in Seq(Char), NEW why \in {"rendered", "joined"}, Construct(t, why)
      PROVE  UriTypeInv'
  <2>1. /\ other' = iElems /\ origin' = why /\ iUri' = t
        /\ iScheme' = << >> /\ iAuthority' = << >> /\ iPath' = << >> /\ iBase' = << >>
        /\ hier' = << >> /\ iElems' = << >> /\ iErr' = FALSE /\ pos' = 0
        /\ rtype' = KSepNone /\ pc' = "base" /\ cmp' = NoCompare
    BY <1>3 DEF Construct
  <2>2. << >> \in Seq(Char) /\ << >> \in Seq(Unit) /\ Len(<< >>) = 0
    OBVIOUS
  <2>3. pos' \in npos .. Len(hier')
    BY <2>1, <2>2 DEF npos
  <2>4. cmp'.end \in npos .. Len(iElems') + Len(other')
    BY <1>1, <1>2, <2>1, <2>2 DEF npos
  <2>5. TypeOK'
    BY <1>1, <1>2, <2>1, <2>2, <2>3, <2>4 DEF TypeOK, Rel
  <2>6. QED
    BY <1>2, <2>1, <2>5 DEF UriTypeInv
<1>4. CASE Render
  <2>1. GetUri(iElems) \in Seq(Char)
    BY <1>1, GetUriIs
  <2>2. QED
    BY <1>3, <1>4, <2>1 DEF Render
<1>5. CASE Second
  <2>1. PICK t \in Others : Construct(t, "joined")
    BY <1>5 DEF Second
  <2>2. t \in Seq(Char)
    BY UriAssumption
  <2>3. QED
    BY <1>3, <2>1, <2>2
<1>6. ASSUME NEW s, s \in Seq(Unit), iElems' = s, cmp' = NoCompare, pc = "done",
             UNCHANGED <<iUri, base, hier, iErr, pos, rtype, pc, other, origin>>
      PROVE  UriTypeInv'
  <2>1. Len(iElems') \in Nat /\ other' = other
    BY <1>6
  <2>2. cmp'.end \in npos .. Len(iElems') + Len(other')
    BY <1>1, <1>2, <1>6, <2>1 DEF npos
  <2>3. QED
    BY <1>1, <1>2, <1>6, <2>2 DEF UriTypeInv, TypeOK, base
<1>7. CASE AppendUri
  <2>1. iElems' = AppendAll(iElems, other) /\ cmp' = NoCompare /\ pc = "done"
        /\ UNCHANGED <<iUri, base, hier, iErr, pos, rtype, pc, other, origin>>
    BY <1>7 DEF AppendUri, Joinable, AppendAll
  <2>2. AppendAll(iElems, other) = iElems \o other /\ iElems \o other \in Seq(Unit)
    BY <1>1, FoldAppend
  <2>3. QED
    BY <1>6, <2>1, <2>2
<1>8. CASE PrependUri
  <2>1. iElems' = PrependAll(other, iElems) /\ cmp' = NoCompare /\ pc = "done"
        /\ UNCHANGED <<iUri, base, hier, iErr, pos, rtype, pc, other, origin>>
    BY <1>8 DEF PrependUri, Joinable, PrependAll
  <2>2. PrependAll(other, iElems) = other \o iElems /\ other \o iElems \in Seq(Unit)
    BY <1>1, FoldPrepend
  <2>3. QED
    BY <1>6, <2>1, <2>2
<1>9. ASSUME NEW start \in 0 .. Len(iElems), Compare(start)
      PROVE  UriTypeInv'
  <2>1. /\ pc = "done"
        /\ cmp' = [matched |-> TRUE, end |-> start + Len(other)] \/ cmp' = NoCompare
        /\ UNCHANGED <<iUri, base, hier, iElems, iErr, pos, rtype, pc, other, origin>>
    BY <1>9 DEF Compare
  <2>2. start + Len(other) \in npos .. Len(iElems) + Len(other)
          /\ npos \in npos .. Len(iElems) + Len(other)
        /\ Len(other) <= start + Len(other)
    BY <1>1 DEF npos
  <2>3. /\ cmp'.matched \in BOOLEAN /\ cmp'.end \in npos .. Len(iElems) + Len(other)
        /\ cmp'.matched => Len(other) <= cmp'.end
    <3>1. CASE cmp' = NoCompare
      BY <1>2, <2>2, <3>1
    <3>2. CASE cmp' = [matched |-> TRUE, end |-> start + Len(other)]
      BY <2>2, <3>2
    <3>3. QED
      BY <2>1, <3>1, <3>2
  <2>4. QED
    BY <1>1, <2>1, <2>3 DEF UriTypeInv, TypeOK, base
<1>10. CASE AppendTail
  <2>1. /\ pc = "done" /\ cmp.matched /\ cmp.end <= Len(iElems)
        /\ other' = AppendAll(other, SubSeq(iElems, cmp.end + 1, Len(iElems)))
        /\ cmp' = NoCompare
        /\ UNCHANGED <<iUri, base, hier, iElems, iErr, pos, rtype, pc, origin>>
    BY <1>10 DEF AppendTail, AppendAll
  <2>2. Len(other) <= cmp.end /\ cmp.end \in Int
    BY <2>1 DEF UriTypeInv, TypeOK, npos
  <2>3. PICK tail : tail = SubSeq(iElems, cmp.end + 1, Len(iElems))
    OBVIOUS
  <2>4. tail \in Seq(Unit)
    <3>1. cmp.end + 1 \in Nat \ {0} /\ Len(iElems) \in Int /\ Len(iElems) <= Len(iElems)
      BY <1>1, <2>2
    <3>2. QED
      BY <1>1, <2>3, <3>1, PartIs
  <2>5. other' = other \o tail
    BY <1>1, <2>1, <2>3, <2>4, FoldAppend
  <2>6. other' \in Seq(Unit) /\ Len(other') \in Nat
    <3>1. PICK o : o = other
      OBVIOUS
    <3>2. o \o tail \in Seq(Unit) /\ Len(o \o tail) \in Nat
      BY <1>1, <2>4, <3>1
    <3>3. QED
      BY <2>5, <3>1, <3>2
  <2>7. cmp'.end \in npos .. Len(iElems') + Len(other')
    BY <1>1, <1>2, <2>1, <2>6 DEF npos
  <2>8. QED
    BY <1>1, <1>2, <2>1, <2>6, <2>7 DEF UriTypeInv, TypeOK, base
<1>11. QED
  BY <1>4, <1>5, <1>7, <1>8, <1>9, <1>10 DEF Use

\* The types hold at first.
LEMMA InitTypes == Init => UriTypeInv
<1> SUFFICES ASSUME Init PROVE UriTypeInv
  OBVIOUS
<1>1. << >> \in Seq(Char) /\ << >> \in Seq(Unit) /\ Len(<< >>) = 0
  OBVIOUS
<1>2. pos \in npos .. Len(hier) /\ cmp.end \in npos .. Len(iElems) + Len(other)
      /\ cmp.matched = FALSE
  BY <1>1 DEF Init, npos, NoCompare
<1>3. iUri \in Seq(Char)
  BY UriAssumption DEF Init
<1>4. QED
  BY <1>1, <1>2, <1>3 DEF Init, UriTypeInv, TypeOK, Rel

\* Every step keeps them.
LEMMA NextTypes == UriTypeInv /\ [Next]_vars => UriTypeInv'
<1> SUFFICES ASSUME UriTypeInv, [Next]_vars PROVE UriTypeInv'
  OBVIOUS
<1>1. CASE UNCHANGED vars
  BY <1>1 DEF vars, base, UriTypeInv, TypeOK
<1>2. CASE ParseBase
  BY <1>2, BaseKeepsTypes
<1>3. CASE ParseHead
  BY <1>3, HeadKeepsTypes
<1>4. CASE UpperUnit
  BY <1>4 DEF UpperUnit, base, UriTypeInv, TypeOK
<1>5. CASE BareUnit
  BY <1>5 DEF BareUnit, base, UriTypeInv, TypeOK
<1>6. CASE NextUnit
  BY <1>6, UnitKeepsTypes
<1>7. CASE Use
  BY <1>7, UseKeepsTypes
<1>8. QED
  BY <1>1, <1>2, <1>3, <1>4, <1>5, <1>6, <1>7 DEF Next, Parse

-----------------------------------------------------------------------------
\* Units and their text.

\* What Spelled joins.
SpellUnit(u) == <<u.mRel>> \o u.mName
SpellUnits(elems) == [i \in 1 .. Len(elems) |-> SpellUnit(elems[i])]

\* A unit is spelled as a text.
LEMMA UnitIs ==
  ASSUME NEW u \in Unit
  PROVE  /\ u.mName \in Seq(Char) /\ u.mRel \in KRelTypesMarks /\ u.mRel \in Char
         /\ SpellUnit(u) \in Seq(Char)
<1>1. u.mName \in Seq(Char) /\ u.mRel \in KRelTypesMarks /\ u.mRel \in Char
  BY DEF Unit, Char
<1>2. <<u.mRel>> \in Seq(Char)
  BY <1>1
<1>3. <<u.mRel>> \o u.mName \in Seq(Char)
  BY <1>1, <1>2
<1>4. QED
  BY <1>1, <1>3 DEF SpellUnit

\* The lists that Spelled joins.
LEMMA SpellUnitsIs ==
  ASSUME NEW elems \in Seq(Unit)
  PROVE  /\ SpellUnits(elems) \in Seq(Seq(Char))
         /\ Spelled(elems) = FlattenSeq(SpellUnits(elems))
         /\ Spelled(elems) \in Seq(Char)
         /\ Len(SpellUnits(elems)) = Len(elems)
<1>1. Len(elems) \in Nat /\ \A i \in 1 .. Len(elems) : elems[i] \in Unit
  OBVIOUS
<1>2. \A i \in 1 .. Len(elems) : SpellUnit(elems[i]) \in Seq(Char)
  BY <1>1, UnitIs
<1>3. SpellUnits(elems) \in Seq(Seq(Char)) /\ Len(SpellUnits(elems)) = Len(elems)
  BY <1>1, <1>2 DEF SpellUnits
<1>4. Spelled(elems) = FlattenSeq(SpellUnits(elems))
  BY DEF Spelled, SpellUnits, SpellUnit
<1>5. PICK ss \in Seq(Seq(Char)) : ss = SpellUnits(elems)
  BY <1>3
<1>6. FlattenSeq(ss) \in Seq(Char)
  <2>1. << >> \in Seq(Char)
    OBVIOUS
  <2>2. QED
    BY <2>1, FlattenAppend
<1>7. QED
  BY <1>3, <1>4, <1>5, <1>6

\* One unit more is spelled behind the others.
LEMMA SpelledAppend ==
  ASSUME NEW elems \in Seq(Unit), NEW u \in Unit
  PROVE  Spelled(Append(elems, u)) = Spelled(elems) \o SpellUnit(u)
<1>1. PICK more : more = Append(elems, u)
  OBVIOUS
<1>2. /\ more \in Seq(Unit) /\ Len(more) = Len(elems) + 1 /\ more[Len(elems) + 1] = u
      /\ \A i \in 1 .. Len(elems) : more[i] = elems[i]
      /\ Len(elems) \in Nat
  BY <1>1, AppendProperties
<1>3. PICK ss \in Seq(Seq(Char)) : ss = SpellUnits(elems)
  BY SpellUnitsIs
<1>4. PICK tt \in Seq(Seq(Char)) : tt = SpellUnits(more)
  BY <1>2, SpellUnitsIs
<1>5. PICK x \in Seq(Char) : x = SpellUnit(u)
  BY UnitIs
<1>6. Len(ss) = Len(elems) /\ Len(tt) = Len(elems) + 1
  BY <1>2, <1>3, <1>4, SpellUnitsIs
<1>7. /\ \A i \in 1 .. Len(elems) : ss[i] = SpellUnit(elems[i])
      /\ \A i \in 1 .. Len(elems) + 1 : tt[i] = SpellUnit(more[i])
  BY <1>2, <1>3, <1>4 DEF SpellUnits
<1>8. \A i \in 1 .. Len(elems) : tt[i] = ss[i]
  BY <1>2, <1>7
<1>9. tt[Len(elems) + 1] = x
  BY <1>2, <1>5, <1>7
<1>10. tt = Append(ss, x)
  <2>1. /\ Append(ss, x) \in Seq(Seq(Char)) /\ Len(Append(ss, x)) = Len(elems) + 1
        /\ \A i \in 1 .. Len(elems) + 1 : Append(ss, x)[i] = IF i = Len(elems) + 1 THEN x ELSE ss[i]
    BY <1>2, <1>6
  <2>2. PICK n : n = Len(elems)
    OBVIOUS
  <2>3. \A i \in 1 .. n + 1 : i = n + 1 \/ i \in 1 .. n
    BY <1>2, <2>2
  <2>4. \A i \in 1 .. n + 1 : tt[i] = Append(ss, x)[i]
    BY <1>8, <1>9, <2>1, <2>2, <2>3
  <2>5. QED
    BY <1>6, <2>1, <2>2, <2>4, SeqEqual
<1>11. FlattenSeq(Append(ss, x)) = FlattenSeq(ss) \o x
  BY FlattenAppend
<1>12. QED
  BY <1>1, <1>2, <1>3, <1>4, <1>5, <1>10, <1>11, SpellUnitsIs

\* No units spell nothing.
LEMMA SpelledNone == Spelled(<< >>) = << >>
<1>1. Len(<< >>) = 0
  OBVIOUS
<1>2. [i \in 1 .. Len(<< >>) |-> <<(<< >>)[i].mRel>> \o (<< >>)[i].mName] = << >>
  BY <1>1
<1>3. FlattenSeq(<< >>) = << >>
  BY DEF FlattenSeq
<1>4. QED
  BY <1>2, <1>3 DEF Spelled

\* A part of one.
LEMMA PartOfOne ==
  ASSUME NEW S, NEW s \in Seq(S), NEW m \in 1 .. Len(s)
  PROVE  SubSeq(s, m, m) = <<s[m]>>
<1>1. PICK n, t, e : n = Len(s) /\ t = SubSeq(s, m, m) /\ e = s[m]
  OBVIOUS
<1>2. n \in Nat /\ m \in Nat \ {0} /\ m \in Int /\ m <= n /\ m + 1 - 1 = m /\ m - m + 1 = 1
        /\ e \in S
  BY <1>1
<1>3. t \in Seq(S) /\ Len(t) = 1 /\ t[1] = e
  BY <1>1, <1>2, PartIs
<1>4. <<e>> \in Seq(S) /\ Len(<<e>>) = 1 /\ <<e>>[1] = e
  BY <1>2
<1>5. PICK w : w = <<e>>
  OBVIOUS
<1>6. \A i \in 1 .. 1 : t[i] = w[i]
  BY <1>3, <1>4, <1>5
<1>7. t = w
  BY <1>3, <1>4, <1>5, <1>6, SeqEqual
<1>8. QED
  BY <1>1, <1>5, <1>7

-----------------------------------------------------------------------------
\* What has been parsed.

\* Where the units begin, those that are written, and what is read of the next.
Mark == IF hier[1] = "." /\ hier[2] # "." THEN 1 ELSE 0
Named == IF iElems # << >> /\ hier[1] # "." THEN Tail(iElems) ELSE iElems
Coming == IF pos = npos \/ rtype = KSepNone THEN << >> ELSE <<rtype>>

\* The units spell the text so far; without a relation there are none, and
\* behind one of a text without a '.' there is the root.
SpellInv ==
  /\ pc = "unit" => Len(hier) > 1
  /\ pc \in {"unit", "done"} /\ origin # "joined" /\ Len(hier) > 1 =>
       /\ Spelled(Named) \o Coming
            = SubSeq(hier, Mark + 1, IF pos = npos THEN Len(hier) ELSE pos)
       /\ pc = "unit" =>
            IF rtype = KSepNone THEN pos = Mark /\ iElems = << >>
                                ELSE Mark < pos /\ (hier[1] # "." => iElems # << >>)

\* It is so at the start of the loop.
LEMMA HeadKeepsSpelled ==
  ASSUME UriTypeInv, ParseHead
  PROVE  SpellInv'
<1>1. /\ hier \in Seq(Char) /\ pc = "head" /\ pos = 0 /\ iElems = << >>
      /\ UNCHANGED <<iUri, base, hier, iErr, other, origin, cmp>>
  BY DEF UriTypeInv, TypeOK, ParseHead
<1>2. Len(hier) \in Nat
  BY <1>1
<1>3. CASE Len(hier) <= 1
  <2>1. pc' = "done" /\ hier' = hier
    BY <1>1, <1>3 DEF ParseHead
  <2>2. ~(Len(hier) > 1)
    BY <1>2, <1>3
  <2>3. QED
    BY <2>1, <2>2 DEF SpellInv
<1>4. CASE ~(Len(hier) <= 1)
  <2> DEFINE sym == hier[Mark + 1] \in KRelTypesMarks
  <2>1. /\ rtype' = IF sym THEN hier[Mark + 1] ELSE KSepNone
        /\ pos' = IF sym THEN Mark + 1 ELSE Mark
        /\ iElems' = IF sym /\ hier[1] # "."
                       THEN <<[mName |-> << >>, mRel |-> rtype']>> ELSE << >>
        /\ pc' = "unit"
    BY <1>4 DEF ParseHead, Mark
  <2>2. Mark \in Nat /\ Mark < Len(hier) /\ Mark + 1 <= Len(hier) /\ Len(hier) > 1
    BY <1>2, <1>4 DEF Mark
  <2>3. Mark' = Mark /\ hier' = hier
    BY <1>1 DEF Mark
  <2>4. Named' = << >>
    <3>1. CASE sym /\ hier[1] # "."
      <4>1. PICK u : u = [mName |-> << >>, mRel |-> rtype']
        OBVIOUS
      <4>2. iElems' = <<u>>
        BY <2>1, <3>1, <4>1
      <4>3. <<u>> # << >> /\ Tail(<<u>>) = << >>
        OBVIOUS
      <4>4. QED
        BY <2>3, <3>1, <4>2, <4>3 DEF Named
    <3>2. CASE ~(sym /\ hier[1] # ".")
      BY <2>1, <3>2 DEF Named
    <3>3. QED
      BY <3>1, <3>2
  <2>5. Coming' = SubSeq(hier, Mark + 1, pos') /\ Coming' \in Seq(Char)
    <3>1. CASE sym
      <4>2. pos' = Mark + 1 /\ rtype' = hier[Mark + 1]
        BY <2>1, <3>1
      <4>3. hier[Mark + 1] # KSepNone
        BY <3>1 DEF KSepNone, KRelTypesMarks
      <4>4. pos' # npos
        BY <2>2, <4>2 DEF npos
      <4>1. Coming' = <<hier[Mark + 1]>>
        BY <4>2, <4>3, <4>4 DEF Coming
      <4> HIDE DEF sym
      <4>5. PICK m \in 1 .. Len(hier) : m = Mark + 1
        BY <1>2, <2>2
      <4>6. SubSeq(hier, m, m) = <<hier[m]>>
        BY <1>1, PartOfOne
      <4>7. <<hier[m]>> \in Seq(Char)
        BY <1>1
      <4>8. QED
        BY <4>1, <4>2, <4>5, <4>6, <4>7
    <3>2. CASE ~sym
      <4>1. Coming' = << >> /\ pos' = Mark
        BY <2>1, <3>2 DEF Coming
      <4>2. SubSeq(hier, Mark + 1, Mark) = << >> /\ << >> \in Seq(Char)
        BY <2>2
      <4>3. QED
        BY <4>1, <4>2
    <3>3. QED
      BY <3>1, <3>2
  <2>6. Spelled(Named') \o Coming' = Coming'
    BY <2>4, <2>5, SpelledNone
  <2>7. pos' # npos
    BY <2>1, <2>2 DEF npos
  <2>8. IF rtype' = KSepNone THEN pos' = Mark /\ iElems' = << >>
                             ELSE Mark < pos' /\ (hier[1] # "." => iElems' # << >>)
    <3>1. CASE sym
      <4>1. rtype' # KSepNone /\ pos' = Mark + 1
        BY <2>1, <3>1 DEF KSepNone, KRelTypesMarks
      <4>2. hier[1] # "." => iElems' # << >>
        BY <2>1, <3>1
      <4>3. Mark < pos'
        BY <2>2, <4>1
      <4>4. QED
        BY <4>1, <4>2, <4>3
    <3>2. CASE ~sym
      BY <2>1, <3>2
    <3>3. QED
      BY <3>1, <3>2
  <2> HIDE DEF sym
  <2>9. QED
    BY <2>1, <2>2, <2>3, <2>5, <2>6, <2>7, <2>8 DEF SpellInv
<1>5. QED
  BY <1>3, <1>4

\* It stays so with every turn of the loop.
LEMMA UnitKeepsSpelled ==
  ASSUME UriTypeInv, SpellInv, NextUnit
  PROVE  SpellInv'
<1> SUFFICES ASSUME origin # "joined" PROVE SpellInv'
  <2>1. CASE origin = "joined"
    BY <2>1 DEF SpellInv, NextUnit, base
  <2>2. QED
    BY <2>1
<1>1. /\ hier \in Seq(Char) /\ pc = "unit" /\ pos \in Nat /\ pos <= Len(hier)
      /\ iElems \in Seq(Unit)
      /\ rtype \in Rel /\ rtype # KSepNone
      /\ hier' = hier /\ origin' = origin
      /\ iElems' = Append(iElems, [mName |-> NextName, mRel |-> rtype])
      /\ IF NameEnd = npos
           THEN pos' = npos /\ pc' = "done" /\ UNCHANGED rtype
           ELSE /\ pos' = NameEnd + 1
                /\ rtype' = hier[NameEnd + 1]
                /\ pc' = IF pos' < Len(hier) THEN "unit" ELSE "done"
  BY DEF UriTypeInv, TypeOK, NextUnit, npos
<1>2. Len(hier) \in Nat /\ Len(hier) > 1
  BY <1>1 DEF SpellInv
<1>3. /\ Spelled(Named) \o <<rtype>> = SubSeq(hier, Mark + 1, pos)
      /\ Mark < pos /\ (hier[1] # "." => iElems # << >>)
  <2>1. /\ Spelled(Named) \o Coming = SubSeq(hier, Mark + 1, IF pos = npos THEN Len(hier) ELSE pos)
        /\ IF rtype = KSepNone THEN pos = Mark /\ iElems = << >>
                               ELSE Mark < pos /\ (hier[1] # "." => iElems # << >>)
    BY <1>1, <1>2 DEF SpellInv
  <2>2. pos # npos /\ Coming = <<rtype>>
    BY <1>1 DEF Coming, npos
  <2>3. QED
    BY <1>1, <2>1, <2>2
<1>4. /\ NameEnd = npos \/ (NameEnd \in Nat /\ pos <= NameEnd)
      /\ NameEnd < Len(hier) /\ NextName \in Seq(Char)
  BY <1>1, FoundIs DEF NameEnd, NextName
<1>5. NameEnd # npos => hier[NameEnd + 1] \in KRelTypesMarks
  BY <1>1, FindFirstOfIs DEF NameEnd
<1>6. PICK u \in Unit : u = [mName |-> NextName, mRel |-> rtype]
  BY <1>1, <1>4 DEF Unit, Rel
<1>7. SpellUnit(u) = <<rtype>> \o NextName
  BY <1>6 DEF SpellUnit
<1>8. iElems' = Append(iElems, u)
  BY <1>1, <1>6
<1>9. Named \in Seq(Unit) /\ Named' = Append(Named, u) /\ iElems' # << >>
  <2>0. Append(iElems, u) # << >>
    BY <1>1
  <2>1. CASE hier[1] # "."
    <3>1. iElems # << >> /\ Named = Tail(iElems)
      BY <1>3, <2>1 DEF Named
    <3>2. Tail(Append(iElems, u)) = Append(Tail(iElems), u) /\ Tail(iElems) \in Seq(Unit)
      BY <1>1, <3>1
    <3>3. Named' = Tail(iElems')
      BY <1>1, <1>8, <2>0, <2>1 DEF Named
    <3>4. QED
      BY <1>8, <2>0, <3>1, <3>2, <3>3
  <2>2. CASE hier[1] = "."
    BY <1>1, <1>8, <2>0, <2>2 DEF Named
  <2>3. QED
    BY <2>1, <2>2
<1>10. PICK e : e = IF NameEnd = npos THEN Len(hier) ELSE NameEnd
  OBVIOUS
<1>11. e \in pos .. Len(hier) /\ NextName = SubSeq(hier, pos + 1, e) /\ Mark \in 0 .. pos
       /\ pos \in Mark .. Len(hier) /\ Mark \in 0 .. Len(hier)
  <2>1. e \in pos .. Len(hier)
    BY <1>1, <1>2, <1>4, <1>10 DEF npos
  <2>2. NextName = SubSeq(hier, pos + 1, e)
    BY <1>10 DEF NextName, Substr
  <2>3. Mark \in Nat /\ Mark <= pos
    BY <1>1, <1>3 DEF Mark
  <2>4. QED
    BY <1>1, <1>2, <2>1, <2>2, <2>3
<1>12. Spelled(Named') = SubSeq(hier, Mark + 1, e)
  <2>1. PICK a \in Seq(Char), b \in Seq(Char), c \in Seq(Char) :
             a = Spelled(Named) /\ b = <<rtype>> /\ c = NextName
    <3>1. Spelled(Named) \in Seq(Char)
      BY <1>9, SpellUnitsIs
    <3>2. rtype \in Char
      BY <1>1 DEF Rel, Char
    <3>3. <<rtype>> \in Seq(Char)
      BY <3>2
    <3>4. QED
      BY <1>4, <3>1, <3>3
  <2>2. Spelled(Append(Named, u)) = a \o (b \o c)
    BY <1>7, <1>9, <2>1, SpelledAppend
  <2>3. (a \o b) \o c = a \o (b \o c)
    BY ConcatAssociative
  <2>4. a \o b = SubSeq(hier, Mark + 1, pos)
    BY <1>3, <2>1
  <2>5. SubSeq(hier, Mark + 1, pos) \o SubSeq(hier, pos + 1, e) = SubSeq(hier, Mark + 1, e)
    BY <1>1, <1>11, SplitAt
  <2>6. QED
    BY <1>9, <1>11, <2>1, <2>2, <2>3, <2>4, <2>5
<1>13. Mark' = Mark
  BY <1>1 DEF Mark
<1>14. Spelled(Named') \in Seq(Char)
  <2>1. Append(Named, u) \in Seq(Unit)
    BY <1>9
  <2>2. QED
    BY <1>9, <2>1, SpellUnitsIs
<1>15. CASE NameEnd = npos
  <2>1. Coming' = << >> /\ pos' = npos /\ pc' = "done" /\ e = Len(hier)
    BY <1>1, <1>10, <1>15 DEF Coming
  <2>2. Spelled(Named') \o Coming' = SubSeq(hier, Mark + 1, Len(hier))
    BY <1>12, <1>14, <2>1
  <2>3. QED
    BY <1>1, <1>2, <1>13, <2>1, <2>2 DEF SpellInv
<1>16. CASE NameEnd # npos
  <2>1. /\ e = NameEnd /\ e \in Nat /\ e + 1 \in 1 .. Len(hier) /\ pos' = e + 1
        /\ rtype' = hier[e + 1] /\ pc' \in {"unit", "done"} /\ pos' # npos
    BY <1>1, <1>2, <1>4, <1>10, <1>16 DEF npos
  <2>2. rtype' # KSepNone
    BY <1>5, <1>16, <2>1 DEF KSepNone, KRelTypesMarks
  <2>3. Coming' = <<hier[e + 1]>>
    BY <2>1, <2>2 DEF Coming
  <2>4. SubSeq(hier, e + 1, e + 1) = <<hier[e + 1]>>
    <3>1. PICK m \in 1 .. Len(hier) : m = e + 1
      BY <2>1
    <3>2. SubSeq(hier, m, m) = <<hier[m]>>
      BY <1>1, PartOfOne
    <3>3. QED
      BY <3>1, <3>2
  <2>5. SubSeq(hier, Mark + 1, e) \o SubSeq(hier, e + 1, e + 1) = SubSeq(hier, Mark + 1, e + 1)
    <3>1. Mark \in 0 .. Len(hier) /\ e \in Mark .. Len(hier) /\ e + 1 \in e .. Len(hier)
      BY <1>2, <1>11, <2>1
    <3>2. QED
      BY <1>1, <3>1, SplitAt
  <2>6. Spelled(Named') \o Coming' = SubSeq(hier, Mark + 1, pos')
    BY <1>12, <2>1, <2>3, <2>4, <2>5
  <2>7. Mark < pos'
    BY <1>3, <1>11, <2>1
  <2>8. QED
    BY <1>1, <1>2, <1>9, <1>13, <2>1, <2>2, <2>6, <2>7 DEF SpellInv
<1>17. QED
  BY <1>15, <1>16

\* Every step keeps it.
LEMMA NextSpelled == UriTypeInv /\ SpellInv /\ [Next]_vars => SpellInv'
<1> SUFFICES ASSUME UriTypeInv, SpellInv, [Next]_vars PROVE SpellInv'
  OBVIOUS
<1>0. ASSUME UNCHANGED <<hier, iElems, pos, rtype, pc, origin>> PROVE SpellInv'
  BY <1>0 DEF SpellInv, Named, Coming, Mark
<1>1. CASE UNCHANGED vars
  BY <1>0, <1>1 DEF vars
<1>2. CASE ParseBase
  BY <1>2 DEF ParseBase, SpellInv
<1>3. CASE ParseHead
  BY <1>3, HeadKeepsSpelled
<1>4. CASE UpperUnit
  <2>1. pc = "unit" /\ pc' = "done" /\ UNCHANGED <<hier, iElems, pos, rtype, origin>>
    BY <1>4 DEF UpperUnit
  <2>2. Mark' = Mark /\ Named' = Named /\ Coming' = Coming
    BY <2>1 DEF Mark, Named, Coming
  <2>3. QED
    BY <2>1, <2>2 DEF SpellInv
<1>5. CASE BareUnit
  BY <1>5 DEF BareUnit, SpellInv
<1>6. CASE NextUnit
  BY <1>6, UnitKeepsSpelled
<1>7. CASE Use
  <2>1. ASSUME NEW t, NEW why, Construct(t, why) PROVE SpellInv'
    BY <2>1 DEF Construct, SpellInv
  <2>2. CASE Render
    BY <2>1, <2>2 DEF Render
  <2>3. CASE Second
    BY <2>1, <2>3 DEF Second
  <2>4. ASSUME origin' = "joined", pc' # "unit"
        PROVE  SpellInv'
    BY <2>4 DEF SpellInv
  <2>5. CASE AppendUri
    <3>1. origin' = "joined" /\ pc' # "unit"
      BY <2>5 DEF AppendUri, Joinable
    <3>2. QED
      BY <2>4, <3>1
  <2>6. CASE PrependUri
    <3>1. origin' = "joined" /\ pc' # "unit"
      BY <2>6 DEF PrependUri, Joinable
    <3>2. QED
      BY <2>4, <3>1
  <2>7. ASSUME NEW start \in 0 .. Len(iElems), Compare(start)
        PROVE  SpellInv'
    <3>1. origin' = "joined" /\ pc' # "unit"
      BY <2>7 DEF Compare
    <3>2. QED
      BY <2>4, <3>1
  <2>8. CASE AppendTail
    <3>1. origin' = "joined" /\ pc' # "unit"
      BY <2>8 DEF AppendTail
    <3>2. QED
      BY <2>4, <3>1
  <2>9. QED
    BY <1>7, <2>2, <2>3, <2>5, <2>6, <2>7, <2>8 DEF Use
<1>8. QED
  BY <1>1, <1>2, <1>3, <1>4, <1>5, <1>6, <1>7 DEF Next, Parse

\* The property follows.
LEMMA SpellImplies == SpellInv => UnitsSpellText
  BY DEF SpellInv, UnitsSpellText, Mark, Named, Coming

\* It holds at first.
LEMMA InitSpelled == Init => SpellInv
  BY DEF Init, SpellInv

-----------------------------------------------------------------------------
\* Two uris.

\* Where Compare has found the other Uri, it is, unless that is behind the end.
FoundInv ==
  cmp.matched =>
    /\ pc = "done"
    /\ cmp.end <= Len(iElems) => other = SubSeq(iElems, cmp.end - Len(other) + 1, cmp.end)

\* What is the same from a place on is a part.
LEMMA SameIsPart ==
  ASSUME NEW S, NEW s \in Seq(S), NEW t \in Seq(S), NEW i \in Nat, i + Len(t) <= Len(s),
         \A j \in 1 .. Len(t) : s[i + j] = t[j]
  PROVE  t = SubSeq(s, i + 1, i + Len(t))
<1>1. PICK n : n = Len(t)
  OBVIOUS
<1>2. n \in Nat /\ Len(s) \in Nat /\ i + 1 \in Nat \ {0} /\ i + n \in Int /\ i + n <= Len(s)
  BY <1>1
<1>3. PICK w : w = SubSeq(s, i + 1, i + n)
  OBVIOUS
<1>4. /\ w \in Seq(S) /\ Len(w) = IF i + 1 <= i + n THEN i + n - (i + 1) + 1 ELSE 0
      /\ \A k \in 1 .. Len(w) : w[k] = s[(i + 1) + k - 1]
  <2>1. PICK l, m : l = i + 1 /\ m = i + n
    OBVIOUS
  <2>2. l \in Nat \ {0} /\ m \in Int
    BY <1>2, <2>1
  <2>3. m <= Len(s)
    BY <1>2, <2>1
  <2>4. w = SubSeq(s, l, m)
    BY <1>3, <2>1
  <2>5. /\ w \in Seq(S) /\ Len(w) = (IF l <= m THEN m - l + 1 ELSE 0)
        /\ \A k \in 1 .. Len(w) : w[k] = s[l + k - 1]
    BY <2>2, <2>3, <2>4, PartIs
  <2>6. QED
    BY <1>2, <2>1, <2>2, <2>5
<1>5. Len(w) = n
  BY <1>2, <1>4
<1>6. \A k \in 1 .. n : w[k] = t[k]
  <2> SUFFICES ASSUME NEW k \in 1 .. n PROVE w[k] = t[k]
    OBVIOUS
  <2>1. (i + 1) + k - 1 = i + k
    BY <1>2
  <2>2. QED
    BY <1>1, <1>4, <1>5, <2>1
<1>7. w = t
  BY <1>1, <1>4, <1>5, <1>6, SeqEqual
<1>8. QED
  BY <1>1, <1>3, <1>7

\* Compare finds it so.
LEMMA CompareFinds ==
  ASSUME UriTypeInv, NEW start \in 0 .. Len(iElems), Compare(start)
  PROVE  FoundInv'
<1>1. /\ iElems \in Seq(Unit) /\ other \in Seq(Unit) /\ Len(iElems) \in Nat /\ Len(other) \in Nat
      /\ start \in Nat
  BY DEF UriTypeInv, TypeOK
<1> DEFINE inside == {i \in 1 .. Len(other) : start + i <= Len(iElems)}
<1>2. /\ pc' = "done" /\ iElems' = iElems /\ other' = other
      /\ \/ /\ \A i \in inside : iElems[start + i] = other[i]
            /\ cmp' = [matched |-> TRUE, end |-> start + Len(other)]
         \/ cmp' = NoCompare
  BY DEF Compare
<1>3. CASE cmp' = NoCompare
  BY <1>3 DEF NoCompare, FoundInv
<1>4. CASE cmp' # NoCompare
  <2>1. cmp'.end = start + Len(other) /\ \A i \in inside : iElems[start + i] = other[i]
    BY <1>2, <1>4
  <2>2. ASSUME cmp'.end <= Len(iElems)
        PROVE  other = SubSeq(iElems, cmp'.end - Len(other) + 1, cmp'.end)
    <3>1. start + Len(other) <= Len(iElems)
      BY <2>1, <2>2
    <3>2. \A i \in 1 .. Len(other) : i \in inside
      BY <1>1, <3>1
    <3>3. \A i \in 1 .. Len(other) : iElems[start + i] = other[i]
      BY <2>1, <3>2
    <3>4. other = SubSeq(iElems, start + 1, start + Len(other))
      BY <1>1, <3>1, <3>3, SameIsPart
    <3>5. cmp'.end - Len(other) + 1 = start + 1
      BY <1>1, <2>1
    <3>6. QED
      BY <2>1, <3>4, <3>5
  <2>3. QED
    BY <1>2, <2>2 DEF FoundInv
<1>5. QED
  BY <1>3, <1>4

\* It stays so until one of them is changed.
LEMMA NextFound == UriTypeInv /\ FoundInv /\ [Next]_vars => FoundInv'
<1> SUFFICES ASSUME UriTypeInv, FoundInv, [Next]_vars PROVE FoundInv'
  OBVIOUS
<1>1. CASE UNCHANGED vars
  BY <1>1 DEF vars, FoundInv
<1>2. CASE Parse
  <2>1. pc # "done" /\ cmp' = cmp
    BY <1>2 DEF Parse, ParseBase, ParseHead, UpperUnit, BareUnit, NextUnit
  <2>2. QED
    BY <2>1 DEF FoundInv
<1>3. ASSUME cmp' = NoCompare
      PROVE  FoundInv'
  BY <1>3 DEF FoundInv, NoCompare
<1>4. CASE Render
  BY <1>3, <1>4 DEF Render, Construct
<1>5. CASE Second
  BY <1>3, <1>5 DEF Second, Construct
<1>6. CASE AppendUri
  <2>1. cmp' = NoCompare
    BY <1>6 DEF AppendUri
  <2>2. QED
    BY <1>3, <2>1
<1>7. CASE PrependUri
  <2>1. cmp' = NoCompare
    BY <1>7 DEF PrependUri
  <2>2. QED
    BY <1>3, <2>1
<1>8. CASE AppendTail
  <2>1. cmp' = NoCompare
    BY <1>8 DEF AppendTail
  <2>2. QED
    BY <1>3, <2>1
<1>9. CASE \E start \in 0 .. Len(iElems) : Compare(start)
  BY <1>9, CompareFinds
<1>10. QED
  BY <1>1, <1>2, <1>4, <1>5, <1>6, <1>7, <1>8, <1>9 DEF Next, Use

\* What a step between two ends of parsing does to the uris.
Joined ==
  pc = "done" /\ pc' = "done" =>
    /\ iElems' # iElems => iElems' \in {iElems \o other, other \o iElems}
    /\ other' # other => other' = SubSeq(iElems, cmp.end - Len(other) + 1, Len(iElems))

\* It joins them, or completes the other one.
LEMMA StepJoins == UriTypeInv /\ FoundInv /\ [Next]_vars => Joined
<1> SUFFICES ASSUME UriTypeInv, FoundInv, [Next]_vars PROVE Joined
  OBVIOUS
<1>0. iElems \in Seq(Unit) /\ other \in Seq(Unit) /\ Len(iElems) \in Nat /\ Len(other) \in Nat
  BY DEF UriTypeInv, TypeOK
<1>1. CASE iElems' = iElems /\ other' = other
  BY <1>1 DEF Joined
<1>2. CASE Parse
  BY <1>2 DEF Joined, Parse, ParseBase, ParseHead, UpperUnit, BareUnit, NextUnit
<1>3. CASE Render
  BY <1>3 DEF Joined, Render, Construct
<1>4. CASE Second
  BY <1>4 DEF Joined, Second, Construct
<1>5. CASE AppendUri
  <2>1. iElems' = AppendAll(iElems, other) /\ other' = other
    BY <1>5 DEF AppendUri, AppendAll
  <2>2. iElems' = iElems \o other
    BY <1>0, <2>1, FoldAppend
  <2>3. QED
    BY <2>1, <2>2 DEF Joined
<1>6. CASE PrependUri
  <2>1. iElems' = PrependAll(other, iElems) /\ other' = other
    BY <1>6 DEF PrependUri, PrependAll
  <2>2. iElems' = other \o iElems
    BY <1>0, <2>1, FoldPrepend
  <2>3. QED
    BY <2>1, <2>2 DEF Joined
<1>7. CASE AppendTail
  <2>1. /\ cmp.matched /\ cmp.end <= Len(iElems) /\ iElems' = iElems
        /\ other' = AppendAll(other, SubSeq(iElems, cmp.end + 1, Len(iElems)))
    BY <1>7 DEF AppendTail, AppendAll
  <2>2. /\ Len(other) <= cmp.end /\ cmp.end \in Int
        /\ other = SubSeq(iElems, cmp.end - Len(other) + 1, cmp.end)
    BY <2>1 DEF UriTypeInv, TypeOK, FoundInv, npos
  <2>3. PICK i, j, n, tail : /\ i = cmp.end - Len(other) /\ j = cmp.end /\ n = Len(iElems)
                             /\ tail = SubSeq(iElems, cmp.end + 1, Len(iElems))
    OBVIOUS
  <2>4. /\ i \in 0 .. n /\ j \in i .. n /\ n \in j .. n /\ n = Len(iElems)
        /\ j + 1 \in Nat \ {0} /\ n \in Int /\ n <= Len(iElems)
    <3>1. PICK l, m : l = Len(other) /\ m = Len(iElems)
      OBVIOUS
    <3>2. /\ l \in Nat /\ m \in Nat /\ j \in Int /\ i = j - l /\ n = m /\ l <= j /\ j <= m
      BY <1>0, <2>1, <2>2, <2>3, <3>1
    <3>3. i \in 0 .. n /\ j \in i .. n /\ n \in j .. n /\ j + 1 \in Nat \ {0} /\ n \in Int /\ n <= m
      BY <3>2
    <3>4. QED
      BY <3>1, <3>2, <3>3
  <2>5. tail \in Seq(Unit)
    BY <1>0, <2>3, <2>4, PartIs
  <2>6. other' = other \o tail
    BY <1>0, <2>1, <2>3, <2>5, FoldAppend
  <2>7. SubSeq(iElems, i + 1, j) \o SubSeq(iElems, j + 1, n) = SubSeq(iElems, i + 1, n)
    BY <1>0, <2>4, SplitAt
  <2>8. other = SubSeq(iElems, i + 1, j) /\ tail = SubSeq(iElems, j + 1, n)
    BY <2>2, <2>3
  <2>9. other' = SubSeq(iElems, cmp.end - Len(other) + 1, Len(iElems))
    BY <2>3, <2>6, <2>7, <2>8
  <2>10. QED
    BY <2>1, <2>9 DEF Joined
<1>8. CASE \E start \in 0 .. Len(iElems) : Compare(start)
  BY <1>1, <1>8 DEF Compare
<1>9. CASE UNCHANGED vars
  BY <1>1, <1>9 DEF vars
<1>10. QED
  BY <1>2, <1>3, <1>4, <1>5, <1>6, <1>7, <1>8, <1>9 DEF Next, Use

\* It holds at first.
LEMMA InitFound == Init => FoundInv
  BY DEF Init, FoundInv, NoCompare

-----------------------------------------------------------------------------
\* Path and fragment.

Slashes == <<"/", "/">>

\* A text starts with an authority if both slashes are there.
LEMMA StartsIs ==
  ASSUME NEW S, NEW s \in Seq(S)
  PROVE  IsPrefix(Slashes, s) <=> Len(s) >= 2 /\ s[1] = "/" /\ s[2] = "/"
<1>1. Len(Slashes) = 2 /\ SubSeq(Slashes, 1, 2) = Slashes
  <2>1. PICK t : t = Slashes
    OBVIOUS
  <2>2. t \in Seq({"/"}) /\ Len(t) = 2
    BY <2>1 DEF Slashes
  <2>3. SubSeq(t, 1, Len(t)) = t
    BY <2>2
  <2>4. QED
    BY <2>1, <2>2, <2>3
<1>2. CASE Len(s) >= 2
  <2>1. PICK t : t = SubSeq(s, 1, 2)
    OBVIOUS
  <2>2. t \in Seq(S) /\ Len(t) = 2 /\ t[1] = s[1] /\ t[2] = s[2]
    BY <1>2, <2>1
  <2>3. Slashes = t <=> t[1] = "/" /\ t[2] = "/"
    BY <2>2 DEF Slashes
  <2>4. QED
    BY <1>1, <1>2, <2>1, <2>2, <2>3 DEF IsPrefix
<1>3. CASE ~(Len(s) >= 2)
  BY <1>1, <1>3 DEF IsPrefix
<1>4. QED
  BY <1>2, <1>3

\* What is behind a place is a suffix of what is behind an earlier one.
LEMMA LaterIsSuffix ==
  ASSUME NEW S, NEW s \in Seq(S), NEW i \in 1 .. Len(s) + 1, NEW j \in i .. Len(s) + 1
  PROVE  IsSuffix(SubSeq(s, j, Len(s)), SubSeq(s, i, Len(s)))
<1>1. PICK n, a, b : n = Len(s) /\ a = SubSeq(s, j, n) /\ b = SubSeq(s, i, n)
  OBVIOUS
<1>2. n \in Nat /\ i \in Nat \ {0} /\ j \in Nat \ {0} /\ i <= j /\ j <= n + 1 /\ n \in Int
        /\ n <= Len(s)
  BY <1>1
<1>3. /\ a \in Seq(S) /\ Len(a) = IF j <= n THEN n - j + 1 ELSE 0
      /\ \A k \in 1 .. Len(a) : a[k] = s[j + k - 1]
      /\ b \in Seq(S) /\ Len(b) = IF i <= n THEN n - i + 1 ELSE 0
      /\ \A k \in 1 .. Len(b) : b[k] = s[i + k - 1]
  BY <1>1, <1>2, PartIs
<1>4. Len(a) = n - j + 1 /\ Len(b) = n - i + 1 /\ Len(a) <= Len(b) /\ Len(a) \in Nat
        /\ Len(b) \in Nat
  BY <1>2, <1>3
<1>5. PICK ra, rb : ra = Reverse(a) /\ rb = Reverse(b)
  OBVIOUS
<1>6. /\ ra \in Seq(S) /\ Len(ra) = Len(a) /\ \A k \in 1 .. Len(a) : ra[k] = a[Len(a) - k + 1]
      /\ rb \in Seq(S) /\ Len(rb) = Len(b) /\ \A k \in 1 .. Len(b) : rb[k] = b[Len(b) - k + 1]
  <2>1. ASSUME NEW t \in Seq(S)
        PROVE  /\ Reverse(t) \in Seq(S) /\ Len(Reverse(t)) = Len(t)
               /\ \A k \in 1 .. Len(t) : Reverse(t)[k] = t[Len(t) - k + 1]
    BY DEF Reverse
  <2>2. QED
    BY <1>3, <1>5, <2>1
<1>7. PICK p, q : p = SubSeq(ra, 1, Len(a)) /\ q = SubSeq(rb, 1, Len(a))
  OBVIOUS
<1>8. /\ p \in Seq(S) /\ Len(p) = Len(a) /\ \A k \in 1 .. Len(a) : p[k] = ra[k]
      /\ q \in Seq(S) /\ Len(q) = Len(a) /\ \A k \in 1 .. Len(a) : q[k] = rb[k]
  BY <1>4, <1>6, <1>7
<1>9. ASSUME NEW k \in 1 .. Len(a)
      PROVE  p[k] = q[k]
  <2>1. p[k] = a[Len(a) - k + 1] /\ q[k] = b[Len(b) - k + 1]
    BY <1>4, <1>6, <1>8
  <2>2. Len(a) - k + 1 \in 1 .. Len(a) /\ Len(b) - k + 1 \in 1 .. Len(b)
    BY <1>4
  <2>3. a[Len(a) - k + 1] = s[j + (Len(a) - k + 1) - 1]
          /\ b[Len(b) - k + 1] = s[i + (Len(b) - k + 1) - 1]
    BY <1>3, <2>2
  <2>4. j + (Len(a) - k + 1) - 1 = i + (Len(b) - k + 1) - 1
    BY <1>2, <1>4
  <2>5. QED
    BY <2>1, <2>3, <2>4
<1>10. p = q
  BY <1>4, <1>8, <1>9, SeqEqual
<1>11. IsPrefix(ra, rb)
  BY <1>4, <1>6, <1>7, <1>10 DEF IsPrefix
<1>12. QED
  BY <1>1, <1>5, <1>11 DEF IsSuffix

\* The parts of a text, by where its first ':' and its first '#' are.
LEMMA PathParts ==
  ASSUME NEW u \in Seq(Char)
  PROVE  LET colon  == FindFirstOf(u, {":"}, 0)
             hash   == FindFirstOf(u, {"#"}, 0)
             scheme == SubSeq(u, 1, colon + 1)
             frag   == IF hash = npos THEN << >> ELSE <<"#">> \o GetFrag(u)
             late   == hash # npos /\ colon > hash
         IN  /\ u = scheme \o GetPath(u) \o frag
                  <=> ~late /\ ~IsPrefix(Slashes, Substr(u, colon + 1, npos))
             /\ late => IsSuffix(GetPath(u), GetFrag(u))
<1>1. PICK n, c, h : n = Len(u) /\ c = FindFirstOf(u, {":"}, 0) /\ h = FindFirstOf(u, {"#"}, 0)
  OBVIOUS
<1>2. /\ n \in Nat
      /\ c = npos \/ (c \in 0 .. n - 1 /\ u[c + 1] = ":")
      /\ h = npos \/ (h \in 0 .. n - 1 /\ u[h + 1] = "#")
  BY <1>1, FindFirstOfIs
<1>3. c \in Int /\ h \in Int /\ c >= -1 /\ h >= -1 /\ c < n /\ h < n /\ c + 1 \in Nat
        /\ (h = npos \/ c # h)
  BY <1>2 DEF npos
<1>4. PICK e, rest, path, scheme : /\ e = (IF h < c + 1 THEN n ELSE h)
                                  /\ rest = SubSeq(u, c + 2, n)
                                  /\ path = SubSeq(u, c + 2, e)
                                  /\ scheme = SubSeq(u, 1, c + 1)
  OBVIOUS
<1>5. e \in Nat /\ e <= n /\ c + 1 <= e /\ (h < c + 1 => e = n) /\ (~(h < c + 1) => e = h)
        /\ c + 2 \in Nat \ {0}
  BY <1>2, <1>3, <1>4
<1>6. /\ rest \in Seq(Char) /\ Len(rest) = n - c - 1
      /\ \A k \in 1 .. n - c - 1 : rest[k] = u[c + 1 + k]
      /\ path \in Seq(Char) /\ Len(path) = e - c - 1
      /\ \A k \in 1 .. e - c - 1 : path[k] = u[c + 1 + k]
      /\ scheme \in Seq(Char) /\ Len(scheme) = c + 1
  <2>1. /\ rest \in Seq(Char) /\ Len(rest) = (IF c + 2 <= n THEN n - (c + 2) + 1 ELSE 0)
        /\ \A k \in 1 .. Len(rest) : rest[k] = u[(c + 2) + k - 1]
    <3>1. n \in Int /\ n <= Len(u)
      BY <1>1, <1>2
    <3>2. QED
      BY <1>4, <1>5, <3>1, PartIs
  <2>2. /\ path \in Seq(Char) /\ Len(path) = (IF c + 2 <= e THEN e - (c + 2) + 1 ELSE 0)
        /\ \A k \in 1 .. Len(path) : path[k] = u[(c + 2) + k - 1]
    <3>1. e \in Int /\ e <= Len(u)
      BY <1>1, <1>5
    <3>2. QED
      BY <1>4, <1>5, <3>1, PartIs
  <2>3. scheme \in Seq(Char) /\ Len(scheme) = c + 1
    <3>1. PICK d \in Int : d = c + 1 /\ d <= Len(u)
      BY <1>1, <1>3
    <3>2. scheme = SubSeq(u, 1, d) /\ 1 \in Nat \ {0}
      BY <1>4, <3>1
    <3>3. scheme \in Seq(Char) /\ Len(scheme) = IF 1 <= d THEN d - 1 + 1 ELSE 0
      BY <3>1, <3>2, PartIs
    <3>4. d >= 0
      BY <1>3, <3>1
    <3>5. QED
      BY <3>1, <3>3, <3>4
  <2>4. Len(rest) = n - c - 1 /\ Len(path) = e - c - 1 /\ Len(scheme) = c + 1
    BY <1>2, <1>3, <1>5, <2>1, <2>2, <2>3
  <2>5. ASSUME NEW k \in Nat
        PROVE  (c + 2) + k - 1 = c + 1 + k
    BY <1>3
  <2>6. ASSUME NEW k \in 1 .. n - c - 1
        PROVE  rest[k] = u[c + 1 + k]
    <3>1. rest[k] = u[(c + 2) + k - 1]
      BY <2>1, <2>4
    <3>2. QED
      BY <2>5, <3>1
  <2>7. ASSUME NEW k \in 1 .. e - c - 1
        PROVE  path[k] = u[c + 1 + k]
    <3>1. path[k] = u[(c + 2) + k - 1]
      BY <2>2, <2>4
    <3>2. QED
      BY <2>5, <3>1
  <2>8. QED
    BY <2>1, <2>2, <2>3, <2>4, <2>6, <2>7
<1>7. Substr(u, c + 1, npos) = rest
  <2>1. c + 1 + 1 = c + 2
    BY <1>3
  <2>2. QED
    BY <1>1, <1>4, <2>1 DEF Substr
<1>8. GetPath(u) = IF IsPrefix(Slashes, path) THEN << >> ELSE path
  <2>1. Substr(u, c + 1, IF h < c + 1 THEN npos ELSE h) = path
    <3>1. c + 1 + 1 = c + 2
      BY <1>3
    <3>2. ~(h < c + 1) => h # npos
      BY <1>3 DEF npos
    <3>3. QED
      BY <1>1, <1>4, <3>1, <3>2 DEF Substr
  <2>2. QED
    BY <1>1, <2>1 DEF GetPath, Slashes
<1>9. PICK frag : frag = IF h = npos THEN << >> ELSE <<"#">> \o GetFrag(u)
  OBVIOUS
<1>10. h # npos => /\ GetFrag(u) = SubSeq(u, h + 2, n) /\ GetFrag(u) \in Seq(Char)
                   /\ Len(GetFrag(u)) = n - h - 1
                   /\ frag = SubSeq(u, h + 1, n)
  <2> SUFFICES ASSUME h # npos
               PROVE  /\ GetFrag(u) = SubSeq(u, h + 2, n) /\ GetFrag(u) \in Seq(Char)
                      /\ Len(GetFrag(u)) = n - h - 1
                      /\ frag = SubSeq(u, h + 1, n)
    OBVIOUS
  <2>1. h \in 0 .. n - 1 /\ u[h + 1] = "#" /\ h + 1 + 1 = h + 2 /\ h \in Nat /\ h + 1 \in 1 .. n
    BY <1>2
  <2>2. GetFrag(u) = SubSeq(u, h + 2, n)
    BY <1>1, <2>1 DEF GetFrag, Substr
  <2>3. GetFrag(u) \in Seq(Char) /\ Len(GetFrag(u)) = IF h + 2 <= n THEN n - (h + 2) + 1 ELSE 0
    <3>1. h + 2 \in Nat \ {0} /\ n \in Int /\ n <= Len(u)
      BY <1>1, <1>2, <2>1
    <3>2. QED
      BY <2>2, <3>1, PartIs
  <2>4. Len(GetFrag(u)) = n - h - 1
    BY <1>2, <2>1, <2>3
  <2>5. SubSeq(u, h + 1, h + 1) = <<"#">>
    <3>1. PICK m \in 1 .. Len(u) : m = h + 1
      BY <1>1, <2>1
    <3>2. SubSeq(u, m, m) = <<u[m]>>
      BY PartOfOne
    <3>3. QED
      BY <2>1, <3>1, <3>2
  <2>6. SubSeq(u, h + 1, h + 1) \o SubSeq(u, (h + 1) + 1, n) = SubSeq(u, h + 1, n)
    <3>1. h \in 0 .. Len(u) /\ h + 1 \in h .. Len(u) /\ n \in h + 1 .. Len(u)
      BY <1>1, <1>2, <2>1
    <3>2. QED
      BY <3>1, SplitAt
  <2>7. QED
    BY <1>9, <2>1, <2>2, <2>3, <2>4, <2>5, <2>6
<1>11. /\ frag \in Seq(Char) /\ Len(frag) = IF h = npos THEN 0 ELSE n - h
       /\ h = npos => frag = << >>
  <2>1. CASE h = npos
    BY <1>9, <2>1
  <2>2. CASE h # npos
    <3>1. h \in Nat /\ h + 1 \in Nat \ {0} /\ n \in Int /\ n <= Len(u) /\ h + 1 <= n
      BY <1>1, <1>2, <2>2
    <3>2. PICK d \in Nat \ {0} : d = h + 1
      BY <3>1
    <3>3. frag = SubSeq(u, d, n)
      BY <1>10, <2>2, <3>2
    <3>4. frag \in Seq(Char) /\ Len(frag) = IF d <= n THEN n - d + 1 ELSE 0
      BY <3>1, <3>2, <3>3, PartIs
    <3>5. Len(frag) = n - h
      BY <3>1, <3>2, <3>4
    <3>6. QED
      BY <2>2, <3>4, <3>5
  <2>3. QED
    BY <2>1, <2>2
<1> DEFINE late == h # npos /\ c > h
<1>13. GetPath(u) \in Seq(Char)
  BY <1>6, <1>8
<1>14. PICK gp \in Seq(Char) : gp = GetPath(u)
  BY <1>13
<1>15. Len(scheme \o gp \o frag) = Len(scheme) + Len(gp) + Len(frag)
  <2>1. PICK sg \in Seq(Char) : sg = scheme \o gp /\ Len(sg) = Len(scheme) + Len(gp)
    BY <1>6, <1>14, ConcatProperties
  <2>2. Len(sg \o frag) = Len(sg) + Len(frag)
    BY <1>11, <2>1, ConcatProperties
  <2>3. QED
    BY <2>1, <2>2
<1>16. CASE late
  <2>1. h \in 0 .. n - 1 /\ c \in 0 .. n - 1 /\ h < c /\ h # npos
    BY <1>2, <1>3, <1>16 DEF npos
  <2>2. e = n /\ path = rest
    BY <1>4, <1>5, <2>1
  <2>3. Len(scheme \o gp \o frag) # n
    <3>1. Len(gp) = 0 \/ Len(gp) = n - c - 1
      BY <1>6, <1>8, <1>14, <2>2
    <3>2. Len(scheme) = c + 1 /\ Len(frag) = n - h
      BY <1>6, <1>11, <2>1
    <3>3. QED
      BY <1>2, <1>15, <2>1, <3>1, <3>2
  <2>4. u # scheme \o gp \o frag
    BY <1>1, <2>3
  <2>5. IsSuffix(gp, GetFrag(u))
    <3>1. GetFrag(u) = SubSeq(u, h + 2, n)
      BY <1>10, <2>1
    <3>2. n = Len(u) /\ h + 2 \in 1 .. n + 1
      BY <1>1, <1>2, <2>1
    <3>3. CASE gp = path
      <4>1. c + 2 \in h + 2 .. n + 1
        BY <1>2, <2>1
      <4>2. IsSuffix(SubSeq(u, c + 2, n), SubSeq(u, h + 2, n))
        BY <3>2, <4>1, LaterIsSuffix
      <4>3. QED
        BY <1>4, <2>2, <3>1, <3>3, <4>2
    <3>4. CASE gp = << >>
      <4>1. n + 1 \in h + 2 .. n + 1
        BY <1>2, <2>1
      <4>2. IsSuffix(SubSeq(u, n + 1, n), SubSeq(u, h + 2, n))
        BY <3>2, <4>1, LaterIsSuffix
      <4>3. SubSeq(u, n + 1, n) = << >>
        BY <1>2
      <4>4. QED
        BY <3>1, <3>4, <4>2, <4>3
    <3>5. QED
      BY <1>8, <1>14, <3>3, <3>4
  <2>6. QED
    BY <1>1, <1>4, <1>9, <1>14, <1>16, <2>4, <2>5
<1>17. CASE ~late
  <2>1. h = npos \/ (h \in 0 .. n - 1 /\ c < h)
    BY <1>2, <1>3, <1>17 DEF npos
  <2>2. (h = npos /\ e = n) \/ (h \in 0 .. n - 1 /\ e = h /\ c < h)
    BY <1>3, <1>5, <2>1 DEF npos
  <2>3. IsPrefix(Slashes, path) <=> IsPrefix(Slashes, rest)
    <3>1. CASE h = npos
      <4>0. e = n
        BY <1>3, <1>5, <3>1 DEF npos
      <4>1. path = rest
        BY <1>4, <4>0
      <4>2. QED
        BY <4>1
    <3>2. CASE h # npos
      <4>1. e = h /\ h \in 0 .. n - 1 /\ c < h /\ u[h + 1] = "#"
        BY <1>2, <2>2, <3>2
      <4>2. Len(path) >= 2 => path[1] = u[c + 1 + 1] /\ path[2] = u[c + 1 + 2]
        BY <1>3, <1>6, <4>1
      <4>3. Len(rest) >= 2 => rest[1] = u[c + 1 + 1] /\ rest[2] = u[c + 1 + 2]
        BY <1>2, <1>3, <1>6
      <4>4. Len(path) <= Len(rest)
        BY <1>2, <1>3, <1>5, <1>6
      <4>5. ASSUME Len(rest) >= 2, u[c + 1 + 1] = "/", u[c + 1 + 2] = "/"
            PROVE  Len(path) >= 2
        <5>1. h + 1 # c + 1 + 1 /\ h + 1 # c + 1 + 2
          BY <4>1, <4>5
        <5>2. QED
          BY <1>2, <1>3, <1>6, <4>1, <5>1
      <4>6. (Len(path) >= 2 /\ path[1] = "/" /\ path[2] = "/")
              <=> (Len(rest) >= 2 /\ rest[1] = "/" /\ rest[2] = "/")
        <5>1. ASSUME Len(path) >= 2 PROVE Len(rest) >= 2
          BY <1>2, <1>3, <1>5, <1>6, <5>1
        <5>2. QED
          BY <4>2, <4>3, <4>5, <5>1
      <4>7. QED
        BY <1>6, <4>6, StartsIs
    <3>3. QED
      BY <3>1, <3>2
  <2>4. CASE IsPrefix(Slashes, path)
    <3>1. gp = << >> /\ Len(path) >= 2
      BY <1>6, <1>8, <1>14, <2>4, StartsIs
    <3>2. Len(gp) = 0 /\ Len(scheme) = c + 1 /\ Len(path) = e - c - 1
      BY <1>6, <3>1
    <3>3. Len(frag) = n - e
      <4>1. CASE h = npos
        BY <1>11, <1>2, <2>2, <4>1 DEF npos
      <4>2. CASE h # npos
        BY <1>11, <2>2, <4>2
      <4>3. QED
        BY <4>1, <4>2
    <3>4. Len(scheme \o gp \o frag) # n
      BY <1>2, <1>3, <1>5, <1>15, <3>1, <3>2, <3>3
    <3>5. u # scheme \o gp \o frag
      BY <1>1, <3>4
    <3>6. QED
      BY <1>1, <1>4, <1>7, <1>9, <1>14, <1>17, <2>3, <2>4, <3>5
  <2>5. CASE ~IsPrefix(Slashes, path)
    <3>1. gp = path
      BY <1>8, <1>14, <2>5
    <3>2. scheme \o path = SubSeq(u, 1, e)
      <4>1. 0 \in 0 .. Len(u) /\ c + 1 \in 0 .. Len(u) /\ e \in c + 1 .. Len(u)
              /\ (c + 1) + 1 = c + 2 /\ 0 + 1 = 1
        BY <1>1, <1>2, <1>3, <1>5
      <4>2. SubSeq(u, 0 + 1, c + 1) \o SubSeq(u, (c + 1) + 1, e) = SubSeq(u, 0 + 1, e)
        BY <4>1, SplitAt
      <4>3. QED
        BY <1>4, <4>1, <4>2
    <3>3. SubSeq(u, 1, e) \o frag = u
      <4>1. CASE h = npos
        <5>1. e = n /\ frag = << >>
          BY <1>11, <2>2, <4>1 DEF npos
        <5>2. SubSeq(u, 1, n) = u /\ u \o << >> = u
          BY <1>1
        <5>3. QED
          BY <5>1, <5>2
      <4>2. CASE h # npos
        <5>1. e = h /\ frag = SubSeq(u, h + 1, n) /\ h \in 0 .. n - 1
          BY <1>10, <2>2, <4>2
        <5>2. 0 \in 0 .. Len(u) /\ h \in 0 .. Len(u) /\ n \in h .. Len(u) /\ 0 + 1 = 1
          BY <1>1, <1>2, <5>1
        <5>3. SubSeq(u, 0 + 1, h) \o SubSeq(u, h + 1, n) = SubSeq(u, 0 + 1, n)
          BY <5>2, SplitAt
        <5>4. SubSeq(u, 1, n) = u
          BY <1>1
        <5>5. QED
          BY <5>1, <5>2, <5>3, <5>4
      <4>3. QED
        BY <4>1, <4>2
    <3>4. u = scheme \o gp \o frag
      BY <3>1, <3>2, <3>3
    <3>5. QED
      BY <1>1, <1>4, <1>7, <1>9, <1>14, <1>17, <2>3, <2>5, <3>4
  <2>6. QED
    BY <2>4, <2>5
<1>18. QED
  BY <1>16, <1>17

\* Of the text of a Uri they are so.
LEMMA PathIs == UriTypeInv => PathAndFrag
<1> SUFFICES ASSUME UriTypeInv PROVE PathAndFrag
  OBVIOUS
<1>1. iUri \in Seq(Char)
  BY DEF UriTypeInv, TypeOK
<1>2. QED
  BY <1>1, PathParts DEF PathAndFrag, Slashes

-----------------------------------------------------------------------------
\* Units that are told apart in a text.

\* The characters of a name: what separates units ends it, and a query is not
\* parsed.
NameChar == Char \ (KRelTypesMarks \cup {"?"})

\* Units with such a name.
NamedUnit == [mName : Seq(NameChar), mRel : KRelTypesMarks]

\* A text of characters that are all in T.
LEMMA SeqOfFewer ==
  ASSUME NEW S, NEW s \in Seq(S), NEW T, \A i \in 1 .. Len(s) : s[i] \in T
  PROVE  s \in Seq(T)
<1>1. Len(s) \in Nat /\ s = [i \in 1 .. Len(s) |-> s[i]]
  OBVIOUS
<1>2. s \in [1 .. Len(s) -> T]
  BY <1>1
<1>3. QED
  BY <1>1, <1>2

\* A text of fewer characters is a text.
LEMMA SeqOfMore ==
  ASSUME NEW S, NEW T, S \subseteq T, NEW s \in Seq(S)
  PROVE  s \in Seq(T)
  BY SeqOfFewer

\* Named units are units.
LEMMA NamedIsUnit ==
  /\ NamedUnit \subseteq Unit
  /\ \A s \in Seq(NamedUnit) : s \in Seq(Unit)
<1>1. NamedUnit \subseteq Unit
  <2> SUFFICES ASSUME NEW u \in NamedUnit PROVE u \in Unit
    OBVIOUS
  <2>1. u.mName \in Seq(NameChar) /\ u.mRel \in KRelTypesMarks
          /\ u = [mName |-> u.mName, mRel |-> u.mRel]
    BY DEF NamedUnit
  <2>2. NameChar \subseteq Char
    BY DEF NameChar
  <2>3. u.mName \in Seq(Char)
    BY <2>1, <2>2, SeqOfMore
  <2>4. QED
    BY <2>1, <2>3 DEF Unit
<1>2. \A s \in Seq(NamedUnit) : s \in Seq(Unit)
  BY <1>1, SeqOfMore
<1>3. QED
  BY <1>1, <1>2

\* A text with a mark in it.
Cut(p, r, m) == p \o (<<r>> \o m)

\* A text is taken apart at the last mark in it.
LEMMA AtLastMark ==
  ASSUME NEW p \in Seq(Char), NEW q \in Seq(Char), NEW r \in KRelTypesMarks,
         NEW t \in KRelTypesMarks,
         NEW m \in Seq(NameChar), NEW l \in Seq(NameChar),
         Cut(p, r, m) = Cut(q, t, l)
  PROVE  p = q /\ r = t /\ m = l
<1>0. p \o (<<r>> \o m) = q \o (<<t>> \o l)
  BY DEF Cut
<1>1. r \in Char /\ t \in Char /\ m \in Seq(Char) /\ l \in Seq(Char)
  <2>1. NameChar \subseteq Char
    BY DEF NameChar
  <2>2. QED
    BY <2>1, SeqOfMore DEF Char
<1>2. PICK a, b, u : a = <<r>> \o m /\ b = <<t>> \o l /\ u = p \o a
  OBVIOUS
<1>3. /\ a \in Seq(Char) /\ Len(a) = Len(m) + 1 /\ a[1] = r
      /\ \A i \in 1 .. Len(m) : a[i + 1] = m[i]
      /\ b \in Seq(Char) /\ Len(b) = Len(l) + 1 /\ b[1] = t
      /\ \A i \in 1 .. Len(l) : b[i + 1] = l[i]
  <2>1. ASSUME NEW e \in Char, NEW s \in Seq(Char)
        PROVE  /\ <<e>> \o s \in Seq(Char) /\ Len(<<e>> \o s) = Len(s) + 1 /\ (<<e>> \o s)[1] = e
               /\ \A i \in 1 .. Len(s) : (<<e>> \o s)[i + 1] = s[i]
    OBVIOUS
  <2>2. QED
    BY <1>1, <1>2, <2>1
<1>4. Len(p) \in Nat /\ Len(q) \in Nat /\ Len(m) \in Nat /\ Len(l) \in Nat
  BY <1>1
<1>5. u = q \o b
  BY <1>0, <1>2
<1>6. /\ u \in Seq(Char) /\ Len(u) = Len(p) + Len(a)
      /\ \A i \in 1 .. Len(p) + Len(a) : u[i] = IF i <= Len(p) THEN p[i] ELSE a[i - Len(p)]
  BY <1>2, <1>3, ConcatProperties
<1>7. /\ Len(u) = Len(q) + Len(b)
      /\ \A i \in 1 .. Len(q) + Len(b) : u[i] = IF i <= Len(q) THEN q[i] ELSE b[i - Len(q)]
  BY <1>3, <1>5, ConcatProperties
<1>8. ASSUME NEW i \in Len(p) + 2 .. Len(u)
      PROVE  u[i] \notin KRelTypesMarks
  <2>1. PICK j : j = i - Len(p) - 1
    OBVIOUS
  <2>2. j \in 1 .. Len(m) /\ j + 1 = i - Len(p) /\ i \in 1 .. Len(p) + Len(a) /\ ~(i <= Len(p))
    BY <1>3, <1>4, <1>6, <2>1
  <2>3. u[i] = a[j + 1] /\ a[j + 1] = m[j]
    BY <1>3, <1>6, <2>2
  <2>4. m[j] \in NameChar
    BY <2>2
  <2>5. QED
    BY <2>3, <2>4 DEF NameChar
<1>9. ASSUME NEW i \in Len(q) + 2 .. Len(u)
      PROVE  u[i] \notin KRelTypesMarks
  <2>1. PICK j : j = i - Len(q) - 1
    OBVIOUS
  <2>2. j \in 1 .. Len(l) /\ j + 1 = i - Len(q) /\ i \in 1 .. Len(q) + Len(b) /\ ~(i <= Len(q))
    BY <1>3, <1>4, <1>7, <2>1
  <2>3. u[i] = b[j + 1] /\ b[j + 1] = l[j]
    BY <1>3, <1>7, <2>2
  <2>4. l[j] \in NameChar
    BY <2>2
  <2>5. QED
    BY <2>3, <2>4 DEF NameChar
<1>10. u[Len(p) + 1] = r /\ Len(p) + 1 \in 1 .. Len(u)
  <2>1. Len(p) + 1 \in 1 .. Len(p) + Len(a) /\ ~(Len(p) + 1 <= Len(p)) /\ Len(p) + 1 - Len(p) = 1
    BY <1>3, <1>4
  <2>2. u[Len(p) + 1] = a[Len(p) + 1 - Len(p)]
    BY <1>6, <2>1
  <2>3. QED
    BY <1>3, <1>6, <2>1, <2>2
<1>11. u[Len(q) + 1] = t /\ Len(q) + 1 \in 1 .. Len(u)
  <2>1. Len(q) + 1 \in 1 .. Len(q) + Len(b) /\ ~(Len(q) + 1 <= Len(q)) /\ Len(q) + 1 - Len(q) = 1
    BY <1>3, <1>4
  <2>2. u[Len(q) + 1] = b[Len(q) + 1 - Len(q)]
    BY <1>7, <2>1
  <2>3. QED
    BY <1>3, <1>7, <2>1, <2>2
<1>12. Len(p) = Len(q)
  <2>1. ~(Len(p) < Len(q))
    <3> SUFFICES ASSUME Len(p) < Len(q) PROVE FALSE
      OBVIOUS
    <3>1. Len(q) + 1 \in Len(p) + 2 .. Len(u)
      BY <1>4, <1>6, <1>3, <1>11
    <3>2. QED
      BY <1>8, <1>11, <3>1
  <2>2. ~(Len(q) < Len(p))
    <3> SUFFICES ASSUME Len(q) < Len(p) PROVE FALSE
      OBVIOUS
    <3>1. Len(p) + 1 \in Len(q) + 2 .. Len(u)
      BY <1>4, <1>6, <1>3, <1>10
    <3>2. QED
      BY <1>9, <1>10, <3>1
  <2>3. QED
    BY <1>4, <2>1, <2>2
<1>13. r = t /\ Len(m) = Len(l)
  BY <1>3, <1>4, <1>6, <1>7, <1>10, <1>11, <1>12
<1>14. p = q
  <2>1. \A i \in 1 .. Len(p) : i \in 1 .. Len(p) + Len(a) /\ i \in 1 .. Len(q) + Len(b)
          /\ i <= Len(p)
    BY <1>3, <1>4, <1>12
  <2>2. \A i \in 1 .. Len(p) : p[i] = q[i]
    BY <1>6, <1>7, <1>12, <2>1
  <2>3. QED
    BY <1>12, <2>2, SeqEqual
<1>15. m = l
  <2>1. ASSUME NEW i \in 1 .. Len(m)
        PROVE  m[i] = l[i]
    <3>1. PICK k : k = Len(p) + 1 + i
      OBVIOUS
    <3>2. k \in 1 .. Len(p) + Len(a) /\ k \in 1 .. Len(q) + Len(b) /\ ~(k <= Len(p))
            /\ ~(k <= Len(q))
          /\ k - Len(p) = i + 1 /\ k - Len(q) = i + 1 /\ i \in 1 .. Len(l)
      BY <1>3, <1>4, <1>12, <1>13, <3>1
    <3>3. u[k] = a[i + 1] /\ u[k] = b[i + 1]
      BY <1>6, <1>7, <3>2
    <3>4. QED
      BY <1>3, <3>2, <3>3
  <2>2. QED
    BY <1>1, <1>13, <2>1, SeqEqual
<1>16. QED
  BY <1>13, <1>14, <1>15

\* The last unit of a list, and those before it.
IsLast(elems, s, u) ==
  /\ elems = Append(s, u)
  /\ Len(elems) = Len(s) + 1
  /\ Spelled(elems) = Spelled(s) \o SpellUnit(u)

\* A list of one unit or more is the last one behind the others.
LEMMA SpelledLast ==
  ASSUME NEW S, S \subseteq Unit, NEW elems \in Seq(S), elems # << >>
  PROVE  \E s \in Seq(S), u \in S : IsLast(elems, s, u)
<1>1. PICK n : n = Len(elems)
  OBVIOUS
<1>2. n \in Nat /\ n # 0 /\ n \in 1 .. Len(elems)
  BY <1>1
<1>3. PICK s \in Seq(S), u \in S : s = SubSeq(elems, 1, n - 1) /\ u = elems[n]
  BY <1>2, PrefixGrows
<1>4. elems = Append(s, u)
  <2>1. SubSeq(elems, 1, n) = Append(s, u)
    BY <1>2, <1>3, PrefixGrows
  <2>2. SubSeq(elems, 1, n) = elems
    BY <1>1
  <2>3. QED
    BY <2>1, <2>2
<1>5. s \in Seq(Unit) /\ u \in Unit
  BY SeqOfMore
<1>6. Spelled(Append(s, u)) = Spelled(s) \o SpellUnit(u)
  BY <1>5, SpelledAppend
<1>7. Len(Append(s, u)) = Len(s) + 1
  OBVIOUS
<1>8. QED
  BY <1>4, <1>6, <1>7 DEF IsLast

\* The same of units with such names.
LEMMA NamedLast ==
  ASSUME NEW elems \in Seq(NamedUnit), elems # << >>
  PROVE  \E s \in Seq(NamedUnit), u \in NamedUnit : IsLast(elems, s, u)
<1>1. NamedUnit \subseteq Unit
  BY NamedIsUnit
<1>2. QED
  BY <1>1, SpelledLast

\* The last units of two lists that are spelled the same are the same, and so are
\* the units before them.
LEMMA LastOnce ==
  ASSUME NEW x \in Seq(NamedUnit), NEW y \in Seq(NamedUnit), x # << >>, y # << >>,
         Spelled(x) = Spelled(y)
  PROVE  \E s, t \in Seq(NamedUnit), u \in NamedUnit :
           /\ x = Append(s, u) /\ y = Append(t, u) /\ Len(x) = Len(s) + 1
           /\ Spelled(s) = Spelled(t)
<1>0. NamedUnit \subseteq Unit /\ \A s \in Seq(NamedUnit) : s \in Seq(Unit)
  BY NamedIsUnit
<1>3. PICK s \in Seq(NamedUnit), u \in NamedUnit :
           x = Append(s, u) /\ Len(x) = Len(s) + 1 /\ Spelled(x) = Spelled(s) \o SpellUnit(u)
  BY NamedLast DEF IsLast
<1>4. PICK t \in Seq(NamedUnit), v \in NamedUnit :
           y = Append(t, v) /\ Spelled(y) = Spelled(t) \o SpellUnit(v)
  BY NamedLast DEF IsLast
<1>5. PICK p \in Seq(Char), q \in Seq(Char) : p = Spelled(s) /\ q = Spelled(t)
  BY <1>0, SpellUnitsIs
<1>6. /\ u.mRel \in KRelTypesMarks /\ u.mName \in Seq(NameChar)
      /\ u = [mName |-> u.mName, mRel |-> u.mRel]
      /\ v.mRel \in KRelTypesMarks /\ v.mName \in Seq(NameChar)
      /\ v = [mName |-> v.mName, mRel |-> v.mRel]
  BY DEF NamedUnit
<1>7. PICK r \in KRelTypesMarks, k \in KRelTypesMarks, m \in Seq(NameChar), l \in Seq(NameChar) :
           r = u.mRel /\ k = v.mRel /\ m = u.mName /\ l = v.mName
  BY <1>6
<1>8. p \o (<<r>> \o m) = q \o (<<k>> \o l)
  BY <1>3, <1>4, <1>5, <1>7 DEF SpellUnit
<1>9. p = q /\ r = k /\ m = l
  <2>1. PICK a, b, c, d : a = <<r>> \o m /\ b = <<k>> \o l /\ c = p \o a /\ d = q \o b
    OBVIOUS
  <2>2. c = d
    BY <1>8, <2>1
  <2>3. c = Cut(p, r, m) /\ d = Cut(q, k, l)
    BY <2>1 DEF Cut
  <2>4. Cut(p, r, m) = Cut(q, k, l)
    BY <2>2, <2>3
  <2>5. QED
    BY <2>4, AtLastMark
<1>10. u = v
  BY <1>6, <1>7, <1>9
<1>11. QED
  BY <1>3, <1>4, <1>5, <1>9, <1>10

\* Units whose names hold no mark are known by how they are spelled.
LEMMA SpelledOnce ==
  ASSUME NEW a \in Seq(NamedUnit), NEW b \in Seq(NamedUnit), Spelled(a) = Spelled(b)
  PROVE  a = b
<1> DEFINE J == {n \in Nat : \A x, y \in Seq(NamedUnit) :
                               Len(x) = n /\ Spelled(x) = Spelled(y) => x = y}
<1>0. NamedUnit \subseteq Unit /\ \A s \in Seq(NamedUnit) : s \in Seq(Unit)
  BY NamedIsUnit
<1>1. ASSUME NEW x \in Seq(NamedUnit), x # << >>
      PROVE  Spelled(x) # << >>
  <2>1. PICK s \in Seq(NamedUnit), u \in NamedUnit : Spelled(x) = Spelled(s) \o SpellUnit(u)
    BY <1>1, NamedLast DEF IsLast
  <2>2. Spelled(s) \in Seq(Char) /\ u \in Unit
    BY <1>0, SpellUnitsIs
  <2>3. <<u.mRel>> \in Seq(Char) /\ u.mName \in Seq(Char)
    BY <2>2, UnitIs
  <2>4. PICK p \in Seq(Char), m \in Seq(Char), r \in Char :
               p = Spelled(s) /\ m = u.mName /\ r = u.mRel
    BY <2>2, <2>3, UnitIs
  <2>5. Len(p \o (<<r>> \o m)) = Len(p) + (1 + Len(m)) /\ Len(p) \in Nat /\ Len(m) \in Nat
    OBVIOUS
  <2>6. Spelled(x) = p \o (<<r>> \o m)
    BY <2>1, <2>4 DEF SpellUnit
  <2>7. QED
    BY <2>5, <2>6
<1>2. 0 \in J
  <2>1. ASSUME NEW x \in Seq(NamedUnit), NEW y \in Seq(NamedUnit),
               Len(x) = 0, Spelled(x) = Spelled(y)
        PROVE  x = y
    <3>1. x = << >>
      BY <2>1
    <3>2. Spelled(y) = << >>
      BY <2>1, <3>1, SpelledNone
    <3>3. QED
      BY <1>1, <3>1, <3>2
  <2>2. QED
    BY <2>1
<1>3. ASSUME NEW n \in J
      PROVE  n + 1 \in J
  <2>1. n \in Nat
    OBVIOUS
  <2>2. ASSUME NEW x \in Seq(NamedUnit), NEW y \in Seq(NamedUnit),
               Len(x) = n + 1, Spelled(x) = Spelled(y)
        PROVE  x = y
    <3>1. x # << >>
      BY <2>1, <2>2
    <3>2. y # << >>
      BY <1>1, <2>2, <3>1, SpelledNone
    <3>3. PICK s, z \in Seq(NamedUnit), u \in NamedUnit :
               /\ x = Append(s, u) /\ y = Append(z, u) /\ Len(x) = Len(s) + 1
               /\ Spelled(s) = Spelled(z)
      <4> HIDE DEF J
      <4>1. QED
        BY <2>2, <3>1, <3>2, LastOnce
    <3>4. Len(s) = n
      BY <2>1, <2>2, <3>3
    <3>5. s = z
      BY <3>3, <3>4
    <3>6. QED
      BY <3>3, <3>5
  <2>3. QED
    BY <2>1, <2>2
<1>4. Len(a) \in J
  <2> HIDE DEF J
  <2>1. J \in SUBSET Nat /\ Len(a) \in Nat
    BY DEF J
  <2>2. QED
    BY <1>2, <1>3, <2>1, NatInduced
<1>5. QED
  BY <1>4

\* What units are spelled with.
LEMMA SpelledIn ==
  ASSUME NEW elems \in Seq(Unit), NEW T,
         \A i \in 1 .. Len(elems) : elems[i].mRel \in T /\ elems[i].mName \in Seq(T)
  PROVE  Spelled(elems) \in Seq(T)
<1>1. ASSUME NEW i \in 1 .. Len(elems)
      PROVE  SpellUnit(elems[i]) \in Seq(T)
  <2>1. PICK r \in T, m \in Seq(T) : r = elems[i].mRel /\ m = elems[i].mName
    OBVIOUS
  <2>2. <<r>> \o m \in Seq(T)
    OBVIOUS
  <2>3. QED
    BY <2>1, <2>2 DEF SpellUnit
<1>2. Len(elems) \in Nat
  OBVIOUS
<1>3. PICK ss \in Seq(Seq(T)) : ss = SpellUnits(elems)
  <2>1. SpellUnits(elems) \in Seq(Seq(T))
    BY <1>1, <1>2 DEF SpellUnits
  <2>2. QED
    BY <2>1
<1>4. FlattenSeq(ss) \in Seq(T)
  <2>1. << >> \in Seq(T)
    OBVIOUS
  <2>2. QED
    BY <2>1, FlattenAppend
<1>5. QED
  BY <1>3, <1>4, SpellUnitsIs

\* The ends of two texts that are one behind the other.
LEMMA ConcatEnds ==
  ASSUME NEW S, NEW p \in Seq(S), NEW q \in Seq(S), Len(q) # 0
  PROVE  /\ p \o q \in Seq(S) /\ Len(p \o q) = Len(p) + Len(q) /\ Len(p) \in Nat /\ Len(q) \in Nat
         /\ (p \o q)[1] = IF Len(p) = 0 THEN q[1] ELSE p[1]
         /\ (p \o q)[Len(p \o q)] = q[Len(q)]
<1>1. /\ p \o q \in Seq(S) /\ Len(p \o q) = Len(p) + Len(q)
      /\ \A i \in 1 .. Len(p) + Len(q) : (p \o q)[i] = IF i <= Len(p) THEN p[i] ELSE q[i - Len(p)]
  BY ConcatProperties
<1>2. /\ Len(p) \in Nat /\ Len(q) \in Nat /\ 1 \in 1 .. Len(p) + Len(q)
      /\ Len(p) + Len(q) \in 1 .. Len(p) + Len(q)
  OBVIOUS
<1>3. (p \o q)[1] = IF Len(p) = 0 THEN q[1] ELSE p[1]
  BY <1>1, <1>2
<1>4. (p \o q)[Len(p) + Len(q)] = q[Len(q)]
  <2>1. ~(Len(p) + Len(q) <= Len(p)) /\ Len(p) + Len(q) - Len(p) = Len(q)
    BY <1>2
  <2>2. QED
    BY <1>1, <1>2, <2>1
<1>5. QED
  BY <1>1, <1>2, <1>3, <1>4

\* The first character of units that are spelled.
LEMMA SpelledFirst ==
  ASSUME NEW elems \in Seq(Unit), elems # << >>
  PROVE  /\ Spelled(elems) \in Seq(Char) /\ Len(Spelled(elems)) \in Nat \ {0}
         /\ Spelled(elems)[1] = elems[1].mRel
<1> DEFINE Starts(s) == Len(Spelled(s)) # 0 /\ Spelled(s)[1] = s[1].mRel
           J == {s \in Seq(Unit) : s # << >> => Starts(s)}
<1>1. << >> \in J
  OBVIOUS
<1>2. ASSUME NEW s \in J, NEW u \in Unit
      PROVE  Append(s, u) \in J
  <2>1. s \in Seq(Unit)
    OBVIOUS
  <2>2. PICK r \in Char, m \in Seq(Char), p \in Seq(Char) :
               r = u.mRel /\ m = u.mName /\ p = Spelled(s)
    BY <2>1, UnitIs, SpellUnitsIs
  <2>3. PICK t : t = Append(s, u)
    OBVIOUS
  <2>4. t \in Seq(Unit) /\ t[1] = IF s = << >> THEN u ELSE s[1]
    BY <2>1, <2>3
  <2>5. PICK q : q = <<r>> \o m
    OBVIOUS
  <2>6. q \in Seq(Char) /\ Len(q) = 1 + Len(m) /\ q[1] = r /\ Len(m) \in Nat
    BY <2>5
  <2>7. Spelled(t) = p \o q
    BY <2>1, <2>2, <2>3, <2>5, SpelledAppend DEF SpellUnit
  <2>8. Len(p \o q) = Len(p) + Len(q) /\ Len(p) \in Nat
        /\ (p \o q)[1] = IF Len(p) = 0 THEN q[1] ELSE p[1]
    <3>1. PICK x \in Seq(Char), y \in Seq(Char) : x = p /\ y = q
      BY <2>6
    <3>2. Len(y) # 0
      BY <2>6, <3>1
    <3>3. Len(x \o y) = Len(x) + Len(y) /\ Len(x) \in Nat
          /\ (x \o y)[1] = IF Len(x) = 0 THEN y[1] ELSE x[1]
      BY <3>2, ConcatEnds
    <3>4. QED
      BY <3>1, <3>3
  <2>9. CASE s = << >>
    <3>1. Len(p) = 0
      BY <2>2, <2>9, SpelledNone
    <3>2. Len(p \o q) # 0 /\ (p \o q)[1] = r
      BY <2>6, <2>8, <3>1
    <3>3. Starts(t)
      BY <2>2, <2>4, <2>7, <2>9, <3>2
    <3> HIDE DEF Starts
    <3>4. QED
      BY <2>3, <2>4, <3>3
  <2>10. CASE s # << >>
    <3>1. Len(p) # 0 /\ p[1] = s[1].mRel
      BY <2>2, <2>10
    <3>2. Len(p \o q) # 0 /\ (p \o q)[1] = p[1]
      BY <2>6, <2>8, <3>1
    <3>3. Starts(t)
      BY <2>4, <2>7, <2>10, <3>1, <3>2
    <3> HIDE DEF Starts
    <3>4. QED
      BY <2>3, <2>4, <3>3
  <2>11. QED
    BY <2>9, <2>10
<1>3. J \in SUBSET Seq(Unit)
  OBVIOUS
<1>4. ASSUME NEW k \in 1 .. Len(elems), SubSeq(elems, 1, k - 1) \in J
      PROVE  SubSeq(elems, 1, k) \in J
  <2> HIDE DEF J
  <2>1. elems[k] \in Unit /\ SubSeq(elems, 1, k) = Append(SubSeq(elems, 1, k - 1), elems[k])
    BY PrefixGrows
  <2>2. QED
    BY <1>2, <1>4, <2>1
<1>5. elems \in J
  <2> HIDE DEF J
  <2>1. QED
    BY <1>1, <1>3, <1>4, PrefixInduced
<1>6. Spelled(elems) \in Seq(Char)
  BY SpellUnitsIs
<1>7. QED
  BY <1>5, <1>6

\* Five texts, as a uri grows by one unit and as its units are spelled.
Grown(a, b, c, d, e) == ((a \o b) \o c) \o (d \o e)
InUnits(a, b, c, d, e) == (a \o (b \o (c \o d))) \o e

LEMMA Regrouped ==
  ASSUME NEW S, NEW a \in Seq(S), NEW b \in Seq(S), NEW c \in Seq(S), NEW d \in Seq(S),
         NEW e \in Seq(S)
  PROVE  Grown(a, b, c, d, e) = InUnits(a, b, c, d, e)
<1>1. PICK ab, cd : ab = a \o b /\ cd = c \o d
  OBVIOUS
<1>2. ab \in Seq(S) /\ cd \in Seq(S)
  BY <1>1
<1>3. PICK bcd, abc, left : bcd = b \o cd /\ abc = ab \o c /\ left = abc \o d
  OBVIOUS
<1>4. bcd \in Seq(S) /\ abc \in Seq(S) /\ left \in Seq(S)
  BY <1>2, <1>3
<1>5. abc \o (d \o e) = (abc \o d) \o e
  <2>1. PICK x \in Seq(S) : x = abc
    BY <1>4
  <2>2. (x \o d) \o e = x \o (d \o e)
    BY ConcatAssociative
  <2>3. QED
    BY <2>1, <2>2
<1>6. abc \o d = ab \o cd
  <2>1. PICK x \in Seq(S) : x = ab
    BY <1>2
  <2>2. (x \o c) \o d = x \o (c \o d)
    BY ConcatAssociative
  <2>3. QED
    BY <1>1, <1>3, <2>1, <2>2
<1>7. ab \o cd = a \o bcd
  <2>1. PICK x \in Seq(S) : x = cd
    BY <1>2
  <2>2. (a \o b) \o x = a \o (b \o x)
    BY ConcatAssociative
  <2>3. QED
    BY <1>1, <1>3, <2>1, <2>2
<1>8. ((a \o b) \o c) \o (d \o e) = (a \o (b \o (c \o d))) \o e
  BY <1>1, <1>3, <1>5, <1>6, <1>7
<1>9. QED
  BY <1>8 DEF Grown, InUnits

\* The uris that are read back: units that are all related by ':', the last of
\* them with a name, and no '#' in them.
Readable(elems) ==
  /\ elems # << >>
  /\ Last(elems).mName # << >>
  /\ \A i \in 1 .. Len(elems) : elems[i].mRel = ":" /\ ~Contains(elems[i].mName, "#")

\* What such a uri starts with as it is rendered, and the units that follow.
Lead(elems) == IF elems[1].mName # << >> THEN <<".">> ELSE << >>
FirstSpelled(elems) == IF elems[1].mName # << >> THEN 1 ELSE 2

\* A part of a list that grows at its end.
LEMMA PartGrows ==
  ASSUME NEW S, NEW s \in Seq(S), NEW j \in Nat \ {0}, NEW h \in Nat, h + 1 <= Len(s), j <= h + 1
  PROVE  SubSeq(s, j, h + 1) = Append(SubSeq(s, j, h), s[h + 1])
<1>1. PICK a, b, e : a = SubSeq(s, j, h + 1) /\ b = SubSeq(s, j, h) /\ e = s[h + 1]
  OBVIOUS
<1>2. Len(s) \in Nat /\ h + 1 \in 1 .. Len(s)
  OBVIOUS
<1>3. /\ a \in Seq(S) /\ Len(a) = h + 1 - j + 1 /\ \A k \in 1 .. Len(a) : a[k] = s[j + k - 1]
      /\ b \in Seq(S) /\ Len(b) = h - j + 1 /\ \A k \in 1 .. Len(b) : b[k] = s[j + k - 1]
      /\ e \in S
  <2>1. /\ a \in Seq(S) /\ Len(a) = (IF j <= h + 1 THEN h + 1 - j + 1 ELSE 0)
        /\ \A k \in 1 .. Len(a) : a[k] = s[j + k - 1]
    <3>1. PICK i \in Int : i = h + 1 /\ i <= Len(s)
      OBVIOUS
    <3>2. a = SubSeq(s, j, i)
      BY <1>1, <3>1
    <3>3. /\ a \in Seq(S) /\ Len(a) = (IF j <= i THEN i - j + 1 ELSE 0)
          /\ \A k \in 1 .. Len(a) : a[k] = s[j + k - 1]
      BY <3>1, <3>2, PartIs
    <3>4. QED
      BY <3>1, <3>3
  <2>2. /\ b \in Seq(S) /\ Len(b) = (IF j <= h THEN h - j + 1 ELSE 0)
        /\ \A k \in 1 .. Len(b) : b[k] = s[j + k - 1]
    <3>1. h \in Int /\ h <= Len(s)
      BY <1>2
    <3>2. QED
      BY <1>1, <3>1, PartIs
  <2>3. e \in S
    BY <1>1, <1>2
  <2>4. Len(b) = h - j + 1
    BY <2>2
  <2>5. QED
    BY <2>1, <2>2, <2>3, <2>4
<1>4. /\ Append(b, e) \in Seq(S) /\ Len(Append(b, e)) = Len(b) + 1
      /\ \A k \in 1 .. Len(b) : Append(b, e)[k] = b[k]
      /\ Append(b, e)[Len(b) + 1] = e
  <2>1. PICK x \in Seq(S), y \in S : x = b /\ y = e
    BY <1>3
  <2>2. /\ Append(x, y) \in Seq(S) /\ Len(Append(x, y)) = Len(x) + 1
        /\ \A k \in 1 .. Len(x) : Append(x, y)[k] = x[k]
        /\ Append(x, y)[Len(x) + 1] = y
    BY AppendProperties
  <2>3. QED
    BY <2>1, <2>2
<1>5. PICK c : c = Append(b, e)
  OBVIOUS
<1>6. PICK l : l = Len(b)
  OBVIOUS
<1>7. l \in Nat /\ Len(c) = l + 1 /\ Len(a) = l + 1 /\ j + (l + 1) - 1 = h + 1
  BY <1>3, <1>4, <1>5, <1>6
<1>8. ASSUME NEW k \in 1 .. l + 1
      PROVE  a[k] = c[k]
  <2>1. a[k] = s[j + k - 1]
    BY <1>3, <1>7
  <2>2. CASE k = l + 1
    BY <1>1, <1>4, <1>5, <1>6, <1>7, <2>1, <2>2
  <2>3. CASE k # l + 1
    <3>1. k \in 1 .. l
      BY <1>7, <2>3
    <3>2. c[k] = b[k] /\ b[k] = s[j + k - 1]
      BY <1>3, <1>4, <1>5, <1>6, <3>1
    <3>3. QED
      BY <2>1, <3>2
  <2>4. QED
    BY <2>2, <2>3
<1>9. a = c
  BY <1>3, <1>4, <1>5, <1>7, <1>8, SeqEqual
<1>10. QED
  BY <1>1, <1>5, <1>9

\* The mark of the current node is a '.' before the relation.
LEMMA DotBefore ==
  ASSUME NEW m \in Seq(Char)
  PROVE  <<".", ":">> \o m = <<".">> \o (<<":">> \o m)
<1>1. "." \in Char /\ ":" \in Char
  BY DEF Char, KRelTypesMarks
<1>2. PICK t : t = <<".", ":">>
  OBVIOUS
<1>3. t \in Seq(Char) /\ Len(t) = 2 /\ t[1] = "." /\ t[2] = ":"
  BY <1>1, <1>2
<1>4. SubSeq(t, 1, Len(t)) \o m = <<t[1]>> \o (SubSeq(t, 1 + 1, Len(t)) \o m)
  <2>1. PICK k \in 1 .. Len(t) : k = 1
    BY <1>3
  <2>2. SubSeq(t, k, Len(t)) \o m = <<t[k]>> \o (SubSeq(t, k + 1, Len(t)) \o m)
    BY <1>3, GrowsBefore
  <2>3. QED
    BY <2>1, <2>2
<1>5. SubSeq(t, 1 + 1, Len(t)) = <<t[2]>>
  <2>1. PICK k \in 1 .. Len(t) : k = 2
    BY <1>3
  <2>2. SubSeq(t, k, k) = <<t[k]>>
    BY <1>3, PartOfOne
  <2>3. 1 + 1 = 2
    OBVIOUS
  <2>4. QED
    BY <1>3, <2>1, <2>2, <2>3
<1>6. SubSeq(t, 1, Len(t)) = t
  BY <1>3
<1>7. QED
  BY <1>2, <1>3, <1>4, <1>5, <1>6

\* It is rendered as its units are spelled, behind a '.' or without the root.
LEMMA RenderedIs ==
  ASSUME NEW elems \in Seq(Unit), Readable(elems)
  PROVE  GetUri(elems) = Lead(elems) \o Spelled(SubSeq(elems, FirstSpelled(elems), Len(elems)))
<1>1. PICK n, j, pre : n = Len(elems) /\ j = FirstSpelled(elems) /\ pre = Lead(elems)
  OBVIOUS
<1>0. j \in Nat \ {0}
  BY <1>1 DEF FirstSpelled
<1>2. /\ n \in Nat \ {0} /\ n = Len(elems) /\ j \in {1, 2} /\ pre \in Seq(Char)
      /\ IF elems[1].mName # << >> THEN j = 1 /\ pre = <<".">> ELSE j = 2 /\ pre = << >>
  <2>1. "." \in Char
    BY DEF Char
  <2>2. <<".">> \in Seq(Char) /\ << >> \in Seq(Char)
    BY <2>1
  <2>3. Len(elems) \in Nat \ {0}
    BY DEF Readable
  <2>4. QED
    BY <1>1, <2>2, <2>3 DEF FirstSpelled, Lead
<1>3. \A i \in 1 .. n : elems[i] \in Unit /\ elems[i].mName \in Seq(Char) /\ elems[i].mRel = ":"
  BY <1>1, UnitIs DEF Readable
<1> DEFINE colon(i) == IF i < n THEN <<":">> ELSE << >>
           done(i) == Spelled(SubSeq(elems, j, i))
<1>4. PICK pp \in Seq(Seq(Char)) : pp = [i \in 1 .. n |-> Piece(elems, i)]
  BY <1>1, GetUriIs
<1>5. Len(pp) = n /\ GetUri(elems) = FlattenSeq(pp)
  BY <1>1, <1>2, <1>4, GetUriIs
<1>6. PICK f \in [Nat -> Seq(Char)] :
           /\ f[0] = << >>
           /\ \A k \in Nat : k < Len(pp) => f[k + 1] = f[k] \o pp[k + 1]
           /\ FlattenSeq(pp) = f[Len(pp)]
  BY Flattening
<1>7. ":" \in Char /\ \A i \in Nat : colon(i) \in Seq(Char)
  <2>1. ":" \in Char
    BY DEF Char, KRelTypesMarks
  <2>2. <<":">> \in Seq(Char) /\ << >> \in Seq(Char)
    BY <2>1
  <2>3. QED
    BY <2>1, <2>2
<1>8. ASSUME NEW i \in Nat
      PROVE  i \in 1 .. n => SubSeq(elems, j, i) \in Seq(Unit) /\ done(i) \in Seq(Char)
  <2> SUFFICES ASSUME i \in 1 .. n PROVE SubSeq(elems, j, i) \in Seq(Unit) /\ done(i) \in Seq(Char)
    OBVIOUS
  <2>0. i \in 1 .. n
    OBVIOUS
  <2>1. j \in Nat \ {0} /\ i \in Int /\ i <= Len(elems)
    <3>1. j \in Nat \ {0}
      BY <1>0
    <3>2. n \in Nat /\ n = Len(elems)
      BY <1>2
    <3>3. i <= n /\ i \in Int
      BY <2>0, <3>2
    <3>4. QED
      BY <3>1, <3>2, <3>3
  <2>2. SubSeq(elems, j, i) \in Seq(Unit)
    BY <2>1, PartIs
  <2>3. QED
    BY <2>2, SpellUnitsIs
<1> DEFINE So(k) == k + 1 <= n => f[k + 1] = (pre \o done(k + 1)) \o colon(k + 1)
           J == {k \in Nat : So(k)}
<1>9. So(0)
  <2>1. f[1] = f[0] \o pp[1] /\ pp[1] = Piece(elems, 1) /\ pp[1] \in Seq(Char)
    <3>1. 1 \in 1 .. n /\ n \in Nat
      BY <1>2
    <3>2. pp[1] = Piece(elems, 1)
      BY <1>4, <3>1
    <3>3. pp[1] \in Seq(Char)
      BY <1>5, <3>1
    <3>4. 0 < Len(pp) /\ 0 \in Nat /\ 0 + 1 = 1
      BY <1>5, <3>1
    <3>5. f[0 + 1] = f[0] \o pp[0 + 1]
      BY <1>6, <3>4
    <3>6. QED
      BY <3>2, <3>3, <3>4, <3>5
  <2>2. f[1] = Piece(elems, 1)
    BY <1>6, <2>1
  <2>3. PICK m \in Seq(Char) : m = elems[1].mName
    BY <1>2, <1>3
  <2>4. PICK c \in Seq(Char) : c = colon(1)
    BY <1>7
  <2>5. elems[1] \in Unit /\ elems[1].mRel = ":"
    BY <1>2, <1>3
  <2>6. CASE m # << >>
    <3>1. Piece(elems, 1) = (<<".", ":">> \o m) \o c
      BY <1>1, <2>3, <2>4, <2>5, <2>6 DEF Piece
    <3>2. done(1) = <<":">> \o m
      <4>1. SubSeq(elems, 1, 1) = <<elems[1]>>
        <5>1. PICK i \in 1 .. Len(elems) : i = 1
          BY <1>2
        <5>2. SubSeq(elems, i, i) = <<elems[i]>>
          BY PartOfOne
        <5>3. QED
          BY <5>1, <5>2
      <4>2. PICK u \in Unit : u = elems[1]
        BY <2>5
      <4>3. Append(<< >>, u) = <<u>> /\ << >> \in Seq(Unit)
        OBVIOUS
      <4>4. Spelled(<<u>>) = Spelled(<< >>) \o SpellUnit(u)
        BY <4>3, SpelledAppend
      <4>5. SpellUnit(u) = <<":">> \o m /\ SpellUnit(u) \in Seq(Char)
        BY <2>3, <2>5, <4>2, UnitIs DEF SpellUnit
      <4>6. << >> \o (<<":">> \o m) = <<":">> \o m
        BY <4>5
      <4>7. Spelled(<<u>>) = <<":">> \o m
        BY <4>4, <4>5, <4>6, SpelledNone
      <4>8. j = 1
        BY <1>2, <2>3, <2>6
      <4>9. QED
        BY <4>1, <4>2, <4>7, <4>8
    <3>3. pre = <<".">>
      BY <1>2, <2>3, <2>6
    <3>4. <<".", ":">> \o m = <<".">> \o (<<":">> \o m)
      BY DotBefore
    <3>5. f[1] = (pre \o done(1)) \o colon(1)
      BY <2>2, <2>4, <3>1, <3>2, <3>3, <3>4
    <3> HIDE DEF done, colon
    <3>6. 0 + 1 = 1
      OBVIOUS
    <3>7. QED
      BY <3>5, <3>6
  <2>7. CASE m = << >>
    <3>1. Piece(elems, 1) = (<< >> \o << >>) \o c
      BY <1>1, <2>3, <2>4, <2>5, <2>7 DEF Piece
    <3>2. j = 2 /\ pre = << >>
      BY <1>2, <2>3, <2>7
    <3>3. done(1) = << >>
      <4>1. SubSeq(elems, 2, 1) = << >>
        OBVIOUS
      <4>2. QED
        BY <3>2, <4>1, SpelledNone
    <3>4. f[1] = (pre \o done(1)) \o colon(1)
      BY <2>2, <2>4, <3>1, <3>2, <3>3
    <3> HIDE DEF done, colon
    <3>6. 0 + 1 = 1
      OBVIOUS
    <3>7. QED
      BY <3>4, <3>6
  <2>8. QED
    BY <2>6, <2>7
<1>10. ASSUME NEW k \in Nat, So(k)
       PROVE  So(k + 1)
  <2>0. SUFFICES ASSUME (k + 1) + 1 <= n
                 PROVE  f[(k + 1) + 1] = (pre \o done((k + 1) + 1)) \o colon((k + 1) + 1)
    OBVIOUS
  <2>1. PICK h, i : h = k + 1 /\ i = (k + 1) + 1
    OBVIOUS
  <2>2. h \in Nat /\ h < n /\ h + 1 = i /\ i \in 1 .. n /\ h \in 1 .. n /\ i # 1 /\ i \in Nat
          /\ i - 1 = h
    <3>1. n \in Nat
      BY <1>2
    <3> HIDE DEF So
    <3>2. QED
      BY <2>0, <2>1, <3>1
  <2>3. f[h] = (pre \o done(h)) \o <<":">>
    <3>1. k + 1 <= n /\ k + 1 = h
      BY <2>1, <2>2
    <3>2. f[k + 1] = (pre \o done(k + 1)) \o colon(k + 1)
      BY <1>10, <3>1
    <3>3. colon(h) = <<":">>
      BY <2>2
    <3> HIDE DEF done, colon
    <3>4. QED
      BY <3>1, <3>2, <3>3
  <2>4. f[i] = f[h] \o pp[i] /\ pp[i] = Piece(elems, i)
    BY <1>4, <1>5, <1>6, <2>2
  <2>5. PICK a \in Seq(Char), c \in Seq(Char), m \in Seq(Char), d \in Seq(Char), b \in Seq(Char) :
             a = pre /\ b = done(h) /\ c = <<":">> /\ m = elems[i].mName /\ d = colon(i)
    <3>1. <<":">> \in Seq(Char)
      BY <1>7
    <3>2. elems[i].mName \in Seq(Char) /\ colon(i) \in Seq(Char) /\ done(h) \in Seq(Char)
      BY <1>3, <1>7, <1>8, <2>2
    <3> HIDE DEF done, colon
    <3>3. QED
      BY <1>2, <3>1, <3>2
  <2>6. Piece(elems, i) = m \o d
    <3>1. Piece(elems, i) = (<< >> \o m) \o d
      BY <1>1, <2>2, <2>5 DEF Piece
    <3>2. << >> \o m = m
      OBVIOUS
    <3>3. QED
      BY <3>1, <3>2
  <2>7. done(i) = b \o (c \o m)
    <3>1. elems[i] \in Unit /\ elems[i].mRel = ":"
      BY <1>3, <2>2
    <3>2. PICK u \in Unit : u = elems[i]
      BY <3>1
    <3>3. SpellUnit(u) = c \o m
      BY <2>5, <3>1, <3>2 DEF SpellUnit
    <3>4. SubSeq(elems, j, i) = Append(SubSeq(elems, j, h), u)
      <4>1. PICK l \in Nat \ {0} : l = j
        BY <1>0
      <4>2. h + 1 <= Len(elems) /\ l <= h + 1
        BY <1>2, <2>2, <4>1
      <4>3. SubSeq(elems, l, h + 1) = Append(SubSeq(elems, l, h), elems[h + 1])
        BY <2>2, <4>2, PartGrows
      <4>4. QED
        BY <2>2, <3>2, <4>1, <4>3
    <3>5. SubSeq(elems, j, h) \in Seq(Unit)
      BY <1>8, <2>2
    <3>6. QED
      BY <2>5, <3>3, <3>4, <3>5, SpelledAppend
  <2>8. ((a \o b) \o c) \o (m \o d) = (a \o (b \o (c \o m))) \o d
    <3>1. Grown(a, b, c, m, d) = InUnits(a, b, c, m, d)
      BY Regrouped
    <3>2. QED
      BY <3>1 DEF Grown, InUnits
  <2>9. f[i] = (a \o (b \o (c \o m))) \o d
    BY <2>3, <2>4, <2>5, <2>6, <2>8
  <2> HIDE DEF done, colon
  <2>10. QED
    BY <2>1, <2>5, <2>7, <2>9
<1>11. \A k \in Nat : So(k)
  <2>1. 0 \in J
    BY <1>9
  <2>2. \A k \in J : k + 1 \in J
    <3> HIDE DEF So
    <3>1. QED
      BY <1>10
  <2>3. J \in SUBSET Nat
    OBVIOUS
  <2> HIDE DEF J
  <2>4. \A k \in Nat : k \in J
    BY <2>1, <2>2, <2>3, NatInduced
  <2>5. QED
    BY <2>4 DEF J
<1>12. f[n] = (pre \o done(n)) \o colon(n)
  <2>1. PICK k \in Nat : k + 1 = n
    <3>1. n - 1 \in Nat /\ (n - 1) + 1 = n
      BY <1>2
    <3>2. QED
      BY <3>1
  <2>2. So(k)
    BY <1>11
  <2>3. k + 1 <= n
    BY <1>2, <2>1
  <2> HIDE DEF done, colon
  <2>4. QED
    BY <2>1, <2>2, <2>3
<1>13. done(n) \in Seq(Char) /\ colon(n) = << >>
  BY <1>2, <1>8
<1>14. PICK z \in Seq(Char) : z = done(n)
  BY <1>13
<1>15. (pre \o z) \o << >> = pre \o z
  BY <1>2
<1>16. QED
  BY <1>1, <1>5, <1>6, <1>12, <1>13, <1>14, <1>15

\* What a text that is read back looks like: no character ends a part of it, it
\* ends in a name, and it starts with the mark of the current node or the root.
ReadText(elems, u) ==
  /\ u \in Seq(Char) /\ Len(u) > 1
  /\ \A i \in 1 .. Len(u) : u[i] \notin {"#", "?"}
  /\ u[Len(u)] \notin KRelTypesMarks
  /\ IF elems[1].mName # << >>
       THEN u[1] = "." /\ u[2] = ":" /\ SubSeq(u, 2, Len(u)) = Spelled(elems)
       ELSE u[1] = ":" /\ u = Spelled(Tail(elems)) /\ Len(elems) > 1

\* One character and a text.
LEMMA OneBefore ==
  ASSUME NEW S, NEW c \in S, NEW w \in Seq(S)
  PROVE  /\ <<c>> \o w \in Seq(S) /\ Len(<<c>> \o w) = Len(w) + 1 /\ (<<c>> \o w)[1] = c
         /\ Len(w) > 0 => (<<c>> \o w)[2] = w[1] /\ (<<c>> \o w)[Len(w) + 1] = w[Len(w)]
         /\ SubSeq(<<c>> \o w, 2, Len(<<c>> \o w)) = w
<1>1. PICK u : u = <<c>> \o w
  OBVIOUS
<1>2. u \in Seq(S) /\ Len(u) = Len(w) + 1 /\ u[1] = c /\ \A i \in 1 .. Len(w) : u[i + 1] = w[i]
  BY <1>1
<1>3. Len(w) \in Nat
  OBVIOUS
<1>4. ASSUME Len(w) > 0
      PROVE  u[2] = w[1] /\ u[Len(w) + 1] = w[Len(w)]
  <2>1. 1 \in 1 .. Len(w) /\ Len(w) \in 1 .. Len(w) /\ 1 + 1 = 2
    BY <1>3, <1>4
  <2>2. u[1 + 1] = w[1] /\ u[Len(w) + 1] = w[Len(w)]
    BY <1>2, <2>1
  <2>3. QED
    BY <2>1, <2>2
<1>5. SubSeq(u, 2, Len(u)) = w
  <2>1. PICK t, n : t = SubSeq(u, 2, n) /\ n = Len(u)
    OBVIOUS
  <2>2. n \in Int /\ n <= Len(u) /\ n = Len(w) + 1 /\ 2 \in Nat \ {0}
    BY <1>2, <1>3, <2>1
  <2>3. /\ t \in Seq(S) /\ Len(t) = (IF 2 <= n THEN n - 2 + 1 ELSE 0)
        /\ \A k \in 1 .. Len(t) : t[k] = u[2 + k - 1]
    BY <1>2, <2>1, <2>2, PartIs
  <2>4. Len(t) = Len(w)
    BY <1>3, <2>2, <2>3
  <2>5. ASSUME NEW k \in 1 .. Len(w)
        PROVE  t[k] = w[k]
    <3>1. t[k] = u[2 + k - 1] /\ 2 + k - 1 = k + 1
      BY <1>3, <2>3, <2>4
    <3>2. QED
      BY <1>2, <3>1
  <2>6. t = w
    BY <2>3, <2>4, <2>5, SeqEqual
  <2>7. QED
    BY <2>1, <2>6
<1>6. QED
  BY <1>1, <1>2, <1>4, <1>5

\* A readable uri is rendered as such a text.
LEMMA RenderedReads ==
  ASSUME NEW elems \in Seq(NamedUnit), Readable(elems)
  PROVE  ReadText(elems, GetUri(elems))
<1> DEFINE T == Char \ {"#", "?"}
<1>1. elems \in Seq(Unit)
  BY NamedIsUnit
<1>2. PICK n, j, u, pre, q : /\ n = Len(elems) /\ j = FirstSpelled(elems) /\ u = GetUri(elems)
                             /\ pre = Lead(elems) /\ q = SubSeq(elems, j, n)
  OBVIOUS
<1>3. n \in Nat \ {0} /\ Len(elems) \in Nat /\ elems[n].mName # << >>
  BY <1>1, <1>2 DEF Readable, Last
<1>4. /\ j = 1 \/ (j = 2 /\ n > 1)
      /\ IF elems[1].mName # << >> THEN j = 1 /\ pre = <<".">> ELSE j = 2 /\ pre = << >> /\ n > 1
  <2>1. CASE elems[1].mName # << >>
    BY <1>2, <2>1 DEF FirstSpelled, Lead
  <2>2. CASE elems[1].mName = << >>
    <3>1. n # 1
      BY <1>3, <2>2
    <3>2. n > 1
      BY <1>3, <3>1
    <3>3. QED
      BY <1>2, <2>2, <3>2 DEF FirstSpelled, Lead
  <2>3. QED
    BY <2>1, <2>2
<1>5. /\ q \in Seq(Unit) /\ Len(q) = n - j + 1 /\ \A k \in 1 .. n - j + 1 : q[k] = elems[j + k - 1]
      /\ Len(q) > 0
  <2>1. j \in Nat \ {0} /\ n \in Int /\ n <= Len(elems) /\ j <= n
    BY <1>2, <1>3, <1>4
  <2>2. /\ q \in Seq(Unit) /\ Len(q) = (IF j <= n THEN n - j + 1 ELSE 0)
        /\ \A k \in 1 .. Len(q) : q[k] = elems[j + k - 1]
    BY <1>1, <1>2, <2>1, PartIs
  <2>3. QED
    BY <2>1, <2>2
<1>6. PICK w \in Seq(Char) : w = Spelled(q)
  BY <1>5, SpellUnitsIs
<1>7. u = pre \o w
  BY <1>1, <1>2, <1>6, RenderedIs
<1>8. ASSUME NEW i \in 1 .. n
      PROVE  elems[i].mRel = ":" /\ elems[i].mName \in Seq(T) /\ elems[i].mName \in Seq(NameChar)
  <2>1. elems[i].mRel = ":" /\ ~Contains(elems[i].mName, "#")
    BY <1>2 DEF Readable
  <2>2. elems[i] \in NamedUnit
    BY <1>2
  <2>3. PICK m \in Seq(NameChar) : m = elems[i].mName
    BY <2>2 DEF NamedUnit
  <2>4. \A k \in 1 .. Len(m) : m[k] \in T
    <3> SUFFICES ASSUME NEW k \in 1 .. Len(m) PROVE m[k] \in T
      OBVIOUS
    <3>1. m[k] \in NameChar
      OBVIOUS
    <3>2. m[k] # "#"
      BY <2>1, <2>3 DEF Contains
    <3>3. QED
      BY <3>1, <3>2 DEF NameChar
  <2>5. m \in Seq(T)
    <3> HIDE DEF T
    <3>1. QED
      BY <2>4, SeqOfFewer
  <2>6. QED
    BY <2>1, <2>3, <2>5
<1>9. ":" \in T /\ "." \in T /\ T \subseteq Char
  BY DEF Char, KRelTypesMarks
<1>10. w \in Seq(T)
  <2>1. ASSUME NEW k \in 1 .. Len(q)
        PROVE  q[k].mRel \in T /\ q[k].mName \in Seq(T)
    <3>1. PICK i : i = j + k - 1
      OBVIOUS
    <3>2. i \in 1 .. n /\ q[k] = elems[i]
      <4>1. k \in 1 .. n - j + 1 /\ n \in Nat /\ j \in 1 .. 2
        BY <1>3, <1>4, <1>5
      <4>2. i \in 1 .. n
        BY <3>1, <4>1
      <4>3. QED
        BY <1>5, <3>1, <4>1, <4>2
    <3> HIDE DEF T
    <3>3. QED
      BY <1>8, <1>9, <3>2
  <2> HIDE DEF T
  <2>2. QED
    BY <1>5, <1>6, <2>1, SpelledIn
<1>11. /\ Len(w) > 1 /\ Len(w) \in Nat /\ w[1] = ":" /\ w[Len(w)] \notin KRelTypesMarks
  <2>0. Len(q) \in 1 .. Len(q) /\ q # << >>
    BY <1>5
  <2>1. PICK s \in Seq(Unit), e \in Unit :
               q = Append(s, e) /\ Len(q) = Len(s) + 1 /\ w = Spelled(s) \o SpellUnit(e)
    <3>1. \E s \in Seq(Unit), e \in Unit : IsLast(q, s, e)
      BY <1>5, <2>0, SpelledLast
    <3>2. QED
      BY <1>6, <3>1 DEF IsLast
  <2>2. e = elems[n]
    <3>1. Append(s, e)[Len(s) + 1] = e
      OBVIOUS
    <3>2. q[Len(q)] = e
      BY <2>1, <3>1
    <3>3. Len(q) \in 1 .. n - j + 1 /\ j + Len(q) - 1 = n
      BY <1>3, <1>4, <1>5, <2>0
    <3>4. q[Len(q)] = elems[j + Len(q) - 1]
      BY <1>5, <3>3
    <3>5. QED
      BY <3>2, <3>3, <3>4
  <2>3. PICK m \in Seq(NameChar) : m = e.mName
    BY <1>3, <1>8, <2>2
  <2>4. m # << >>
    BY <1>3, <2>2, <2>3
  <2>5. Len(m) \in Nat \ {0}
    BY <2>4
  <2>6. m[Len(m)] \notin KRelTypesMarks
    <3>1. Len(m) \in 1 .. Len(m)
      BY <2>5
    <3>2. m[Len(m)] \in NameChar
      BY <3>1
    <3>3. QED
      BY <3>2 DEF NameChar
  <2>7. PICK r \in Char, l \in Seq(Char) : r = e.mRel /\ l = e.mName
    BY UnitIs
  <2>8. l = m
    BY <2>3, <2>7
  <2>9. PICK z : z = <<r>> \o l
    OBVIOUS
  <2>10. z \in Seq(Char) /\ Len(z) = Len(l) + 1 /\ z[Len(l) + 1] = l[Len(l)]
    BY <2>5, <2>8, <2>9, OneBefore
  <2>11. PICK p \in Seq(Char) : p = Spelled(s)
    BY SpellUnitsIs
  <2>12. w = p \o z
    BY <2>1, <2>7, <2>9, <2>11 DEF SpellUnit
  <2>13. PICK x \in Seq(Char) : x = z
    BY <2>10
  <2>14. Len(x) # 0 /\ Len(x) = Len(l) + 1 /\ Len(l) \in Nat \ {0} /\ Len(x) > 1
    BY <2>5, <2>8, <2>10, <2>13
  <2>15. Len(p \o x) = Len(p) + Len(x) /\ Len(p) \in Nat /\ (p \o x)[Len(p \o x)] = x[Len(x)]
    BY <2>14, ConcatEnds
  <2>16. Len(w) > 1 /\ Len(w) \in Nat
    BY <2>12, <2>13, <2>14, <2>15
  <2>17. w[Len(w)] = m[Len(m)]
    BY <2>8, <2>10, <2>12, <2>13, <2>14, <2>15
  <2>18. w[1] = ":"
    <3>1. w[1] = q[1].mRel
      BY <1>5, <1>6, <2>0, SpelledFirst
    <3>2. 1 \in 1 .. n - j + 1 /\ j + 1 - 1 = j /\ j \in 1 .. n
      BY <1>3, <1>4
    <3>3. q[1] = elems[j]
      <4>1. q[1] = elems[j + 1 - 1]
        BY <1>5, <3>2
      <4>2. QED
        BY <3>2, <4>1
    <3>4. QED
      BY <1>8, <3>1, <3>2, <3>3
  <2>19. QED
    BY <2>6, <2>16, <2>17, <2>18
<1>12. CASE elems[1].mName # << >>
  <2>1. u = <<".">> \o w /\ q = elems
    <3>1. j = 1
      BY <1>4, <1>12
    <3>2. SubSeq(elems, 1, Len(elems)) = elems
      OBVIOUS
    <3>3. QED
      BY <1>2, <1>4, <1>7, <1>12, <3>1, <3>2
  <2>2. /\ u \in Seq(T) /\ Len(u) = Len(w) + 1 /\ u[1] = "." /\ u[2] = w[1]
        /\ u[Len(w) + 1] = w[Len(w)] /\ SubSeq(u, 2, Len(u)) = w
    <3> HIDE DEF T
    <3>1. PICK x \in Seq(T) : x = w
      BY <1>10
    <3>2. Len(x) > 0
      BY <1>11, <3>1
    <3>3. PICK c \in T : c = "."
      BY <1>9
    <3>4. /\ <<c>> \o x \in Seq(T) /\ Len(<<c>> \o x) = Len(x) + 1 /\ (<<c>> \o x)[1] = c
          /\ (<<c>> \o x)[2] = x[1] /\ (<<c>> \o x)[Len(x) + 1] = x[Len(x)]
          /\ SubSeq(<<c>> \o x, 2, Len(<<c>> \o x)) = x
      BY <3>2, OneBefore
    <3>5. u = <<c>> \o x
      BY <2>1, <3>1, <3>3
    <3>6. QED
      BY <3>1, <3>3, <3>4, <3>5
  <2>3. u \in Seq(Char) /\ Len(u) > 1 /\ \A i \in 1 .. Len(u) : u[i] \in T
    <3>1. u \in Seq(Char)
      BY <1>9, <2>2, SeqOfMore
    <3>2. Len(u) > 1
      BY <1>11, <2>2
    <3>3. \A i \in 1 .. Len(u) : u[i] \in T
      BY <2>2
    <3>4. QED
      BY <3>1, <3>2, <3>3
  <2>4. \A i \in 1 .. Len(u) : u[i] \notin {"#", "?"}
    BY <2>3
  <2>5. u[Len(u)] \notin KRelTypesMarks
    BY <1>11, <2>2
  <2> HIDE DEF T
  <2>6. QED
    BY <1>2, <1>6, <1>11, <1>12, <2>1, <2>2, <2>3, <2>4, <2>5 DEF ReadText
<1>13. CASE elems[1].mName = << >>
  <2>1. pre = << >> /\ j = 2 /\ n > 1
    BY <1>4, <1>13
  <2>2. u = w
    BY <1>7, <2>1
  <2>3. q = Tail(elems)
    BY <1>2, <1>3, <2>1
  <2>4. \A i \in 1 .. Len(w) : w[i] \notin {"#", "?"}
    <3>1. \A i \in 1 .. Len(w) : w[i] \in T
      <4> HIDE DEF T
      <4>1. QED
        BY <1>10
    <3>2. QED
      BY <3>1
  <2>5. QED
    BY <1>2, <1>6, <1>11, <1>13, <2>1, <2>2, <2>3, <2>4 DEF ReadText
<1>14. QED
  BY <1>12, <1>13

\* Lists with the same first element and the same others.
LEMMA HeadAndTail ==
  ASSUME NEW S, NEW s \in Seq(S), NEW t \in Seq(S),
         s # << >>, t # << >>, s[1] = t[1], Tail(s) = Tail(t)
  PROVE  s = t
<1>1. /\ Len(s) \in Nat /\ Len(t) \in Nat
      /\ Len(Tail(s)) = Len(s) - 1 /\ \A i \in 1 .. Len(s) - 1 : Tail(s)[i] = s[i + 1]
      /\ Len(Tail(t)) = Len(t) - 1 /\ \A i \in 1 .. Len(t) - 1 : Tail(t)[i] = t[i + 1]
  OBVIOUS
<1>2. Len(s) = Len(t)
  <2>1. PICK a, b, c : a = Len(s) /\ b = Len(t) /\ c = Len(Tail(s))
    OBVIOUS
  <2>2. a \in Nat /\ b \in Nat /\ c = a - 1 /\ c = b - 1
    BY <1>1, <2>1
  <2>3. a = b
    BY <2>2
  <2>4. QED
    BY <2>1, <2>3
<1>3. ASSUME NEW i \in 1 .. Len(s)
      PROVE  s[i] = t[i]
  <2>1. CASE i = 1
    BY <2>1
  <2>2. CASE i # 1
    <3>1. PICK k : k = i - 1
      OBVIOUS
    <3>2. k \in 1 .. Len(s) - 1 /\ k \in 1 .. Len(t) - 1 /\ k + 1 = i
      BY <1>1, <1>2, <2>2, <3>1
    <3>3. Tail(s)[k] = s[i] /\ Tail(t)[k] = t[i]
      BY <1>1, <3>2
    <3>4. QED
      BY <3>3
  <2>3. QED
    BY <2>1, <2>2
<1>4. QED
  BY <1>2, <1>3, SeqEqual

\* A part of a text up to where something is found does not hold it, nor what is
\* not in the text.
LEMMA FoundPart ==
  ASSUME NEW S, NEW s \in Seq(S), NEW cs, NEW i \in Nat
  PROVE  Substr(s, i, FindFirstOf(s, cs, i)) \in Seq(S \ cs)
<1>1. PICK f, t : f = FindFirstOf(s, cs, i) /\ t = Substr(s, i, f)
  OBVIOUS
<1>2. \/ f = npos /\ \A j \in i .. Len(s) - 1 : s[j + 1] \notin cs
      \/ f \in i .. Len(s) - 1 /\ \A j \in i .. f - 1 : s[j + 1] \notin cs
  BY <1>1, FindFirstOfIs
<1>3. PICK e : e = IF f = npos THEN Len(s) ELSE f
  OBVIOUS
<1>4. e \in Int /\ e <= Len(s) /\ (\A j \in i .. e - 1 : s[j + 1] \notin cs)
  <2>1. CASE f = npos
    BY <1>2, <1>3, <2>1 DEF npos
  <2>2. CASE f # npos
    BY <1>2, <1>3, <2>2
  <2>3. QED
    BY <2>1, <2>2
<1>5. /\ t \in Seq(S) /\ Len(t) = (IF i + 1 <= e THEN e - (i + 1) + 1 ELSE 0)
      /\ \A k \in 1 .. Len(t) : t[k] = s[(i + 1) + k - 1]
  <2>1. t = SubSeq(s, i + 1, e) /\ i + 1 \in Nat \ {0}
    BY <1>1, <1>3 DEF Substr
  <2>2. PICK l \in Nat \ {0} : l = i + 1
    BY <2>1
  <2>3. t = SubSeq(s, l, e)
    BY <2>1, <2>2
  <2>4. /\ t \in Seq(S) /\ Len(t) = (IF l <= e THEN e - l + 1 ELSE 0)
        /\ \A k \in 1 .. Len(t) : t[k] = s[l + k - 1]
    BY <1>4, <2>3, PartIs
  <2>5. QED
    BY <2>2, <2>4
<1>6. ASSUME NEW k \in 1 .. Len(t)
      PROVE  t[k] \in S \ cs
  <2>1. t[k] \in S
    BY <1>5
  <2>2. PICK j : j = i + k - 1
    OBVIOUS
  <2>3. j \in i .. e - 1 /\ (i + 1) + k - 1 = j + 1
    BY <1>4, <1>5, <2>2
  <2>4. t[k] = s[j + 1]
    BY <1>5, <2>3
  <2>5. QED
    BY <1>4, <2>1, <2>3, <2>4
<1>7. QED
  BY <1>1, <1>5, <1>6, SeqOfFewer

-----------------------------------------------------------------------------
\* A uri read back.

Root == [mName |-> << >>, mRel |-> ":"]

\* Names hold no mark, and of a readable uri the parser reads the text from its
\* first to its last character, without an error.
ReadInv ==
  /\ origin # "joined" => iElems \in Seq(NamedUnit) /\ hier \in Seq(Char \ {"?"})
  /\ origin = "rendered" => other \in Seq(NamedUnit)
  /\ origin = "rendered" /\ Readable(other) =>
       /\ ReadText(other, iUri)
       /\ pc \in {"base", "head", "unit", "done"} /\ ~iErr
       /\ pc # "base" => hier = iUri
       /\ pc = "unit" => rtype # KSepNone
       /\ pc = "done" => pos = npos
       /\ pc \in {"unit", "done"} /\ hier[1] # "." => iElems # << >> /\ iElems[1] = Root

\* The root of a uri is a unit with such a name.
LEMMA NoName == \A r \in KRelTypesMarks : [mName |-> << >>, mRel |-> r] \in NamedUnit
<1>1. << >> \in Seq(NameChar)
  OBVIOUS
<1>2. QED
  BY <1>1 DEF NamedUnit

\* The base part: of a readable uri there is none.
LEMMA BaseReads ==
  ASSUME UriTypeInv, ReadInv, ParseBase
  PROVE  ReadInv'
<1> DEFINE e == FindFirstOf(iUri, {"#"}, 0)
           b == SubSeq(iUri, 1, e)
           frag == SubSeq(iUri, e + 2, Len(iUri))
           q == FindFirstOf(frag, {"?"}, 0)
<1>1. iUri \in Seq(Char) /\ pc = "base" /\ UNCHANGED <<iUri, iElems, iErr, other, origin>>
  BY DEF UriTypeInv, TypeOK, ParseBase
<1>2. hier' = Substr(frag, 0, q) /\ (e = npos => pc' = "head")
  BY DEF ParseBase
<1>3. e \in Int /\ e + 2 \in Nat \ {0}
  BY <1>1, FoundIs DEF npos
<1>4. frag \in Seq(Char)
  <2>1. Len(iUri) \in Int /\ Len(iUri) <= Len(iUri)
    BY <1>1
  <2> HIDE DEF e
  <2>2. QED
    BY <1>1, <1>3, <2>1, PartIs
<1>5. hier' \in Seq(Char \ {"?"})
  <2> HIDE DEF frag
  <2>1. QED
    BY <1>2, <1>4, FoundPart
<1>6. ASSUME ReadText(other, iUri)
      PROVE  hier' = iUri /\ pc' = "head"
  <2>1. \A i \in 1 .. Len(iUri) : iUri[i] \notin {"#", "?"}
    BY <1>6 DEF ReadText
  <2>2. \A k \in 0 .. Len(iUri) - 1 : iUri[k + 1] \notin {"#"} /\ iUri[k + 1] \notin {"?"}
    <3> SUFFICES ASSUME NEW k \in 0 .. Len(iUri) - 1
                 PROVE  iUri[k + 1] \notin {"#"} /\ iUri[k + 1] \notin {"?"}
      OBVIOUS
    <3>1. k + 1 \in 1 .. Len(iUri)
      BY <1>1
    <3>2. QED
      BY <2>1, <3>1
  <2>3. e = npos
    <3>1. e = npos \/ (e \in 0 .. Len(iUri) - 1 /\ iUri[e + 1] \in {"#"})
      BY <1>1, FindFirstOfIs
    <3> HIDE DEF e
    <3>2. QED
      BY <2>2, <3>1
  <2>4. frag = iUri
    <3>1. e + 2 = 1
      BY <2>3 DEF npos
    <3> HIDE DEF e
    <3>2. SubSeq(iUri, 1, Len(iUri)) = iUri
      BY <1>1
    <3>3. QED
      BY <3>1, <3>2
  <2>5. q = npos
    <3>1. q = npos \/ (q \in 0 .. Len(iUri) - 1 /\ iUri[q + 1] \in {"?"})
      <4> HIDE DEF frag
      <4>1. QED
        BY <1>1, <2>4, FindFirstOfIs
    <3> HIDE DEF q
    <3>2. QED
      BY <2>2, <3>1
  <2>6. Substr(iUri, 0, npos) = iUri
    <3>1. SubSeq(iUri, 1, Len(iUri)) = iUri /\ 0 + 1 = 1
      BY <1>1
    <3>2. QED
      BY <3>1 DEF Substr
  <2> HIDE DEF e, frag, q
  <2>7. QED
    BY <1>2, <2>3, <2>4, <2>5, <2>6
<1> HIDE DEF e, b, frag, q
<1>7. pc' # "unit" /\ pc' # "done"
  BY DEF ParseBase
<1>8. Readable(other)' <=> Readable(other)
  BY <1>1
<1>9. ReadText(other, iUri)' <=> ReadText(other, iUri)
  BY <1>1
<1>10. QED
  BY <1>1, <1>5, <1>6, <1>7, <1>8, <1>9 DEF ReadInv

\* The start of the hierarchical part.
LEMMA HeadReads ==
  ASSUME UriTypeInv, ReadInv, ParseHead
  PROVE  ReadInv'
<1>1. /\ hier \in Seq(Char) /\ pc = "head" /\ iElems = << >>
      /\ UNCHANGED <<iUri, hier, iErr, other, origin>>
  BY DEF UriTypeInv, TypeOK, ParseHead, base
<1> DEFINE beg == IF hier[1] = "." /\ hier[2] # "." THEN 1 ELSE 0
           sym == hier[beg + 1] \in KRelTypesMarks
<1>2. \/ Len(hier) <= 1 /\ iElems' = iElems
      \/ /\ ~(Len(hier) <= 1)
         /\ rtype' = IF sym THEN hier[beg + 1] ELSE KSepNone
         /\ iElems' = IF sym /\ hier[1] # "." THEN <<[mName |-> << >>, mRel |-> rtype']>> ELSE << >>
         /\ pc' = "unit"
  BY DEF ParseHead
<1>3. iElems' \in Seq(NamedUnit)
  <2>1. << >> \in Seq(NamedUnit)
    OBVIOUS
  <2>2. sym => [mName |-> << >>, mRel |-> hier[beg + 1]] \in NamedUnit
    BY NoName
  <2> HIDE DEF beg
  <2>3. PICK z : z = [mName |-> << >>, mRel |-> hier[beg + 1]]
    OBVIOUS
  <2>4. sym => <<z>> \in Seq(NamedUnit)
    BY <2>2, <2>3
  <2>5. iElems' = << >> \/ (sym /\ iElems' = <<z>>)
    BY <1>1, <1>2, <2>3
  <2>6. QED
    BY <2>1, <2>4, <2>5
<1>4. ASSUME ReadText(other, hier)
      PROVE  /\ pc' = "unit" /\ rtype' # KSepNone
             /\ hier[1] # "." => iElems' # << >> /\ iElems'[1] = Root
  <2>1. Len(hier) > 1 /\ Len(hier) \in Nat
        /\ ((hier[1] = "." /\ hier[2] = ":") \/ hier[1] = ":")
    BY <1>1, <1>4 DEF ReadText
  <2>2. hier[beg + 1] = ":"
    <3>1. CASE hier[1] = "." /\ hier[2] = ":"
      <4>1. beg = 1 /\ 1 + 1 = 2
        BY <3>1
      <4> HIDE DEF beg
      <4>2. QED
        BY <3>1, <4>1
    <3>2. CASE hier[1] = ":"
      <4>1. beg = 0 /\ 0 + 1 = 1
        BY <3>2
      <4> HIDE DEF beg
      <4>2. QED
        BY <3>2, <4>1
    <3>3. QED
      BY <2>1, <3>1, <3>2
  <2>3. sym
    BY <2>2 DEF KRelTypesMarks
  <2>4. /\ rtype' = ":" /\ pc' = "unit"
        /\ hier[1] # "." => iElems' = <<Root>>
    <3>1. ~(Len(hier) <= 1)
      BY <2>1
    <3>2. rtype' = ":" /\ pc' = "unit"
      BY <1>2, <2>2, <2>3, <3>1
    <3>3. hier[1] # "." => iElems' = <<[mName |-> << >>, mRel |-> rtype']>>
      BY <1>2, <2>3, <3>1
    <3>4. QED
      BY <3>2, <3>3 DEF Root
  <2>5. PICK z : z = Root
    OBVIOUS
  <2>6. <<z>> # << >> /\ <<z>>[1] = z
    OBVIOUS
  <2>7. QED
    BY <2>4, <2>5, <2>6 DEF KSepNone
<1> HIDE DEF beg, sym
<1>5. Readable(other)' <=> Readable(other)
  BY <1>1
<1>6. ReadText(other, iUri)' <=> ReadText(other, iUri)
  BY <1>1
<1>7. QED
  BY <1>1, <1>3, <1>4, <1>5, <1>6 DEF ReadInv

\* A turn of the loop.
LEMMA UnitReads ==
  ASSUME UriTypeInv, ReadInv, NextUnit
  PROVE  ReadInv'
<1>1. /\ hier \in Seq(Char) /\ pc = "unit" /\ pos \in Nat /\ iElems \in Seq(Unit)
      /\ rtype \in Rel /\ rtype # KSepNone
      /\ UNCHANGED <<iUri, hier, iErr, other, origin>>
      /\ iElems' = Append(iElems, [mName |-> NextName, mRel |-> rtype])
      /\ IF NameEnd = npos
           THEN pos' = npos /\ pc' = "done" /\ UNCHANGED rtype
           ELSE /\ pos' = NameEnd + 1
                /\ rtype' = hier[NameEnd + 1]
                /\ pc' = IF pos' < Len(hier) THEN "unit" ELSE "done"
  BY DEF UriTypeInv, TypeOK, NextUnit, base
<1>2. PICK u : u = [mName |-> NextName, mRel |-> rtype]
  OBVIOUS
<1>3. ASSUME origin # "joined"
      PROVE  iElems' \in Seq(NamedUnit)
  <2>1. iElems \in Seq(NamedUnit) /\ hier \in Seq(Char \ {"?"})
    BY <1>3 DEF ReadInv
  <2>2. NextName \in Seq((Char \ {"?"}) \ KRelTypesMarks)
    BY <1>1, <2>1, FoundPart DEF NextName, NameEnd
  <2>3. (Char \ {"?"}) \ KRelTypesMarks = NameChar
    BY DEF NameChar
  <2>4. u \in NamedUnit
    BY <1>1, <1>2, <2>2, <2>3 DEF NamedUnit, Rel
  <2>5. PICK v \in NamedUnit : v = u
    BY <2>4
  <2>6. Append(iElems, v) \in Seq(NamedUnit)
    BY <2>1
  <2>7. QED
    BY <1>1, <1>2, <2>5, <2>6
<1>4. ASSUME iElems # << >>
      PROVE  iElems' # << >> /\ iElems'[1] = iElems[1]
  <2>1. u \in Unit
    <3>1. NextName \in Seq(Char)
      BY <1>1, FoundIs DEF NextName, NameEnd
    <3>2. QED
      BY <1>1, <1>2, <3>1 DEF Unit, Rel
  <2>2. Append(iElems, u) # << >> /\ Append(iElems, u)[1] = iElems[1]
    BY <1>1, <1>4, <2>1
  <2>3. QED
    BY <1>1, <1>2, <2>2
<1>5. NameEnd # npos => NameEnd \in 0 .. Len(hier) - 1 /\ hier[NameEnd + 1] \in KRelTypesMarks
  <2>1. NameEnd # npos => NameEnd \in pos .. Len(hier) - 1 /\ hier[NameEnd + 1] \in KRelTypesMarks
    BY <1>1, FindFirstOfIs DEF NameEnd
  <2>2. QED
    BY <1>1, <2>1
<1>6. ASSUME hier[Len(hier)] \notin KRelTypesMarks
      PROVE  /\ pc' \in {"unit", "done"}
             /\ pc' = "unit" => rtype' # KSepNone
             /\ pc' = "done" => pos' = npos
  <2>1. CASE NameEnd = npos
    BY <1>1, <2>1
  <2>2. CASE NameEnd # npos
    <3>1. NameEnd + 1 # Len(hier)
      BY <1>5, <1>6, <2>2
    <3>2. NameEnd + 1 < Len(hier)
      BY <1>1, <1>5, <2>2, <3>1
    <3>3. rtype' \in KRelTypesMarks /\ pc' = "unit"
      BY <1>1, <1>5, <2>2, <3>2
    <3>4. QED
      BY <3>3 DEF KRelTypesMarks, KSepNone
  <2>3. QED
    BY <2>1, <2>2
<1>7. Readable(other)' <=> Readable(other)
  BY <1>1
<1>8. ReadText(other, iUri)' <=> ReadText(other, iUri)
  BY <1>1
<1>9. ReadText(other, hier) => hier[Len(hier)] \notin KRelTypesMarks
  BY DEF ReadText
<1>10. QED
  BY <1>1, <1>3, <1>4, <1>6, <1>7, <1>8, <1>9 DEF ReadInv

\* Every step keeps it.
LEMMA NextReads == UriTypeInv /\ ReadInv /\ [Next]_vars => ReadInv'
<1> SUFFICES ASSUME UriTypeInv, ReadInv, [Next]_vars PROVE ReadInv'
  OBVIOUS
<1>1. CASE UNCHANGED vars
  <2>1. UNCHANGED <<iUri, hier, iElems, iErr, pos, rtype, pc, other, origin>>
    BY <1>1 DEF vars
  <2>2. Readable(other)' = Readable(other) /\ ReadText(other, iUri)' = ReadText(other, iUri)
    BY <2>1
  <2>3. QED
    BY <2>1, <2>2 DEF ReadInv
<1>2. CASE ParseBase
  BY <1>2, BaseReads
<1>3. CASE ParseHead
  BY <1>3, HeadReads
<1>4. CASE UpperUnit \/ BareUnit
  <2>1. /\ pc = "unit" /\ rtype = KSepNone /\ UNCHANGED <<iUri, hier, iElems, other, origin>>
    BY <1>4 DEF UpperUnit, BareUnit, base
  <2>2. ~(origin = "rendered" /\ Readable(other))
    BY <2>1 DEF ReadInv
  <2>3. Readable(other)' = Readable(other)
    BY <2>1
  <2>4. QED
    BY <2>1, <2>2, <2>3 DEF ReadInv
<1>5. CASE NextUnit
  BY <1>5, UnitReads
<1>6. CASE Use
  <2>1. CASE Render
    <3>1. /\ origin = "none" /\ other' = iElems /\ origin' = "rendered" /\ iUri' = GetUri(iElems)
          /\ hier' = << >> /\ iElems' = << >> /\ iErr' = FALSE /\ pc' = "base"
      BY <2>1 DEF Render, Construct
    <3>2. iElems \in Seq(NamedUnit)
      BY <3>1 DEF ReadInv
    <3>3. << >> \in Seq(NamedUnit) /\ << >> \in Seq(Char \ {"?"})
      OBVIOUS
    <3>4. Readable(other)' <=> Readable(iElems)
      BY <3>1
    <3>5. Readable(iElems) => ReadText(iElems, GetUri(iElems))
      BY <3>2, RenderedReads
    <3>6. ReadText(other, iUri)' <=> ReadText(iElems, GetUri(iElems))
      BY <3>1
    <3>7. QED
      BY <3>1, <3>2, <3>3, <3>4, <3>5, <3>6 DEF ReadInv
  <2>2. ASSUME origin' = "joined"
        PROVE  ReadInv'
    BY <2>2 DEF ReadInv
  <2>3. CASE Second
    BY <2>2, <2>3 DEF Second, Construct
  <2>4. CASE AppendUri
    BY <2>2, <2>4 DEF AppendUri, Joinable
  <2>5. CASE PrependUri
    BY <2>2, <2>5 DEF PrependUri, Joinable
  <2>6. CASE \E start \in 0 .. Len(iElems) : Compare(start)
    BY <2>2, <2>6 DEF Compare
  <2>7. CASE AppendTail
    BY <2>2, <2>7 DEF AppendTail
  <2>8. QED
    BY <1>6, <2>1, <2>3, <2>4, <2>5, <2>6, <2>7 DEF Use
<1>7. QED
  BY <1>1, <1>2, <1>3, <1>4, <1>5, <1>6 DEF Next, Parse

\* It holds at first.
LEMMA InitReads == Init => ReadInv
<1>1. << >> \in Seq(NamedUnit) /\ << >> \in Seq(Char \ {"?"})
  OBVIOUS
<1>2. QED
  BY <1>1 DEF Init, ReadInv

\* A readable uri has been read back when all of it is spelled.
LEMMA ReadImplies == UriTypeInv /\ SpellInv /\ ReadInv => ReadsBack
<1> SUFFICES ASSUME UriTypeInv, SpellInv, ReadInv,
                    pc \in {"done", "throws", "aborted"}, origin = "rendered", Readable(other)
             PROVE  pc = "done" /\ ~iErr /\ iElems = other
  BY DEF ReadsBack, Readable
<1>1. /\ ReadText(other, hier) /\ pc = "done" /\ ~iErr /\ pos = npos
      /\ iElems \in Seq(NamedUnit) /\ other \in Seq(NamedUnit)
      /\ hier[1] # "." => iElems # << >> /\ iElems[1] = Root
  BY DEF ReadInv
<1>2. hier \in Seq(Char) /\ Len(hier) > 1
  BY <1>1 DEF ReadText
<1>3. Spelled(Named) \o << >> = SubSeq(hier, Mark + 1, Len(hier))
  <2>1. Coming = << >>
    BY <1>1 DEF Coming
  <2>2. Spelled(Named) \o Coming = SubSeq(hier, Mark + 1, Len(hier))
    BY <1>1, <1>2 DEF SpellInv
  <2>3. QED
    BY <2>1, <2>2
<1>4. Named \in Seq(NamedUnit)
  BY <1>1 DEF Named
<1>5. Spelled(Named) = SubSeq(hier, Mark + 1, Len(hier))
  <2>1. Named \in Seq(Unit)
    BY <1>4, NamedIsUnit
  <2>2. PICK p \in Seq(Char) : p = Spelled(Named)
    BY <2>1, SpellUnitsIs
  <2>3. p \o << >> = p
    OBVIOUS
  <2>4. QED
    BY <1>3, <2>2, <2>3
<1>6. CASE other[1].mName # << >>
  <2>1. hier[1] = "." /\ hier[2] = ":" /\ SubSeq(hier, 2, Len(hier)) = Spelled(other)
    BY <1>1, <1>6 DEF ReadText
  <2>2. Mark + 1 = 2 /\ Named = iElems
    BY <2>1 DEF Mark, Named
  <2>3. Spelled(iElems) = Spelled(other)
    BY <1>5, <2>1, <2>2
  <2>4. iElems = other
    BY <1>1, <2>3, SpelledOnce
  <2>5. QED
    BY <1>1, <2>4
<1>7. CASE other[1].mName = << >>
  <2>1. hier[1] = ":" /\ hier = Spelled(Tail(other)) /\ Len(other) > 1
    BY <1>1, <1>7 DEF ReadText
  <2>2. Mark + 1 = 1 /\ Named = Tail(iElems) /\ iElems # << >> /\ iElems[1] = Root
    BY <1>1, <2>1 DEF Mark, Named
  <2>3. SubSeq(hier, 1, Len(hier)) = hier
    BY <1>2
  <2>4. Tail(other) \in Seq(NamedUnit) /\ other # << >>
    BY <1>1, <2>1
  <2>5. Tail(iElems) = Tail(other)
    <3>1. Tail(iElems) \in Seq(NamedUnit)
      BY <1>4, <2>2
    <3>2. Spelled(Tail(iElems)) = Spelled(Tail(other))
      BY <1>5, <2>1, <2>2, <2>3
    <3>3. QED
      BY <2>4, <3>1, <3>2, SpelledOnce
  <2>6. other[1] = Root
    <3>1. 1 \in 1 .. Len(other)
      BY <1>1, <2>1
    <3>2. other[1] \in NamedUnit /\ other[1].mRel = ":"
      BY <1>1, <3>1 DEF Readable
    <3>3. other[1] = [mName |-> other[1].mName, mRel |-> other[1].mRel]
      BY <3>2 DEF NamedUnit
    <3>4. QED
      BY <1>7, <3>2, <3>3 DEF Root
  <2>7. iElems = other
    BY <1>1, <2>2, <2>4, <2>5, <2>6, HeadAndTail
  <2>8. QED
    BY <1>1, <2>7
<1>8. QED
  BY <1>6, <1>7

-----------------------------------------------------------------------------
\* The theorems.

\* The types, whatever the texts.
THEOREM UriTypeOK == Spec => []TypeOK
<1>1. UriTypeInv => TypeOK
  BY DEF UriTypeInv
<1>2. QED
  BY <1>1, InitTypes, NextTypes, PTL DEF Spec

\* At every turn of the loop of Parse and when it ends, the units spell the text
\* read so far.
THEOREM UriUnitsSpell == Spec => []UnitsSpellText
<1>1. Init => UriTypeInv /\ SpellInv
  BY InitTypes, InitSpelled
<1>2. (UriTypeInv /\ SpellInv) /\ [Next]_vars => (UriTypeInv /\ SpellInv)'
  BY NextTypes, NextSpelled
<1>3. QED
  BY <1>1, <1>2, SpellImplies, PTL DEF Spec

\* What Uri(string(u)) makes of a readable uri u is u.
THEOREM UriReadsBack == Spec => []ReadsBack
<1>1. Init => UriTypeInv /\ SpellInv /\ ReadInv
  BY InitTypes, InitSpelled, InitReads
<1>2. (UriTypeInv /\ SpellInv /\ ReadInv) /\ [Next]_vars => (UriTypeInv /\ SpellInv /\ ReadInv)'
  BY NextTypes, NextSpelled, NextReads
<1>3. QED
  BY <1>1, <1>2, ReadImplies, PTL DEF Spec

\* Append, Prepend and AppendTail keep the units of both uris in their order.
THEOREM UriJoinKeeps == Spec => JoinKeepsBoth
<1>1. Init => UriTypeInv /\ FoundInv
  BY InitTypes, InitFound
<1>2. (UriTypeInv /\ FoundInv) /\ [Next]_vars => (UriTypeInv /\ FoundInv)'
  BY NextTypes, NextFound
<1>3. UriTypeInv /\ FoundInv /\ [Next]_vars => [Joined]_vars
  BY StepJoins
<1>4. [][Joined]_vars => JoinKeepsBoth
  BY PTL DEF JoinKeepsBoth, Joined
<1>5. QED
  BY <1>1, <1>2, <1>3, <1>4, PTL DEF Spec

\* Scheme, path and fragment of any text that a Uri is made of.
THEOREM UriPathAndFrag == Spec => []PathAndFrag
  BY InitTypes, NextTypes, PathIs, PTL DEF Spec

-----------------------------------------------------------------------------
\* Why Parse ends: what it still has before it.
Before ==
  CASE pc = "base" -> Len(iUri) + 3
    [] pc = "head" -> Len(hier) + 2
    [] pc = "unit" -> Len(hier) - pos + 1
    [] OTHER       -> 0

LEMMA BeforeIs == UriTypeInv => Before \in Nat
<1> SUFFICES ASSUME UriTypeInv PROVE Before \in Nat
  OBVIOUS
<1>1. iUri \in Seq(Char) /\ hier \in Seq(Char) /\ pos \in npos .. Len(hier)
  BY DEF UriTypeInv, TypeOK
<1>2. Len(iUri) \in Nat /\ Len(hier) \in Nat
  BY <1>1
<1>3. QED
  BY <1>1, <1>2 DEF Before, npos

\* The hierarchical part is no longer than the text it is cut from.
LEMMA BaseAdvances ==
  ASSUME UriTypeInv, ParseBase
  PROVE  Before' < Before
<1> DEFINE e == FindFirstOf(iUri, {"#"}, 0)
           frag == SubSeq(iUri, e + 2, Len(iUri))
           q == FindFirstOf(frag, {"?"}, 0)
<1>1. iUri \in Seq(Char) /\ pc = "base" /\ hier' = Substr(frag, 0, q) /\ pc' \in {"head", "throws"}
  BY DEF UriTypeInv, TypeOK, ParseBase
<1>2. Len(iUri) \in Nat
  BY <1>1
<1>3. e + 2 \in Nat \ {0}
  BY <1>1, FoundIs DEF npos
<1> HIDE DEF e
<1>4. frag \in Seq(Char) /\ Len(frag) <= Len(iUri) /\ Len(frag) \in Nat
  <2>1. frag \in Seq(Char) /\ Len(frag) = IF e + 2 <= Len(iUri) THEN Len(iUri) - (e + 2) + 1 ELSE 0
    BY <1>1, <1>2, <1>3, PartIs
  <2>2. QED
    BY <1>2, <1>3, <2>1
<1> HIDE DEF frag
<1>5. q \in Int /\ q < Len(frag) /\ (q = npos \/ q \in Nat)
  BY <1>4, FoundIs
<1> HIDE DEF q
<1>6. PICK j \in Int : j = (IF q = npos THEN Len(frag) ELSE q) /\ j <= Len(frag)
  BY <1>4, <1>5
<1>7. hier' = SubSeq(frag, 1, j)
  BY <1>1, <1>6 DEF Substr
<1>8. Len(SubSeq(frag, 1, j)) = IF 1 <= j THEN j - 1 + 1 ELSE 0
  BY <1>4, <1>6, PartIs
<1>9. Len(hier') \in Nat /\ Len(hier') <= Len(iUri)
  BY <1>2, <1>4, <1>6, <1>7, <1>8
<1>10. QED
  BY <1>1, <1>2, <1>9 DEF Before

LEMMA UriAdvances == UriTypeInv /\ Parse => Before' < Before
<1> SUFFICES ASSUME UriTypeInv, Parse PROVE Before' < Before
  OBVIOUS
<1>1. hier \in Seq(Char) /\ pos \in npos .. Len(hier) /\ (pc = "unit" => pos \in Nat)
  BY DEF UriTypeInv, TypeOK
<1>2. Len(hier) \in Nat
  BY <1>1
<1>3. CASE ParseBase
  BY <1>3, BaseAdvances
<1>4. CASE ParseHead
  <2>1. pc = "head" /\ hier' = hier /\ pc' \in {"done", "unit"} /\ (pc' = "unit" => pos' \in 0 .. 2)
    BY <1>4 DEF ParseHead
  <2>2. QED
    BY <1>2, <2>1 DEF Before
<1>5. CASE UpperUnit \/ BareUnit
  <2>1. pc = "unit" /\ pc' \in {"done", "aborted"}
    BY <1>5 DEF UpperUnit, BareUnit
  <2>2. QED
    BY <1>1, <1>2, <2>1 DEF Before, npos
<1>6. CASE NextUnit
  <2>1. /\ pc = "unit" /\ hier' = hier /\ pc' \in {"unit", "done"}
        /\ pc' = "unit" => NameEnd # npos /\ pos' = NameEnd + 1
    BY <1>6 DEF NextUnit
  <2>2. NameEnd # npos => NameEnd \in Nat /\ pos <= NameEnd
    BY <1>1, <2>1, FoundIs DEF NameEnd
  <2>3. QED
    BY <1>1, <1>2, <2>1, <2>2 DEF Before, npos
<1>7. QED
  BY <1>3, <1>4, <1>5, <1>6 DEF Parse

\* Every step of Parse, for any text, leaves less of the text before it, and
\* there is only so much: its loop cannot go on for ever.
THEOREM UriParseAdvances == Spec => [](Before \in Nat) /\ [][Parse => Before' < Before]_vars
<1>1. UriTypeInv /\ [Next]_vars => [Parse => Before' < Before]_vars
  BY UriAdvances
<1>2. QED
  BY <1>1, InitTypes, NextTypes, BeforeIs, PTL DEF Spec

=============================================================================
