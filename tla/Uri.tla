-------------------------------- MODULE Uri --------------------------------
(***************************************************************************)
(* Uri (src/src/uri.cpp): the text of a parent attribute parsed into units *)
(* of a name and a relation, the units rendered as text again, and two     *)
(* uris joined and compared.                                               *)
(*                                                                         *)
(* A text is a sequence of characters, and a character is a member of a    *)
(* small set, as the parser tells only the separators apart.  Parse is one *)
(* action for the base part, one for the start of the hierarchical part    *)
(* and one for each turn of its loop, so that its progress can be stated.  *)
(* Offsets are the code's (StdString).                                     *)
(***************************************************************************)
EXTENDS FiniteSets, SequencesExt, StdString

CONSTANTS
  Letter,    \* characters without a meaning to the parser
  Texts,     \* texts a first Uri is made of
  Others,    \* texts a second Uri is made of
  MaxJoin    \* bound: units of a uri that is still added to

KRelTypesMarks == {"/", ":"}

Char == Letter \cup KRelTypesMarks \cup {".", "#", "?"}

ASSUME UriAssumption ==
  /\ Letter \cap (KRelTypesMarks \cup {".", "#", "?", " "}) = {}
  /\ Texts \subseteq Seq(Char)
  /\ Others \subseteq Seq(Char)
  /\ MaxJoin \in Nat

VARIABLES
  iUri,        \* the text being parsed
  iScheme, iAuthority, iPath, iBase,   \* the parts of its base
  hier,        \* its hierarchical part
  iElems,      \* the units found so far
  iErr,        \* the path goes up
  pos, rtype,  \* where the loop of Parse is, and the relation before it
  pc,          \* what Parse does next, or how it has ended
  other,       \* the units of the Uri made before this one
  origin,      \* what became of that Uri: none, it was rendered into iUri, or
               \* it waits to be joined to this one
  cmp          \* result of the last Compare

base == <<iScheme, iAuthority, iPath, iBase>>

vars == <<iUri, base, hier, iElems, iErr, pos, rtype, pc, other, origin, cmp>>

KSepNone == " "

Rel == KRelTypesMarks \cup {KSepNone}

Unit == [mName : Seq(Char), mRel : KRelTypesMarks]

NoCompare == [matched |-> FALSE, end |-> npos]

Init ==
  /\ iUri \in Texts
  /\ iScheme = << >> /\ iAuthority = << >> /\ iPath = << >> /\ iBase = << >>
  /\ hier = << >>
  /\ iElems = << >>
  /\ iErr = FALSE
  /\ pos = 0
  /\ rtype = KSepNone
  /\ pc = "base"
  /\ other = << >>
  /\ origin = "none"
  /\ cmp = NoCompare

-----------------------------------------------------------------------------
\* Uri::Parse.

\* Where scheme and authority of base b end, as offsets of the code.
SchemeEnd(b) == FindFirstOf(b, {":"}, 0)

HasAuthority(b) ==
  LET s == SchemeEnd(b)
  IN  Len(b) > s + 2 /\ b[s + 2] = "/" /\ b[s + 3] = "/"

AuthBeg(b) == SchemeEnd(b) + 1 + (IF HasAuthority(b) THEN 2 ELSE 0)

AuthEnd(b) ==
  IF HasAuthority(b) THEN FindFirstOf(b, {"/"}, AuthBeg(b)) ELSE AuthBeg(b)

PathBeg(b) == IF AuthEnd(b) = npos THEN 0 ELSE AuthEnd(b) + 1

\* The part before '#', if there is one.  A path that would start behind the
\* end of the base makes substr throw.
ParseBase ==
  /\ pc = "base"
  /\ LET e    == FindFirstOf(iUri, {"#"}, 0)
         b    == SubSeq(iUri, 1, e)
         frag == SubSeq(iUri, e + 2, Len(iUri))
     IN  /\ iBase' = b
         /\ hier' = Substr(frag, 0, FindFirstOf(frag, {"?"}, 0))
         /\ IF e = npos
              THEN UNCHANGED <<iScheme, iAuthority, iPath>> /\ pc' = "head"
              ELSE /\ iScheme' = SubSeq(b, 1, SchemeEnd(b))
                   /\ iAuthority' = IF HasAuthority(b)
                                      THEN Substr(b, AuthBeg(b), AuthEnd(b))
                                      ELSE << >>
                   /\ IF PathBeg(b) > Len(b)
                        THEN UNCHANGED iPath /\ pc' = "throws"
                        ELSE /\ iPath' = Substr(b, PathBeg(b),
                                                FindFirstOf(b, {"?"}, PathBeg(b)))
                             /\ pc' = "head"
  /\ UNCHANGED <<iUri, iElems, iErr, pos, rtype, other, origin, cmp>>

\* Slip: the first character is taken for a relation symbol, whatever it is.
ParseHead_AnySymbol ==
  /\ pc = "head"
  /\ IF Len(hier) <= 1
       THEN pc' = "done" /\ UNCHANGED <<iElems, pos, rtype>>
       ELSE LET beg == IF hier[1] = "." /\ hier[2] # "." THEN 1 ELSE 0
            IN  /\ rtype' = hier[beg + 1]
                /\ pos' = beg + 1
                /\ iElems' = << >>
                /\ pc' = "unit"
  /\ UNCHANGED <<iUri, base, hier, iErr, other, origin, cmp>>

\* The start of the hierarchical part: a '.', a relation symbol, both or
\* neither.  A symbol without a '.' stands for the root.  Of a part of a single
\* character nothing is made.
ParseHead ==
  /\ pc = "head"
  /\ IF Len(hier) <= 1
       THEN pc' = "done" /\ UNCHANGED <<iElems, pos, rtype>>
       ELSE LET beg == IF hier[1] = "." /\ hier[2] # "." THEN 1 ELSE 0
                sym == hier[beg + 1] \in KRelTypesMarks
            IN  /\ rtype' = IF sym THEN hier[beg + 1] ELSE KSepNone
                /\ pos' = IF sym THEN beg + 1 ELSE beg
                /\ iElems' = IF sym /\ hier[1] # "."
                               THEN <<[mName |-> << >>, mRel |-> rtype']>>
                               ELSE << >>
                /\ pc' = "unit"
  /\ UNCHANGED <<iUri, base, hier, iErr, other, origin, cmp>>

NameEnd == FindFirstOf(hier, KRelTypesMarks, pos)

NextName == Substr(hier, pos, NameEnd)

\* Slip: the error does not end the loop.
UpperUnit_Goes ==
  /\ pc = "unit"
  /\ rtype = KSepNone
  /\ NextName = <<".", ".">>
  /\ iErr' = TRUE
  /\ UNCHANGED <<iUri, base, hier, iElems, pos, rtype, pc, other, origin, cmp>>

\* A path that starts with ".." and no relation symbol is an error.
UpperUnit ==
  /\ pc = "unit"
  /\ rtype = KSepNone
  /\ NextName = <<".", ".">>
  /\ iErr' = TRUE
  /\ pc' = "done"
  /\ UNCHANGED <<iUri, base, hier, iElems, pos, rtype, other, origin, cmp>>

\* Any other first name without a relation symbol: the assertion of getRel.
BareUnit ==
  /\ pc = "unit"
  /\ rtype = KSepNone
  /\ NextName # <<".", ".">>
  /\ pc' = "aborted"
  /\ UNCHANGED <<iUri, base, hier, iElems, iErr, pos, rtype, other, origin, cmp>>

\* Slip: the relation is read from behind the separator.
NextUnit_RelLate ==
  /\ pc = "unit"
  /\ rtype # KSepNone
  /\ iElems' = Append(iElems, [mName |-> NextName, mRel |-> rtype])
  /\ IF NameEnd = npos \/ NameEnd + 1 = Len(hier)
       THEN pos' = npos /\ pc' = "done" /\ UNCHANGED rtype
       ELSE /\ pos' = NameEnd + 1
            /\ rtype' = IF hier[NameEnd + 2] = ":" THEN ":" ELSE "/"
            /\ pc' = "unit"
  /\ UNCHANGED <<iUri, base, hier, iErr, other, origin, cmp>>

\* One turn of the loop: the name up to the next relation symbol, which is the
\* relation of the next unit.  A symbol at the end ends the loop.
NextUnit ==
  /\ pc = "unit"
  /\ rtype # KSepNone
  /\ iElems' = Append(iElems, [mName |-> NextName, mRel |-> rtype])
  /\ IF NameEnd = npos
       THEN pos' = npos /\ pc' = "done" /\ UNCHANGED rtype
       ELSE /\ pos' = NameEnd + 1
            /\ rtype' = hier[NameEnd + 1]
            /\ pc' = IF pos' < Len(hier) THEN "unit" ELSE "done"
  /\ UNCHANGED <<iUri, base, hier, iErr, other, origin, cmp>>

Parse == ParseBase \/ ParseHead \/ UpperUnit \/ BareUnit \/ NextUnit

-----------------------------------------------------------------------------
\* What a client does with a Uri that has been parsed.

\* Slip: the current node is not marked.
GetUri_NoMark(elems) ==
  FlattenSeq([i \in 1 .. Len(elems) |->
    elems[i].mName \o IF i < Len(elems) THEN <<":">> ELSE << >>])

\* Uri::DoGetUri.  relChar tests the constant EOwned, not the unit: it is ':'
\* for every unit.
GetUri(elems) ==
  FlattenSeq([i \in 1 .. Len(elems) |->
    (IF i = 1 /\ elems[1].mName # << >> /\ elems[1].mRel # "/"
       THEN <<".", ":">> ELSE << >>)
    \o elems[i].mName
    \o (IF i < Len(elems) THEN <<":">> ELSE << >>)])

\* Another Uri is made, of text t.
Construct(t, why) ==
  /\ pc = "done"
  /\ origin = "none"
  /\ other' = iElems
  /\ origin' = why
  /\ iUri' = t
  /\ iScheme' = << >> /\ iAuthority' = << >> /\ iPath' = << >> /\ iBase' = << >>
  /\ hier' = << >>
  /\ iElems' = << >>
  /\ iErr' = FALSE
  /\ pos' = 0
  /\ rtype' = KSepNone
  /\ pc' = "base"
  /\ cmp' = NoCompare

\* Uri(string(u)), and a second Uri to be joined to the first.
Render == Construct(GetUri(iElems), "rendered")

Second == \E t \in Others : Construct(t, "joined")

Joinable == pc = "done" /\ origin = "joined" /\ Len(iElems) + Len(other) <= MaxJoin

\* Uri::Append, and += and + which are made of it: the units of the other Uri
\* one by one at the end.
AppendUri ==
  /\ Joinable
  /\ iElems' = FoldLeft(Append, iElems, other)
  /\ cmp' = NoCompare
  /\ UNCHANGED <<iUri, base, hier, iErr, pos, rtype, pc, other, origin>>

\* Slip: the other Uri is walked from its first unit.
PrependUri_Forward ==
  /\ Joinable
  /\ iElems' = FoldLeft(LAMBDA us, u : <<u>> \o us, iElems, other)
  /\ cmp' = NoCompare
  /\ UNCHANGED <<iUri, base, hier, iErr, pos, rtype, pc, other, origin>>

\* Uri::Prepend: from the last one on, each at the front.
PrependUri ==
  /\ Joinable
  /\ iElems' = FoldRight(LAMBDA u, us : <<u>> \o us, other, iElems)
  /\ cmp' = NoCompare
  /\ UNCHANGED <<iUri, base, hier, iErr, pos, rtype, pc, other, origin>>

\* Uri::Compare of the units from start on with those of the other Uri.  It
\* does not look for the end: behind it what it reads is arbitrary.
Compare(start) ==
  LET inside == {i \in 1 .. Len(other) : start + i <= Len(iElems)}
      same   == \A i \in inside : iElems[start + i] = other[i]
      past   == Len(other) > Cardinality(inside)
  IN  /\ pc = "done"
      /\ origin = "joined"
      /\ start \in 0 .. Len(iElems)
      /\ \E luck \in IF past THEN BOOLEAN ELSE {TRUE} :
           cmp' = IF same /\ luck THEN [matched |-> TRUE, end |-> start + Len(other)]
                                  ELSE NoCompare
      /\ UNCHANGED <<iUri, base, hier, iElems, iErr, pos, rtype, pc, other, origin>>

\* Uri::AppendTail to the other Uri: what is behind the place where Compare has
\* found it.
AppendTail ==
  /\ pc = "done"
  /\ origin = "joined"
  /\ cmp.matched /\ cmp.end <= Len(iElems)
  /\ other' = FoldLeft(Append, other, SubSeq(iElems, cmp.end + 1, Len(iElems)))
  /\ cmp' = NoCompare
  /\ UNCHANGED <<iUri, base, hier, iElems, iErr, pos, rtype, pc, origin>>

Use ==
  \/ Render
  \/ Second
  \/ AppendUri
  \/ PrependUri
  \/ \E start \in 0 .. Len(iElems) : Compare(start)
  \/ AppendTail

Next == Parse \/ Use

Spec == Init /\ [][Next]_vars

\* Parse is one call: it runs until it returns, throws or aborts.
FairSpec == Spec /\ WF_vars(Parse)

-----------------------------------------------------------------------------
\* Properties.

\* Types.
TypeOK ==
  /\ \A t \in {iUri, iScheme, iAuthority, iPath, iBase, hier} : t \in Seq(Char)
  /\ iElems \in Seq(Unit)
  /\ iErr \in BOOLEAN
  /\ pos \in npos .. Len(hier)
  /\ rtype \in Rel
  /\ pc \in {"base", "head", "unit", "done", "throws", "aborted"}
  /\ other \in Seq(Unit)
  /\ origin \in {"none", "rendered", "joined"}
  /\ cmp.matched \in BOOLEAN /\ cmp.end \in npos .. Len(iElems) + Len(other)

\* The relation and name of each unit, written one after the other.
Spelled(elems) ==
  FlattenSeq([i \in 1 .. Len(elems) |-> <<elems[i].mRel>> \o elems[i].mName])

\* At every turn of the loop of Parse and when it ends, the units found spell
\* the text read so far, behind a '.' and without the root: no character is
\* lost, read twice or given to the wrong unit.
UnitsSpellText ==
  (pc \in {"unit", "done"} /\ origin # "joined" /\ Len(hier) > 1) =>
    LET mark  == IF hier[1] = "." /\ hier[2] # "." THEN 1 ELSE 0
        named == IF iElems # << >> /\ hier[1] # "." THEN Tail(iElems) ELSE iElems
        next  == IF pos = npos \/ rtype = KSepNone THEN << >> ELSE <<rtype>>
    IN  Spelled(named) \o next
          = SubSeq(hier, mark + 1, IF pos = npos THEN Len(hier) ELSE pos)

\* A uri whose units are all related by ':', end in a name and hold no '#' is
\* read back by Uri(string(u)) as it was, although GetUri writes ':' for every
\* relation and leaves the marks of the current node and of the root implicit.
ReadsBack ==
  (/\ pc \in {"done", "throws", "aborted"}
   /\ origin = "rendered"
   /\ other # << >>
   /\ Last(other).mName # << >>
   /\ \A i \in 1 .. Len(other) :
        other[i].mRel = ":" /\ ~Contains(other[i].mName, "#"))
    => pc = "done" /\ ~iErr /\ iElems = other

\* Joining two uris keeps the units of both, each in their order; and a uri that
\* Compare has found in another one is completed by the tail behind it to what
\* the other one is from there on.
JoinKeepsBoth ==
  [][pc = "done" /\ pc' = "done" =>
       /\ iElems' # iElems => iElems' \in {iElems \o other, other \o iElems}
       /\ other' # other =>
            other' = SubSeq(iElems, cmp.end - Len(other) + 1, Len(iElems))]_vars

\* Parse ends, whatever the text.
ParseEnds == pc = "base" ~> pc \in {"done", "throws", "aborted"}

\* "Check the relation symbol, if omitted that assume it's hier" (Parse): a
\* text without a relation symbol is parsed too.
OmittedIsHier == pc # "aborted"

=============================================================================
