-------------------------------- MODULE TMut --------------------------------
(***************************************************************************)
(* TMut (src/src/chromo.cpp, src/src/chromo.h): a mutation, which has a    *)
(* type and attributes, and its text.                                      *)
(*                                                                         *)
(* A text is the name of the type and, for every attribute, KSep, the name *)
(* of the attribute, KAttrSep and the value with its control symbols       *)
(* escaped.  A name is one symbol, as the code looks names up whole.  The  *)
(* constructor that parses a text is one action for the type, one for each *)
(* turn of the loop that looks for a separator and one for each attribute. *)
(***************************************************************************)
EXTENDS FiniteSets, Functions, SequencesExt, StdString

CONSTANTS
  KNodeTypesNames,  \* the name of every type but ENt_Unknown
  KNodeAttrsNames,  \* the name of every attribute but ENa_Unknown
  Letter,           \* symbols that mean nothing to the parser
  Texts,            \* texts a TMut is made from
  Values            \* attribute values the callers have

KSep == ","
KAttrSep == ":"
KEsc == "\\"

ENt_Unknown == 0
ENa_Unknown == 0

Types == DOMAIN KNodeTypesNames
Attrs == DOMAIN KNodeAttrsNames

Names == Range(KNodeTypesNames) \cup Range(KNodeAttrsNames)
Symbol == Names \cup Letter \cup {KSep, KAttrSep, KEsc}

ASSUME TMutAssumption ==
  /\ Types \subseteq Nat \ {ENt_Unknown} /\ IsInjective(KNodeTypesNames)
  /\ Attrs \subseteq Nat \ {ENa_Unknown} /\ IsInjective(KNodeAttrsNames)
  /\ IsFiniteSet(Attrs)
  /\ Names \cap {KSep, KAttrSep, KEsc} = {}
  /\ Texts \subseteq Seq(Symbol) /\ Values \subseteq Seq(Symbol)

VARIABLES
  mType, mAttrs,      \* the TMut; its attributes are a function on some Attrs
  aSpec,              \* the text that is parsed
  attr_beg, attr_mid, attr_end,   \* offsets of the loops of the parser
  pc,                 \* what the constructor does next, or how it has ended
  origin              \* the TMut that aSpec is the text of, if it is one

parser == <<aSpec, attr_beg, attr_mid, attr_end>>

vars == <<mType, mAttrs, parser, pc, origin>>

NoAttrs == [a \in {} |-> << >>]

NoTMut == [mType |-> ENt_Unknown, mAttrs |-> NoAttrs, some |-> FALSE]

Init ==
  /\ mType = ENt_Unknown /\ mAttrs = NoAttrs
  /\ aSpec = << >>
  /\ attr_beg = 0 /\ attr_mid = 0 /\ attr_end = npos
  /\ pc = "new"
  /\ origin = NoTMut

-----------------------------------------------------------------------------
\* Names and the control symbols of values.

\* The key of table that has the given text as its name, if there is one.
Lookup(table, name, unknown) ==
  IF \E k \in DOMAIN table : name = <<table[k]>>
    THEN CHOOSE k \in DOMAIN table : name = <<table[k]>>
    ELSE unknown

NodeType(name) == Lookup(KNodeTypesNames, name, ENt_Unknown)

NodeAttr(name) == Lookup(KNodeAttrsNames, name, ENa_Unknown)

\* ENt_Unknown has no name: the table yields an empty one.
NodeTypeName(type) == IF type \in Types THEN <<KNodeTypesNames[type]>> ELSE << >>

EscapeCtrls(value) ==
  FlattenSeq([i \in DOMAIN value |->
    IF value[i] \in {KSep, KAttrSep, KEsc} THEN <<KEsc, value[i]>> ELSE <<value[i]>>])

IsCtrlSymb(symbol) == symbol \in {KSep, KAttrSep}

\* Slip: the escape of the separator after a name is kept.
DeEscCtrls_SepOnly(value) ==
  FlattenSeq([i \in DOMAIN value |->
    IF value[i] = KEsc /\ i < Len(value) /\ value[i + 1] = KSep
      THEN << >> ELSE <<value[i]>>])

\* An escape before a separator is dropped, and no other is.
DeEscCtrls(value) ==
  FlattenSeq([i \in DOMAIN value |->
    IF value[i] = KEsc /\ i < Len(value) /\ IsCtrlSymb(value[i + 1])
      THEN << >> ELSE <<value[i]>>])

\* The attributes with attribute attr set, whatever it was before.
WithAttr(attrs, attr, value) ==
  [a \in DOMAIN attrs \cup {attr} |-> IF a = attr THEN value ELSE attrs[a]]

-----------------------------------------------------------------------------
\* The constructors that get a type and attributes.  They insert, so of two
\* values for one attribute the first stays.
Args == UNION {[1 .. n -> Attrs \X Values] : n \in 0 .. 3}

Inserted(args) ==
  LET Has(n) == {args[k][1] : k \in 1 .. n}
  IN  [a \in Has(Len(args)) |->
         args[CHOOSE i \in DOMAIN args : args[i][1] = a /\ a \notin Has(i - 1)][2]]

Construct ==
  /\ pc = "new"
  /\ mType' \in Types \cup {ENt_Unknown}
  /\ mAttrs' \in {Inserted(args) : args \in Args}
  /\ pc' = "done"
  /\ UNCHANGED <<parser, origin>>

\* TMut(const ChromoNode&): the node's type and what it has of the attributes.
FromNode ==
  /\ pc = "new"
  /\ mType' \in Types \cup {ENt_Unknown}
  /\ \E own \in SUBSET Attrs : mAttrs' \in [own -> Values]
  /\ pc' = "done"
  /\ UNCHANGED <<parser, origin>>

\* TMut(const string&) called with a text from elsewhere.
FromText ==
  /\ pc = "new"
  /\ aSpec' \in Texts
  /\ pc' = "type"
  /\ UNCHANGED <<mType, mAttrs, attr_beg, attr_mid, attr_end, origin>>

-----------------------------------------------------------------------------
\* TMut(const string&).

ParseType ==
  /\ pc = "type"
  /\ LET type_end == FindFirstOf(aSpec, {KSep}, 0)
         type     == NodeType(Substr(aSpec, 0, type_end))
     IN  /\ mType' = type
         /\ attr_beg' = type_end + 1 /\ attr_mid' = type_end + 1
         /\ attr_end' = type_end
         /\ pc' = IF type = ENt_Unknown THEN "throws"
                  ELSE IF type_end = npos THEN "done" ELSE "sep"
  /\ UNCHANGED <<mAttrs, aSpec, origin>>

\* Slip: the search starts again where the escaped separator is.
FindSep_Stays ==
  /\ pc = "sep"
  /\ LET sep == FindFirstOf(aSpec, {KSep}, attr_mid)
     IN  /\ attr_end' = sep
         /\ attr_mid' = sep
         /\ pc' = IF sep # npos /\ aSpec[sep] = KEsc THEN "sep" ELSE "attr"
  /\ UNCHANGED <<mType, mAttrs, aSpec, attr_beg, origin>>

\* Slip: every separator ends an attribute.
FindSep_Any ==
  /\ pc = "sep"
  /\ attr_end' = FindFirstOf(aSpec, {KSep}, attr_mid)
  /\ attr_mid' = attr_end' + 1
  /\ pc' = "attr"
  /\ UNCHANGED <<mType, mAttrs, aSpec, attr_beg, origin>>

\* A turn of the loop that looks for the next separator: one with an escape
\* before it is passed over.
FindSep ==
  /\ pc = "sep"
  /\ LET sep == FindFirstOf(aSpec, {KSep}, attr_mid)
     IN  /\ attr_end' = sep
         /\ attr_mid' = sep + 1
         /\ pc' = IF sep # npos /\ aSpec[sep] = KEsc THEN "sep" ELSE "attr"
  /\ UNCHANGED <<mType, mAttrs, aSpec, attr_beg, origin>>

\* Slip: the name of an attribute is not looked at.
ParseAttr_AnyName ==
  /\ pc = "attr"
  /\ LET text     == Substr(aSpec, attr_beg, attr_end)
         name_end == FindFirstOf(text, {KAttrSep}, 0)
     IN  IF name_end = npos
           THEN pc' = "throws" /\ UNCHANGED <<mAttrs, attr_beg, attr_mid>>
           ELSE /\ mAttrs' = WithAttr(mAttrs, NodeAttr(SubSeq(text, 1, name_end)),
                               DeEscCtrls(Substr(text, name_end + 1, npos)))
                /\ attr_beg' = attr_end + 1 /\ attr_mid' = attr_end + 1
                /\ pc' = IF attr_end = npos THEN "done" ELSE "sep"
  /\ UNCHANGED <<mType, aSpec, attr_end, origin>>

\* Slip: the loop over attributes ends after the first one.
ParseAttr_First ==
  /\ pc = "attr"
  /\ LET text     == Substr(aSpec, attr_beg, attr_end)
         name_end == FindFirstOf(text, {KAttrSep}, 0)
         attr     == IF name_end = npos THEN ENa_Unknown
                     ELSE NodeAttr(SubSeq(text, 1, name_end))
     IN  IF attr = ENa_Unknown
           THEN pc' = "throws" /\ UNCHANGED mAttrs
           ELSE /\ mAttrs' = WithAttr(mAttrs, attr,
                               DeEscCtrls(Substr(text, name_end + 1, npos)))
                /\ pc' = "done"
  /\ UNCHANGED <<mType, parser, origin>>

\* An attribute without KAttrSep or with a name that is none makes it throw.
ParseAttr ==
  /\ pc = "attr"
  /\ LET text     == Substr(aSpec, attr_beg, attr_end)
         name_end == FindFirstOf(text, {KAttrSep}, 0)
         attr     == IF name_end = npos THEN ENa_Unknown
                     ELSE NodeAttr(SubSeq(text, 1, name_end))
     IN  IF attr = ENa_Unknown
           THEN pc' = "throws" /\ UNCHANGED <<mAttrs, attr_beg, attr_mid>>
           ELSE /\ mAttrs' = WithAttr(mAttrs, attr,
                               DeEscCtrls(Substr(text, name_end + 1, npos)))
                /\ attr_beg' = attr_end + 1 /\ attr_mid' = attr_end + 1
                /\ pc' = IF attr_end = npos THEN "done" ELSE "sep"
  /\ UNCHANGED <<mType, aSpec, attr_end, origin>>

-----------------------------------------------------------------------------
\* What a TMut offers once it is made.

SetAttr ==
  /\ pc = "done" /\ ~origin.some
  /\ \E attr \in Attrs, value \in Values : mAttrs' = WithAttr(mAttrs, attr, value)
  /\ UNCHANGED <<mType, parser, pc, origin>>

RmAttr ==
  /\ pc = "done" /\ ~origin.some
  /\ \E attr \in DOMAIN mAttrs : mAttrs' = Restrict(mAttrs, DOMAIN mAttrs \ {attr})
  /\ UNCHANGED <<mType, parser, pc, origin>>

\* The order of the keys of a map.
InOrder(keys) ==
  CHOOSE order \in [1 .. Cardinality(keys) -> keys] :
    \A i, j \in 1 .. Cardinality(keys) : i < j => order[i] < order[j]

\* operator string: the attributes come in the order of their numbers.
ToText(type, attrs) ==
  LET order == InOrder(DOMAIN attrs)
  IN  NodeTypeName(type) \o
      FlattenSeq([i \in DOMAIN order |->
        <<KSep, KNodeAttrsNames[order[i]], KAttrSep>> \o EscapeCtrls(attrs[order[i]])])

\* The text of this TMut, and another TMut made from it.
Through ==
  /\ pc = "done" /\ ~origin.some
  /\ origin' = [mType |-> mType, mAttrs |-> mAttrs, some |-> TRUE]
  /\ aSpec' = ToText(mType, mAttrs)
  /\ mType' = ENt_Unknown /\ mAttrs' = NoAttrs
  /\ attr_beg' = 0 /\ attr_mid' = 0 /\ attr_end' = npos
  /\ pc' = "type"

Parse == ParseType \/ FindSep \/ ParseAttr

Next == Construct \/ FromNode \/ FromText \/ Parse \/ SetAttr \/ RmAttr \/ Through

Spec == Init /\ [][Next]_vars

\* The constructor runs to its end in the thread that calls it.
FairSpec == Spec /\ WF_vars(Parse)

-----------------------------------------------------------------------------
IsAttrMap(attrs) ==
  /\ DOMAIN attrs \subseteq Attrs
  /\ \A a \in DOMAIN attrs : attrs[a] \in Seq(Symbol)

\* The state has its type; only attributes of the table are ever stored
\* (TMut::SetAttr).
TypeOK ==
  /\ mType \in Types \cup {ENt_Unknown}
  /\ IsAttrMap(mAttrs) /\ IsAttrMap(origin.mAttrs)
  /\ aSpec \in Seq(Symbol)
  /\ attr_beg \in 0 .. Len(aSpec) /\ attr_mid \in 0 .. Len(aSpec)
  /\ attr_end \in npos .. Len(aSpec) - 1
  /\ pc \in {"new", "type", "sep", "attr", "done", "throws"}

HasEsc(attrs) == \E a \in DOMAIN attrs : KEsc \in Range(attrs[a])

\* A TMut that is written as a text and read from it is the same mutation
\* exactly if no value holds an escape symbol: operator string and EscapeCtrls
\* are undone by TMut(const string&) and DeEscCtrls for all other values, any
\* number of separators in them included.  An escape symbol is escaped but
\* never restored.
ReadsBack ==
  origin.some /\ pc = "done" =>
    (mType = origin.mType /\ mAttrs = origin.mAttrs <=> ~HasEsc(origin.mAttrs))

\* The text that operator string makes of a mutation with a known type never
\* makes TMut(const string&) throw, whatever its values are: also one that
\* ends in an escape symbol, which hides the separator behind it.
OwnTextParses ==
  origin.some /\ origin.mType # ENt_Unknown => pc # "throws"

\* An attribute gets lost on the way through a text only if the value right
\* before it ends in an escape symbol: TMut(const string&) takes the separator
\* between them for an escaped one, and the attribute for a part of the value.
OnlyEscHides ==
  origin.some /\ pc = "done" =>
    \A a \in DOMAIN origin.mAttrs \ DOMAIN mAttrs :
      \E b \in DOMAIN origin.mAttrs :
        /\ b < a /\ \A c \in DOMAIN origin.mAttrs : c <= b \/ c >= a
        /\ origin.mAttrs[b] # << >> /\ Last(origin.mAttrs[b]) = KEsc

\* The constructor ends for every text, though it passes over separators in a
\* loop inside a loop.
ParseEnds == []<>(pc \in {"new", "done", "throws"})

=============================================================================
