------------------------------- MODULE MCTMut -------------------------------
(***************************************************************************)
(* Two types and three attributes for TMut, values of up to two symbols,   *)
(* and all short texts of a type and what follows it.                      *)
(***************************************************************************)
EXTENDS TMut

CONSTANT MaxLen   \* bound: symbols after the first one of a text

\* ENt_Node and ENt_Rm.
SomeTypes == [t \in {1, 4} |-> IF t = 1 THEN "node" ELSE "rm"]

\* ENa_Id, ENa_Parent and ENa_MutVal.
SomeAttrs == [a \in {1, 2, 12} |->
                CASE a = 1 -> "id" [] a = 2 -> "parent" [] a = 12 -> "val"]

\* Texts of any symbols behind a type, and ones that start with none.
SomeTexts ==
  {<<"node">> \o rest : rest \in BoundedSeq(Symbol \ {"rm", "val"}, MaxLen)}
    \cup BoundedSeq(Symbol, 2)

\* All values of one symbol, and those of two that mix an escape symbol with
\* another control symbol.
SomeValues ==
  LET control == {KSep, KAttrSep, KEsc}
  IN  BoundedSeq(control \cup Letter, 1)
        \cup {value \in TupleOf(control, 2) : KEsc \in Range(value)}

=============================================================================
