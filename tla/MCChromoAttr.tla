---------------------------- MODULE MCChromoAttr -----------------------------
(***************************************************************************)
(* A document as it is read from a file: the root and a node to add under  *)
(* it; room for two nodes to be made, so that the root can be copied with  *)
(* what is under it.                                                       *)
(***************************************************************************)
EXTENDS ChromoAttr, TLC

CONSTANTS doc, root, a, n1, n2

ReadKind ==
  [n \in Node |-> CASE n = doc -> "document"
                    [] n \in {root, a} -> "ENt_Node"
                    [] OTHER -> "unused"]

ReadKids ==
  [n \in Node |-> CASE n = doc -> <<root>> [] n = root -> <<a>> [] OTHER -> << >>]

\* The empty text, a name, and a name that looks like a path.
Texts == {<<"">>, <<"x">>, <<"x", "x">>}

NotEmpty == Texts \ {NoText}

Named(name) == [at \in {"ENa_Id"} |-> name]

ReadAttrs == [n \in Node |-> IF n = a THEN Named(<<"x">>) ELSE NoAttrs]

SomeMuts ==
  {[type |-> "ENt_Node", attrs |-> Named(<<"x">>)],
   [type |-> "ENt_Unknown", attrs |-> NoAttrs]}

\* New nodes are alike.
NewNodes == Permutations({n1, n2})

=============================================================================
