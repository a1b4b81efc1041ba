---------------------------- MODULE MCChromoTree -----------------------------
(***************************************************************************)
(* A document as it is read from a file: the root, and under it text, a    *)
(* node to add and a mutation of another type; room for one to be made.    *)
(***************************************************************************)
EXTENDS ChromoTree

CONSTANTS doc, root, t1, a, b, n1

\* As indented: text before the first node.
IndentedKind ==
  [n \in Node |-> CASE n = doc -> "document"
                    [] n = t1 -> "text"
                    [] n \in {root, a} -> "ENt_Node"
                    [] n = b -> "ENt_Rm"
                    [] OTHER -> "unused"]

IndentedKids ==
  [n \in Node |-> CASE n = doc -> <<root>>
                    [] n = root -> <<t1, a, b>>
                    [] OTHER -> << >>]

=============================================================================
