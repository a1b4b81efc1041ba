CONSTANTS
  doc = doc
  root = root
  t1 = t1
  a = a
  b = b
  n1 = n1
  Node = {doc, root, t1, a, b, n1}
  Root = root
  Document = doc
  NoNode = NoNode
  Type = {"ENt_Node", "ENt_Rm"}
  FirstKind <- IndentedKind
  FirstKids <- IndentedKids

SPECIFICATION Spec

INVARIANT ReverseEnds

CHECK_DEADLOCK FALSE
