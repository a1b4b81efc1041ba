CONSTANTS
  doc = doc
  root = root
  a = a
  n1 = n1
  n2 = n2
  Node = {doc, root, a, n1, n2}
  Root = root
  Document = doc
  NoNode = NoNode
  Type = {"ENt_Node", "ENt_Rm"}
  FirstKind <- ReadKind
  FirstKids <- ReadKids
  FirstAttrs <- ReadAttrs
  Mut <- SomeMuts
  Part = {"", "x"}
  Value <- Texts
  Names <- NotEmpty
  Settable = {a}

SPECIFICATION AttrSpec

SYMMETRY NewNodes

INVARIANTS
  IsForest
  AtIsIndex
  PathLeadsBack

PROPERTIES
  DocSpec
  MutsAppended
  ActivateReaches

CHECK_DEADLOCK FALSE
