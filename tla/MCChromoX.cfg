CONSTANTS
  Obj = {c1, c2, c3}
  Doc = {d1, d2, d3}
  NoDoc = NoDoc

SPECIFICATION Spec

SYMMETRY Interchangeable

INVARIANTS
  DocIInv
  RulesSuffice

CHECK_DEADLOCK FALSE
