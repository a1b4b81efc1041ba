CONSTANTS
  Obj = {c1, c2, c3}
  Doc = {d1, d2}
  NoDoc = NoDoc
  early = early
  quiet = quiet
  late = late
  Def = Def
  Prov = {early, quiet, Def, late}
  Plugins = {early, quiet}
  Answers = {early, Def, late}
  NameOf <- Names
  NoProv = NoProv

SPECIFICATION ProvSpec

SYMMETRY Interchangeable

INVARIANTS
  UseIInv
  KeepsRules
  RootsUsable
  LeaksOnlyFiles
  ProvIInv
  RulesCarry
  OwnedOnce

CHECK_DEADLOCK FALSE
