CONSTANTS
  Letter = {"a"}
  Texts <- AllTexts
  Others <- NoTexts
  MaxJoin = 0
  MaxLen = 3

SPECIFICATION Spec

INVARIANTS
  OmittedIsHier

CHECK_DEADLOCK FALSE
