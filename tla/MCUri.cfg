CONSTANTS
  Letter = {"a"}
  Texts <- AllTexts
  Others <- SomeOthers
  MaxJoin = 7
  MaxLen = 5

SPECIFICATION FairSpec

INVARIANTS
  TypeOK
  PathAndFrag
  UnitsSpellText
  ReadsBack

PROPERTIES
  ParseEnds
  JoinKeepsBoth

CHECK_DEADLOCK FALSE
