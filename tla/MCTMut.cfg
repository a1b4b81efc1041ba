CONSTANTS
  KNodeTypesNames <- SomeTypes
  KNodeAttrsNames <- SomeAttrs
  Letter = {"x"}
  Texts <- SomeTexts
  Values <- SomeValues
  MaxLen = 5

SPECIFICATION FairSpec

INVARIANTS
  TypeOK
  ReadsBack
  OwnTextParses
  OnlyEscHides

PROPERTIES
  ParseEnds

CHECK_DEADLOCK FALSE
