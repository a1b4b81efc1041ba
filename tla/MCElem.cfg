CONSTANTS
  r = r
  a = a
  ElemId = {r, a}
  Name = {"x", "y", NoName}
  NoName = NoName
  NoElem = NoElem
  NoData = NoData
  Batches <- SomeBatches
  MaxBatch = 2
  MaxChromo = 3
  SelfStep <- Steps

SPECIFICATION Spec

INVARIANTS
  TypeOK
  IInv
  EmptyReadHarmless
  ComponentsFrozen
  OwnerInSync

PROPERTIES
  NoOverwrite
  LogSpec

CHECK_DEADLOCK FALSE
