CONSTANTS
  r = r
  a = a
  c = c
  ElemId = {r, a, c}
  Name = {"x", "y", NoName}
  NoName = NoName
  NoElem = NoElem
  NoData = NoData
  Batches <- Chromos
  MaxBatch = 3
  MaxChromo = 9
  MaxEarlier = 5
  SelfStep <- Steps
  one = one
  two = two
  three = three
  aborts = aborts
  missing = missing
  other = other
  Paths = {NoPath, one, two, three, aborts, missing, other}
  NoPath = NoPath
  Unreadable = Unreadable
  NoRootNode = NoRootNode
  Content <- Files

SPECIFICATION EnvSpec

INVARIANT AllAppliedAtEnd

CHECK_DEADLOCK FALSE
