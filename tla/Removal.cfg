SPECIFICATION ListsFairSpec
CONSTANTS
  Proc = {p1, p2}
  Lister = {l1}
  User = {u1, u2}
  File = {f1}
  NoUser = NoUser
  NoFile = NoFile
  Faults = {}
  Plain = {n1}
  NoName = NoName
  Ops = {"upload", "share", "delete", "rename"}
  MaxRows = 1
  MaxBatch = 1
INVARIANTS
  ListsInv
  NeverBlocked
PROPERTIES
  ReadersShownToOwner
  DeleteCompletes
  RequestsEnd
