SPECIFICATION Spec
CONSTANTS
  Proc = {p1, p2}
  User = {u1, u2}
  File = {f1}
  NoUser = NoUser
  NoFile = NoFile
  Faults = {"query", "ack", "disk", "crash"}
  Plain = {n1}
  NoName = NoName
  Ops = {"upload", "download", "shared", "share", "revoke", "delete", "rename"}
  MaxRows = 2
  MaxBatch = 1
SYMMETRY Symmetry
INVARIANTS
  TypeOK
  Inv
  ServedOnlyEntitled
  RefusedOnlyLapsed
PROPERTIES
  ImplementsAccessPolicy
