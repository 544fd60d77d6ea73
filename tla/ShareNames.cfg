SPECIFICATION NamesSpec
CONSTANTS
  Proc = {p1}
  User = {u1, u2, u3}
  File = {f1}
  NoUser = NoUser
  NoFile = NoFile
  Faults = {}
  Plain = {n1, n2}
  NoName = NoName
  Ops = {"upload", "share", "revoke"}
  MaxRows = 1
  MaxBatch = 1
PROPERTIES
  RevokeUndoesShare
