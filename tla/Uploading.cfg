SPECIFICATION Spec
CONSTANTS
  Proc = {p1, p2}
  User = {u1}
  File = {f1, f2}
  NoUser = NoUser
  NoFile = NoFile
  Faults = {"query", "ack", "disk", "crash"}
  Plain = {n1}
  NoName = NoName
  Ops = {"upload", "download", "delete", "rename"}
  MaxRows = 1
  MaxBatch = 2
SYMMETRY Symmetry
INVARIANTS
  UploadReported
PROPERTIES
  ImplementsFileService
