SPECIFICATION Spec
CONSTANTS
  Proc = {p1, p2}
  User = {u1, u2}
  File = {f1, f2}
  NoUser = NoUser
  NoFile = NoFile
  Faults = {"query", "ack", "disk", "crash"}
SYMMETRY Symmetry
INVARIANTS
  TypeOK
  AckedRowHasBytes
  DanglingOnlyIfTorn
  NoSilentLeak
  RemovalIsFinal
  Inv
PROPERTIES
  NoTornRead
  OneRemovalConfirmed
  ImplementsRegistry
