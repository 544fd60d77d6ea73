SPECIFICATION Spec
CONSTANTS
  Proc = {p1, p2}
  Account = {a1, a2, a3}
  Person = {t1, t2}
  Handle = {h1, h2}
  Plain = {n1}
  Secret = {s1}
  NoName = NoName
  NoSecret = NoSecret
  NoHandle = NoHandle
  NoPerson = NoPerson
  NoAccount = NoAccount
  Realms = {}
  Ops = {"update"}
  Reassign = TRUE
  Faults = {"query"}
SYMMETRY Symmetry
INVARIANTS
  TypeOK
  PeopleKeptApart
  OneAccountPerName
