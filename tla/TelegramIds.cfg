SPECIFICATION Spec
CONSTANTS
  Proc = {p1}
  Account = {a1, a2, a3}
  Person = {t1}
  Handle = {h1, h2}
  Plain = {n1}
  Secret = {s1}
  NoName = NoName
  NoSecret = NoSecret
  NoHandle = NoHandle
  NoPerson = NoPerson
  NoAccount = NoAccount
  Realms = {}
  Ops = {"update"}
  Reassign = FALSE
  Faults = {}
SYMMETRY Symmetry
INVARIANT
  OneAccountPerTelegramId
