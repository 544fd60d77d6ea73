SPECIFICATION Spec
CONSTANTS
  Proc = {p1, p2}
  Account = {a1, a2}
  Person = {t1}
  Handle = {h1}
  Plain = {n1}
  Secret = {s1, s2}
  NoName = NoName
  NoSecret = NoSecret
  NoHandle = NoHandle
  NoPerson = NoPerson
  NoAccount = NoAccount
  Realms = {"@", "tg:", ""}
  Ops = {"register", "login", "update", "request"}
  Reassign = TRUE
  Faults = {"query", "ack", "crash"}
SYMMETRY Symmetry
INVARIANTS
  Inv
  AccountsAsOpened
  TokensAreEarned
PROPERTIES
  ImplementsUsernames
