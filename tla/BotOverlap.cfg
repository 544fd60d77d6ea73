SPECIFICATION FairSpec
CONSTANTS
  Proc = {p1, p2}
  Person = {t1}
  Group = {}
  Alias = {a1}
  File = {f1}
  None = None
  Ops = {"text", "cancel", "files", "upload", "share", "grants", "rev", "del"}
  Faults = {"call", "crash"}
  Waits = "no"
  Focused = FALSE
INVARIANTS
  Inv
  NeverBlocked
PROPERTIES
  DialogueEnds
  HandlersEnd
