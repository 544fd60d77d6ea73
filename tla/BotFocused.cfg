SPECIFICATION Spec
CONSTANTS
  Proc = {p1, p2}
  Person = {t1}
  Group = {}
  Alias = {a1, a2}
  File = {f1, f2}
  None = None
  Ops = {"text", "cancel", "get", "upload", "share", "grants", "rev", "del"}
  Faults = {"call", "crash"}
  Waits = "end"
  Focused = TRUE
SYMMETRY Symmetry
INVARIANTS
  TypeOK
  PromptIsKept
  FocusInv
PROPERTIES
  ImplementsAccessPolicy
