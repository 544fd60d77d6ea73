SPECIFICATION Spec
CONSTANTS
  Proc = {p1, p2}
  Person = {t1, t2}
  Group = {}
  Alias = {a1}
  File = {f1}
  None = None
  Ops = {"text", "upload", "share", "grants", "rev", "del"}
  Faults = {}
  Waits = "answer"
  Focused = FALSE
SYMMETRY Symmetry
INVARIANTS
  ActsForSender
  SelectedFirst
PROPERTIES
  OwnersDecide
