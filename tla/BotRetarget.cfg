SPECIFICATION Spec
CONSTANTS
  Proc = {p1, p2}
  Person = {t1}
  Group = {}
  Alias = {a1, a2}
  File = {f1, f2}
  None = None
  Ops = {"text", "upload", "share", "grants"}
  Faults = {}
  Waits = "end"
  Focused = FALSE
SYMMETRY Symmetry
INVARIANTS
  SharesPrompted
