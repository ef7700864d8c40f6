SPECIFICATION Spec
CONSTANTS
  Fields = {"name", "plan"}
  Values = {base, v1}
  Base = base
  Requests = {r1, r2}
  Changes = 4
SYMMETRY Symmetry
INVARIANTS
  LogTellsTenant
  ShowsOwnSave
  PendingIsPicked
  QuietIsUsable
