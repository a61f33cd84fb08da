CONSTANTS
  Hash = {h1, h2}
  Api = {a1}
  Proc = {p1, p2}
  Obj = {o1, o2, o3, o4}
  Boot = boot
  None = none
  Limits = {1}
  Leftover <- NoFiles
  Ops = {"add", "delete", "move2wait"}
  Overlap = TRUE
  ReAdd = TRUE
  SpecMayFail = FALSE
  MaxWait = 1
SPECIFICATION Spec
INVARIANTS ConcurrencyLimit IInv
PROPERTY SlotsKept
SYMMETRY Symmetry
