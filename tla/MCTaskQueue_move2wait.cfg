CONSTANTS
  Hash = {h1}
  Api = {a1}
  Proc = {p1, p2}
  Obj = {o1, o2, o3}
  Boot = boot
  None = none
  Limits = {1}
  Leftover <- NoFiles
  Ops = {"add", "move2wait"}
  Overlap = FALSE
  ReAdd = FALSE
  SpecMayFail = FALSE
  MaxWait = 3
SPECIFICATION Spec
INVARIANT NoOrphan
SYMMETRY Symmetry
