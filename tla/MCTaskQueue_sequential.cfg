CONSTANTS
  Hash = {h1, h2, h3}
  Api = {a1}
  Proc = {p1, p2, p3}
  Obj = {o1, o2, o3, o4, o5}
  Boot = boot
  None = none
  Limits = {1, 2}
  Leftover <- AllFiles
  Ops = {"add", "delete", "ratio", "seedtime", "setlimit"}
  Overlap = FALSE
  ReAdd = FALSE
  SpecMayFail = FALSE
  MaxWait = 3
SPECIFICATION Spec
INVARIANTS NoStranded NoIdleSlot NoGhost Durable
SYMMETRY Symmetry
