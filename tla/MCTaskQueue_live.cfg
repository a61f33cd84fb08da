CONSTANTS
  Hash = {h1}
  Api = {a1, a2}
  Proc = {p1, p2}
  Obj = {o1, o2, o3}
  Boot = boot
  None = none
  Limits = {1}
  Leftover <- MagnetFiles
  Ops = {"add", "delete"}
  Overlap = TRUE
  ReAdd = FALSE
  SpecMayFail = TRUE
  MaxWait = 3
SPECIFICATION FairSpec
INVARIANTS NoOrphan Supervised ClosedOnce
PROPERTY SlotsImplemented
