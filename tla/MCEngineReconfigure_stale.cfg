CONSTANTS
  Hash = {h1, h2, h3}
  Proc = {p1, p2, p3, p4}
  Config <- TwoDirs
  Loader = Loader
  None = None
  MaxWait = 1
SPECIFICATION Spec
INVARIANT NoIdleSlot
