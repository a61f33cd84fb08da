CONSTANTS
  Hash = {h1, h2}
  Proc = {p1, p2, p3, p4}
  Config <- SomeConfig
  Loader = Loader
  None = None
  MaxWait = 1
SPECIFICATION FairSpec
INVARIANTS TypeOK   
PROPERTY ConfigureReturns
