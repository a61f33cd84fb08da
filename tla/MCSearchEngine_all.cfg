CONSTANTS
  x = x
  y = y
  u1 = u1
  u2 = u2
  u3 = u3
  None = none
  Name = {x, y}
  Url = {u1, u2, u3}
  Caller = {c1}
  Loader = {l1, l2}
  Builtin <- BuiltinXY
  Docs <- SomeDocs
  Budget = 1
SPECIFICATION FairSpec
INVARIANTS TypeOK OneDefinition HonestVerdict LoadApplied
PROPERTIES NeverVanishes AllEnd
