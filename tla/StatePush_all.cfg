CONSTANTS
  Mutator = {m1, m2}
  Conn = {c1}
  Ticker = {t1, t2}
  Consumer = consumer
  None = none
  Ops = {"upsert", "info", "delete"}
SPECIFICATION FairSpec
INVARIANTS TypeOK OneTicker PushPending
PROPERTIES OnlyDeadlockHides EverybodyServed TickerEnds
CHECK_DEADLOCK FALSE
