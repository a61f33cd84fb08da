CONSTANTS
  Mutator = {m1, m2}
  Conn = {c1}
  Ticker = {t1}
  Consumer = consumer
  None = none
  Ops = {"upsert", "delete"}
SPECIFICATION FairSpec
PROPERTY ChangesShown
CHECK_DEADLOCK FALSE
