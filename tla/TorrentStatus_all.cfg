CONSTANTS
  NFiles = 2
  Api = {a1, a2}
  Starter = starter
  AutoStart = {TRUE, FALSE}
SPECIFICATION FairSpec
INVARIANTS TypeOK CommandOnce NothingMissed StartedAgree ReapsComplete
PROPERTY Reports
