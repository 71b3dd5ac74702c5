SPECIFICATION FairSpec
CONSTANTS
  engine = engine  container = container  storeThread = storeThread
  r1 = r1  r2 = r2  a1 = a1  o1 = o1
  Engine = engine
  Container = container
  StoreThread = storeThread
  StoreIsLate = FALSE
  Present = {r1}
  Late = {r2}
  Admins = {a1}
  Others = {o1}
  NoThread = NoThread
  MaxFaults = 1
INVARIANT TypeOK
PROPERTY OnlyEarlySavesDuplicateRows
PROPERTY EditedRulesSurvive
PROPERTY OnlyListenersBlockRules
CHECK_DEADLOCK FALSE
