SPECIFICATION FairSpec
CONSTANTS
  engine = engine  container = container  storeThread = storeThread
  r1 = r1  r2 = r2  a1 = a1  o1 = o1
  Engine = engine
  Container = container
  StoreThread = storeThread
  StoreIsLate = TRUE
  Present = {r1}
  Late = {r2}
  Admins = {}
  Others = {}
  NoThread = NoThread
  MaxFaults = 0
PROPERTY AllRuleSetsAreDeployed
CHECK_DEADLOCK FALSE
