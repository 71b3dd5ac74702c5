SPECIFICATION Spec
CONSTANTS
  engine = engine  container = container  u1 = u1  initial = initial  demo = demo
  Engine = engine
  Container = container
  Users = {}
  NoThread = NoThread
  Files = {initial, demo}
  Initial = initial
  Fixtures = {demo}
  MaxEdits = 0
  MaxFailures = 0
  MaxStops = 1
PROPERTY DeletedDataStaysDeleted
