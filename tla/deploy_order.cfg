SPECIFICATION FairSpec
CONSTANTS
  engine = engine  container = container  u1 = u1  initial = initial  demo = demo
  Engine = engine
  Container = container
  Users = {u1}
  NoThread = NoThread
  Files = {initial, demo}
  Initial = initial
  Fixtures = {demo}
  MaxEdits = 1
  MaxFailures = 1
  MaxStops = 1
INVARIANT TypeOK
INVARIANT NothingInstalledTwice
INVARIANT InstalledAfterDeployment
PROPERTY DeploymentIsNotMissed
PROPERTY SchemaDeploymentEnds
