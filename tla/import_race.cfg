SPECIFICATION Spec
CONSTANTS
  e1 = e1  e2 = e2  s1 = s1
  j1 = j1  j2 = j2  j3 = j3  j4 = j4
  Events = {e1, e2}
  Callers = {t1}
  Syncs = {}
  ViaResource = {t1}
  Jobs = {j1, j2, j3, j4}
  JobsOf <- MCJobsOf
  ParentJob <- MCParentJob
  NoJob = NoJob
  NoThread = NoThread
  MaxPlans = 1
  MaxFailures = 0
  MaxRestarts = 0
  MaxCrashes = 0
INVARIANT ScheduledJobsAreExecutable
