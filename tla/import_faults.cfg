SPECIFICATION FairSpec
CONSTANTS
  e1 = e1  e2 = e2  s1 = s1
  j1 = j1  j2 = j2  j3 = j3  j4 = j4
  Events = {e1}
  Callers = {t1, t2}
  Syncs = {s1}
  ViaResource = {t1, t2, s1}
  Jobs = {j1, j2, j3, j4}
  JobsOf <- MCJobsOf
  ParentJob <- MCParentJob
  NoJob = NoJob
  NoThread = NoThread
  MaxPlans = 2
  MaxFailures = 1
  MaxRestarts = 1
  MaxCrashes = 1
INVARIANT TypeOK
INVARIANT EntryIsWhereTheRowSays
INVARIANT CanceledOnlyWhenStale
INVARIANT RunningIsAccurate
INVARIANT ExecutedOnce
INVARIANT StrandedPlansHaveACause
PROPERTY ImplementsLedger
PROPERTY ImportsProgress
