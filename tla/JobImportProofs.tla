--------------------------- MODULE JobImportProofs ---------------------------
(* What holds of JobImport for every number of threads, jobs and faults.     *)
EXTENDS JobImport, FiniteSetTheorems, TLAPS

\* The numbers of contexts and plans are natural numbers.
LEMMA Numbers ==
  /\ MaxContexts \in Nat /\ 1 <= MaxContexts
  /\ MaxPlans \in Nat /\ MaxFailures \in Nat /\ MaxRestarts \in Nat /\ MaxCrashes \in Nat
  /\ \A c \in 0..MaxContexts : c < MaxContexts => c + 1 \in Contexts
<1>1. Cardinality(Syncs) \in Nat
  BY FS_CardinalityType, ThreadAssumption DEF ThreadAssumption
<1>2. QED
  BY <1>1, BoundAssumption DEF BoundAssumption, MaxContexts, Contexts

\* Rows of plans and contexts are only added, and before anything refers to them.
LEMMA ReferencesStep ==
  ASSUME TypeOK, [Next]_vars
  PROVE  ReferencesAreRows'
<1>0. /\ plans \in Nat /\ contexts \in Nat /\ current \in Nat
      /\ plan \in [Jobs -> Nat] /\ contextMap \in [Jobs -> Nat]
      /\ planOf \in [Threads -> Nat] /\ ctxOf \in [Threads -> Nat]
      /\ ReferencesAreRows
  BY Numbers DEF TypeOK
<1> USE <1>0 DEF ReferencesAreRows, rows, maps, work, Goto, NoContext, NoPlan, Threads
<1>1. ASSUME NEW e \in Events, EventStep(e) PROVE ReferencesAreRows'
  BY <1>1 DEF EventStep, FireEvent, Persist, BuilderFails, NewJob
<1>2. ASSUME NEW t \in Callers \cup Syncs, NEW j \in Jobs, Execute(t, j) PROVE ReferencesAreRows'
  BY <1>2 DEF Execute
<1>3. ASSUME NEW t \in Callers, Trigger(t) PROVE ReferencesAreRows'
  BY <1>3 DEF Trigger
<1>4. ASSUME NEW t \in Callers, CallerStep(t) PROVE ReferencesAreRows'
  <2>1. CASE CheckRunning(t) \/ SetRunning(t) \/ EnterImport(t) \/ LeaveImport(t)
    BY <2>1 DEF CheckRunning, SetRunning, EnterImport, LeaveImport
  <2>2. CASE QueryUnscheduled(t) BY <2>2 DEF QueryUnscheduled
  <2>3. CASE AssignPlan(t) BY <2>3 DEF AssignPlan
  <2>4. CASE AssignFails(t) \/ ConnectFails(t) BY <2>4 DEF AssignFails, ConnectFails
  <2>5. CASE SwapContext(t) BY <2>5 DEF SwapContext
  <2>6. CASE LoadJobs(t) \/ CommitImport(t) \/ CommitFails(t) \/ SaveOldContext(t)
    BY <2>6 DEF LoadJobs, CommitImport, CommitFails, SaveOldContext
  <2>7. CASE Leave(t) BY <2>7 DEF Leave
  <2>8. QED
    BY <1>2, <1>4, <2>1, <2>2, <2>3, <2>4, <2>5, <2>6, <2>7 DEF CallerStep
<1>5. ASSUME NEW s \in Syncs, ScheduleSync(s) PROVE ReferencesAreRows'
  BY <1>5 DEF ScheduleSync
<1>6. ASSUME NEW s \in Syncs, SyncStep(s) PROVE ReferencesAreRows'
  BY <1>2, <1>6 DEF SyncStep, ConnectSync, ConnectSyncFails, CloseSync, CloseSyncFails
<1>7. CASE Activate BY <1>7 DEF Activate
<1>8. CASE Deactivate BY <1>8 DEF Deactivate
<1>9. CASE Crash BY <1>9 DEF Crash
<1>10. CASE Terminated \/ UNCHANGED vars BY <1>10 DEF Terminated, vars
<1>11. QED
  BY <1>1, <1>3, <1>4, <1>5, <1>6, <1>7, <1>8, <1>9, <1>10 DEF Next

\* Every variable keeps its type, and a row refers only to plans and contexts whose rows
\* exist: no step builds a row, a context or a list of jobs out of anything else.
THEOREM TypeCorrect == Spec => []TypeOK
<1> USE Numbers DEF NoContext, NoPlan, Keys, Threads
<1>1. Init => TypeOK
  <2> SUFFICES ASSUME Init PROVE TypeOK
    OBVIOUS
  <2>1. plan \in [Jobs -> 0..MaxPlans] /\ contextMap \in [Jobs -> 0..MaxContexts]
    BY DEF Init
  <2>2. stored \in [Contexts -> SUBSET Keys] /\ entries \in [Contexts -> SUBSET Keys]
    BY DEF Init
  <2>3. planOf \in [Threads -> 0..MaxPlans] /\ ctxOf \in [Threads -> 0..MaxContexts]
    BY DEF Init
  <2>4. made \in [Threads -> SUBSET Jobs] /\ todo \in [Threads -> SUBSET Jobs]
    BY DEF Init
  <2>5. ran \in [Threads -> SUBSET Jobs] /\ broke \in [Threads -> SUBSET Jobs]
    BY DEF Init
  <2>6. executions \in [Jobs -> Nat] /\ running \in BOOLEAN
    BY DEF Init
  <2>7. ReferencesAreRows
    BY DEF Init, ReferencesAreRows
  <2>8. QED
    BY <2>1, <2>2, <2>3, <2>4, <2>5, <2>6, <2>7 DEF Init, TypeOK
<1>2. TypeOK /\ [Next]_vars => TypeOK'
  <2> SUFFICES ASSUME TypeOK, [Next]_vars PROVE TypeOK'
    OBVIOUS
  <2>0. ReferencesAreRows'
    BY ReferencesStep
  <2> USE <2>0 DEF TypeOK, rows, maps, locks, faults, work, results, Goto, Fail
  <2>1. ASSUME NEW e \in Events, EventStep(e) PROVE TypeOK'
    <3>1. CASE FireEvent(e) BY <3>1 DEF FireEvent
    <3>2. CASE Persist(e) BY <3>2 DEF Persist
    <3>3. CASE BuilderFails(e) BY <3>3 DEF BuilderFails
    <3>4. ASSUME NEW j \in Jobs, NewJob(e, j) PROVE TypeOK' BY <3>4 DEF NewJob
    <3>5. QED BY <2>1, <3>1, <3>2, <3>3, <3>4 DEF EventStep
  <2>2. ASSUME NEW t \in Callers \cup Syncs, NEW j \in Jobs, Execute(t, j) PROVE TypeOK'
    BY <2>2 DEF Execute
  <2>3. ASSUME NEW t \in Callers, CallerStep(t) PROVE TypeOK'
    <3>1. CASE CheckRunning(t) BY <3>1 DEF CheckRunning, ReleaseResource
    <3>2. CASE SetRunning(t) BY <3>2 DEF SetRunning
    <3>3. CASE QueryUnscheduled(t) BY <3>3 DEF QueryUnscheduled, Unscheduled
    <3>4. CASE AssignPlan(t) BY <3>4 DEF AssignPlan
    <3>5. CASE AssignFails(t) BY <3>5 DEF AssignFails
    <3>6. CASE EnterImport(t) BY <3>6 DEF EnterImport
    <3>7. CASE ConnectFails(t) BY <3>7 DEF ConnectFails
    <3>8. CASE SwapContext(t) BY <3>8 DEF SwapContext
    <3>9. CASE LoadJobs(t) BY <3>9 DEF LoadJobs
    <3>10. CASE CommitImport(t) BY <3>10 DEF CommitImport, Flush
    <3>11. CASE CommitFails(t)
      <4>1. entries' \in [Contexts -> SUBSET Keys] BY <3>11 DEF CommitFails
      <4>2. ran' \in [Threads -> SUBSET Jobs] /\ broke' \in [Threads -> SUBSET Jobs]
        BY <3>11 DEF CommitFails, Discard
      <4>3. failures' \in 0..MaxFailures BY <3>11 DEF CommitFails
      <4>4. QED BY <3>11, <4>1, <4>2, <4>3 DEF CommitFails
    <3>12. CASE SaveOldContext(t) BY <3>12 DEF SaveOldContext
    <3>13. CASE LeaveImport(t) BY <3>13 DEF LeaveImport
    <3>14. CASE Leave(t)
      <4>1. planOf' \in [Threads -> 0..MaxPlans] BY <3>14 DEF Leave
      <4>2. ctxOf' \in [Threads -> 0..MaxContexts] BY <3>14 DEF Leave
      <4>3. monitor' \in Threads \cup {NoThread} BY <3>14 DEF Leave, ReleaseResource
      <4>5. running' \in BOOLEAN BY <3>14 DEF Leave
      <4>4. QED BY <3>14, <4>1, <4>2, <4>3, <4>5 DEF Leave
    <3>15. QED
      BY <2>2, <2>3, <3>1, <3>2, <3>3, <3>4, <3>5, <3>6, <3>7, <3>8, <3>9, <3>10, <3>11,
         <3>12, <3>13, <3>14 DEF CallerStep
  <2>4. ASSUME NEW t \in Callers, Trigger(t) PROVE TypeOK'
    BY <2>4 DEF Trigger
  <2>5. ASSUME NEW s \in Syncs, ScheduleSync(s) PROVE TypeOK'
    BY <2>5, JobAssumption DEF ScheduleSync, JobAssumption, Builders
  <2>6. ASSUME NEW s \in Syncs, SyncStep(s) PROVE TypeOK'
    <3>1. CASE ConnectSync(s) BY <3>1 DEF ConnectSync
    <3>2. CASE ConnectSyncFails(s) BY <3>2 DEF ConnectSyncFails
    <3>3. CASE CloseSync(s) BY <3>3 DEF CloseSync, Flush, ReleaseResource
    <3>4. CASE CloseSyncFails(s) BY <3>4 DEF CloseSyncFails, Discard, ReleaseResource
    <3>5. QED BY <2>2, <2>6, <3>1, <3>2, <3>3, <3>4 DEF SyncStep
  <2>7. CASE Activate
    BY <2>7 DEF Activate, Contexts
  <2>8. CASE Deactivate
    <3>1. stored' \in [Contexts -> SUBSET Keys] BY <2>8 DEF Deactivate
    <3>2. entries' \in [Contexts -> SUBSET Keys] BY <2>8 DEF Deactivate
    <3>3. restarts' \in 0..MaxRestarts BY <2>8 DEF Deactivate
    <3>4. QED BY <2>8, <3>1, <3>2, <3>3 DEF Deactivate
  <2>9. CASE Crash
    <3>1. entries' \in [Contexts -> SUBSET Keys] BY <2>9 DEF Crash
    <3>2. planOf' \in [Threads -> 0..MaxPlans] /\ ctxOf' \in [Threads -> 0..MaxContexts]
      BY <2>9 DEF Crash
    <3>3. /\ todo' \in [Threads -> SUBSET Jobs]
          /\ ran' \in [Threads -> SUBSET Jobs] /\ broke' \in [Threads -> SUBSET Jobs]
      BY <2>9 DEF Crash
    <3>4. crashes' \in 0..MaxCrashes BY <2>9 DEF Crash
    <3>5. running' \in BOOLEAN BY <2>9 DEF Crash
    <3>6. QED BY <2>9, <3>1, <3>2, <3>3, <3>4, <3>5 DEF Crash
  <2>10. CASE Terminated \/ UNCHANGED vars
    BY <2>10 DEF Terminated, vars
  <2>11. QED
    BY <2>1, <2>3, <2>4, <2>5, <2>6, <2>7, <2>8, <2>9, <2>10 DEF Next
<1>3. QED
  BY <1>1, <1>2, PTL DEF Spec

\* Who a thread and whose a job is.
LEMMA Kinds ==
  /\ \A t \in Callers : t \in Threads /\ t \notin Events /\ t \notin Syncs /\ t # NoThread
  /\ \A e \in Events : e \in Threads /\ e \notin Callers /\ e \notin Syncs
  /\ \A s \in Syncs : s \in Threads /\ s \notin Callers /\ s \notin Events
  /\ \A b \in Events \cup Syncs : JobsOf[b] \subseteq Jobs
  /\ \A b, c \in Events \cup Syncs : b # c => JobsOf[b] \cap JobsOf[c] = {}
BY ThreadAssumption, JobAssumption DEF ThreadAssumption, JobAssumption, Threads, Builders

\* The types the steps below need.
LEMMA LedgerTypes ==
  ASSUME TypeOK
  PROVE  /\ pc = [t \in Threads |-> pc[t]] /\ made = [t \in Threads |-> made[t]]
         /\ todo \in [Threads -> SUBSET Jobs] /\ ran \in [Threads -> SUBSET Jobs]
         /\ broke \in [Threads -> SUBSET Jobs] /\ planOf \in [Threads -> Nat]
         /\ executions \in [Jobs -> Nat] /\ plan \in [Jobs -> Nat] /\ plans \in Nat
         /\ persisted \subseteq Jobs /\ running \in BOOLEAN
<1>1. MaxPlans \in Nat BY Numbers
<1> QED BY <1>1 DEF TypeOK

\* A step that files nothing and lets every import keep the context it holds.
LEMMA QuietStep ==
  ASSUME TypeOK, FilingInvariant, UNCHANGED <<maps, made, persisted>>,
         OneImportHasTheLock', DownMeansAtRest',
         \A t \in Callers : HoldsContext(t)' = HoldsContext(t),
         \A t \in Callers : HoldsContext(t) => ctxOf'[t] = ctxOf[t]
  PROVE  FilingInvariant'
<1> USE DEF FilingInvariant, maps
<1>1. BuildersOwnTheirJobs' BY DEF BuildersOwnTheirJobs
<1>2. BuiltJobsAreFiled' BY DEF BuiltJobsAreFiled, IsFiled
<1>3. ContextsAreNumbered' BY DEF ContextsAreNumbered
<1>4. HeldContextsAreOlder' BY DEF HeldContextsAreOlder
<1>5. OnlyLiveContextsAreInMemory'
  <2>1. ASSUME NEW c \in Contexts PROVE Live(c)' <=> Live(c)
    BY <2>1 DEF Live
  <2>2. QED BY <2>1 DEF OnlyLiveContextsAreInMemory
<1>6. QED BY <1>1, <1>2, <1>3, <1>4, <1>5

\* The filing invariant is inductive as long as nothing fails: an entry moves
\* only from the context that is current or held by the one import that has the
\* lock, and only into the row of that same context.
LEMMA FilingStep ==
  ASSUME TypeOK, TypeOK', FilingInvariant, Healthy, Healthy', [Next]_vars
  PROVE  FilingInvariant'
<1>types. /\ MaxContexts \in Nat /\ 1 \in Contexts /\ NoContext = 0
          /\ \A c \in Contexts : c \in 1..MaxContexts
          /\ \A c \in 1..MaxContexts : c \in Contexts
          /\ current \in 0..MaxContexts /\ contexts \in 0..MaxContexts
          /\ current' \in 0..MaxContexts /\ contexts' \in 0..MaxContexts
          /\ contextMap \in [Jobs -> 0..MaxContexts]
          /\ stored \in [Contexts -> SUBSET Keys] /\ entries \in [Contexts -> SUBSET Keys]
          /\ ctxOf \in [Threads -> 0..MaxContexts]
          /\ made \in [Threads -> SUBSET Jobs]
          /\ pc = [t \in Threads |-> pc[t]]
  <2>1. pc = [t \in Threads |-> pc[t]] BY DEF TypeOK
  <2>2. current' \in 0..MaxContexts /\ contexts' \in 0..MaxContexts BY DEF TypeOK
  <2>3. \A c \in Contexts : c \in 1..MaxContexts BY DEF Contexts
  <2>4. 1 \in Contexts BY Numbers DEF Contexts
  <2>5. /\ current \in 0..MaxContexts /\ contexts \in 0..MaxContexts
        /\ contextMap \in [Jobs -> 0..MaxContexts]
        /\ stored \in [Contexts -> SUBSET Keys] /\ entries \in [Contexts -> SUBSET Keys]
    BY DEF TypeOK
  <2>6. ctxOf \in [Threads -> 0..MaxContexts] /\ made \in [Threads -> SUBSET Jobs]
    BY DEF TypeOK
  <2>7. QED BY <2>1, <2>2, <2>3, <2>4, <2>5, <2>6, Numbers DEF NoContext, Contexts
<1>threads. /\ \A t \in Callers : t \in Threads \ {NoThread} /\ t \notin Events /\ t \notin Syncs
            /\ \A e \in Events : e \in Threads /\ e \in Builders /\ e \in Keys
            /\ \A s \in Syncs : s \in Threads /\ s \in Builders /\ s \notin Events
  BY ThreadAssumption DEF ThreadAssumption, Threads, Builders, Keys
<1>jobs. /\ \A b \in Builders : JobsOf[b] \subseteq Jobs
         /\ \A e \in Events, s \in Syncs : JobsOf[e] \cap JobsOf[s] = {}
         /\ \A e, d \in Events : e # d => JobsOf[e] \cap JobsOf[d] = {}
         /\ Jobs \subseteq Keys
  BY ThreadAssumption, JobAssumption DEF ThreadAssumption, JobAssumption, Builders, Keys
<1> USE <1>types, <1>threads
    DEF rows, maps, locks, faults, work, results, Goto, Fail, FilingInvariant
<1> DEFINE Frame == /\ UNCHANGED <<maps, made, persisted>>
                    /\ OneImportHasTheLock' /\ DownMeansAtRest'
                    /\ \A t \in Callers : HoldsContext(t)' = HoldsContext(t)
                    /\ \A t \in Callers : HoldsContext(t) => ctxOf'[t] = ctxOf[t]
<1> HIDE DEF Frame
<1>1. ASSUME NEW e \in Events, FireEvent(e) PROVE FilingInvariant'
  <2>1. BuildersOwnTheirJobs' BY <1>1 DEF FireEvent, BuildersOwnTheirJobs
  <2>2. BuiltJobsAreFiled' BY <1>1 DEF FireEvent, BuiltJobsAreFiled, IsFiled
  <2>3. ContextsAreNumbered' BY <1>1 DEF FireEvent, ContextsAreNumbered
  <2>4. OneImportHasTheLock' BY <1>1 DEF FireEvent, OneImportHasTheLock, HoldsContext
  <2>5. DownMeansAtRest' BY <1>1 DEF FireEvent, DownMeansAtRest, AtRest
  <2>6. HeldContextsAreOlder' BY <1>1 DEF FireEvent, HeldContextsAreOlder, HoldsContext
  <2>7. OnlyLiveContextsAreInMemory'
    BY <1>1 DEF FireEvent, OnlyLiveContextsAreInMemory, Live, HoldsContext
  <2>8. QED BY <2>1, <2>2, <2>3, <2>4, <2>5, <2>6, <2>7
<1>2. ASSUME NEW e \in Events, NEW j \in Jobs, NewJob(e, j) PROVE FilingInvariant'
  <2>0. current \in Contexts /\ current <= contexts
    BY <1>2 DEF NewJob, DownMeansAtRest, AtRest, ContextsAreNumbered
  <2>1. BuildersOwnTheirJobs' BY <1>2 DEF NewJob, BuildersOwnTheirJobs
  <2>2. BuiltJobsAreFiled'
    <3>1. IsFiled(j)' BY <1>2, <2>0 DEF NewJob, IsFiled
    <3>2. ASSUME NEW i \in Jobs \ {j}, IsFiled(i) PROVE IsFiled(i)'
      BY <1>2, <3>2 DEF NewJob, IsFiled
    <3>3. QED BY <1>2, <3>1, <3>2 DEF NewJob, BuiltJobsAreFiled, BuildersOwnTheirJobs
  <2>3. ContextsAreNumbered' BY <1>2 DEF NewJob, ContextsAreNumbered
  <2>4. OneImportHasTheLock' BY <1>2 DEF NewJob, OneImportHasTheLock, HoldsContext
  <2>5. DownMeansAtRest' BY <1>2 DEF NewJob, DownMeansAtRest, AtRest
  <2>6. HeldContextsAreOlder' BY <1>2 DEF NewJob, HeldContextsAreOlder, HoldsContext
  <2>7. OnlyLiveContextsAreInMemory'
    <3>1. ASSUME NEW c \in Contexts PROVE Live(c)' <=> Live(c)
      BY <1>2 DEF NewJob, Live, HoldsContext
    <3>2. QED BY <1>2, <2>0, <3>1 DEF NewJob, OnlyLiveContextsAreInMemory, Live
  <2>8. QED BY <2>1, <2>2, <2>3, <2>4, <2>5, <2>6, <2>7
<1>3. ASSUME NEW e \in Events, Persist(e) PROVE FilingInvariant'
  <2>1. BuildersOwnTheirJobs' BY <1>3, <1>jobs DEF Persist, BuildersOwnTheirJobs
  <2>2. BuiltJobsAreFiled' BY <1>3 DEF Persist, BuiltJobsAreFiled, IsFiled
  <2>3. ContextsAreNumbered' BY <1>3 DEF Persist, ContextsAreNumbered
  <2>4. OneImportHasTheLock' BY <1>3 DEF Persist, OneImportHasTheLock, HoldsContext
  <2>5. DownMeansAtRest' BY <1>3 DEF Persist, DownMeansAtRest, AtRest
  <2>6. HeldContextsAreOlder' BY <1>3 DEF Persist, HeldContextsAreOlder, HoldsContext
  <2>7. OnlyLiveContextsAreInMemory'
    BY <1>3 DEF Persist, OnlyLiveContextsAreInMemory, Live, HoldsContext
  <2>8. QED BY <2>1, <2>2, <2>3, <2>4, <2>5, <2>6, <2>7
<1>4. ASSUME NEW t \in Callers, SwapContext(t) PROVE FilingInvariant'
  <2>0. /\ importLock = t /\ current \in Contexts /\ current <= contexts
        /\ \A u \in Callers : ~HoldsContext(u)
    <3>1. importLock = t BY <1>4 DEF SwapContext, OneImportHasTheLock
    <3>2. current # NoContext BY <1>4 DEF SwapContext, DownMeansAtRest, AtRest
    <3>3. ~HoldsContext(t) BY <1>4 DEF SwapContext, HoldsContext
    <3>4. QED BY <3>1, <3>2, <3>3 DEF OneImportHasTheLock, ContextsAreNumbered
  <2>1. BuildersOwnTheirJobs' BY <1>4 DEF SwapContext, BuildersOwnTheirJobs
  <2>2. BuiltJobsAreFiled' BY <1>4 DEF SwapContext, BuiltJobsAreFiled, IsFiled
  <2>3. ContextsAreNumbered' BY <1>4 DEF SwapContext, ContextsAreNumbered
  <2>4. OneImportHasTheLock' BY <1>4 DEF SwapContext, OneImportHasTheLock, HoldsContext
  <2>5. DownMeansAtRest' BY <1>4 DEF SwapContext, DownMeansAtRest
  <2>h. \A u \in Callers : HoldsContext(u)' => u = t
    BY <1>4, <2>0 DEF SwapContext, HoldsContext
  <2>c. ctxOf'[t] = current /\ current' = contexts + 1
    BY <1>4 DEF SwapContext
  <2>6. HeldContextsAreOlder' BY <2>0, <2>h, <2>c DEF HeldContextsAreOlder
  <2>7. OnlyLiveContextsAreInMemory'
    <3>1. HoldsContext(t)' BY <1>4 DEF SwapContext, HoldsContext
    <3>2. ASSUME NEW c \in Contexts
          PROVE Live(c)' <=> c = contexts + 1 \/ c = current
      BY <2>h, <2>c, <3>1 DEF Live
    <3>3. ASSUME NEW c \in Contexts PROVE Live(c) <=> c = current
      BY <2>0 DEF Live
    <3>4. UNCHANGED <<entries, stored>> BY <1>4 DEF SwapContext
    <3>5. \A c \in Contexts : c > contexts => stored[c] = {} /\ entries[c] = {}
      BY DEF ContextsAreNumbered
    <3>6. QED BY <3>2, <3>3, <3>4, <3>5 DEF OnlyLiveContextsAreInMemory
  <2>8. QED BY <2>1, <2>2, <2>3, <2>4, <2>5, <2>6, <2>7
<1>5. ASSUME NEW t \in Callers, SaveOldContext(t) PROVE FilingInvariant'
  <2>0. /\ \A u \in Callers : HoldsContext(u) => u = t
        /\ HoldsContext(t) /\ ctxOf[t] \in Contexts /\ ctxOf[t] < current
    BY <1>5 DEF SaveOldContext, OneImportHasTheLock, HoldsContext, HeldContextsAreOlder
  <2>s. /\ stored' = [stored EXCEPT ![ctxOf[t]] = entries[ctxOf[t]]]
        /\ entries' = [entries EXCEPT ![ctxOf[t]] = {}]
        /\ UNCHANGED <<contextMap, contexts, current, ctxOf, made>>
    BY <1>5 DEF SaveOldContext
  <2>e. stored[ctxOf[t]] \subseteq entries[ctxOf[t]]
    BY <2>0 DEF OnlyLiveContextsAreInMemory, Live
  <2>1. BuildersOwnTheirJobs' BY <1>5 DEF SaveOldContext, BuildersOwnTheirJobs
  <2>2. BuiltJobsAreFiled'
    <3>1. ASSUME NEW j \in Jobs, IsFiled(j) PROVE IsFiled(j)'
      <4>1. CASE contextMap[j] = ctxOf[t] BY <2>0, <2>s, <2>e, <3>1, <4>1 DEF IsFiled
      <4>2. CASE contextMap[j] # ctxOf[t] BY <2>0, <2>s, <3>1, <4>2 DEF IsFiled
      <4>3. QED BY <4>1, <4>2
    <3>2. QED BY <2>s, <3>1 DEF BuiltJobsAreFiled, BuildersOwnTheirJobs
  <2>3. ContextsAreNumbered'
    BY <2>0, <2>s DEF ContextsAreNumbered
  <2>4. OneImportHasTheLock' BY <1>5 DEF SaveOldContext, OneImportHasTheLock, HoldsContext
  <2>5. DownMeansAtRest' BY <1>5 DEF SaveOldContext, DownMeansAtRest, AtRest
  <2>h. \A u \in Callers : ~HoldsContext(u)'
    BY <1>5, <2>0 DEF SaveOldContext, HoldsContext
  <2>6. HeldContextsAreOlder' BY <2>h DEF HeldContextsAreOlder
  <2>7. OnlyLiveContextsAreInMemory'
    <3>1. \A c \in Contexts : Live(c) <=> c = current \/ c = ctxOf[t]
      BY <2>0 DEF Live
    <3>2. \A c \in Contexts : Live(c)' <=> c = current
      BY <2>h, <2>s DEF Live
    <3>3. QED BY <2>0, <2>s, <3>1, <3>2 DEF OnlyLiveContextsAreInMemory
  <2>8. QED BY <2>1, <2>2, <2>3, <2>4, <2>5, <2>6, <2>7
<1>6. ASSUME NEW s \in Syncs, ScheduleSync(s) PROVE FilingInvariant'
  <2>1. BuildersOwnTheirJobs' BY <1>6 DEF ScheduleSync, BuildersOwnTheirJobs
  <2>2. BuiltJobsAreFiled'
    <3>1. ASSUME NEW j \in Jobs \ JobsOf[s], IsFiled(j) PROVE IsFiled(j)'
      BY <1>6, <3>1 DEF ScheduleSync, IsFiled
    <3>2. \A e \in Events : made'[e] = made[e] /\ made[e] \subseteq Jobs \ JobsOf[s]
      <4>1. \A e \in Events : made'[e] = made[e] BY <1>6 DEF ScheduleSync
      <4>2. \A e \in Events : JobsOf[e] \cap JobsOf[s] = {} BY <1>jobs
      <4>3. QED BY <4>1, <4>2 DEF BuildersOwnTheirJobs
    <3>3. QED BY <3>1, <3>2 DEF BuiltJobsAreFiled
  <2>3. ContextsAreNumbered' BY <1>6 DEF ScheduleSync, ContextsAreNumbered
  <2>4. OneImportHasTheLock' BY <1>6 DEF ScheduleSync, OneImportHasTheLock, HoldsContext
  <2>5. DownMeansAtRest' BY <1>6 DEF ScheduleSync, DownMeansAtRest, AtRest
  <2>6. HeldContextsAreOlder' BY <1>6 DEF ScheduleSync, HeldContextsAreOlder, HoldsContext
  <2>7. OnlyLiveContextsAreInMemory'
    BY <1>6 DEF ScheduleSync, OnlyLiveContextsAreInMemory, Live, HoldsContext
  <2>8. QED BY <2>1, <2>2, <2>3, <2>4, <2>5, <2>6, <2>7
<1>7. ASSUME NEW s \in Syncs, CloseSync(s) PROVE FilingInvariant'
  <2>0. /\ UNCHANGED <<maps, made, ctxOf>> /\ persisted' = persisted \cup made[s]
        /\ pc' = [pc EXCEPT ![s] = "done"]
    BY <1>7 DEF CloseSync, Flush
  <2>1. BuildersOwnTheirJobs'
    <3>1. \A e \in Events : JobsOf[e] \cap made[s] = {}
      <4>1. \A e \in Events : JobsOf[e] \cap JobsOf[s] = {} BY <1>jobs
      <4>2. QED BY <4>1 DEF BuildersOwnTheirJobs
    <3>2. QED BY <2>0, <3>1 DEF BuildersOwnTheirJobs
  <2>2. BuiltJobsAreFiled' BY <2>0 DEF BuiltJobsAreFiled, IsFiled
  <2>3. ContextsAreNumbered' BY <2>0 DEF ContextsAreNumbered
  <2>4. OneImportHasTheLock'
    BY <1>7 DEF CloseSync, Flush, OneImportHasTheLock, HoldsContext
  <2>5. DownMeansAtRest' BY <1>7, <2>0 DEF DownMeansAtRest, AtRest, CloseSync, SyncIsOver
  <2>h. \A t \in Callers : HoldsContext(t)' = HoldsContext(t) BY <2>0 DEF HoldsContext
  <2>6. HeldContextsAreOlder' BY <2>0, <2>h DEF HeldContextsAreOlder
  <2>7. OnlyLiveContextsAreInMemory'
    <3>1. ASSUME NEW c \in Contexts PROVE Live(c)' <=> Live(c) BY <2>0, <2>h DEF Live
    <3>2. QED BY <2>0, <3>1 DEF OnlyLiveContextsAreInMemory
  <2>8. QED BY <2>1, <2>2, <2>3, <2>4, <2>5, <2>6, <2>7
<1>8. ASSUME Activate PROVE FilingInvariant'
  <2>0. /\ \A t \in Callers : ~HoldsContext(t) /\ ~HoldsContext(t)'
        /\ \A c \in Contexts : entries[c] = {}
    <3>1. \A t \in Callers : ~HoldsContext(t) /\ ~HoldsContext(t)'
      BY <1>8 DEF Activate, DownMeansAtRest, AtRest, HoldsContext
    <3>2. QED BY <1>8, <3>1 DEF Activate, OnlyLiveContextsAreInMemory, Live
  <2>s. /\ UNCHANGED <<contextMap, stored, made, pc, persisted>>
        /\ current' \in Contexts /\ current' = contexts' /\ contexts <= contexts'
        /\ entries' = [entries EXCEPT ![current'] = stored[current']]
    <3>1. CASE contexts = 0
      <4>1. stored[1] = {} /\ entries[1] = {} BY <3>1 DEF ContextsAreNumbered
      <4>2. entries = [entries EXCEPT ![1] = stored[1]] BY <4>1
      <4>3. QED BY <1>8, <3>1, <4>2 DEF Activate
    <3>2. CASE contexts # 0 BY <1>8, <3>2 DEF Activate
    <3>3. QED BY <3>1, <3>2
  <2>1. BuildersOwnTheirJobs' BY <2>s DEF BuildersOwnTheirJobs
  <2>2. BuiltJobsAreFiled'
    <3>1. ASSUME NEW j \in Jobs, IsFiled(j) PROVE IsFiled(j)'
      BY <2>0, <2>s, <3>1 DEF IsFiled
    <3>2. QED BY <2>s, <3>1 DEF BuiltJobsAreFiled, BuildersOwnTheirJobs
  <2>3. ContextsAreNumbered' BY <2>s DEF ContextsAreNumbered
  <2>4. OneImportHasTheLock' BY <1>8 DEF Activate, OneImportHasTheLock, HoldsContext
  <2>5. DownMeansAtRest' BY <2>s DEF DownMeansAtRest
  <2>6. HeldContextsAreOlder' BY <2>0 DEF HeldContextsAreOlder
  <2>7. OnlyLiveContextsAreInMemory'
    <3>1. \A c \in Contexts : Live(c)' <=> c = current' BY <2>0 DEF Live
    <3>2. QED BY <2>0, <2>s, <3>1 DEF OnlyLiveContextsAreInMemory
  <2>8. QED BY <2>1, <2>2, <2>3, <2>4, <2>5, <2>6, <2>7
<1>9. ASSUME Deactivate PROVE FilingInvariant'
  <2>0. \A t \in Callers : ~HoldsContext(t) /\ ~HoldsContext(t)'
    BY <1>9 DEF Deactivate, AtRest, HoldsContext
  <2>s. /\ UNCHANGED <<contextMap, contexts, made, persisted, pc>>
        /\ current \in Contexts /\ current' = NoContext
        /\ stored' = [stored EXCEPT ![current] = entries[current]]
        /\ entries' = [entries EXCEPT ![current] = {}]
    BY <1>9 DEF Deactivate
  <2>e. stored[current] \subseteq entries[current]
    BY <2>s DEF OnlyLiveContextsAreInMemory, Live
  <2>1. BuildersOwnTheirJobs' BY <2>s DEF BuildersOwnTheirJobs
  <2>2. BuiltJobsAreFiled'
    <3>1. ASSUME NEW j \in Jobs, IsFiled(j) PROVE IsFiled(j)'
      <4>1. CASE contextMap[j] = current BY <2>s, <2>e, <3>1, <4>1 DEF IsFiled
      <4>2. CASE contextMap[j] # current BY <2>s, <3>1, <4>2 DEF IsFiled
      <4>3. QED BY <4>1, <4>2
    <3>2. QED BY <2>s, <3>1 DEF BuiltJobsAreFiled, BuildersOwnTheirJobs
  <2>3. ContextsAreNumbered' BY <2>s DEF ContextsAreNumbered
  <2>4. OneImportHasTheLock' BY <1>9 DEF Deactivate, OneImportHasTheLock, HoldsContext
  <2>5. DownMeansAtRest' BY <1>9, <2>s DEF Deactivate, DownMeansAtRest, AtRest
  <2>6. HeldContextsAreOlder' BY <2>0 DEF HeldContextsAreOlder
  <2>7. OnlyLiveContextsAreInMemory'
    <3>1. \A c \in Contexts : Live(c) <=> c = current BY <2>0 DEF Live
    <3>2. \A c \in Contexts : ~Live(c)' BY <2>0, <2>s DEF Live
    <3>3. QED BY <2>s, <3>1, <3>2 DEF OnlyLiveContextsAreInMemory
  <2>8. QED BY <2>1, <2>2, <2>3, <2>4, <2>5, <2>6, <2>7
<1>10. ASSUME NEW t \in Callers,
              \/ Trigger(t) \/ CheckRunning(t) \/ SetRunning(t) \/ QueryUnscheduled(t)
              \/ AssignPlan(t) \/ EnterImport(t) \/ LoadJobs(t) \/ CommitImport(t)
              \/ LeaveImport(t) \/ Leave(t)
       PROVE  Frame
  <2> USE <1>10 DEF Trigger, CheckRunning, SetRunning, QueryUnscheduled, AssignPlan,
                    EnterImport, LoadJobs, CommitImport, Flush, LeaveImport, Leave
  <2>1. UNCHANGED <<maps, made, persisted>> OBVIOUS
  <2>2. pc' = [pc EXCEPT ![t] = pc'[t]] OBVIOUS
  <2>3. HoldsContext(t)' = HoldsContext(t) BY DEF HoldsContext
  <2>4. HoldsContext(t) => ctxOf' = ctxOf BY DEF HoldsContext
  <2>5. ctxOf' = [ctxOf EXCEPT ![t] = ctxOf'[t]] OBVIOUS
  <2>6. importLock = NoThread \/ importLock = t \/ importLock' = importLock
    BY DEF OneImportHasTheLock
  <2>7. HoldsContext(t)' \/ pc'[t] \in {"connect", "unlock"} => importLock' = t
    BY DEF OneImportHasTheLock, HoldsContext
  <2>8. current # NoContext BY DEF DownMeansAtRest, AtRest
  <2> HIDE <1>10 DEF Trigger, CheckRunning, SetRunning, QueryUnscheduled, AssignPlan,
                     EnterImport, LoadJobs, CommitImport, Flush, LeaveImport, Leave
  <2>9. ASSUME NEW u \in Callers \ {t}
         PROVE  /\ pc'[u] = pc[u] /\ HoldsContext(u)' = HoldsContext(u)
                /\ ctxOf'[u] = ctxOf[u]
    BY <2>2, <2>5 DEF HoldsContext
  <2>10. OneImportHasTheLock'
    BY <2>6, <2>7, <2>9 DEF OneImportHasTheLock
  <2>11. DownMeansAtRest' BY <2>1, <2>8 DEF DownMeansAtRest
  <2>12. QED BY <2>1, <2>3, <2>4, <2>9, <2>10, <2>11 DEF Frame
<1>11. ASSUME NEW t \in Callers \cup Syncs, NEW j \in Jobs, Execute(t, j) PROVE Frame
  BY <1>11 DEF Execute, Frame, OneImportHasTheLock, DownMeansAtRest, AtRest, HoldsContext
<1>12. ASSUME NEW s \in Syncs, ConnectSync(s) PROVE Frame
  BY <1>12 DEF ConnectSync, Frame, OneImportHasTheLock, DownMeansAtRest, AtRest, HoldsContext
<1>13. ASSUME Terminated \/ UNCHANGED vars PROVE Frame
  <2>1. UNCHANGED <<maps, made, persisted>> BY <1>13 DEF Terminated, vars
  <2>0. UNCHANGED <<current, importLock, pc, ctxOf>> BY <1>13 DEF Terminated, vars
  <2>2. \A t \in Callers : HoldsContext(t)' = HoldsContext(t) BY <2>0 DEF HoldsContext
  <2>3. OneImportHasTheLock' BY <2>0, <2>2 DEF OneImportHasTheLock
  <2>4. DownMeansAtRest' BY <2>0 DEF DownMeansAtRest, AtRest
  <2>5. QED BY <2>0, <2>1, <2>2, <2>3, <2>4 DEF Frame
<1>14. Frame => FilingInvariant'
  BY QuietStep DEF Frame
<1>15. QED
  BY <1>1, <1>2, <1>3, <1>4, <1>5, <1>6, <1>7, <1>8, <1>9, <1>10, <1>11, <1>12, <1>13, <1>14
  DEF Next, EventStep, CallerStep, SyncStep, Healthy, BuilderFails, AssignFails, ConnectFails,
      CommitFails, ConnectSyncFails, CloseSyncFails, Crash

\* Nothing is built in the empty database.
LEMMA FilingInit == Init => FilingInvariant
<1> SUFFICES ASSUME Init PROVE FilingInvariant
  OBVIOUS
<1> USE Numbers, ThreadAssumption, JobAssumption
    DEF Init, ThreadAssumption, JobAssumption, Contexts, NoContext, Threads, Builders
<1>1. BuildersOwnTheirJobs BY DEF BuildersOwnTheirJobs
<1>2. BuiltJobsAreFiled BY DEF BuiltJobsAreFiled
<1>3. ContextsAreNumbered BY DEF ContextsAreNumbered
<1>4. OneImportHasTheLock BY DEF OneImportHasTheLock, HoldsContext
<1>5. DownMeansAtRest BY DEF DownMeansAtRest, AtRest
<1>6. HeldContextsAreOlder BY DEF HeldContextsAreOlder, HoldsContext
<1>7. OnlyLiveContextsAreInMemory BY DEF OnlyLiveContextsAreInMemory
<1>8. QED BY <1>1, <1>2, <1>3, <1>4, <1>5, <1>6, <1>7 DEF FilingInvariant

\* What has failed once is not healthy again.
LEMMA FailuresStay == TypeOK /\ [Next]_vars => (Healthy' => Healthy)
<1> SUFFICES ASSUME TypeOK, [Next]_vars, Healthy' PROVE Healthy
  OBVIOUS
<1> USE BoundAssumption DEF BoundAssumption, TypeOK, Healthy, faults, Fail, Threads
<1>1. failures \in Nat /\ crashes \in Nat OBVIOUS
<1>2. \A t \in Threads, j \in Jobs : Execute(t, j) => Healthy BY <1>1 DEF Execute
<1>3. \A e \in Events : EventStep(e) => Healthy
  BY <1>1 DEF EventStep, FireEvent, NewJob, Persist, BuilderFails
<1>4. \A t \in Callers : Trigger(t) \/ CallerStep(t) => Healthy
  BY <1>1, <1>2 DEF CallerStep, Trigger, CheckRunning, SetRunning, QueryUnscheduled,
     AssignPlan, AssignFails, EnterImport, ConnectFails, SwapContext, LoadJobs,
     CommitImport, CommitFails, SaveOldContext, LeaveImport, Leave
<1>5. \A s \in Syncs : ScheduleSync(s) \/ SyncStep(s) => Healthy
  BY <1>1, <1>2 DEF SyncStep, ScheduleSync, ConnectSync, ConnectSyncFails, CloseSync,
     CloseSyncFails
<1>6. Activate \/ Deactivate \/ Crash => Healthy
  BY <1>1 DEF Activate, Deactivate, Crash
<1>7. Terminated \/ UNCHANGED vars => Healthy BY DEF Terminated, vars
<1>8. QED BY <1>3, <1>4, <1>5, <1>6, <1>7 DEF Next

\* However many threads build, plan, import and synchronize, and however often
\* the provider is restarted: unless a step fails or the process crashes, the
\* entry of every persisted job is in the context its row names.
THEOREM EntriesAreFiled == Spec => []EntryIsWhereTheRowSays
<1> DEFINE Inv == Healthy => FilingInvariant
<1>1. Init => Inv
  BY FilingInit
<1>2. TypeOK /\ TypeOK' /\ Inv /\ [Next]_vars => Inv'
  BY FailuresStay, FilingStep
<1>3. Inv => EntryIsWhereTheRowSays
  BY DEF EntryIsWhereTheRowSays, FilingInvariant, BuildersOwnTheirJobs, BuiltJobsAreFiled, Builders
<1>4. QED
  BY TypeCorrect, <1>1, <1>2, <1>3, PTL DEF Spec
-----------------------------------------------------------------------------
(* What an import cancels *)

EventJobs == UNION {JobsOf[e] : e \in Events}

\* A set of jobs has all the jobs of an event or none of them.
WholeEvents(S) == \A e \in Events : \A i, j \in JobsOf[e] : i \in S => j \in S

\* A sub-job is built after its parent, and no job in a context newer than the current one.
SubJobsFollowParents ==
  \A e \in Events : \A j \in made[e] :
    /\ ParentJob[j] \in made[e] \cup {NoJob}
    /\ current # NoContext => contextMap[j] <= current

\* The jobs of an event are persisted, planned and executed together; no others are planned,
\* and a synchronization leaves no job that an import would find unscheduled.
EventsStayTogether ==
  /\ WholeEvents(persisted) /\ WholeEvents(started)
  /\ \A e \in Events : \A i, j \in JobsOf[e] : plan[i] = plan[j]
  /\ \A j \in Jobs : plan[j] <= plans /\ (plan[j] # NoPlan => j \in EventJobs \cap persisted)
  /\ persisted \ EventJobs \subseteq started

\* What a thread has to execute, and what it has executed and not committed.
Work(t) == todo[t] \cup ran[t] \cup broke[t]

\* A synchronization runs its own jobs, and all of them.
SyncsRunAllTheirJobs ==
  \A s \in Syncs :
    /\ pc[s] # "close" /\ Work(s) \subseteq JobsOf[s]
    /\ pc[s] \in {"connect", "run"} => made[s] \subseteq Work(s)

HasPlan(t) == pc[t] \in {"assign", "lock", "connect", "load", "run"}

\* Imports have plans of their own, even if they overlap.
PlansAreDistinct ==
  \A t \in Callers :
    HasPlan(t) => /\ planOf[t] # NoPlan /\ planOf[t] <= plans
                  /\ \A u \in Callers : u # t /\ HasPlan(u) => planOf[u] # planOf[t]

\* An import loads and executes the jobs of whole events, none built after its context.
WorksOnOlderJobs(t) ==
  /\ pc[t] = "assign" => todo[t] \subseteq EventJobs \cap persisted /\ WholeEvents(todo[t])
  /\ pc[t] = "load" => \A j \in Jobs : plan[j] = planOf[t] => contextMap[j] <= ctxOf[t]
  /\ pc[t] # "run" => ran[t] = {} /\ broke[t] = {}
  /\ pc[t] = "run" => /\ Work(t) \subseteq EventJobs \cap persisted /\ WholeEvents(Work(t))
                      /\ \A j \in Work(t) : contextMap[j] <= ctxOf[t]

\* What it cancels is stale, or the parent is; or the parent was canceled before.
CancelsOnlyStaleJobs(t) ==
  \A j \in broke[t] :
    \/ contextMap[j] < ctxOf[t]
    \/ ParentJob[j] # NoJob /\ (contextMap[ParentJob[j]] < ctxOf[t] \/ ParentJob[j] \in broke[t])

CancelInvariant ==
  /\ SubJobsFollowParents /\ EventsStayTogether /\ SyncsRunAllTheirJobs /\ PlansAreDistinct
  /\ \A t \in Callers : WorksOnOlderJobs(t) /\ CancelsOnlyStaleJobs(t)

\* The types the steps below need, and what the filing invariant says of the jobs.
LEMMA CancelTypes ==
  ASSUME TypeOK, FilingInvariant
  PROVE  /\ contextMap \in [Jobs -> Nat] /\ ctxOf \in [Threads -> Nat] /\ current \in Nat
         /\ contexts \in Nat /\ NoContext = 0 /\ started \subseteq Jobs /\ EventJobs \subseteq Jobs
         /\ \A e \in Events : made[e] \subseteq JobsOf[e] /\ JobsOf[e] \cap persisted \subseteq made[e]
         /\ \A s \in Syncs : made[s] \subseteq JobsOf[s] /\ JobsOf[s] \cap EventJobs = {}
<1>1. MaxContexts \in Nat BY Numbers
<1> QED BY <1>1, Kinds DEF TypeOK, FilingInvariant, BuildersOwnTheirJobs, Builders, EventJobs, NoContext

\* A step that moves a thread and leaves the rows, the jobs built and the work as they are.
LEMMA CancelFrame ==
  ASSUME CancelInvariant, UNCHANGED <<persisted, started, plan, plans, contextMap, made>>,
         UNCHANGED <<todo, ran, broke>>, SubJobsFollowParents', SyncsRunAllTheirJobs',
         \A t \in Callers : /\ HasPlan(t)' => HasPlan(t) /\ planOf'[t] = planOf[t]
                            /\ pc'[t] \in {"assign", "load"} => pc[t] = pc'[t]
                            /\ pc'[t] = "run" <=> pc[t] = "run"
                            /\ pc[t] \in {"load", "run"} => ctxOf'[t] = ctxOf[t]
  PROVE  CancelInvariant'
<1> USE DEF CancelInvariant
<1>1. EventsStayTogether' BY DEF EventsStayTogether, WholeEvents
<1>2. PlansAreDistinct' BY DEF PlansAreDistinct
<1>3. ASSUME NEW t \in Callers PROVE WorksOnOlderJobs(t)' /\ CancelsOnlyStaleJobs(t)'
  <2>1. CASE pc[t] = "run"
    BY <2>1 DEF WorksOnOlderJobs, CancelsOnlyStaleJobs, WholeEvents, Work
  <2>2. CASE pc[t] # "run"
    BY <2>2 DEF WorksOnOlderJobs, CancelsOnlyStaleJobs, WholeEvents, HasPlan
  <2> QED BY <2>1, <2>2
<1> QED BY <1>1, <1>2, <1>3

\* The builders: a job gets the current context, and its parent was built before.
LEMMA CancelOfEvents ==
  ASSUME TypeOK, FilingInvariant, CancelInvariant, NEW e \in Events,
         FireEvent(e) \/ Persist(e) \/ \E j \in Jobs : NewJob(e, j)
  PROVE  CancelInvariant'
<1> USE Kinds, LedgerTypes, CancelTypes DEF NoPlan, CancelInvariant, rows, maps, work, results, Goto
<1>1. CASE FireEvent(e)
  <2> USE <1>1 DEF FireEvent
  <2>1. SubJobsFollowParents' BY DEF SubJobsFollowParents
  <2>2. SyncsRunAllTheirJobs' BY DEF SyncsRunAllTheirJobs, Work
  <2> QED BY <2>1, <2>2, CancelFrame DEF HasPlan
<1>2. ASSUME NEW j \in Jobs, NewJob(e, j) PROVE CancelInvariant'
  <2>0. /\ j \in JobsOf[e] \ made[e] /\ ParentJob[j] \in made[e] \cup {NoJob}
        /\ contextMap' = [contextMap EXCEPT ![j] = current]
        /\ made' = [made EXCEPT ![e] = @ \cup {j}]
        /\ UNCHANGED <<rows, current, work, results, pc>>
    BY <1>2 DEF NewJob
  <2>j. j \notin persisted /\ \A d \in Events : j \in JobsOf[d] => d = e
    BY <2>0
  <2>1. SubJobsFollowParents'
    <3>1. ASSUME NEW d \in Events, NEW i \in made'[d] PROVE ParentJob[i] \in made'[d] \cup {NoJob}
      BY <2>0, <3>1 DEF SubJobsFollowParents
    <3>2. ASSUME NEW d \in Events, NEW i \in made'[d], current # NoContext
          PROVE  contextMap'[i] <= current
      <4>1. CASE i = j BY <2>0, <4>1
      <4>2. CASE i # j
        <5>1. i \in made[d] /\ contextMap'[i] = contextMap[i] BY <2>0, <3>2, <4>2
        <5> QED BY <5>1, <3>2 DEF SubJobsFollowParents
      <4> QED BY <4>1, <4>2
    <3> QED BY <2>0, <3>1, <3>2 DEF SubJobsFollowParents
  <2>2. EventsStayTogether' BY <2>0 DEF EventsStayTogether, WholeEvents
  <2>3. SyncsRunAllTheirJobs' BY <2>0 DEF SyncsRunAllTheirJobs, Work
  <2>4. PlansAreDistinct' BY <2>0 DEF PlansAreDistinct, HasPlan
  <2>5. ASSUME NEW t \in Callers PROVE WorksOnOlderJobs(t)' /\ CancelsOnlyStaleJobs(t)'
    <3>0. WorksOnOlderJobs(t) /\ CancelsOnlyStaleJobs(t) /\ EventsStayTogether /\ SubJobsFollowParents
          /\ PlansAreDistinct
      OBVIOUS
    <3>1. CASE pc[t] = "run"
      <4>1. j \notin Work(t) BY <2>j, <3>0, <3>1 DEF WorksOnOlderJobs
      <4>2. ASSUME NEW i \in Work(t) PROVE ParentJob[i] # j
        <5>1. PICK d \in Events : i \in made[d]
          BY <3>0, <3>1 DEF WorksOnOlderJobs, EventJobs
        <5>2. ParentJob[i] \in made[d] \cup {NoJob} /\ j \notin made[d] /\ j # NoJob
          BY <2>0, <2>j, <3>0, <5>1, JobAssumption DEF SubJobsFollowParents, JobAssumption
        <5> QED BY <5>2
      <4>3. WorksOnOlderJobs(t)'
        BY <2>0, <3>0, <3>1, <4>1 DEF WorksOnOlderJobs, WholeEvents, Work
      <4>4. CancelsOnlyStaleJobs(t)'
        BY <2>0, <3>0, <4>1, <4>2 DEF CancelsOnlyStaleJobs, Work
      <4> QED BY <4>3, <4>4
    <3>2. CASE pc[t] # "run"
      <4>1. broke'[t] = {} BY <2>0, <3>0, <3>2 DEF WorksOnOlderJobs
      <4>2. plan[j] = NoPlan BY <2>j, <3>0 DEF EventsStayTogether
      <4>3. pc[t] = "load" => planOf[t] # NoPlan BY <3>0 DEF PlansAreDistinct, HasPlan
      <4>4. WorksOnOlderJobs(t)' BY <2>0, <3>0, <3>2, <4>2, <4>3 DEF WorksOnOlderJobs, WholeEvents
      <4> QED BY <4>1, <4>4 DEF CancelsOnlyStaleJobs
    <3> QED BY <3>1, <3>2
  <2> QED BY <2>1, <2>2, <2>3, <2>4, <2>5
<1>3. CASE Persist(e)
  <2>0. /\ made[e] = JobsOf[e] /\ persisted' = persisted \cup JobsOf[e] /\ JobsOf[e] \subseteq EventJobs
        /\ UNCHANGED <<plan, started, plans, maps, work, results, made>>
        /\ pc' = [pc EXCEPT ![e] = "done"]
    BY <1>3 DEF Persist, EventJobs
  <2>1. SubJobsFollowParents' BY <2>0 DEF SubJobsFollowParents
  <2>2. EventsStayTogether' BY <2>0 DEF EventsStayTogether, WholeEvents
  <2>3. SyncsRunAllTheirJobs' BY <2>0 DEF SyncsRunAllTheirJobs, Work
  <2>4. PlansAreDistinct' BY <2>0 DEF PlansAreDistinct, HasPlan
  <2>5. ASSUME NEW t \in Callers PROVE WorksOnOlderJobs(t)' /\ CancelsOnlyStaleJobs(t)'
    BY <2>0 DEF WorksOnOlderJobs, CancelsOnlyStaleJobs, WholeEvents, Work
  <2> QED BY <2>1, <2>2, <2>3, <2>4, <2>5
<1> HIDE DEF CancelInvariant
<1> QED BY <1>1, <1>2, <1>3

\* The imports: a plan takes whole events, and so does the import that has the plan.
LEMMA CancelOfCallers ==
  ASSUME TypeOK, FilingInvariant, CancelInvariant, NEW t \in Callers,
         \/ Trigger(t) \/ CheckRunning(t) \/ SetRunning(t) \/ QueryUnscheduled(t)
         \/ AssignPlan(t) \/ EnterImport(t) \/ SwapContext(t) \/ LoadJobs(t)
         \/ CommitImport(t) \/ SaveOldContext(t) \/ LeaveImport(t) \/ Leave(t)
  PROVE  CancelInvariant'
<1> USE Kinds, LedgerTypes, CancelTypes DEF NoPlan, CancelInvariant, rows, maps, work, results, Goto
<1>1. CASE \/ Trigger(t) \/ CheckRunning(t) \/ SetRunning(t) \/ EnterImport(t)
           \/ SaveOldContext(t) \/ LeaveImport(t) \/ Leave(t)
  <2> USE <1>1 DEF Trigger, CheckRunning, SetRunning, EnterImport, SaveOldContext, LeaveImport, Leave
  <2>1. SubJobsFollowParents' BY DEF SubJobsFollowParents
  <2>2. SyncsRunAllTheirJobs' BY DEF SyncsRunAllTheirJobs, Work
  <2>3. UNCHANGED <<persisted, started, plan, plans, contextMap, made, todo, ran, broke>>
    OBVIOUS
  <2>4. ASSUME NEW u \in Callers
        PROVE  /\ HasPlan(u)' => HasPlan(u) /\ planOf'[u] = planOf[u]
               /\ pc'[u] \in {"assign", "load"} => pc[u] = pc'[u]
               /\ pc'[u] = "run" <=> pc[u] = "run"
               /\ pc[u] \in {"load", "run"} => ctxOf'[u] = ctxOf[u]
    BY DEF HasPlan
  <2> HIDE <1>1 DEF CancelInvariant
  <2> QED BY <2>1, <2>2, <2>3, <2>4, CancelFrame
<1>2. CASE QueryUnscheduled(t)
  <2>0. /\ pc[t] = "query" /\ pc' = [pc EXCEPT ![t] = "assign"]
        /\ plans' = plans + 1 /\ planOf' = [planOf EXCEPT ![t] = plans + 1]
        /\ todo' = [todo EXCEPT ![t] = Unscheduled]
        /\ UNCHANGED <<persisted, plan, started, maps, ctxOf, results, made>>
    BY <1>2 DEF QueryUnscheduled
  <2>1. SubJobsFollowParents' BY <2>0 DEF SubJobsFollowParents
  <2>2. EventsStayTogether' BY <2>0 DEF EventsStayTogether, WholeEvents
  <2>3. SyncsRunAllTheirJobs' BY <2>0 DEF SyncsRunAllTheirJobs, Work
  <2>4. PlansAreDistinct' BY <2>0 DEF PlansAreDistinct, HasPlan
  <2>5. ASSUME NEW u \in Callers PROVE WorksOnOlderJobs(u)' /\ CancelsOnlyStaleJobs(u)'
    <3>1. CASE u = t
      <4>1. Unscheduled \subseteq EventJobs \cap persisted
        BY DEF Unscheduled, EventsStayTogether
      <4>2. WholeEvents(Unscheduled) BY DEF Unscheduled, EventsStayTogether, WholeEvents
      <4> QED BY <2>0, <3>1, <4>1, <4>2 DEF WorksOnOlderJobs, CancelsOnlyStaleJobs, WholeEvents
    <3>2. CASE u # t
      BY <2>0, <3>2 DEF WorksOnOlderJobs, CancelsOnlyStaleJobs, WholeEvents, Work
    <3> QED BY <3>1, <3>2
  <2> QED BY <2>1, <2>2, <2>3, <2>4, <2>5
<1>3. CASE AssignPlan(t)
  <2>0. /\ pc[t] = "assign" /\ pc' = [pc EXCEPT ![t] = "lock"]
        /\ plan' = [j \in Jobs |-> IF j \in todo[t] THEN planOf[t] ELSE plan[j]]
        /\ todo' = [todo EXCEPT ![t] = {}]
        /\ UNCHANGED <<persisted, plans, started, maps, planOf, ctxOf, results, made>>
    BY <1>3 DEF AssignPlan
  <2>t. /\ todo[t] \subseteq EventJobs \cap persisted /\ WholeEvents(todo[t])
        /\ planOf[t] # NoPlan /\ planOf[t] <= plans
        /\ \A u \in Callers : u # t /\ HasPlan(u) => planOf[u] # planOf[t]
    BY <2>0 DEF WorksOnOlderJobs, PlansAreDistinct, HasPlan
  <2>1. SubJobsFollowParents' BY <2>0 DEF SubJobsFollowParents
  <2>2. EventsStayTogether' BY <2>0, <2>t DEF EventsStayTogether, WholeEvents
  <2>3. SyncsRunAllTheirJobs' BY <2>0 DEF SyncsRunAllTheirJobs, Work
  <2>4. PlansAreDistinct' BY <2>0 DEF PlansAreDistinct, HasPlan
  <2>5. ASSUME NEW u \in Callers PROVE WorksOnOlderJobs(u)' /\ CancelsOnlyStaleJobs(u)'
    <3>1. CASE u = t
      BY <2>0, <3>1 DEF WorksOnOlderJobs, CancelsOnlyStaleJobs, WholeEvents
    <3>2. CASE u # t
      <4>1. pc[u] = "load" => \A j \in Jobs : plan'[j] = planOf[u] => plan[j] = planOf[u]
        BY <2>0, <2>t, <3>2 DEF HasPlan
      <4> QED BY <2>0, <3>2, <4>1 DEF WorksOnOlderJobs, CancelsOnlyStaleJobs, WholeEvents, Work
    <3> QED BY <3>1, <3>2
  <2> QED BY <2>1, <2>2, <2>3, <2>4, <2>5
<1>4. CASE SwapContext(t)
  <2>0. /\ pc[t] = "connect" /\ pc' = [pc EXCEPT ![t] = "load"]
        /\ current' = contexts + 1 /\ ctxOf' = [ctxOf EXCEPT ![t] = current]
        /\ current <= contexts /\ current # NoContext
        /\ UNCHANGED <<rows, contextMap, planOf, todo, results, made>>
    BY <1>4 DEF SwapContext, FilingInvariant, ContextsAreNumbered, DownMeansAtRest, AtRest
  <2>1. SubJobsFollowParents' BY <2>0 DEF SubJobsFollowParents
  <2>2. EventsStayTogether' BY <2>0 DEF EventsStayTogether, WholeEvents
  <2>3. SyncsRunAllTheirJobs' BY <2>0 DEF SyncsRunAllTheirJobs, Work
  <2>4. PlansAreDistinct' BY <2>0 DEF PlansAreDistinct, HasPlan
  <2>5. ASSUME NEW u \in Callers PROVE WorksOnOlderJobs(u)' /\ CancelsOnlyStaleJobs(u)'
    <3>1. CASE u = t
      <4>1. planOf[t] # NoPlan BY <2>0 DEF PlansAreDistinct, HasPlan
      <4>2. \A j \in EventJobs \cap persisted : contextMap[j] <= current
        BY <2>0 DEF EventJobs, SubJobsFollowParents
      <4>3. \A j \in Jobs : plan[j] = planOf[t] => contextMap[j] <= current
        BY <4>1, <4>2 DEF EventsStayTogether
      <4> QED BY <2>0, <3>1, <4>3 DEF WorksOnOlderJobs, CancelsOnlyStaleJobs, WholeEvents
    <3>2. CASE u # t
      BY <2>0, <3>2 DEF WorksOnOlderJobs, CancelsOnlyStaleJobs, WholeEvents, Work
    <3> QED BY <3>1, <3>2
  <2> QED BY <2>1, <2>2, <2>3, <2>4, <2>5
<1>5. CASE LoadJobs(t)
  <2>0. /\ pc[t] = "load" /\ pc' = [pc EXCEPT ![t] = "run"]
        /\ todo' = [todo EXCEPT ![t] = {j \in persisted : plan[j] = planOf[t]}]
        /\ UNCHANGED <<rows, maps, planOf, ctxOf, results, made>>
    BY <1>5 DEF LoadJobs
  <2>1. SubJobsFollowParents' BY <2>0 DEF SubJobsFollowParents
  <2>2. EventsStayTogether' BY <2>0 DEF EventsStayTogether, WholeEvents
  <2>3. SyncsRunAllTheirJobs' BY <2>0 DEF SyncsRunAllTheirJobs, Work
  <2>4. PlansAreDistinct' BY <2>0 DEF PlansAreDistinct, HasPlan
  <2>5. ASSUME NEW u \in Callers PROVE WorksOnOlderJobs(u)' /\ CancelsOnlyStaleJobs(u)'
    <3>1. CASE u = t
      <4>1. planOf[t] # NoPlan BY <2>0 DEF PlansAreDistinct, HasPlan
      <4>2. ran[t] = {} /\ broke[t] = {} BY <2>0 DEF WorksOnOlderJobs
      <4>3. Work(t)' = {j \in persisted : plan[j] = planOf[t]} BY <2>0, <4>2 DEF Work
      <4>4. Work(t)' \subseteq EventJobs \cap persisted
        BY <4>1, <4>3 DEF EventsStayTogether
      <4>5. WholeEvents(Work(t)') BY <4>3 DEF EventsStayTogether, WholeEvents
      <4>6. \A j \in Work(t)' : contextMap[j] <= ctxOf[t] BY <2>0, <4>3 DEF WorksOnOlderJobs
      <4> QED BY <2>0, <3>1, <4>2, <4>4, <4>5, <4>6 DEF WorksOnOlderJobs, CancelsOnlyStaleJobs, WholeEvents
    <3>2. CASE u # t
      BY <2>0, <3>2 DEF WorksOnOlderJobs, CancelsOnlyStaleJobs, WholeEvents, Work
    <3> QED BY <3>1, <3>2
  <2> QED BY <2>1, <2>2, <2>3, <2>4, <2>5
<1>6. CASE CommitImport(t)
  <2>0. /\ pc[t] = "run" /\ pc' = [pc EXCEPT ![t] = "save"] /\ todo[t] = {}
        /\ started' = started \cup ran[t] \cup broke[t]
        /\ ran' = [ran EXCEPT ![t] = {}] /\ broke' = [broke EXCEPT ![t] = {}]
        /\ UNCHANGED <<persisted, plan, plans, maps, work, made>>
    BY <1>6 DEF CommitImport, Flush
  <2>t. started' = started \cup Work(t) /\ WholeEvents(Work(t))
    BY <2>0 DEF WorksOnOlderJobs, Work
  <2>1. SubJobsFollowParents' BY <2>0 DEF SubJobsFollowParents
  <2>2. EventsStayTogether' BY <2>0, <2>t DEF EventsStayTogether, WholeEvents
  <2>3. SyncsRunAllTheirJobs' BY <2>0 DEF SyncsRunAllTheirJobs, Work
  <2>4. PlansAreDistinct' BY <2>0 DEF PlansAreDistinct, HasPlan
  <2>5. ASSUME NEW u \in Callers PROVE WorksOnOlderJobs(u)' /\ CancelsOnlyStaleJobs(u)'
    <3>1. CASE u = t
      BY <2>0, <3>1 DEF WorksOnOlderJobs, CancelsOnlyStaleJobs, WholeEvents
    <3>2. CASE u # t
      BY <2>0, <3>2 DEF WorksOnOlderJobs, CancelsOnlyStaleJobs, WholeEvents, Work
    <3> QED BY <3>1, <3>2
  <2> QED BY <2>1, <2>2, <2>3, <2>4, <2>5
<1> HIDE DEF CancelInvariant
<1> QED BY <1>1, <1>2, <1>3, <1>4, <1>5, <1>6

\* An import cancels a job that has no entry, or whose parent has none or was canceled:
\* the entry of a job that was built in the import's own context is there.
LEMMA CanceledIsStale ==
  ASSUME TypeOK, FilingInvariant, CancelInvariant, NEW t \in Callers, NEW j \in Jobs,
         pc[t] = "run", j \in todo[t], ParentJob[j] \notin todo[t], ~HasInput(t, j)
  PROVE  \/ contextMap[j] < ctxOf[t]
         \/ ParentJob[j] # NoJob /\ (contextMap[ParentJob[j]] < ctxOf[t] \/ ParentJob[j] \in broke[t])
<1> USE Kinds, LedgerTypes, CancelTypes DEF CancelInvariant
<1>1. /\ Work(t) \subseteq EventJobs \cap persisted /\ WholeEvents(Work(t))
      /\ \A i \in Work(t) : contextMap[i] <= ctxOf[t]
  BY DEF WorksOnOlderJobs
<1>2. ctxOf[t] \in Contexts /\ stored[ctxOf[t]] \subseteq entries[ctxOf[t]]
  BY DEF FilingInvariant, HeldContextsAreOlder, HoldsContext, OnlyLiveContextsAreInMemory, Live
<1>3. \A i \in Work(t) : \E e \in Events : i \in made[e]
  BY <1>1 DEF EventJobs
<1>4. ASSUME NEW i \in Work(t), ~HasEntry(t, i) PROVE contextMap[i] < ctxOf[t]
  <2>1. IsFiled(i) BY <1>3 DEF FilingInvariant, BuiltJobsAreFiled
  <2>2. contextMap[i] # ctxOf[t] BY <1>2, <1>4, <2>1 DEF IsFiled, HasEntry
  <2> QED BY <1>1, <2>2
<1>5. j \in Work(t)
  BY DEF Work
<1>6. CASE ~HasEntry(t, j)
  BY <1>4, <1>5, <1>6
<1>7. CASE HasEntry(t, j)
  <2>1. ParentJob[j] # NoJob /\ (ParentJob[j] \in ran[t] => ~HasEntry(t, ParentJob[j]))
    BY <1>7 DEF HasInput
  <2>2. ParentJob[j] \in Work(t)
    <3>1. PICK e \in Events : j \in made[e] /\ j \in JobsOf[e]
      BY <1>3, <1>5
    <3>2. ParentJob[j] \in JobsOf[e]
      BY <2>1, <3>1 DEF SubJobsFollowParents
    <3> QED BY <1>1, <1>5, <3>1, <3>2 DEF WholeEvents
  <2>3. ParentJob[j] \in ran[t] \/ ParentJob[j] \in broke[t]
    BY <2>2 DEF Work
  <2> QED BY <1>4, <2>1, <2>2, <2>3
<1> QED BY <1>6, <1>7

\* The execution of a job, by an import or a synchronization.
LEMMA CancelOfExecute ==
  ASSUME TypeOK, FilingInvariant, CancelInvariant, UNCHANGED failures, failures \in Nat,
         NEW t \in Callers \cup Syncs, NEW j \in Jobs, Execute(t, j)
  PROVE  CancelInvariant'
<1> USE Kinds, LedgerTypes, CancelTypes DEF CancelInvariant, rows, maps, work, results
<1>0. /\ pc[t] = "run" /\ j \in todo[t] /\ ParentJob[j] \notin todo[t]
      /\ todo' = [todo EXCEPT ![t] = @ \ {j}]
      /\ \/ ran' = [ran EXCEPT ![t] = @ \cup {j}] /\ UNCHANGED broke
         \/ ~HasInput(t, j) /\ broke' = [broke EXCEPT ![t] = @ \cup {j}] /\ UNCHANGED ran
      /\ UNCHANGED <<rows, maps, planOf, ctxOf, pc, made>>
  BY DEF Execute, Fail
<1>w. Work(t)' = Work(t)
  BY <1>0 DEF Work
<1>1. SubJobsFollowParents' BY <1>0 DEF SubJobsFollowParents
<1>2. EventsStayTogether' BY <1>0 DEF EventsStayTogether, WholeEvents
<1>3. SyncsRunAllTheirJobs'
  <2>1. \A s \in Syncs : Work(s)' = Work(s)
    BY <1>0 DEF Work
  <2> QED BY <1>0, <2>1 DEF SyncsRunAllTheirJobs
<1>4. PlansAreDistinct' BY <1>0 DEF PlansAreDistinct, HasPlan
<1>5. ASSUME NEW u \in Callers PROVE WorksOnOlderJobs(u)' /\ CancelsOnlyStaleJobs(u)'
  <2>1. CASE u = t
    <3>1. WorksOnOlderJobs(t)'
      BY <1>0, <1>w, <2>1 DEF WorksOnOlderJobs, WholeEvents
    <3>0. UNCHANGED <<contextMap, ctxOf>> /\ CancelsOnlyStaleJobs(t)
      BY <1>0, <2>1
    <3>2. CASE broke' = broke
      BY <2>1, <3>0, <3>1, <3>2 DEF CancelsOnlyStaleJobs
    <3>3. CASE ~HasInput(t, j) /\ broke' = [broke EXCEPT ![t] = @ \cup {j}]
      <4>1. broke'[t] = broke[t] \cup {j}
        BY <2>1, <3>3
      <4>2. \/ contextMap[j] < ctxOf[t]
            \/ /\ ParentJob[j] # NoJob
               /\ contextMap[ParentJob[j]] < ctxOf[t] \/ ParentJob[j] \in broke[t]
        BY <1>0, <2>1, <3>3, CanceledIsStale
      <4> QED BY <2>1, <3>0, <3>1, <4>1, <4>2 DEF CancelsOnlyStaleJobs
    <3> QED BY <1>0, <2>1, <3>1, <3>2, <3>3
  <2>2. CASE u # t
    BY <1>0, <2>2 DEF WorksOnOlderJobs, CancelsOnlyStaleJobs, WholeEvents, Work
  <2> QED BY <2>1, <2>2
<1> QED BY <1>1, <1>2, <1>3, <1>4, <1>5

\* A synchronization that does not fail has run its jobs when they become rows.
LEMMA CancelOfSyncs ==
  ASSUME TypeOK, FilingInvariant, CancelInvariant, NEW s \in Syncs,
         ScheduleSync(s) \/ ConnectSync(s) \/ CloseSync(s)
  PROVE  CancelInvariant'
<1> USE Kinds, LedgerTypes, CancelTypes DEF CancelInvariant, rows, maps, work, results, Goto
<1>1. CASE ScheduleSync(s)
  <2>0. /\ pc[s] = "idle" /\ pc' = [pc EXCEPT ![s] = "connect"]
        /\ contextMap' = [j \in Jobs |-> IF j \in JobsOf[s] THEN contexts + 1 ELSE contextMap[j]]
        /\ made' = [made EXCEPT ![s] = JobsOf[s]] /\ todo' = [todo EXCEPT ![s] = JobsOf[s]]
        /\ UNCHANGED <<rows, current, planOf, ctxOf, results>>
    BY <1>1 DEF ScheduleSync
  <2>j. /\ \A e \in Events : made[e] \subseteq Jobs \ JobsOf[s]
        /\ \A j \in Jobs \ JobsOf[s] : contextMap'[j] = contextMap[j]
    BY <2>0
  <2>1. SubJobsFollowParents' BY <2>0, <2>j DEF SubJobsFollowParents
  <2>2. EventsStayTogether' BY <2>0 DEF EventsStayTogether, WholeEvents
  <2>3. SyncsRunAllTheirJobs' BY <2>0 DEF SyncsRunAllTheirJobs, Work
  <2>4. PlansAreDistinct' BY <2>0 DEF PlansAreDistinct, HasPlan
  <2>5. ASSUME NEW t \in Callers PROVE WorksOnOlderJobs(t)' /\ CancelsOnlyStaleJobs(t)'
    <3>1. CASE pc[t] = "run"
      <4>1. \A j \in Work(t) : j \in Jobs \ JobsOf[s]
        BY <3>1 DEF WorksOnOlderJobs
      <4>2. \A j \in Work(t) : ParentJob[j] # NoJob => ParentJob[j] \in Jobs \ JobsOf[s]
        BY <2>j, <3>1 DEF WorksOnOlderJobs, SubJobsFollowParents, EventJobs
      <4>3. WorksOnOlderJobs(t)' BY <2>0, <2>j, <3>1, <4>1 DEF WorksOnOlderJobs, WholeEvents, Work
      <4>4. CancelsOnlyStaleJobs(t)'
        BY <2>0, <2>j, <4>1, <4>2 DEF CancelsOnlyStaleJobs, Work
      <4> QED BY <4>3, <4>4
    <3>2. CASE pc[t] # "run"
      <4>1. pc[t] = "load" => \A j \in Jobs : plan[j] = planOf[t] => j \notin JobsOf[s]
        BY DEF PlansAreDistinct, HasPlan, EventsStayTogether
      <4> QED BY <2>0, <2>j, <3>2, <4>1 DEF WorksOnOlderJobs, CancelsOnlyStaleJobs, WholeEvents
    <3> QED BY <3>1, <3>2
  <2> QED BY <2>1, <2>2, <2>3, <2>4, <2>5
<1>2. CASE ConnectSync(s)
  <2> USE <1>2 DEF ConnectSync
  <2>1. SubJobsFollowParents' BY DEF SubJobsFollowParents
  <2>2. SyncsRunAllTheirJobs' BY DEF SyncsRunAllTheirJobs, Work
  <2> QED BY <2>1, <2>2, CancelFrame DEF HasPlan
<1>3. CASE CloseSync(s)
  <2>0. /\ pc[s] = "run" /\ todo[s] = {} /\ pc' = [pc EXCEPT ![s] = "done"]
        /\ persisted' = persisted \cup made[s] /\ started' = started \cup ran[s] \cup broke[s]
        /\ ran' = [ran EXCEPT ![s] = {}] /\ broke' = [broke EXCEPT ![s] = {}]
        /\ UNCHANGED <<plan, plans, maps, work, made>>
    BY <1>3 DEF CloseSync, SyncIsOver, Flush, SyncsRunAllTheirJobs
  <2>1. SubJobsFollowParents' BY <2>0 DEF SubJobsFollowParents
  <2>2. EventsStayTogether'
    <3>1. made[s] \cap EventJobs = {} /\ made[s] \subseteq ran[s] \cup broke[s]
      BY <2>0 DEF SyncsRunAllTheirJobs, Work
    <3>2. WholeEvents(persisted') BY <2>0, <3>1 DEF EventsStayTogether, WholeEvents, EventJobs
    <3>3. (ran[s] \cup broke[s]) \cap EventJobs = {}
      BY DEF SyncsRunAllTheirJobs, Work
    <3>4. WholeEvents(started') BY <2>0, <3>3 DEF EventsStayTogether, WholeEvents, EventJobs
    <3>5. persisted' \ EventJobs \subseteq started'
      BY <2>0, <3>1 DEF EventsStayTogether
    <3> QED BY <2>0, <3>2, <3>4, <3>5 DEF EventsStayTogether
  <2>3. SyncsRunAllTheirJobs' BY <2>0 DEF SyncsRunAllTheirJobs, Work
  <2>4. PlansAreDistinct' BY <2>0 DEF PlansAreDistinct, HasPlan
  <2>5. ASSUME NEW t \in Callers PROVE WorksOnOlderJobs(t)' /\ CancelsOnlyStaleJobs(t)'
    BY <2>0 DEF WorksOnOlderJobs, CancelsOnlyStaleJobs, WholeEvents, Work
  <2> QED BY <2>1, <2>2, <2>3, <2>4, <2>5
<1> HIDE DEF CancelInvariant
<1> QED BY <1>1, <1>2, <1>3

\* The life cycle of the provider.
LEMMA CancelOfTheRest ==
  ASSUME TypeOK, FilingInvariant, FilingInvariant', CancelInvariant,
         Activate \/ Deactivate \/ UNCHANGED vars
  PROVE  CancelInvariant'
<1> USE Kinds, LedgerTypes, CancelTypes DEF CancelInvariant, rows, maps, work, results
<1>0. UNCHANGED <<rows, contextMap, work, results, pc, made>>
  BY DEF Activate, Deactivate, vars
<1>1. SubJobsFollowParents'
  <2>1. CASE Activate
    <3>1. \A e \in Events : \A j \in made[e] : contextMap'[j] <= current'
      <4>1. current' = contexts' BY <2>1 DEF Activate
      <4>2. contexts' \in Nat
        BY <2>1 DEF Activate
      <4> QED BY <1>0, <4>1, <4>2 DEF FilingInvariant, BuiltJobsAreFiled, IsFiled
    <3> QED BY <1>0, <3>1 DEF SubJobsFollowParents
  <2>2. CASE Deactivate \/ UNCHANGED vars
    BY <1>0, <2>2 DEF SubJobsFollowParents, Deactivate, vars
  <2> QED BY <2>1, <2>2
<1>2. SyncsRunAllTheirJobs' BY <1>0 DEF SyncsRunAllTheirJobs, Work
<1> QED BY <1>0, <1>1, <1>2, CancelFrame DEF HasPlan

\* However imports overlap and contexts are swapped: unless a step fails or the process
\* crashes, an import cancels a job only because its entry or its parent's is in a context
\* that was swapped out earlier, or because it canceled the parent before.
THEOREM OnlyStaleJobsAreCanceled == Spec => []CanceledOnlyWhenStale
<1> DEFINE Inv == Healthy => FilingInvariant /\ CancelInvariant
<1>1. Init => Inv
  <2>1. Init => CancelInvariant
    BY Kinds DEF Init, CancelInvariant, SubJobsFollowParents, EventsStayTogether,
       SyncsRunAllTheirJobs, Work, PlansAreDistinct, WorksOnOlderJobs, CancelsOnlyStaleJobs,
       WholeEvents, HasPlan, NoPlan
  <2> QED BY <2>1, FilingInit
<1>2. TypeOK /\ TypeOK' /\ Inv /\ [Next]_vars => Inv'
  <2> SUFFICES ASSUME TypeOK, TypeOK', Healthy, Healthy', FilingInvariant, CancelInvariant,
                      [Next]_vars
               PROVE  FilingInvariant' /\ CancelInvariant'
    BY FailuresStay
  <2>1. FilingInvariant'
    BY FilingStep
  <2>2. failures = 0 /\ failures' = 0 /\ crashes = 0 /\ crashes' = 0
    BY DEF Healthy
  <2>3. \A e \in Events : EventStep(e) => CancelInvariant'
    BY <2>2, CancelOfEvents DEF EventStep, BuilderFails, Fail
  <2>4. \A t \in Callers : Trigger(t) \/ CallerStep(t) => CancelInvariant'
    BY <2>2, CancelOfCallers, CancelOfExecute
    DEF CallerStep, AssignFails, ConnectFails, CommitFails, Fail
  <2>5. \A s \in Syncs : ScheduleSync(s) \/ SyncStep(s) => CancelInvariant'
    BY <2>2, CancelOfSyncs, CancelOfExecute DEF SyncStep, ConnectSyncFails, CloseSyncFails, Fail
  <2>6. Activate \/ Deactivate \/ UNCHANGED vars => CancelInvariant'
    BY <2>1, CancelOfTheRest
  <2>7. ~Crash
    BY <2>2 DEF Crash
  <2> QED BY <2>1, <2>3, <2>4, <2>5, <2>6, <2>7 DEF Next, Terminated
<1>3. Inv => CanceledOnlyWhenStale
  BY DEF CanceledOnlyWhenStale, CancelInvariant, CancelsOnlyStaleJobs
<1>4. QED
  BY TypeCorrect, <1>1, <1>2, <1>3, PTL DEF Spec
-----------------------------------------------------------------------------
(***************************************************************************)
(* If every import comes through the REST resource, whose monitor lets one *)
(* in: jobs run once, the flag is accurate, and the rows are a ledger.     *)
(* Failures, crashes and restarts are allowed.                             *)
(***************************************************************************)
\* Imports take turns.
OneCallerAtATime == \A t \in Callers : pc[t] # "idle" => monitor = t

\* A row is started when it has a result, and only rows get plans.
RowsAreConsistent ==
  /\ started = finished \cup canceled /\ finished \cap canceled = {} /\ started \subseteq persisted
  /\ \A j \in Jobs : plan[j] <= plans /\ (plan[j] # NoPlan => j \in persisted)

\* A persisted job that was executed is not unscheduled any more.
ExecutedJobsAreMarked ==
  \A j \in Jobs : /\ executions[j] \in {0, 1}
                  /\ executions[j] = 1 /\ j \in persisted => plan[j] # NoPlan \/ j \in started

Fresh(j) == j \notin started /\ executions[j] = 0

\* An import works on the jobs of its own plan, which are fresh until it runs them.
ImportsOwnTheirPlans ==
  \A t \in Callers :
    /\ pc[t] \notin {"assign", "run"} => todo[t] = {}
    /\ pc[t] # "run" => ran[t] = {} /\ broke[t] = {}
    /\ planOf[t] <= plans
    /\ pc[t] \in {"assign", "lock", "connect", "load", "run"} => planOf[t] # NoPlan
    /\ pc[t] = "assign" =>
         /\ \A j \in Jobs : plan[j] # planOf[t]
         /\ \A j \in todo[t] : j \in persisted /\ plan[j] = NoPlan /\ Fresh(j)
    /\ pc[t] \in {"lock", "connect", "load"} =>
         \A j \in Jobs : plan[j] = planOf[t] => Fresh(j)
    /\ pc[t] = "run" =>
         /\ \A j \in Jobs : plan[j] = planOf[t] <=> j \in todo[t] \cup ran[t] \cup broke[t]
         /\ \A j \in Jobs : plan[j] = planOf[t] => j \notin started
         /\ \A j \in todo[t] : executions[j] = 0
         /\ ran[t] \cap broke[t] = {} /\ todo[t] \cap (ran[t] \cup broke[t]) = {}

\* A synchronization has its jobs for itself until its commit.
SyncsOwnTheirJobs ==
  \A s \in Syncs :
    /\ pc[s] \notin {"connect", "run"} => todo[s] = {}
    /\ pc[s] # "run" => ran[s] = {} /\ broke[s] = {}
    /\ pc[s] \in {"connect", "run", "close"} => made[s] = JobsOf[s]
    /\ pc[s] \in {"idle", "connect", "run", "close"} => JobsOf[s] \cap persisted = {}
    /\ pc[s] \in {"connect", "run"} => todo[s] \cup ran[s] \cup broke[s] = JobsOf[s]
    /\ ran[s] \cap broke[s] = {} /\ todo[s] \cap (ran[s] \cup broke[s]) = {}
    /\ pc[s] \in {"idle", "close"} => \A j \in JobsOf[s] : executions[j] = 0
    /\ \A j \in todo[s] : executions[j] = 0

\* A builder's jobs are not rows before its commit, and run only as rows.
EventsOwnTheirJobs ==
  \A e \in Events :
    /\ made[e] \subseteq JobsOf[e]
    /\ pc[e] \in {"idle", "building"} => JobsOf[e] \cap persisted = {}
    /\ \A j \in JobsOf[e] : j \notin persisted => executions[j] = 0

LedgerInvariant ==
  /\ OneCallerAtATime /\ RunningIsAccurate /\ RowsAreConsistent /\ ExecutedJobsAreMarked
  /\ ImportsOwnTheirPlans /\ SyncsOwnTheirJobs /\ EventsOwnTheirJobs

\* A builder's steps keep the invariant: its jobs become rows once, in its commit.
LEMMA LedgerOfEvents ==
  ASSUME TypeOK, LedgerInvariant, NEW e \in Events, EventStep(e)
  PROVE  LedgerInvariant'
<1> USE Kinds, LedgerTypes
    DEF NoPlan, LedgerInvariant, OneCallerAtATime, RunningIsAccurate, RowsAreConsistent,
      ExecutedJobsAreMarked, ImportsOwnTheirPlans, SyncsOwnTheirJobs, EventsOwnTheirJobs, Fresh,
      rows, maps, locks, faults, work, results, Goto
<1>1. CASE FireEvent(e) BY <1>1 DEF FireEvent
<1>2. ASSUME NEW j \in Jobs, NewJob(e, j) PROVE LedgerInvariant' BY <1>2 DEF NewJob
<1>3. CASE Persist(e) BY <1>3 DEF Persist
<1>4. CASE BuilderFails(e) BY <1>4 DEF BuilderFails
<1> HIDE Kinds, LedgerTypes DEF LedgerInvariant
<1> QED BY <1>1, <1>2, <1>3, <1>4 DEF EventStep

\* So do the steps of an import, as long as the resource's monitor lets in one at a time.
LEMMA LedgerOfCallers ==
  ASSUME Callers \subseteq ViaResource,
         TypeOK, TypeOK', LedgerInvariant, NEW t \in Callers, Trigger(t) \/ CallerStep(t)
  PROVE  LedgerInvariant'
<1> USE Kinds, LedgerTypes
    DEF NoPlan, LedgerInvariant, OneCallerAtATime, RunningIsAccurate, RowsAreConsistent,
      ExecutedJobsAreMarked, ImportsOwnTheirPlans, SyncsOwnTheirJobs, EventsOwnTheirJobs, Fresh,
      rows, maps, locks, faults, work, results, Goto
<1>1. CASE Trigger(t) BY <1>1 DEF Trigger
<1>2. CASE CheckRunning(t) BY <1>2 DEF CheckRunning, ReleaseResource
<1>3. CASE SetRunning(t) BY <1>3 DEF SetRunning
<1>4. CASE QueryUnscheduled(t) BY <1>4 DEF QueryUnscheduled, Unscheduled
<1>5. CASE AssignPlan(t) BY <1>5 DEF AssignPlan
<1>6. CASE AssignFails(t) BY <1>6 DEF AssignFails
<1>7. CASE EnterImport(t) BY <1>7 DEF EnterImport
<1>8. CASE ConnectFails(t) BY <1>8 DEF ConnectFails
<1>9. CASE SwapContext(t) BY <1>9 DEF SwapContext
<1>10. CASE LoadJobs(t) BY <1>10 DEF LoadJobs
<1>11. CASE CommitImport(t) BY <1>11 DEF CommitImport, Flush
<1>12. CASE CommitFails(t) BY <1>12 DEF CommitFails, Discard
<1>13. CASE SaveOldContext(t) BY <1>13 DEF SaveOldContext
<1>14. CASE LeaveImport(t) BY <1>14 DEF LeaveImport
<1>15. CASE Leave(t) BY <1>15 DEF Leave, ReleaseResource
<1>16. ASSUME NEW j \in Jobs, Execute(t, j) PROVE LedgerInvariant'
  <2>1. OneCallerAtATime' BY <1>16 DEF Execute
  <2>2. RunningIsAccurate' BY <1>16 DEF Execute
  <2>3. RowsAreConsistent' BY <1>16 DEF Execute
  <2>4. ExecutedJobsAreMarked' BY <1>16 DEF Execute
  <2>5. ImportsOwnTheirPlans'
    <3>1. /\ pc[t] = "run" /\ j \in todo[t] /\ UNCHANGED <<pc, plan, plans, planOf, started, persisted>>
          /\ todo' = [todo EXCEPT ![t] = @ \ {j}]
          /\ executions' = [executions EXCEPT ![j] = @ + 1]
          /\ \/ ran' = [ran EXCEPT ![t] = @ \cup {j}] /\ UNCHANGED broke
             \/ broke' = [broke EXCEPT ![t] = @ \cup {j}] /\ UNCHANGED ran
      BY <1>16 DEF Execute
    <3>2. \A u \in Callers : u # t => pc[u] = "idle"
      BY <3>1
    <3>3. j \notin ran[t] \cup broke[t]
      BY <3>1
    <3> QED BY <3>1, <3>2, <3>3
  <2>6. SyncsOwnTheirJobs' BY <1>16 DEF Execute
  <2>7. EventsOwnTheirJobs' BY <1>16 DEF Execute
  <2> QED BY <2>1, <2>2, <2>3, <2>4, <2>5, <2>6, <2>7
<1> HIDE Kinds, LedgerTypes DEF LedgerInvariant
<1> QED BY <1>1, <1>2, <1>3, <1>4, <1>5, <1>6, <1>7, <1>8, <1>9, <1>10, <1>11, <1>12, <1>13,
             <1>14, <1>15, <1>16 DEF CallerStep

\* So do the steps of a synchronization, which writes its rows with their results.
LEMMA LedgerOfSyncs ==
  ASSUME TypeOK, TypeOK', LedgerInvariant, NEW s \in Syncs, ScheduleSync(s) \/ SyncStep(s)
  PROVE  LedgerInvariant'
<1> USE Kinds, LedgerTypes
    DEF NoPlan, LedgerInvariant, OneCallerAtATime, RunningIsAccurate, RowsAreConsistent,
      ExecutedJobsAreMarked, ImportsOwnTheirPlans, SyncsOwnTheirJobs, EventsOwnTheirJobs, Fresh,
      rows, maps, locks, faults, work, results, Goto
<1>1. CASE ScheduleSync(s) BY <1>1 DEF ScheduleSync
<1>2. CASE ConnectSync(s) BY <1>2 DEF ConnectSync
<1>3. CASE ConnectSyncFails(s) BY <1>3 DEF ConnectSyncFails
<1>4. CASE CloseSync(s) BY <1>4 DEF CloseSync, SyncIsOver, Flush, ReleaseResource
<1>5. CASE CloseSyncFails(s) BY <1>5 DEF CloseSyncFails, SyncIsOver, Discard, ReleaseResource
<1>6. ASSUME NEW j \in Jobs, Execute(s, j) PROVE LedgerInvariant'
  <2>1. OneCallerAtATime' BY <1>6 DEF Execute
  <2>2. RunningIsAccurate' BY <1>6 DEF Execute
  <2>3. RowsAreConsistent' BY <1>6 DEF Execute
  <2>4. ExecutedJobsAreMarked' BY <1>6 DEF Execute
  <2>5. ImportsOwnTheirPlans' BY <1>6 DEF Execute
  <2>6. SyncsOwnTheirJobs'
    <3>1. /\ pc[s] = "run" /\ j \in todo[s] /\ UNCHANGED <<pc, made, persisted>>
          /\ todo' = [todo EXCEPT ![s] = @ \ {j}]
          /\ executions' = [executions EXCEPT ![j] = @ + 1]
          /\ \/ ran' = [ran EXCEPT ![s] = @ \cup {j}] /\ UNCHANGED broke
             \/ broke' = [broke EXCEPT ![s] = @ \cup {j}] /\ UNCHANGED ran
      BY <1>6 DEF Execute
    <3>2. todo[s] \cup ran[s] \cup broke[s] = JobsOf[s] /\ j \in JobsOf[s]
      BY <3>1
    <3> QED BY <3>1, <3>2
  <2>7. EventsOwnTheirJobs' BY <1>6 DEF Execute
  <2> QED BY <2>1, <2>2, <2>3, <2>4, <2>5, <2>6, <2>7
<1> HIDE Kinds, LedgerTypes DEF LedgerInvariant
<1> QED BY <1>1, <1>2, <1>3, <1>4, <1>5, <1>6 DEF SyncStep

\* So do the life cycle of the provider and a crash, which leave only the rows.
LEMMA LedgerOfTheRest ==
  ASSUME TypeOK, LedgerInvariant, Activate \/ Deactivate \/ Crash \/ UNCHANGED vars
  PROVE  LedgerInvariant'
<1> USE Kinds, LedgerTypes
    DEF NoPlan, LedgerInvariant, OneCallerAtATime, RunningIsAccurate, RowsAreConsistent,
      ExecutedJobsAreMarked, ImportsOwnTheirPlans, SyncsOwnTheirJobs, EventsOwnTheirJobs, Fresh,
      rows, maps, locks, faults, work, results, Goto
<1>1. CASE Activate BY <1>1 DEF Activate
<1>2. CASE Deactivate BY <1>2 DEF Deactivate
<1>3. CASE Crash
  <2>1. OneCallerAtATime' BY <1>3 DEF Crash
  <2>2. RunningIsAccurate' BY <1>3 DEF Crash
  <2>3. RowsAreConsistent' BY <1>3 DEF Crash
  <2>4. ExecutedJobsAreMarked' BY <1>3 DEF Crash
  <2>5. ImportsOwnTheirPlans' BY <1>3 DEF Crash
  <2>6. SyncsOwnTheirJobs' BY <1>3 DEF Crash
  <2>7. EventsOwnTheirJobs' BY <1>3 DEF Crash
  <2> QED BY <2>1, <2>2, <2>3, <2>4, <2>5, <2>6, <2>7
<1>4. CASE UNCHANGED vars BY <1>4 DEF vars
<1> HIDE Kinds, LedgerTypes DEF LedgerInvariant
<1> QED BY <1>1, <1>2, <1>3, <1>4

\* It holds of the empty database.
LEMMA LedgerInit == Init => LedgerInvariant
BY ThreadAssumption, JobAssumption
DEF Init, LedgerInvariant, OneCallerAtATime, RunningIsAccurate, RowsAreConsistent,
    ExecutedJobsAreMarked, ImportsOwnTheirPlans, SyncsOwnTheirJobs, EventsOwnTheirJobs,
    ThreadAssumption, JobAssumption, Threads, Builders, NoPlan

\* Every step keeps it, failures and crashes included.
LEMMA LedgerStep ==
  ASSUME Callers \subseteq ViaResource
  PROVE  TypeOK /\ TypeOK' /\ LedgerInvariant /\ [Next]_vars => LedgerInvariant'
BY LedgerOfEvents, LedgerOfCallers, LedgerOfSyncs, LedgerOfTheRest DEF Next, Terminated

\* If every import comes through the resource, no job is handed to its executors twice,
\* whatever synchronizations, failed commits, restarts and crashes there are.
THEOREM JobsRunOnce ==
  ASSUME Callers \subseteq ViaResource
  PROVE  Spec => []ExecutedOnce
<1>1. LedgerInvariant => ExecutedOnce
  BY DEF LedgerInvariant, ExecutedJobsAreMarked, ExecutedOnce
<1>2. TypeOK /\ TypeOK' /\ LedgerInvariant /\ [Next]_vars => LedgerInvariant'
  BY LedgerStep
<1> QED BY <1>1, <1>2, LedgerInit, TypeCorrect, PTL DEF Spec

\* If every import comes through the resource, the flag says running exactly while one
\* import is between the check and its finally block, also after failures and crashes.
THEOREM FlagIsAccurate ==
  ASSUME Callers \subseteq ViaResource
  PROVE  Spec => []RunningIsAccurate
<1>1. LedgerInvariant => RunningIsAccurate
  BY DEF LedgerInvariant
<1>2. TypeOK /\ TypeOK' /\ LedgerInvariant /\ [Next]_vars => LedgerInvariant'
  BY LedgerStep
<1> QED BY <1>1, <1>2, LedgerInit, TypeCorrect, PTL DEF Spec
-----------------------------------------------------------------------------
(* The rows as a ledger *)

\* The state of the ledger.
ledger == <<[j \in Jobs |-> Status(j)], plan>>

\* The transaction of an event's builder.
LEMMA PersistSchedules ==
  ASSUME TypeOK, LedgerInvariant, LedgerInvariant', NEW e \in Events, Persist(e)
  PROVE  Ledger!Schedule(e)
<1>1. /\ persisted' = persisted \cup JobsOf[e] /\ UNCHANGED <<plan, started, finished, canceled>>
      /\ JobsOf[e] \cap persisted = {} /\ JobsOf[e] \subseteq Jobs
  BY Kinds DEF Persist, Goto, LedgerInvariant, EventsOwnTheirJobs
<1>2. RowsAreConsistent /\ RowsAreConsistent'
  BY DEF LedgerInvariant
<1>3. \A j \in JobsOf[e] : j \notin started /\ plan[j] = NoPlan
  BY <1>1, <1>2 DEF RowsAreConsistent
<1>4. \A j \in JobsOf[e] : Status(j) = "none" /\ Status(j)' = "scheduled"
  BY <1>1, <1>2, <1>3 DEF Status, RowsAreConsistent
<1>5. \A j \in Jobs \ JobsOf[e] : Status(j)' = Status(j)
  BY <1>1 DEF Status
<1> QED BY <1>1, <1>4, <1>5 DEF Ledger!Schedule, Ledger!WithStatus

\* The commit of a synchronization: with the results of all its jobs, or without any if
\* no session could be had.
LEMMA CloseSynchronizes ==
  ASSUME TypeOK, LedgerInvariant, LedgerInvariant', NEW s \in Syncs, CloseSync(s)
  PROVE  Ledger!Schedule(s) \/ Ledger!Synchronize(s)
<1>1. /\ persisted' = persisted \cup JobsOf[s] /\ UNCHANGED plan
      /\ started' = started \cup ran[s] \cup broke[s]
      /\ finished' = finished \cup ran[s] /\ canceled' = canceled \cup broke[s]
      /\ JobsOf[s] \cap persisted = {} /\ JobsOf[s] \subseteq Jobs
  BY Kinds DEF CloseSync, SyncIsOver, Flush, LedgerInvariant, SyncsOwnTheirJobs
<1>2. RowsAreConsistent /\ RowsAreConsistent'
  BY DEF LedgerInvariant
<1>3. \A j \in JobsOf[s] : j \notin started /\ plan[j] = NoPlan /\ Status(j) = "none"
  BY <1>1, <1>2 DEF RowsAreConsistent, Status
<1>4. CASE pc[s] = "close"
  <2>1. ran[s] = {} /\ broke[s] = {}
    BY <1>4 DEF LedgerInvariant, SyncsOwnTheirJobs
  <2>2. \A j \in JobsOf[s] : Status(j)' = "scheduled"
    BY <1>1, <1>2, <1>3, <2>1 DEF Status, RowsAreConsistent
  <2>3. \A j \in Jobs \ JobsOf[s] : Status(j)' = Status(j)
    BY <1>1, <2>1 DEF Status
  <2>4. Ledger!Schedule(s)
    BY <1>1, <1>3, <2>2, <2>3 DEF Ledger!Schedule, Ledger!WithStatus
  <2> QED BY <2>4
<1>5. CASE pc[s] = "run" /\ todo[s] = {}
  <2> DEFINE r == [j \in JobsOf[s] |-> IF j \in ran[s] THEN "finished" ELSE "canceled"]
  <2>1. ran[s] \cup broke[s] = JobsOf[s] /\ ran[s] \cap broke[s] = {}
    BY <1>5 DEF LedgerInvariant, SyncsOwnTheirJobs
  <2>2. \A j \in JobsOf[s] : Status(j)' = r[j]
    BY <1>1, <1>2, <1>3, <2>1 DEF Status, RowsAreConsistent
  <2>3. \A j \in Jobs \ JobsOf[s] : Status(j)' = Status(j)
    BY <1>1, <2>1 DEF Status
  <2>4. r \in [JobsOf[s] -> Ledger!Results]
    BY DEF Ledger!Results
  <2> HIDE DEF r
  <2>5. Ledger!WithStatus(JobsOf[s], r)
    BY <1>1, <2>2, <2>3 DEF Ledger!WithStatus
  <2>6. Ledger!Synchronize(s)
    BY <1>1, <1>3, <2>4, <2>5 DEF Ledger!Synchronize
  <2> QED BY <2>6
<1> QED BY <1>4, <1>5 DEF CloseSync, SyncIsOver

\* The first transaction of an import.
LEMMA AssignPlans ==
  ASSUME TypeOK, LedgerInvariant, LedgerInvariant', NEW t \in Callers, AssignPlan(t)
  PROVE  \E p \in 1 .. MaxPlans : Ledger!Assign(p)
<1>1. /\ plan' = [j \in Jobs |-> IF j \in todo[t] THEN planOf[t] ELSE plan[j]]
      /\ UNCHANGED <<persisted, started, finished, canceled>>
  BY DEF AssignPlan
<1>2. /\ planOf[t] # NoPlan /\ \A j \in Jobs : plan[j] # planOf[t]
      /\ \A j \in todo[t] : j \in persisted /\ plan[j] = NoPlan /\ j \notin started
      /\ RowsAreConsistent
  BY DEF AssignPlan, Goto, LedgerInvariant, ImportsOwnTheirPlans, Fresh
<1>3. planOf[t] \in 1 .. MaxPlans /\ todo[t] \subseteq Jobs
  BY <1>2, Kinds, Numbers DEF TypeOK, NoPlan
<1>4. /\ \A j \in todo[t] : Status(j) = "scheduled" /\ Status(j)' = "planned"
      /\ \A j \in Jobs \ todo[t] : Status(j)' = Status(j)
  BY <1>1, <1>2, <1>3 DEF Status, RowsAreConsistent
<1>5. Ledger!WithStatus(todo[t], [j \in Jobs |-> "planned"])
  BY <1>3, <1>4 DEF Ledger!WithStatus
<1>6. todo[t] \in SUBSET {j \in Jobs : [i \in Jobs |-> Status(i)][j] = "scheduled"}
  BY <1>3, <1>4
<1>7. Ledger!Assign(planOf[t])
  BY <1>1, <1>2, <1>5, <1>6 DEF Ledger!Assign
<1> QED BY <1>3, <1>7

\* The last transaction of an import.
LEMMA CommitReports ==
  ASSUME TypeOK, LedgerInvariant, LedgerInvariant', NEW t \in Callers, CommitImport(t)
  PROVE  \E p \in 1 .. MaxPlans : Ledger!Report(p)
<1> DEFINE S == {j \in Jobs : plan[j] = planOf[t]}
           r == [j \in S |-> IF j \in ran[t] THEN "finished" ELSE "canceled"]
<1>1. /\ started' = started \cup ran[t] \cup broke[t]
      /\ finished' = finished \cup ran[t] /\ canceled' = canceled \cup broke[t]
      /\ UNCHANGED <<persisted, plan>> /\ pc[t] = "run" /\ todo[t] = {}
  BY DEF CommitImport, Flush, Goto
<1>2. /\ S = ran[t] \cup broke[t] /\ ran[t] \cap broke[t] = {} /\ planOf[t] # NoPlan
      /\ \A j \in S : j \notin started /\ j \in persisted /\ plan[j] # NoPlan
      /\ RowsAreConsistent /\ RowsAreConsistent'
  BY <1>1, Kinds, LedgerTypes DEF LedgerInvariant, ImportsOwnTheirPlans, RowsAreConsistent
<1>3. planOf[t] \in 1 .. MaxPlans
  BY <1>2, Kinds, Numbers DEF TypeOK, NoPlan
<1>4. \A j \in S : Status(j) = "planned" /\ Status(j)' = r[j]
  BY <1>1, <1>2 DEF Status, RowsAreConsistent
<1>5. \A j \in Jobs \ S : Status(j)' = Status(j)
  BY <1>1, <1>2 DEF Status
<1>6. r \in [S -> Ledger!Results]
  BY DEF Ledger!Results
<1> HIDE DEF r
<1>7. Ledger!WithStatus(S, r)
  BY <1>4, <1>5 DEF Ledger!WithStatus
<1>8. Ledger!Report(planOf[t])
  BY <1>1, <1>4, <1>6, <1>7 DEF Ledger!Report
<1> QED BY <1>3, <1>8

\* Between these transactions nothing happens to the ledger, and a crash keeps it.
LEMMA OthersStutter ==
  ASSUME UNCHANGED <<persisted, plan, finished, canceled>>
  PROVE  UNCHANGED ledger
BY DEF ledger, Status

\* Each step is one of the ledger's transactions or leaves it as it is.
LEMMA EachStepIsATransaction ==
  ASSUME TypeOK, LedgerInvariant, LedgerInvariant', [Next]_vars
  PROVE  [Ledger!Next]_ledger
<1> USE DEF rows
<1>1. ASSUME NEW e \in Events, EventStep(e) PROVE [Ledger!Next]_ledger
  <2>1. CASE Persist(e)
    BY <2>1, PersistSchedules DEF Ledger!Next
  <2>2. CASE FireEvent(e) \/ BuilderFails(e) \/ \E j \in Jobs : NewJob(e, j)
    BY <2>2, OthersStutter DEF FireEvent, BuilderFails, NewJob
  <2> QED BY <1>1, <2>1, <2>2 DEF EventStep
<1>2. ASSUME NEW t \in Callers, Trigger(t) \/ CallerStep(t) PROVE [Ledger!Next]_ledger
  <2>1. CASE AssignPlan(t)
    BY <2>1, AssignPlans DEF Ledger!Next
  <2>2. CASE CommitImport(t)
    BY <2>2, CommitReports DEF Ledger!Next
  <2>3. CASE \/ Trigger(t) \/ CheckRunning(t) \/ SetRunning(t) \/ QueryUnscheduled(t)
             \/ AssignFails(t) \/ EnterImport(t) \/ ConnectFails(t) \/ SwapContext(t)
    BY <2>3, OthersStutter
    DEF Trigger, CheckRunning, SetRunning, QueryUnscheduled, AssignFails, EnterImport,
        ConnectFails, SwapContext
  <2>4. CASE \/ LoadJobs(t) \/ CommitFails(t) \/ SaveOldContext(t) \/ LeaveImport(t) \/ Leave(t)
             \/ \E j \in Jobs : Execute(t, j)
    BY <2>4, OthersStutter
    DEF LoadJobs, CommitFails, SaveOldContext, LeaveImport, Leave, Execute
  <2> QED BY <1>2, <2>1, <2>2, <2>3, <2>4 DEF CallerStep
<1>3. ASSUME NEW s \in Syncs, ScheduleSync(s) \/ SyncStep(s) PROVE [Ledger!Next]_ledger
  <2>1. CASE CloseSync(s)
    BY <2>1, CloseSynchronizes DEF Ledger!Next
  <2>2. CASE \/ ScheduleSync(s) \/ ConnectSync(s) \/ ConnectSyncFails(s) \/ CloseSyncFails(s)
             \/ \E j \in Jobs : Execute(s, j)
    BY <2>2, OthersStutter DEF ScheduleSync, ConnectSync, ConnectSyncFails, CloseSyncFails, Execute
  <2> QED BY <1>3, <2>1, <2>2 DEF SyncStep
<1>4. CASE Activate \/ Deactivate \/ Crash \/ UNCHANGED vars
  BY <1>4, OthersStutter DEF Activate, Deactivate, Crash, vars
<1> QED BY <1>1, <1>2, <1>3, <1>4 DEF Next, Terminated

\* If every import comes through the resource, the importer implements JobLedger: with
\* crashes and failures between its transactions and with builders and synchronizations
\* on other threads, each job gets one plan and one result, and the jobs of a plan get
\* theirs together.
THEOREM RowsAreALedger ==
  ASSUME Callers \subseteq ViaResource
  PROVE  Spec => ImplementsLedger
<1>1. Init => Ledger!Init
  BY DEF Init, Ledger!Init, Status, NoPlan
<1>2. TypeOK /\ LedgerInvariant /\ LedgerInvariant' /\ [Next]_vars => [Ledger!Next]_ledger
  BY EachStepIsATransaction
<1>3. TypeOK /\ TypeOK' /\ LedgerInvariant /\ [Next]_vars => LedgerInvariant'
  BY LedgerStep
<1> QED BY <1>1, <1>2, <1>3, LedgerInit, TypeCorrect, PTL
    DEF Spec, ImplementsLedger, Ledger!Spec, ledger
-----------------------------------------------------------------------------
(* Plans nobody runs *)

\* The stranded plans are some of those that were made, so they can be counted.
LEMMA StrandedIsFinite ==
  ASSUME TypeOK
  PROVE  IsFiniteSet(Stranded) /\ Cardinality(Stranded) \in Nat
<1>1. IsFiniteSet(1 .. plans)
  <2>1. plans \in Int
    BY LedgerTypes
  <2> QED BY <2>1, FS_Interval
<1>2. Stranded \in SUBSET (1 .. plans)
  BY DEF Stranded
<1>3. IsFiniteSet(Stranded)
  BY <1>1, <1>2, FS_Subset
<1> QED BY <1>3, FS_CardinalityType

\* The counters are numbers, and so are their sums.
LEMMA SumIsNatural ==
  \A a, b \in Nat : a + b \in Nat
OBVIOUS

\* Failures are counted: a step may strand a plan only if it is one.
LEMMA StrandedCounted ==
  ASSUME TypeOK, TypeOK', StrandedPlansHaveACause, failures' + crashes' >= failures + crashes,
         \/ Stranded' \subseteq Stranded
         \/ /\ failures' + crashes' = failures + crashes + 1
            /\ \E p : Stranded' \subseteq Stranded \cup {p}
  PROVE  StrandedPlansHaveACause'
<1>1. IsFiniteSet(Stranded) /\ Cardinality(Stranded) \in Nat
  BY StrandedIsFinite
<1>2. /\ failures + crashes \in Nat /\ failures' + crashes' \in Nat
      /\ Cardinality(Stranded) <= failures + crashes
  <2>1. failures \in Nat /\ crashes \in Nat /\ failures' \in Nat /\ crashes' \in Nat
    BY Numbers DEF TypeOK
  <2>2. Cardinality(Stranded) <= failures + crashes
    BY DEF StrandedPlansHaveACause
  <2>3. failures + crashes \in Nat
    BY <2>1
  <2>4. failures' + crashes' \in Nat
    BY <2>1, SumIsNatural
  <2> QED BY <2>2, <2>3, <2>4
<1>3. CASE Stranded' \subseteq Stranded
  <2>1. IsFiniteSet(Stranded') /\ Cardinality(Stranded') <= Cardinality(Stranded)
    BY <1>1, <1>3, FS_Subset
  <2>2. Cardinality(Stranded') \in Nat
    BY <2>1, FS_CardinalityType
  <2>3. Cardinality(Stranded') <= failures' + crashes'
    BY <1>1, <1>2, <2>1, <2>2
  <2> QED BY <2>3 DEF StrandedPlansHaveACause
<1>4. CASE /\ failures' + crashes' = failures + crashes + 1
           /\ \E p : Stranded' \subseteq Stranded \cup {p}
  <2>1. PICK p : Stranded' \subseteq Stranded \cup {p}
    BY <1>4
  <2>2. /\ IsFiniteSet(Stranded \cup {p})
        /\ Cardinality(Stranded \cup {p}) <= Cardinality(Stranded) + 1
        /\ Cardinality(Stranded \cup {p}) \in Nat
    BY <1>1, FS_AddElement, FS_CardinalityType
  <2>3. IsFiniteSet(Stranded') /\ Cardinality(Stranded') <= Cardinality(Stranded \cup {p})
    BY <2>1, <2>2, FS_Subset
  <2>4. Cardinality(Stranded') \in Nat
    BY <2>3, FS_CardinalityType
  <2>5. Cardinality(Stranded') <= failures' + crashes'
    BY <1>1, <1>2, <1>4, <2>2, <2>3, <2>4
  <2> QED BY <2>5 DEF StrandedPlansHaveACause
<1> QED BY <1>3, <1>4

\* A plan gets its jobs while its import is under way.
LEMMA StrandedByCallers ==
  ASSUME TypeOK, TypeOK', LedgerInvariant, NEW t \in Callers, Trigger(t) \/ CallerStep(t)
  PROVE  /\ failures' + crashes' >= failures + crashes
         /\ \/ Stranded' \subseteq Stranded
            \/ /\ failures' + crashes' = failures + crashes + 1
               /\ \E p : Stranded' \subseteq Stranded \cup {p}
<1>0. failures \in Nat /\ crashes \in Nat
  BY Numbers DEF TypeOK
<1> USE <1>0, Kinds, LedgerTypes DEF Stranded, Pending, NoPlan, rows, maps, locks, faults, work,
                                     results, Goto, Fail
<1>1. CASE \/ Trigger(t) \/ CheckRunning(t) \/ SetRunning(t) \/ AssignFails(t) \/ EnterImport(t)
           \/ SwapContext(t)
  BY <1>1 DEF Trigger, CheckRunning, SetRunning, AssignFails, EnterImport, SwapContext
<1>2. CASE \/ LoadJobs(t) \/ SaveOldContext(t) \/ LeaveImport(t) \/ Leave(t)
           \/ \E j \in Jobs : Execute(t, j)
  BY <1>2 DEF LoadJobs, SaveOldContext, LeaveImport, Leave, Execute
<1>3. CASE QueryUnscheduled(t)
  <2>1. \A j \in persisted : plan[j] # plans + 1
    BY DEF LedgerInvariant, RowsAreConsistent
  <2> QED BY <1>3, <2>1 DEF QueryUnscheduled
<1>4. CASE AssignPlan(t)
  BY <1>4 DEF AssignPlan
<1>5. CASE CommitImport(t)
  <2>1. \A j \in persisted : plan[j] = planOf[t] => j \in started'
    BY <1>5 DEF CommitImport, Flush, LedgerInvariant, ImportsOwnTheirPlans
  <2> QED BY <1>5, <2>1 DEF CommitImport, Flush
<1>6. CASE ConnectFails(t) \/ CommitFails(t)
  <2>1. Stranded' \subseteq Stranded \cup {planOf[t]}
    BY <1>6 DEF ConnectFails, CommitFails
  <2>2. failures' + crashes' = failures + crashes + 1
    BY <1>6 DEF ConnectFails, CommitFails
  <2>3. failures' + crashes' >= failures + crashes
    BY <2>2
  <2> QED BY <2>1, <2>2, <2>3
<1> QED BY <1>1, <1>2, <1>3, <1>4, <1>5, <1>6 DEF CallerStep

\* The other threads plan nothing; a crash strands at most the plan of the one import.
LEMMA StrandedByOthers ==
  ASSUME TypeOK, TypeOK', LedgerInvariant,
         \/ \E e \in Events : EventStep(e)
         \/ \E s \in Syncs : ScheduleSync(s) \/ SyncStep(s)
         \/ Activate \/ Deactivate \/ Crash \/ UNCHANGED vars
  PROVE  /\ failures' + crashes' >= failures + crashes
         /\ \/ Stranded' \subseteq Stranded
            \/ /\ failures' + crashes' = failures + crashes + 1
               /\ \E p : Stranded' \subseteq Stranded \cup {p}
<1>0. failures \in Nat /\ crashes \in Nat
  BY Numbers DEF TypeOK
<1> USE <1>0, Kinds, LedgerTypes DEF Stranded, Pending, NoPlan, rows, maps, locks, faults, work,
                                     results, Goto, Fail
<1>1. ASSUME NEW e \in Events, EventStep(e)
      PROVE  failures' + crashes' >= failures + crashes /\ Stranded' \subseteq Stranded
  <2>1. CASE Persist(e)
    <3>1. \A j \in made[e] \ persisted : plan[j] = NoPlan
      BY DEF TypeOK, LedgerInvariant, RowsAreConsistent
    <3> QED BY <2>1, <3>1 DEF Persist
  <2>2. CASE FireEvent(e) \/ BuilderFails(e) \/ \E j \in Jobs : NewJob(e, j)
    BY <2>2 DEF FireEvent, BuilderFails, NewJob
  <2> QED BY <1>1, <2>1, <2>2 DEF EventStep
<1>2. ASSUME NEW s \in Syncs, ScheduleSync(s) \/ SyncStep(s)
      PROVE  failures' + crashes' >= failures + crashes /\ Stranded' \subseteq Stranded
  <2>1. CASE CloseSync(s)
    <3>1. \A j \in made[s] \ persisted : plan[j] = NoPlan
      BY DEF TypeOK, LedgerInvariant, RowsAreConsistent
    <3> QED BY <2>1, <3>1 DEF CloseSync, Flush
  <2>2. CASE \/ ScheduleSync(s) \/ ConnectSync(s) \/ ConnectSyncFails(s) \/ CloseSyncFails(s)
             \/ \E j \in Jobs : Execute(s, j)
    BY <2>2 DEF ScheduleSync, ConnectSync, ConnectSyncFails, CloseSyncFails, Execute
  <2> QED BY <1>2, <2>1, <2>2 DEF SyncStep
<1>3. CASE Activate \/ Deactivate \/ UNCHANGED vars
  BY <1>3 DEF Activate, Deactivate, vars
<1>4. CASE Crash
  <2>1. failures' + crashes' = failures + crashes + 1
    BY <1>4 DEF Crash
  <2>2. CASE \E t \in Callers : pc[t] # "idle"
    <3>1. PICK t \in Callers : pc[t] # "idle"
      BY <2>2
    <3>2. \A u \in Callers : u # t => pc[u] = "idle"
      BY <3>1 DEF LedgerInvariant, OneCallerAtATime
    <3>3. Stranded' \subseteq Stranded \cup {planOf[t]}
      BY <1>4, <3>2 DEF Crash
    <3>4. failures' + crashes' >= failures + crashes
      BY <2>1
    <3> QED BY <2>1, <3>3, <3>4
  <2>3. CASE \A t \in Callers : pc[t] = "idle"
    BY <1>4, <2>1, <2>3 DEF Crash
  <2> QED BY <2>2, <2>3
<1> QED BY <1>1, <1>2, <1>3, <1>4

\* If every import comes through the resource, each plan whose jobs wait for an import
\* that nobody runs was stranded by a failure or a crash of its own.
THEOREM StrandedPlansAreFew ==
  ASSUME Callers \subseteq ViaResource
  PROVE  Spec => []StrandedPlansHaveACause
<1>1. Init => StrandedPlansHaveACause
  <2> SUFFICES ASSUME Init PROVE StrandedPlansHaveACause OBVIOUS
  <2>1. Stranded = {}
    BY DEF Init, Stranded
  <2> QED BY <2>1, FS_EmptySet DEF Init, StrandedPlansHaveACause
<1>2. TypeOK /\ TypeOK' /\ LedgerInvariant /\ [Next]_vars => LedgerInvariant'
  BY LedgerStep
<1>3. TypeOK /\ TypeOK' /\ LedgerInvariant /\ StrandedPlansHaveACause /\ [Next]_vars
        => StrandedPlansHaveACause'
  BY StrandedByCallers, StrandedByOthers, StrandedCounted DEF Next, Terminated
<1> QED BY <1>1, <1>2, <1>3, LedgerInit, TypeCorrect, PTL DEF Spec
=============================================================================
