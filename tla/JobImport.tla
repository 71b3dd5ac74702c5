------------------------------ MODULE JobImport ------------------------------
(***************************************************************************)
(* The JCR importer (jcr-importer/importer-impl).  Entity events make the  *)
(* synchronization strategies build import jobs; each job gets an entry in *)
(* the job context that is current at that time.  An import plans the      *)
(* unscheduled jobs, swaps the current context for a fresh one and         *)
(* executes the planned jobs with the swapped-out context.  A single-      *)
(* entity synchronization builds and executes its jobs at once, in a       *)
(* context of its own.                                                     *)
(*                                                                         *)
(* Rows of the database survive a crash: persisted, plan, contextMap,      *)
(* started, finished, canceled, stored and the counters contexts, plans.   *)
(* Everything else is memory of the process.                               *)
(***************************************************************************)
EXTENDS Naturals, FiniteSets

CONSTANTS
  Events,       \* entity events the interceptor is told of, one thread each
  Callers,      \* threads that call requestImport()
  Syncs,        \* threads that call performSynchronization()
  ViaResource,  \* the callers and syncs that hold the REST resource's monitor
  Jobs,         \* import jobs; a job stands for the key of its context entry
  JobsOf,       \* the jobs the strategies build for an event or a sync
  ParentJob,    \* the job whose sub-context a job gets, or NoJob
  NoJob,
  NoThread,
  MaxPlans,     \* bound: import plans
  MaxFailures,  \* bound: refused JCR sessions, failed commits, lost strategies
  MaxRestarts,  \* bound: orderly restarts
  MaxCrashes    \* bound: crashes

Threads == Events \cup Callers \cup Syncs
Builders == Events \cup Syncs
Keys == Events \cup Jobs
MaxContexts == 1 + MaxPlans + Cardinality(Syncs)
Contexts == 1..MaxContexts
NoContext == 0
NoPlan == 0

ASSUME ThreadAssumption ==
  /\ Events \cap Callers = {} /\ Events \cap Syncs = {} /\ Callers \cap Syncs = {}
  /\ ViaResource \subseteq Callers \cup Syncs
  /\ NoThread \notin Threads
  /\ IsFiniteSet(Syncs)

ASSUME JobAssumption ==
  /\ Events \cap Jobs = {}
  /\ NoJob \notin Jobs
  /\ JobsOf \in [Builders -> SUBSET Jobs]
  /\ \A b, c \in Builders : b # c => JobsOf[b] \cap JobsOf[c] = {}
  /\ ParentJob \in [Jobs -> Jobs \cup {NoJob}]

ASSUME BoundAssumption ==
  MaxPlans \in Nat /\ MaxFailures \in Nat /\ MaxRestarts \in Nat /\ MaxCrashes \in Nat

VARIABLES
  persisted,   \* jobs that have a row
  plan,        \* the plan column of a job's row
  started, finished, canceled,   \* jobs whose row has startedOn, finishedOn, canceledOn
  contextMap,  \* the JobContextMap a job's row names
  contexts,    \* number of JobContextMap rows, numbered by createdOn
  stored,      \* the entries in the mapData of a JobContextMap row
  plans,       \* number of ImportPlan rows
  current,     \* JobContextProviderImpl.jobContextImpl
  entries,     \* the entries of a job context object in memory
  running,     \* JCRImporterImpl.running
  monitor,     \* owner of the monitor of ImporterResourceImpl
  importLock,  \* owner of the monitor startImport() takes
  pc, made, planOf, ctxOf, todo,
  ran, broke,  \* jobs a thread executed whose commit is outstanding
  failures, restarts, crashes,
  executions   \* history: how often a job was handed to its executors

rows == <<persisted, plan, started, finished, canceled, plans>>
maps == <<contextMap, contexts, stored, current, entries>>
locks == <<running, monitor, importLock>>
faults == <<failures, restarts, crashes>>
work == <<planOf, ctxOf, todo>>
results == <<ran, broke, executions>>
vars == <<rows, maps, locks, faults, work, results, pc, made>>

\* A job's row and an import refer only to plans and contexts whose rows exist.
ReferencesAreRows ==
  /\ current <= contexts
  /\ \A j \in Jobs : plan[j] <= plans /\ contextMap[j] <= contexts
  /\ \A t \in Threads : planOf[t] <= plans /\ ctxOf[t] <= contexts

\* Rows, contexts and the threads' variables hold what the code can put there,
\* and refer to rows that exist.
TypeOK ==
  /\ persisted \subseteq Jobs /\ started \subseteq Jobs
  /\ finished \subseteq Jobs /\ canceled \subseteq Jobs
  /\ plan \in [Jobs -> 0..MaxPlans]
  /\ contextMap \in [Jobs -> 0..MaxContexts]
  /\ contexts \in 0..MaxContexts /\ plans \in 0..MaxPlans
  /\ stored \in [Contexts -> SUBSET Keys]
  /\ entries \in [Contexts -> SUBSET Keys]
  /\ current \in 0..MaxContexts
  /\ running \in BOOLEAN
  /\ monitor \in Threads \cup {NoThread}
  /\ importLock \in Threads \cup {NoThread}
  /\ pc \in [Threads -> {"idle", "building", "check", "enter", "query", "assign", "lock",
                         "connect", "load", "run", "save", "unlock", "leave", "close",
                         "done", "dead"}]
  /\ made \in [Threads -> SUBSET Jobs]
  /\ planOf \in [Threads -> 0..MaxPlans]
  /\ ctxOf \in [Threads -> 0..MaxContexts]
  /\ todo \in [Threads -> SUBSET Jobs]
  /\ ran \in [Threads -> SUBSET Jobs] /\ broke \in [Threads -> SUBSET Jobs]
  /\ failures \in 0..MaxFailures /\ restarts \in 0..MaxRestarts /\ crashes \in 0..MaxCrashes
  /\ executions \in [Jobs -> Nat]
  /\ ReferencesAreRows

Init ==
  /\ persisted = {} /\ started = {} /\ finished = {} /\ canceled = {}
  /\ plan = [j \in Jobs |-> NoPlan]
  /\ contextMap = [j \in Jobs |-> NoContext]
  /\ contexts = 0 /\ plans = 0
  /\ stored = [c \in Contexts |-> {}]
  /\ entries = [c \in Contexts |-> {}]
  /\ current = NoContext
  /\ running = FALSE /\ monitor = NoThread /\ importLock = NoThread
  /\ pc = [t \in Threads |-> "idle"]
  /\ made = [t \in Threads |-> {}]
  /\ planOf = [t \in Threads |-> NoPlan]
  /\ ctxOf = [t \in Threads |-> NoContext]
  /\ todo = [t \in Threads |-> {}]
  /\ ran = [t \in Threads |-> {}] /\ broke = [t \in Threads |-> {}]
  /\ failures = 0 /\ restarts = 0 /\ crashes = 0
  /\ executions = [j \in Jobs |-> 0]

Goto(t, from, to) == pc[t] = from /\ pc' = [pc EXCEPT ![t] = to]

\* One more failure; a model bound, the code may fail any number of times.
Fail == failures < MaxFailures /\ failures' = failures + 1 /\ UNCHANGED <<restarts, crashes>>

(***************************************************************************)
(* Entity events: the interceptor and the job builder.                     *)
(***************************************************************************)

\* onPersist/onMerge/onDelete of a synchronized record: the builder creates
\* the entry of the event in the current context.
FireEvent(e) ==
  /\ current # NoContext
  /\ Goto(e, "idle", "building")
  /\ entries' = [entries EXCEPT ![current] = @ \cup {e}]
  /\ UNCHANGED <<rows, contextMap, contexts, stored, current, locks, faults, work, results, made>>

\* Slip: a sub-job gets no entry of its own.
NewSubJobWithoutEntry(e, j) ==
  /\ pc[e] = "building"
  /\ j \in JobsOf[e] \ made[e]
  /\ ParentJob[j] \in made[e] \cup {NoJob}
  /\ entries' = IF ParentJob[j] = NoJob THEN [entries EXCEPT ![current] = @ \cup {j}] ELSE entries
  /\ contextMap' = [contextMap EXCEPT ![j] = current]
  /\ made' = [made EXCEPT ![e] = @ \cup {j}]
  /\ UNCHANGED <<rows, contexts, stored, current, locks, faults, work, results, pc>>

\* A strategy asks for a job: under the provider's write lock the entry is
\* created in the context that is current now, and the bean names its map.
NewJob(e, j) ==
  /\ pc[e] = "building"
  /\ j \in JobsOf[e] \ made[e]
  /\ ParentJob[j] \in made[e] \cup {NoJob}
  /\ entries' = [entries EXCEPT ![current] = @ \cup {j}]
  /\ contextMap' = [contextMap EXCEPT ![j] = current]
  /\ made' = [made EXCEPT ![e] = @ \cup {j}]
  /\ UNCHANGED <<rows, contexts, stored, current, locks, faults, work, results, pc>>

\* The builder's own transaction writes all jobs of the event.
Persist(e) ==
  /\ made[e] = JobsOf[e]
  /\ Goto(e, "building", "done")
  /\ persisted' = persisted \cup made[e]
  /\ UNCHANGED <<plan, started, finished, canceled, plans, maps, locks, faults, work, results, made>>

\* The strategy was unregistered between isCMSSynchronized and
\* getStrategyForEntity, or the commit of the jobs failed.
BuilderFails(e) ==
  /\ made[e] \in {{}, JobsOf[e]}
  /\ Goto(e, "building", "done")
  /\ Fail
  /\ UNCHANGED <<rows, maps, locks, work, results, made>>

(***************************************************************************)
(* requestImport(), called directly or through the REST resource.          *)
(***************************************************************************)

\* Slip: the resource's monitor is taken without waiting for its owner.
TriggerUnsynchronized(t) ==
  /\ current # NoContext
  /\ plans + Cardinality({u \in Callers : pc[u] \in {"check", "enter", "query"}}) < MaxPlans
  /\ Goto(t, "idle", "check")
  /\ UNCHANGED <<rows, maps, locks, faults, work, results, made>>

\* ImporterResourceImpl.trigger() is synchronized; a direct caller is not.
Trigger(t) ==
  /\ current # NoContext
  /\ plans + Cardinality({u \in Callers : pc[u] \in {"check", "enter", "query"}}) < MaxPlans
  /\ Goto(t, "idle", "check")
  /\ IF t \in ViaResource
       THEN monitor = NoThread /\ monitor' = t
       ELSE UNCHANGED monitor
  /\ UNCHANGED <<rows, maps, running, importLock, faults, work, results, made>>

ReleaseResource(t) == monitor' = IF monitor = t THEN NoThread ELSE monitor

\* if (!isRunning()): the flag is read here and set by the next step.
CheckRunning(t) ==
  /\ pc[t] = "check"
  /\ pc' = [pc EXCEPT ![t] = IF running THEN "idle" ELSE "enter"]
  /\ IF running THEN ReleaseResource(t) ELSE UNCHANGED monitor
  /\ UNCHANGED <<rows, maps, running, importLock, faults, work, results, made>>

SetRunning(t) ==
  /\ Goto(t, "enter", "query")
  /\ running' = TRUE
  /\ UNCHANGED <<rows, maps, monitor, importLock, faults, work, results, made>>

\* PICK ImporterJob i IF i.plan=null AND i.startedOn=null
Unscheduled == {j \in persisted : plan[j] = NoPlan /\ j \notin started}

\* Slip: the plan's row is not persisted.
QueryWithoutPlanRow(t) ==
  /\ Goto(t, "query", "assign")
  /\ plans < MaxPlans
  /\ planOf' = [planOf EXCEPT ![t] = plans + 1]
  /\ todo' = [todo EXCEPT ![t] = Unscheduled]
  /\ UNCHANGED <<rows, maps, locks, faults, ctxOf, results, made>>

\* The plan's row is persisted, then the unscheduled jobs are read.
QueryUnscheduled(t) ==
  /\ Goto(t, "query", "assign")
  /\ plans < MaxPlans
  /\ plans' = plans + 1
  /\ planOf' = [planOf EXCEPT ![t] = plans + 1]
  /\ todo' = [todo EXCEPT ![t] = Unscheduled]
  /\ UNCHANGED <<persisted, plan, started, finished, canceled, maps, locks, faults, ctxOf, results, made>>

\* The transaction that updates the plan of the jobs read.
AssignPlan(t) ==
  /\ Goto(t, "assign", "lock")
  /\ plan' = [j \in Jobs |-> IF j \in todo[t] THEN planOf[t] ELSE plan[j]]
  /\ todo' = [todo EXCEPT ![t] = {}]
  /\ UNCHANGED <<persisted, started, finished, canceled, plans, maps, locks, faults, planOf, ctxOf, results, made>>

\* Slip: the failure of the commit bypasses the finally block.
AssignFailsNoFinally(t) ==
  /\ Goto(t, "assign", "idle")
  /\ Fail
  /\ UNCHANGED <<rows, maps, locks, work, results, made>>

AssignFails(t) ==
  /\ Goto(t, "assign", "leave")
  /\ todo' = [todo EXCEPT ![t] = {}]
  /\ Fail
  /\ UNCHANGED <<rows, maps, locks, planOf, ctxOf, results, made>>

\* startImport() is synchronized.
EnterImport(t) ==
  /\ importLock = NoThread
  /\ importLock' = t
  /\ Goto(t, "lock", "connect")
  /\ UNCHANGED <<rows, maps, running, monitor, faults, work, results, made>>

\* No JCR session can be had: cmsDao.run() never calls the callback, and
\* startImport() returns as if it had imported.
ConnectFails(t) ==
  /\ Goto(t, "connect", "unlock")
  /\ Fail
  /\ UNCHANGED <<rows, maps, locks, work, results, made>>

\* newJobContext(null, old): a fresh persisted context becomes current, the
\* import goes on with the one it replaces.
SwapContext(t) ==
  /\ Goto(t, "connect", "load")
  /\ contexts < MaxContexts
  /\ contexts' = contexts + 1
  /\ current' = contexts + 1
  /\ ctxOf' = [ctxOf EXCEPT ![t] = current]
  /\ UNCHANGED <<rows, contextMap, stored, entries, locks, faults, planOf, todo, results, made>>

\* Slip: the jobs to execute are read without regard to their plan.
LoadJobsOfAnyPlan(t) ==
  /\ Goto(t, "load", "run")
  /\ todo' = [todo EXCEPT ![t] = persisted \ started]
  /\ UNCHANGED <<rows, maps, locks, faults, planOf, ctxOf, results, made>>

LoadJobs(t) ==
  /\ Goto(t, "load", "run")
  /\ todo' = [todo EXCEPT ![t] = {j \in persisted : plan[j] = planOf[t]}]
  /\ UNCHANGED <<rows, maps, locks, faults, planOf, ctxOf, results, made>>

(***************************************************************************)
(* Execution of a job, by an import or by a single-entity synchronization. *)
(***************************************************************************)

\* getEntry(): a job of an import is looked up in the swapped-out context, a
\* job of a synchronization in the context it was just built in.
HasEntry(t, j) == j \in IF t \in Syncs THEN made[t] ELSE entries[ctxOf[t]]

\* A sub-job reads the content variable its parent's execution left in the
\* parent's entry of the same context.
HasInput(t, j) ==
  /\ HasEntry(t, j)
  /\ ParentJob[j] # NoJob => ParentJob[j] \in ran[t] /\ HasEntry(t, ParentJob[j])

\* handleImporterJob(): a missing entry or input is an exception, any
\* exception cancels the job; JCR and mapper errors are failures.
Execute(t, j) ==
  /\ pc[t] = "run"
  /\ j \in todo[t]
  /\ ParentJob[j] \notin todo[t]
  /\ todo' = [todo EXCEPT ![t] = @ \ {j}]
  /\ executions' = [executions EXCEPT ![j] = @ + 1]
  /\ \/ /\ HasInput(t, j)
        /\ ran' = [ran EXCEPT ![t] = @ \cup {j}]
        /\ UNCHANGED <<broke, faults>>
     \/ /\ broke' = [broke EXCEPT ![t] = @ \cup {j}]
        /\ IF HasInput(t, j) THEN Fail ELSE UNCHANGED faults
        /\ UNCHANGED ran
  /\ UNCHANGED <<rows, maps, locks, planOf, ctxOf, pc, made>>

\* The results of a thread become rows.
Flush(t) ==
  /\ started' = started \cup ran[t] \cup broke[t]
  /\ finished' = finished \cup ran[t]
  /\ canceled' = canceled \cup broke[t]
  /\ ran' = [ran EXCEPT ![t] = {}]
  /\ broke' = [broke EXCEPT ![t] = {}]

Discard(t) ==
  /\ ran' = [ran EXCEPT ![t] = {}]
  /\ broke' = [broke EXCEPT ![t] = {}]

\* Slip: the executed jobs are not updated.
CommitImportForgets(t) ==
  /\ t \in Callers
  /\ todo[t] = {}
  /\ Goto(t, "run", "save")
  /\ Discard(t)
  /\ UNCHANGED <<rows, maps, locks, faults, work, executions, made>>

\* The one transaction of the import that updates every executed job.
CommitImport(t) ==
  /\ t \in Callers
  /\ todo[t] = {}
  /\ Goto(t, "run", "save")
  /\ Flush(t)
  /\ UNCHANGED <<persisted, plan, plans, maps, locks, faults, work, executions, made>>

\* The exception leaves newJobContext() before the old context is saved.
CommitFails(t) ==
  /\ t \in Callers
  /\ todo[t] = {}
  /\ Goto(t, "run", "unlock")
  /\ Discard(t)
  /\ entries' = [entries EXCEPT ![ctxOf[t]] = {}]
  /\ Fail
  /\ UNCHANGED <<rows, contextMap, contexts, stored, current, locks, work, executions, made>>

\* Slip: the old context is dropped without being saved.
DropOldContext(t) ==
  /\ Goto(t, "save", "unlock")
  /\ entries' = [entries EXCEPT ![ctxOf[t]] = {}]
  /\ UNCHANGED <<rows, contextMap, contexts, stored, current, locks, faults, work, results, made>>

\* save(oldContext), after which nothing refers to the old context any more.
SaveOldContext(t) ==
  /\ Goto(t, "save", "unlock")
  /\ stored' = [stored EXCEPT ![ctxOf[t]] = entries[ctxOf[t]]]
  /\ entries' = [entries EXCEPT ![ctxOf[t]] = {}]
  /\ UNCHANGED <<rows, contextMap, contexts, current, locks, faults, work, results, made>>

LeaveImport(t) ==
  /\ Goto(t, "unlock", "leave")
  /\ importLock' = NoThread
  /\ UNCHANGED <<rows, maps, running, monitor, faults, work, results, made>>

\* Slip: the flag is not reset.
LeaveRunning(t) ==
  /\ Goto(t, "leave", "idle")
  /\ ReleaseResource(t)
  /\ UNCHANGED <<rows, maps, running, importLock, faults, work, results, made>>

\* finally { running = false; }
Leave(t) ==
  /\ Goto(t, "leave", "idle")
  /\ running' = FALSE
  /\ ReleaseResource(t)
  /\ planOf' = [planOf EXCEPT ![t] = NoPlan]
  /\ ctxOf' = [ctxOf EXCEPT ![t] = NoContext]
  /\ UNCHANGED <<rows, maps, importLock, faults, todo, results, made>>

(***************************************************************************)
(* performSynchronization(): build the jobs of the given records in an     *)
(* "in-memory" context, whose JobContextMap row is persisted nevertheless, *)
(* execute them, and commit their rows when the scheduler is closed.       *)
(***************************************************************************)
ScheduleSync(s) ==
  /\ current # NoContext
  /\ contexts < MaxContexts
  /\ Goto(s, "idle", "connect")
  /\ IF s \in ViaResource
       THEN monitor = NoThread /\ monitor' = s
       ELSE UNCHANGED monitor
  /\ contexts' = contexts + 1
  /\ contextMap' = [j \in Jobs |-> IF j \in JobsOf[s] THEN contexts + 1 ELSE contextMap[j]]
  /\ made' = [made EXCEPT ![s] = JobsOf[s]]
  /\ todo' = [todo EXCEPT ![s] = JobsOf[s]]
  /\ UNCHANGED <<rows, stored, current, entries, running, importLock, faults, planOf, ctxOf, results>>

ConnectSync(s) ==
  /\ Goto(s, "connect", "run")
  /\ UNCHANGED <<rows, maps, locks, faults, work, results, made>>

\* cmsDao.run() returns its default, the jobs are not executed.
ConnectSyncFails(s) ==
  /\ Goto(s, "connect", "close")
  /\ todo' = [todo EXCEPT ![s] = {}]
  /\ Fail
  /\ UNCHANGED <<rows, maps, locks, planOf, ctxOf, results, made>>

SyncIsOver(s) == pc[s] = "close" \/ (pc[s] = "run" /\ todo[s] = {})

\* importScheduler.close() commits; the caller is told NO_CONTENT.
CloseSync(s) ==
  /\ SyncIsOver(s)
  /\ pc' = [pc EXCEPT ![s] = "done"]
  /\ persisted' = persisted \cup made[s]
  /\ Flush(s)
  /\ ReleaseResource(s)
  /\ UNCHANGED <<plan, plans, maps, running, importLock, faults, work, executions, made>>

\* The commit fails: the exception is logged, the caller is told NO_CONTENT.
CloseSyncFails(s) ==
  /\ SyncIsOver(s)
  /\ pc' = [pc EXCEPT ![s] = "done"]
  /\ Discard(s)
  /\ ReleaseResource(s)
  /\ Fail
  /\ UNCHANGED <<rows, maps, running, importLock, work, executions, made>>

(***************************************************************************)
(* JobContextProviderImpl's life cycle and crashes of the process.         *)
(***************************************************************************)

\* PICK JobContextMap j ORDERBY j.createdOn DESC LIMIT 1
Activate ==
  /\ current = NoContext
  /\ IF contexts = 0
       THEN contexts' = 1 /\ current' = 1 /\ UNCHANGED entries
       ELSE /\ current' = contexts
            /\ entries' = [entries EXCEPT ![contexts] = stored[contexts]]
            /\ UNCHANGED contexts
  /\ UNCHANGED <<rows, contextMap, stored, locks, faults, work, results, pc, made>>

AtRest == \A t \in Threads : pc[t] \in {"idle", "done", "dead"}

\* An orderly stop, once no request is being served.
Deactivate ==
  /\ current # NoContext
  /\ AtRest
  /\ restarts < MaxRestarts
  /\ restarts' = restarts + 1
  /\ stored' = [stored EXCEPT ![current] = entries[current]]
  /\ entries' = [entries EXCEPT ![current] = {}]
  /\ current' = NoContext
  /\ UNCHANGED <<rows, contextMap, contexts, locks, failures, crashes, work, results, pc, made>>

\* The process dies; the rows of committed transactions are left.
Crash ==
  /\ crashes < MaxCrashes
  /\ crashes' = crashes + 1
  /\ current' = NoContext
  /\ entries' = [c \in Contexts |-> {}]
  /\ running' = FALSE /\ monitor' = NoThread /\ importLock' = NoThread
  /\ pc' = [t \in Threads |-> IF t \in Callers THEN "idle"
                              ELSE IF pc[t] \in {"idle", "done"} THEN pc[t] ELSE "dead"]
  /\ planOf' = [t \in Threads |-> NoPlan]
  /\ ctxOf' = [t \in Threads |-> NoContext]
  /\ todo' = [t \in Threads |-> {}]
  /\ ran' = [t \in Threads |-> {}]
  /\ broke' = [t \in Threads |-> {}]
  /\ UNCHANGED <<rows, contextMap, contexts, stored, failures, restarts, executions, made>>

\* Nothing is left to do within the bounds.
Terminated == AtRest /\ current # NoContext /\ UNCHANGED vars

EventStep(e) ==
  \/ FireEvent(e) \/ Persist(e) \/ BuilderFails(e)
  \/ \E j \in Jobs : NewJob(e, j)

CallerStep(t) ==
  \/ CheckRunning(t) \/ SetRunning(t) \/ QueryUnscheduled(t) \/ AssignPlan(t)
  \/ AssignFails(t) \/ EnterImport(t) \/ ConnectFails(t) \/ SwapContext(t)
  \/ LoadJobs(t) \/ CommitImport(t) \/ CommitFails(t) \/ SaveOldContext(t)
  \/ LeaveImport(t) \/ Leave(t)
  \/ \E j \in Jobs : Execute(t, j)

SyncStep(s) ==
  \/ ConnectSync(s) \/ ConnectSyncFails(s) \/ CloseSync(s) \/ CloseSyncFails(s)
  \/ \E j \in Jobs : Execute(s, j)

Next ==
  \/ \E e \in Events : EventStep(e)
  \/ \E t \in Callers : Trigger(t) \/ CallerStep(t)
  \/ \E s \in Syncs : ScheduleSync(s) \/ SyncStep(s)
  \/ Activate \/ Deactivate \/ Crash \/ Terminated

Spec == Init /\ [][Next]_vars

\* A started thread goes on, the container activates the provider; nobody
\* is forced to trigger an import or to change an entity.
Fairness ==
  /\ \A t \in Callers : WF_vars(CallerStep(t))
  /\ \A s \in Syncs : WF_vars(SyncStep(s))
  /\ WF_vars(Activate)

FairSpec == Spec /\ Fairness

(***************************************************************************)
(* Properties.                                                             *)
(***************************************************************************)

\* An import that is under way and has, or will load, the jobs of plan p.
Pending(t, p) == t \in Callers /\ planOf[t] = p
                 /\ pc[t] \in {"lock", "connect", "load", "run"}

\* No job is ever handed to its executors twice: not by overlapping triggers,
\* not by an import that follows a synchronization, a crash or a failed commit.
ExecutedOnce == \A j \in Jobs : executions[j] <= 1

Healthy == failures = 0 /\ crashes = 0
IsFiled(j) == /\ contextMap[j] \in 1..contexts
              /\ j \in entries[contextMap[j]] \cup stored[contextMap[j]]

\* However the context is swapped and the provider restarted while the jobs of
\* an event are built, a persisted job's entry is in the very context its row
\* names: in memory, or in the row's map data once the context was saved.  Only
\* a failure (the commit of an import) or a crash can lose it.
EntryIsWhereTheRowSays ==
  Healthy => \A e \in Events : \A j \in JobsOf[e] \cap persisted : IsFiled(j)

\* Without failures an import cancels a job only because the entry of the job
\* or of its parent is in a context that was swapped out earlier.
CanceledOnlyWhenStale ==
  Healthy => \A t \in Callers : \A j \in broke[t] :
    \/ contextMap[j] < ctxOf[t]
    \/ ParentJob[j] # NoJob /\ (contextMap[ParentJob[j]] < ctxOf[t] \/ ParentJob[j] \in broke[t])

\* Plans with jobs that wait for an import nobody runs.
Stranded == {p \in 1..plans :
               /\ \E j \in persisted : plan[j] = p /\ j \notin started
               /\ \A t \in Callers : ~Pending(t, p)}

\* A plan whose jobs wait for an import nobody runs was stranded by a refused
\* session, a failed commit or a crash, and each of these strands at most one.
StrandedPlansHaveACause == Cardinality(Stranded) <= failures + crashes

\* The flag an administrator sees says running exactly while a triggered
\* import is between the check and its finally block.
RunningIsAccurate ==
  running <=> \E t \in Callers : pc[t] \in {"query", "assign", "lock", "connect", "load",
                                            "run", "save", "unlock", "leave"}

\* An import that runs comes to an end, whatever fails on the way, and a job that was
\* planned is eventually executed, unless something fails.
ImportsProgress ==
  /\ running ~> ~running
  /\ \A j \in Jobs : (plan[j] # NoPlan) ~> (j \in started \/ failures + crashes > 0)

Status(j) == CASE j \notin persisted -> "none"
               [] j \in finished -> "finished"
               [] j \in canceled -> "canceled"
               [] j \in persisted \ (finished \cup canceled) ->
                    IF plan[j] = NoPlan THEN "scheduled" ELSE "planned"

Ledger == INSTANCE JobLedger WITH Plans <- 1..MaxPlans, batch <- plan,
                                  status <- [j \in Jobs |-> Status(j)]

\* As long as every import and synchronization comes through the resource, the
\* rows are a ledger: in three transactions, with crashes and failures between
\* them and with builders on other threads, each job gets one plan and one
\* result, and the jobs of a plan get theirs together.
ImplementsLedger == Ledger!Spec

(***************************************************************************)
(* The inductive invariant behind EntryIsWhereTheRowSays.                  *)
(***************************************************************************)

\* The import of t works on a swapped-out context that is not saved yet.
HoldsContext(t) == pc[t] \in {"load", "run", "save"}
Live(c) == c = current \/ \E t \in Callers : HoldsContext(t) /\ ctxOf[t] = c

BuildersOwnTheirJobs ==
  /\ \A b \in Builders : made[b] \subseteq JobsOf[b]
  /\ \A e \in Events : JobsOf[e] \cap persisted \subseteq made[e]
BuiltJobsAreFiled == \A e \in Events : \A j \in made[e] : IsFiled(j)
ContextsAreNumbered ==
  /\ current <= contexts
  /\ \A c \in Contexts : c > contexts => stored[c] = {} /\ entries[c] = {}
OneImportHasTheLock ==
  \A t \in Callers : HoldsContext(t) \/ pc[t] \in {"connect", "unlock"} => importLock = t
DownMeansAtRest == current = NoContext => AtRest
HeldContextsAreOlder ==
  \A t \in Callers : HoldsContext(t) => ctxOf[t] \in Contexts /\ ctxOf[t] < current
OnlyLiveContextsAreInMemory ==
  \A c \in Contexts : /\ Live(c) => stored[c] \subseteq entries[c]
                      /\ ~Live(c) => entries[c] = {}

FilingInvariant ==
  /\ BuildersOwnTheirJobs /\ BuiltJobsAreFiled /\ ContextsAreNumbered
  /\ OneImportHasTheLock /\ DownMeansAtRest /\ HeldContextsAreOlder
  /\ OnlyLiveContextsAreInMemory

(***************************************************************************)
(* What comments and documentation say, and the code does not do.          *)
(***************************************************************************)

\* "your synchronization strategies will schedule jobs for later execution"
\* (the importer's documentation): the next import finds the context of every
\* scheduled job.
ScheduledJobsAreExecutable ==
  current # NoContext =>
    \A e \in Events : JobsOf[e] \cap Unscheduled \subseteq entries[current]
=============================================================================
