--------------------------- MODULE DataDeployment ---------------------------
(***************************************************************************)
(* Deployment of files and fixtures at the start of the application.  The  *)
(* data store (data-provider) keeps rows by name and tells its listeners;  *)
(* the data deployer (data-deployment) copies the files of a folder into   *)
(* the store as soon as the schema is there; the initial fixture deployer  *)
(* installs initial-fixture.json when it is told so and deletes its row,   *)
(* and installs other fixture files whenever their rows are written.       *)
(*                                                                         *)
(* The thread that deploys the schema, the thread of the OSGi container    *)
(* that activates the components, and threads that upload data meet at two *)
(* read-write locks: the listeners of the store and those of the deployer. *)
(***************************************************************************)
EXTENDS Naturals, FiniteSets

CONSTANTS
  Engine,        \* the thread that deploys the schema
  Container,     \* the thread that activates and stops the components
  Users,         \* threads that upload one file each
  NoThread,
  Files,         \* the files of folderToScan
  Initial,       \* initial-fixture.json
  Fixtures,      \* the files whose names end with {schema}-fixture.json
  MaxEdits,      \* bound: files changed or unreadable on disk, rows deleted by users
  MaxFailures,   \* bound: failing deployments, deletions and insertions
  MaxStops       \* bound: stops of the components, restarts and crashes of the process

Threads == {Engine, Container} \cup Users
Installer == "InitialFixtureDeployer"
Inserter == "installListener"

ASSUME ThreadAssumption ==
  Engine # Container /\ {Engine, Container} \cap Users = {} /\ NoThread \notin Threads

ASSUME FileAssumption ==
  Initial \in Files /\ Fixtures \subseteq Files \ {Initial} /\ IsFiniteSet(Files)

ASSUME BoundAssumption == MaxEdits \in Nat /\ MaxFailures \in Nat /\ MaxStops \in Nat

VARIABLES
  row,         \* number of BinaryData rows of a name; several are allowed
  newer,       \* files modified on disk after their rows
  content,     \* the records of the initial fixture in the database
  schema,      \* Deployer.getDeployedSchema() # null
  storeListeners, storeReaders,                        \* SchemaBeanDataStoreImpl
  deployerListeners, deployerWriter, deployerReaders,  \* DataDeployerImpl
  didDeploy,
  pc, todo, cur, found,   \* a thread's files, the one at hand, and findByName's answer
  writes, installs, told, \* history: per file; and: has the attached installer been called
  skipped,     \* history: files that could not be read, since the process started
  edits, failures, stops

rows == <<row, newer, content>>
listeners == <<storeListeners, deployerListeners>>
deployerLock == <<deployerWriter, deployerReaders>>
locals == <<todo, cur, found>>
history == <<writes, installs, told, skipped>>
bounds == <<edits, failures, stops>>
vars == <<rows, schema, listeners, storeReaders, deployerLock, didDeploy, pc, locals,
          history, bounds>>

\* Locks and listener lists hold whom the code can put there, and no deletion of
\* a row that is gone takes a number of rows below zero.
TypeOK ==
  /\ row \in [Files -> Nat]
  /\ newer \subseteq Files
  /\ content \in {"none", "installed", "removed"}
  /\ schema \in BOOLEAN /\ didDeploy \in BOOLEAN /\ told \in BOOLEAN
  /\ storeListeners \subseteq {Installer, Inserter} /\ storeReaders \subseteq {Engine}
  /\ deployerListeners \subseteq {Installer}
  /\ deployerWriter \in {Engine, Container, NoThread}
  /\ deployerReaders \subseteq {Engine, Container}
  /\ pc \in [Threads -> {"idle", "available", "insert", "files", "create", "persist", "notify",
                         "find", "deploy", "delete", "leave", "done", "check", "register",
                         "up", "attach", "running", "stopping", "stopped", "closing",
                         "failed"}]
  /\ todo \in [Threads -> SUBSET Files]
  /\ cur \in [Threads -> Files]
  /\ found \in [Threads -> BOOLEAN]
  /\ writes \in [Files -> Nat] /\ installs \in [Files -> Nat] /\ skipped \subseteq Files
  /\ edits \in 0..MaxEdits /\ failures \in 0..MaxFailures
  /\ stops \in 0..MaxStops

Init ==
  /\ row = [f \in Files |-> 0] /\ newer = {} /\ content = "none"
  /\ schema = FALSE /\ didDeploy = FALSE /\ told = FALSE
  /\ storeListeners = {} /\ storeReaders = {}
  /\ deployerListeners = {} /\ deployerWriter = NoThread /\ deployerReaders = {}
  /\ pc = [t \in Threads |-> "idle"]
  /\ todo = [t \in Threads |-> {}]
  /\ cur = [t \in Threads |-> Initial]
  /\ found = [t \in Threads |-> FALSE]
  /\ writes = [f \in Files |-> 0] /\ installs = [f \in Files |-> 0] /\ skipped = {}
  /\ edits = 0 /\ failures = 0 /\ stops = 0

Goto(t, from, to) == pc[t] = from /\ pc' = [pc EXCEPT ![t] = to]

Fail == failures < MaxFailures /\ failures' = failures + 1 /\ UNCHANGED <<edits, stops>>

\* ReentrantReadWriteLock: a writer may lock again, and may read what it locked.
MayWrite(t) == deployerWriter \in {NoThread, t} /\ deployerReaders \subseteq {t}
MayRead(t) == deployerWriter \in {NoThread, t}

(***************************************************************************)
(* The data store: rows and the events about them.                         *)
(***************************************************************************)

\* A user uploads data to the store, which ignores it without a schema.
Upload(u, f) ==
  /\ schema
  /\ Goto(u, "idle", "create")
  /\ cur' = [cur EXCEPT ![u] = f]
  /\ UNCHANGED <<rows, schema, listeners, storeReaders, deployerLock, didDeploy, todo, found,
                 history, bounds>>

\* create(): a row of that name is reused.
LookUp(t) ==
  /\ Goto(t, "create", "persist")
  /\ found' = [found EXCEPT ![t] = row[cur[t]] > 0]
  /\ UNCHANGED <<rows, schema, listeners, storeReaders, deployerLock, didDeploy, todo, cur,
                 history, bounds>>

Forget(t) == cur' = [cur EXCEPT ![t] = Initial] /\ found' = [found EXCEPT ![t] = FALSE]

\* A listener is told of a row it is to install; a failure is only logged.
TellStoreListeners(f) ==
  IF Installer \in storeListeners /\ f \in Fixtures
    THEN \/ installs' = [installs EXCEPT ![f] = @ + 1] /\ UNCHANGED bounds
         \/ Fail /\ UNCHANGED installs
    ELSE UNCHANGED <<installs, bounds>>

\* create() and update() persist or update the row and tell the listeners.
StoreRow(t) ==
  LET f == cur[t] IN
  /\ Goto(t, "persist", IF t \in Users THEN "done" ELSE "files")
  /\ row' = [row EXCEPT ![f] = IF found[t] THEN @ ELSE @ + 1]
  /\ newer' = newer \ {f}
  /\ writes' = [writes EXCEPT ![f] = @ + 1]
  /\ Forget(t)
  /\ TellStoreListeners(f)
  /\ UNCHANGED <<content, schema, listeners, storeReaders, deployerLock, didDeploy, todo, told,
                 skipped>>

\* The database refuses the row.
StoreFails(t) ==
  /\ Goto(t, "persist", IF t \in Users THEN "done" ELSE IF t = Engine THEN "leave" ELSE "failed")
  /\ Fail
  /\ deployerWriter' = IF t = deployerWriter /\ t = Container THEN NoThread ELSE deployerWriter
  /\ todo' = [todo EXCEPT ![t] = {}]
  /\ Forget(t)
  /\ UNCHANGED <<rows, schema, listeners, storeReaders, deployerReaders, didDeploy, history>>

Edit == edits < MaxEdits /\ edits' = edits + 1 /\ UNCHANGED <<failures, stops>>

DeleteRow(f) ==
  /\ row[f] > 0
  /\ row' = [row EXCEPT ![f] = @ - 1]
  /\ Edit
  /\ UNCHANGED <<newer, content, schema, listeners, storeReaders, deployerLock, didDeploy, pc,
                 locals, history>>

\* A user deletes the records the initial fixture brought.
RemoveContent ==
  /\ content = "installed"
  /\ content' = "removed"
  /\ UNCHANGED <<row, newer, schema, listeners, storeReaders, deployerLock, didDeploy, pc,
                 locals, history, bounds>>

\* A file changes on disk after its row was written.
TouchFile(f) ==
  /\ row[f] > 0
  /\ newer' = newer \cup {f}
  /\ Edit
  /\ UNCHANGED <<row, content, schema, listeners, storeReaders, deployerLock, didDeploy, pc,
                 locals, history>>

(***************************************************************************)
(* The schema becomes available.                                           *)
(***************************************************************************)

\* The deployed schema is set, then the schema listeners are called.
DeploySchema ==
  /\ Goto(Engine, "idle", "available")
  /\ schema' = TRUE
  /\ UNCHANGED <<rows, listeners, storeReaders, deployerLock, didDeploy, locals, history, bounds>>

\* schemaDeployed(): under the read lock, dataStoreIsReady() of each listener.
SchemaDeployed ==
  /\ Goto(Engine, "available", IF Inserter \in storeListeners THEN "insert" ELSE "leave")
  /\ storeReaders' = {Engine}
  /\ UNCHANGED <<rows, schema, listeners, deployerLock, didDeploy, locals, history, bounds>>

(***************************************************************************)
(* insertData(), by the engine's or the container's thread.                *)
(***************************************************************************)

EnterInsert(t) ==
  /\ MayWrite(t)
  /\ Goto(t, "insert", "files")
  /\ deployerWriter' = t
  /\ todo' = [todo EXCEPT ![t] = Files]
  /\ UNCHANGED <<rows, schema, listeners, storeReaders, deployerReaders, didDeploy, cur, found,
                 history, bounds>>

Outdated(f) == row[f] = 0 \/ f \in newer

\* findByName(): a missing row is created, one older than the file updated.
LookAt(t, f) ==
  /\ f \in todo[t]
  /\ pc[t] = "files"
  /\ todo' = [todo EXCEPT ![t] = @ \ {f}]
  /\ pc' = [pc EXCEPT ![t] = IF row[f] = 0 THEN "create" ELSE IF f \in newer THEN "persist" ELSE @]
  /\ IF Outdated(f)
       THEN cur' = [cur EXCEPT ![t] = f] /\ found' = [found EXCEPT ![t] = row[f] > 0]
       ELSE UNCHANGED <<cur, found>>
  /\ UNCHANGED <<rows, schema, listeners, storeReaders, deployerLock, didDeploy, history, bounds>>

\* A file that cannot be opened is logged, and left out.
SkipUnreadable(t, f) ==
  /\ f \in todo[t] /\ Outdated(f)
  /\ pc[t] = "files"
  /\ todo' = [todo EXCEPT ![t] = @ \ {f}]
  /\ skipped' = skipped \cup {f}
  /\ Edit
  /\ UNCHANGED <<rows, schema, listeners, storeReaders, deployerLock, didDeploy, pc, cur, found,
                 writes, installs, told>>

FinishInsert(t) ==
  /\ todo[t] = {}
  /\ Goto(t, "files", "notify")
  /\ didDeploy' = TRUE
  /\ deployerWriter' = IF t = Engine THEN NoThread ELSE deployerWriter
  /\ UNCHANGED <<rows, schema, listeners, storeReaders, deployerReaders, locals, history, bounds>>

\* Slip: the listeners are called without the read lock.
NotifyUnlocked(t) ==
  /\ Goto(t, "notify", IF Installer \in deployerListeners THEN "find" ELSE "leave")
  /\ told' = (told \/ Installer \in deployerListeners)
  /\ UNCHANGED <<rows, schema, listeners, storeReaders, deployerLock, didDeploy, locals, writes,
                 installs, skipped, bounds>>

\* dataDeployed() of the listeners, under the read lock.
EnterNotify(t) ==
  /\ MayRead(t)
  /\ Goto(t, "notify", IF Installer \in deployerListeners THEN "find" ELSE "leave")
  /\ deployerReaders' = deployerReaders \cup {t}
  /\ told' = (told \/ Installer \in deployerListeners)
  /\ UNCHANGED <<rows, schema, listeners, storeReaders, deployerWriter, didDeploy, locals, writes,
                 installs, skipped, bounds>>

(***************************************************************************)
(* installFixture() for the initial fixture, called by dataDeployed().     *)
(***************************************************************************)

FindInitial(t) ==
  /\ Goto(t, "find", IF schema /\ didDeploy /\ row[Initial] > 0 THEN "deploy" ELSE "leave")
  /\ UNCHANGED <<rows, schema, listeners, storeReaders, deployerLock, didDeploy, locals, history,
                 bounds>>

DeployInitial(t) ==
  /\ Goto(t, "deploy", "delete")
  /\ installs' = [installs EXCEPT ![Initial] = @ + 1]
  /\ content' = "installed"
  /\ UNCHANGED <<row, newer, schema, listeners, storeReaders, deployerLock, didDeploy, locals,
                 writes, told, skipped, bounds>>

\* Slip: the row is taken to be there still.
DeleteInitialBlindly(t) ==
  /\ Goto(t, "delete", "leave")
  /\ row' = [row EXCEPT ![Initial] = @ - 1]
  /\ UNCHANGED <<newer, content, schema, listeners, storeReaders, deployerLock, didDeploy, locals,
                 history, bounds>>

\* delete() removes the first row of that name, if there still is one.
DeleteInitial(t) ==
  /\ Goto(t, "delete", "leave")
  /\ row' = [row EXCEPT ![Initial] = IF @ > 0 THEN @ - 1 ELSE 0]
  /\ UNCHANGED <<newer, content, schema, listeners, storeReaders, deployerLock, didDeploy, locals,
                 history, bounds>>

\* An exception of the deployment or of the deletion is logged.
InstallFails(t) ==
  /\ Goto(t, pc[t], "leave")
  /\ pc[t] \in {"deploy", "delete"}
  /\ Fail
  /\ UNCHANGED <<rows, schema, listeners, storeReaders, deployerLock, didDeploy, locals, history>>

\* The finally blocks up to the end of schemaDeployed(), activate() or addListener().
Leave(t) ==
  /\ Goto(t, "leave", IF t = Engine THEN "done"
                      ELSE IF Installer \in deployerListeners THEN "running" ELSE "up")
  /\ deployerReaders' = deployerReaders \ {t}
  /\ deployerWriter' = IF deployerWriter = t THEN NoThread ELSE deployerWriter
  /\ storeReaders' = storeReaders \ {t}
  /\ UNCHANGED <<rows, schema, listeners, didDeploy, locals, history, bounds>>

(***************************************************************************)
(* The container activates the deployer, then the installer.               *)
(***************************************************************************)

ActivateDeployer ==
  /\ MayWrite(Container)
  /\ Goto(Container, "idle", "check")
  /\ deployerWriter' = Container
  /\ UNCHANGED <<rows, schema, listeners, storeReaders, deployerReaders, didDeploy, locals, history,
                 bounds>>

\* dataStore.isReady() is asked without the lock of the store's listeners.
CheckReady ==
  /\ Goto(Container, "check", IF schema THEN "insert" ELSE "register")
  /\ UNCHANGED <<rows, schema, listeners, storeReaders, deployerLock, didDeploy, locals, history,
                 bounds>>

\* Slip: the deployer's lock is kept until the installer is attached.
RegisterLocked ==
  /\ storeReaders = {}
  /\ Goto(Container, "register", "up")
  /\ storeListeners' = storeListeners \cup {Inserter}
  /\ UNCHANGED <<rows, schema, deployerListeners, storeReaders, deployerLock, didDeploy, locals,
                 history, bounds>>

\* addListener() of the store, called with the deployer's lock held.
RegisterInserter ==
  /\ storeReaders = {}
  /\ Goto(Container, "register", "up")
  /\ storeListeners' = storeListeners \cup {Inserter}
  /\ deployerWriter' = NoThread
  /\ UNCHANGED <<rows, schema, deployerListeners, storeReaders, deployerReaders, didDeploy, locals,
                 history, bounds>>

AttachToStore ==
  /\ storeReaders = {}
  /\ Goto(Container, "up", "attach")
  /\ storeListeners' = storeListeners \cup {Installer}
  /\ UNCHANGED <<rows, schema, deployerListeners, storeReaders, deployerLock, didDeploy, locals,
                 history, bounds>>

\* Slips: a late listener is not called; a listener is called before the data is there.
AttachSilently ==
  /\ MayWrite(Container)
  /\ Goto(Container, "attach", "running")
  /\ deployerListeners' = deployerListeners \cup {Installer}
  /\ UNCHANGED <<rows, schema, storeListeners, storeReaders, deployerLock, didDeploy, locals,
                 history, bounds>>
AttachEagerly ==
  /\ MayWrite(Container)
  /\ Goto(Container, "attach", "find")
  /\ deployerListeners' = deployerListeners \cup {Installer}
  /\ deployerWriter' = Container
  /\ told' = TRUE
  /\ UNCHANGED <<rows, schema, storeListeners, storeReaders, deployerReaders, didDeploy, locals,
                 writes, installs, skipped, bounds>>

\* addListener(): a listener that comes late is called under the write lock.
AttachToDeployer ==
  /\ MayWrite(Container)
  /\ Goto(Container, "attach", IF didDeploy THEN "find" ELSE "running")
  /\ deployerListeners' = deployerListeners \cup {Installer}
  /\ deployerWriter' = IF didDeploy THEN Container ELSE deployerWriter
  /\ told' = (told \/ didDeploy)
  /\ UNCHANGED <<rows, schema, storeListeners, storeReaders, deployerReaders, didDeploy, locals,
                 writes, installs, skipped, bounds>>

\* deactivate() of the installer: first the deployer's listeners, then the store's.
StopInstaller ==
  /\ stops < MaxStops
  /\ MayWrite(Container)
  /\ Goto(Container, "running", "stopping")
  /\ stops' = stops + 1
  /\ deployerListeners' = {}
  /\ told' = FALSE
  /\ UNCHANGED <<rows, schema, storeListeners, storeReaders, deployerLock, didDeploy, locals,
                 writes, installs, skipped, edits, failures>>

DetachInstaller ==
  /\ storeReaders = {}
  /\ Goto(Container, "stopping", "stopped")
  /\ storeListeners' = storeListeners \ {Installer}
  /\ UNCHANGED <<rows, schema, deployerListeners, storeReaders, deployerLock, didDeploy, locals,
                 history, bounds>>

\* deactivate() of the deployer asks the store for its lock with the deployer's in its hands;
\* the container makes a new deployer.
EnterDeactivate ==
  /\ MayWrite(Container)
  /\ Goto(Container, "stopped", "closing")
  /\ deployerWriter' = Container
  /\ UNCHANGED <<rows, schema, listeners, storeReaders, deployerReaders, didDeploy, locals, history,
                 bounds>>

DeactivateDeployer ==
  /\ storeReaders = {}
  /\ Goto(Container, "closing", "idle")
  /\ storeListeners' = storeListeners \ {Inserter}
  /\ deployerWriter' = NoThread
  /\ didDeploy' = FALSE
  /\ UNCHANGED <<rows, schema, deployerListeners, storeReaders, deployerReaders, locals, history,
                 bounds>>

\* The process ends, in an orderly way or not; the rows are left.
Restart ==
  /\ stops < MaxStops
  /\ stops' = stops + 1
  /\ schema' = FALSE /\ didDeploy' = FALSE /\ told' = FALSE /\ skipped' = {}
  /\ storeListeners' = {} /\ storeReaders' = {}
  /\ deployerListeners' = {} /\ deployerWriter' = NoThread /\ deployerReaders' = {}
  /\ pc' = [t \in Threads |-> IF t \in Users /\ pc[t] # "idle" THEN "done" ELSE "idle"]
  /\ todo' = [t \in Threads |-> {}]
  /\ cur' = [t \in Threads |-> Initial] /\ found' = [t \in Threads |-> FALSE]
  /\ UNCHANGED <<rows, writes, installs, edits, failures>>

InsertStep(t) ==
  \/ EnterInsert(t) \/ LookUp(t) \/ StoreRow(t) \/ StoreFails(t)
  \/ \E f \in Files : LookAt(t, f) \/ SkipUnreadable(t, f)
  \/ FinishInsert(t) \/ EnterNotify(t) \/ FindInitial(t) \/ DeployInitial(t)
  \/ DeleteInitial(t) \/ InstallFails(t) \/ Leave(t)

EngineStep == DeploySchema \/ SchemaDeployed \/ InsertStep(Engine)

ContainerStep ==
  \/ ActivateDeployer \/ CheckReady \/ RegisterInserter \/ AttachToStore \/ AttachToDeployer
  \/ DetachInstaller \/ EnterDeactivate \/ DeactivateDeployer \/ InsertStep(Container)

\* The schema's deployment has called a deployer that is being deactivated: each of the two
\* threads has the lock the other one waits for, and both are lost until a restart.
Crossed == pc[Container] = "closing" /\ pc[Engine] \in {"insert", "notify"}

Terminated ==
  /\ Crossed \/ (pc[Engine] = "done" /\ pc[Container] \in {"running", "failed"})
  /\ UNCHANGED vars

Next ==
  \/ EngineStep \/ ContainerStep \/ StopInstaller \/ Restart \/ RemoveContent \/ Terminated
  \/ \E f \in Files : DeleteRow(f) \/ TouchFile(f)
  \/ \E u \in Users : LookUp(u) \/ StoreRow(u) \/ StoreFails(u) \/ \E f \in Files : Upload(u, f)

Spec == Init /\ [][Next]_vars

\* The container activates its components and the schema is deployed.
FairSpec == Spec /\ WF_vars(EngineStep) /\ WF_vars(ContainerStep)

(***************************************************************************)
(* Properties.                                                             *)
(***************************************************************************)

\* However the late addListener() and the notification of insertData() overlap,
\* and although the listener may well be called twice, no row is installed twice;
\* only a failure or a restart between the deployment and the deletion repeats it.
NothingInstalledTwice ==
  \A f \in Files : installs[f] <= writes[f] + failures + stops

\* Whoever installs the initial fixture does so after every file was stored, now or by an
\* earlier start, or could not be read; and while no thread is copying files.
InstalledAfterDeployment ==
  \A t \in {Engine, Container} : pc[t] \in {"find", "deploy", "delete"} =>
    /\ \A f \in Files : writes[f] > 0 \/ f \in skipped
    /\ \A u \in {Engine, Container} : pc[u] \notin {"files", "create", "persist"}

Attached == Installer \in deployerListeners

\* "The listener will be called, if the data deployment has been completed before
\* attaching the listener. This way deployment events will not be missed."
DeploymentIsNotMissed == (didDeploy /\ Attached) ~> (told \/ ~Attached)

\* The thread that deploys the schema comes back from its listeners, although it takes
\* the deployer's locks with the store's lock in its hands - unless deactivate() of the
\* deployer, which takes them in the other order, has begun before.
SchemaDeploymentEnds == (pc[Engine] = "available") ~> (pc[Engine] \in {"done", "idle"} \/ Crossed)

(***************************************************************************)
(* What the documentation says, and the code does not do.                  *)
(***************************************************************************)

\* "This way deleted data will not re-appear after first installation."
DeletedDataStaysDeleted == [][content = "removed" => content' = "removed"]_vars
=============================================================================
