------------------------- MODULE DataDeploymentProofs -------------------------
(***************************************************************************)
(* Theorems about DataDeployment, for any files, users and bounds: types,  *)
(* that the deployer's lock keeps copying and installing apart, that no    *)
(* fixture is installed more often than its rows and faults explain, and   *)
(* that nobody waits for a lock in a circle.                               *)
(***************************************************************************)
EXTENDS DataDeployment, TLAPS

Deployers == {Engine, Container}
Copying == {"files", "create", "persist"}
Installing == {"find", "deploy", "delete"}

\* A user does nothing but upload.
UsersUpload == \A u \in Users : pc[u] \in {"idle", "create", "persist", "done"}

\* The deployer's lock: who writes is alone, who copies writes, who installs reads or
\* writes, and the container's thread, which got the lock in activate() or addListener(),
\* keeps it.
LockIsHeld ==
  /\ deployerWriter # NoThread => deployerReaders \subseteq {deployerWriter}
  /\ \A t \in Deployers :
       /\ pc[t] \in Copying => deployerWriter = t
       /\ pc[t] \in Installing => t \in deployerReaders \/ deployerWriter = t
  /\ pc[Container] \in {"check", "register", "notify", "closing"} \cup Installing => deployerWriter = Container

\* A file that is not to be looked at any more was written, or could not be read.
LookedAt(f) == writes[f] > 0 \/ f \in skipped
FilesAreLookedAt ==
  \A f \in Files :
    /\ row[f] > 0 => writes[f] > 0
    /\ didDeploy => LookedAt(f)
    /\ \A t \in Deployers :
         /\ pc[t] = "files" => f \in todo[t] \/ LookedAt(f)
         /\ pc[t] \in {"create", "persist"} => f \in todo[t] \cup {cur[t]} \/ LookedAt(f)
         /\ pc[t] \in {"notify"} \cup Installing => LookedAt(f)

\* Rows of the initial fixture that may still be installed: one under installation counts
\* until it is installed, though others may have deleted it, and then not any more, though
\* it is deleted later.
At(label) == \E t \in Deployers : pc[t] = label
Installable ==
  IF At("delete") THEN IF row[Initial] > 0 THEN row[Initial] - 1 ELSE 0
  ELSE IF At("deploy") /\ row[Initial] = 0 THEN 1 ELSE row[Initial]

Faults == failures + stops
InstallationsAreCounted ==
  /\ installs[Initial] + Installable <= writes[Initial] + Faults
  /\ \A f \in Files \ {Initial} : installs[f] <= writes[f] + Faults

DeploymentInvariant == UsersUpload /\ LockIsHeld /\ FilesAreLookedAt /\ InstallationsAreCounted
-----------------------------------------------------------------------------
(* Types *)

\* The steps every thread, a deploying thread, and the container's thread may take.
StoreSteps(t) == LookUp(t) \/ StoreRow(t) \/ StoreFails(t)
DeployerSteps(t) ==
  \/ EnterInsert(t) \/ \E f \in Files : LookAt(t, f) \/ SkipUnreadable(t, f)
  \/ FinishInsert(t) \/ EnterNotify(t) \/ FindInitial(t) \/ DeployInitial(t)
  \/ DeleteInitial(t) \/ InstallFails(t) \/ Leave(t)
ContainerSteps ==
  \/ ActivateDeployer \/ CheckReady \/ RegisterInserter \/ AttachToStore \/ AttachToDeployer
  \/ StopInstaller \/ DetachInstaller \/ EnterDeactivate \/ DeactivateDeployer
OtherSteps ==
  \/ DeploySchema \/ SchemaDeployed \/ Restart \/ RemoveContent \/ UNCHANGED vars
  \/ \E f \in Files : DeleteRow(f) \/ TouchFile(f)
  \/ \E u \in Users, f \in Files : Upload(u, f)

\* Every step is one of them.
LEMMA StepsAre ==
  ASSUME [Next]_vars
  PROVE  \/ \E t \in Threads : StoreSteps(t)
         \/ \E t \in Deployers : DeployerSteps(t)
         \/ ContainerSteps \/ OtherSteps
BY DEF Next, EngineStep, ContainerStep, InsertStep, Terminated, StoreSteps, DeployerSteps,
       ContainerSteps, OtherSteps, Deployers, Threads

\* Who a thread is.
LEMMA Kinds ==
  /\ Deployers = {Engine, Container} /\ Deployers \subseteq Threads /\ Users \subseteq Threads
  /\ Engine # Container /\ NoThread \notin Threads
  /\ \A t \in Deployers : t \notin Users
  /\ Threads = Deployers \cup Users
BY ThreadAssumption DEF ThreadAssumption, Threads, Deployers

\* The initial state has the declared types.
LEMMA TypeInit == Init => TypeOK
<1> SUFFICES ASSUME Init PROVE TypeOK OBVIOUS
<1>1. edits \in 0 .. MaxEdits /\ failures \in 0 .. MaxFailures /\ stops \in 0 .. MaxStops
  BY BoundAssumption DEF Init, BoundAssumption
<1>2. cur \in [Threads -> Files]
  BY FileAssumption DEF Init, FileAssumption
<1> QED BY <1>1, <1>2 DEF Init, TypeOK

\* Steps at the store keep the types.
LEMMA TypeOfStoreSteps ==
  ASSUME TypeOK, NEW t \in Threads, StoreSteps(t)
  PROVE  TypeOK'
<1> USE Kinds, FileAssumption, BoundAssumption
    DEF TypeOK, Goto, rows, listeners, deployerLock, locals, history, bounds, FileAssumption,
        BoundAssumption
<1>1. CASE LookUp(t)
  BY <1>1 DEF LookUp
<1>2. CASE StoreRow(t)
  BY <1>2 DEF StoreRow, Forget, TellStoreListeners, Fail
<1>3. CASE StoreFails(t)
  BY <1>3 DEF StoreFails, Forget, Fail
<1> QED BY <1>1, <1>2, <1>3 DEF StoreSteps

\* So do the steps of insertData() and installFixture().
LEMMA TypeOfDeployerSteps ==
  ASSUME TypeOK, NEW t \in Deployers, DeployerSteps(t)
  PROVE  TypeOK'
<1> USE Kinds, FileAssumption, BoundAssumption
    DEF TypeOK, Goto, rows, listeners, deployerLock, locals, history, bounds, FileAssumption,
        BoundAssumption
<1>1. CASE EnterInsert(t) BY <1>1 DEF EnterInsert
<1>2. ASSUME NEW f \in Files, LookAt(t, f) PROVE TypeOK'
  <2>1. cur' \in [Threads -> Files]
    BY <1>2 DEF LookAt
  <2>2. found' \in [Threads -> BOOLEAN]
    <3> DEFINE there == row[f] > 0
    <3>1. found' = found \/ found' = [found EXCEPT ![t] = there]
      BY <1>2 DEF LookAt
    <3>2. there \in BOOLEAN
      OBVIOUS
    <3> HIDE DEF there
    <3>3. found \in [Threads -> BOOLEAN] /\ t \in Threads
      OBVIOUS
    <3> QED BY <3>1, <3>2, <3>3
  <2>3. \E l \in {"create", "persist", "files"} : pc' = [pc EXCEPT ![t] = l]
    BY <1>2 DEF LookAt
  <2> QED BY <1>2, <2>1, <2>2, <2>3 DEF LookAt
<1>3. CASE FinishInsert(t) BY <1>3 DEF FinishInsert
<1>4. CASE EnterNotify(t) BY <1>4 DEF EnterNotify
<1>5. CASE FindInitial(t) BY <1>5 DEF FindInitial
<1>6. CASE DeployInitial(t) BY <1>6 DEF DeployInitial
<1>7. CASE DeleteInitial(t) BY <1>7 DEF DeleteInitial
<1>8. CASE InstallFails(t) BY <1>8 DEF InstallFails, Fail
<1>9. CASE Leave(t) BY <1>9 DEF Leave
<1>10. ASSUME NEW f \in Files, SkipUnreadable(t, f) PROVE TypeOK'
  BY <1>10 DEF SkipUnreadable, Edit
<1> QED BY <1>1, <1>2, <1>3, <1>4, <1>5, <1>6, <1>7, <1>8, <1>9, <1>10 DEF DeployerSteps

\* So do the container's.
LEMMA TypeOfContainerSteps ==
  ASSUME TypeOK, ContainerSteps
  PROVE  TypeOK'
<1> USE Kinds, BoundAssumption
    DEF TypeOK, Goto, rows, listeners, deployerLock, locals, history, bounds, BoundAssumption
<1>1. CASE ActivateDeployer BY <1>1 DEF ActivateDeployer
<1>2. CASE CheckReady BY <1>2 DEF CheckReady
<1>3. CASE RegisterInserter BY <1>3 DEF RegisterInserter
<1>4. CASE AttachToStore BY <1>4 DEF AttachToStore
<1>5. CASE AttachToDeployer BY <1>5 DEF AttachToDeployer
<1>6. CASE StopInstaller
  <2>1. stops' \in 0 .. MaxStops
    BY <1>6 DEF StopInstaller
  <2> QED BY <1>6, <2>1 DEF StopInstaller
<1>7. CASE DetachInstaller BY <1>7 DEF DetachInstaller
<1>8. CASE EnterDeactivate BY <1>8 DEF EnterDeactivate
<1>9. CASE DeactivateDeployer BY <1>9 DEF DeactivateDeployer
<1> QED BY <1>1, <1>2, <1>3, <1>4, <1>5, <1>6, <1>7, <1>8, <1>9 DEF ContainerSteps

\* And the rest.
LEMMA TypeOfOtherSteps ==
  ASSUME TypeOK, OtherSteps
  PROVE  TypeOK'
<1> USE Kinds, FileAssumption, BoundAssumption
    DEF TypeOK, Goto, rows, listeners, deployerLock, locals, history, bounds, FileAssumption,
        BoundAssumption
<1>1. CASE DeploySchema BY <1>1 DEF DeploySchema
<1>2. CASE SchemaDeployed BY <1>2 DEF SchemaDeployed
<1>3. CASE Restart
  <2>1. stops' \in 0 .. MaxStops
    BY <1>3 DEF Restart
  <2>2. pc' \in [Threads -> {"idle", "done"}] /\ cur' \in [Threads -> Files]
    BY <1>3 DEF Restart
  <2> QED BY <1>3, <2>1, <2>2 DEF Restart
<1>4. CASE RemoveContent BY <1>4 DEF RemoveContent
<1>5. CASE UNCHANGED vars BY <1>5 DEF vars
<1>6. ASSUME NEW f \in Files, DeleteRow(f) PROVE TypeOK' BY <1>6 DEF DeleteRow, Edit
<1>7. ASSUME NEW f \in Files, TouchFile(f) PROVE TypeOK' BY <1>7 DEF TouchFile, Edit
<1>8. ASSUME NEW u \in Users, NEW f \in Files, Upload(u, f) PROVE TypeOK' BY <1>8 DEF Upload
<1> QED BY <1>1, <1>2, <1>3, <1>4, <1>5, <1>6, <1>7, <1>8 DEF OtherSteps

\* Every step keeps the types.
LEMMA TypeStep == TypeOK /\ [Next]_vars => TypeOK'
BY StepsAre, TypeOfStoreSteps, TypeOfDeployerSteps, TypeOfContainerSteps, TypeOfOtherSteps

\* In every reachable state, for any files, users and bounds, the locks and lists hold whom
\* the code can put there, and no number of rows drops below zero.
THEOREM TypeCorrect == Spec => []TypeOK
BY TypeInit, TypeStep, PTL DEF Spec
-----------------------------------------------------------------------------
(* The deployer's lock *)

\* At first nobody holds it.
LEMMA LocksInit == Init => UsersUpload /\ LockIsHeld
BY Kinds DEF Init, UsersUpload, LockIsHeld, Copying, Installing

\* Threads that write a row keep the lock they hold, unless the container's gives up.
LEMMA LocksOfStoreSteps ==
  ASSUME TypeOK, UsersUpload, LockIsHeld, NEW t \in Threads, StoreSteps(t)
  PROVE  UsersUpload' /\ LockIsHeld'
<1> USE Kinds DEF TypeOK, UsersUpload, LockIsHeld, Copying, Installing, Goto, deployerLock
<1>1. CASE LookUp(t) BY <1>1 DEF LookUp
<1>2. CASE StoreRow(t) BY <1>2 DEF StoreRow
<1>3. CASE StoreFails(t) BY <1>3 DEF StoreFails
<1> QED BY <1>1, <1>2, <1>3 DEF StoreSteps

\* The steps of insertData() and installFixture() take and release it in order.
LEMMA LocksOfDeployerSteps ==
  ASSUME TypeOK, UsersUpload, LockIsHeld, NEW t \in Deployers, DeployerSteps(t)
  PROVE  UsersUpload' /\ LockIsHeld'
<1> USE Kinds DEF TypeOK, UsersUpload, LockIsHeld, Copying, Installing, Goto, deployerLock
<1>1. CASE EnterInsert(t) BY <1>1 DEF EnterInsert, MayWrite
<1>2. ASSUME NEW f \in Files, LookAt(t, f) PROVE UsersUpload' /\ LockIsHeld' BY <1>2 DEF LookAt
<1>3. CASE FinishInsert(t) BY <1>3 DEF FinishInsert
<1>4. CASE EnterNotify(t) BY <1>4 DEF EnterNotify, MayRead
<1>5. CASE FindInitial(t) BY <1>5 DEF FindInitial
<1>6. CASE DeployInitial(t) \/ DeleteInitial(t) \/ InstallFails(t)
  BY <1>6 DEF DeployInitial, DeleteInitial, InstallFails
<1>7. CASE Leave(t) BY <1>7 DEF Leave
<1>8. ASSUME NEW f \in Files, SkipUnreadable(t, f) PROVE UsersUpload' /\ LockIsHeld'
  BY <1>8 DEF SkipUnreadable
<1> QED BY <1>1, <1>2, <1>3, <1>4, <1>5, <1>6, <1>7, <1>8 DEF DeployerSteps

\* The container takes it in activate() and addListener(), if nobody else has it.
LEMMA LocksOfContainerSteps ==
  ASSUME TypeOK, UsersUpload, LockIsHeld, ContainerSteps
  PROVE  UsersUpload' /\ LockIsHeld'
<1> USE Kinds DEF TypeOK, UsersUpload, LockIsHeld, Copying, Installing, Goto, deployerLock, MayWrite
<1>1. CASE ActivateDeployer BY <1>1 DEF ActivateDeployer
<1>2. CASE CheckReady BY <1>2 DEF CheckReady
<1>3. CASE RegisterInserter BY <1>3 DEF RegisterInserter
<1>4. CASE AttachToStore BY <1>4 DEF AttachToStore
<1>5. CASE AttachToDeployer BY <1>5 DEF AttachToDeployer
<1>6. CASE StopInstaller \/ DetachInstaller \/ EnterDeactivate \/ DeactivateDeployer
  BY <1>6 DEF StopInstaller, DetachInstaller, EnterDeactivate, DeactivateDeployer, MayWrite
<1> QED BY <1>1, <1>2, <1>3, <1>4, <1>5, <1>6 DEF ContainerSteps

\* A restart forgets it, and other steps do not touch it.
LEMMA LocksOfOtherSteps ==
  ASSUME TypeOK, UsersUpload, LockIsHeld, OtherSteps
  PROVE  UsersUpload' /\ LockIsHeld'
<1> USE Kinds DEF TypeOK, UsersUpload, LockIsHeld, Copying, Installing, Goto, deployerLock
<1>1. CASE DeploySchema \/ SchemaDeployed BY <1>1 DEF DeploySchema, SchemaDeployed
<1>2. CASE Restart BY <1>2 DEF Restart
<1>3. CASE RemoveContent \/ UNCHANGED vars BY <1>3 DEF RemoveContent, vars
<1>4. ASSUME NEW f \in Files, DeleteRow(f) \/ TouchFile(f) PROVE UsersUpload' /\ LockIsHeld'
  BY <1>4 DEF DeleteRow, TouchFile
<1>5. ASSUME NEW u \in Users, NEW f \in Files, Upload(u, f) PROVE UsersUpload' /\ LockIsHeld'
  BY <1>5 DEF Upload
<1> QED BY <1>1, <1>2, <1>3, <1>4, <1>5 DEF OtherSteps

\* Every step keeps the lock's order.
LEMMA LocksStep == TypeOK /\ UsersUpload /\ LockIsHeld /\ [Next]_vars => UsersUpload' /\ LockIsHeld'
BY StepsAre, LocksOfStoreSteps, LocksOfDeployerSteps, LocksOfContainerSteps, LocksOfOtherSteps

\* Who installs is alone: the lock lets the two threads neither copy nor install meanwhile.
LEMMA OneInstaller ==
  ASSUME LockIsHeld, TypeOK, NEW t \in Deployers, pc[t] \in Installing
  PROVE  \A u \in Deployers : pc[u] \in Copying \cup Installing => u = t
BY Kinds DEF LockIsHeld, Copying, Installing, TypeOK
-----------------------------------------------------------------------------
(* Files are copied before anything is installed *)

\* At first there is no row, and nobody says that files were deployed.
LEMMA FilesInit == Init => FilesAreLookedAt
BY DEF Init, FilesAreLookedAt, LookedAt, Installing, Deployers, Threads

\* A file that was looked at, and could be opened, is stored.
LEMMA FilesOfStoreSteps ==
  ASSUME TypeOK, UsersUpload, FilesAreLookedAt, NEW t \in Threads, StoreSteps(t)
  PROVE  FilesAreLookedAt'
<1> USE Kinds
    DEF TypeOK, FilesAreLookedAt, LookedAt, Installing, Goto, rows, history, locals, UsersUpload
<1>1. CASE LookUp(t) BY <1>1 DEF LookUp
<1>2. CASE StoreRow(t) BY <1>2 DEF StoreRow, Forget
<1>3. CASE StoreFails(t) BY <1>3 DEF StoreFails, Forget
<1> QED BY <1>1, <1>2, <1>3 DEF StoreSteps

\* insertData() leaves out no file that can be read, and ends when all were looked at.
LEMMA FilesOfDeployerSteps ==
  ASSUME TypeOK, FilesAreLookedAt, NEW t \in Deployers, DeployerSteps(t)
  PROVE  FilesAreLookedAt'
<1> USE Kinds DEF TypeOK, FilesAreLookedAt, LookedAt, Installing, Goto, rows, history, locals
<1>1. CASE EnterInsert(t) BY <1>1 DEF EnterInsert
<1>2. ASSUME NEW f \in Files, LookAt(t, f) PROVE FilesAreLookedAt'
  BY <1>2 DEF LookAt, Outdated
<1>3. CASE FinishInsert(t) BY <1>3 DEF FinishInsert
<1>4. CASE EnterNotify(t) BY <1>4 DEF EnterNotify
<1>5. CASE FindInitial(t) BY <1>5 DEF FindInitial
<1>6. CASE DeployInitial(t) BY <1>6 DEF DeployInitial
<1>7. CASE DeleteInitial(t) BY <1>7, FileAssumption DEF DeleteInitial, FileAssumption
<1>8. CASE InstallFails(t) \/ Leave(t) BY <1>8 DEF InstallFails, Leave
<1>9. ASSUME NEW f \in Files, SkipUnreadable(t, f) PROVE FilesAreLookedAt'
  BY <1>9 DEF SkipUnreadable
<1> QED BY <1>1, <1>2, <1>3, <1>4, <1>5, <1>6, <1>7, <1>8, <1>9 DEF DeployerSteps

\* A late listener is called at once only if everything was deployed.
LEMMA FilesOfContainerSteps ==
  ASSUME TypeOK, FilesAreLookedAt, ContainerSteps
  PROVE  FilesAreLookedAt'
<1> USE Kinds DEF TypeOK, FilesAreLookedAt, LookedAt, Installing, Goto, rows, history, locals
<1>1. CASE ActivateDeployer \/ CheckReady \/ RegisterInserter
  BY <1>1 DEF ActivateDeployer, CheckReady, RegisterInserter
<1>2. CASE AttachToStore BY <1>2 DEF AttachToStore
<1>3. CASE AttachToDeployer BY <1>3 DEF AttachToDeployer
<1>4. CASE StopInstaller \/ DetachInstaller \/ EnterDeactivate \/ DeactivateDeployer
  BY <1>4 DEF StopInstaller, DetachInstaller, EnterDeactivate, DeactivateDeployer
<1> QED BY <1>1, <1>2, <1>3, <1>4 DEF ContainerSteps

\* What was stored was, though its row may be deleted; a restart forgets what was left out.
LEMMA FilesOfOtherSteps ==
  ASSUME TypeOK, FilesAreLookedAt, OtherSteps
  PROVE  FilesAreLookedAt'
<1> USE Kinds DEF TypeOK, FilesAreLookedAt, LookedAt, Installing, Goto, rows, history, locals
<1>1. CASE DeploySchema \/ SchemaDeployed BY <1>1 DEF DeploySchema, SchemaDeployed
<1>2. CASE Restart BY <1>2 DEF Restart
<1>3. CASE RemoveContent \/ UNCHANGED vars BY <1>3 DEF RemoveContent, vars
<1>4. ASSUME NEW f \in Files, DeleteRow(f) \/ TouchFile(f) PROVE FilesAreLookedAt'
  BY <1>4 DEF DeleteRow, TouchFile
<1>5. ASSUME NEW u \in Users, NEW f \in Files, Upload(u, f) PROVE FilesAreLookedAt'
  BY <1>5 DEF Upload
<1> QED BY <1>1, <1>2, <1>3, <1>4, <1>5 DEF OtherSteps

\* Every step keeps the order of writing and installing.
LEMMA FilesStep == TypeOK /\ UsersUpload /\ FilesAreLookedAt /\ [Next]_vars => FilesAreLookedAt'
BY StepsAre, FilesOfStoreSteps, FilesOfDeployerSteps, FilesOfContainerSteps, FilesOfOtherSteps

\* The initial fixture is looked for and installed only when every file was stored or could
\* not be read, by whichever thread, and while neither thread copies files.
THEOREM InstallationFollowsDeployment == Spec => []InstalledAfterDeployment
<1>1. TypeOK /\ LockIsHeld /\ FilesAreLookedAt => InstalledAfterDeployment
  BY OneInstaller
  DEF InstalledAfterDeployment, FilesAreLookedAt, LookedAt, Installing, Copying, Deployers
<1> QED BY <1>1, TypeInit, TypeStep, LocksInit, LocksStep, FilesInit, FilesStep, PTL DEF Spec
-----------------------------------------------------------------------------
(* Installations are counted *)

\* Sums of faults are numbers.
LEMMA SumIsNatural == \A a, b \in Nat : a + b \in Nat
OBVIOUS

\* The numbers that are compared.
LEMMA CountsAreNumbers ==
  ASSUME TypeOK
  PROVE  /\ Initial \in Files /\ Fixtures \subseteq Files \ {Initial}
         /\ row \in [Files -> Nat] /\ writes \in [Files -> Nat] /\ installs \in [Files -> Nat]
         /\ failures \in Nat /\ stops \in Nat /\ Faults \in Nat /\ Installable \in Nat
<1>1. failures \in Nat /\ stops \in Nat
  BY BoundAssumption DEF TypeOK, BoundAssumption
<1>2. Initial \in Files /\ row[Initial] \in Nat
  BY FileAssumption DEF TypeOK, FileAssumption
<1>3. Installable \in Nat
  BY <1>2 DEF Installable
<1> QED BY <1>1, <1>2, <1>3, FileAssumption DEF TypeOK, FileAssumption, Faults

\* Steps that neither write, install nor delete.
LEMMA CountsStay ==
  ASSUME TypeOK, TypeOK', InstallationsAreCounted, UNCHANGED <<row, writes, installs>>,
         Installable' = Installable, Faults' >= Faults
  PROVE  InstallationsAreCounted'
<1>1. /\ Faults \in Nat /\ Installable \in Nat /\ Initial \in Files
      /\ \A f \in Files : installs[f] \in Nat /\ writes[f] \in Nat
  BY CountsAreNumbers
<1>2. Faults' \in Nat
  <2>1. failures' \in Nat /\ stops' \in Nat
    BY BoundAssumption DEF TypeOK, BoundAssumption
  <2> QED BY <2>1, SumIsNatural DEF Faults
<1> QED BY <1>1, <1>2 DEF InstallationsAreCounted

\* A thread that does not come to or from the installation leaves it as it is.
LEMMA InstallationGoesOn ==
  ASSUME TypeOK, NEW t \in Threads, NEW label, pc' = [pc EXCEPT ![t] = label],
         t \in Users \/ {pc[t], label} \cap {"deploy", "delete"} = {}
  PROVE  At("deploy")' = At("deploy") /\ At("delete")' = At("delete")
BY Kinds DEF TypeOK, At

\* A failure or a stop is one more fault.
LEMMA FaultsGrow ==
  ASSUME TypeOK, Fail \/ UNCHANGED bounds
  PROVE  /\ Faults \in Nat /\ Faults' \in Nat
         /\ Faults' = IF failures' = failures THEN Faults ELSE Faults + 1
         /\ Faults' >= Faults
<1>1. failures \in Nat /\ stops \in Nat
  BY BoundAssumption DEF TypeOK, BoundAssumption
<1> QED BY <1>1 DEF Fail, bounds, Faults

\* Each write allows one more installation: of the initial fixture by its row, of another
\* one by the listener that is told.
LEMMA CountsOfStoreRow ==
  ASSUME TypeOK, TypeOK', InstallationsAreCounted, NEW t \in Threads, UsersUpload, StoreRow(t)
  PROVE  InstallationsAreCounted'
<1> DEFINE f == cur[t]
<1>1. /\ f \in Files
      /\ row' = [row EXCEPT ![f] = IF found[t] THEN @ ELSE @ + 1]
      /\ writes' = [writes EXCEPT ![f] = @ + 1]
      /\ \/ f \in Fixtures /\ installs' = [installs EXCEPT ![f] = @ + 1]
         \/ UNCHANGED installs
      /\ Fail \/ UNCHANGED bounds
  BY DEF TypeOK, StoreRow, TellStoreListeners
<1> HIDE DEF f
<1>2. /\ Initial \in Files /\ Fixtures \subseteq Files \ {Initial}
      /\ row \in [Files -> Nat] /\ writes \in [Files -> Nat] /\ installs \in [Files -> Nat]
      /\ Faults \in Nat /\ Faults' \in Nat /\ Faults' >= Faults /\ Installable \in Nat
  BY <1>1, CountsAreNumbers, FaultsGrow
<1>3. At("deploy")' = At("deploy") /\ At("delete")' = At("delete")
  BY InstallationGoesOn DEF StoreRow, Goto
<1>4. ASSUME NEW g \in Files, g # Initial PROVE installs'[g] <= writes'[g] + Faults'
  <2>1. installs[g] <= writes[g] + Faults
    BY <1>4 DEF InstallationsAreCounted
  <2> QED BY <1>1, <1>2, <2>1
<1>5. Installable' \in Nat /\ installs'[Initial] + Installable' <= writes'[Initial] + Faults'
  <2>1. installs[Initial] + Installable <= writes[Initial] + Faults
    BY DEF InstallationsAreCounted
  <2>2. UNCHANGED installs[Initial]
    BY <1>1, <1>2
  <2>3. CASE row'[Initial] = row[Initial]
    <3>1. Installable' = Installable BY <1>3, <2>3 DEF Installable
    <3>2. writes'[Initial] \in {writes[Initial], writes[Initial] + 1} BY <1>1, <1>2
    <3> QED BY <1>2, <2>1, <2>2, <3>1, <3>2
  <2>4. CASE row'[Initial] = row[Initial] + 1 /\ writes'[Initial] = writes[Initial] + 1
    <3>1. Installable' \in {Installable, Installable + 1} BY <1>2, <1>3, <2>4 DEF Installable
    <3> QED BY <1>2, <2>1, <2>2, <2>4, <3>1
  <2> QED BY <1>1, <1>2, <2>3, <2>4
<1> QED BY <1>4, <1>5 DEF InstallationsAreCounted

\* The steps of an installation: what is installed has a row that is then deleted, unless
\* somebody else has done so, or something failed.
LEMMA CountsOfInstaller ==
  ASSUME TypeOK, TypeOK', InstallationsAreCounted, LockIsHeld, NEW t \in Deployers,
         FindInitial(t) \/ DeployInitial(t) \/ DeleteInitial(t) \/ InstallFails(t)
  PROVE  InstallationsAreCounted'
<1>1. /\ Initial \in Files /\ t \in Threads
      /\ row \in [Files -> Nat] /\ writes \in [Files -> Nat] /\ installs \in [Files -> Nat]
      /\ Faults \in Nat /\ Installable \in Nat
  BY CountsAreNumbers, Kinds
<1>2. pc[t] \in {"find", "deploy", "delete"} /\ \A u \in Deployers : u # t => pc[u] \notin Installing
  BY OneInstaller DEF FindInitial, DeployInitial, DeleteInitial, InstallFails, Goto, Installing
<1>3. \E l \in {"deploy", "delete", "leave"} : pc' = [pc EXCEPT ![t] = l]
  BY DEF FindInitial, DeployInitial, DeleteInitial, InstallFails, Goto
<1>4. /\ \A l \in {"deploy", "delete"} : At(l) <=> pc[t] = l
      /\ \A l \in {"deploy", "delete"} : At(l)' <=> pc'[t] = l
  BY <1>1, <1>2, <1>3, Kinds DEF At, Installing, TypeOK
<1>5. /\ installs[Initial] + Installable <= writes[Initial] + Faults
      /\ \A f \in Files \ {Initial} : installs[f] <= writes[f] + Faults
  BY DEF InstallationsAreCounted
<1> USE DEF Installable, rows, history, bounds, Goto, TypeOK, Faults
<1>6. CASE FindInitial(t)
  BY <1>1, <1>4, <1>5, <1>6 DEF FindInitial, InstallationsAreCounted
<1>7. CASE DeployInitial(t)
  BY <1>1, <1>4, <1>5, <1>7 DEF DeployInitial, InstallationsAreCounted
<1>8. CASE DeleteInitial(t)
  BY <1>1, <1>4, <1>5, <1>8 DEF DeleteInitial, InstallationsAreCounted
<1>9. CASE InstallFails(t)
  BY <1>1, <1>4, <1>5, <1>9 DEF InstallFails, Fail, InstallationsAreCounted
<1> QED BY <1>6, <1>7, <1>8, <1>9

\* Rows may be deleted by others, even one that is under installation.
LEMMA CountsOfDeleteRow ==
  ASSUME TypeOK, TypeOK', InstallationsAreCounted, NEW f \in Files, DeleteRow(f)
  PROVE  InstallationsAreCounted'
<1>1. /\ Initial \in Files /\ row \in [Files -> Nat] /\ writes \in [Files -> Nat]
      /\ installs \in [Files -> Nat] /\ Faults \in Nat /\ Installable \in Nat
  BY CountsAreNumbers
<1>2. /\ row[f] > 0 /\ row' = [row EXCEPT ![f] = @ - 1]
      /\ UNCHANGED <<installs, writes, failures, stops, pc>>
  BY DEF DeleteRow, Edit, history
<1>3. Faults' = Faults /\ At("deploy")' = At("deploy") /\ At("delete")' = At("delete")
  BY <1>2 DEF Faults, At
<1>4. Installable' \in Nat /\ Installable' <= Installable
  BY <1>1, <1>2, <1>3 DEF Installable
<1> QED BY <1>1, <1>2, <1>3, <1>4 DEF InstallationsAreCounted

\* A restart ends an installation that had not deleted its row, and is a fault.
LEMMA CountsOfRestart ==
  ASSUME TypeOK, TypeOK', InstallationsAreCounted, Restart
  PROVE  InstallationsAreCounted'
<1>1. /\ Initial \in Files /\ row \in [Files -> Nat] /\ writes \in [Files -> Nat]
      /\ installs \in [Files -> Nat] /\ Faults \in Nat /\ Installable \in Nat
  BY CountsAreNumbers
<1>2. UNCHANGED <<row, writes, installs, failures>> /\ stops' = stops + 1
  BY DEF Restart, rows
<1>3. Faults' = Faults + 1
  <2>1. failures \in Nat /\ stops \in Nat
    BY CountsAreNumbers
  <2> QED BY <1>2, <2>1 DEF Faults
<1>4. ~At("deploy")' /\ ~At("delete")'
  BY Kinds DEF Restart, At
<1>5. Installable' = row[Initial] /\ row[Initial] <= Installable + 1
  BY <1>1, <1>2, <1>4 DEF Installable
<1> QED BY <1>1, <1>2, <1>3, <1>5 DEF InstallationsAreCounted

\* All other steps leave rows and installations alone, and do not undo a fault.
LEMMA CountsOfTheRest ==
  ASSUME TypeOK, TypeOK', InstallationsAreCounted, UsersUpload,
         \/ \E t \in Threads : LookUp(t) \/ StoreFails(t)
         \/ \E t \in Deployers : \/ EnterInsert(t) \/ \E f \in Files : LookAt(t, f) \/ SkipUnreadable(t, f)
                                 \/ FinishInsert(t) \/ EnterNotify(t) \/ Leave(t)
         \/ ContainerSteps \/ DeploySchema \/ SchemaDeployed \/ RemoveContent \/ UNCHANGED vars
         \/ \E f \in Files : TouchFile(f)
         \/ \E u \in Users, f \in Files : Upload(u, f)
  PROVE  InstallationsAreCounted'
<1> DEFINE Kept == UNCHANGED <<row, writes, installs>>
           More == Faults' >= Faults
           Same == At("deploy")' = At("deploy") /\ At("delete")' = At("delete")
<1>0. failures \in Nat /\ stops \in Nat /\ Faults \in Nat
  BY CountsAreNumbers
<1>1. ASSUME Kept, More, Same PROVE InstallationsAreCounted'
  <2>1. Installable' = Installable BY <1>1 DEF Installable
  <2> QED BY <1>1, <2>1, CountsStay
<1> HIDE DEF Kept, More, Same
<1>2. ASSUME UNCHANGED <<failures, stops>> PROVE More
  BY <1>0, <1>2 DEF More, Faults
<1>3. ASSUME Fail PROVE More
  BY <1>3, FaultsGrow DEF More
<1>4. ASSUME NEW t \in Threads, LookUp(t) \/ StoreFails(t) PROVE InstallationsAreCounted'
  <2>1. Kept /\ More
    BY <1>2, <1>3, <1>4 DEF LookUp, StoreFails, Kept, rows, history, bounds
  <2>2. Same
    BY <1>4, InstallationGoesOn DEF LookUp, StoreFails, Goto, Same
  <2> QED BY <1>1, <2>1, <2>2
<1>5. ASSUME NEW t \in Deployers, EnterInsert(t) \/ FinishInsert(t) \/ EnterNotify(t) \/ Leave(t)
      PROVE  InstallationsAreCounted'
  <2>1. Kept /\ More
    BY <1>2, <1>5 DEF EnterInsert, FinishInsert, EnterNotify, Leave, Kept, rows, history, bounds
  <2>2. Same
    BY <1>5, Kinds, InstallationGoesOn
    DEF EnterInsert, FinishInsert, EnterNotify, Leave, Goto, Same
  <2> QED BY <1>1, <2>1, <2>2
<1>6. ASSUME NEW t \in Deployers, NEW f \in Files, LookAt(t, f) PROVE InstallationsAreCounted'
  <2>1. Kept /\ More
    BY <1>2, <1>6 DEF LookAt, Kept, rows, history, bounds
  <2>2. Same
    <3>1. PICK l \in {"create", "persist", "files"} : pc' = [pc EXCEPT ![t] = l]
      BY <1>6 DEF LookAt
    <3>2. t \in Threads /\ {pc[t], l} \cap {"deploy", "delete"} = {}
      BY <1>6, Kinds DEF LookAt
    <3> QED BY <3>1, <3>2, InstallationGoesOn DEF Same
  <2> QED BY <1>1, <2>1, <2>2
<1>7. CASE ContainerSteps
  <2>1. Kept
    BY <1>7
    DEF ContainerSteps, ActivateDeployer, CheckReady, RegisterInserter, AttachToStore,
        AttachToDeployer, StopInstaller, DetachInstaller, EnterDeactivate,
        DeactivateDeployer, Kept, rows, history
  <2>2. More
    <3>1. UNCHANGED <<failures, stops>> \/ (failures' = failures /\ stops' = stops + 1)
      BY <1>7
      DEF ContainerSteps, ActivateDeployer, CheckReady, RegisterInserter, AttachToStore,
          AttachToDeployer, StopInstaller, DetachInstaller, EnterDeactivate,
        DeactivateDeployer, bounds
    <3> QED BY <1>0, <1>2, <3>1 DEF More, Faults
  <2>3. Same
    BY <1>7, Kinds, InstallationGoesOn
    DEF ContainerSteps, ActivateDeployer, CheckReady, RegisterInserter, AttachToStore,
        AttachToDeployer, StopInstaller, DetachInstaller, EnterDeactivate,
        DeactivateDeployer, Goto, Same
  <2> QED BY <1>1, <2>1, <2>2, <2>3
<1>8. CASE DeploySchema \/ SchemaDeployed
  <2>1. Kept /\ More
    BY <1>2, <1>8 DEF DeploySchema, SchemaDeployed, Kept, rows, history, bounds
  <2>2. Same
    BY <1>8, Kinds, InstallationGoesOn DEF DeploySchema, SchemaDeployed, Goto, Same, Deployers
  <2> QED BY <1>1, <2>1, <2>2
<1>9. CASE RemoveContent \/ UNCHANGED vars \/ \E f \in Files : TouchFile(f)
  <2>1. Kept /\ More /\ UNCHANGED pc
    BY <1>2, <1>9 DEF RemoveContent, vars, TouchFile, Edit, Kept, rows, history, bounds
  <2>2. Same
    BY <2>1 DEF Same, At
  <2> QED BY <1>1, <2>1, <2>2
<1>10. ASSUME NEW u \in Users, NEW f \in Files, Upload(u, f) PROVE InstallationsAreCounted'
  <2>1. Kept /\ More
    BY <1>2, <1>10 DEF Upload, Kept, rows, history, bounds
  <2>2. Same
    BY <1>10, Kinds, InstallationGoesOn DEF Upload, Goto, Same
  <2> QED BY <1>1, <2>1, <2>2
<1>11. ASSUME NEW t \in Deployers, NEW f \in Files, SkipUnreadable(t, f)
       PROVE  InstallationsAreCounted'
  <2>1. Kept /\ More /\ UNCHANGED pc
    BY <1>2, <1>11 DEF SkipUnreadable, Edit, Kept, rows
  <2>2. Same
    BY <2>1 DEF Same, At
  <2> QED BY <1>1, <2>1, <2>2
<1> QED BY <1>4, <1>5, <1>6, <1>7, <1>8, <1>9, <1>10, <1>11

\* Every step is one of those.
LEMMA CountsStep ==
  ASSUME TypeOK, TypeOK', UsersUpload, LockIsHeld, InstallationsAreCounted, [Next]_vars
  PROVE  InstallationsAreCounted'
BY StepsAre, CountsOfStoreRow, CountsOfInstaller, CountsOfDeleteRow, CountsOfRestart, CountsOfTheRest
DEF StoreSteps, DeployerSteps, OtherSteps

\* Nothing is installed in the beginning, and there is no row.
LEMMA CountsInit == Init => InstallationsAreCounted
BY FileAssumption DEF Init, InstallationsAreCounted, Installable, At, Faults, Deployers, Threads,
   FileAssumption

\* Although the deployer may call a listener that comes late twice, and whatever is uploaded,
\* deleted, stopped, restarted or fails meanwhile: no fixture is installed more often than
\* its row was written and faults repeat it.
THEOREM InstallationsHaveACause == Spec => []NothingInstalledTwice
<1>1. TypeOK /\ InstallationsAreCounted => NothingInstalledTwice
  <2> SUFFICES ASSUME TypeOK, InstallationsAreCounted, NEW f \in Files
               PROVE  installs[f] <= writes[f] + failures + stops
    BY DEF NothingInstalledTwice
  <2>1. /\ installs[f] \in Nat /\ writes[f] \in Nat /\ failures \in Nat /\ stops \in Nat
        /\ Installable \in Nat
    BY CountsAreNumbers
  <2>2. installs[f] <= writes[f] + Faults
    BY <2>1 DEF InstallationsAreCounted, Faults
  <2> QED BY <2>1, <2>2 DEF Faults
<1>2. TypeOK /\ TypeOK' /\ UsersUpload /\ LockIsHeld /\ InstallationsAreCounted /\ [Next]_vars
        => InstallationsAreCounted'
  BY CountsStep
<1> QED BY <1>1, <1>2, TypeInit, TypeStep, LocksInit, LocksStep, CountsInit, PTL DEF Spec
-----------------------------------------------------------------------------
(* No circle of locks *)

\* What a thread may wait for: the guards of its steps that ask for a lock.
Waits(t) ==
  \/ pc[t] = "insert" /\ ~MayWrite(t)
  \/ pc[t] = "notify" /\ ~MayRead(t)
  \/ t = Container /\ pc[t] \in {"idle", "attach", "stopped"} /\ ~MayWrite(t)
  \/ t = Container /\ pc[t] \in {"register", "up", "stopping", "closing"} /\ storeReaders # {}

\* Whoever waits, waits for a thread that is at work and does not wait itself; only when the
\* schema's deployment has called a deployer that is being deactivated, both wait.
WaitsEnd ==
  IF Crossed THEN \A t \in Deployers : Waits(t)
  ELSE \A t \in Deployers : Waits(t) =>
         \E u \in Deployers : pc[u] \notin {"idle", "done", "running", "failed"} /\ ~Waits(u)

Called == {"insert", "notify"} \cup Copying \cup Installing
Activating == {"check", "register", "leave", "closing"} \cup Called

\* Who has a lock, where: the engine's thread has the store's while it calls the listeners,
\* and calls the deployer only if that is one of them, which the container's thread, holding
\* the deployer's lock until then, has not yet made it.
LocksAreLeft ==
  /\ pc[Engine] \in {"idle", "available", "leave", "done"} \cup Called
  /\ storeReaders = IF pc[Engine] \in {"leave"} \cup Called THEN {Engine} ELSE {}
  /\ deployerWriter = Engine => pc[Engine] \in {"leave"} \cup Copying
  /\ deployerWriter = Container => pc[Container] \in Activating
  /\ \A t \in deployerReaders : pc[t] \in {"leave"} \cup Installing
  /\ pc[Engine] \in Called => Inserter \in storeListeners
  /\ pc[Container] \in {"idle", "check", "register"} => Inserter \notin storeListeners

\* The steps at the store keep that,
LEMMA LeftByStoreSteps ==
  ASSUME TypeOK, UsersUpload, LockIsHeld, LocksAreLeft, NEW t \in Threads, StoreSteps(t)
  PROVE  LocksAreLeft'
<1> USE Kinds DEF TypeOK, UsersUpload, LockIsHeld, LocksAreLeft, Called, Activating, Copying,
                  Installing, Goto, deployerLock, listeners
<1>1. CASE LookUp(t) BY <1>1 DEF LookUp
<1>2. CASE StoreRow(t) BY <1>2 DEF StoreRow
<1>3. CASE StoreFails(t) BY <1>3 DEF StoreFails
<1> QED BY <1>1, <1>2, <1>3 DEF StoreSteps

\* those of insertData() and installFixture(),
LEMMA LeftByDeployerSteps ==
  ASSUME TypeOK, UsersUpload, LockIsHeld, LocksAreLeft, NEW t \in Deployers, DeployerSteps(t)
  PROVE  LocksAreLeft'
<1> USE Kinds DEF TypeOK, UsersUpload, LockIsHeld, LocksAreLeft, Called, Activating, Copying,
                  Installing, Goto, deployerLock, listeners
<1>1. CASE EnterInsert(t) BY <1>1 DEF EnterInsert, MayWrite
<1>2. ASSUME NEW f \in Files, LookAt(t, f) PROVE LocksAreLeft' BY <1>2 DEF LookAt
<1>3. CASE FinishInsert(t) BY <1>3 DEF FinishInsert
<1>4. CASE EnterNotify(t) BY <1>4 DEF EnterNotify, MayRead
<1>5. CASE FindInitial(t) BY <1>5 DEF FindInitial
<1>6. CASE DeployInitial(t) BY <1>6 DEF DeployInitial
<1>7. CASE DeleteInitial(t) BY <1>7 DEF DeleteInitial
<1>8. CASE InstallFails(t) BY <1>8 DEF InstallFails
<1>9. CASE Leave(t) BY <1>9 DEF Leave
<1>10. ASSUME NEW f \in Files, SkipUnreadable(t, f) PROVE LocksAreLeft'
  BY <1>10 DEF SkipUnreadable
<1> QED BY <1>1, <1>2, <1>3, <1>4, <1>5, <1>6, <1>7, <1>8, <1>9, <1>10 DEF DeployerSteps

\* the container's, which changes the store's listeners only while nobody reads them,
LEMMA LeftByContainerSteps ==
  ASSUME TypeOK, UsersUpload, LockIsHeld, LocksAreLeft, ContainerSteps
  PROVE  LocksAreLeft'
<1> USE Kinds DEF TypeOK, UsersUpload, LockIsHeld, LocksAreLeft, Called, Activating, Copying,
                  Installing, Goto, deployerLock, listeners, Installer, Inserter
<1>1. CASE ActivateDeployer BY <1>1 DEF ActivateDeployer, MayWrite
<1>2. CASE CheckReady BY <1>2 DEF CheckReady
<1>3. CASE RegisterInserter BY <1>3 DEF RegisterInserter
<1>4. CASE AttachToStore BY <1>4 DEF AttachToStore
<1>5. CASE AttachToDeployer BY <1>5 DEF AttachToDeployer, MayWrite
<1>6. CASE StopInstaller BY <1>6 DEF StopInstaller, MayWrite
<1>7. CASE DetachInstaller BY <1>7 DEF DetachInstaller
<1>8. CASE EnterDeactivate \/ DeactivateDeployer
  BY <1>8 DEF EnterDeactivate, DeactivateDeployer, MayWrite
<1> QED BY <1>1, <1>2, <1>3, <1>4, <1>5, <1>6, <1>7, <1>8 DEF ContainerSteps

\* and the rest.
LEMMA LeftByOtherSteps ==
  ASSUME TypeOK, UsersUpload, LockIsHeld, LocksAreLeft, OtherSteps
  PROVE  LocksAreLeft'
<1> USE Kinds DEF TypeOK, UsersUpload, LockIsHeld, LocksAreLeft, Called, Activating, Copying,
                  Installing, Goto, deployerLock, listeners
<1>1. CASE DeploySchema BY <1>1 DEF DeploySchema
<1>2. CASE SchemaDeployed BY <1>2 DEF SchemaDeployed
<1>3. CASE Restart BY <1>3 DEF Restart
<1>4. CASE RemoveContent BY <1>4 DEF RemoveContent
<1>5. CASE UNCHANGED vars BY <1>5 DEF vars
<1>6. ASSUME NEW f \in Files, DeleteRow(f) \/ TouchFile(f) PROVE LocksAreLeft'
  BY <1>6 DEF DeleteRow, TouchFile
<1>7. ASSUME NEW u \in Users, NEW f \in Files, Upload(u, f) PROVE LocksAreLeft'
  BY <1>7 DEF Upload
<1> QED BY <1>1, <1>2, <1>3, <1>4, <1>5, <1>6, <1>7 DEF OtherSteps

\* The engine's thread waits only for the container's that copies or installs, or deactivates;
\* and that waits only for the engine's that copies or installs, or for the end of its calls.
LEMMA WaitersAreReleased ==
  ASSUME TypeOK, LockIsHeld, LocksAreLeft
  PROVE  WaitsEnd
<1> USE Kinds DEF Crossed, Waits, MayWrite, MayRead, Called, Activating, Copying, Installing
<1>1. ASSUME Waits(Engine)
      PROVE  Crossed \/ (pc[Container] \notin {"idle", "done", "running", "failed"} /\ ~Waits(Container))
  <2>1. pc[Engine] \in {"insert", "notify"} /\ deployerWriter # Engine /\ Engine \notin deployerReaders
    BY <1>1 DEF LocksAreLeft
  <2>2. deployerWriter = Container \/ Container \in deployerReaders
    BY <1>1, <2>1 DEF TypeOK
  <2>3. pc[Container] \in Activating /\ pc[Container] \notin {"check", "register"}
    BY <2>1, <2>2 DEF LocksAreLeft
  <2> QED BY <2>1, <2>2, <2>3 DEF LocksAreLeft, LockIsHeld, TypeOK
<1>2. ASSUME Waits(Container)
      PROVE  Crossed \/ (pc[Engine] \notin {"idle", "done", "running", "failed"} /\ ~Waits(Engine))
  <2>1. pc[Engine] \in {"leave"} \cup Called
    BY <1>2 DEF LocksAreLeft, LockIsHeld, TypeOK
  <2>2. Crossed \/ ~Waits(Engine)
    BY <1>1, <1>2
  <2> QED BY <2>1, <2>2
<1>3. ASSUME Crossed PROVE Waits(Engine) /\ Waits(Container)
  BY <1>3 DEF LockIsHeld, LocksAreLeft
<1> QED BY <1>1, <1>2, <1>3 DEF WaitsEnd

\* Although the engine's thread takes the deployer's lock with the store's in its hands, and
\* the container's the store's with the deployer's in its own, they wait for each other only if
\* the schema is deployed during deactivate() of the deployer, and then they do.
THEOREM LocksAreReleased == Spec => []WaitsEnd
<1>1. Init => LocksAreLeft
  BY Kinds DEF Init, LocksAreLeft, Called, Copying, Installing
<1>2. TypeOK /\ UsersUpload /\ LockIsHeld /\ LocksAreLeft /\ [Next]_vars => LocksAreLeft'
  BY StepsAre, LeftByStoreSteps, LeftByDeployerSteps, LeftByContainerSteps, LeftByOtherSteps
<1>3. TypeOK /\ LockIsHeld /\ LocksAreLeft => WaitsEnd
  BY WaitersAreReleased
<1> QED BY <1>1, <1>2, <1>3, TypeInit, TypeStep, LocksInit, LocksStep, PTL DEF Spec
=============================================================================
