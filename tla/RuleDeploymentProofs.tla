------------------------- MODULE RuleDeploymentProofs -------------------------
(***************************************************************************)
(* Theorems about RuleDeployment, for any rule sets, threads and bounds:   *)
(* types, and, for a store that is there when the provider is activated,   *)
(* which steps may give a rule set a second row or replace an edited one,  *)
(* and that the locks are left again.                                      *)
(***************************************************************************)
EXTENDS RuleDeployment, TLAPS

Working == {"find", "save", "write"}

\* The threads that deploy rule sets of their own: those of late builders, and the
\* container's once it opened the tracker of rule builders.
Owners == Late \cup {Container}
OwnRules(t) == IF t = Container THEN Present ELSE {t}

\* A thread has a rule set in its hands or on its list.
Concerned(t, b) == b \in todo[t] \/ (pc[t] \in {"stores"} \cup Working /\ cur[t] = b)

\* What a thread may be doing.  The store's deploys nothing if the store was there before, nor do
\* those of other components; administrators save one rule set each.
BystanderRole(t) ==
  /\ t = StoreThread => pc[t] = "idle"
  /\ t \in Others => pc[t] \in {"idle", "queued", "done"}
  /\ t \in Admins =>
       /\ pc[t] \in {"idle", "save", "write", "tell", "next", "leave", "abort", "done", "failed"}
       /\ todo[t] = {}

\* Builders are added and removed once their tracker is open, those that come late once each.
TrackerRole(t) ==
  /\ t = Container =>
       /\ ~opened => pc[t] \notin {"adding", "stores", "unstore", "tell"} \cup Working /\ todo[t] = {}
       /\ opened => pc[t] \notin {"idle", "queued", "ready", "list", "trackers"}
  /\ t \in Late =>
       /\ ~opened => pc[t] = "idle"
       /\ pc[t] \notin {"queued", "ready", "list", "trackers", "adding"}
       /\ pc[t] = "idle" => t \notin ruleBuilders

\* An owner deploys its own rule sets, with the lock of the rule builders in its hands.
OwnerRole(t) ==
  t \in Owners =>
    /\ todo[t] \subseteq OwnRules(t)
    /\ todo[t] # {} => pc[t] \in {"next", "tell"} \cup Working
    /\ pc[t] \in {"stores"} \cup Working => cur[t] \in OwnRules(t)
    /\ opened /\ pc[t] \in {"stores", "unstore", "next", "tell", "leave", "abort"} \cup Working =>
         writer["ruleBuilders"] = t

EngineRole(t) ==
  t = Engine =>
    /\ pc[t] # "stores"
    /\ todo[t] # {} => pc[t] \in {"next", "tell"} \cup Working

RoleOf(t) == BystanderRole(t) /\ TrackerRole(t) /\ OwnerRole(t) /\ EngineRole(t)

\* The engine's thread deploys rule sets whose owners are done with them.
EngineFollowsOwners ==
  \A b \in RuleSets : Concerned(Engine, b) =>
    /\ b \in Present => b \in ruleBuilders
    /\ b \in Late => pc[b] # "idle"
    /\ \A t \in Owners : ~Concerned(t, b)

Roles ==
  /\ \A t \in Threads : RoleOf(t)
  /\ ~opened => ruleBuilders = {}
  /\ EngineFollowsOwners

\* Who is about to write a row has looked.  Only who was overtaken may find that the rule set it
\* saw no row of has one; and of a builder's threads only one that looked without a schema, or
\* was overtaken, sees a row the second time.
RowsAreExpected ==
  \A t \in Threads :
    /\ pc[t] = "write" => schema /\ (seen[t] => HasRow(cur[t]))
    /\ t \notin overtaken /\ pc[t] = "write" /\ ~seen[t] => ~HasRow(cur[t])
    /\ t \notin Admins \cup blind \cup overtaken /\ pc[t] \in {"save", "write"} =>
         schema /\ ~HasRow(cur[t])

RuleInvariant == Roles /\ RowsAreExpected
-----------------------------------------------------------------------------
(* Types *)

\* The steps, by what they change.
StoreSteps(t) == AddListener(t) \/ CheckReady(t) \/ TellListeners(t) \/ Leave(t)
BuilderSteps(t) ==
  ListRuleBuilders(t) \/ EnterDataStores(t) \/ Undeploy(t) \/ AllDeployed(t)
RowSteps(t) ==
  \/ \E b \in RuleSets : NextRuleSet(t, b)
  \/ Find(t) \/ LookUp(t) \/ WriteRow(t) \/ WriteFails(t)
ContainerSteps ==
  \/ OpenRuleBuilderTracker \/ AllPresentAdded \/ \E t \in Trackers : AddDataStore(t)
  \/ \E t \in Threads, b \in RuleSets : AddRuleBuilder(t, b)
  \/ \E t \in Late : RemoveRuleBuilder(t)
OtherSteps ==
  \/ DeploySchema \/ SchemaDeployed \/ Restart \/ UNCHANGED vars
  \/ \E a \in Admins, b \in RuleSets : SaveRuleSet(a, b)
  \/ \E o \in Others : QueueOther(o)

\* Every step is one of them.
LEMMA StepsAre ==
  ASSUME [Next]_vars
  PROVE  \/ \E t \in Threads : StoreSteps(t) \/ BuilderSteps(t) \/ RowSteps(t)
         \/ ContainerSteps \/ OtherSteps
BY DEF Next, Step, Start, Terminated, StoreSteps, BuilderSteps, RowSteps, ContainerSteps,
       OtherSteps, Threads, RuleSets

\* Who a thread is.
LEMMA Kinds ==
  /\ Engine \in Threads /\ Container \in Threads /\ StoreThread \in Threads
  /\ Late \subseteq Threads /\ Admins \subseteq Threads /\ Others \subseteq Threads
  /\ Engine # Container /\ Engine # StoreThread /\ Container # StoreThread
  /\ \A t \in Late : t \notin Admins \cup Others \cup {Engine, Container, StoreThread}
  /\ \A t \in Admins : t \notin Others \cup {Engine, Container, StoreThread}
  /\ \A t \in Others : t \notin {Engine, Container, StoreThread}
  /\ Threads = Owners \cup Admins \cup Others \cup {Engine, StoreThread}
  /\ NoThread \notin Threads /\ Trackers \subseteq Threads
  /\ Present \subseteq RuleSets /\ Late \subseteq RuleSets /\ Present \cap Late = {}
BY ThreadAssumption, RuleSetAssumption
DEF ThreadAssumption, RuleSetAssumption, Threads, Owners, Trackers, RuleSets

\* There is a rule set to begin with.
LEMMA AnyIsARuleSet == AnyRuleSet \in RuleSets
BY RuleSetAssumption DEF RuleSetAssumption, AnyRuleSet

\* The initial state has the declared types.
LEMMA TypeInit == Init => TypeOK
<1> SUFFICES ASSUME Init PROVE TypeOK OBVIOUS
<1>1. failures \in Nat /\ restarts \in Nat /\ failures + restarts <= MaxFaults
  BY BoundAssumption DEF Init, BoundAssumption
<1>2. cur \in [Threads -> RuleSets]
  BY AnyIsARuleSet DEF Init
<1>3. ListenersAreListed
  BY Kinds DEF Init, ListenersAreListed
<1> QED BY <1>1, <1>2, <1>3 DEF Init, TypeOK

\* Only the thread that has just listed the store waits to become its listener.
LEMMA ListedStep ==
  ASSUME TypeOK, [Next]_vars
  PROVE  ListenersAreListed'
<1> USE Kinds DEF TypeOK, ListenersAreListed, Goto, provider
<1>1. ASSUME NEW t \in Threads, AddListener(t) \/ CheckReady(t) \/ TellListeners(t)
      PROVE  ListenersAreListed'
  BY <1>1 DEF AddListener, CheckReady, TellListeners
<1>2. ASSUME NEW t \in Threads, Leave(t) PROVE ListenersAreListed'
  <2>1. UNCHANGED <<listening, dataStores>> /\ \A u \in Threads : pc'[u] = "queued" => pc[u] = "queued"
    BY <1>2 DEF Leave
  <2> QED BY <2>1
<1>3. ASSUME NEW t \in Threads, BuilderSteps(t) PROVE ListenersAreListed'
  BY <1>3 DEF BuilderSteps, ListRuleBuilders, EnterDataStores, Undeploy, AllDeployed
<1>4. ASSUME NEW t \in Threads, RowSteps(t) PROVE ListenersAreListed'
  BY <1>4 DEF RowSteps, NextRuleSet, Find, LookUp, WriteRow, WriteFails
<1>5. CASE ContainerSteps
  BY <1>5
  DEF ContainerSteps, OpenRuleBuilderTracker, AllPresentAdded, AddDataStore, AddRuleBuilder,
      RemoveRuleBuilder
<1>6. CASE DeploySchema \/ SchemaDeployed BY <1>6 DEF DeploySchema, SchemaDeployed
<1>7. CASE Restart BY <1>7 DEF Restart
<1>8. CASE UNCHANGED vars BY <1>8 DEF vars
<1>9. ASSUME NEW a \in Admins, NEW b \in RuleSets, SaveRuleSet(a, b) PROVE ListenersAreListed'
  BY <1>9 DEF SaveRuleSet
<1>10. ASSUME NEW o \in Others, QueueOther(o) PROVE ListenersAreListed'
  <2>1. o \notin Trackers
    BY DEF Trackers
  <2> QED BY <1>10, <2>1 DEF QueueOther
<1> QED
  BY StepsAre, <1>1, <1>2, <1>3, <1>4, <1>5, <1>6, <1>7, <1>8, <1>9, <1>10 DEF StoreSteps, OtherSteps

\* Steps of a thread keep the types.
LEMMA TypeOfStoreSteps ==
  ASSUME TypeOK, ListenersAreListed', NEW t \in Threads, StoreSteps(t)
  PROVE  TypeOK'
<1> USE DEF TypeOK, Goto, rowsAndSchema, provider, locks, locals, bounds
<1>1. CASE AddListener(t) BY <1>1 DEF AddListener
<1>2. CASE CheckReady(t) BY <1>2 DEF CheckReady
<1>3. CASE TellListeners(t) BY <1>3 DEF TellListeners
<1>4. CASE Leave(t)
  <2>1. cur' \in [Threads -> RuleSets]
    BY <1>4, AnyIsARuleSet DEF Leave
  <2>2. pc' \in [Threads -> {"failed", "adding", "trackers", "removed", "done"} \cup
                   {"idle", "available", "queued", "ready", "list", "trackers", "adding", "stores",
                    "unstore", "next", "find", "save", "write", "tell", "leave", "abort",
                    "done", "removed", "failed"}]
    BY <1>4 DEF Leave
  <2>3. /\ writer' \in [Locks -> Threads \cup {NoThread}]
        /\ readers' \in [Locks -> SUBSET Threads]
    BY <1>4 DEF Leave
  <2> QED BY <1>4, <2>1, <2>2, <2>3 DEF Leave
<1> QED BY <1>1, <1>2, <1>3, <1>4 DEF StoreSteps

\* Steps of a thread that deploys for a builder keep the types.
LEMMA TypeOfBuilderSteps ==
  ASSUME TypeOK, ListenersAreListed', NEW t \in Threads, BuilderSteps(t)
  PROVE  TypeOK'
<1> USE DEF TypeOK, Goto, rowsAndSchema, provider, locks, locals, bounds
<1>1. CASE ListRuleBuilders(t) BY <1>1 DEF ListRuleBuilders
<1>2. CASE EnterDataStores(t)
  <2>1. todo' \in [Threads -> SUBSET RuleSets]
    BY <1>2 DEF EnterDataStores
  <2>2. readers' \in [Locks -> SUBSET Threads]
    BY <1>2 DEF EnterDataStores, ReadLock, Locks
  <2> QED BY <1>2, <2>1, <2>2 DEF EnterDataStores
<1>3. CASE Undeploy(t) BY <1>3 DEF Undeploy
<1>4. CASE AllDeployed(t) BY <1>4 DEF AllDeployed
<1> QED BY <1>1, <1>2, <1>3, <1>4 DEF BuilderSteps

\* What WriteRow does to the rows: the one found changes its author, or one is added.
LEMMA WrittenRows ==
  ASSUME TypeOK, NEW t \in Threads, WriteRow(t)
  PROVE  /\ cur[t] \in RuleSets /\ rows' \in [RuleSets -> [Authors -> Nat]]
         /\ \A b \in RuleSets \ {cur[t]} : rows'[b] = rows[b]
         /\ rows'[cur[t]]["builder"] + rows'[cur[t]]["admin"] =
              rows[cur[t]]["builder"] + rows[cur[t]]["admin"] + (IF seen[t] THEN 0 ELSE 1)
         /\ t \in Admins => rows'[cur[t]]["admin"] >= rows[cur[t]]["admin"]
         /\ ~seen[t] => rows'[cur[t]]["admin"] >= rows[cur[t]]["admin"]
<1> DEFINE b == cur[t]
           author == Author(t)
           Sum(r) == r["builder"] + r["admin"]
<1>1. /\ b \in RuleSets /\ rows[b] \in [Authors -> Nat] /\ author \in Authors
      /\ rows \in [RuleSets -> [Authors -> Nat]]
      /\ t \in Admins => author = "admin"
  BY DEF TypeOK, Author, Authors
<1>2. CASE seen[t]
  <2>1. PICK a \in Authors :
          /\ rows[b][a] > 0
          /\ rows' = [rows EXCEPT ![b] = Rewritten(rows[b], a, author)]
    BY <1>2 DEF WriteRow
  <2> HIDE DEF b, author
  <2> DEFINE less == [rows[b] EXCEPT ![a] = rows[b][a] - 1]
             more == [less EXCEPT ![author] = less[author] + 1]
  <2>2. rows' = [rows EXCEPT ![b] = more]
    BY <2>1 DEF Rewritten
  <2>3. /\ less \in [Authors -> Nat]
        /\ less[a] = rows[b][a] - 1
        /\ \A c \in Authors : c # a => less[c] = rows[b][c]
    BY <1>1, <2>1
  <2> HIDE DEF less
  <2>4. /\ more \in [Authors -> Nat]
        /\ more[author] = less[author] + 1
        /\ \A c \in Authors : c # author => more[c] = less[c]
    BY <1>1, <2>3
  <2> HIDE DEF more
  <2>5. /\ Sum(more) = Sum(rows[b])
        /\ author = "admin" => more["admin"] >= rows[b]["admin"]
    BY <1>1, <2>1, <2>3, <2>4 DEF Authors
  <2>6. /\ rows'[b] = more
        /\ \A c \in RuleSets \ {b} : rows'[c] = rows[c]
        /\ rows' \in [RuleSets -> [Authors -> Nat]]
    BY <1>1, <2>2, <2>4
  <2>7. Sum(rows'[b]) = Sum(rows[b]) + 0
    BY <1>1, <2>5, <2>6 DEF Authors
  <2> QED BY <1>1, <1>2, <2>5, <2>6, <2>7 DEF b, author
<1>3. CASE ~seen[t]
  <2>1. rows' = [rows EXCEPT ![b][author] = @ + 1]
    BY <1>3 DEF WriteRow
  <2> HIDE DEF b, author
  <2>2. /\ rows'[b] = [rows[b] EXCEPT ![author] = @ + 1]
        /\ \A c \in RuleSets \ {b} : rows'[c] = rows[c]
        /\ rows' \in [RuleSets -> [Authors -> Nat]]
    BY <1>1, <2>1
  <2>3. /\ Sum(rows'[b]) = Sum(rows[b]) + 1
        /\ rows'[b]["admin"] >= rows[b]["admin"]
    BY <1>1, <2>2 DEF Authors
  <2> QED BY <1>1, <1>3, <2>2, <2>3 DEF b, author
<1> QED BY <1>2, <1>3

\* So do steps with a rule set,
LEMMA TypeOfRowSteps ==
  ASSUME TypeOK, ListenersAreListed', NEW t \in Threads, RowSteps(t)
  PROVE  TypeOK'
<1> USE DEF TypeOK, Goto, rowsAndSchema, provider, locks, locals, bounds
<1>1. ASSUME NEW b \in RuleSets, NextRuleSet(t, b) PROVE TypeOK' BY <1>1 DEF NextRuleSet
<1>2. CASE Find(t) BY <1>2 DEF Find
<1>3. CASE LookUp(t)
  <2> DEFINE there == schema /\ HasRow(cur[t])
  <2>1. seen' = [seen EXCEPT ![t] = there] /\ there \in BOOLEAN
    BY <1>3 DEF LookUp
  <2> HIDE DEF there
  <2>2. seen' \in [Threads -> BOOLEAN]
    BY <2>1
  <2> QED BY <1>3, <2>2 DEF LookUp
<1>4. CASE WriteRow(t)
  <2>1. rows' \in [RuleSets -> [Authors -> Nat]]
    BY <1>4, WrittenRows
  <2>2. overtaken' \subseteq Threads
    BY <1>4 DEF WriteRow, Overtaken
  <2> QED BY <1>4, <2>1, <2>2 DEF WriteRow
<1>5. CASE WriteFails(t)
  <2>1. failures' \in Nat /\ restarts' \in Nat /\ failures' + restarts' <= MaxFaults
    BY <1>5, BoundAssumption DEF WriteFails, BoundAssumption
  <2> QED BY <1>5, <2>1 DEF WriteFails
<1> QED BY <1>1, <1>2, <1>3, <1>4, <1>5 DEF RowSteps

\* the trackers' steps,
LEMMA TypeOfContainerSteps ==
  ASSUME TypeOK, ListenersAreListed', ContainerSteps
  PROVE  TypeOK'
<1> USE Kinds DEF TypeOK, Goto, rowsAndSchema, provider, locks, locals, bounds, Locks
<1>1. CASE OpenRuleBuilderTracker BY <1>1 DEF OpenRuleBuilderTracker
<1>2. CASE AllPresentAdded BY <1>2 DEF AllPresentAdded
<1>3. ASSUME NEW t \in Trackers, AddDataStore(t) PROVE TypeOK'
  BY <1>3 DEF AddDataStore, WriteLock
<1>4. ASSUME NEW t \in Threads, NEW b \in RuleSets, AddRuleBuilder(t, b) PROVE TypeOK'
  BY <1>4 DEF AddRuleBuilder, WriteLock
<1>5. ASSUME NEW t \in Late, RemoveRuleBuilder(t) PROVE TypeOK'
  BY <1>5 DEF RemoveRuleBuilder, WriteLock
<1> QED BY <1>1, <1>2, <1>3, <1>4, <1>5 DEF ContainerSteps

\* and all other steps.
LEMMA TypeOfOtherSteps ==
  ASSUME TypeOK, ListenersAreListed', OtherSteps
  PROVE  TypeOK'
<1> USE Kinds DEF TypeOK, Goto, rowsAndSchema, provider, locks, locals, bounds, Locks
<1>1. CASE DeploySchema BY <1>1 DEF DeploySchema
<1>2. CASE SchemaDeployed BY <1>2 DEF SchemaDeployed, ReadLock
<1>3. CASE Restart
  <2>1. failures' \in Nat /\ restarts' \in Nat /\ failures' + restarts' <= MaxFaults
    BY <1>3, BoundAssumption DEF Restart, BoundAssumption
  <2>2. pc' \in [Threads -> {"idle", "done"}] /\ cur' \in [Threads -> RuleSets]
    BY <1>3, AnyIsARuleSet DEF Restart
  <2> QED BY <1>3, <2>1, <2>2 DEF Restart
<1>4. CASE UNCHANGED vars BY <1>4 DEF vars
<1>5. ASSUME NEW a \in Admins, NEW b \in RuleSets, SaveRuleSet(a, b) PROVE TypeOK'
  BY <1>5 DEF SaveRuleSet, ReadLock
<1>6. ASSUME NEW o \in Others, QueueOther(o) PROVE TypeOK' BY <1>6 DEF QueueOther
<1> QED BY <1>1, <1>2, <1>3, <1>4, <1>5, <1>6 DEF OtherSteps

\* Every step keeps the types.
LEMMA TypeStep == TypeOK /\ [Next]_vars => TypeOK'
BY StepsAre, ListedStep, TypeOfStoreSteps, TypeOfBuilderSteps, TypeOfRowSteps,
   TypeOfContainerSteps, TypeOfOtherSteps

\* In every reachable state the variables have their types: the locks are held by threads, nobody
\* deploys anything but rule sets, and the provider listens to a store it has in its list.
THEOREM TypeCorrect == Spec => []TypeOK
BY TypeInit, TypeStep, PTL DEF Spec
-----------------------------------------------------------------------------
(* Who deploys which rule sets *)

\* A rule set's row stays, whoever is its author.
LEMMA RowsStay ==
  ASSUME TypeOK, TypeOK', UNCHANGED rows \/ \E t \in Threads : WriteRow(t)
  PROVE  \A b \in RuleSets : HasRow(b) => HasRow(b)'
<1>1. CASE UNCHANGED rows
  BY <1>1 DEF HasRow
<1>2. ASSUME NEW t \in Threads, WriteRow(t), NEW b \in RuleSets, HasRow(b) PROVE HasRow(b)'
  <2>1. CASE b # cur[t]
    <3>1. rows'[b] = rows[b]
      BY <1>2, <2>1, WrittenRows
    <3> QED BY <1>2, <3>1 DEF HasRow
  <2>2. CASE b = cur[t]
    <3>1. /\ rows[b]["builder"] \in Nat /\ rows[b]["admin"] \in Nat
          /\ rows'[b]["builder"] \in Nat /\ rows'[b]["admin"] \in Nat
      BY DEF TypeOK, Authors
    <3>2. rows[b]["builder"] > 0 \/ rows[b]["admin"] > 0
      BY <1>2 DEF HasRow, Authors
    <3>3. rows'[b]["builder"] + rows'[b]["admin"] >= rows[b]["builder"] + rows[b]["admin"]
      BY <1>2, <2>2, <3>1, WrittenRows
    <3>4. rows'[b]["builder"] > 0 \/ rows'[b]["admin"] > 0
      BY <3>1, <3>2, <3>3
    <3> QED BY <3>4 DEF HasRow, Authors
  <2> QED BY <2>1, <2>2
<1> QED BY <1>1, <1>2

\* The types the steps below need.
LEMMA Types ==
  ASSUME TypeOK
  PROVE  /\ pc = [t \in Threads |-> pc[t]] /\ cur = [t \in Threads |-> cur[t]]
         /\ todo = [t \in Threads |-> todo[t]] /\ seen = [t \in Threads |-> seen[t]]
         /\ writer = [l \in Locks |-> writer[l]] /\ ruleBuilders \subseteq RuleSets
         /\ \A t \in Threads : todo[t] \subseteq RuleSets /\ cur[t] \in RuleSets
BY DEF TypeOK

\* In the beginning nobody does anything.
LEMMA RolesInit == Init => Roles
BY Kinds
DEF Init, Roles, RoleOf, BystanderRole, TrackerRole, OwnerRole, EngineRole, EngineFollowsOwners,
    Concerned, Working, Owners

\* A step of one thread, as the others see it: it takes neither the lock from another nor
\* builders that were added.
OnlyOf(t) ==
  /\ \A u \in Threads \ {t} :
       /\ pc'[u] = pc[u] /\ todo'[u] = todo[u] /\ cur'[u] = cur[u] /\ seen'[u] = seen[u]
       /\ writer["ruleBuilders"] = u => writer'["ruleBuilders"] = u
  /\ opened' = opened
  /\ ruleBuilders' \cap (Late \ {t}) = ruleBuilders \cap (Late \ {t})

\* The others keep their roles.
LEMMA OthersKeepTheirRoles ==
  ASSUME TypeOK, Roles, NEW t \in Threads, OnlyOf(t)
  PROVE  \A u \in Threads \ {t} : RoleOf(u)'
<1> SUFFICES ASSUME NEW u \in Threads \ {t} PROVE RoleOf(u)'
  OBVIOUS
<1>0. RoleOf(u) /\ cur[u] \in RuleSets
  BY Types DEF Roles
<1> USE DEF OnlyOf
<1>1. BystanderRole(u)'
  BY <1>0 DEF RoleOf, BystanderRole
<1>2. TrackerRole(u)'
  BY <1>0, Kinds DEF RoleOf, TrackerRole
<1>3. OwnerRole(u)'
  BY <1>0, Kinds DEF RoleOf, OwnerRole, OwnRules, Owners
<1>4. EngineRole(u)'
  BY <1>0 DEF RoleOf, EngineRole
<1> QED BY <1>1, <1>2, <1>3, <1>4 DEF RoleOf

\* The engine goes on following as long as the thread takes no other rule sets to hand.
LEMMA RolesOfOne ==
  ASSUME TypeOK, Roles, NEW t \in Threads, OnlyOf(t), RoleOf(t)', ~opened => ruleBuilders' = {},
         t \in Owners \cup {Engine} => \A b \in RuleSets : Concerned(t, b)' => Concerned(t, b),
         \A b \in Present : b \in ruleBuilders => b \in ruleBuilders',
         t \in Late => pc'[t] # "idle"
  PROVE  Roles'
<1>1. \A u \in Threads : RoleOf(u)'
  BY OthersKeepTheirRoles
<1>2. \A u \in Owners \cup {Engine}, b \in RuleSets : Concerned(u, b)' => Concerned(u, b)
  BY Kinds DEF OnlyOf, Concerned
<1>3. \A b \in Late : pc[b] # "idle" => pc'[b] # "idle"
  BY Kinds DEF OnlyOf
<1>4. EngineFollowsOwners'
  BY <1>2, <1>3 DEF Roles, EngineFollowsOwners
<1> QED BY <1>1, <1>4 DEF Roles, OnlyOf

\* A thread comes back from the store's lock, or to the end of its call.
LEMMA RolesOfStoreSteps ==
  ASSUME TypeOK, Roles, NEW t \in Threads, StoreSteps(t)
  PROVE  Roles'
<1>0. RoleOf(t) /\ (~opened => ruleBuilders = {})
  BY DEF Roles
<1> USE <1>0, Kinds, Types DEF Goto, Working, RoleOf, BystanderRole, TrackerRole, OwnerRole, EngineRole
<1>1. CASE AddListener(t)
  <2>1. OnlyOf(t) /\ UNCHANGED <<opened, ruleBuilders, writer, todo, cur, seen>>
    BY <1>1 DEF AddListener, OnlyOf, locals
  <2>2. RoleOf(t)'
    BY <1>1, <2>1 DEF AddListener, Owners
  <2>3. \A b \in RuleSets : Concerned(t, b)' => Concerned(t, b)
    BY <1>1, <2>1 DEF AddListener, Concerned
  <2> QED BY <1>1, <2>1, <2>2, <2>3, RolesOfOne DEF AddListener
<1>2. CASE CheckReady(t)
  <2>1. OnlyOf(t) /\ UNCHANGED <<opened, ruleBuilders, writer, todo, cur, seen>>
    BY <1>2 DEF CheckReady, OnlyOf, provider, locks, locals
  <2>2. RoleOf(t)'
    BY <1>2, <2>1 DEF CheckReady, Owners
  <2>3. \A b \in RuleSets : Concerned(t, b)' => Concerned(t, b)
    BY <1>2, <2>1 DEF CheckReady, Concerned
  <2> QED BY <1>2, <2>1, <2>2, <2>3, RolesOfOne DEF CheckReady
<1>3. CASE TellListeners(t)
  <2>1. OnlyOf(t) /\ UNCHANGED <<opened, ruleBuilders, writer, todo, cur, seen>>
    BY <1>3 DEF TellListeners, OnlyOf, provider, locks
  <2>2. RoleOf(t)'
    BY <1>3, <2>1 DEF TellListeners, Owners
  <2>3. \A b \in RuleSets : Concerned(t, b)' => Concerned(t, b)
    BY <1>3, <2>1 DEF TellListeners, Concerned
  <2> QED BY <1>3, <2>1, <2>2, <2>3, RolesOfOne DEF TellListeners
<1>4. CASE Leave(t)
  <2>1. OnlyOf(t) /\ UNCHANGED <<opened, ruleBuilders, todo, seen>>
    BY <1>4 DEF Leave, OnlyOf, provider, Locks
  <2>2. RoleOf(t)'
    BY <1>4, <2>1 DEF Leave, Owners
  <2>3. \A b \in RuleSets : Concerned(t, b)' => Concerned(t, b)
    BY <1>4, <2>1 DEF Leave, Concerned
  <2>4. t \in Late => pc'[t] # "idle"
    BY <1>4 DEF Leave
  <2> QED BY <2>1, <2>2, <2>3, <2>4, RolesOfOne
<1> QED BY <1>1, <1>2, <1>3, <1>4 DEF StoreSteps

\* The engine's thread takes only rule sets to its hands whose builders' additions are over: it
\* copies the map of builders under its lock.
LEMMA RolesOfList ==
  ASSUME TypeOK, Roles, NEW t \in Threads, ListRuleBuilders(t)
  PROVE  Roles'
<1>0. RoleOf(t) /\ (~opened => ruleBuilders = {})
  BY DEF Roles
<1> USE <1>0, Kinds, Types DEF Goto, Working, RoleOf, BystanderRole, TrackerRole, OwnerRole, EngineRole
<1>1. /\ OnlyOf(t) /\ UNCHANGED <<opened, ruleBuilders, writer, cur, seen>>
      /\ pc[t] = "list" /\ pc'[t] = "next" /\ todo'[t] = ruleBuilders
      /\ writer["ruleBuilders"] \in {NoThread, t}
  BY DEF ListRuleBuilders, MayRead, OnlyOf, provider, locks
<1>2. t = Engine \/ (t = Container /\ ~opened)
  <2>1. t \notin Late \cup Admins \cup Others \cup {StoreThread}
    BY <1>1
  <2>2. t = Container => ~opened
    BY <1>1
  <2> QED BY <2>1, <2>2 DEF Owners
<1>3. RoleOf(t)'
  BY <1>1, <1>2 DEF Owners
<1>4. CASE t = Container
  <2>1. \A c \in RuleSets : Concerned(t, c)' => Concerned(t, c)
    BY <1>1, <1>2, <1>4 DEF Concerned
  <2> QED BY <1>1, <1>3, <1>4, <2>1, RolesOfOne
<1>5. CASE t = Engine
  <2>1. ASSUME NEW b \in ruleBuilders, NEW u \in Owners, Concerned(u, b) PROVE FALSE
    <3>1. RoleOf(u) /\ opened /\ u \in Threads /\ u # t
      BY <1>5, <2>1 DEF Roles, Owners
    <3>2. pc[u] \in {"stores", "next", "tell"} \cup Working
      BY <2>1, <3>1 DEF Concerned
    <3> QED BY <1>1, <1>5, <2>1, <3>1, <3>2
  <2>2. ASSUME NEW b \in RuleSets, Concerned(Engine, b)' PROVE b \in ruleBuilders
    BY <1>1, <1>5, <2>2 DEF Concerned
  <2>3. \A u \in Owners, b \in RuleSets : Concerned(u, b)' => Concerned(u, b)
    BY <1>1, <1>5 DEF Concerned, OnlyOf, Owners
  <2>4. \A b \in Late : b \in ruleBuilders => pc'[b] # "idle"
    BY <1>1, <1>5 DEF Roles, OnlyOf
  <2>5. EngineFollowsOwners'
    BY <1>1, <2>1, <2>2, <2>3, <2>4 DEF EngineFollowsOwners
  <2> QED BY <1>1, <1>3, <2>5, OthersKeepTheirRoles DEF Roles
<1> QED BY <1>2, <1>4, <1>5

\* The owners go through the data stores and leave them.
LEMMA RolesOfBuilderSteps ==
  ASSUME TypeOK, Roles, NEW t \in Threads, BuilderSteps(t)
  PROVE  Roles'
<1>0. RoleOf(t) /\ (~opened => ruleBuilders = {})
  BY DEF Roles
<1> USE <1>0, Kinds, Types DEF Goto, Working, RoleOf, BystanderRole, TrackerRole, OwnerRole, EngineRole
<1>1. CASE ListRuleBuilders(t)
  BY <1>1, RolesOfList
<1>2. CASE EnterDataStores(t)
  <2>1. OnlyOf(t) /\ UNCHANGED <<opened, ruleBuilders, writer, cur, seen>>
    BY <1>2 DEF EnterDataStores, OnlyOf, provider
  <2>2. RoleOf(t)'
    BY <1>2, <2>1 DEF EnterDataStores, Owners
  <2>3. \A c \in RuleSets : Concerned(t, c)' => Concerned(t, c)
    BY <1>2, <2>1 DEF EnterDataStores, Concerned
  <2> QED BY <1>2, <2>1, <2>2, <2>3, RolesOfOne DEF EnterDataStores
<1>3. CASE Undeploy(t)
  <2>1. OnlyOf(t) /\ UNCHANGED <<opened, ruleBuilders, writer, todo, cur, seen>>
    BY <1>3 DEF Undeploy, OnlyOf, provider, locks, locals
  <2>2. RoleOf(t)'
    BY <1>3, <2>1 DEF Undeploy, Owners
  <2>3. \A c \in RuleSets : Concerned(t, c)' => Concerned(t, c)
    BY <1>3, <2>1 DEF Undeploy, Concerned
  <2> QED BY <1>3, <2>1, <2>2, <2>3, RolesOfOne DEF Undeploy
<1>4. CASE AllDeployed(t)
  <2>1. OnlyOf(t) /\ UNCHANGED <<opened, ruleBuilders, writer, todo, cur, seen>>
    BY <1>4 DEF AllDeployed, OnlyOf, provider, locks, locals
  <2>2. RoleOf(t)'
    BY <1>4, <2>1 DEF AllDeployed, Owners
  <2>3. \A c \in RuleSets : Concerned(t, c)' => Concerned(t, c)
    BY <1>4, <2>1 DEF AllDeployed, Concerned
  <2> QED BY <1>4, <2>1, <2>2, <2>3, RolesOfOne DEF AllDeployed
<1> QED BY <1>1, <1>2, <1>3, <1>4 DEF BuilderSteps

\* A thread goes through its rule sets.
LEMMA RolesOfRowSteps ==
  ASSUME TypeOK, TypeOK', Roles, NEW t \in Threads, RowSteps(t)
  PROVE  Roles'
<1>0. RoleOf(t) /\ (~opened => ruleBuilders = {})
  BY DEF Roles
<1> USE <1>0, Kinds, Types DEF Goto, Working, RoleOf, BystanderRole, TrackerRole, OwnerRole, EngineRole
<1>1. ASSUME NEW b \in RuleSets, NextRuleSet(t, b) PROVE Roles'
  <2>1. OnlyOf(t) /\ UNCHANGED <<opened, ruleBuilders, writer, seen>>
    BY <1>1 DEF NextRuleSet, OnlyOf, provider, locks
  <2>2. RoleOf(t)'
    BY <1>1, <2>1 DEF NextRuleSet, Owners, OwnRules
  <2>3. \A c \in RuleSets : Concerned(t, c)' => Concerned(t, c)
    BY <1>1, <2>1 DEF NextRuleSet, Concerned
  <2> QED BY <1>1, <2>1, <2>2, <2>3, RolesOfOne DEF NextRuleSet
<1>2. CASE Find(t)
  <2>1. OnlyOf(t) /\ UNCHANGED <<opened, ruleBuilders, writer, todo, cur, seen>>
    BY <1>2 DEF Find, OnlyOf, provider, locks
  <2>2. RoleOf(t)'
    BY <1>2, <2>1 DEF Find, Owners
  <2>3. \A c \in RuleSets : Concerned(t, c)' => Concerned(t, c)
    BY <1>2, <2>1 DEF Find, Concerned
  <2> QED BY <1>2, <2>1, <2>2, <2>3, RolesOfOne DEF Find
<1>3. CASE LookUp(t)
  <2>1. OnlyOf(t) /\ UNCHANGED <<opened, ruleBuilders, writer, todo, cur>>
    BY <1>3 DEF LookUp, OnlyOf, provider, locks
  <2>2. RoleOf(t)'
    BY <1>3, <2>1 DEF LookUp, Owners
  <2>3. \A c \in RuleSets : Concerned(t, c)' => Concerned(t, c)
    BY <1>3, <2>1 DEF LookUp, Concerned
  <2> QED BY <1>3, <2>1, <2>2, <2>3, RolesOfOne DEF LookUp
<1>4. CASE WriteRow(t)
  <2>1. OnlyOf(t) /\ UNCHANGED <<opened, ruleBuilders, writer, todo, cur>>
    BY <1>4 DEF WriteRow, OnlyOf, provider, locks
  <2>2. RoleOf(t)'
    BY <1>4, <2>1 DEF WriteRow, Owners
  <2>3. \A c \in RuleSets : Concerned(t, c)' => Concerned(t, c)
    BY <1>4, <2>1 DEF WriteRow, Concerned
  <2> QED BY <1>4, <2>1, <2>2, <2>3, RolesOfOne DEF WriteRow
<1>5. CASE WriteFails(t)
  <2>1. OnlyOf(t) /\ UNCHANGED <<opened, ruleBuilders, writer, cur>>
    BY <1>5 DEF WriteFails, OnlyOf, provider, locks
  <2>2. RoleOf(t)'
    BY <1>5, <2>1 DEF WriteFails, Owners
  <2>3. \A c \in RuleSets : Concerned(t, c)' => Concerned(t, c)
    BY <1>5, <2>1 DEF WriteFails, Concerned
  <2> QED BY <1>5, <2>1, <2>2, <2>3, RolesOfOne DEF WriteFails
<1> QED BY <1>1, <1>2, <1>3, <1>4, <1>5 DEF RowSteps

\* A builder that is added is one nobody deploys yet.
LEMMA RolesOfAddition ==
  ASSUME TypeOK, Roles, NEW t \in Threads, NEW b \in RuleSets, AddRuleBuilder(t, b)
  PROVE  Roles'
<1>0. RoleOf(t) /\ (~opened => ruleBuilders = {})
  BY DEF Roles
<1> USE <1>0, Kinds, Types DEF Goto, Working, RoleOf, BystanderRole, TrackerRole, OwnerRole, EngineRole
<1>a. \/ t = Container /\ pc[t] = "adding" /\ b \in Present \ ruleBuilders
      \/ t = b /\ t \in Late /\ pc[t] = "idle" /\ opened
  BY DEF AddRuleBuilder
<1>b. writer["ruleBuilders"] = NoThread /\ writer'["ruleBuilders"] = t
  BY DEF AddRuleBuilder, WriteLock, MayWrite, Locks
<1>c. /\ opened' = opened /\ UNCHANGED <<todo, seen>>
      /\ ruleBuilders' = ruleBuilders \cup {b} /\ pc'[t] = "stores" /\ cur'[t] = b
  BY DEF AddRuleBuilder
<1>1. /\ \/ t = Container /\ pc[t] = "adding" /\ b \in Present \ ruleBuilders
         \/ t = b /\ t \in Late /\ pc[t] = "idle"
      /\ opened /\ opened' = opened
      /\ writer["ruleBuilders"] = NoThread /\ writer'["ruleBuilders"] = t
      /\ ruleBuilders' = ruleBuilders \cup {b} /\ pc'[t] = "stores" /\ cur'[t] = b
      /\ UNCHANGED <<todo, seen>>
  BY <1>a, <1>b, <1>c
<1>2. OnlyOf(t)
  BY <1>1 DEF AddRuleBuilder, OnlyOf
<1>3. RoleOf(t)'
  BY <1>1 DEF Owners, OwnRules
<1>4. ~Concerned(Engine, b) /\ t # Engine
  BY <1>1 DEF Roles, EngineFollowsOwners
<1>5. \A u \in Owners \cup {Engine}, c \in RuleSets : Concerned(u, c)' => Concerned(u, c) \/ (u = t /\ c = b)
  BY <1>1, <1>2 DEF Concerned, OnlyOf, Owners
<1>6. \A c \in Late : pc[c] # "idle" => pc'[c] # "idle"
  BY <1>1, <1>2 DEF OnlyOf
<1>7. EngineFollowsOwners'
  BY <1>1, <1>4, <1>5, <1>6 DEF Roles, EngineFollowsOwners
<1> QED BY <1>1, <1>2, <1>3, <1>7, OthersKeepTheirRoles DEF Roles

\* The container's thread opens the tracker of builders.
LEMMA RolesOfOpening ==
  ASSUME ~StoreIsLate, TypeOK, Roles, OpenRuleBuilderTracker
  PROVE  Roles'
<1>1. /\ pc[Container] = "trackers" /\ pc' = [pc EXCEPT ![Container] = "adding"] /\ opened'
      /\ UNCHANGED <<rows, schema, ruleBuilders, writer, todo, cur, seen>>
  BY DEF OpenRuleBuilderTracker, Goto, rowsAndSchema, locks, locals
<1>2. ~opened /\ ruleBuilders = {} /\ \A u \in Late : pc[u] = "idle"
  BY <1>1, Kinds DEF Roles, RoleOf, TrackerRole
<1>3. ASSUME NEW u \in Threads PROVE RoleOf(u)'
  <2>1. RoleOf(u)
    BY DEF Roles
  <2> USE <1>1, <1>2, <2>1, Kinds, Types DEF RoleOf, Working
  <2>2. BystanderRole(u)'
    BY DEF BystanderRole
  <2>3. TrackerRole(u)'
    BY DEF TrackerRole
  <2>4. OwnerRole(u)'
    BY DEF OwnerRole, Owners, OwnRules
  <2>5. EngineRole(u)'
    BY DEF EngineRole
  <2> QED BY <2>2, <2>3, <2>4, <2>5
<1>4. \A u \in Owners \cup {Engine}, c \in RuleSets : Concerned(u, c)' => Concerned(u, c)
  BY <1>1, Kinds, Types DEF Concerned, Working, Owners
<1>5. EngineFollowsOwners'
  BY <1>1, <1>4, Kinds, Types DEF Roles, EngineFollowsOwners
<1> QED BY <1>1, <1>3, <1>5 DEF Roles

\* The trackers' steps keep the roles.
LEMMA RolesOfContainerSteps ==
  ASSUME ~StoreIsLate, TypeOK, Roles, ContainerSteps
  PROVE  Roles'
<1>0. (\A t \in Threads : RoleOf(t)) /\ (~opened => ruleBuilders = {})
  BY DEF Roles
<1> USE <1>0, Kinds, Types DEF Goto, Working, RoleOf, BystanderRole, TrackerRole, OwnerRole, EngineRole
<1>1. CASE OpenRuleBuilderTracker
  BY <1>1, RolesOfOpening
<1>2. CASE AllPresentAdded
  <2>1. OnlyOf(Container) /\ UNCHANGED <<opened, ruleBuilders, writer, todo, cur, seen>>
    BY <1>2 DEF AllPresentAdded, OnlyOf, provider, locks, locals
  <2>2. RoleOf(Container)'
    BY <1>2, <2>1 DEF AllPresentAdded, Owners
  <2>3. \A c \in RuleSets : Concerned(Container, c)' => Concerned(Container, c)
    BY <1>2, <2>1 DEF AllPresentAdded, Concerned
  <2> QED BY <1>2, <2>1, <2>2, <2>3, RolesOfOne DEF AllPresentAdded
<1>3. ASSUME NEW t \in Trackers, AddDataStore(t) PROVE Roles'
  <2>0. t = Container
    BY DEF Trackers
  <2>1. OnlyOf(Container) /\ UNCHANGED <<opened, ruleBuilders, todo, cur, seen>>
    BY <1>3, <2>0 DEF AddDataStore, WriteLock, OnlyOf, locals
  <2>2. RoleOf(Container)'
    BY <1>3, <2>1, <2>0 DEF AddDataStore, Owners
  <2>3. \A c \in RuleSets : Concerned(Container, c)' => Concerned(Container, c)
    BY <1>3, <2>1, <2>0 DEF AddDataStore, Concerned
  <2> QED BY <1>3, <2>1, <2>2, <2>3, <2>0, RolesOfOne DEF AddDataStore
<1>4. ASSUME NEW t \in Threads, NEW b \in RuleSets, AddRuleBuilder(t, b) PROVE Roles'
  BY <1>4, RolesOfAddition
<1>5. ASSUME NEW t \in Late, RemoveRuleBuilder(t) PROVE Roles'
  <2>1. OnlyOf(t) /\ UNCHANGED <<opened, todo, cur, seen>>
    BY <1>5 DEF RemoveRuleBuilder, WriteLock, MayWrite, Locks, OnlyOf, locals
  <2>2. RoleOf(t)'
    BY <1>5, <2>1 DEF RemoveRuleBuilder, WriteLock, Locks, Owners
  <2>3. \A c \in RuleSets : Concerned(t, c)' => Concerned(t, c)
    BY <1>5, <2>1 DEF RemoveRuleBuilder, Concerned
  <2> QED BY <1>5, <2>1, <2>2, <2>3, RolesOfOne DEF RemoveRuleBuilder
<1> QED BY <1>1, <1>2, <1>3, <1>4, <1>5 DEF ContainerSteps

\* After a restart everything begins again, but for the rows and the administrators' requests.
LEMMA RolesOfRestart ==
  ASSUME TypeOK, Roles, Restart
  PROVE  Roles'
<1>1. /\ ~opened' /\ ruleBuilders' = {} /\ todo' = [t \in Threads |-> {}]
      /\ pc' = [t \in Threads |-> IF t \in Admins /\ pc[t] # "idle" THEN "done" ELSE "idle"]
  BY DEF Restart
<1>2. \A t \in Threads : RoleOf(t)'
  BY <1>1, Kinds DEF RoleOf, BystanderRole, TrackerRole, OwnerRole, EngineRole, Working, Owners
<1>3. EngineFollowsOwners'
  BY <1>1, Kinds DEF EngineFollowsOwners, Concerned, Working
<1> QED BY <1>1, <1>2, <1>3 DEF Roles

\* The other steps keep the roles.
LEMMA RolesOfOtherSteps ==
  ASSUME TypeOK, Roles, OtherSteps
  PROVE  Roles'
<1>0. (\A t \in Threads : RoleOf(t)) /\ (~opened => ruleBuilders = {})
  BY DEF Roles
<1> USE <1>0, Kinds, Types DEF Goto, Working, RoleOf, BystanderRole, TrackerRole, OwnerRole, EngineRole
<1>1. CASE DeploySchema
  <2>1. OnlyOf(Engine) /\ UNCHANGED <<opened, ruleBuilders, writer, todo, cur, seen>>
    BY <1>1 DEF DeploySchema, OnlyOf, provider, locks, locals, HasRow
  <2>2. RoleOf(Engine)'
    BY <1>1, <2>1 DEF DeploySchema, Owners
  <2>3. \A c \in RuleSets : Concerned(Engine, c)' => Concerned(Engine, c)
    BY <1>1, <2>1 DEF DeploySchema, Concerned
  <2> QED BY <1>1, <2>1, <2>2, <2>3, RolesOfOne DEF DeploySchema
<1>2. CASE SchemaDeployed
  <2>1. OnlyOf(Engine) /\ UNCHANGED <<opened, ruleBuilders, writer, todo, cur, seen>>
    BY <1>2 DEF SchemaDeployed, OnlyOf, provider, locals
  <2>2. RoleOf(Engine)'
    BY <1>2, <2>1 DEF SchemaDeployed, Owners
  <2>3. \A c \in RuleSets : Concerned(Engine, c)' => Concerned(Engine, c)
    BY <1>2, <2>1 DEF SchemaDeployed, Concerned
  <2> QED BY <1>2, <2>1, <2>2, <2>3, RolesOfOne DEF SchemaDeployed
<1>3. CASE Restart
  BY <1>3, RolesOfRestart
<1>4. CASE UNCHANGED vars
  BY <1>4
  DEF vars, rowsAndSchema, provider, locks, locals, Roles, EngineFollowsOwners, Concerned
<1>5. ASSUME NEW a \in Admins, NEW b \in RuleSets, SaveRuleSet(a, b) PROVE Roles'
  <2>1. OnlyOf(a) /\ UNCHANGED <<opened, ruleBuilders, writer, todo, seen>>
    BY <1>5 DEF SaveRuleSet, OnlyOf, provider
  <2>2. RoleOf(a)'
    BY <1>5, <2>1 DEF SaveRuleSet, Owners
  <2>3. a \notin Owners \cup {Engine}
    BY DEF Owners
  <2> QED BY <1>5, <2>1, <2>2, <2>3, RolesOfOne DEF SaveRuleSet
<1>6. ASSUME NEW o \in Others, QueueOther(o) PROVE Roles'
  <2>1. OnlyOf(o) /\ UNCHANGED <<opened, ruleBuilders, writer, todo, cur, seen>>
    BY <1>6 DEF QueueOther, OnlyOf, provider, locals
  <2>2. RoleOf(o)'
    BY <1>6, <2>1 DEF QueueOther, Owners
  <2>3. \A c \in RuleSets : Concerned(o, c)' => Concerned(o, c)
    BY <1>6, <2>1 DEF QueueOther, Concerned
  <2> QED BY <1>6, <2>1, <2>2, <2>3, RolesOfOne DEF QueueOther
<1> QED BY <1>1, <1>2, <1>3, <1>4, <1>5, <1>6 DEF OtherSteps

\* Every step keeps the roles.
LEMMA RolesStep == ~StoreIsLate /\ TypeOK /\ Roles /\ [Next]_vars => Roles'
BY StepsAre, TypeStep, RolesOfStoreSteps, RolesOfBuilderSteps, RolesOfRowSteps,
   RolesOfContainerSteps, RolesOfOtherSteps
-----------------------------------------------------------------------------
(* Rows *)

\* A step after which nobody is about to write who was not before, and which no row notices.
NoNewWriter ==
  /\ UNCHANGED rows
  /\ \A u \in Threads : pc'[u] \in {"save", "write"} =>
       /\ pc'[u] = pc[u] /\ cur'[u] = cur[u] /\ seen'[u] = seen[u]
       /\ u \in blind <=> u \in blind'
       /\ u \in overtaken <=> u \in overtaken'
       /\ schema => schema'

\* All steps are of that kind but four.
LEMMA OtherStepsMakeNoWriter ==
  ASSUME TypeOK, [Next]_vars
  PROVE  \/ NoNewWriter
         \/ \E t \in Threads : Find(t) \/ LookUp(t) \/ WriteRow(t)
         \/ \E a \in Admins, b \in RuleSets : SaveRuleSet(a, b)
<1> USE Kinds, Types
    DEF NoNewWriter, Goto, rowsAndSchema, provider, locks, locals, bounds, Owners, Trackers
<1>1. ASSUME NEW t \in Threads, StoreSteps(t) PROVE NoNewWriter
  <2>1. CASE AddListener(t) BY <2>1 DEF AddListener
  <2>2. CASE CheckReady(t) BY <2>2 DEF CheckReady
  <2>3. CASE TellListeners(t) BY <2>3 DEF TellListeners
  <2>4. CASE Leave(t)
    <3>1. pc'[t] \notin {"save", "write"}
      BY <2>4 DEF Leave
    <3> QED BY <2>4, <3>1 DEF Leave
  <2> QED BY <1>1, <2>1, <2>2, <2>3, <2>4 DEF StoreSteps
<1>2. ASSUME NEW t \in Threads, BuilderSteps(t) PROVE NoNewWriter
  <2>1. CASE ListRuleBuilders(t) BY <2>1 DEF ListRuleBuilders
  <2>2. CASE EnterDataStores(t) BY <2>2 DEF EnterDataStores
  <2>3. CASE Undeploy(t) BY <2>3 DEF Undeploy
  <2>4. CASE AllDeployed(t) BY <2>4 DEF AllDeployed
  <2> QED BY <1>2, <2>1, <2>2, <2>3, <2>4 DEF BuilderSteps
<1>3. ASSUME NEW t \in Threads, NEW b \in RuleSets, NextRuleSet(t, b) PROVE NoNewWriter
  BY <1>3 DEF NextRuleSet
<1>4. ASSUME NEW t \in Threads, WriteFails(t) PROVE NoNewWriter
  BY <1>4 DEF WriteFails
<1>5. ASSUME ContainerSteps PROVE NoNewWriter
  <2>1. CASE OpenRuleBuilderTracker BY <2>1 DEF OpenRuleBuilderTracker
  <2>2. CASE AllPresentAdded BY <2>2 DEF AllPresentAdded
  <2>3. ASSUME NEW t \in Trackers, AddDataStore(t) PROVE NoNewWriter BY <2>3 DEF AddDataStore
  <2>4. ASSUME NEW t \in Threads, NEW b \in RuleSets, AddRuleBuilder(t, b) PROVE NoNewWriter
    BY <2>4 DEF AddRuleBuilder
  <2>5. ASSUME NEW t \in Late, RemoveRuleBuilder(t) PROVE NoNewWriter BY <2>5 DEF RemoveRuleBuilder
  <2> QED BY <1>5, <2>1, <2>2, <2>3, <2>4, <2>5 DEF ContainerSteps
<1>6. CASE DeploySchema BY <1>6 DEF DeploySchema
<1>7. CASE SchemaDeployed BY <1>7 DEF SchemaDeployed
<1>8. CASE Restart BY <1>8 DEF Restart
<1>9. CASE UNCHANGED vars BY <1>9 DEF vars
<1>10. ASSUME NEW o \in Others, QueueOther(o) PROVE NoNewWriter BY <1>10 DEF QueueOther
<1> HIDE DEF NoNewWriter
<1> QED
  BY StepsAre, <1>1, <1>2, <1>3, <1>4, <1>5, <1>6, <1>7, <1>8, <1>9, <1>10 DEF RowSteps, OtherSteps

\* A rule set is in the hands of one deploying thread at a time.
LEMMA OneDeployer ==
  ASSUME TypeOK, Roles, NEW t \in Threads \ Admins, NEW u \in Threads \ Admins, t # u,
         pc[t] \in Working, pc[u] \in Working
  PROVE  cur[t] # cur[u]
<1>1. /\ t \in Owners \cup {Engine} /\ u \in Owners \cup {Engine}
      /\ cur[t] \in RuleSets /\ cur[u] \in RuleSets
  BY Kinds, Types DEF Roles, RoleOf, BystanderRole, Working
<1>2. Concerned(t, cur[t]) /\ Concerned(u, cur[u])
  BY DEF Concerned
<1>3. CASE t = Engine \/ u = Engine
  BY <1>1, <1>2, <1>3 DEF Roles, EngineFollowsOwners
<1>4. CASE t # Engine /\ u # Engine
  <2>1. t \in Owners /\ u \in Owners /\ cur[t] \in OwnRules(t) /\ cur[u] \in OwnRules(u)
    BY <1>1, <1>4 DEF Roles, RoleOf, OwnerRole
  <2> QED BY <2>1, Kinds DEF OwnRules, Owners
<1> QED BY <1>3, <1>4

\* Only the rule set a thread writes gets a row.
LEMMA RowsOfOthers ==
  ASSUME TypeOK, NEW t \in Threads, WriteRow(t)
  PROVE  \A b \in RuleSets \ {cur[t]} : HasRow(b)' <=> HasRow(b)
<1>1. \A b \in RuleSets \ {cur[t]} : rows'[b] = rows[b]
  BY WrittenRows
<1> QED BY <1>1 DEF HasRow

\* At first nobody writes.
LEMMA RowsInit == Init => RowsAreExpected
BY DEF Init, RowsAreExpected

\* What a thread found out before it writes stays true until it does, or it is overtaken.
LEMMA ExpectationStep ==
  ASSUME ~StoreIsLate, TypeOK, TypeOK', Roles, RowsAreExpected, [Next]_vars
  PROVE  RowsAreExpected'
<1> USE Kinds, Types DEF Goto
<1>1. CASE NoNewWriter
  BY <1>1 DEF NoNewWriter, RowsAreExpected, HasRow
<1>2. ASSUME NEW t \in Threads, Find(t) PROVE RowsAreExpected'
  BY <1>2 DEF Find, RowsAreExpected, HasRow, rowsAndSchema
<1>3. ASSUME NEW t \in Threads, LookUp(t) PROVE RowsAreExpected'
  BY <1>3 DEF LookUp, RowsAreExpected, HasRow, rowsAndSchema
<1>4. ASSUME NEW t \in Threads, WriteRow(t) PROVE RowsAreExpected'
  <2>1. /\ pc[t] = "write" /\ pc' = [pc EXCEPT ![t] = "tell"] /\ UNCHANGED <<schema, cur, blind>>
        /\ seen' = [seen EXCEPT ![t] = FALSE]
        /\ overtaken' = IF HasRow(cur[t]) THEN overtaken ELSE overtaken \cup Overtaken(t)
    BY <1>4 DEF WriteRow
  <2>2. ASSUME NEW u \in Threads, pc'[u] \in {"save", "write"}
        PROVE  /\ HasRow(cur[u]) => HasRow(cur[u])'
               /\ u \in overtaken => u \in overtaken'
               /\ u \in overtaken' \/ (HasRow(cur[u])' <=> HasRow(cur[u]))
    <3>1. u # t /\ pc'[u] = pc[u] /\ cur'[u] = cur[u] /\ cur[u] \in RuleSets
      BY <2>1, <2>2
    <3>2. HasRow(cur[u]) => HasRow(cur[u])'
      BY <1>4, <3>1, RowsStay DEF HasRow
    <3>3. CASE cur[u] # cur[t]
      BY <1>4, <2>1, <3>1, <3>3, RowsOfOthers DEF HasRow
    <3>4. CASE cur[u] = cur[t] /\ HasRow(cur[t])
      BY <2>1, <3>2, <3>4
    <3>5. CASE cur[u] = cur[t] /\ ~HasRow(cur[t])
      <4>1. {t, u} \cap Admins # {}
        BY <2>1, <2>2, <3>1, <3>5, OneDeployer DEF Working
      <4>2. u \in Overtaken(t)
        BY <2>2, <3>1, <3>5, <4>1 DEF Overtaken
      <4> QED BY <2>1, <3>2, <3>5, <4>2
    <3> QED BY <3>2, <3>3, <3>4, <3>5
  <2>3. \A u \in Threads : pc'[u] \in {"save", "write"} =>
          u # t /\ pc'[u] = pc[u] /\ cur'[u] = cur[u] /\ seen'[u] = seen[u]
    BY <2>1
  <2> QED BY <2>1, <2>2, <2>3 DEF RowsAreExpected
<1>5. ASSUME NEW a \in Admins, NEW b \in RuleSets, SaveRuleSet(a, b) PROVE RowsAreExpected'
  BY <1>5 DEF SaveRuleSet, RowsAreExpected, HasRow, rowsAndSchema
<1> QED BY <1>1, <1>2, <1>3, <1>4, <1>5, OtherStepsMakeNoWriter

\* Only WriteRow changes rows.
LEMMA RowsChange == TypeOK /\ [Next]_vars => UNCHANGED rows \/ \E t \in Threads : WriteRow(t)
BY OtherStepsMakeNoWriter DEF NoNewWriter, Find, LookUp, SaveRuleSet, rowsAndSchema

\* A step that gives a rule set with a row another one is that of a thread that was overtaken.
LEMMA DuplicationStep ==
  ASSUME TypeOK, RowsAreExpected, [Next]_vars
  PROVE  \A b \in RuleSets : HasRow(b) /\ RowsOf(b)' > RowsOf(b) =>
           \E t \in overtaken : pc[t] = "write" /\ cur[t] = b
<1> SUFFICES ASSUME NEW b \in RuleSets, HasRow(b), RowsOf(b)' > RowsOf(b)
             PROVE  \E t \in overtaken : pc[t] = "write" /\ cur[t] = b
  OBVIOUS
<1>1. RowsOf(b) \in Nat /\ rows'[b] # rows[b]
  BY DEF TypeOK, Authors, RowsOf
<1>2. PICK t \in Threads : WriteRow(t)
  BY <1>1, RowsChange
<1>3. b = cur[t]
  BY <1>1, <1>2, WrittenRows
<1>4. ~seen[t]
  <2>1. seen[t] => RowsOf(b)' = RowsOf(b) + 0
    BY <1>2, <1>3, WrittenRows DEF RowsOf
  <2> QED BY <1>1, <2>1
<1>5. pc[t] = "write"
  BY <1>2 DEF WriteRow, Goto
<1>6. t \in overtaken
  BY <1>3, <1>4, <1>5 DEF RowsAreExpected
<1> QED BY <1>3, <1>5, <1>6

\* A step that replaces an edited rule set is that of a thread that looked without a schema, or
\* was overtaken.
LEMMA EditsStep ==
  ASSUME TypeOK, RowsAreExpected, [Next]_vars
  PROVE  \A b \in RuleSets : rows[b]["admin"] > 0 /\ rows'[b]["admin"] = 0 =>
           \E t \in blind \cup overtaken : pc[t] = "write" /\ cur[t] = b
<1> SUFFICES ASSUME NEW b \in RuleSets, rows[b]["admin"] > 0, rows'[b]["admin"] = 0
             PROVE  \E t \in blind \cup overtaken : pc[t] = "write" /\ cur[t] = b
  OBVIOUS
<1>1. rows # rows' /\ rows[b]["admin"] \in Nat
  BY DEF TypeOK, Authors
<1>2. PICK t \in Threads : WriteRow(t)
  BY <1>1, RowsChange
<1>3. b = cur[t]
  <2>1. \A c \in RuleSets \ {cur[t]} : rows'[c] = rows[c]
    BY <1>2, WrittenRows
  <2> QED BY <2>1
<1>4. t \notin Admins
  <2>1. t \in Admins => rows'[b]["admin"] >= rows[b]["admin"]
    BY <1>2, <1>3, WrittenRows
  <2>2. ~(rows'[b]["admin"] >= rows[b]["admin"])
    BY <1>1
  <2> QED BY <2>1, <2>2
<1>5. pc[t] = "write" /\ HasRow(cur[t])
  BY <1>2, <1>3 DEF WriteRow, Goto, HasRow, Authors
<1>6. t \in blind \cup overtaken
  BY <1>4, <1>5 DEF RowsAreExpected
<1> QED BY <1>3, <1>5, <1>6

\* All that is needed of a state.
LEMMA RuleInvariantHolds ==
  ASSUME ~StoreIsLate
  PROVE  Spec => [](TypeOK /\ RuleInvariant)
<1>1. Init => TypeOK /\ RuleInvariant
  BY TypeInit, RolesInit, RowsInit DEF RuleInvariant
<1>2. TypeOK /\ RuleInvariant /\ [Next]_vars => TypeOK' /\ RuleInvariant'
  <2> SUFFICES ASSUME TypeOK, RuleInvariant, [Next]_vars PROVE TypeOK' /\ RuleInvariant'
    OBVIOUS
  <2>1. TypeOK'
    BY TypeStep
  <2>2. Roles'
    BY RolesStep DEF RuleInvariant
  <2>3. RowsAreExpected'
    BY <2>1, ExpectationStep DEF RuleInvariant
  <2> QED BY <2>1, <2>2, <2>3 DEF RuleInvariant
<1> QED BY <1>1, <1>2, PTL DEF Spec

\* If the store is there when the provider is activated, then for any rule sets, builders that
\* come and go, edits, failures and restarts: a second row of a rule set is that of a thread whose
\* save an administrator's met before there was a first one.
THEOREM DuplicatesHaveACause == ASSUME ~StoreIsLate PROVE Spec => OnlyEarlySavesDuplicateRows
<1> DEFINE Single == \A b \in RuleSets : HasRow(b) /\ RowsOf(b)' > RowsOf(b) =>
                       \E t \in overtaken : pc[t] = "write" /\ cur[t] = b
<1>1. TypeOK /\ RuleInvariant /\ [Next]_vars => [Single]_vars
  BY DuplicationStep DEF RuleInvariant
<1>2. OnlyEarlySavesDuplicateRows <=> [][Single]_vars
  BY DEF OnlyEarlySavesDuplicateRows
<1> HIDE DEF Single
<1> QED BY <1>1, <1>2, RuleInvariantHolds, PTL DEF Spec

\* If the store is there when the provider is activated, an edited rule set is replaced only by a
\* thread that looked for its row before the schema was deployed, or whose save the edit met
\* before there was a row.
THEOREM EditsSurvive == ASSUME ~StoreIsLate PROVE Spec => EditedRulesSurvive
<1> DEFINE Kept == \A b \in RuleSets : rows[b]["admin"] > 0 /\ rows'[b]["admin"] = 0 =>
                     \E t \in blind \cup overtaken : pc[t] = "write" /\ cur[t] = b
<1>1. TypeOK /\ RuleInvariant /\ [Next]_vars => [Kept]_vars
  BY EditsStep DEF RuleInvariant
<1>2. EditedRulesSurvive <=> [][Kept]_vars
  BY DEF EditedRulesSurvive
<1> HIDE DEF Kept
<1> QED BY <1>1, <1>2, RuleInvariantHolds, PTL DEF Spec
-----------------------------------------------------------------------------
(* Locks *)

\* A thread in a call, and what it may wait for: the guards of its steps that ask for a lock.
InCall(t) == pc[t] \notin {"idle", "done", "removed", "failed"}
Waits(t) ==
  \/ pc[t] \in {"available", "tell"} /\ ~MayRead(t, "listeners")
  \/ pc[t] = "queued" /\ ~MayWrite(t, "listeners")
  \/ pc[t] = "list" /\ ~MayRead(t, "ruleBuilders")
  \/ pc[t] \in {"stores", "unstore"} /\ ~MayRead(t, "dataStores")
  \/ pc[t] = "adding" /\ ~MayWrite(t, "ruleBuilders") /\ ~(Present \subseteq ruleBuilders)

\* All threads that are in a call wait for each other.
Stuck == (\E t \in Threads : InCall(t)) /\ \A t \in Threads : InCall(t) => Waits(t)

\* Another component that is to become a listener of the store is queued meanwhile: the engine's
\* thread, which reads the listeners, waits behind it as soon as it reads them again.
OnlyListenersStopThreads == Stuck => queue \cap Others # {}

HoldsRuleBuilders == {"stores", "unstore", "next", "tell", "leave", "abort"} \cup Working
HoldsDataStores == {"queued", "ready", "list", "next", "leave", "abort"}
ReadsListeners == {"list", "next", "tell", "leave", "abort"} \cup Working

\* Who has which lock, and where: that of the data stores is written before the tracker of rule
\* builders is opened, and theirs afterwards.
LocksAreHeld ==
  /\ writer["listeners"] = NoThread /\ readers["ruleBuilders"] = {}
  /\ \A t \in Threads : t \in queue <=> pc[t] = "queued"
  /\ \A t \in Threads : pc[t] = "available" => t = Engine
  /\ pc[Engine] # "queued"
  /\ \A t \in readers["listeners"] : t = Engine /\ pc[t] \in ReadsListeners
  /\ \A t \in Threads : writer["dataStores"] = t =>
       t = Container /\ ~opened /\ pc[t] \in HoldsDataStores
  /\ \A t \in Threads : writer["ruleBuilders"] = t =>
       t \in Owners /\ opened /\ pc[t] \in HoldsRuleBuilders

\* The steps of a thread to and from the store's lock keep that,
LEMMA LocksOfStoreSteps ==
  ASSUME TypeOK, Roles, LocksAreHeld, NEW t \in Threads, StoreSteps(t)
  PROVE  LocksAreHeld'
<1>0. RoleOf(t) BY DEF Roles
<1> USE Kinds, Types DEF Goto, HoldsRuleBuilders, HoldsDataStores, ReadsListeners, Working
<1>1. CASE AddListener(t) BY <1>1 DEF AddListener, LocksAreHeld
<1>2. CASE CheckReady(t) BY <1>2 DEF CheckReady, LocksAreHeld, provider, locks
<1>3. CASE TellListeners(t) BY <1>3 DEF TellListeners, LocksAreHeld, provider, locks
<1>4. CASE Leave(t)
  <2>1. /\ pc[t] \in {"leave", "abort"} /\ opened' = opened /\ queue' = queue
        /\ \A u \in Threads \ {t} : pc'[u] = pc[u]
        /\ pc'[t] \in {"failed", "adding", "trackers", "removed", "done"}
    BY <1>4 DEF Leave, provider
  <2>2. /\ \A l \in Locks : writer'[l] = IF writer[l] = t THEN NoThread ELSE writer[l]
        /\ \A l \in Locks : readers'[l] = readers[l] \ {t}
    BY <1>4 DEF Leave
  <2> QED BY <2>1, <2>2 DEF LocksAreHeld, Locks
<1> QED BY <1>1, <1>2, <1>3, <1>4 DEF StoreSteps

\* so do those for a builder,
LEMMA LocksOfBuilderSteps ==
  ASSUME TypeOK, Roles, LocksAreHeld, NEW t \in Threads, BuilderSteps(t)
  PROVE  LocksAreHeld'
<1> USE Kinds, Types DEF Goto, HoldsRuleBuilders, HoldsDataStores, ReadsListeners, Working
<1>1. CASE ListRuleBuilders(t) BY <1>1 DEF ListRuleBuilders, LocksAreHeld, provider, locks
<1>2. CASE EnterDataStores(t)
  <2>1. /\ readers'["listeners"] = readers["listeners"]
        /\ readers'["ruleBuilders"] = readers["ruleBuilders"]
    BY <1>2 DEF EnterDataStores, ReadLock, TypeOK
  <2> QED BY <1>2, <2>1 DEF EnterDataStores, LocksAreHeld, provider
<1>3. CASE Undeploy(t) BY <1>3 DEF Undeploy, LocksAreHeld, provider, locks
<1>4. CASE AllDeployed(t) BY <1>4 DEF AllDeployed, LocksAreHeld, provider, locks
<1> QED BY <1>1, <1>2, <1>3, <1>4 DEF BuilderSteps

\* with a rule set,
LEMMA LocksOfRowSteps ==
  ASSUME TypeOK, Roles, LocksAreHeld, NEW t \in Threads, RowSteps(t)
  PROVE  LocksAreHeld'
<1>0. RoleOf(t) BY DEF Roles
<1> USE Kinds, Types
    DEF Goto, HoldsRuleBuilders, HoldsDataStores, ReadsListeners, Working, provider, locks
<1>1. ASSUME NEW b \in RuleSets, NextRuleSet(t, b) PROVE LocksAreHeld'
  <2>1. t = Container => opened
    BY <1>0, <1>1 DEF NextRuleSet, RoleOf, TrackerRole
  <2> QED BY <1>1, <2>1 DEF NextRuleSet, LocksAreHeld
<1>2. CASE Find(t) BY <1>2 DEF Find, LocksAreHeld
<1>3. CASE LookUp(t) BY <1>3 DEF LookUp, LocksAreHeld
<1>4. CASE WriteRow(t) BY <1>4 DEF WriteRow, LocksAreHeld
<1>5. CASE WriteFails(t) BY <1>5 DEF WriteFails, LocksAreHeld
<1> QED BY <1>1, <1>2, <1>3, <1>4, <1>5 DEF RowSteps

\* the trackers' steps,
LEMMA LocksOfContainerSteps ==
  ASSUME ~StoreIsLate, TypeOK, Roles, LocksAreHeld, ContainerSteps
  PROVE  LocksAreHeld'
<1>0. \A t \in Threads : RoleOf(t) BY DEF Roles
<1> USE Kinds, Types DEF Goto, HoldsRuleBuilders, HoldsDataStores, ReadsListeners, Working
<1>1. CASE OpenRuleBuilderTracker
  BY <1>1 DEF OpenRuleBuilderTracker, LocksAreHeld, locks
<1>2. CASE AllPresentAdded
  BY <1>2 DEF AllPresentAdded, LocksAreHeld, provider, locks
<1>3. ASSUME NEW t \in Trackers, AddDataStore(t) PROVE LocksAreHeld'
  <2>1. t = Container /\ ~opened
    BY <1>0, <1>3 DEF Trackers, AddDataStore, RoleOf, TrackerRole
  <2>2. /\ writer'["dataStores"] = t
        /\ \A l \in Locks \ {"dataStores"} : writer'[l] = writer[l]
    BY <1>3 DEF AddDataStore, WriteLock, Locks
  <2> QED BY <1>3, <2>1, <2>2 DEF AddDataStore, LocksAreHeld, Locks
<1>4. ASSUME NEW t \in Threads, NEW b \in RuleSets, AddRuleBuilder(t, b) PROVE LocksAreHeld'
  <2>1. t \in Owners /\ opened /\ pc[t] \in {"adding", "idle"}
    BY <1>0, <1>4 DEF AddRuleBuilder, RoleOf, TrackerRole, Owners
  <2>2. /\ writer'["ruleBuilders"] = t
        /\ \A l \in Locks \ {"ruleBuilders"} : writer'[l] = writer[l]
    BY <1>4 DEF AddRuleBuilder, WriteLock, Locks
  <2> QED BY <1>4, <2>1, <2>2 DEF AddRuleBuilder, LocksAreHeld, Locks
<1>5. ASSUME NEW t \in Late, RemoveRuleBuilder(t) PROVE LocksAreHeld'
  <2>1. t \in Owners /\ opened /\ pc[t] = "done"
    BY <1>0, <1>5 DEF RemoveRuleBuilder, RoleOf, TrackerRole, Owners
  <2>2. /\ writer'["ruleBuilders"] = t
        /\ \A l \in Locks \ {"ruleBuilders"} : writer'[l] = writer[l]
    BY <1>5 DEF RemoveRuleBuilder, WriteLock, Locks
  <2> QED BY <1>5, <2>1, <2>2 DEF RemoveRuleBuilder, LocksAreHeld, Locks
<1> QED BY <1>1, <1>2, <1>3, <1>4, <1>5 DEF ContainerSteps

\* and all other steps.
LEMMA LocksOfOtherSteps ==
  ASSUME TypeOK, Roles, LocksAreHeld, OtherSteps
  PROVE  LocksAreHeld'
<1> USE Kinds, Types DEF Goto, HoldsRuleBuilders, HoldsDataStores, ReadsListeners, Working
<1>1. CASE DeploySchema BY <1>1 DEF DeploySchema, LocksAreHeld, provider, locks
<1>2. CASE SchemaDeployed
  <2>1. /\ readers'["listeners"] = readers["listeners"] \cup {Engine}
        /\ readers'["ruleBuilders"] = readers["ruleBuilders"]
    BY <1>2 DEF SchemaDeployed, ReadLock, TypeOK, Locks
  <2> QED BY <1>2, <2>1 DEF SchemaDeployed, LocksAreHeld, provider
<1>3. CASE Restart
  <2>1. /\ \A l \in Locks : writer'[l] = NoThread /\ readers'[l] = {}
        /\ queue' = {} /\ \A t \in Threads : pc'[t] \in {"idle", "done"}
    BY <1>3 DEF Restart
  <2> QED BY <2>1 DEF LocksAreHeld, Locks
<1>4. CASE UNCHANGED vars BY <1>4 DEF vars, LocksAreHeld, provider, locks
<1>5. ASSUME NEW a \in Admins, NEW b \in RuleSets, SaveRuleSet(a, b) PROVE LocksAreHeld'
  <2>1. /\ readers'["listeners"] = readers["listeners"]
        /\ readers'["ruleBuilders"] = readers["ruleBuilders"]
    BY <1>5 DEF SaveRuleSet, ReadLock, TypeOK
  <2> QED BY <1>5, <2>1 DEF SaveRuleSet, LocksAreHeld, provider
<1>6. ASSUME NEW o \in Others, QueueOther(o) PROVE LocksAreHeld'
  BY <1>6 DEF QueueOther, LocksAreHeld, provider
<1> QED BY <1>1, <1>2, <1>3, <1>4, <1>5, <1>6 DEF OtherSteps

\* Then nobody waits in a circle: who has the lock of the rule builders waits for that of the data
\* stores only while somebody writes it, and that is over once the tracker is opened.
LEMMA SomebodyCanGoOn ==
  ASSUME TypeOK, Roles, LocksAreHeld
  PROVE  OnlyListenersStopThreads
<1> SUFFICES ASSUME Stuck, queue \cap Others = {} PROVE FALSE
  BY DEF OnlyListenersStopThreads
<1>0. /\ \A t \in Threads : RoleOf(t)
      /\ \A l \in Locks : writer[l] \in Threads \cup {NoThread}
      /\ queue \subseteq Threads
  BY DEF Roles, TypeOK
<1>1. \A t \in Threads : InCall(t) => Waits(t)
  BY DEF Stuck
\* The tracker is open while somebody has the lock of the rule builders; then nobody writes that
\* of the data stores, and the owner waits for no listener but one that is queued.
<1>2. writer["dataStores"] # NoThread => writer["dataStores"] = Container /\ ~opened
  BY <1>0 DEF LocksAreHeld, Locks
<1>3. ASSUME queue = {}, writer["ruleBuilders"] # NoThread PROVE FALSE
  <2>1. PICK u \in Threads : u = writer["ruleBuilders"]
    BY <1>0, <1>3 DEF Locks
  <2>2. opened /\ pc[u] \in HoldsRuleBuilders
    BY <2>1 DEF LocksAreHeld
  <2>3. Waits(u)
    BY <1>1, <2>2 DEF InCall, HoldsRuleBuilders, Working
  <2>4. MayRead(u, "listeners") /\ MayRead(u, "dataStores")
    BY <1>2, <1>3, <2>2 DEF MayRead, LocksAreHeld
  <2> QED BY <2>2, <2>3, <2>4 DEF Waits, HoldsRuleBuilders, Working
\* So nobody waits if nobody is queued:
<1>4. ASSUME queue = {} PROVE FALSE
  <2>1. PICK t \in Threads : InCall(t) /\ Waits(t)
    BY <1>1 DEF Stuck
  <2>2. writer["ruleBuilders"] = NoThread
    BY <1>3, <1>4
  <2>3. MayRead(t, "listeners") /\ MayRead(t, "ruleBuilders") /\ MayWrite(t, "ruleBuilders")
    BY <1>4, <2>2 DEF MayRead, MayWrite, LocksAreHeld
  <2>4. pc[t] # "queued"
    BY <1>4 DEF LocksAreHeld
  <2>5. pc[t] \in {"stores", "unstore"} /\ writer["dataStores"] = Container /\ ~opened
    BY <1>2, <2>1, <2>3, <2>4 DEF Waits, MayRead
  <2>6. pc[Container] \in HoldsDataStores
    BY <2>5, Kinds DEF LocksAreHeld
  <2>7. Waits(Container)
    BY <1>1, <2>6, Kinds DEF InCall, HoldsDataStores
  <2>8. MayRead(Container, "ruleBuilders")
    BY <2>2 DEF MayRead
  <2>9. pc[Container] # "queued"
    BY <1>4, Kinds DEF LocksAreHeld
  <2> QED BY <2>6, <2>7, <2>8, <2>9 DEF Waits, HoldsDataStores
\* And if the container's thread is, it waits for the engine's, which can go on.
<1>5. ASSUME queue # {} PROVE FALSE
  <2>1. PICK t \in Threads : t \in queue /\ pc[t] = "queued"
    BY <1>0, <1>5 DEF LocksAreHeld
  <2>2. t = Container
    <3>1. t # StoreThread /\ t \notin Admins \cup Late
      BY <1>0, <2>1 DEF RoleOf, BystanderRole, TrackerRole
    <3>2. t \notin Others /\ t # Engine
      BY <2>1 DEF LocksAreHeld
    <3> QED BY <3>1, <3>2, Kinds DEF Owners
  <2>3. ~opened
    BY <1>0, <2>1, <2>2 DEF RoleOf, TrackerRole
  <2>4. Waits(t)
    BY <1>1, <2>1 DEF InCall
  <2>5. PICK u \in readers["listeners"] : u = Engine /\ pc[u] \in ReadsListeners
    BY <2>1, <2>4 DEF Waits, MayWrite, LocksAreHeld
  <2>6. Waits(Engine)
    BY <1>1, <2>5, Kinds DEF InCall, ReadsListeners, Working
  <2>7. MayRead(Engine, "listeners")
    BY <2>5 DEF MayRead, LocksAreHeld
  <2>8. writer["ruleBuilders"] = NoThread
    BY <1>0, <2>3 DEF LocksAreHeld, Locks
  <2>9. MayRead(Engine, "ruleBuilders")
    BY <2>8 DEF MayRead
  <2> QED BY <2>5, <2>6, <2>7, <2>9 DEF Waits, ReadsListeners, Working
<1> QED BY <1>4, <1>5

\* If the store is there when the provider is activated, the three locks alone never stop all who
\* are in a call, however builders, edits, failures and restarts interleave: only a further
\* component that waits to become a listener of the store can be part of such a circle.
THEOREM LocksAreReleased == ASSUME ~StoreIsLate PROVE Spec => []OnlyListenersStopThreads
<1>1. Init => LocksAreHeld
  BY Kinds DEF Init, LocksAreHeld, Locks
<1>2. TypeOK /\ RuleInvariant /\ LocksAreHeld /\ [Next]_vars => LocksAreHeld'
  BY StepsAre, LocksOfStoreSteps, LocksOfBuilderSteps, LocksOfRowSteps, LocksOfContainerSteps,
     LocksOfOtherSteps DEF RuleInvariant
<1>3. TypeOK /\ RuleInvariant /\ LocksAreHeld => OnlyListenersStopThreads
  BY SomebodyCanGoOn DEF RuleInvariant
<1> QED BY <1>1, <1>2, <1>3, RuleInvariantHolds, PTL DEF Spec
=============================================================================
