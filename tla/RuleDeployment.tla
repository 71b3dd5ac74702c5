--------------------------- MODULE RuleDeployment ---------------------------
(***************************************************************************)
(* Deployment of the validation rules (validation-rules).  The provider    *)
(* tracks the data store and the rule builders: the rule set of a builder  *)
(* gets a row in the store unless it has one, either when the builder is   *)
(* added or when the store tells that it is ready.  Rule sets are edited   *)
(* through the provider, which makes a row where there is none yet; edited *)
(* ones must not be replaced by the builders'.                             *)
(*                                                                         *)
(* Three read-write locks are involved: those of the provider's data       *)
(* stores and rule builders, and the store's lock of its listeners.        *)
(***************************************************************************)
EXTENDS Naturals, FiniteSets

CONSTANTS
  Engine,       \* the thread that deploys the schema
  Container,    \* the thread that activates the provider, which opens its trackers
  StoreThread,  \* the thread that registers the data store, if it comes late
  StoreIsLate,  \* is the store registered after the provider's tracker was opened?
  Present,      \* rule sets whose builders are there when the provider is activated
  Late,         \* rule sets whose builders come later, each on a thread of its own
  Admins,       \* threads that edit a rule set
  Others,       \* threads that add another listener to the store
  NoThread,
  MaxFaults     \* bound: rows the database refuses, restarts and crashes of the process

RuleSets == Present \cup Late
Threads == {Engine, Container, StoreThread} \cup Late \cup Admins \cup Others
Trackers == IF StoreIsLate THEN {StoreThread} ELSE {Container}
Locks == {"dataStores", "ruleBuilders", "listeners"}
Authors == {"builder", "admin"}

ASSUME ThreadAssumption ==
  /\ Engine # Container /\ Engine # StoreThread /\ Container # StoreThread
  /\ {Engine, Container, StoreThread} \cap (Late \cup Admins \cup Others) = {}
  /\ Late \cap Admins = {} /\ Late \cap Others = {} /\ Admins \cap Others = {}
  /\ NoThread \notin Threads

ASSUME RuleSetAssumption ==
  Present \cap Late = {} /\ RuleSets # {} /\ StoreIsLate \in BOOLEAN

ASSUME BoundAssumption == MaxFaults \in Nat

VARIABLES
  rows,          \* rows of a rule set's name, by who wrote them last
  schema,        \* is the schema deployed?
  dataStores,    \* RuleBuilderProviderImpl.dataStores: is the store in the list?
  listening,     \* is the provider among the listeners of the store?
  opened,        \* is the tracker of rule builders open?
  ruleBuilders,  \* RuleBuilderProviderImpl.ruleBuilders
  writer, readers, queue,  \* the locks; threads queued to write "listeners"
  pc, todo, cur, seen,     \* a thread's rule sets, the one at hand, has it a row?
  blind,         \* history: threads that looked for a row when there was no schema
  overtaken,     \* history: threads whose rule set got its first row while they were saving it
  failures, restarts

rowsAndSchema == <<rows, schema>>
provider == <<dataStores, listening, opened, ruleBuilders>>
locks == <<writer, readers, queue>>
locals == <<todo, cur, seen, blind, overtaken>>
bounds == <<failures, restarts>>
vars == <<rowsAndSchema, provider, locks, pc, locals, bounds>>

\* The provider listens to the store, or is about to, only if it has it in its list.
ListenersAreListed == (listening \/ \E t \in Trackers : pc[t] = "queued") => dataStores

\* Locks and trackers hold whom the code can put there, and the store that calls
\* the provider is one of those the provider writes to.
TypeOK ==
  /\ rows \in [RuleSets -> [Authors -> Nat]]
  /\ schema \in BOOLEAN /\ dataStores \in BOOLEAN /\ listening \in BOOLEAN /\ opened \in BOOLEAN
  /\ ruleBuilders \subseteq RuleSets
  /\ writer \in [Locks -> Threads \cup {NoThread}]
  /\ readers \in [Locks -> SUBSET Threads] /\ queue \subseteq Threads
  /\ pc \in [Threads -> {"idle", "available", "queued", "ready", "list", "trackers", "adding", "stores",
                         "unstore", "next", "find", "save", "write", "tell", "leave", "abort",
                         "done", "removed", "failed"}]
  /\ todo \in [Threads -> SUBSET RuleSets]
  /\ cur \in [Threads -> RuleSets]
  /\ seen \in [Threads -> BOOLEAN] /\ blind \subseteq Threads /\ overtaken \subseteq Threads
  /\ failures \in Nat /\ restarts \in Nat /\ failures + restarts <= MaxFaults
  /\ ListenersAreListed

AnyRuleSet == CHOOSE b \in RuleSets : TRUE

Init ==
  /\ rows = [b \in RuleSets |-> [a \in Authors |-> 0]]
  /\ schema = FALSE /\ dataStores = FALSE /\ listening = FALSE
  /\ opened = FALSE /\ ruleBuilders = {}
  /\ writer = [l \in Locks |-> NoThread]
  /\ readers = [l \in Locks |-> {}]
  /\ queue = {}
  /\ pc = [t \in Threads |-> "idle"]
  /\ todo = [t \in Threads |-> {}]
  /\ cur = [t \in Threads |-> AnyRuleSet]
  /\ seen = [t \in Threads |-> FALSE] /\ blind = {} /\ overtaken = {}
  /\ failures = 0 /\ restarts = 0

Goto(t, from, to) == pc[t] = from /\ pc' = [pc EXCEPT ![t] = to]
HasRow(b) == \E a \in Authors : rows[b][a] > 0
RowsOf(b) == rows[b]["builder"] + rows[b]["admin"]

(***************************************************************************)
(* ReentrantReadWriteLock: who writes may read; who reads may read again,  *)
(* others wait behind a queued writer.                                     *)
(***************************************************************************)
MayWrite(t, l) == writer[l] = NoThread /\ readers[l] = {}
MayRead(t, l) ==
  /\ writer[l] \in {NoThread, t}
  /\ l = "listeners" => queue = {} \/ t \in readers[l]

WriteLock(t, l) == MayWrite(t, l) /\ writer' = [writer EXCEPT ![l] = t]
ReadLock(t, l) == MayRead(t, l) /\ readers' = [readers EXCEPT ![l] = @ \cup {t}]

(***************************************************************************)
(* The schema is deployed; the store calls its listeners.                  *)
(***************************************************************************)

DeploySchema ==
  /\ Goto(Engine, "idle", "available")
  /\ schema' = TRUE
  /\ UNCHANGED <<rows, provider, locks, locals, bounds>>

\* schemaDeployed(): dataStoreIsReady() of the listeners, under the read lock.
SchemaDeployed ==
  /\ ReadLock(Engine, "listeners")
  /\ Goto(Engine, "available", IF listening THEN "list" ELSE "leave")
  /\ UNCHANGED <<rowsAndSchema, provider, writer, queue, locals, bounds>>

\* Slip: the map of the rule builders is read without its lock.
ListUnlocked(t) ==
  /\ Goto(t, "list", "next")
  /\ todo' = [todo EXCEPT ![t] = ruleBuilders]
  /\ UNCHANGED <<rowsAndSchema, provider, locks, cur, seen, blind, overtaken, bounds>>

\* dataStoreIsReady(): getAllRuleBuilders() copies the map under its lock.
ListRuleBuilders(t) ==
  /\ MayRead(t, "ruleBuilders")
  /\ Goto(t, "list", "next")
  /\ todo' = [todo EXCEPT ![t] = ruleBuilders]
  /\ UNCHANGED <<rowsAndSchema, provider, locks, cur, seen, blind, overtaken, bounds>>

(***************************************************************************)
(* The provider's tracker of data stores: addingService() and init().      *)
(***************************************************************************)

\* Slip: the store is not added to the list.
AddDataStoreUnlisted(t) ==
  /\ t \in Trackers
  /\ WriteLock(t, "dataStores")
  /\ Goto(t, "idle", "queued")
  /\ queue' = queue \cup {t}
  /\ UNCHANGED <<rowsAndSchema, provider, readers, locals, bounds>>

\* The store joins the list, and the thread waits to become its listener.
AddDataStore(t) ==
  /\ t \in Trackers
  /\ WriteLock(t, "dataStores")
  /\ Goto(t, "idle", "queued")
  /\ dataStores' = TRUE
  /\ queue' = queue \cup {t}
  /\ UNCHANGED <<rowsAndSchema, listening, opened, ruleBuilders, readers, locals, bounds>>

\* Slip: the provider is not added to the listeners.
ListenSilently(t) ==
  /\ MayWrite(t, "listeners")
  /\ Goto(t, "queued", IF t \in Others THEN "done" ELSE "ready")
  /\ queue' = queue \ {t}
  /\ UNCHANGED <<rowsAndSchema, provider, writer, readers, locals, bounds>>

\* addListener() of the store.
AddListener(t) ==
  /\ MayWrite(t, "listeners")
  /\ Goto(t, "queued", IF t \in Others THEN "done" ELSE "ready")
  /\ queue' = queue \ {t}
  /\ listening' = (listening \/ t \in Trackers)
  /\ UNCHANGED <<rowsAndSchema, dataStores, opened, ruleBuilders, writer, readers, locals, bounds>>

\* if (dataStore.isReady()) dataStoreIsReady(dataStore)
CheckReady(t) ==
  /\ Goto(t, "ready", IF schema THEN "list" ELSE "leave")
  /\ UNCHANGED <<rowsAndSchema, provider, locks, locals, bounds>>

\* Another component becomes a listener of the store.
QueueOther(o) ==
  /\ Goto(o, "idle", "queued")
  /\ queue' = queue \cup {o}
  /\ UNCHANGED <<rowsAndSchema, provider, writer, readers, locals, bounds>>

(***************************************************************************)
(* addRuleBuilder() and removeRuleBuilder(), called by the other tracker.  *)
(***************************************************************************)

\* ruleBuilderTracker.open() follows dataStoreTracker.open().
OpenRuleBuilderTracker ==
  /\ Goto(Container, IF StoreIsLate THEN "idle" ELSE "trackers", "adding")
  /\ opened' = TRUE
  /\ UNCHANGED <<rowsAndSchema, dataStores, listening, ruleBuilders, locks, locals, bounds>>

AddRuleBuilder(t, b) ==
  /\ \/ t = Container /\ pc[t] = "adding" /\ b \in Present \ ruleBuilders
     \/ t = b /\ t \in Late /\ pc[t] = "idle" /\ opened
  /\ WriteLock(t, "ruleBuilders")
  /\ ruleBuilders' = ruleBuilders \cup {b}
  /\ pc' = [pc EXCEPT ![t] = "stores"]
  /\ cur' = [cur EXCEPT ![t] = b]
  /\ UNCHANGED <<rowsAndSchema, dataStores, listening, opened, readers, queue, todo, seen, blind, overtaken, bounds>>

\* _deployRulesOfRuleBuilder() goes through the data stores, if there are any.
EnterDataStores(t) ==
  /\ ReadLock(t, "dataStores")
  /\ Goto(t, "stores", "next")
  /\ todo' = [todo EXCEPT ![t] = IF dataStores THEN {cur[t]} ELSE {}]
  /\ UNCHANGED <<rowsAndSchema, provider, writer, queue, cur, seen, blind, overtaken, bounds>>

AllPresentAdded ==
  /\ Goto(Container, "adding", "done")
  /\ Present \subseteq ruleBuilders
  /\ UNCHANGED <<rowsAndSchema, provider, locks, locals, bounds>>

RemoveRuleBuilder(t) ==
  /\ t \in Late
  /\ WriteLock(t, "ruleBuilders")
  /\ Goto(t, "done", "unstore")
  /\ ruleBuilders' = ruleBuilders \ {t}
  /\ UNCHANGED <<rowsAndSchema, dataStores, listening, opened, readers, queue, locals, bounds>>

\* undeployRulesOfRuleBuilder() calls delete(d) when d is null: a row that is
\* there stays, and for one that is not there delete() throws.
Undeploy(t) ==
  /\ MayRead(t, "dataStores")
  /\ Goto(t, "unstore", IF dataStores /\ schema /\ ~HasRow(t) THEN "abort" ELSE "leave")
  /\ UNCHANGED <<rowsAndSchema, provider, locks, locals, bounds>>

(***************************************************************************)
(* The rule sets of a thread, one after the other.                         *)
(***************************************************************************)

NextRuleSet(t, b) ==
  /\ b \in todo[t]
  /\ Goto(t, "next", "find")
  /\ todo' = [todo EXCEPT ![t] = @ \ {b}]
  /\ cur' = [cur EXCEPT ![t] = b]
  /\ UNCHANGED <<rowsAndSchema, provider, locks, seen, blind, overtaken, bounds>>

\* Slip: what is in the store is overwritten.
FindOverwrites(t) ==
  /\ Goto(t, "find", "save")
  /\ UNCHANGED <<rowsAndSchema, provider, locks, locals, bounds>>

\* if (d == null) saveRuleSetToDataStore(rs, dataStore)
Find(t) ==
  /\ Goto(t, "find", IF schema /\ HasRow(cur[t]) THEN "next" ELSE "save")
  /\ blind' = IF schema THEN blind \ {t} ELSE blind \cup {t}
  /\ overtaken' = overtaken \ {t}
  /\ UNCHANGED <<rowsAndSchema, provider, locks, todo, cur, seen, bounds>>

\* saveRuleSetToDataStore() and create() look again; a store without a schema
\* ignores create().
LookUp(t) ==
  /\ Goto(t, "save", IF schema THEN "write" ELSE "next")
  /\ seen' = [seen EXCEPT ![t] = schema /\ HasRow(cur[t])]
  /\ UNCHANGED <<rowsAndSchema, provider, locks, todo, cur, blind, overtaken, bounds>>

\* A row of one author gets another.
Rewritten(row, from, to) == [[row EXCEPT ![from] = @ - 1] EXCEPT ![to] = @ + 1]

Author(t) == IF t \in Admins THEN "admin" ELSE "builder"

\* An administrator and a builder, or two administrators, save the same rule set.
Overtaken(t) ==
  {u \in Threads \ {t} :
     pc[u] \in {"save", "write"} /\ cur[u] = cur[t] /\ {t, u} \cap Admins # {}}

\* The row found is updated (one of them, if there are several), or a new one persisted.
WriteRow(t) ==
  LET b == cur[t] IN
  /\ Goto(t, "write", "tell")
  /\ IF seen[t]
       THEN \E a \in Authors :
              rows[b][a] > 0 /\ rows' = [rows EXCEPT ![b] = Rewritten(rows[b], a, Author(t))]
       ELSE rows' = [rows EXCEPT ![b][Author(t)] = @ + 1]
  /\ seen' = [seen EXCEPT ![t] = FALSE]
  /\ overtaken' = IF HasRow(b) THEN overtaken ELSE overtaken \cup Overtaken(t)
  /\ UNCHANGED <<schema, provider, locks, todo, cur, blind, bounds>>

\* The exception leaves addRuleBuilder(), schemaDeployed() or saveRuleSet().
WriteFails(t) ==
  /\ Goto(t, "write", "abort")
  /\ failures + restarts < MaxFaults
  /\ failures' = failures + 1
  /\ todo' = [todo EXCEPT ![t] = {}]
  /\ seen' = [seen EXCEPT ![t] = FALSE]
  /\ UNCHANGED <<rowsAndSchema, provider, locks, cur, blind, overtaken, restarts>>

\* The store's listeners are told of the row; the provider ignores its own rows.
TellListeners(t) ==
  /\ MayRead(t, "listeners")
  /\ Goto(t, "tell", "next")
  /\ blind' = blind \ {t} /\ overtaken' = overtaken \ {t}
  /\ UNCHANGED <<rowsAndSchema, provider, locks, todo, cur, seen, bounds>>

AllDeployed(t) ==
  /\ todo[t] = {}
  /\ Goto(t, "next", "leave")
  /\ UNCHANGED <<rowsAndSchema, provider, locks, locals, bounds>>

\* The finally blocks of the thread's call.
Leave(t) ==
  /\ pc[t] \in {"leave", "abort"}
  /\ writer' = [l \in Locks |-> IF writer[l] = t THEN NoThread ELSE writer[l]]
  /\ readers' = [l \in Locks |-> readers[l] \ {t}]
  /\ pc' = [pc EXCEPT ![t] = IF pc[t] = "abort" THEN "failed"
                             ELSE IF t = Container THEN IF opened THEN "adding" ELSE "trackers"
                             ELSE IF t \in Late /\ t \notin ruleBuilders THEN "removed"
                             ELSE "done"]
  /\ cur' = [cur EXCEPT ![t] = AnyRuleSet]
  /\ blind' = blind \ {t} /\ overtaken' = overtaken \ {t}
  /\ UNCHANGED <<rowsAndSchema, provider, queue, todo, seen, bounds>>

(***************************************************************************)
(* saveRuleSet() for a POST or a PUT, which nobody checks: the rule set may *)
(* have no row yet, and without a schema the store ignores it.             *)
(***************************************************************************)
SaveRuleSet(a, b) ==
  /\ ReadLock(a, "dataStores")
  /\ Goto(a, "idle", IF dataStores THEN "save" ELSE "leave")
  /\ cur' = [cur EXCEPT ![a] = b]
  /\ UNCHANGED <<rowsAndSchema, provider, writer, queue, todo, seen, blind, overtaken, bounds>>

\* The process ends and starts again; the rows are left.
Restart ==
  /\ failures + restarts < MaxFaults
  /\ restarts' = restarts + 1
  /\ schema' = FALSE /\ dataStores' = FALSE /\ listening' = FALSE
  /\ opened' = FALSE /\ ruleBuilders' = {}
  /\ writer' = [l \in Locks |-> NoThread]
  /\ readers' = [l \in Locks |-> {}]
  /\ queue' = {}
  /\ pc' = [t \in Threads |-> IF t \in Admins /\ pc[t] # "idle" THEN "done" ELSE "idle"]
  /\ todo' = [t \in Threads |-> {}]
  /\ cur' = [t \in Threads |-> AnyRuleSet]
  /\ seen' = [t \in Threads |-> FALSE] /\ blind' = {} /\ overtaken' = {}
  /\ UNCHANGED <<rows, failures>>

Step(t) ==
  \/ ListRuleBuilders(t) \/ AddListener(t) \/ CheckReady(t) \/ EnterDataStores(t) \/ Undeploy(t)
  \/ \E b \in RuleSets : NextRuleSet(t, b)
  \/ Find(t) \/ LookUp(t) \/ WriteRow(t) \/ WriteFails(t) \/ TellListeners(t)
  \/ AllDeployed(t) \/ Leave(t)

\* The schema is deployed, the provider and the store start, builders that are there are added.
Start ==
  \/ DeploySchema \/ SchemaDeployed \/ OpenRuleBuilderTracker \/ AllPresentAdded
  \/ \E t \in Trackers : AddDataStore(t)
  \/ \E b \in Present : AddRuleBuilder(Container, b)

Terminated ==
  /\ \A t \in Threads : pc[t] \in {"idle", "done", "removed", "failed"}
  /\ UNCHANGED vars

Next ==
  \/ Start \/ Restart \/ Terminated
  \/ \E t \in Threads : Step(t)
  \/ \E b \in Late : AddRuleBuilder(b, b) \/ RemoveRuleBuilder(b)
  \/ \E a \in Admins, b \in RuleSets : SaveRuleSet(a, b)
  \/ \E o \in Others : QueueOther(o)

Spec == Init /\ [][Next]_vars

FairSpec == Spec /\ WF_vars(Start) /\ \A t \in Threads : WF_vars(Step(t))

(***************************************************************************)
(* Properties.                                                             *)
(***************************************************************************)

\* If the store is there when the provider is activated, then however the additions of
\* builders, the readiness of the store and edits overlap, a rule set that has a row gets
\* another only from a thread that had not found one when an administrator's request and it
\* were both about to make the first: builders never do that to each other, and an edit of a
\* rule set with a row never does.  (A late store's thread and the engine's may both find
\* the provider's rule sets missing, and write each twice.)
OnlyEarlySavesDuplicateRows ==
  [][\A b \in RuleSets :
       HasRow(b) /\ RowsOf(b)' > RowsOf(b) =>
         \E t \in overtaken : pc[t] = "write" /\ cur[t] = b]_vars

\* A rule set somebody has edited is replaced by the builder's only by a thread that had
\* looked for it before the schema was deployed, or that was about to save it when the edit
\* became its first row: no other overlap of the builders, the start of the application
\* and the edits loses an edit.
EditedRulesSurvive ==
  [][\A b \in RuleSets :
       rows[b]["admin"] > 0 /\ rows'[b]["admin"] = 0 =>
         \E t \in blind \cup overtaken : pc[t] = "write" /\ cur[t] = b]_vars

Settled(b) == HasRow(b) \/ ~schema \/ b \notin ruleBuilders \/ failures > 0

\* Whichever comes first of the builder, the provider and the schema, only a
\* component that waits to become a listener of the store can keep the rules of
\* a registered builder from being deployed.
OnlyListenersBlockRules ==
  \A b \in RuleSets : (schema /\ b \in ruleBuilders) ~> (Settled(b) \/ queue # {})

(***************************************************************************)
(* What a comment says, and the code does not do.                          *)
(***************************************************************************)

\* "makes sure, that all rulesets are deployed after a fresh installation"
\* (dataStoreIsReady): it does not if the store is registered while a builder is
\* added, since each thread waits for the lock the other one holds.
AllRuleSetsAreDeployed == \A b \in RuleSets : (schema /\ b \in ruleBuilders) ~> Settled(b)

=============================================================================
