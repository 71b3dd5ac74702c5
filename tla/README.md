# Verification of bndly-ebx

TLA+ models of the concurrent and stateful parts of bndly-ebx, an OSGi application for
commerce: the configurations that check them with TLC on small instances, and theorems about
them that TLAPS proves for every value of the constants. `PROJECT.json` lists components, runs,
mutants, hazards, findings and theorems, and maps every definition to its lines of source.

## 1. The system

The application is a set of OSGi bundles around a schema engine (bndly-schema, an external
library): records of a database, transactions that collect statements and write them at
`commit()`, and listeners that are called for every record persisted, merged or deleted. A
schema has to be deployed before anything can be read; a thread of its own does that at start,
while the thread of the OSGi container activates components. REST requests run on threads of
the servlet container.

| component | state | operations | what is hard |
|---|---|---|---|
| **JCR importer** (`jcr-importer`): the interceptor tells the content strategies of every persisted, merged or deleted record; these build *import jobs*; `requestImport()` plans and executes the jobs, which write to a JCR repository | rows of jobs, plans and job-context maps; the current job context; the `running` flag | events, `requestImport`, `performSynchronization`, `activate`/`deactivate` of the context provider | an import replaces the current context while events put entries into it; three transactions per import; crash and restart between any two |
| job context data | entries, root and local writers, JSON | `put`, `get`, `createFrom` | round trip through JSON |
| **data store** (`data-provider`) | rows by name, list of listeners under a read-write lock | `create`, `update`, `delete`, `findByName`, `isReady`, `addListener`, `schemaDeployed` | listeners are called with the lock held |
| **data deployment** | listeners, `didDeploy`, a read-write lock | `activate`, `insertData`, `addListener`, `deactivate` | files may be deployed by the engine's or the container's thread |
| **initial fixture deployer** | none of its own; rows of the store | `activate`, `dataDeployed`, `dataCreated`, `dataUpdated`, `installFixture` | order of activation; crash between installing and deleting |
| **validation rules** | tracked stores and rule builders under two locks; rule sets in the store | `addRuleBuilder`, `removeRuleBuilder`, `addingService`, `dataStoreIsReady`, `saveRuleSet` | three locks, taken in different orders |
| entity listeners (`resources/listener`) | associations of lists and property sets, stock items | `onPersist`, `onMerge` | many statements, no transaction |
| tracking, cart refresh, checkout and batch resources (`resources/custom`) | carts, tracked lists, checkout requests | REST requests | read, decide, write |
| deletion strategies | strategies by type | `deployed`, `delete` | depend on the schema |
| checkout and other processes (`bpm-tasks`, `*.bpmn`) | process variables, orders, wish lists | service tasks, signals | a fork whose branches update one order |
| prices (`price-util`), virtual attributes | price adapters by type | `bind`, `unbind`, computations | overwriting an adapter |
| cart, wish list and user services (`standard-client`) | none; rows through REST | `addToCart`, `assertExists...` | several clients read, decide and write |
| accounts (`schema-authorization-provider`) | caches of accounts and groups, rows | `lock`, `setPassword`, listeners | cache against rows |
| search engine export | none | paged collection | records change between pages |
| profiler, CORS filter | counters; origins by id | `increment`, flush; listeners | flush only with a request |
| **UI: entities and dialogs** (`shop-admin`: `RestBeans.js`, `Navigation.js`) | an entity's members, links and embedded entities in the browser; open dialogs; requests under way | `openForm`, `persistCallback`, `reload`, `remove`, `follow`, `loadData` | requests of different clicks overtake each other; links come only with a reload; embedded objects are replaced |
| **UI: lists of children, listeners** (`InverseCollectionInput.js`, `EntityCollection.js`, `Observable.js`) | child objects per dialog, editors, lists of listeners | load by pages, add, remove, edit, submit with the parent | closed dialogs still listen; children are saved without a reload |
| **UI: tables** (`Browser.js`, `TableBinder.js`, data providers) | term, column, direction and offset; the rendered page | search, sort, turn, reload | every answer is rendered, in any order |
| **UI: type-ahead inputs** (`TypeAheadInput.js`, `Task.js`) | text, bound value, list, index, timer | keys, arrows, Enter, click, blur, answers | timer and late answers against the user |
| UI: other views and inputs; vendored scripts | - | - | layout, third-party code |
| discovery, JCR rendering, translations, crypto configuration, build | - | - | I/O, configuration |

How they interact: the importer and the entity listeners are called by the engine inside the
operation that changed a record. The data store is a listener of the engine's deployer and
calls *its* listeners - data deployment, the fixture deployer, the rules provider - with its
lock in its hands; these call the store back and take their own locks. That web of callbacks
and the life of a job across an import, a restart or a crash are what this project models first.
The browser is a second world of callbacks: it runs one at a time, but between two of them the user
clicks, other clients write, and the answers of requests arrive in any order. The client's cart
services are a third: threads of a shop that read, decide and write over REST without a lock.

What makes them correct: a scheduled job is executed, once, with the entry that was made for it;
an import that fails leaves the importer usable; files are copied before anyone installs them,
and whoever comes late is told; a fixture is installed once; builders alone never
write two rows of a rule set, nor replace what an administrator edited; and the threads that meet in the listeners' locks come
back. In the browser: one row per creation, what was submitted is in the row, a table or a list
shows what was asked for last, a choice stays. In the cart: a request changes one quantity at once
or fails. In a list: what every writer keeps is never missing, and the last writer's list holds. For
the parts in the plan: a checkout ends once; a cache answers what the rows say; an export has every
product once.

## 2. Modules

Every module is written from the source alone. Its header says what it covers, each action names
the method it translates, and the comments marked *slip* are mutated forms of the action below
them, used by `PROJECT.json` to see that each property would notice a plausible bug. They belong
to no next-state relation.

### JobImport - planning and execution of import jobs

| state | code |
|---|---|
| `persisted, plan, started, finished, canceled, contextMap` | columns of `ImporterJob` |
| `contexts, stored` | rows of `JobContextMap`, numbered by `createdOn`, and their `mapData` |
| `current, entries` | `JobContextProviderImpl.jobContextImpl` and the entries of contexts in memory |
| `running, monitor, importLock` | the flag of `JCRImporterImpl`, the monitors of `ImporterResourceImpl` and of `startImport` |
| `pc, made, planOf, ctxOf, todo, ran, broke` | locals of the threads: an event, a caller of `requestImport`, a synchronization |

`FireEvent`, `NewJob`, `Persist` are the interceptor and `JobBuilderImpl` (each `NewJob` is one
critical section of the provider's write lock; the builder commits its own transaction at the
end). `Trigger` to `Leave` follow `requestImport()` step by step, with one action between any two
points where another thread or a crash can make a difference: the test and the setting of
`running` are separate, planning is a query and a later commit, the swap of the context is one
critical section, all results are committed at the end, and the old context is saved after that.
`ScheduleSync` to `CloseSync` are `performSynchronization()`; `Activate` and `Deactivate` the
provider's life cycle; `Crash` leaves committed rows only.

Data are reduced to what the properties tell apart: an entry is present or not, an execution needs
its entry and, for a sub-job, what the parent's execution left in the parent's entry.

Assumptions: statements of a transaction reach the database at `commit()`, which the schema
library does; an `update` writes the columns the code changed; jobs of a plan are executed parents
first and otherwise in any order; there is one usable `RepositoryFactory`; an orderly `Deactivate`
happens while no request is served; the importer is enabled. The branch of `CheckRunning` in which
the flag is already set needs a caller outside the REST resource, which holds a monitor.

**JobLedger** is the abstract specification: the rows only, no threads, locks, contexts or
transactions. Jobs of an event appear together, a job is given one plan for ever, and the jobs of a
plan get their results together and once. `JobImport!ImplementsLedger` maps it to the importer (a
job's status from its columns, its batch from the column `plan`) and is checked as a property, with
a failure and a crash, for callers that come through the REST resource. Callers that bypass the
resource's monitor break it: two of them can plan and execute one job twice.

### DataDeployment - the data store, the data deployer and the fixture deployer

| state | code |
|---|---|
| `row, newer` | `BinaryData` rows of a name (several are possible), files changed on disk since |
| `content` | the records of the initial fixture |
| `schema` | `Deployer.getDeployedSchema() != null` |
| `storeListeners, storeReaders` | `SchemaBeanDataStoreImpl.listeners` and its lock's readers |
| `deployerListeners, deployerWriter, deployerReaders, didDeploy` | `DataDeployerImpl` |
| `pc, todo, cur, found` | the threads: the engine's, the container's, uploading users |

`insertData()` is `EnterInsert`, `LookAt`, `LookUp`, `StoreRow`, `FinishInsert`, `EnterNotify`,
`Leave`, run by the engine's thread (`SchemaDeployed`) or by the container's (`CheckReady`). A file fails in
two ways: what the database refuses ends `insertData()` (`StoreFails`), a file that cannot be opened is logged and
left out, and the listeners are told as if it were there (`SkipUnreadable`). Locks are re-entrant for the writer. The difference that matters is kept: the engine's thread releases
the write lock before it tells the listeners, while the container's still holds it from
`activate()`. `DeployInitial`/`DeleteInitial` are `installFixture()` for the initial fixture;
`TellStoreListeners` installs the others. `StopInstaller` and `DetachInstaller` are the installer's
`deactivate()`, `EnterDeactivate` and `DeactivateDeployer` the deployer's: it removes its listener from the
store with its own lock held. The container may stop the components at any time, also while the schema is
deployed.

Assumptions: the deployed schema is visible before schema listeners are called (external); the
folder is configured and exists; a waiting writer does not hold up readers (here no reader could
be waited for by that writer);
the events the store gets for records written past it are not modelled.

### RuleDeployment - rule sets in the data store

| state | code |
|---|---|
| `rows` | rows of a rule set's name, by their last author |
| `dataStores, listening, opened, ruleBuilders` | `RuleBuilderProviderImpl`: tracked store, listener, trackers, builders |
| `writer, readers, queue` | the locks of the data stores, of the rule builders, and of the store's listeners; the writers queued for the last |
| `pc, todo, cur, seen` | the threads: engine, container, the one that registers a late store, late builders, administrators, other listeners |
| `blind` | history: who looked a rule set up before there was a schema |
| `overtaken` | history: whose rule set got its first row, by or beside an administrator, while they were saving it |

`AddDataStore`, `AddListener`, `CheckReady` are `addingService()` and `init()`; `AddRuleBuilder` and
`EnterDataStores` `addRuleBuilder()`; `Find`, `LookUp`, `WriteRow`, `TellListeners` the deployment
of one rule set (the second and third look-up, in `saveRuleSetToDataStore` and in the store's
`create`, are one step, as nothing between them can be seen by others). `queue` models
that a reader of `ReentrantReadWriteLock` waits behind a queued writer; it decides whether the
engine's thread, which reads that lock twice, can be stopped by a component that becomes a listener.
`SaveRuleSet` is POST and PUT of the REST resource, which ask nothing: any rule set may be saved at any moment,
also before its builder has written a row, and then the request and the builder both find none.

Left out: `_knownRuleSets`, which nobody in the repository reads; rule sets without a builder; a
builder that is removed and added again in one life of the process; removal of the store.

### EntityForm - an entity between its dialogs and the server

| state | code |
|---|---|
| `rows` | the server's rows of this entity (external) |
| `bean` | the entity in the browser: a simple member, which object its embedded member is, the row of its `self` link, the row of its other links, whether a table lists it |
| `nested`, `forms` | the embedded objects and those open dialogs are bound to |
| `waiting` | single-invocation listeners that `openForm()` put on `reloaded` |
| `call` | for each click, the request it has reached, and whether it was answered |

`Submit` is `persistCallback(true)`: `update` if there is an update link, else the primary resource
is read and the entity posted (`PrimaryResource`), both followed by a reload (`Added`, `Updated`,
`Reloaded`). `Loaded` is `loadData()`, which writes simple members into the same object, replaces an
embedded one and takes all links of the row. `Refuse` and `Lose` are the failures `follow()` tells
apart: a status of 400 or more, and no status, after which no callback is called.

### ChildCollection, Observable - the children of an entity

| state | code |
|---|---|
| `parent`, `rows` | whether the parent has a row yet; the server's children and, as history, the object each was created from and the save that asked for it |
| `child` | child objects: value, update link, the label the list shows, its `changed` listeners |
| `input` | one `InverseCollectionInput` per dialog ever opened: its items, the editor, whether it is open |
| `call` | the bag of requests and answers |

`OpenDialog` is the input's `initCollection()`, `PageLoaded` one page of `EntityCollection`,
`Persisted` the parent's event that makes *every* input persist its items. `Observable` has
`addListener`, `removeListener` and `fireEvent` as operators on a list of functions:
`removeListener()` assigns the result of `splice(i, i)`, which is what was cut out. `RemoveEntry` takes an
entry from the list of an open dialog by its place. The requests that create a child carry the number of the
save that sent them: history only, which no step looks at.

### EntityTable - tables, sorting, paging and search

| state | code |
|---|---|
| `provider` | `searchTerm`, `sortField`, `sortAscending`, `pageOffset` and `queryLink` of a data provider |
| `icon`, `shown`, `bar` | what is rendered: arrows, the result the rows come from, the pagination bar |
| `found`, `call` | rows each term finds at the server; requests and answers |

`Search`, `SortBy`, `TurnTo`, `Reload` change the provider and load; `LoadedFirstPage` makes the
query of what is set *then*; `Loaded` renders whatever comes. One module for both providers:
`provider.search` tells which. The server is a number of rows per term (`Result` is what it answers to a query);
`OtherClient` removes a row, which the empty term and any of the others found.

### TypeAhead - the type-ahead input

| state | code |
|---|---|
| `text`, `value` | the field, and the member it is bound to |
| `results`, `noResult`, `used`, `sel`, `lit` | `searchResultBindings`, `noResult`, `usedArrows`, `selectedIndex`, the highlighted entry |
| `timer` | the last `Task` waits and was not cancelled |
| `provider`, `call` | the data provider's term and link; requests |

Each handler is an action, split where its outcome is (`EnterTakes`, `EnterBreaks`, `EnterSearches`).
`Key` may leave the text as it is, and then a plain one still starts the delayed search.
`EnterBreaks` is the exception of `binding.entry` for an index without an entry, after the task was
cancelled.

### ShoppingCart, AtomicCart - the cart of one user

| state | code |
|---|---|
| `carts`, `inCart`, `keyOf`, `quantity` | the rows of carts and items |
| `pc, kind, key, amount` | a request and what it asks for |
| `target, goal, cart, seen, base, todo` | locals: the item and quantity it writes, its copy of the cart |

A request is one thread of the shop. Reading, creating, updating and deleting are REST calls and
actions of their own; `refreshCart()` sends every item of its copy (`SendItem`) and then the whole copy to
`CartResource.refresh` (`Refresh`). `Break` is an exception at any of these points. Whether
`updateCascaded()` deletes items that are not in the copy is decided in the external schema
library: both outcomes are allowed. Users, prices, currencies and contents are left out.

**AtomicCart** is what the services promise to one who does one thing at a time: a quantity per
key, changed at once or not at all. Once two requests were under way together it promises
nothing: the code has no lock, and then quantities do get lost.

Not modelled of the two services: `deleteCartByUserIdentifier` (the whole cart goes) and
`cleanUpNotPurchasableCartItems` (items go whose content cannot be bought).

### ListSynchronization - the properties of a property set

| state | code |
|---|---|
| `rows` | `PropertySetAssociation`: the property and, as history, the request that made the row |
| `stored` | properties that have a row (`getId() != null`) |
| `pc, list, todo, found` | a request: its list, what it has not looked at, `existingAssociationsAsMap` |
| `twins, crossed, latest` | history: double rows a request met, whom it overlapped, who came last |

A request is `onPersist()` or `onMerge()` of a set that comes with a list, which calls `synchronize()`. `Load` is
the query, whose rows go into a map by property, so one of several remains; `PersistProperty`,
`UpdateProperty` and `Associate` are the branches of the loop, in any order of the list; `Delete` and `Finish`
the loop that follows, `Clear` the branch of the empty list, and `Fail` an exception of any
statement. Each statement is a transaction of its own and there is no lock. Who submits a property that has
no row yet has the only object of it until it is stored; a list has each property once.

## 3. Runs

| run | what it checks | instance and bounds |
|---|---|---|
| `import_faults` | `TypeOK`, `EntryIsWhereTheRowSays`, `CanceledOnlyWhenStale`, `RunningIsAccurate`, `ExecutedOnce`, `StrandedPlansHaveACause`, `ImplementsLedger`, `ImportsProgress` | one event with a job and a sub-job, two triggers and a synchronization through the resource, 2 plans, 1 failure, 1 crash, 1 restart |
| `deploy_order` | `TypeOK`, `NothingInstalledTwice`, `InstalledAfterDeployment`, `DeploymentIsNotMissed`, `SchemaDeploymentEnds` | the initial and one other fixture, one uploading user, 1 edited or unreadable file, 1 failure, 1 stop or restart |
| `rules_deploy` | `TypeOK`, `OnlyEarlySavesDuplicateRows`, `EditedRulesSurvive`, `OnlyListenersBlockRules` | one builder from the start, one late, one administrator, one other listener, 1 failure or restart (`MaxFaults`) |
| `entity_form` | `TypeOK`, `OneRowPerCreate`, `LinksAgreeWhenQuiet`, `SequentialSubmitsArePersisted`, `DialogsMatchClicks`, `CreatedBecomesUpdatable` | one entity, new or listed, 2 values, 3 clicks, failures or foreign writes |
| `children` | `TypeOK`, `DuplicateRowsHaveACause`, `SubmittedChildrenAreStored`, `ChildrenFollowTheParent` | a new or listed parent, at most 1 row at first, pages of 1, 5 acts |
| `table` | `TypeOK`, `WrongTableHasACause`, `NewestLoadIsRendered` | both providers, 2 columns, 2 terms, 3 rows in pages of 2, 3 clicks, failures or removed rows |
| `typeahead` | `TypeOK`, `LostChoiceHasACause`, `LastTextIsSearched` | 2 entries that one text finds, one not found by its own label, 6 acts |
| `cart` | `TypeOK`, `DuplicatesHaveACause`, `ImplementsAtomicCart` | 4 requests, 2 keys, 2 items, 2 carts, amounts -1 and 5, limit 3 for 99 |
| `lists` | `TypeOK`, `TwinsHaveACause`, `KeptPropertiesStay`, `ListIsAsSubmitted` | 3 requests with any lists of 3 properties, one associated at first, one without a row, 1 failure |
| `import_race` | finding 1 | the smallest instance that shows it |
| `deploy_again` | finding 2 | likewise |
| `rules_deadlock` | finding 3 | store registered late, one early and one late builder |

Why the bounds are enough to be interesting: a context that is stale needs one import that swaps it
and a second one that executes (2 plans); the sub-job makes entries of one event fall
into different contexts; a restart after a synchronization needs one of each; two triggers are what
overlap needs. One failure or crash can come at every step, and the counted properties
(`StrandedPlansHaveACause`, `NothingInstalledTwice`) compare with the number of faults, so they speak
of each single one. In the deployment modules there is one thread for every role the code gives a
thread; a second thread of a role would queue at the same lock.

In `EntityForm` three clicks are two creations that overtake each other and one more, or an update
between two reloads. In `ChildCollection` five acts open a dialog, add or edit a child, go back,
edit again and submit; pages of one make any second row a second page, and a second dialog has its
own object of a row. In `EntityTable` three rows in pages of two make a last page that is not full
and one that disappears; three clicks search, sort and turn with all answers still out. In
`TypeAhead` six acts are two texts, two arrows, an Enter or click, and leaving the field. In
`ShoppingCart` two requests add to miss each other's item, a third refreshes from a stale copy, a
fourth acts on the result; amounts are one above the limit and one below zero, since the code
compares with nothing else. In `ListSynchronization` two requests
overlap to make two rows of a property and the third meets them alone. `SYMMETRY` over the requests of these
two is sound: they are interchangeable, the properties name none, and no liveness is checked there.

Deadlock is checked in the importer and in the data deployment, where the one stop the code can make is
named (`Crossed`, a disjunct of `Terminated`). It is switched off for
`RuleDeployment`, because the code can really stop there (finding 3, and the queued listener that
`OnlyListenersBlockRules` excludes), and for the browser, the cart and the lists, where users stop and requests end.

**Fairness.** Weak fairness of every started thread: the JVM runs a thread that can run, and a lock
that is free is given to somebody. The container activates what it started to activate and the
schema's thread deploys (`WF(EngineStep)`, `WF(ContainerStep)`, `WF(Start)`, `WF(Activate)`).
Nobody is assumed to trigger an import, change an entity, edit a rule, upload or stop anything, and
no failure, crash or restart is assumed to happen. In an import's step relation the failing and
the succeeding outcome are one action under fairness, so nothing says that an import must succeed.

In the browser the server answers some request that is out, callbacks run, and a timer runs out. One
request may wait for ever behind others only if others never end, and the bounds let each end.
Nothing is assumed of the user; refused and lost requests are separate actions, never required.

## 4. Findings

Each is a run in which TLC finds a statement of a document or comment violated; `PROJECT.json` quotes
both sides.

1. `import_race` - `newJobContext()` (JobContextProviderImpl 153) replaces the context between the
   moment an event's builder puts an entry into it and the commit of the job's row; the next import
   works on a later context and cancels the job.
2. `deploy_again` - the row of the initial fixture is deleted after its installation, so each start
   installs it again and deleted records come back.
3. `rules_deadlock` - `addRuleBuilder()` and `addingService()` take two locks in opposite orders.

Smaller disagreements and surprises, seen while modelling and not run:

* Importer: `inMemoryContext()` persists a `JobContextMap` too, so after a synchronization and a restart
  `activate()` restores that empty map and scheduled jobs lose their entries; a synchronization that gets
  no JCR session answers NO_CONTENT all the same; a comment in `JobBuilderImpl` (223-225) says each job
  gets a sub-context of the event's context, `newJob` (180-182) passes no parent key; overlapping direct
  callers of `requestImport()` can execute a job twice, only the resource's monitor prevents it.
* Deployment: `DataDeployerImpl.deactivate()` (149-151) takes the deployer's lock and then the store's, the
  schema's deployment takes them the other way round: with the schema deployed meanwhile neither thread
  comes back (the exception `Crossed` in `SchemaDeploymentEnds`). A schema that is deployed between `isReady()` and `addListener()` (DataDeployerImpl 137)
  is missed by the deployer; a file that cannot be read is missing for the listeners of the deployment too, which
  are told that the data is there (276-278); fixtures copied before the fixture deployer listens to the store stay
  uninstalled; the fixture documentation (line 84) says `SCHEMA_NAME.DESCRIPTION-fixture.json`,
  `InitialFixtureDeployer` (142-146, 162-174) reads the schema from behind the last dot.
* Rules: if the store is registered after the provider was activated, its thread and the one that deploys the
  schema both find that rules are missing (RuleBuilderProviderImpl 168-184) and each makes a row; a builder that looked for its rule set when there was no schema yet overwrites the edited one
  if the schema comes before it writes (`blind` in `EditedRulesSurvive`). A rule set that is saved through the
  REST resource while its builder is between the look-up and the write gets two rows, or the builder's rules replace
  the edit (`overtaken`): neither `saveRuleSet()` (392-404) nor the resource has a lock in common with the builder.
* Browser: the icon of an entry in a `CollectionInput` takes it from the list and deletes no row;
  `Modal.destroy()` removes elements only, so inputs of closed dialogs keep listening;
  the buttons of a row share one variable (TableBinder 185, 197), so only the last one follows the
  entity's links; the comment at TypeAheadInput 152 says that up goes to the last item, from -1 it goes to -2.
* Lists: two overlapping requests may leave two rows of one property; a later list without it deletes one of
  them, so the property stays in the set (the exception in `ListIsAsSubmitted`).
* Cart: the limit of 99 holds for items there are, a new item takes any quantity, also none or less.

## 5. Proofs

`JobImportProofs` proves for every set of threads and jobs and all bounds, from the named assumptions
`ThreadAssumption`, `JobAssumption`, `BoundAssumption` only:

* `TypeCorrect`: `Spec => []TypeOK`, one step per action. `ReferencesAreRows` is its content: columns and locals
  name only plans and contexts that have a row;
* `EntriesAreFiled`: `Spec => []EntryIsWhereTheRowSays`.

The second property is not inductive: that a persisted job's entry is in the context its row names
says nothing of jobs whose row is not written yet, nor why saving a context does not lose entries.
`FilingInvariant` adds what is needed, in named parts:

* `BuildersOwnTheirJobs`, `BuiltJobsAreFiled`: entries are filed from the moment the builder makes the
  job, and only an event's own builder persists its jobs;
* `ContextsAreNumbered`: contexts above the counter are empty, so a new one starts empty;
* `OneImportHasTheLock`, `HeldContextsAreOlder`: only the thread in `startImport` holds a swapped-out
  context, which is never the current one;
* `OnlyLiveContextsAreInMemory`: a context in use has at least what its row had, so saving it only
  adds, and one that is not in use has nothing in memory that could be lost;
* `DownMeansAtRest`: a stopped provider has no builder under way.

It is inductive as long as nothing fails (`Healthy`): a failed commit drops the context it swapped
out, and a crash all of them. `FilingStep` proves the step action by action; `QuietStep` covers the
actions that touch no context. The theorem then follows because failures and crashes are only ever
counted up: once the history is not healthy the property says nothing.

* `OnlyStaleJobsAreCanceled`: `Spec => []CanceledOnlyWhenStale`. A job breaks off if its entry or its parent's is
  not in the context at hand; `FilingInvariant` says it is in the one its row names. `CancelInvariant` adds that
  this one is not newer (`WorksOnOlderJobs`) and the parent is there too: the jobs of an event are persisted,
  planned and executed together (`EventsStayTogether`), and plans of imports that overlap differ
  (`PlansAreDistinct`).

What depends on the rows is proved in the same module with one hypothesis more, `Callers \subseteq ViaResource`.
It is needed: the flag is tested and set in two steps, so two callers that bypass the resource's monitor plan
one job twice (both by counterexample in TLC).

* `JobsRunOnce`: `[]ExecutedOnce`; `FlagIsAccurate`: `[]RunningIsAccurate`;
* `RowsAreALedger`: `Spec => ImplementsLedger`, with failures, crashes and restarts;
* `StrandedPlansAreFew`: `[]StrandedPlansHaveACause`, by counting.

`LedgerInvariant` adds who owns a job at each moment: `OneCallerAtATime` (imports take turns),
`RowsAreConsistent` (a row is started exactly when it has a result; only rows get plans),
`ExecutedJobsAreMarked` (a row whose job was executed is planned or started, so no query returns it again),
`ImportsOwnTheirPlans` (an import's plan is its own; its jobs are fresh until it runs them; while it runs,
a plan's jobs are to do, ran or broke), `SyncsOwnTheirJobs` and `EventsOwnTheirJobs` (jobs are no
rows before their thread's commit). A crash or a failed commit may leave jobs executed but not started: they
keep their plan, which is why they are not executed again, and why plans get stranded. The refinement has
one lemma per transaction (`PersistSchedules`, `CloseSynchronizes`, `AssignPlans`, `CommitReports`).

`EntityFormProofs` proves for every set of values and any number of clicks, requests, rows and failures,
from `ValueAssumption` only:

* `TypeCorrect`: `[]TypeOK`. Inductive with `CallsOK` (what a request carries at each stage; an update is under
  way only if the entity has its own link) and `LinksComeWithSelf`;
* `ClicksOpenOneDialog`: `[]DialogsMatchClicks`;
* `CreatesAddOneRow`: `[]OneRowPerCreate`. `CreationsAreCounted` adds the creations that have not reached the
  table: rows and those together are at most as many as submits without an update link;
* `LinksAgree`: `[]LinksAgreeWhenQuiet`. `LinkInvariant`: if the entity's links belong to two rows and nothing
  failed, an answer that brings those of one row is under way; an entity of the table keeps its row, another is
  not removed;
* `SubmitsArePersisted`: `[]SequentialSubmitsArePersisted`. `PatientInvariant`: as long as the user waits, nothing
  fails and nobody else writes, one request at most is out, it is about the entity's own row, and since the last
  submit it carries what was submitted, or the row holds that.

`ShoppingCartProofs` proves for every set of requests and keys, all amounts, limits and bounds, from
`AmountAssumption`, `LimitAssumption`, `BoundAssumption`:

* `TypeCorrect`: `Spec => []TypeOK`, whose point is that the quantity a request is about to write is
  allowed even if the rows it read have changed since;
* `DuplicatesAreExplained`: `Spec => []DuplicatesHaveACause`. Not inductive: a request that missed an item
  creates one later. `AddsAreCounted` says that two requests that add together are recorded,
  `MissedCarts` that one on its way to create a cart saw none, or others add with it, and `MissedItems`
  likewise for an item of its key;
* `CartIsAtomic`: `Spec => ImplementsAtomicCart`. `CalmInvariant` adds what holds while no two requests
  overlapped: one request at most is under way, a key has one item at most, and what that request
  read is still true. Each step then maps to `Ask`, `Succeed`, `Fail`, `Overlap` or a stutter, one lemma
  per kind of step.

`DataDeploymentProofs` proves for every set of files and users and all bounds, from `ThreadAssumption`,
`FileAssumption` and `BoundAssumption`:

* `TypeCorrect`: `Spec => []TypeOK`;
* `InstallationFollowsDeployment`: `[]InstalledAfterDeployment`. `FilesAreLookedAt` says of each moment
  of a deployment that a file which is not to be looked at any more was written or could not be read; `LockIsHeld`, that who copies or
  installs has the deployer's lock (`OneInstaller`: the two are never installing together, and nobody copies
  meanwhile);
* `InstallationsHaveACause`: `[]NothingInstalledTwice`, by counting: a row of the fixture may still be
  installed until it is, also if somebody deletes it meanwhile, and then no more although its deletion comes
  later (`Installable`). What was installed and what may still be is at most what was written plus the failures
  and stops (`InstallationsAreCounted`);
* `LocksAreReleased`: `[]WaitsEnd`: whoever waits for the deployer's or the store's lock waits for a thread that is at
  work and waits for none, except in `Crossed`: the safety core of `SchemaDeploymentEnds`. The engine's thread takes the
  deployer's lock inside the store's, and the container's in activate() the other way round; `LocksAreLeft` says why
  they still do not meet: the engine calls the deployer only if it is a listener already, and the container has
  left the deployer's lock by then. `Waits` negates the guards; on `deploy_order` without its temporal
  properties TLC found it true exactly when the thread has no step.
  The exception is `Crossed`: the schema is deployed during `deactivate()` of the deployer, which holds the
  deployer's lock and waits for the store's, while the engine's thread calls the listeners under the store's
  lock and is about to enter the deployer. `WaitsEnd` says that then both wait, and that there is no other circle.

`RuleDeploymentProofs` proves for every set of rule sets, late builders, administrators and other
listeners and all bounds, from `ThreadAssumption`, `RuleSetAssumption` and `BoundAssumption`:

* `TypeCorrect`: `Spec => []TypeOK`;
* `DuplicatesHaveACause`: `OnlyEarlySavesDuplicateRows`, and `EditsSurvive`: `EditedRulesSurvive`, both if
  `~StoreIsLate`.
  The hypothesis is needed: with a late store its thread and the engine's deploy the same rule sets at once.

No lock is common to all who write rows, so `RuleInvariant` says why they still do not meet.
`RoleOf` gives each thread what it may be doing: who deploys for a builder holds the lock of the rule builders and
has only rule sets of its own (`OwnerRole`); an administrator may save anything at any time.
`EngineFollowsOwners`: the engine's thread, which read the builders under that lock, has only rule sets whose
owners are done. With `OneDeployer`, what a thread found when it looked (`RowsAreExpected`) is still true when it
writes, unless the first row came meanwhile from a save with an administrator in it, and then it is `overtaken`. `RolesOfOne` reduces a step to the thread that takes it.

* `LocksAreReleased`: `[]OnlyListenersStopThreads` if `~StoreIsLate`: the locks never stop all threads that
  are in a call (`Stuck`), unless another component is queued as a listener of the store; no run has this property,
  it is the safety core of `OnlyListenersBlockRules`. `LocksAreHeld` orders the locks: that of the data
  stores is written only before the tracker of rule builders is opened, theirs only afterwards, and the
  listeners are read by the engine's thread alone. `Waits` negates the guards that ask for a lock; TLC found it, on
  the instance of `rules_deploy`, true exactly when a thread has no step. Both exceptions are needed: TLC
  finds a circle with another listener queued, and one with a late store (finding of `rules_deadlock`).

`ListSynchronizationProofs` proves for every set of requests and properties and any number of failures, from
`RequestAssumption`, `PropertyAssumption` and `BoundAssumption`:

* `TypeCorrect`: `Spec => []TypeOK`;
* `TwinsAreExplained`: `[]TwinsHaveACause`. Not inductive: a request makes the second row later than it missed
  the first. `UnseenRowsAreNew` says that a row a request does not know, of a property it still has to look at,
  was made by one it overlaps with; `CrossedAreCrossed` that overlaps are mutual;
* `NothingKeptIsMissed`: `[]KeptPropertiesStay`, because a request deletes only what its own list, fixed
  since it began (`ListsAreKept`), does not have;
* `LastListHolds`: `[]ListIsAsSubmitted`. `LastRequestIsAlone` says that the last request, if it met nobody, is the
  only one under way, that its map and the rows differ by twins only, and that its list is in what it has
  done and has to do.

`EntityTableProofs` proves for every page size, all columns and terms, and any number of rows and clicks, from
`TableAssumption` only:

* `TableTypeCorrect`: `Spec => []TypeOK`. `PagesHoldTheRows` is the arithmetic under it: `getTotalPages()`, which
  adds a half and rounds, never gives a page too few or an empty one too many;
* `TableIsRight`: `Spec => []WrongTableHasACause`. The property speaks of moments without requests and is far from
  inductive. `NewestIsAsSet`: as long as nothing fails, the newest load is out or was rendered, and its query,
  once made, has the term, column, direction and offset the provider has; `BarFollows`: the bar has the provider's
  page unless an answer is still to come; `OffsetsAreOffered`: as long as no row is removed, an offset that
  was in the bar is below what the bar's term finds, so an answer without rows goes with an offset of
  another term or of no page (`EmptyHasACause`).

The same module has an instance `Input` of `TypeAhead`, whose requests are bags of the same kind; its theorems assume
`TextAssumption` and hold for any texts, entries, keys and order of answers:

* `InputTypeCorrect`: `Input!Spec => []Input!TypeOK`. `IndexFollows` keeps the index in the list also while no arrow
  was used; `NewestIsKnown` says that the newest search is out, with the term that is set, or was answered;
* `ChoicesAreNotLost`: `Input!Spec => Input!LostChoiceHasACause`, since a list without entries is newer than
  what was chosen from one with entries (`AnswerIsNewer`).

`ChildCollectionProofs` proves for every set of values, every page size and any number of rows, dialogs,
children, saves and refusals, from `PageAssumption` only:

* `ChildTypeCorrect`: `Spec => []TypeOK`. That lists share no object (`ListsAreDisjoint`) needs that
  answers bring objects of their own, put behind all there are (`WithNewObjects`); that labels follow their
  entries (`LabelsListen`), what `removeListener()` leaves of a list (`CutListeners`);
* `RowsHaveASave`: `Spec => []DuplicateRowsHaveACause`, by counting: `OncePerSave` says that a save of the parent
  asks for a child's row once, that the request or the row is there but never both, and that rows of
  one child have different saves - an injection from the child's rows into the saves;
* `SubmittedIsStored`: `Spec => []SubmittedChildrenAreStored`. `PatientUser` says of a user who waited for every
  answer and was refused nothing: what is posted is what the child is, nothing is stored while a page is
  read, and since the last submit each listed child has its row or a request that will write it.

`ChildInvariant` is the conjunction of these parts; one lemma per action keeps it. TLC checked it as an
invariant of `children` before it was proved. The last row of a child is a `Max`, a choice: `LeastNumber`
derives that sets of naturals have a minimum from the library's theorem on finite subsets, as induction itself
cannot be cited here.

Only model-checked: the liveness properties (`ImportsProgress`, `DeploymentIsNotMissed`, `SchemaDeploymentEnds`,
`OnlyListenersBlockRules`, `CreatedBecomesUpdatable`, `ChildrenFollowTheParent`, `NewestLoadIsRendered`,
`LastTextIsSearched`), which are out of the prover's reach together with `ENABLED`. Every other property of a
passing run is a theorem.

## 6. Plan

Done: `JobImport` with `JobLedger` and proofs, `DataDeployment`, `RuleDeployment` and
`EntityForm` with proofs, `ChildCollection`, `EntityTable` and `TypeAhead` with proofs, `ShoppingCart` with
`AtomicCart` and proofs, `ListSynchronization` with proofs. Next, in this order:

1. the rest of the entity listeners (stock items, order numbers, lists of external objects) and
   `TrackingResource`, which reads, decides and writes like the cart.
2. `Checkout` (process, resource, tasks): the payment provider calls once, twice or never; the three
   branches after the fork.
3. `AccountCache`: caches and rows, the listeners' order, renaming; the CORS filter has the same form.
4. `ExportPaging`: count and pages against concurrent changes; also the importer's full
   synchronization, which pages the same way.
5. `PriceAdapters` and the price computation as pure operators; job context data; deletion strategies.

## 7. Not modelled

Network, JCR and file I/O, rendering, most views of the administration UI, generated beans, build
files. The content strategies of an importer live in the deployments; the schema engine is external
and modelled by how the code uses it. Publication, the full synchronization of a type and failures of
`session.save()` are not part of `JobImport`. `PROJECT.json` gives the reason for each component and, for
each hazard without a property, why none covers it.

Most of the JavaScript in the repository is third-party code that the UI ships - jQuery, d3,
Bootstrap, CodeMirror, Swagger UI, require.js, some 85 % of its lines - and is left out on purpose: it is
not this system's. Of the UI's own scripts the parts with state, requests and timers are modelled;
the rest are forms per type (tables of fields), relations and dashboards.

Further places where a test would hardly look, outside the modules: `CmsDaoImpl` 124 would run an import
twice if two repository factories were usable (one is shipped); `JCRImporterImpl` 264 pages without an order
while the synchronization it feeds changes records; the composite strategy of
`ContentSynchronizationStrategyTracker` 135 iterates a live list; the profiler's
`ResourceMethodInvocationCounterFilter` (184, 198) iterates without its monitor and flushes only with
the next request; `PriceAdapterManagerImpl` 94 and `OriginServiceImpl` 68 assume an order of events;
`DelegatingTypeDeletionStrategy` 62 fills a plain map from several threads; `AccountImpl` 56 writes whole rows
from old copies; `PurchasableToStockItemListener` 70 creates an item if it finds none; the branches of
`Checkout.bpmn` 31 update one order; `RuleBuilderProviderImpl` 283 tests for deletion the wrong way round
(`Undeploy` models it).
