# cluster-manager: TLA+ models, checks and proofs

`cluster-manager` (under `src/cluster-manager/`) is the service of CDM Center that
registers OpenStack clusters, mirrors their resources into a database, watches their
health and carries out requests on them. It is a Go service: every API request is a
goroutine, an elected leader runs further goroutines, and all of them share a
CockroachDB database, an etcd store, an etcd mutex per cluster, a message broker and
unprotected maps in memory. This project models that sharing.

## 1. Inventory

| Part | State | Operations | Interacts with |
|---|---|---|---|
| Cluster requests (`handler/handler.go`, `internal/cluster/`) | row in `cdm_cluster`, keys under `clusters/<id>/` and `centers/<id>/`, mutex `cluster.db.locks/<id>` | AddCluster, UpdateCluster, UpdateCredential, DeleteCluster, SyncCluster, SyncException | notices to the leader and the handler; the DR manager |
| Leader (`leader/`) | maps `clusters`, `isRunningC`, `cfg`, `excluded` | election, check loop, check goroutines, four subscriptions | reads and saves rows, publishes states |
| Judgement of a check (`leader/check.go`) | per-kind states and errors | three goroutines with a retry each, `validateStatusAndErr` | the cloud, rows of storages and hypervisors |
| Handler memory (`handler/monitor.go`) | maps `checkStatus`, `updatedAt`, `syncStatus` | three subscriptions | messages of leader and job, API answers |
| Synchronisation job (`sync/cluster.go`) | status in etcd, `syncFunc`, `syncStatusFunc` | init, up to three passes over eleven lists, final status | lock, store, broker, resource synchronisers |
| Resource synchronisers (`sync/*.go`) | rows of fifteen resource families | list, single resource, delete | the cloud, each other (parents before children) |
| Reserved synchronisation, notifications (`sync/sync.go`, `client/openstack/notification`) | reserved jobs in etcd, RabbitMQ consumers | Reserve, ReservedSync, consume, reconnect | events of the cloud |
| Requests that change the cloud (`internal/*`, `handler/handler.go`) | resources in the cloud | creations with rollback, deletions, imports, start and stop | OpenStack client |
| OpenStack client (`client/openstack/`) | token and catalog of a connection | one method per operation, each a sequence of calls of `train/` | the cloud, asynchronously |
| Requests that read (`internal/*`, `database/model/model_relations.go`) | none; a sequence of queries without a transaction | Get, GetList, GetByUUID, CheckIsExist, the updates of hypervisors and user scripts | the tables, which the synchronisers write meanwhile |
| Deletion of a cluster's rows (`internal/cluster/cluster.go`) | all tables of the cluster | deleteRelation, table by table | foreign keys of the schema |
| Center configuration | intervals in etcd and in the leader | GetCenterConfig, UpdateCenterConfig | notice to the leader |

What is hard here:

* **Concurrency.** A deletion, a synchronisation and a health check of the same cluster
  run at once. Some take the mutex, some (UpdateCredential, SyncException, the status
  writers of a check) do not; rows are read, kept over calls to the cloud and saved whole.
* **Order.** Every topic has its own subscription, so notices about one cluster overtake
  each other; the goroutine started by a request runs after the request was answered.
* **Failure.** Refused etcd calls and lost notices are logged and forgotten; the delete
  transaction loses its error; the process ends itself when it loses the leadership.
* **Compound operations.** A creation makes several objects in a cloud that works
  asynchronously, may refuse or lose an answer, and must take back what it made.
* **Reads without a transaction.** An answer is put together by up to forty queries.
* **Time.** The admission of a synchronisation depends on how long ago the last began.

The hazards, each at its line, are listed in `PROJECT.json`.

## 2. Modules

| Module | Models | Proofs |
|---|---|---|
| `ClusterLifecycle` | requests on a cluster, health checks, memory of leader and handler | `ClusterLifecycleProofs` |
| `ClusterRegistry` | the abstract life of a cluster record that `ClusterLifecycle` implements | |
| `SyncJob` | one synchronisation job: status, admission, passes, progress, crash | `SyncJobProofs` |
| `ServiceCheck` | one health check and its judgement | `ServiceCheckProofs` |
| `ResourceTables` | what the synchroniser of each kind of resource does, one definition per Go function | `ResourceSyncProofs` |
| `ResourceSync` | the synchronisation of all resources, executing the tables against a changing cloud | `ResourceSyncProofs` |
| `ClusterDelete` | the statements that delete the rows of a cluster; composed with `ResourceSync` | `ResourceSyncProofs` |
| `CloudCalls` | every call of `train/`: its service, what it does, what the client makes of each status | `CloudProgramsProofs` |
| `CloudClient` | every method of the OpenStack client as a program of such calls, with its rollback | `CloudProgramsProofs` |
| `CloudRequests` | the internal functions behind the handlers, each adding checks and rollback to a method | `CloudProgramsProofs` |
| `ResourceRequests` | the handlers, and the execution of these programs against the cloud | `ResourceRequestsProofs` |
| `ReadQueries` | the queries of every function that reads the tables | `ReadProgramsProofs` |
| `ResourceReads` | the handlers that read, and the execution of the queries while the tables change | `ResourceReadsProofs` |
| `MC...` | constants for TLC | |

Every module states its variables at its top. Operators keep the names of the Go
functions; a Go function that gives up control in the middle (an etcd call, a publish, a
transaction, a request to the cloud) is split into one action per stretch, named in the
comments. A database transaction is one step because CockroachDB is serializable.
Operators introduced as a "faulty variant" are not part of any specification: each is a
plausible bug, kept to show that the property it is meant for would notice it.

### ClusterLifecycle

A row is the number of accepted changes of it, which is all that "lost update",
"resurrected row" and "deleted" can tell apart. `pc[t]` is the place where a request
goroutine gave up control, `seen[t]` the row SyncException keeps, `wrow[w]` the row a
check goroutine keeps. `Publish`, `PutKeys` and `DeleteKeys` do what the code does on an
error, which is to go on. Notices are a set, because the temporary queues of different
topics are not ordered and each handler is idempotent for the same cluster id. Failures
the code handles by returning before it changed anything are left out.

`ClusterRegistry` is what a client may rely on: registered once, synchronised only while
registered, never deleted under a synchronisation, and, unless SyncException is used,
deleted for good. `regState` maps the rows and goroutines to it.

### SyncJob

One cluster and the goroutines that synchronise it. `done` is `syncFunc`, `comp` is
`syncStatusFunc`, whose extra last entry is the instance spec list (which the code never
marks as done and therefore repeats in every pass). Whether a list is left is asked only
before a pass (`PassStart`); a pass that has begun goes through all the lists that were
left and always ends with the instance specs. `Crash` is the end of the process;
the lock then belongs to `Dead` until its lease expires. The clock counts minutes, the
unit of `IsAbleToSync`. Which resources a list writes belongs to the synchronisers.

### ServiceCheck

One `CheckCluster`. An answer of the cloud is a failure of the remote server, another
failure, or the list of the services that are unavailable, in order, because the code
lets the last one decide. The goroutines share the variable `err`; whether a database
error is noticed is therefore a free choice wherever one may occur.

### ResourceSync and ResourceTables

The functions `SyncClusterXList`, `syncDeletedXList`, `SyncClusterX`, `getX` and
`deleteX` have the same control for every kind X of resource. `ResourceSync` is that
control, as a stack of the functions being executed: a frame has the function (`op`),
the kind, the resource, the place in the function (`pc`), the answers of the cloud it
holds and the work left. `ResourceTables` is what differs, under the name of the Go
function: the parents `SyncClusterX` looks up before and after it reads the row and the
child lists it goes through (`Steps`), the rows `deleteX` removes first, what a missing
parent means to the caller of `getX`, and which columns `compareX` compares.
`ColumnsOf` are the foreign keys of the schema
(`src/documents/database/cdm-cluster-manager.ddl`) and the fields of `model.go` that hold
them, those that may not be null (`needed`) and those that may: what the cloud reports of
a resource names what its row has columns for (`Reported`), and a row that is written has
all it needs (`Fits`). All these keys are ON DELETE RESTRICT.

An instance, a volume, a network and a router are read by several requests (`DetailsOf`;
`GetOne` is the first, `GetDetails` the others), and the cloud may change before each.
A resource that one of them does not find (an attachment, a subnet, a flavor, the
hypervisor that lists the server) passes for the absence of the instance or volume itself,
whose row is then deleted (`openstack.go:433-468`, `1729-1732`, `sync/instance.go:428`).
A volume type, or a hypervisor that is synchronised for itself, is an error when it is not
found (`train/compute_hypervisor.go:149-163`), and a port without a floating IP is
reported with the last one found, since the variable is declared outside the loop
(`openstack.go:447`).

A row or an answer is whether the resource exists, the resources it names (its foreign
keys) and a number for its other columns. The cloud may change before every request.
A write that a foreign key refuses changes nothing and, as in the code, is noticed only
when a security group is deleted: `GormTransaction` loses the error. A condition on an
ID of zero is left out of a query by gorm: a list whose parent has no row starts from all
rows (`Rows`), and a snapshot that is neither in the cloud nor in the database takes all
snapshots with it (`ReadRow`). Which row of a list is dealt with first is free, as is the
order of rows in a query.

The user scripts of instances are rows (`script`) that the synchronisers only delete. They
are there when a job begins or not at all: a script that a user writes during a job is
left out.

Left out: rows that nothing names and that are deleted right before the only row they name
(quotas, DHCP pools, name servers, extra routes, extra specs), the notices (an error is
only logged), the etcd records of storages and volumes, failing database calls, and the
options `TenantUUID` and `Force`, which a job does not use. The interface of a router to
an external network comes with the answer for the router; here it is read with the others.

### ClusterDelete

`deleteRelation(d)` is the sequence of DELETE statements for the rows `d`, each the set
of rows it removes. `ResourceSync` extends it and asks after every write of a job whether
the statements would go through (`ClusterCanGo`): this is the composition of the deletion
with everything a job may leave when the process ends in the middle of it. A statement is
refused if a row it removes is named by one that stays (`Refused`), because every foreign
key restricts. `deleteRelation` never deletes the user scripts of instances, although
`deleteInstance` of the synchronisers does, and their key is `ddl:447-453`: the rows can be
deleted exactly if no instance has a user script (`GoesThrough`). The refusal goes
unnoticed, because `GormTransaction` loses the error: the keys of the cluster are deleted
and the request succeeds while all its rows stay (`DeletionDeletes` of
`ClusterLifecycle`).

### CloudCalls, CloudClient, CloudRequests and ResourceRequests

Three layers of tables and one machine. A call of `train/` (`CloudCalls`) has the service
it needs in the catalog, the effect it asks of the cloud, what the client makes of each
HTTP status, and the state it polls for, if it does. A method of the client
(`CloudClient`) is a program: `steps`, each with what its failure means (`return`, `warn`,
`end`, `absent`, `busy`, `else`), the steps of the deferred function that undoes (`undo`)
and those that run in any case (`final`). An internal function (`CloudRequests`) puts
checks before it and its own rollback after it (`back`). `ResourceRequests` executes the
program one request at a time: `phase` and `pc` are the place, `seen` and `known` the
objects named by answers received, `waiting` that a call is being polled, `result` the
answer. The cloud (`cloud`, one state per object) is external and modelled by what the
client relies on: it works asynchronously (`Settle`), refuses what needs a missing object
or removes one still needed, and makes or deletes some objects along with others.
Faults, at most `MaxFaults`: a call refused, lost before or after it was carried out,
ended in a bad state, an unusable answer or conversion, a catalog without a service, or
another user removing an object (`Meddle`). `blame` records which fault touched what a
property may excuse.

What a request is, is stated as an assumption that TLC evaluates for every request of the
run: it is one of `Creations`, `Alterations` and `Readings`, what belongs to another
tenant or group (`Foreign`) is there from the start, and its program names only the
request's own objects, whatever the answers show (`ObjectsAssumption`). What it asks for and what
it ends are different things and among those it is about (`Asked`, `Ended`); the group,
volume or security group that it changes is there (`Subject`); and a server's ports carry
no router interface (`GoalsAssumption`).

### ReadQueries and ResourceReads

A row is `<<table, number>>`. `ReadQueries` gives, for every function that reads, its
queries in order with the error it returns for a missing row, or the fact that it drops
the error; a statement that writes (the updates of hypervisors and user scripts) is an entry
like them. `ResourceReads` executes them against `db`. Between any two, `Added` and
`Removed` (external here, modelled in `ResourceSync`) insert a row or delete one with
what names it, and the database may fail. `always` and `ever` are the rows that were
there all the time, and at some time, since the request began: every property of an
answer is a comparison with them. What the rows and the requests are is assumed by name:
a cluster and a permission name a group, a rule's remote group is a group
(`RowsAssumption`); a request names a cluster among its rows, one of the `Operations`, and
a row of a table there is (`ReadsAssumption`); the items of a list are rows of its cluster
that match its filters, and what a filter is given is connected with each of them by a row
of the table where the filter looks (`ListsAssumption`).

## 3. Runs

| Run | Shows |
|---|---|
| `Lifecycle` | safety and refinement of `ClusterLifecycle`: 1 cluster, 2 request goroutines, 1 check goroutine and the subscriber, every request and fault |
| `LifecycleLive` | every request goroutine ends, a listed cluster is checked again and again; also the updates |
| `SyncJob` | safety and termination of `SyncJob`: 2 goroutines, 2 lists, 3 passes, 2 minutes, all faults |
| `ServiceCheck` | safety and termination of `ServiceCheck`: 2 storage services, one of each other kind |
| `ResourceSync` | safety of the resource synchronisers: six worlds, empty or filled database, 2 changes or failed requests at any place, 3 passes; after every write the cluster can be deleted exactly if no instance has a user script |
| `ResourceRequests` | every request that changes the cloud and every reading of the synchronisers, complete or poorer catalogs, 2 faults at any place |
| `ResourceReads` | every request that reads, with 2 changes of the tables or database faults between its queries |
| `LostUpdate`, `Resurrection` | counterexamples in `ClusterLifecycle`, see below |
| `SyncBlocked` | counterexample in `SyncJob` |
| `SnapshotWipe` | counterexample in `ResourceSync` |
| `ImportRollback` | counterexample in `ResourceRequests` |

**Bounds.** Clusters do not interact (lock, row, keys, notices and maps are all per
cluster; the proofs hold for any number), so one is enough for TLC; two request
goroutines and two goroutines that check give every pairwise race. `MaxVersion` bounds
the changes of one row: 1 is enough for a change to be lost. `Lifecycle` has no updates
(`MaxVersion` 0) because their rows multiply its states; `LifecycleLive` has them. In
`SyncJob` two lists allow one to succeed and one to fail in a pass, two minutes reach
both sides of the one-minute limit, and one undelivered message (two where the run is
about messages) is enough for a late one. In `ServiceCheck` a list of two unavailable
services is the shortest in which one can hide another. In `ResourceSync` a world has
the resources of one subsystem, with one of each kind (two zones to move between, two
groups whose rules name each other): the dependencies between kinds are what the code
can get wrong. Two changes are enough for a resource and something it depends on to
change in the same job, between any two requests of a job. Every instance has a key pair
and there is one snapshot, because the code goes wrong otherwise (see below); an instance
has one port and one volume, and in one world a user script. In `ResourceRequests` a
batch of volumes is `Limit` 2 instead of 6, with groups smaller than, equal to and larger
than a batch; two faults let a creation fail and its cleaning up meet a second fault; a
behaviour is one request, because requests share nothing but the cloud, whose other users
are `Meddle`. In `ResourceReads` every listed table has two or three rows, limits and
offsets lie below, at and beyond the number of rows, and two events are enough for a row
to vanish after it was found and for what names it, or for an error, to follow.

**Fairness.** Goroutines that can run do run (weak fairness per goroutine): the Go
scheduler guarantees it and every call has a timeout. A waiter of the etcd mutex gets
it (strong fairness of the steps that wait): the mutex serves its waiters in the order
of their keys. The leader's loop visits a cluster again and again, so the start of its
check is strongly fair; delivery of a message that stays enabled is fair. Nobody has to
send requests, and no fault has to occur or to stop. In `ResourceRequests` and
`ResourceReads` only the request's own goroutine is fair; the cloud may stay in a
transition for ever, and it is the time limit of each polling loop that ends the wait.
`ResourceSync` states no liveness: a job that fetches parents on demand ends because
`NoRunaway` bounds the recursion and the three passes are counted; the explicit liveness
check takes longer than a run should.

### Where the code does not do what it says

| Run | What happens |
|---|---|
| `LostUpdate` | the leader caches a row when the cluster is created; UpdateCluster or UpdateCredential changes it; the next check saves the cached row whole |
| `Resurrection` | SyncException reads the row, DeleteCluster deletes it, SyncException saves it: gorm's Save inserts |
| `SyncBlocked` | NewSynchronizer fails and leaves the status init; after a minute IsAbleToSync refuses for good, where its comment says it admits |
| `SnapshotWipe` | two snapshots are listed, the second vanishes before it is asked for; it has no row, the test for that looks at the wrong error (`volume_snapshot.go:196`), and the delete with the ID zero removes the row of the first |
| `ImportRollback` | the import of the second snapshot fails; the error is returned, the volume and the first snapshot stay managed, where the comment says they are rolled back |

Stated in the modules, refuted by TLC on the same instances, and not runs of their own:

* `ClusterLifecycle`: `LeaderForgets` (the created notice has read the row, the deleted
  notice is handled, the created notice enters the row: the cluster is checked for ever),
  `DeletionDeletes` (the delete transaction is rolled back, its error is lost, the request
  cleans up as if it had succeeded), `KeysGone` (a synchronisation that waited for the
  lock stores its status after the deletion), `HandlerForgets` (a late status message
  recreates the handler's entry), `OneCheckPerCluster` (the flag is set by the goroutine,
  not by the loop that starts it).
* `SyncJob`: `RefusedWhileRunning` (the status running is stored without its time, so
  requests are admitted), `FreshProgress` (a late message of the job before).
* `ServiceCheck`: `EveryServiceCounts` (the second of two unavailable services is
  excluded, the first is not: the kind is active), `BadStateRetried` (a failed request is
  not repeated).
* `ResourceSync`: `QuietJobMirrors` as soon as an instance without a key pair moves,
  because `compareInstance` stops at the missing key pair; `LiveRowsStay` without
  `ReadWith`: the row of an instance that is still there, and all that names it, is deleted
  because an attachment or a port of it was taken away between two of the requests that
  read it.
* `ResourceRequests`: `AbsentInstanceIsAbsent` (an instance one of whose attachments or
  subnets is not found is reported as absent itself).
* `ResourceReads`: `NameIsFound` (CheckIsExistSecurityGroup passes the ID of the
  cluster where the query wants that of a tenant, `security_group.go:608`), `MissingIsReported` (a missing key pair
  is answered with success and nothing, `keypair.go:62-76`), `AdminReadsAll` (an
  administrator cannot read a cluster of another tenant, `cluster_util.go:67`).

Met while modelling and built into the models as the code has it: the list and the get
of routers drop the error of a failed database call and answer with what they have; the
router's port stays behind if the interface cannot be added; a limit of 0 answers no item
but counts all on one page; errors of several child lists of a synchroniser are reduced
to the last one; the etcd metadata of a volume or storage are written after the row, and
if that fails no later job repeats it.

What `ResourceSync` shows to hold: `SavesAreKept` (a parent fetched on demand never makes
the write that waits for it fail), `DeletesGoThrough` (a cascade has removed every row
that names its root), `NoRunaway` (resources that fetch each other do so once),
`LiveRowsStay` (a row is deleted only after the resource, something it depends on, or a
port or attachment that is read with one of them changed), `QuietJobMirrors` (a
job over a quiet cloud that reports every list done leaves the database equal to it) and
`ClusterCanGo` (whatever was just written, `deleteRelation` goes through exactly if no
instance has a user script). A
security group named by a rule of another group cannot be deleted; the job then ends with
the list failed, so these properties do not speak of it.

What `ResourceRequests` shows to hold: `NothingLeft` (a creation that fails leaves nothing,
wherever it fails), `SuccessMeansDone` (what is reported done is done, although the cloud
only promised it), `Promised` (the invariant behind it: no goal is lost on the way),
`Unhindered` (without a fault the order of the calls is one the cloud
accepts), `NotFoundMeansGone` (the synchronisers may delete a row on that answer),
`ErrorStands` (what goes wrong while cleaning up never replaces the first error),
`SparesOthers` (nothing of another tenant or group is touched) and `Answered`.

What `ResourceReads` shows to hold: `Faithful` (an answer is complete and shows nothing
foreign), `Honest` (it shows only rows that existed meanwhile, and calls missing only what
was missing at some moment), `PagesAddUp` (items and pagination agree), `EmptyMeansNone`
(a list that is answered with no content has no items beyond its offset that were there
all the time, although its filter is a query of its own), `ErrorsHaveCause` (a row is
called missing only if it was absent at some moment or its cluster is another tenant's,
only another user of the tenant is refused, and the database refuses a row only if what
it names was absent at some moment) and `Answered`, although security groups whose rules
name each other are read through one another.

## 4. Proofs

All theorems hold for any number of clusters, goroutines, lists, services, resources,
rows and requests, and any changes and faults. They rest on the named assumptions of the
modules, which TLC evaluates in every run:

* `LifecycleAssumption`, `SyncJobAssumption`, `ServiceCheckAssumption`, `LimitAssumption`,
  `MaxFaultsAssumption`, `MaxEventsAssumption`: the model values are distinct and of the
  right kind and the bounds are numbers;
* `TablesAssumption`, `ResourceSyncAssumption`, `ContentsAssumption`: every resource is of
  one of the kinds, the cloud reports a resource with what the columns of its row are for,
  and the rows that an earlier job has left are complete;
* `RequestsAssumption`, `ObjectsAssumption`, `GoalsAssumption`, `RowsAssumption`, `ReadsAssumption`,
  `ListsAssumption`: what a request is (see section 2).

Each proof follows the same line: an invariant `Inductive`, checked by TLC first in the
place of `TypeOK`, holds initially and is kept by every action, and the properties follow
from it.

* `ClusterLifecycle`: that a synchronisation has its row is not inductive; what is, is
  that every goroutine between its lock and unlock holds the lock of its own cluster,
  that SyncException still has a row to save, and that rows exist only for ids handed
  out. From it: `SyncKeepsRow`, `SyncExcludesDelete`, `RevivedByException`,
  `DeletionFinal` and the refinement `RegistryImplemented`.
* `SyncJob`: the holder of the lock is the only goroutine in its critical section, its
  status is the one stored, it never announces a list that is done, and every pass but the
  one it is in ended with the instance specs. From it:
  `SingleJob`, `DoneMeansAllLists`, `WorkingIsVisible`, `RunningIsHonest`.
* `ServiceCheck`: for each control point of a kind, what its state says about its last
  answer. From it: `InactiveExact`, `ActiveIsAnswered`, `WarningIsConfirmed`.
* `ResourceSync`: `TypesHold`, `CascadesGoThrough` and `ClusterCanBeDeleted`, for any
  resources and any number of changes of the cloud and failed requests. `Inductive` says
  of the database that no row names what has no row (`Sound`), and of the stack, frame by
  frame, that the answer it holds, whichever requests it was put together from, has all
  its row needs, that below a `deleteX` there are
  only functions that delete, or the synchroniser of the spec that replaces its extra
  specs, and that a cascade that has gone through a table has left no row of it that names
  its root (`Cascades`). That part is what makes a deletion go through; `Sound` and the
  order of the statements of `deleteRelation` are what lets the cluster go, and that none
  of them removes a user script is what keeps it.
* `ResourceRequests`: `FirstErrorStands` holds of any program. A result never changes once
  it is there, because there is none while steps are still being taken or the answer is
  converted (`Undecided`). `RequestsTyped`, `OthersAreSpared` and `NotFoundIsTrue` need
  facts about the programs, which `CloudProgramsProofs` shows of every method of the
  client and every function around it: each step is well formed, what it writes is one of
  the request's own objects, deletions and readings make nothing. `Inductive` adds that a
  call is polled only while its step is due, that what belongs to others is as it was, and
  that what an answer has called absent stays absent. `SuccessIsHonest`
  (`SuccessMeansDone`) needs more, because a program goes by what earlier answers showed,
  passes over some failures (`warn`, `busy`, `else`), and leaves the cloud to finish what
  it began: that a goal is reached is true only at the end. The invariant is `Promised`:
  unless another user of the cloud interferes, each goal is reached, or the step being
  polled brings it, or a later step does or will find it in an answer. Excused, once
  something has failed or a service is lacking, are a router's routes and the tidying of
  ports and default groups, whose failure the code only logs. The proof has two halves.
  `RequestsAreTended` (`CloudProgramsProofs`) says of every program, for any numbers and
  any answers, that some step brings or names each goal (`Awaits`), that a failure is
  passed over only where the goal is reached or still awaited and no step takes back what
  an earlier one brought (`Orderly`), and that once a step has shown objects the rest of
  the program sees to them (`Follows`): one lemma per method, and `BatchesCover` for the
  batches of volumes. The
  other half, in `ResourceRequestsProofs`, has one lemma per kind of step of the machine
  (an answer with and without a check, a poll that ends, a failure passed over, the
  cloud's own steps) and joins them in `StepPromised`. From it: `PromiseStands`.
* `ResourceReads`: `ReadsAreHonest` holds of any programs: a query adds to the answer only
  rows that are in `db` now, an error names a row it did not find now, and the changes
  keep `always`, `db` and `ever` nested. `ReadsTyped` and `ReadErrorsHaveCause` need
  `ReadProgramsProofs`: the queries of every function are `Orderly`, and so are those that
  a loop adds for each row it has found, in whatever order. A user of another tenant gets
  "not found", one of the same tenant "unauthorized"; that these are never mixed up in
  `cluster.go`, which asks for the group several queries after the cluster, is the part
  `Guarded` of `Inductive`. `EmptyListsAreEmpty` needs `ListIsRead` besides: the list is
  still `Awaited`, or it has shown an item, or there is no more to show. A list is awaited
  after a query of its filter, and from the moment that query is made what lasted is in
  `sieve`, because it was there then; so it is in `db` and matches when the list is made,
  and the page that is chosen of it cannot be empty.

Recursion over data is the limit of the prover; where it could not be avoided (the
flattening of the loops of `ResourceReads`) the argument is made by the smallest
counterexample (`SmallestNumber`, `Flattened`).

Only model-checked:

* the liveness properties (`RequestsEnd`, `ChecksRecur`, `JobsEnd`, `CheckEnds`,
  `Answered`), which the prover cannot reach, and the counterexamples;
* of `ResourceSync`: `SavesAreKept` and `NoRunaway`, which hold because the cloud changes
  a bounded number of times during a job; `LiveRowsStay`, which holds only where there is
  one snapshot (`SnapshotWipe`); `QuietJobMirrors`, which holds only
  where every instance has a key pair;
* of `ResourceRequests`: `NothingLeft`, which depends on the order of the deferred
  deletions in each method with a rollback and on faults that meet them half-way, and
  `Unhindered`, which needs the state of the whole cloud at every step of a program
  without faults: the run goes through the programs one by one;
* of `ResourceReads`: `Faithful`, which relates what is asked for (`req.parts`) to what
  each function joins and follows, and `PagesAddUp`, which counts the items exactly.

## 5. Not modelled, and the plan

* **Encodings and declarations**: JSON and HTTP of `client/openstack/train`, protobuf
  conversions, the generated code under `proto/`, event reporting, start-up, the columns
  of the tables that name no row. They have no states of their own.
* **Handler memory** (`handler/monitor.go`, `checkStatus`). The merge works on messages of
  two unordered writers, and what one would ask of it does not hold: a late message of
  SyncException marks services that appeared since as deleted or replaces a newer status;
  an empty list becomes nil in JSON, so services that vanished are never marked; a warning
  replaces an inactive state; SyncException on an empty memory saves a blank state. The
  maps are also written and read without a mutex. Only the existence of an entry and the
  progress of a job are modelled.
* **Leader start and configuration** (`leader/leader.go:56`, `handler/handler.go:173`,
  `leader/monitor.go:105`). The cluster list is read when the process starts and used when
  it becomes the leader; nothing reads it again. The range test of an interval always
  holds, and the notice for an unknown cluster dereferences nil.
* **Reserved synchronisation and notifications** (`sync/sync.go`,
  `client/openstack/notification`). Nothing starts them at this commit: the calls in
  `leader.go` are commented out.
* **Storage and volume metadata** (`storage/`, `volume/`): single records in etcd.
* The health check saves rows of storages and hypervisors without the lock
  (`sync/storage.go:205`), beside a job; `ResourceSync` lets nobody else write.

Next, in this order: the health check as a second writer of the tables of `ResourceSync`;
`PagesAddUp` as a theorem about the list functions; `NothingLeft` as a
theorem about the programs with a rollback, and `Unhindered` as one about all of them; the reserved synchronisation once it is
started again.
