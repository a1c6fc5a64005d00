# Verification of go-database-reconciler

The library brings a Kong gateway (or Konnect) to a target state: it dumps what
the gateway holds, builds the target state from files, compares the two kind by
kind, and sends the difference as requests, in an order that respects the
references between entities, from a pool of parallel workers. It also writes a
dump to files. These modules model the parts where that can go wrong in ways a
unit test would hardly reach: the concurrent engine and what its workers share,
the decisions that depend on a state which is being updated meanwhile, what is
left after a failure, the two dumps of a gateway that changes meanwhile, and the
way of an entity's identity into a file and back.

## The system

| component | state | operations | talks to |
|---|---|---|---|
| engine, `pkg/diff/diff.go` | `eventChan`, `errChan`, `stopChan`, `inFlightOps`, `droppedEvents`, the goroutines of `Run` | `Run`, `queueEvent`, `wait`, `eventLoop`, `handleEvent` | differs call `queueEvent`; workers call the CRUD actions and the post-processors |
| `Solve`, `pkg/diff/diff.go` | JSON output lists, counters, `resultChan`, `droppedEvents` | the function each worker runs for an event (workspace, schema, diff, request, result), the report at the end | `Run`, the schema cache, the caller of the library |
| schema cache, `pkg/schema` | maps under a lock | `Get`: lookup, fetch, store | workers of `Solve`, the Kong client |
| dependency order, `pkg/diff/order.go` | a constant table | `order`, `reverseOrder`, `eventsInOrder` | read by the engine |
| differs, `pkg/types/*.go` | none (they read two `KongState`s) | `Deletes`, `CreateAndUpdates`, `DuplicatesDeletes` | read the collections, call `queueEvent` |
| CRUD actions, `pkg/types/*.go` | none | `Create`, `Update`, `Delete` of 34 kinds | the Kong or Konnect client |
| post-processing, `pkg/types/postProcess.go` | none | `Create`, `Update`, `Delete` of 34 kinds | writes the collections of the current state |
| collections, `pkg/state` | one in-memory table for each kind | `Add`, `Update`, `Delete`, `Get`, `GetAll...` | shared by differs (reading) and post-processing (writing) |
| gateway dump, `pkg/dump/dump.go` | a `KongRawState` filled by an errgroup | `Get`, one listing for each kind | the Kong client |
| Konnect dump, `pkg/dump/dump_konnect.go` | slices and an error shared by goroutines, a semaphore, a mutex | `GetFromKonnect` | the Konnect client |
| state builder, `pkg/state/builder.go` | the collections | `Get`, `BuildState` | takes a raw state, of a dump or of a file |
| writer, `pkg/file/writer.go` | a file under construction | `KongStateToFile` | reads the collections |
| target state, `pkg/file/builder.go` | an intermediate state, ids seen, the raw state | `build` | reads the file, and the current state for ids and defaults |
| rest: file reading, templates and validation, registry, Konnect client, tags, defaults, printing | | | |

What is hard in it:

* *Concurrency.* The producer goes on reading the current state while workers
  write it, and the only barrier between dependency levels is a counter that
  `wait` polls. The workers append to the same lists, ask the same cache, and
  send to a channel that the caller may not read.
* *Stopping.* A worker that fails leaves the pool; the first error stops the
  producer; a full `eventChan`, an unbuffered `errChan`, a cancelled context and
  a worker that sleeps in its backoff may all coincide.
* *Failure.* A request may take effect although its answer is lost, at once or
  after the next dump. It is not sent again in the same run: the gateway is left
  half changed and the next run starts from there.
* *Stale or partial knowledge.* Whether an entity is created or updated is
  decided from a copy of the gateway that has to follow the gateway's own
  cascades and uniqueness rules; the dump is read page by page from a gateway
  that others change.
* *Identity.* Ids are left out of a file and looked up again, by a key that
  differs from kind to kind, among current entities that an edit of the file may
  have given to others.
* *Hand-written tables.* The order of the kinds, the key by which each differ
  looks an entity up, the checks of each collection, the cascades, the requests,
  the nesting in files and what each listing makes of a 404 are written out for
  each of the 34 kinds.

What makes each part correct:

* engine: every event is counted once, executed at most once, not before
  the earlier stages have ended, and settled or abandoned when `Solve` returns;
  success is reported only if everything was applied; every failure is reported;
  `Solve` returns.
* `Solve`: the counters, results and lists say what was done, nothing is sent on
  a closed channel, the cache spares fetches, and whoever receives or cancels
  gets to the end.
* order: every kind has one level, above those of the kinds it refers to.
* differs, post-processing and collections together: a run ends with the target;
  the copy in memory is the gateway whenever a stage starts; the events are those
  the two states call for; a dry run shows what a run does; the gateway refuses
  nothing and the post-processing fails nowhere unless something else has failed.
* CRUD actions: an event that is done is done in all its parts; a failure can
  always be repaired by synchronising again; a run after a good one does nothing.
* dumps: success means a complete state, apart from what a 404 or 403 is taken
  for; the semaphore is exact, nothing is sent on a closed channel, and they
  return.
* file: what is written leads back to the same state; an edit changes what it
  edits; a file is refused only for a reason.

## Modules

`Syncer` models the engine. One action is one step of one goroutine: a channel
operation, an atomic update of `inFlightOps`, a call, a branch of a `select`.
`prodPc`/`stage`/`cur` are the producer (`diff`, the differ it has called,
`queueEvent` and `wait`), `wpc`/`wev`/`attempts` the workers (`eventLoop`,
`handleEvent`), `mainPc` the body of `Run` and then the tail of `Solve`;
`CloseErrChan` is the goroutine that waits for the others. `stopped` and
`chanClosed` stand for closed channels. `status` is a history variable. Which
events a differ emits, and in which order, is left open: any subset of those of
its stage. `errs` is the set of errors returned. Both branches of a `select`
may be taken when both are ready, as in Go. Waits between two looks at the
counter (one millisecond, `stageDelaySec`) and the length of a backoff are left
out: a step may take any time. `Run` starts producer and workers before anything
else happens in it, and the model starts there.

`StagedSync` is what a caller of `Solve` relies on: stages, start, outcome, halt,
verdict. `SyncerRefinement` maps `Syncer` to it. `SyncerInvariants` has the
inductive invariant, `SyncerProofs` the theorems.

`SolveReport` opens the call that a worker of `Syncer` is in: `step` says where
in the function of `Solve` it is, and each step there either leaves `Syncer`'s
variables alone or is one of its steps (`SolveImplementsSyncer`). The function
asks for the workspace, gets the schema of a plugin or partial (`Cache.Get` in
three steps, as it holds its lock only for the lookup and the store), lists the
event for the JSON output (an unlocked `append` is a read and a later write),
sends the request or, in a dry run, does without, sends the result to
`resultChan` or sees that the context is done, and counts. An error that reaches
`handleEvent` with its status code is retried if it is a 500; the error of the
request itself is wrapped in an `ActionError` and is not. `mode` is the way in
which a caller calls `Solve`: dry or not, JSON or not, with entity actions or
not, receiving from the channel or not. `ReportProofs` and `ResultProofs` have the
theorems.

`EntityKinds` has one row for each differ: the key its `Deletes` looks for, the
key its `CreateAndUpdates` looks for, whether it finds duplicates, what its kind
belongs to (`refs`: what a child is looked up under and goes with) and what it
uses besides (`uses`: the certificates of services and upstreams, the CA
certificates of services and mTLS credentials, the partials of plugins, the
service that a version is related to). `DependencyOrder` has the table of
`order.go` and the stages that `diff` makes of it (`deleteDuplicates` waits after
each level; `createUpdate` and `delete` wait after each kind). `Collections` has
one row for each collection of `KongState` (a second unique key and, for
consumers with their `custom_id`, a third) and what `Add`, `Update`, `Delete` and
the lookups do to a set of entities. An `Update` that is not checked leaves two
entities with one key in the set, where the index of the memory database forgets
one of them; `PostProcessSucceeds` says that this does not happen.

`Reconcile` composes these three with the post-processing and an external
gateway. It takes the engine at the level of `StagedSync`: within a stage, events
are processed in any order and at the same time, post-processing included,
transaction by transaction. An entity is a record: id, name (whatever identifies
it to a user), `custom_id`, what it belongs to, what it uses, and a body for all
the rest. A duplicate consumer is looked for by its username, or by its id if it
has none, and by its `custom_id` if that finds nothing. A run is about one
`family`, a set of kinds that refer to each other; `stages` has all stages of a
run, and `Following` passes over those that have nothing to do for the kinds of
the family, where the differs find nothing and `wait` returns at once. `current`
is the state in memory, `kong` the gateway, `before` the dump the run started
from, `plan` a history of what was queued. `Rerun` is the user who tries again
after an error, with a new dump. The target of such a second run is the same.
`ReconcileInvariants` has the inductive invariant and the assumptions it needs
beyond those of `Reconcile`, `ReconcileProofs` the theorems.

`Requests` has one row for each kind's CRUD actions: the requests of its
`Create` and its `Update`, and which API they go to. It follows one entity
through requests that are answered, refused, or lost without effect, with it, or
with an effect that comes later (`late`: before the next dump, or between that
and the next requests), and through repeated synchronisations. A bad answer ends
the event, as said above. The relation of a service version to a service of a
control plane has requests of its own. `RequestsProofs` has the theorems.

`GatewayDump` models `Get`: one row for each of its 29 listings says what a 404
and a 403 are taken for and whether the tags of the selector filter it. A listing
of its own takes a page at a time; groups are read page by page and each again by
its name, with its members; targets are listed upstream by upstream once the
upstreams are there, permissions role by role. `Change` is another client of the
gateway, who adds or removes one entity between two pages; `lasting` is what has
been there all the time, `ever` what was there at some time. The first error
cancels the other listings. `GatewayDumpProofs` has the theorems.

`KonnectDump` models `GetFromKonnect`: the goroutine that spawns the fetches,
each fetch, the collector of errors with the mutex it holds, the second
goroutine of the group, and `group.Wait`. An unlocked `append` is a read and a
write. `KonnectDumpProofs` has the theorems.

`FileFormat` has the tables and operators of the files. `format` says for each
kind where the writer nests it, when it writes its id, and what it does if a
parent is not there; `ingested` by which key the builder finds the id of an
entity that has none (of a consumer without a current one of its username: the
one of its `custom_id`), and `build` in which order it goes through the kinds. A
file is a function from slots to what is written there, with references by
nesting, by name, or by id. `RoundTrip` composes `GatewayDump` with the state
builder, the writer, a user who edits the file (removes, renames, copies an
entity, strips or gives an id, gives or takes the `custom_id` of a consumer), the
builder, kind by kind, and the state builder again. `RoundTripInvariants` says
what a current state, an edited file and what is built of it so far look like,
and `RoundTripProofs` has the theorems.

External to the repository and modelled from how it is used: the Kong gateway
(foreign keys, unique names, cascades, services with routes, PUT of whole
entities, pages in the order of ids), Konnect's answers to requests, other
clients of the gateway, the caller who receives or cancels, and the user who
synchronises again or edits a file.

Definitions marked "Mutant" stand before the definition they spoil; nothing uses
them. Each is a plausible slip in the code, and with it the property it is meant
for fails in the run that checks it.

## Runs

| run | module, cfg | bounds | shows |
|---|---|---|---|
| `syncer` | `MCSyncer` | 3 workers, 4 events in 3 stages (two in the middle one), `eventChan` of 1, 1 retry (496 862 states) | the invariants of the engine, `SettledForever`, refinement of `StagedSync`, `Termination` |
| `solve_report` | `MCSolveReport` | 2 workers, 2 updates of plugins of one name, `eventChan` and `resultChan` of 1, 1 retry, four ways to call `Solve` (808 260 states) | counters, results, lists, fetches, the closed channel, `SolveReturnsInTheEnd` |
| `reconcile` | `MCReconcile` (families in `MCReconcileFamilies`) | fourteen families of kinds: services with routes; these with plugins; with filter chains; consumers with plugins; with a `custom_id`; with keys and ACL groups; in groups; upstreams and targets; certificates and SNIs; services that use certificates and CA certificates; roles and permissions; key sets and keys; packages and versions that are related to a service or not; packages, versions and documents; two ids or names of each parent; all legal gateways and targets of at most 3 entities (4 for groups, targets, SNIs and related versions), with and without deletes, dry or not, any number of failures and reruns; symmetric ids and names (1 600 915 states) | order, convergence, mirror, plan, dry run, refusals, post-processing |
| `requests` | `MCRequests` | each of 34 kinds, 2 bodies, 2 services to be related to, 3 answers that go wrong, any number of runs (11 938 states) | `DoneIsApplied`, `RefusedIsApplied`, `Idempotent`, `Recovers` |
| `konnect_dump` | `MCKonnectDump` | 2 packages, one with a version, semaphore of 3 | semaphore, channel, completeness, `Returns` |
| `round_trip` | `MCRoundTrip` | for every kind, up to two entities of it with their parents, each with a name or not, with the tags or not; routes without a service and their plugins, plugins of nothing, keys without a set; pages of one entity, one request that fails, one change by another client, one of two consumers with a `custom_id`, one edit with one of two names (1 082 126 states) | the dump is complete; the file is faithful; edits are local; nothing of an accepted file is lost; refusals have a cause |
| `solve_retries`, `syncer_dropped`, `reconcile_rename`, `reconcile_consumer`, `konnect_documents`, `dump_targets` | | the smallest instance that shows it | the disagreements below |

Why the bounds are enough for what they are to show. In `syncer`, the buffer is
smaller than what one stage and the next hold together with the workers' hands,
so that `queueEvent` blocks; there are more workers than are needed for
two to fail while a third still executes; there are as many events as workers
and one more, so the pool can be used up with an event left in the queue; one
retry suffices because the attempts of an event are independent of each other.
No symmetry is used, since it is unsound for `Termination`. In `solve_report`,
two workers are what an overlapping append, a double fetch and a full channel of
one need; both events need the same schema. In `reconcile`, two ids and two names
per kind are what renaming, exchanging names, and replacing an entity by its
namesake need; a route and plugins on service and route are what cascades need.
Two parents and a child let the child go from one to the other, keep or lose its
parent, and change in a way an update must see. Kinds without duplicate deletes
keep their ids with their names, as a file without ids has them: with an explicit
id and a name that is taken, the gateway refuses the request and no order of events
would help, or it is the case of `reconcile_rename`; consumers keep theirs where
they have credentials, or it is the case of `reconcile_consumer`. One `custom_id`,
which may move between consumers, come under another username or under none, is
what its lookup, `Add` and the gateway can disagree about. Families are apart
because events of kinds that do not refer to each other touch different tables.
All families of `reconcile` satisfy the assumptions of the theorems, which TLC
evaluates there; those of `reconcile_rename` and `reconcile_consumer` each lack
one of them.
In `requests` three bad answers spoil a run, the next one, and the one after it,
each leaving something behind that may take effect late. In `konnect_dump` three
permits let one pair and one single fetch compete. In `round_trip` a kind and its
parents are taken apart from the other kinds because the listings, the tables
and the lookups of different kinds meet only where one refers to the other; two
entities on pages of one give a listing that a change can fall into, and two
children of two parents with one name are what a lookup that forgets the parent
confuses. The proofs remove the bounds for whatever they cover.

Deadlock is checked in all of them; where the program has ended, a `Done` action
stutters or, in `Requests`, the user runs it again.

### Fairness

`Syncer`: weak fairness of the producer, of each worker, and of `Run`: the Go
scheduler runs what can run, a backoff ends, and requests are answered or time
out. A fair `select` is not assumed, and neither is a caller who cancels.
`SolveReport`: weak fairness of all its goroutines together, including a caller
who receives if `mode` says so; that is less, and enough, since none of them can
go round for ever. `KonnectDump`: weak fairness of its goroutines. `Requests`:
weak fairness of the next step of a sequential loop, which includes that the user
synchronises again; only `MaxFaults` answers go wrong, so that `Recovers` says
what happens once the network has recovered. `RoundTrip` states no fairness and
no liveness.

### What the violated runs show

1. `solve_retries`: the comment on `defaultBackOff` (`pkg/diff/diff.go:112`)
   says that each request is retried up to 3 times. The argument there is 4; but
   the request of an entity is not retried at all, since `ActionError`
   (`pkg/crud/types.go:57`) has no `Unwrap` and `handleEvent` does not find the
   500 in it. Only the questions for workspace and schemas are repeated.
2. `syncer_dropped`: a worker that receives an event and then finds `stopChan`
   closed throws it away. It is not among the dropped events that `Solve`
   reports (`pkg/diff/diff.go:953`, `:957`).
3. `reconcile_rename`: an upstream with an explicit id that is renamed in the
   file is looked for by its name, emitted as a create, accepted by the gateway,
   and then refused by the state in memory. Vaults, partials, consumer groups
   and plugin definitions are looked up in the same way.
4. `reconcile_consumer`: when two consumers exchange their names, the duplicates
   are deleted first; the gateway deletes their credentials with them, the state
   in memory only their plugins. The credentials are then found unchanged and
   are not created again, and the run ends without an error.
5. `konnect_documents`: goroutines append to `res.Documents` without a lock, and
   the versions of a package are read before they are known to be there, so that
   a successful dump may lack documents.
6. `dump_targets`: the options with the offset are made once for all upstreams
   (`pkg/dump/dump.go:1373`). After an upstream with more than one page of
   targets, the list of the next one starts at an offset of the former.

More observations are written into properties as exceptions or left as notes.

* `eventCompleted` comes before the error of an event is returned, so that
  `wait` may return and the next stage start although an event of this one has
  failed; `StageBarrier` holds all the same, since nothing overlaps, but this is
  why `RejectedOnlyAfterFailure` allows refusals after a failure.
* A service version with an id in the file has a relation without an id, which
  never equals the dumped one, so it is updated in every run (`Idempotent`
  excepts it). An error of Konnect's client is never retried, as `handleEvent`
  asks for the error type of the Kong client only.
* A request whose effect comes after the next dump makes the POST of the next
  run fail although nothing is missing (`RefusedIsApplied`).
* Two appends that overlap may lose an entry of the JSON output
  (`OutputComplete` excepts them), and callers of `Cache.Get` that miss at the
  same time fetch the same schema once each (`FetchesBounded`).
* For some kinds a 404 or a 403 in the middle of a listing ends it as if it were
  complete, and a consumer group deleted between the list and its `Get` leaves
  the dump without any group; `DumpComplete` excepts these kinds.
* The builder drops a consumer whose id an earlier one has, without a word, and
  what refers to it by name may then be given to another (`EditsAreLocal` and
  `TargetFollowsFile` except this), and gives a license without an id a new one
  in every build.
* The writer reads the name of the service of a degraphql route without looking
  whether it has one (`pkg/file/types.go:1044`); the model says `writeFailed`.
  The builder goes on with a key whose set it has not found
  (`pkg/file/builder.go:203`); the model says `rejected`.
* The tags of a route are merged a second time without the condition that the
  comment above asks for (`pkg/file/builder.go:1917`).
* A consumer has two unique keys, and its duplicate is looked for by the second
  only if the first finds nothing (`pkg/types/consumer.go:200`). Two consumers
  may then stand in the way of one. If the gateway has A with `custom_id` X and B
  with Y, and the file has A with Y, the update of A is sent while B still has Y,
  and refused. If it has A and, under other ids, B with Y, and the file has a new
  A with Y, only the old A is deleted as a duplicate; the gateway refuses the new
  one, or in a dry run `Add` does (`pkg/state/consumer.go:116`). These states are
  outside `FindableAssumption` and not in the families of `reconcile`:
  `RejectedOnlyAfterFailure` and `PostProcessSucceeds` do not hold of them. No
  run shows it, as nothing the repository says of this function is contradicted:
  `DuplicatesDeleter` (`pkg/types/core.go:22`) speaks of entities with the same
  name.
* With `noDeletes` the duplicates are not deleted either, so that the gateway may
  refuse a name that is taken: `RejectedOnlyAfterFailure` and
  `PostProcessSucceeds` speak of runs with deletes.

## Theorems

Every theorem holds for all values of the constants that satisfy the named
`ASSUME`s of the modules, and rests on nothing else. The assumptions ask for what
the code has: at least one worker, finitely many of them and of events, distinct
error tokens, a stage and an operation for each event, channels with room for at
least one element, well-formed gateways, a page of at least one entity, a
semaphore with more than one permit.

**The engine** (`SyncerProofs`): `Invariance` (`Spec => []IInv`), and from it
`TypeCorrect`, `InFlightIsExact`, `BarrierHolds`, `NoEventTwice`,
`SuccessIsComplete`, `ErrorsAreExact`, `NothingIsInLimbo`; the action property
`SettledStays`; and `Refinement`, `Spec => ImplementsStagedSync`.

None of these properties is inductive. `IInv` adds where each event is
(`ProducerInv`, `QueueInv`, `WorkerInv`: its status says which variable holds
it, and only one does), which is what makes the count move with the set of open
events; `StageInv` (above the producer's stage all is idle, below it nothing is
open unless stopped), which turns `inFlightOps = 0` at `WaitReturns` into
`StageBarrier`; `MainInv` (how far `Run` has come says which goroutines are
gone), which rules out that `Solve` returns while something is under way; and
`ErrorInv` (the error of a failed event is with its worker or with `Run`; `Run`
has stopped waiting without an error only when everything has ended well).
`RetryInv` bounds the attempts. Each part has a lemma that every step keeps it,
with a step for each action that can disturb it. The refinement uses `IInv` in
both states: `EmitEvent` is `Issue`, `HandleEvent` is `Start`, `EventCompleted`
is `Apply` or `Fail`, `CloseStopChan` is `Halt`, `EnqueueRefused`, `StopSeen` and
`CollectDropped` are `Abandon`, `SolveReturns` is `Finish`, the rest stutters.

**Solve.** `SolveImplementsSyncer`: every step of `SolveReport` is a step of
`Syncer` or leaves its variables alone, so the engine's invariant holds there too
(`SolveKeepsEngine`) and is used in all that follows. `ResultChanIsOpen` needs
that `resultChan` is closed after `errChan` and hence after every worker.

`ReportProofs` has the inductive invariant `ReportInv` of what the workers share.
`PlaceInv` says where in the function a worker may be; `AcceptedInv` that an
event which was answered well is not carried out again, because its worker has
left the call or has only the result to send; `CountInv` that each counter is the
number of such events whose worker has left the function, which becomes
`StatsExact` when all have; `FetchInv` that a schema not yet stored was fetched by
exactly those about to store it, and one that is stored is still fetched only by
workers who had looked before, so that fetches and fetchers together are at most
the workers. Theorems: `ReportInvariance`, `ReportTypesHold`, `CountersAreExact`,
`SchemaFetchesBounded`.

`ResultProofs` is about what the caller is told. `ListInv`: a worker about to
write a list has read all that is in it, apart from events that overlapped, and
two workers about to write the same list are both marked; so an event beyond the
describing step is listed or marked (`ListInvariance`, `ListsAreComplete`).
`SendInv`: as long as the context is not cancelled, the channel holds the results
of different events whose calls are over and of which nothing was received; what
was received is the result; and what was answered well is about to be sent, in
the channel, or received (`ResultInvariance`). When the channel is closed and
empty, the first two places are ruled out, which is `ResultsAreExact`.

**The dumps.** `KonnectDumpProofs`, for any number of packages and versions and
any semaphore of two or more permits: `PermitsInv` (the free permits and the
fetches that hold one are the capacity), `SpawnInv` (which fetches have been
started at each point of the two loops, each once), `ClosedInv` (the channel is
closed after the last fetch), `FetchedInv` (a fetch of versions that is over has
its versions, or its error is with the collector or stored), `ResultInv`. Theorems:
`DumpInvariance`, `TypesHold`, `PermitsAreExact`, `ErrChanIsOpen`,
`SuccessMeansComplete`.

`GatewayDumpProofs`, for any gateways, page size, number of changes and of
failures: `WorldInv` (what refers to an entity that lasts refers to it as long as
both last, and the gateway is well formed at all times); `PagedInv` (a listing
has everything that lasts and comes before its offset); `GroupInv` and
`MemberInv` (a group read and read again, with its members), `PermissionInv` and
`TargetInv` (what was listed parent by parent; targets only while they fit on a
page, since beyond that the code loses some, see `dump_targets`). That a page
misses nothing between two offsets is a lemma about the least elements of a
finite set of numbers, proved from the well-foundedness of strict subsets.
Theorems: `DumpInvariance`, `DumpTypesHold`, `DumpIsComplete`.

**Files.** `RoundTripProofs`, for any gateways, changes and failures during the
dump, any names and number of edits, and all 34 kinds: `RoundTripDumps` and
`CompleteDump` (`RoundTrip` begins with a dump as in `GatewayDump` and never
changes it), `RoundTripInvariance` (`Spec => []FullInv`), and from it
`RoundTripTypes`, `RefusedForCause`, `FileIsFollowed`, `WhatIsNotEditedStays` and
`UneditedFileLeadsBack`: every property that the run `round_trip` checks.

The assumptions say what a gateway holds. `DataModelAssumption`: references go to
the kinds the data model has, at most one to a kind, and what is told apart by its
name and parent has a name. It also says that ids are below 1000, the numbers that
stand for new UUIDs: a new one is no old one. `IdKindAssumption`: no id is used
for entities of two kinds. `GroupPluginAssumption`: a consumer group has one
plugin of a name, which the gateway sees to; the builder looks them up by that.
TLC evaluates them on the gateways of `round_trip`.

`FullInv` has the invariant of the dump; `EverInv` and `PluginsInv` (what was
dumped is of the data model, and the plugins of a group were read at one time, so
that no two of them have one name); and `RoundTripInv`, in four parts.
`CurrentInv` is what `state.Get` makes sure of: no two current entities clash, and
a reference that leads somewhere leads to the kind it says. `FileInv` is what the
edits leave intact: a slot is nested in slots that are there, what has no id can
be looked up, and what was not edited is as it was written. `BuiltInv` is about
the builder between two kinds: the kinds gone through are built as a whole, each
entity is what `Built` makes of it with all that is built now, since what comes
later changes neither the slot a reference leads to nor the one it finds first.
`PhaseInv` ties the phases together, and keeps the cause of a refusal.

The properties compare two readings of the file: by slots, as it stands there,
and by ids, as the builder resolves it. The lemma between the two is
`ReferenceLeads`: a reference that was not refused has the id of a slot it may
mean. From it, two entities of a kind that clash were given the same id or key
in the file, or one has the id of a current entity that the other stands for
(`ClashHasCause`), and hence `RefusedForCause`. An entity that was not edited is
looked up by its key, which is unique among the current entities, and gets its id
back (`LookupIsUnique`), if its references lead where they did: from what refers
to nothing, over routes and versions, to the rest (`ParentIsReady`). A file that
is not edited is refused for no reference (`NothingDangles`) and no clash
(`NothingClashes`), so `NotRefused` is inductive together with `FullInv`.

The tables of the 34 kinds enter through the lemmas at the beginning of the
module, one per table. TLC checked the invariant on the gateways of `round_trip`,
and with two edits on a part of them, before it was proved. It refuted an earlier
form of `RejectedForCause`, which compared references as they are written: with
two edits a slot may be referred to by its id here and by its name there.
`RejectedForCause` counts as a contradiction what no reader of the file would
overlook (an id, a name or a `custom_id` twice) and what only the lookup of ids
makes one: that two slots stand for the same current consumer, one by its
username and one by its `custom_id`.

**A synchronisation.** `ReconcileProofs`, for any families of entities, any
gateways and targets of them, any number of failures and reruns: `RunInvariance`
(`Spec => []IInv`), and from it `RunTypesHold`, `StagesRespectReferences`,
`RunConverges`, `CopyMirrorsKong`, `PlanIsWhatIsCalledFor`, `DryRunIsFaithful`,
`RejectionHasCause`, `PostProcessHasCause`: every property that the run
`reconcile` checks.

The assumptions say of which states this holds. `LegalAssumption`: gateway and
target have no dangling references and no duplicates (a dump of a gateway has
neither, and the state builder refuses or leaves out what would make a target
have one). `ReferencesAssumption` and `IdsAssumption`: references go to the kinds
the data model has, one of each, and ids are unique (they are UUIDs).
`PostActionAssumption`: what the post-processing deletes along with an entity,
the gateway does. `IdentityAssumption`: the key by which a differ looks an entity
up tells apart what ids tell apart, in the current state and the target, which is
so where ids come from the names (a file without ids) or the kind is looked up by
id. `FindableAssumption`: who has a unique key of a target entity has its id or
is found as its duplicate, so a name is taken by another id only for kinds whose
duplicates are deleted, and a `custom_id` only where the username finds nobody or
the same consumer. `ForgottenAssumption`: what the gateway deletes along with a
duplicate, the post-processing deletes too. `UsedAssumption`: nothing uses what
may be deleted as a duplicate, since the gateway refuses to delete what is in
use. The last four are not satisfied by all states that the program can be in,
and the theorems do not hold of the others: the families of `reconcile_rename` do
not satisfy `IdentityAssumption`, those of `reconcile_consumer` not
`ForgottenAssumption`, and the states of the note on consumers above not
`FindableAssumption`. TLC evaluates all of them on the families of `reconcile`.

`IInv` is `TypeInv /\ KeysInv /\ RunInv /\ CauseInv`; only `RunInv` is about runs
without errors. `KeysInv` is about the unique keys: the gateway never has one
twice, and never one of the target where the differs do not see it, which carries
`FindableAssumption` from the dump through failed runs to the next. `TypeInv` is
stronger than `TypeOK`: which stage an event or a thing to look at belongs to,
ids unique on both sides. `MirrorInv`, and not the mirror of the property, is
what a step preserves: the gateway is the copy without what the answered events
still have to replace or to delete, with what they have to add. That needs
`EventsApart` (no two events under way are about one entity, so the answers
commute) and `DeletesOK` (of what the gateway has deleted with an entity, all
that is still in the copy has been found or will be looked up, since the kinds
left to look up are known). `DuplicatesInv`, `CreatesInv`, `DeletesInv` say for
each of the three operations what has been reached for the kinds whose stage is
over, begun, or to come: after the duplicates, the copy is `Remaining`; each
target entity is there from when its event has ended, and what it replaces until
then; what is left over is there until its delete. `PlanInv` has what each
`queueEvent` adds. From one operation to the next, the invariant of the former,
with all its stages over, gives that of the latter. `CauseInv` needs all of it: a
request is refused, or an answer cannot be processed, only if an entity is where
`RunInv` says it is not.

The order of the stages enters through one lemma, `OrderOfRuns`: in which stage
each operation comes to each of the 34 kinds, and that of two kinds of which one
belongs to or uses the other the stages are the right way round. It is proved from the
table of `order.go` and that of the differs by giving the position of each kind
and comparing the positions of each reference. TLC checked `IInv`, part by part,
on the families of `reconcile` before it was proved.

**The requests.** `RequestsProofs`, for any bodies, services and number of bad
answers: `SendInv` (the requests that are left of an event lead from what the
gateway holds to the target), `LateInv` (what may still take effect was sent for
this target, and would lead towards it), `DumpInv` (until the differ looks, the
gateway differs from its dump by the effect of at most one request). The table of
the 34 kinds enters through two lemmas on the shapes of its rows. Theorems:
`RequestInvariance`, `RequestTypesHold`, `DoneMeansApplied`,
`RefusalsAreSpurious` (a refusal means that what it would have done has been
done), `SecondRunIsIdle`.

**Only model-checked:** liveness (`Termination`, `SolveReturnsInTheEnd`,
`Returns`, `Recovers`). Liveness under fairness and `ENABLED` are beyond the proof
system as it is used here. Every invariant and every action property that a
passing run checks is a theorem.

## Not modelled, and why

* Defaults: what is filled in from schemas, and what `getEntityDefaults` and
  `skipSchemaDefaults` remove again. Two entities are equal or not; the comparison
  field by field, timestamps and masked values do not occur.
* The console and JSON forms of an event, formatting, warnings, progress, and the
  lists of dropped operations beyond the one of dropped events.
* A slice header read while it is half written: an unlocked `append` loses
  entries in the model and does nothing worse.
* A second `Solve` on the same `Syncer`: its channels are closed by then.
* In the dump of a gateway: tags to look entities up by, listings that are
  switched off, and what is listed differently when the gateway is managed by
  Konnect.
* In files: partial apply, consumers nested in groups, and what an entity uses
  without belonging to it (partials of plugins, certificates of services and
  upstreams, the service of a version), schemas of vaults and entities,
  more than one document of a parent, and paths with directories.
* In requests: names of parents that stand in for missing ids, fields that are
  stripped or added before sending. In the differs: a membership whose consumer
  has no id and is known by its username or `custom_id`
  (`pkg/types/consumer_group_consumer.go:132`).
* That a plugin needs the cloned or custom definition of its name: the code never
  looks at it, and puts definitions into the first level of `order.go`.
* File reading, templates, validation, and generated code: parsing and rendering
  without state of their own.
* The registry of actions (filled at start, then read), the Konnect client,
  login and its pagination (input and output), version parsing and other
  sequential utilities, coloured printing.
* Licenses in Konnect: the engine skips the kind there, and `noDeletes` is the
  only option of the engine that `Reconcile` varies.

## What could come next

1. The remaining credentials, vaults, partials and the plugins of groups in the
   runs of `Reconcile`; their rows are in `EntityKinds`.
2. An abstract specification of a synchronisation (plan, apply, verify) that
   `Reconcile` is shown to implement.
3. The pagination of Konnect's lists, and the filter over the packages.
4. Defaults as a function on entities, with the property that filling them in and
   removing them again changes nothing.
