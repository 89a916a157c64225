# Verification of the ad server

TLA+ models of the advertisement backend in `src/` (Go, gin, Postgres, redis
streams, redislock, asynq), the TLC runs that check them on small instances and
the TLAPS proofs of what holds for every instance. `PROJECT.json` lists the
components, the runs, the definition-by-definition map to the source, the
hazards and the theorems.

## 1. The system

An instance of the server is one process. Any number of instances share one
Postgres table `ads`, one redis stream `ad`, one redis lock `lock:ad` and one
asynq queue. Each instance keeps every active ad in an in-memory index and
answers reads from it alone.

A new ad takes this way: `CreateAd` stores a response channel under a request
id, obtains the lock, numbers the ad `MAX(version)+1`, commits the row, XADDs the
ad under the id `0-version`, releases the lock, enqueues the delete task for
`EndAt`, and waits for its channel. `Subscribe` of every instance reads the entry
and hands it to the dispatcher, which files the ad (at once, or by a timer at
`StartAt`) and answers the channel if it is in this instance. At `EndAt` asynq
calls `DeleteAd` on some instance: lock, number, deactivate the row, purge older
inactive rows, commit, XADD a delete entry, release. An instance that starts
restores a snapshot (`MAX(version)` and the active rows, REPEATABLE READ) and
subscribes after that version.

### Components

| Component | State | Operations | What makes it hard |
|---|---|---|---|
| Write path (`pkg/service/ad.go`, `task.go`) | Postgres rows and versions, the stream, the lock key, the tasks, each caller's locals | `CreateAd`, `storeAndPublishWithLock`, `registerAdDeleteTask`, `DeleteAd`, asynq's retries | four external systems without a common transaction; a lock with a TTL; redelivered tasks; crash at any point |
| Replica (`Restore`, `Subscribe`, `pkg/dispatcher` writes, the store's map) | `Version`, the index, the map `ads` | restore, its timeout and retry, read next entry, apply | snapshot against stream; trimming; duplicate deletions; restart |
| Requests of one instance (`pkg/dispatcher`, `pkg/syncmap`) | `RequestChan`, `ResponseChan`, the dispatcher's loop, a goroutine per read | `CreateAd`, `GetAds` and `Restore` as callers, `Start`, the four handlers | rendezvous channels, timeouts, `Exists` and `Load` as two steps, calls that come before the snapshot |
| Scheduled starts (`time.AfterFunc` in the create handlers) | pending timers and what their closures capture | set, fire | timers outside the log's order; captured loop variable |
| Index (`pkg/inmem`, `GetValueByKey`) | tree of synchronised maps, sorted sets in its leaves | `AddAd`, `DeleteAd`, `GetAd` with offset and limit | goroutines per value and level; 8-bit ages; rank ranges; scores in whole seconds |
| Lifecycle (`Run`, `Shutdown`, `pkg/bootstrap`) | stop flag, stop channels, wait group, deadlines | start, five retries of restore, shutdown after a signal or an error | one deadline of five seconds against waits of three; sends without a timeout |
| Command `inject` (`cmd/inject`) | the rows of Postgres | TRUNCATE, INSERT of 1000 mocks | changes the table and neither stream nor tasks, without the lock |
| HTTP API (`pkg/controller`, the bindings of `pkg/model`) | none | checks of a GET and a POST, statuses | what it lets through reaches the index of every instance |
| Bootstrap, `migrate`, docs, load test | none that outlives the start | set-up | nothing that interleaves |

What makes each component correct:

- Write path: a deletion is never published before its creation; an acknowledged
  ad is published and will be deleted; an asynq task is done only when its entry
  is out; versions are distinct; table and stream agree, so that a snapshot's
  version is an offset into the stream.
- Replica: it serves what a prefix of the log says; replicas at the same entry
  agree; a client reads its own ad where it was answered; what was dropped does
  not return; every entry is applied in the end.
- Requests: every call returns, every waiting caller's answer is on its way, a read
  finds what was confirmed before it.
- Scheduled starts: an ad is served from its start to its deletion.
- Index: a request finds exactly the stored ads that match; its pages miss none,
  whichever instance answers.
- Lifecycle: a clean exit cuts nothing off; a missed deadline has a cause; a
  shutdown ends; a process follows the stream or ends.
- `inject`: it blocks no request, and no deletion or purge takes its mocks.

## 2. Modules

| Module | Role |
|---|---|
| `AdLog` | the write path, statement by statement, with eight kinds of faults |
| `AdLogProofs` | theorems that hold whatever fails, and those that need the lock to hold or table and stream in step |
| `ReplicatedAds` | abstract specification: one log, replicas that boot from a snapshot and follow it |
| `ReplicatedAdsProofs` | what every implementation of it promises |
| `AdCluster` | composes `AdLog` with the instances as replicas; refines `ReplicatedAds` |
| `AdClusterProofs` | what holds of the cluster whatever fails, and the refinement |
| `Inject`, `InjectProofs` | `cmd/inject` beside the write path, and what the write path cannot do to its mocks |
| `AdInstance` | abstract specification: one instance boots from the rows, applies the entries after that in their order and answers their creators |
| `Dispatcher`, `DispatcherProofs` | the requests inside one instance, for any number of callers; implements `AdInstance` |
| `AdTimers`, `AdTimersProofs` | the scheduled starts inside one instance, with a clock |
| `Lifecycle`, `LifecycleProofs` | one process from its start to its exit, with its deadlines |
| `AdIndex`, `AdIndexProofs` | the index tree, its pages, and what the API lets through |
| `MCAdLog`, `MCAdCluster`, `MCInject`, `MCAdTimers`, `MCAdIndex` | constants and symmetry for TLC |

The write path decides whether anything else can be right, the cluster is what
the README of the program promises, and `Dispatcher`, `AdTimers` and `AdIndex` look
inside the steps that `AdCluster` takes as one. `Inject` and `Lifecycle` add the
two actors from outside: the operator's tool and the operating system.

Operators headed "Faulty form of ..." are plausible bugs of the operator they
precede. No specification uses them; each shows that some property would notice.

### AdLog

One writer is one goroutine in `CreateAd` or `DeleteAd`; `pc`, `op`, `ad`, `ver`
and `err` are its locals. The two methods share their critical section (obtain,
`SELECT MAX`, write and commit, XADD, release), so the actions `Obtain` to
`Release` serve both, and `Write` is the INSERT or the UPDATE and purge. After
`Release` the create goes on with `registerAdDeleteTask` and `Respond`, the delete
with asynq's `Ack` or `Retry`. `rows`, `stream`, `top`, `lock` and `task` are
what Postgres, redis and asynq hold; `outcome` is what the client was told.

Each external statement has a form that fails, where it applies one that fails
after taking effect, and `Crash` may follow every step. `Orphan` is a lock key
whose owner will never release it: the owner died, or `Release` or `Obtain` lost
its reply. Abstractions:

- The statements of a transaction take effect at COMMIT. Under READ COMMITTED
  nobody sees them earlier, and the purge touches only rows that no concurrent
  transaction is still writing.
- An ad is its id: title, period and audience play no part in this path. An ad's
  task may be due as soon as it exists, since `EndAt` may lie in the past.
- asynq's limit of 25 retries is left out: a task is retried until it succeeds.
- `Respond` may answer or time out at any moment; `AdCluster` says when an answer
  can come.

### AdCluster

Adds to each instance its `phase`, `version`, `index` and `known` (the keys of the
store's map `ads`, which `DeleteAd` leaves in place), and conjoins every step of a
writer with what it leaves alone. `Restore` is one step, since its snapshot is one
REPEATABLE READ transaction and nothing reads the index between the snapshot and
the end of the load that would tell. `ReceiveCreate` and `ReceiveDelete` join the
read of an entry with its handling: `Subscribe`, the unbuffered channel and the
dispatcher's loop take one entry at a time, and `Version`, which runs ahead by one
entry, is read by nobody else. `Panic` is the dereference of the nil that the map
returns for an unknown ad (`store.go:71`). `RestoreTimesOut` leaves the batch in
the store and Run to try again. `Shutdown` waits for requests of clients and for
no delete task, as `Application.Run` does. Every ad has started: the clock is in
`AdTimers`.

`answered` holds the ads whose creator the instance's dispatcher has answered, until
the process ends: what became of the client later does not matter to
`AnsweredIsServed`. `blocked` holds the instances whose dispatcher sends on the nil
channel of a creator that gave up between `Exists` and `Load` (its client had its
timeout, or `registerAdDeleteTask` failed): from then on the instance applies
nothing, answers nobody and ends only with its process. `ReceiveCreate` either
answers or, when the creator is gone, may block; the batch of a `Restore` that timed
out may block in the same way.

### Dispatcher, AdTimers, AdIndex

`Dispatcher` has one action per channel operation: the send and receive on
`RequestChan` are one rendezvous (`TakeGet`, `TakeEntry`, `TakeBatch`); `Exists`, `Load`
with the send, and the deferred `Delete` are steps of their own. A creator stands for
its ad; COMMIT and XADD are one step that may fail before, between or after the two,
for its parts are in `AdLog`. The listener does not wait for `Restore`, so a call may
come before `Snapshot`: its row is then in the batch (`rows`, `batch`) and its entry
before the offset of `Subscribe`, which never reads it. `skipped` remembers these
creators, which wait for their timeout. The batch is loaded ad by ad while reads go
on. `HandleCreate` stores an ad that has started and gives another one a timer
(`timers`, `FireTimer`); both answer the creator. A deletion is published for a
registered task only (`registered`), and of an ad that has started.

`AdInstance` is an instance as `AdCluster` takes it: it boots with the active rows of
one moment; an entry is stored (or scheduled) and its waiting creator answered in one
step, in the order of the stream. `Dispatcher` implements it. The batch counts as
served from `Snapshot` on, and an entry as unread until its effect is done, so the
steps of a create from `TakeEntry` to the send are one `Apply`, which happens where
the loop stores or schedules the ad; a creator counts as answered from then until it
returns (`AboutToAnswer`, or its channel is full). A creator that times out in between
is neither, and returns "timeout" though its ad is served.

`AdTimers` has a clock that advances when all due timers have fired, so timers
are on time relative to the unit of time, and the clocks of the instances agree.
A restored batch's timers all share the loop variable: with `go 1.21.0` in
`go.mod` there is one variable for the loop. A timer that is due at once may read it
before the loop ends, and then finds its own ad or a later one of the batch; a timer
that is due later finds the last.

`AdIndex` has one goroutine per value and level of `AddAd`, each with a look-up
and a set; it works on two keys, the ages with the arithmetic of their type
(`Ages` stands for 2^8) and one slice key that stands for Country, Platform and
Gender, which share their code. `Accepts` is the binding of a POST, `GetAd` the
handler of a GET with its bounds, its statuses and its page. A leaf is ordered by
the second of `CreatedAt` and by the id where seconds are equal; an instance that
read an ad from the stream has lost the fraction of its second (`Received`).

### Inject

Extends `AdLog` by the two statements of the command. TRUNCATE needs an exclusive
lock on the table, so no transaction that has read it is open then; it may come
between any two other steps. The command looks at the error of neither statement, so
a TRUNCATE that failed is followed by the INSERT all the same. The INSERT takes
neither `lock:ad` nor `MAX(version)`. The mocks are `Mocks`, ads that no client posts.
The command runs once and may be killed between its statements.

### Lifecycle

One action per point at which a goroutine of the process goes on. `main` is
`Application.Run`, `run` the goroutine of `AdService.Run` with `Restore`, backoff and
`Subscribe`, `at` the dispatcher as far as it keeps others waiting, `call` the HTTP
handlers. The wait group is not a counter but what it counts (`GroupIsEmpty`). Each
wait that the code limits is a countdown in seconds (`left`); the sends on
`RequestChan` have none. `HandOverLate` and `RestoreTimesOut` are the only places
where the dispatcher may block for ever; what leads there is in `Dispatcher`.
`lagged` and `margin` are history variables that only properties read. A statement
of Postgres or redis takes no time or fails; the asynq worker is part of
`AdCluster`, whose `Shutdown` cuts it anywhere.

## 3. Runs

`NAME.cfg` is the configuration of run `NAME`. The runs of `Dispatcher` and
`Lifecycle` need no MC module; every other one uses that of its family. Deadlock is
not checked in any of them: the ads, calls or seconds of a run are finite, and when
all are used the system rests.

| Run | Bounds | Shows |
|---|---|---|
| `AdLog_faults` | 2 writers in 2 instances, 2 ads, 3 faults of any kind | `CreateBeforeDelete`, `DoneMeansDeleted`, `AcknowledgedIsDurable`, `PublishedIsStored` |
| `Inject_live` | the same and a mock, 2 faults of any kind but "expiry", of which `inject` is one, under fairness | `MocksStay`, `EventuallyAnswered`, `EventuallyDeleted` |
| `AdCluster_faults` | 2 ads, one writing and one reading instance, 3 starts, a stream of 2 entries, 1 fault of any kind | `AnsweredIsServed`, `NoResurrection` |
| `AdCluster_tolerated` | 2 writing instances, 2 ads, 3 starts, 2 faults of lock, db, queue or clean stops | `MutualExclusion`, `VersionsDistinct`, `VersionTracksStream`, `SnapshotMatchesLog`, `DeletesAreKnown`, and the refinement `ImplementsReplicatedAds` |
| `AdCluster_live` | 2 ads, one writing and one reading instance, 2 starts, 1 crash or lost XADD, under fairness | `NoStaleAds`, `InactiveWillEnd`, `EventuallyServed`, `EventuallyDropped` |
| `Dispatcher_calls` | 1 read, 2 creators, `Restore` and timers, under fairness | `AnswerOnItsWay`, `ReadYourWrites`, `DeletionOnItsWay`, `CallsReturnOrBlock`, `DeletionsApplyOrBlock`, and the refinement `ImplementsAdInstance` |
| `AdTimers_stream` | 3 ads, two of which start together and one of which ends before they start, clock to 5, no scheduled ad in a snapshot | `NeverEarly`, `NeverBack`, `StartedIsServed`, `DeletesAreKnown` |
| `AdIndex_tree` | 4 ads that the API accepts and 2 that it refuses, ages of two bits, one country, pages of 1 and 2 | `FindsExactlyMatches`, `PagesCoverAll` |
| `Lifecycle_shutdown` | 2 creates, 1 read, one retry of Restore, waits as below, under fairness | `CleanExitCutsNothing`, `MissedDeadlineHasCause`, `ShutdownEnds`, `FollowsOrEnds` |
| `AdCluster_redelivery` | 1 ad, 1 crash | violates `DeletesAreKnown` |
| `Dispatcher_late` | 1 read, 1 creator | violates `EveryCallReturns` |
| `AdTimers_lost` | 3 ads that start after the clock does, scheduled ads allowed in a snapshot | violates `StartedIsServed` |

Why the bounds are enough to be interesting:

- Two writers meet at the lock; two ads let one delete purge the tombstone of
  another, and let a redelivered delete take the maximum back; three faults allow a
  failure, the redelivery it causes and a failure of that. That the lock excludes and
  versions are distinct is checked with the faults of `AdCluster_tolerated` and proved
  for all but "expiry".
- `MaxRuns` = 3 lets one instance restart while the other runs. A stream of two
  entries is exceeded by two ads' four. Only with two ads can an instance of
  `AdCluster_live` pass an entry while it still serves another ad; a lost XADD makes
  a row that a restart serves and a running instance does not, or a tombstone that
  running instances still serve until the task runs again (`InactiveWillEnd`).
- In `Inject_live` the command may come before, between and after both ads' creation
  and deletion; one mock is enough for its number to meet that of an ad. Two faults
  are what a table that stays behind the stream takes without `inject`: a lost reply
  of one XADD and a failure of another (see 4), so both exceptions of
  `EventuallyDeleted` occur.
- In `Dispatcher_calls` `Restore` may come before, between and after the two
  creations, so that one creator's entry is skipped while another's is read, and one
  ad comes by the batch while the other one's deletion is on its way.
- The four accepted ads of `AdIndex` have a doubled zero age, a doubled country, a
  range upside down and a range that ends at the type's last value: the cases in
  which two goroutines meet at one node, the slice's length wraps or the loop does
  not end. `AgeStart` may be the last age (`LastStart`; 100 of 255 in the code), since
  with ages of two bits a range is otherwise upside down by one at most and its
  wrapped length is 0: the ad `Inverted` files itself under three nil elements. The
  others share a second and were created in the reverse order of their ids, so a
  finer score would order them differently where the fraction is known. `Old` panics
  and ends the run's path (see 4).
- Of the ads of `AdTimers_stream` two start together and end apart, one is over before
  they start, and the clock passes the last end by one. In `AdTimers_lost` a batch
  holds up to three ads whose timers are all in the future, so each of them reads
  the variable after the loop has ended.
- `Lifecycle_shutdown` keeps the code's `CallWait` 3, `ReadBlock` 3 and `SignalGrace`
  5, whose sums decide who misses the deadline. `RestoreWait` 6 (10 in the code),
  `ErrorGrace` 8 (30), `MaxRetry` 1 (5) and `MaxSleep` 1 are scaled down and keep
  their order: a restore outlasts the grace of a signal and not that of an error.
  The theorems of `LifecycleProofs` hold of the code's values.

`MaxFaults`, `MaxRuns` and `MaxTime` bound the models, not the program;
`MaxLen` is the program's 100000, `Ages` its 256, `MaxLimit` and `LastStart` its 100
(in `AdIndex_tree` `LastStart` is the last age, see above).

### Fairness

Weak fairness of a writer's steps, of the dispatcher, of each read's goroutine, of
`Restore`'s snapshot and of the reader of the stream (its panic included): Go
schedules every goroutine that can run, and every wait but two (the send on
`RequestChan`, and on a response channel) is a select with a timeout, whose firing is
also fair. A dispatcher that is blocked on a nil channel is never assumed to go on:
its steps are disabled, and `EventuallyServed`, `EventuallyDropped`,
`CallsReturnOrBlock` and `DeletionsApplyOrBlock` name it as their exception. A timer
of a scheduled ad in `Dispatcher` is not fair, since its date is not modelled there.
`RequestChan` queues
its senders, so `TakeGet` is fair for each read. asynq hands out a due task while a
worker is free. redis drops a key when its TTL ends (`OrphanExpires`). In `Lifecycle`
time passes (`Tick`), `Run`, the load of a batch and `main` go on, and a deadline
that has passed is noticed. No fault, no request of a client, no signal, no step of
`inject` and no start of a process is fair; an instance that is down may stay down,
and `EventuallyServed` and `EventuallyDropped` speak of those that are up.

## 4. What the code does against its documentation

Three disagreements have a run:

1. A delete task that asynq runs again after its XADD (the worker crashed before
   it returned) publishes a second delete entry. An instance that restored after
   the first never knew the ad, and its dispatcher panics at `store.go:71`. The
   instance that panics also kills its own asynq worker, so the task may run and
   publish again. (`AdCluster_redelivery`)
2. When `CreateAd` or `GetAds` returns between `Exists` and `Load`
   (`request_multiplexer.go:78-79`), the answer is sent on a nil channel. For a
   create this blocks the dispatcher for good, and with it `Subscribe` and every
   later `GetAds`, whose send has no timeout. (`Dispatcher_late`;
   `CallsReturnOrBlock` and `DeletionsApplyOrBlock` show that nothing else can
   block them.)
3. All timers of a restored batch store the batch's last ad
   (`request_multiplexer.go:41`): of several scheduled ads all but the last are lost
   at a restart, and the last may be served before its start, so `NeverEarly` fails
   there too. (`AdTimers_lost`)

Others show when a bound or a set of faults of a passing run is changed:

- With "expiry" in `Faulty`, `MutualExclusion` fails: the TTL of 100 ms is never
  refreshed (`ad.go:50`, `ad.go:305`; README.md:125 of the program). With two ads
  `NoStaleAds` fails as well: a deletion may enter the stream at or below the
  version of a snapshot that holds the ad. What still holds then is what
  `AdLogProofs` and the first part of `AdClusterProofs` prove.
- With "xadd", "xaddReply", "dbReply" or "crash" in `Faulty`, `VersionTracksStream`
  and `SnapshotMatchesLog` fail: a committed row may never be published
  (README.md:65 of the program). After two such faults an ad may stay for ever: a
  redelivered delete updates no row and purges every tombstone, so `MAX(version)`
  falls below the stream's last id and XADD refuses all entries until it has caught
  up; the id is then not `MAX(version)`, as `ad.go:98` has it. `EventuallyDeleted`
  names this state (`Behind`) as its exception.
- With "slow" in `Faulty`, `NoStaleAds` fails: `Restore` that timed out has filled
  the store, and its retry does not empty it (README.md:137 of the program).
- With `MaxLen` = 1 an instance that lags skips entries without a sign
  (README.md:317 of the program speaks of a retry); `ImplementsReplicatedAds`
  fails.
- The ad `Old` of `MCAdIndex`, whose ages end at the type's last value, is accepted
  by the API, which bounds `AgeStart` only, and panics in `GetValueByKey`
  (`model/ad.go:46`) in every instance. `AgeStart` is compared with itself
  (`model/ad.go:165`), so a range may be upside down; such an ad is found by requests
  that name no age.

And some are plain from the definitions:

- Every page but the first holds one ad more than the limit, the last of the page
  before (`Page`; `index.go:124`).
- `GetAd` never answers 404, though its comment lists it: a page that finds nothing is
  empty (`ad_controller.go:47`). `total` is the length of the page.
- A `CreateAd` whose row is in the snapshot of `Restore` and whose entry therefore
  comes before the offset of `Subscribe` waits for an answer that nobody sends, and
  its client sees a timeout for an ad that is served (`skipped` in `AnswerOnItsWay`;
  `ad.go:187`, `ad.go:226`).
- A GET that comes before `Restore` has loaded its batch is answered from the empty
  store with status 200: `services.Run` and the listener start side by side
  (`app.go:142-153`).
- After SIGTERM `srv.Shutdown` and `services.Shutdown` share five seconds
  (`app.go:173`), while a create waits up to three and an XREAD three more: a process
  without a fault may exit by `log.Fatalf`. That is the last cause in
  `MissedDeadlineHasCause`. `srv.Close` (`app.go:179`) stands behind `log.Fatalf`.
- `inject` leaves the table behind the stream when the stream's last id is above the
  number of mocks: every later change is refused until `MAX(version)` has caught up,
  which a deletion of a truncated ad cannot help (`EventuallyDeleted` of `Inject`).

## 5. Theorems

The assumptions are the named ASSUMEs of the modules. They ask that `NoAd` is no
ad, that `Free` and `Orphan` are distinct and no writers, that every writer has a
home, that an ad ends after it starts and has the fields of its type, that a call waits
less than the grace of a signal. Sets of ads, writers, instances and callers may be of any size (`Mocks` is
finite), and any number of faults may happen. TLC evaluates the assumptions in the
runs.

`AdLogProofs`, whatever fails:

- `TypeCorrect`, `NeverDeletesUnknown`, `CompletedIsPublished`,
  `AcknowledgedStays` follow from `Invariance`: the conjunction `Inv` is inductive.
  `CreateBeforeDelete` alone is not, since XADD of a deletion says nothing about the
  past; `Inv` adds that a delete task exists only for a published ad
  (`TaskMeansCreated`), that a deleter works for a task (`DeleterHasTask`), that a
  method past XADD without an error has published (`PublishedOK`), and that ids
  grow to `top` (`TopIsLast`).
- `PublishedOnce` needs `CreateInv` on top: one creator per ad, which finds no row
  and no entry of it, and publishes under the number it stored.

Its second half assumes something of the faults:

- `LockExcludes` and `VersionsAreDistinct`, when "expiry" is not in `Faulty`. The
  inductive step is that whoever is between `Obtain` and `Release` is the key's
  value (`LockOK`); a number read under the lock stays above all rows, though the
  purge may lower the maximum.
- `VersionIsOffset` and `SnapshotIsLog`, when only "lock", "db" and "queue" fail and
  processes stop in order (`InStep`). `StepInv` relates, for the lone writer in the
  critical section, its number to `top` and the maximum, and for every delete task
  the state of its ad.

`ReplicatedAdsProofs`: `PrefixServed` (a replica serves exactly what its prefix of
the log says) from a log whose ads are created once and before they are deleted,
and from it `ReplicasAgree`.

`AdClusterProofs`. `LogInvariance` carries `Inv` and `CreateInv` over: every step of
the cluster is one of `AdLog`, the end of a process (`Kill`, without the fault
"crash" that `AdLog` asks for), or leaves the write path alone.

- Whatever fails: `ClusterTypeCorrect`, `ReadsOwnAd` and `StaysDropped`. `ServeInv`
  adds that an instance knows every ad whose creator it has answered
  (`AnsweredIsKnown`) and has passed the deletion of every ad that it knows and does
  not serve (`DroppedIsDeleted`): the ad's creation, published once and before, is
  then behind its version.
- Under `InStep`, and as long as the stream still holds every entry that an instance
  has not read (`NothingMissed`, which trimming would end): `DeletesFind`,
  `ServesNothingStale`, `InactiveEnds`, `InstancesServeTheSame` and
  `ClusterImplements`, the refinement of `ReplicatedAds`.
  `FollowInv` says of an instance that follows that its index is what the log up to
  its version says, and its map at least that (`Follows`), and of the log with the
  change in flight (`Committed`) that its ids are distinct and end at the number of
  that change. A COMMIT publishes, `Restore` boots a replica from the whole log, an
  entry that is read is the next one, the end of a process halts its replica; every
  other step, XADD included, stutters.

With `PrefixServed` this says of any number of instances that each serves exactly
what its prefix of the log says, while table and stream are in step.

`InjectProofs`: `MocksOutlivePurges`, whatever fails. `Inv` says nothing about rows but
their type, so TRUNCATE and INSERT preserve it. `NobodysAd` adds that no writer works on
a mock, that a mock has no task and that its row is never a tombstone: neither the
UPDATE nor the purge of a deletion can then touch it.

`DispatcherProofs`, for any callers and every interleaving of them:

- `TypeCorrect`, `AnswerNotLost` and `ReadsFindWrites`. `Inv` follows a request from
  its caller's channel over the stream, the dispatcher's hand or a read's goroutine
  to its answer (`CreatesOnTheirWay`, `ReadsOnTheirWay`), an answered ad from the
  store or its timer to its deletion (`Lasts`), and the batch of `Restore` into the
  store before the first entry (`BootOK`). A creator whose entry came before the
  snapshot is the exception of `AnswerNotLost`, as it is in the code.
- `DroppedByDeletion`: an ad whose deletion was published is dropped, or the deletion
  is still to come. This is not inductive, since an ad that is dropped might be
  stored again by a creation behind its deletion, by the batch or by a timer;
  `OrderInv` adds that no creation is behind a deletion, in the stream or in hand,
  that no ad whose deletion is published is active in the table or has a timer
  (`DeletesComeLate`), and counts the batch as stored (`DropsOnTheirWay`).
- `DispatcherImplements`: every step of the loop, of `Restore`, of the goroutines, the
  timers and the callers is one of `AdInstance` or stutters. Beyond `Inv` the argument needs that an answer in a
  channel belongs to a call that is still open (`CallsAreOpen`), and lemmas about
  appending to a feed behind an entry in hand.

`AdTimersProofs`: `TypeCorrect`; and as long as no snapshot holds an ad that has not started
(`~RestoreScheduled`; without it `AdTimers_lost` is the counterexample):
`ServedHasStarted`, `StartedAreServed`, `DeletesFindTheirAd`, `DroppedStaysAway`. `Inv`
says that an ad which the instance was told of is in the feed, waits for its timer
or is in the store's map, and is never in two of these places, so no timer is left
when the deletion comes.

`LifecycleProofs`: `TypeCorrect`, `CleanExit` and `DeadlineMissed`, for any waits. `Inv` follows the
two countdowns that race with the deadline: while `srv.Shutdown` drains, what is
left of the deadline is at least what is left of each create's wait
(`DrainsInTime`), and while `Subscribe` is to end, at least what is left of XREAD
(`StopsInTime`).

`AdIndexProofs`: `IndexTypeCorrect`, `FindsMatches` and `PagesMissNothing`. Two goroutines of one `AddAd`
may both find no child and both set one, so an edge is replaced and a subtree cut
off. `Inv` says that this subtree holds no ad but the one that is being filed
(`MakersAreAlone`, `ParentsStand`), since every other stored ad has an edge for each
of its values on every level (`OthersAreFiled`); and that each path of the ad that is
being filed is complete or has its goroutine (`WriterIsOnItsWay`), so that it is
complete when the mutex is let go. The values that lead to a node are read off its
name (`EdgesOK`), which shows that an ad is filed under its own values only and that
`DeleteAd` reaches every leaf that holds it (`FiledOK`, `AtRest`). `AgesOf` and
`CountriesOf` say what `GetValueByKey` returns for any ad whose ages the type can
count.

`PagesMissNothing` is about the ranks of a leaf. What a request finds is finite, so
an order by score and id numbers it without gaps (`RankedProperties`); scores in
whole seconds are the same whether an instance restored an ad or received it, so both
instances give every ad the same rank (`SameRanks`); and a page holds the ranks
between its offset and its offset plus the limit, both included (`PageOf`). The first
short page has therefore reached the last rank. That there is a first one is a
question of the least number with a property (`Least`, from the well-foundedness of
the naturals), so no induction over the pages is needed.

Only model-checked: everything under fairness (`EventuallyAnswered`,
`EventuallyDeleted`, `EventuallyServed`, `EventuallyDropped`, `CallsReturnOrBlock`,
`DeletionsApplyOrBlock`, `ShutdownEnds`, `FollowsOrEnds`), since liveness is out of
the prover's reach. Every safety property of a passing run has its theorem (`InactiveWillEnd`,
`NoStaleAds`, `DeletesAreKnown` and `ImplementsReplicatedAds` under `InStep` and
`NothingMissed`; with a crash or a lost XADD the first two are model-checked). Two theorems
need no run of their own: `TypeCorrect` of `AdLogProofs`, whose `TypeOK` is a conjunct
of `ClusterTypeOK`, and `InstancesServeTheSame`, which the refinement implies.

## 6. Not modelled

- Routes, CORS, the wording of errors: stateless. The fields of an ad that no index
  uses.
- Configuration and connections, among them the pool: `Restore` leaks its
  transaction when one of its statements fails (`ad.go:187-198`, no `Rollback`), at
  most five times in a process.
- `cmd/migrate`, which creates the table before anything runs; generated docs,
  containers, load test.
- `inmem/store_experient.go`, which is commented out; `CreateBatchAds` of the store,
  which nothing calls; `ToMap` and `FromMap`, which only tests call.
- asynq's limit of 25 retries, after which it archives a task: a task is retried
  until it succeeds.
- Clocks of instances that differ.

## 7. Plan

Every component of section 1 that keeps state is modelled and has its theorems. What
is left, in this order:

1. `Lifecycle` as an environment of `Dispatcher`: its `at = "blocked"` is a choice
   where `Dispatcher` has a cause. The composition would show that the two causes of
   `Dispatcher` are the only ones.
2. The step of `AdCluster` in which an instance applies an entry as a step of
   `AdInstance`, which would close the chain from the loop's channels to
   `ReplicatedAds`.
3. An archive of failed delete tasks in `AdLog`: which ads are never deleted after
   asynq gives up.
