# A TLA+ model of the quota service

The quota service hands out tokens to clients: a client asks for tokens from a
named bucket in a namespace and is told to go ahead, to wait, or that it may
not. This directory models the parts of it whose correctness depends on the
order of events, checks them with TLC on small instances, and proves the central
safety results with TLAPS for every value of the constants.

## Inventory

| Part | State | Operations | Hard because |
|---|---|---|---|
| In-memory bucket, `buckets/memory/bucket.go` | `tokensNextAvailableNanos`, `accumulatedTokens`, channels `waitTimer`, `closer` | `Take`, `calcWaitTime`, `waitTimeLoop`, `Destroy` | lazy refill and debt across arbitrary clock readings; `Destroy` races blocked senders; int64 arithmetic |
| Bucket container, `bucket.go` | `namespaces` (buckets, dynamic count, settings, lock), `defaultBucket` | `FindBucket`, `createNewNamedBucket`, `removeBucket`, `destroy`, `swapCfg` | double-checked creation, three levels of locks, objects used after unlock |
| Reaper, `reaper.go` | `watchers`, channel `newWatchers`, each bucket's `activities` channel | `applyWatch`, `ReportActivity`, `checkExpirations`, `stop` | its own goroutine; removes by name what it judged by watcher; bounded channel |
| Server, `server.go` | `cfgs`, `bucketContainer` | `Start`, `Stop`, `Allow`, `configListener`, `updateBucketContainer`, `updateConfig` | an update replaces parts of the container under traffic |
| ZooKeeper persister, `config/zookeeper_persister.go` | `configs`, `config`, watch, notification channel | `PersistAndNotify`, `ReadPersistedConfig`, the watch's listener | several servers, one-shot watches, failing calls, crashes |
| Other persisters, `config/` | a file, a table, an entity, a variable | the same interface | polling, files replaced in two steps |
| Redis bucket and factory, `buckets/redis` | keys in Redis, shared attributes with reference counts, the client | `Take` through a Lua script, reconnection | expiry of keys, reconnection under load |
| Events and statistics, `events`, `stats` | bounded queue, counters | `Emit`, `HandleEvent` | a full queue, batches |
| Admin API, `admin` | none of its own | version check, one handler per edit | edits from several clients |
| Admin UI, `admin/public/src` | a Redux store: the edited configuration with its past and future, the selection, the list of saved configurations, a pending confirmation, statistics; requests and timers under way | one handler per button and field, undo, redo, load, refresh, save, search | answers and timers arrive in any order between the handlers, and fail; edits are merged in the history; state refers to other state by name |
| RPC endpoints and clients, `rpc`, `client`, `quotaservice-cli` | none | mapping of requests and outcomes | |

The parts meet as follows. An RPC calls `Allow`, which finds a bucket with the
server's read lock held and calls `Take` on it without. The reaper learns of new
dynamic buckets over a channel and removes idle ones through the container. An
edit through the admin API is archived by the persister; the persister's watch
wakes `configListener` in every server, which reads the configuration and applies
it with the server's write lock held. The admin UI lists what is archived, edits a
copy of one configuration, and sends it back whole with the version it takes to be
the latest.

What makes each part correct:

* a bucket hands out no more tokens than time, one full bucket and the permitted
  debt pay for, in the order of arrival, and answers every caller;
* the container holds what the configuration loaded last asks for and never more
  dynamic buckets than allowed; it destroys exactly the buckets that leave it;
* the reaper removes what is idle, only what is dynamic, and blocks nobody;
* an accepted edit reaches every server, none goes back, and none is lost;
* the UI shows and sends what the admin has made: undo and redo lose nothing, the
  list of changes is true, and no answer, however late, mixes one configuration
  with the version of another or leaves the page waiting.

`PROJECT.json` lists the components, the hazards and the line each bites at.

## Modules

| Module | Models |
|---|---|
| `TokenBucketAlgorithm` | the arithmetic of one request; no state |
| `TokenBucket` | the in-memory bucket: callers in `Take`, the loop, `Destroy`, the clock |
| `RateLimiter` | what a bucket promises, whatever its implementation |
| `TokenBucketProofs` | the theorems about `TokenBucket` |
| `BucketContainer` | container, reaper, and the updates and `Stop` of the server |
| `BucketContainerProofs` | lemmas: what filling, emptying and replacing slots does to the container |
| `BucketContainerInvariance` | the theorems about `BucketContainer`, one lemma per action |
| `ConfigDistribution` | admin version check, `updateConfig`, ZooKeeper persister, `configListener`, crashes |
| `ConfigDistributionProofs` | the theorems about `ConfigDistribution` |
| `AdminStore` | the UI's actions and reducers; no state |
| `AdminUI` | the UI's handlers, requests and timers, and the server as the UI meets it |
| `UndoTimeline` | what undo and redo promise |
| `AdminUIProofs` | what edits make of a configuration, and undo, redo and edits of any history |
| `AdminUIReducers` | lemmas: what every reducer keeps of the UI's invariant |
| `AdminUIInvariance` | the theorems about `AdminUI`, and the refinement of `UndoTimeline` |
| `MC...` | names for TLC, configurations and symmetry sets |

### TokenBucket

`Take` is two actions: `TakeSend` (the caller blocks sending on the unbuffered
channel) and `TakeReturn` (it reads the answer). `LoopServe` is one turn of the
loop: rendezvous, `calcWaitTime`, answer. These do not block in between, because
the response channel has room for the answer. `LoopReturn` is the other arm of
the select. `Tick` moves the clock, which never goes back; the wall clock the
code reads could.

`CalcWaitTime` is `calcWaitTime` line by line over a bucket state, with `Wrap`
for the int64 arithmetic. The Lua script of the Redis bucket is the same
algorithm on the same two variables. Time is counted in arbitrary units.

`ledger` is a history variable: it follows the grants from a chosen one on, so
that an invariant can speak of any interval. No guard reads it.

### BucketContainer

An update takes the server's write lock and callers hold its read lock, so an
update is one step that no `FindBucket` overlaps. The reaper takes neither. Its
removal is therefore three steps: `CheckWatcher` (judge the watcher),
`LookupNamespace` (read the namespace's pointer), `RemoveBucket` (lock that
object and remove by name). If an update replaces the namespace between the last
two, `held` keeps the old object. `FindBucket` is split where the namespace's
lock is released: before `ReportActivity`, and before the write lock is taken to
create. `CreateBucket` keeps that lock while `ApplyWatch` waits for room in
`newWatchers`. Bucket objects are identities that are used again when nothing
refers to them. A panic stops the process, and `panic` says why.

`Age` is the passage of `MaxIdle`. A bucket configuration is a rate and whether
`MaxIdleMillis` is positive; that is enough to tell configurations apart and to
tell which buckets are watched. `BucketConfig`, `NamespaceConfig` and
`ServiceConfig` are the messages of `configs.proto` so abstracted, and
`ConfigAssumption` says that the configurations loaded are such messages.

### ConfigDistribution

A configuration is its version and the set of edits it takes into account. A request
goes through the version check, `updateConfig`, archiving and `Set`; it is not atomic
in the code and not in the model. Most requests change a bucket or a namespace in a
clone of what the server runs on by then. `UpdateConfig` of the code replaces the clone
by a whole configuration: in the model, by what its client has made of a configuration
of the checked version that it had read (`Readable`, `Base`), which may be older than
the clone or another one of the same version. What a client drops from it knowingly, by
saving an older configuration again for instance, counts as its edit. A whole
configuration sent without a version, which the code does not check against anything,
is left out. The listener of a server is `GetW`,
`ReadChildren` and `StoreLatest`. `StoreLatest` waits while a `PersistAndNotify`
of the same server holds the read lock. Any call may fail, up to a bound. A write
that reports an error may have been carried out. A server may crash and start
again with nothing but what ZooKeeper holds. ZooKeeper reads are taken to be
current: a server that reconnects to a lagging follower is outside the model.
Marshalling errors and malformed archived data are too.

### AdminStore and AdminUI

`AdminStore` is the store as pure operators under the names of the code: an
operator per action creator, reducer and helper, and `rootReducer`, through which
every action goes. The configuration `items` maps each namespace to its settings or
`Undefined`. A name is the sequence of its dot-separated parts, members of `Parts`,
so that the key of a change is a concatenation, as the string in the code is; a field
that was never set is `Undefined`, an emptied one `Null`.

`AdminUI` has an action per event handler. JavaScript runs a handler to its end,
so a handler is one step: it dispatches, and `Render` shows the result. A rendering
that reads a property of `undefined` throws, and React 16 then unmounts the page;
`mounted` says whether it is there, and nothing happens in the UI once it is not.
The handlers' guards are the conditions under which the views show a button or
leave it enabled. The confirmation's overlay does not take the keyboard away, so it
disables nothing in the model either.

A request sits in a slot of `requests` until its answer has been received. `Serve`
is the server's side: it answers, refuses, fails, or carries out a save whose answer
is lost. `Receive` is the UI's: `fetchConfigs` catches every failure itself; of a
save, the API middleware reports an error answer as `CONFIGS_FAILURE` and a lost one
as a `CONFIGS_REQUEST` with an error. That is redux-api-middleware 2, which is in the
committed bundle; version 3, named in `package.json`, reports both as
`CONFIGS_FAILURE`, and the reducers make the same of either. Answers to different requests arrive in any
order. The server keeps what was saved in `archive` and lists and runs on what its
listener has read back of it (`seen`). Another admin may save at any time. Whether
changes may be made and when the capabilities are answered is up to hooks of the
page, which are free to do anything.

In the statistics view `search` is the timer of the text typed last. The view's
`.then` on a plain action throws after `toggleStats` has been dispatched
(`actions/stats.jsx:11`), so the top lists are not requested by it. A timer whose
view has gone becomes one of `orphans` and fires all the same.

`loaded` is a history variable, the configuration loaded last. No guard reads it.

## Runs

| Run | Shows | Bounds |
|---|---|---|
| `token_bucket` | rate and debt bounds, order, refinement of `RateLimiter`, answers, the end of the goroutine | 2 callers, requests of 1 and 3 from a bucket of 2, 3 ticks: refill, debt, refusal for debt and for wait time all occur; the proofs cover the rest |
| `token_bucket_in_flight` | **violated**: a `Take` that is waiting at `Destroy` may never be answered | 2 callers, 3 ticks |
| `container` | count, destruction, settings, watchers | 2 callers, 1 namespace, 2 names, 5 configurations of which 3 are loaded in any order, channel of 2 |
| `container_liveness` | idle buckets go, `FindBucket` returns | same, 1 configuration |
| `find_bucket_race` | **violated**: `FindBucket` sends on a closed channel | same |
| `static_reaped` | **violated**: a static bucket is removed | 2 configurations loaded |
| `reaper_deadlock` | **violated**: caller and reaper wait for each other | 1 caller, 3 names, channel of 1 |
| `config_distribution` | versions only grow, history is unbroken, accepted versions arrive | 2 servers, 2 edits, 1 failure, 1 crash |
| `lost_edit` | **violated**: one of two accepted edits is dropped | no failures needed |
| `ui_history` | the list of changes is true, undoing everything gives back what was loaded, confirmations fit the screen, refinement of `UndoTimeline` | 1 namespace with an ordinary and a special bucket, 1 field, 3 contents of a field, 2 recorded edits, 1 request in flight, capabilities on |
| `ui_session` | list, version and edited configuration agree, no endless refetching or loading, searches are sent and answered | 2 requests in flight, 1 saved configuration and 1 more save, 1 search, no edits |
| `undo_crash` | **violated**: undoing the addition of the selected namespace ends the page | 1 namespace, 1 edit |

The bounds are named constants. Two callers are enough for every race of a caller
with another; one namespace is enough because a namespace's lock, count and
buckets are its own; three configurations let a name become static and dynamic
again. The 12 bucket identities of `MCBuckets` are never used up. `WatcherBuffer`
is 2 where the channel cannot fill in a way that blocks the reaper with two
names, and 1 in the run that shows that it can: the code's default of 10,000 only
makes the state rarer.

In the UI, two recorded edits are enough for a merge behind or after another edit,
for undoing and redoing in either order, and for an edit that clears a future; an
edit that would be merged counts against `MaxHistory` like any other. One
namespace is enough, because two changes to different buckets or fields already
must not be merged. Two requests in flight are needed for answers that overtake
each other, and two versions for them to differ.

`HistoryExplained` is checked for names without dots, and it is false for others:
bucket `b.c` of namespace `a` and bucket `c` of namespace `a.b` have the same key, so
`changesMergeable` joins a change to the one with a change to the other made next, and
the list shows only the second. An ordinary bucket called `default_bucket` and the
default bucket of its namespace share their key likewise. `KeysApart` says that no two
buckets do; it holds for the names of the runs and is the hypothesis of the theorem.

`LoadingEnds` is about `configs.inRequest` and `stats.inRequest`. Nothing obliges the
hook that answers for the capabilities, so `capabilities.inRequest` may stay.
`SearchAnswered` says of every search that it is sent; that it then brings statistics
or an error is only telling for a text searched for the first time, since what an
earlier search found stays in the store meanwhile. That the later search's request
ends is the second half of `LoadingEnds`.

The rate bounds of `token_bucket` say nothing of int64 overflow: `WordMax` is out of
reach of the run's requests, and the theorems assume `NoOverflow`.
`DestroyedIffUnreachable` is about which buckets are live, and not about a bucket
being destroyed twice, which the model has as a panic.

Deadlock checking is off in all runs, because the clock,
the updates and the edits are bounded and the system may then rest.

Each violated property states what a comment or a message in the repository
says; `findings` in `PROJECT.json` quotes it.

### Fairness

Weak fairness of every step a goroutine can take without waiting: Go schedules
what can run. Strong fairness where a step is enabled again and again but not all
the time: Go's `select` picks at random among ready cases, its mutexes hand over
to waiters that have waited long, and a ticker keeps ticking. `MaxIdle` passes.
In the UI: every request is answered or fails and its answer is received (one weak
fairness condition for both, since a request waits for one of them at a time), and a
search's timer fires; the timer may have to wait for a slot, which the bound on
requests makes and the browser does not, hence strong fairness. Capabilities need
not be answered.
There is no fairness on callers, on `Destroy`, on updates, on edits, on failures
on crashes, on admins or on the listener that reads saved configurations back.

## Proofs

### TokenBucket

`TokenBucketProofs` proves, for every size, interval, debt cap, set of callers
and set of requests:

* `TypeCorrect`, `UsableRateBounded`, `GrantedRateBounded`: the invariants;
* `FirstComeFirstUsableAlways`: the action property;
* `BucketImplementsRateLimiter`: every step of the bucket is a step or a stutter
  of `RateLimiter`.

All assume `NoOverflow`: no request is so large that `MaxTime + MaxDebt + n *
Interval` leaves int64. Without it the bounds are false: a negative sum passes
the debt check. `MaxTime` may be any natural number.

The bounds are not inductive. The argument is about `Spent`, the next
availability less the time that the accumulated tokens stand for: how far the
bucket's fill has been handed out. Refilling never lowers it
(`RefillPaysForItself`: whole intervals fit into the time they were counted in,
and the cap only discards), and a grant of n tokens raises it by at least n
intervals (`CalcWaitTimePays`). The invariant `Accounting` says that the tokens in
the ledger are covered by `Spent` less the ledger's mark and one full bucket. Since
`Spent` never exceeds the clock by more than the debt cap, both bounds follow.

### BucketContainer

`BucketContainerInvariance` proves, for any number of callers, namespaces, names,
updates and configurations and any size of the hand-over channel: `TypeCorrect`,
`CountsAreRight` (`DynamicBucketsCounted`), `DestroyedExactlyOnLeaving`
(`DestroyedIffUnreachable`), `AlwaysRunsCurrentConfig` (`RunsCurrentConfig`) and
`WatchersAlwaysKnown` (`WatcherKnown`). It assumes `ContainerAssumption` (the
distinguished values are distinct, the sets of names and bucket objects are finite) and
`ConfigAssumption`.

None of these is inductive. What the container itself needs is `ContainerInv`: no
bucket object is in two places, the live ones are exactly those in a place, each
namespace counts its dynamic ones, and each bucket has the settings of the
configuration in use. Every change of the container is one of three, filling an
empty slot (`PutKeeps`), emptying one (`RemoveKeeps`) and an update (`UpdateKeeps`),
and each keeps it.

That creating a bucket only ever fills an empty slot, and within the limit, needs
`CallersInv`: between the check and the creation the caller holds the namespace's
lock, so the slot stays empty and the room is kept; the object it will put there is in
no place and no other caller's. `ReaperInv` and `HeldInv` are about a removal that an
update has overtaken: the namespace object that the reaper still holds has no bucket
that is in use again, so what is removed from it is not in the container, and a bucket
made since under the name being removed has its watcher on the channel. Without the
last part `WatcherKnown` could not be shown to survive `RemoveBucket`, which deletes
the watcher by name: it is the fact that makes deletion by name safe here.

### ConfigDistribution

`ConfigDistributionProofs` proves `TypeCorrect`, `ServersNeverRegress`
(`NeverRegresses`) and `HistoryNeverBroken` (`HistoryUnbroken`), for any number of
servers, failures and crashes and any finite set of edits
(`DistributionAssumption`, `NoneIsNoConfig`).

The inductive invariant adds that no version exceeds the number of edits made by more
than one (`VersionCounted`), which holds because an edit makes one configuration, from
what the server runs on; that what a request holds is an edit of an archived
configuration, and what its client had read is archived and no newer than what the
server runs on (`Requested`): a server moves on between the check and the update but
not back; that whatever a
server has read, stored or runs on is archived (`OnlyArchived`), so that a crash loses
nothing it ran on; and that at every stage of the listener what is read is no older
than what is in use (`NothingOlder`). Archived configurations are never removed, so
the highest version among the children read now is at least the highest of any
earlier reading: that is why a server cannot go back.

### AdminUI

`AdminUIProofs` proves what the history reducer does to any history, for every set of
names and fields and however long the history is: `UndoMoves` and `RedoMoves` (undo
and redo leave the timeline as it is and move by one), and `EditPuts` (an edit
keeps the states up to its place, which a merged edit shares with the edit before
it). `AdminUIInvariance` proves for the whole UI, with any number of requests in
flight and any server archive: `TypeCorrect`, `ConfirmationsFresh` (`ConfirmFresh`),
`ListsAlwaysAgree` (`ListsAgree`), `UndoReachesLoaded` (`HistoryStartsAtLoaded`),
`NeverRefetchesForever` (`NoRefetchLoop`), `ChangesAreTrue` (`HistoryExplained`, given
`KeysApart`) and `RefinesUndoTimeline` (every step is a step or a stutter of
`UndoTimeline`). The assumptions are `StoreAssumption`, `UIAssumption` (the
configurations saved before the page opens are numbered as the server numbers them)
and `UndefinedIsNoConfig`.

Since every action goes through every reducer, the argument is by kind of action:
`AdminUIReducers` shows what each kind keeps of `StoreInv`, the properties as they
concern a store, and `AdminUIInvariance` that each handler dispatches actions of those
kinds. Two facts are added to make it inductive. While the views are mounted, the
selected namespace exists (`mounted => Renders(store)`): an edit of one that is gone
would not give a configuration, and it is the failing rendering that keeps the
handlers from being called. And a saved configuration has a version no greater than
its place in the archive, which bounds the next one.

`ChangesAreTrue` needs more than the timeline: each entry of the past leads to the
state after it and each entry of the future from the state before it (`Explained`). A
merged edit is explained because the same setting of the same object set twice is one
edit from the state before the first (`MergedIsOneEdit`), and equal keys mean the same
object only under `KeysApart`.

### Only model-checked

All liveness (answers, the end of the goroutine, idle buckets, `FindBucket` returning,
accepted versions arriving, loading, searches): fairness and `ENABLED` are out of the
prover's reach. The properties that the code violates have a counterexample each and
no proof. Every other property of the runs is proved.

## Not modelled

Logging, lifecycle flags, command-line parsing, layout and texts, generated code, test
servers and vendored code have no state a property here depends on. The wall
clock going backwards, a fill rate of zero or above one token per nanosecond, and
an empty ZooKeeper path at the first start are outside the models' initial states.
Of the UI, the drafts in text fields, which only their own submit button reads, and
what happens after a rendering has failed are left out. So is a bucket named like a
property of every JavaScript object, `constructor` say, which `BUCKET_KEY_MAP` finds
and takes for a special bucket. A save from the UI sends
namespaces only and the server replaces the whole configuration, so the global
default bucket is dropped; the model's configurations have none.
The list is taken to be newest first; configurations saved in the same second can
be listed in either order.
The rest is the plan.

## Plan

1. `RedisBucket`: `Take` of both Redis buckets over `TokenBucketAlgorithm`, key
   expiry, several servers on one key, as a refinement of `RateLimiter`; the
   factory's shared attributes, reference counts and reconnection.
2. `Allow` with the RPC mapping, composing `BucketContainer` and `TokenBucket`: what
   a request is told when its bucket is destroyed under it.
3. Events and statistics: the bounded queue and the Redis batcher.
4. The polling persisters (MySQL, Datastore) and the disk persister as variants of
   `ConfigDistribution`; an abstract specification of a persister that each
   implements. MySQL's unique version refuses the edit that ZooKeeper loses.
5. The mutators of `config/mutable.go`.
6. Theorems: the refinement of `RateLimiter` by the Redis bucket, and the invariants of
   the modules above as they come.
