--------------------------- MODULE BucketContainer ---------------------------
(***************************************************************************)
(* The bucket container (bucket.go), the reaper that removes idle dynamic  *)
(* buckets from it (reaper.go) and the configuration updates that replace  *)
(* parts of it (updateBucketContainer and Stop of server.go).              *)
(*                                                                         *)
(* Callers run FindBucket under the server's read lock; an update holds    *)
(* the server's write lock, so it never overlaps a FindBucket, and is one  *)
(* step here.  The reaper takes only the locks of the container and of one *)
(* namespace, and it overlaps both.                                        *)
(***************************************************************************)
EXTENDS Integers, Sequences, FiniteSets, Functions

CONSTANTS
  Callers,        \* goroutines that serve Allow
  Namespaces,     \* namespace names
  Names,          \* bucket names
  Default,        \* the slot of a namespace's default bucket
  Buckets,        \* identities of bucket objects, used again once unreferenced
  ServiceConfigs, \* the configurations that can be loaded
  WatcherBuffer,  \* ReaperConfig.BucketWatcherBuffer
  MaxUpdates,     \* bound on the number of configurations loaded
  None,           \* nil
  Attached        \* held: the object that bc.namespaces points to

ASSUME ContainerAssumption ==
  /\ None \notin Buckets \cup Callers \cup Namespaces
  /\ None # Attached
  /\ Default \notin Names
  /\ IsFiniteSet(Buckets) /\ IsFiniteSet(Namespaces) /\ IsFiniteSet(Names)
  /\ WatcherBuffer \in Nat \ {0}
  /\ MaxUpdates \in Nat

VARIABLES
  namespaces,    \* bc.namespaces
  defaultBucket, \* bc.defaultBucket
  bucket,        \* the bucket objects; Dead once destroyed
  nsLock,        \* which caller holds the write lock of each namespace
  pc,            \* where each caller is inside FindBucket
  call,          \* the namespace and name each caller looks for
  found,         \* the bucket each caller has in hand
  newWatchers,   \* the channel on which the reaper learns of buckets
  stopped,       \* that channel has been closed
  watchers,      \* reaper.watchers
  reaper,        \* where the reaper's goroutine is
  todo,          \* watchers that the current scan has not looked at
  cur,           \* the watcher whose bucket is being removed
  held,          \* the namespace object the reaper removes it from
  panic,         \* why the process has crashed
  cfgs,          \* the configuration loaded last (s.cfgs and bc.cfg)
  updates        \* how many configurations have been loaded

callerVars == <<nsLock, pc, call, found>>
reaperVars == <<watchers, reaper, todo, cur, held>>
configVars == <<cfgs, updates>>
vars == <<namespaces, defaultBucket, bucket, callerVars, newWatchers, stopped,
          reaperVars, panic, configVars>>

Slots == Names \cup {Default}
Keys == Namespaces \X Names   \* what FullyQualifiedName tells apart
Dead == None                  \* a bucket that has been destroyed

\* Of a bucket's settings, whether it has a MaxIdle; rate stands for the rest.
BucketConfig == [rate : Nat, reapable : BOOLEAN]

NamespaceConfig ==
  [template : BucketConfig \cup {None}, default : BucketConfig \cup {None},
   max : Nat, static : [Names -> BucketConfig \cup {None}]]

ServiceConfig ==
  [default : BucketConfig \cup {None},
   namespaces : [Namespaces -> NamespaceConfig \cup {None}]]

\* What the pointers to buckets and namespaces point to.
BucketObject == [cfg : BucketConfig, dyn : BOOLEAN, activity : BOOLEAN]

NamespaceObject ==
  [cfg : NamespaceConfig, buckets : [Slots -> Buckets \cup {None}], count : Nat]

ASSUME ConfigAssumption ==
  /\ ServiceConfigs \subseteq ServiceConfig
  /\ None \notin BucketConfig \cup NamespaceConfig \cup ServiceConfig
  /\ None \notin BucketObject
  /\ {None, Attached} \cap NamespaceObject = {}

\* A dynamic bucket is wrapped in a reapableBucket if its template has a MaxIdle.
Watched(b) == bucket[b] # Dead /\ bucket[b].dyn /\ bucket[b].cfg.reapable

\* The buckets that namespace object ns points to.
BucketsOf(ns) == IF ns = None THEN {} ELSE Range(ns.buckets) \ {None}

\* The bucket objects that something still points to.
Referenced ==
  (UNION {BucketsOf(namespaces[n]) : n \in Namespaces})
    \cup (IF held \in {None, Attached} THEN {} ELSE BucketsOf(held))
    \cup {defaultBucket}
    \cup Range(found)
    \cup {newWatchers[i].b : i \in DOMAIN newWatchers}
    \cup {watchers[k].b : k \in DOMAIN watchers}

Free == Buckets \ Referenced

-----------------------------------------------------------------------------
Init ==
  /\ namespaces = [n \in Namespaces |-> None]
  /\ defaultBucket = None
  /\ bucket = [b \in Buckets |-> Dead]
  /\ nsLock = [n \in Namespaces |-> None]
  /\ pc = [c \in Callers |-> "idle"]
  /\ call = [c \in Callers |-> None]
  /\ found = [c \in Callers |-> None]
  /\ newWatchers = <<>>
  /\ stopped = FALSE
  /\ watchers = <<>>
  /\ reaper = "select"
  /\ todo = {}
  /\ cur = None
  /\ held = None
  /\ panic = None
  /\ cfgs = None
  /\ updates = 0

-----------------------------------------------------------------------------
(***************************************************************************)
(* FindBucket.                                                             *)
(***************************************************************************)
Lookup(n, name) == IF namespaces[n] = None THEN None ELSE namespaces[n].buckets[name]
Template(n) == IF namespaces[n] = None THEN None ELSE namespaces[n].cfg.template

Return(c) ==
  /\ pc' = [pc EXCEPT ![c] = "idle"]
  /\ call' = [call EXCEPT ![c] = None]
  /\ found' = [found EXCEPT ![c] = None]

\* A panic in any goroutine ends the process.
Alive == panic = None
Crash(reason) == panic' = reason

(***************************************************************************)
(* Allow takes the server's read lock and FindBucket looks for name under  *)
(* the namespace's read lock.  Only reapable buckets report activity, so a *)
(* call that ends with another bucket, or with none, is over.              *)
(***************************************************************************)
FindBucket(c, n, name) ==
  LET b == Lookup(n, name)
      create == b = None /\ Template(n) # None
      report == b # None /\ Watched(b)
  IN  /\ Alive /\ pc[c] = "idle"
      /\ nsLock[n] = None
      /\ \/ /\ ~create /\ ~report
            /\ UNCHANGED <<pc, call, found>>
         \/ /\ report
            /\ pc' = [pc EXCEPT ![c] = "report"]
            /\ call' = [call EXCEPT ![c] = <<n, name>>]
            /\ found' = [found EXCEPT ![c] = b]
         \/ /\ create
            /\ pc' = [pc EXCEPT ![c] = "lock"]
            /\ call' = [call EXCEPT ![c] = <<n, name>>]
            /\ UNCHANGED found
      /\ UNCHANGED <<namespaces, defaultBucket, bucket, nsLock, newWatchers,
                     stopped, reaperVars, panic, configVars>>

\* ReportActivity on the bucket that was found: a send on a buffered channel
\* that drops what does not fit, and panics if Destroy has closed it.
ReportActivity(c) ==
  LET b == found[c]
  IN  /\ Alive /\ pc[c] = "report"
      /\ \/ /\ bucket[b] # Dead
            /\ bucket' = [bucket EXCEPT ![b].activity = TRUE]
            /\ UNCHANGED panic
         \/ /\ bucket[b] = Dead
            /\ Crash("report on closed activities")
            /\ UNCHANGED bucket
      /\ Return(c)
      /\ UNCHANGED <<namespaces, defaultBucket, nsLock, newWatchers, stopped,
                     reaperVars, configVars>>

\* createNewNamedBucketFromCfg once the watcher, if any, has been handed over.
PutBucket(n, name, b, cfg, dyn) ==
  /\ bucket' = [bucket EXCEPT ![b] =
                  [cfg |-> cfg, dyn |-> dyn, activity |-> dyn /\ cfg.reapable]]
  /\ namespaces' = [namespaces EXCEPT
                      ![n].buckets[name] = b,
                      ![n].count = IF dyn THEN @ + 1 ELSE @]

\* Mutant of TooManyBuckets: one bucket more than configured.
TooManyBucketsByOne(ns) == ns.cfg.max > 0 /\ ns.count > ns.cfg.max

\* The namespace has as many dynamic buckets as MaxDynamicBuckets allows; 0
\* sets no limit.
TooManyBuckets(ns) == ns.cfg.max > 0 /\ ns.count >= ns.cfg.max

(***************************************************************************)
(* With the namespace's write lock: look again, then create the bucket if  *)
(* it is static, or if it is dynamic and there is room for one more.  A    *)
(* dynamic bucket is watched before it is put in place.                    *)
(***************************************************************************)
CreateBucket(c) ==
  LET n    == call[c][1]
      name == call[c][2]
      ns   == namespaces[n]
      b    == ns.buckets[name]
  IN  /\ Alive /\ pc[c] = "lock"
      /\ nsLock[n] = None
      /\ \/ /\ b # None                      \* created concurrently
            /\ bucket' = [bucket EXCEPT ![b].activity = Watched(b)]
            /\ Return(c)
            /\ UNCHANGED <<namespaces, nsLock>>
         \/ /\ b = None
            /\ ns.cfg.static[name] # None    \* a static bucket, re-created
            /\ Free # {}
            /\ PutBucket(n, name, CHOOSE x \in Free : TRUE, ns.cfg.static[name], FALSE)
            /\ Return(c)
            /\ UNCHANGED nsLock
         \/ /\ b = None
            /\ ns.cfg.static[name] = None
            /\ TooManyBuckets(ns)
            /\ Return(c)
            /\ UNCHANGED <<namespaces, bucket, nsLock>>
         \/ /\ b = None
            /\ ns.cfg.static[name] = None
            /\ ~TooManyBuckets(ns)
            /\ Free # {}
            /\ found' = [found EXCEPT ![c] = CHOOSE x \in Free : TRUE]
            /\ pc' = [pc EXCEPT ![c] = "watch"]
            /\ nsLock' = [nsLock EXCEPT ![n] = c]
            /\ UNCHANGED <<namespaces, bucket, call>>
      /\ UNCHANGED <<defaultBucket, newWatchers, stopped, reaperVars, panic, configVars>>

\* Mutant of ApplyWatch: the namespace is left locked.
ApplyWatchLeavesLock(c) ==
  LET cfg  == namespaces[call[c][1]].cfg.template
      b    == found[c]
  IN  /\ Alive /\ pc[c] = "watch"
      /\ ~stopped
      /\ Len(newWatchers) < WatcherBuffer
      /\ newWatchers' = Append(newWatchers, [key |-> call[c], b |-> b])
      /\ PutBucket(call[c][1], call[c][2], b, cfg, TRUE)
      /\ Return(c)
      /\ UNCHANGED <<nsLock, defaultBucket, stopped, reaperVars, panic, configVars>>

\* applyWatch hands the watcher to the reaper, waiting for room in the
\* channel with the namespace locked; then the bucket is put in place.  The
\* two are one step: the lock is held throughout, and the reaper finds no new
\* watcher idle before MaxIdle has passed.
ApplyWatch(c) ==
  LET n    == call[c][1]
      name == call[c][2]
      cfg  == namespaces[n].cfg.template
      b    == found[c]
  IN  /\ Alive /\ pc[c] = "watch"
      /\ \/ /\ ~cfg.reapable
            /\ UNCHANGED newWatchers
         \/ /\ cfg.reapable
            /\ ~stopped
            /\ Len(newWatchers) < WatcherBuffer
            /\ newWatchers' = Append(newWatchers, [key |-> call[c], b |-> b])
      /\ PutBucket(n, name, b, cfg, TRUE)
      /\ nsLock' = [nsLock EXCEPT ![n] = None]
      /\ Return(c)
      /\ UNCHANGED <<defaultBucket, stopped, reaperVars, panic, configVars>>

\* After Stop the channel is closed and a send panics.  (The reaper also sets
\* the field to nil, unsynchronised, where a send waits for ever instead.)
ApplyWatchStopped(c) ==
  /\ Alive /\ pc[c] = "watch"
  /\ namespaces[call[c][1]].cfg.template.reapable
  /\ stopped
  /\ Crash("send on closed newWatchers")
  /\ UNCHANGED <<namespaces, defaultBucket, bucket, callerVars, newWatchers,
                 stopped, reaperVars, configVars>>

-----------------------------------------------------------------------------
(***************************************************************************)
(* The reaper's goroutine.                                                 *)
(***************************************************************************)
\* Mutant of ReceiveWatcher: the watcher that is there already is kept.
ReceiveWatcherKeepsOld ==
  /\ Alive /\ reaper = "select"
  /\ newWatchers # <<>>
  /\ LET w == Head(newWatchers)
     IN  watchers' = [k \in DOMAIN watchers \cup {w.key} |->
                        IF k \in DOMAIN watchers THEN watchers[k]
                        ELSE [b |-> w.b, aged |-> FALSE]]
  /\ newWatchers' = Tail(newWatchers)
  /\ UNCHANGED <<namespaces, defaultBucket, bucket, callerVars, stopped,
                 reaper, todo, cur, held, panic, configVars>>

\* addNewWatcher replaces any watcher of the same name.
ReceiveWatcher ==
  /\ Alive /\ reaper = "select"
  /\ newWatchers # <<>>
  /\ LET w == Head(newWatchers)
     IN  watchers' = [k \in DOMAIN watchers \cup {w.key} |->
                        IF k = w.key THEN [b |-> w.b, aged |-> FALSE] ELSE watchers[k]]
  /\ newWatchers' = Tail(newWatchers)
  /\ UNCHANGED <<namespaces, defaultBucket, bucket, callerVars, stopped,
                 reaper, todo, cur, held, panic, configVars>>

\* More than MaxIdle has passed since the watcher's last activity.  A scan
\* reads the clock once, at its start, so time passes between scans.
Age(k) ==
  /\ Alive /\ reaper = "select"
  /\ ~watchers[k].aged
  /\ watchers' = [watchers EXCEPT ![k].aged = TRUE]
  /\ UNCHANGED <<namespaces, defaultBucket, bucket, callerVars, newWatchers,
                 stopped, reaper, todo, cur, held, panic, configVars>>

\* The ticker fires and checkExpirations starts.
StartScan ==
  /\ Alive /\ reaper = "select"
  /\ DOMAIN watchers # {}
  /\ reaper' = "scan"
  /\ todo' = DOMAIN watchers
  /\ UNCHANGED <<namespaces, defaultBucket, bucket, callerVars, newWatchers,
                 stopped, watchers, cur, held, panic, configVars>>

EndScan ==
  /\ Alive /\ reaper = "scan"
  /\ todo = {}
  /\ reaper' = "select"
  /\ UNCHANGED <<namespaces, defaultBucket, bucket, callerVars, newWatchers,
                 stopped, watchers, todo, cur, held, panic, configVars>>

\* Mutant of ActivityDetected: an empty channel counts as activity.
ActivityAssumed(b) == TRUE

\* activityDetected: a receive from a closed channel always succeeds.
ActivityDetected(b) == bucket[b] # Dead => bucket[b].activity

\* tooIdle, which consumes the activity it finds.
CheckWatcher(k) ==
  LET b == watchers[k].b
  IN  /\ Alive /\ reaper = "scan"
      /\ todo' = todo \ {k}
      /\ \/ /\ ActivityDetected(b)
            /\ bucket' = IF bucket[b] = Dead THEN bucket
                         ELSE [bucket EXCEPT ![b].activity = FALSE]
            /\ watchers' = [watchers EXCEPT ![k].aged = FALSE]
            /\ UNCHANGED <<reaper, cur>>
         \/ /\ ~ActivityDetected(b)
            /\ ~watchers[k].aged
            /\ UNCHANGED <<bucket, watchers, reaper, cur>>
         \/ /\ ~ActivityDetected(b)
            /\ watchers[k].aged
            /\ reaper' = "lookup"
            /\ cur' = k
            /\ UNCHANGED <<bucket, watchers>>
      /\ UNCHANGED <<namespaces, defaultBucket, callerVars, newWatchers, stopped,
                     held, panic, configVars>>

\* bucketContainer.removeBucket reads the namespace's pointer.  The watcher
\* of a namespace that is gone is kept.
LookupNamespace ==
  /\ Alive /\ reaper = "lookup"
  /\ \/ /\ namespaces[cur[1]] = None
        /\ reaper' = "scan"
        /\ cur' = None
        /\ UNCHANGED held
     \/ /\ namespaces[cur[1]] # None
        /\ reaper' = "remove"
        /\ held' = Attached
        /\ UNCHANGED cur
  /\ UNCHANGED <<namespaces, defaultBucket, bucket, callerVars, newWatchers,
                 stopped, watchers, todo, panic, configVars>>

\* Mutants of Without: static buckets are counted; the entry is not deleted.
WithoutCountingAll(ns, name) ==
  IF ns.buckets[name] = None THEN ns
  ELSE [ns EXCEPT !.buckets[name] = None, !.count = @ - 1]

WithoutDeleting(ns, name) == ns

\* What namespace.removeBucket leaves of namespace object ns.
Without(ns, name) ==
  LET b == ns.buckets[name]
  IN  IF b = None THEN ns
      ELSE [ns EXCEPT !.buckets[name] = None,
                      !.count = IF bucket[b] # Dead /\ bucket[b].dyn THEN @ - 1 ELSE @]

(***************************************************************************)
(* namespace.removeBucket under the namespace's write lock, on the object  *)
(* that was looked up: whatever bucket has that name there is destroyed.   *)
(***************************************************************************)
RemoveBucket ==
  LET ns == IF held = Attached THEN namespaces[cur[1]] ELSE held
      b  == ns.buckets[cur[2]]
  IN  /\ Alive /\ reaper = "remove"
      /\ held = Attached => nsLock[cur[1]] = None
      /\ IF held = Attached
         THEN namespaces' = [namespaces EXCEPT ![cur[1]] = Without(ns, cur[2])]
         ELSE UNCHANGED namespaces
      /\ bucket' = IF b = None THEN bucket ELSE [bucket EXCEPT ![b] = Dead]
      /\ IF b # None /\ bucket[b] = Dead THEN Crash("destroyed twice")
                                         ELSE UNCHANGED panic
      /\ watchers' = [k \in DOMAIN watchers \ {cur} |-> watchers[k]]
      /\ reaper' = "scan"
      /\ cur' = None
      /\ held' = None
      /\ UNCHANGED <<defaultBucket, callerVars, newWatchers, stopped, todo, configVars>>

\* The closed channel has been drained: the goroutine returns.
ReaperReturn ==
  /\ Alive /\ reaper = "select"
  /\ stopped
  /\ newWatchers = <<>>
  /\ reaper' = "returned"
  /\ watchers' = <<>>
  /\ UNCHANGED <<namespaces, defaultBucket, bucket, callerVars, newWatchers,
                 stopped, todo, cur, held, panic, configVars>>

-----------------------------------------------------------------------------
(***************************************************************************)
(* Configuration updates and Stop.                                         *)
(***************************************************************************)
\* Mutant of Destroyed: a namespace that has changed keeps its buckets.
DestroyedIfDropped(cfg) ==
  {n \in Namespaces : namespaces[n] # None /\ cfg.namespaces[n] = None}

\* The existing namespaces that cfg drops or changes.
Destroyed(cfg) ==
  {n \in Namespaces : namespaces[n] # None /\ namespaces[n].cfg # cfg.namespaces[n]}

\* The namespaces of cfg that have to be created.
Created(cfg) ==
  {n \in Namespaces : /\ cfg.namespaces[n] # None
                      /\ namespaces[n] = None \/ n \in Destroyed(cfg)}

\* createNamespaceLocked makes a default bucket and every static bucket.
InitialBucketCfg(nsCfg, slot) ==
  IF slot = Default THEN nsCfg.default ELSE nsCfg.static[slot]

GlobalSlot == <<None, Default>>

DefaultChanged(cfg) ==
  (IF defaultBucket = None THEN None ELSE bucket[defaultBucket].cfg) # cfg.default

\* The buckets cfg needs that are not there yet, with their configurations.
NewBuckets(cfg) ==
  {s \in Created(cfg) \X Slots :
      InitialBucketCfg(cfg.namespaces[s[1]], s[2]) # None}
    \cup (IF DefaultChanged(cfg) /\ cfg.default # None THEN {GlobalSlot} ELSE {})

BucketCfgOf(cfg, s) ==
  IF s = GlobalSlot THEN cfg.default ELSE InitialBucketCfg(cfg.namespaces[s[1]], s[2])

(***************************************************************************)
(* updateBucketContainer with a newer configuration, under the server's    *)
(* and the container's write locks.  The first configuration is the case   *)
(* of an empty container.  A namespace whose configuration is unchanged is *)
(* left in place; any other is destroyed and made afresh.  If the reaper   *)
(* holds a pointer to a destroyed namespace, it keeps the old object.      *)
(***************************************************************************)
UpdateBucketContainer(cfg) ==
  LET gone  == (UNION {BucketsOf(namespaces[n]) : n \in Destroyed(cfg)})
                 \cup (IF DefaultChanged(cfg) THEN {defaultBucket} \ {None} ELSE {})
      new   == NewBuckets(cfg)
      ids   == CHOOSE f \in [new -> Free] : IsInjective(f)
      at(s) == IF s \in new THEN ids[s] ELSE None
  IN  /\ Alive
      /\ \A c \in Callers : pc[c] = "idle"     \* s.Lock()
      /\ updates < MaxUpdates
      /\ updates' = updates + 1
      /\ cfgs' = cfg
      /\ Cardinality(new) <= Cardinality(Free)
      /\ namespaces' = [n \in Namespaces |->
           IF n \in Created(cfg)
           THEN [cfg     |-> cfg.namespaces[n],
                 buckets |-> [slot \in Slots |-> at(<<n, slot>>)],
                 count   |-> 0]
           ELSE IF n \in Destroyed(cfg) \/ namespaces[n] = None THEN None
           ELSE [namespaces[n] EXCEPT !.cfg = cfg.namespaces[n]]]   \* swapCfg
      /\ defaultBucket' = IF DefaultChanged(cfg) THEN at(GlobalSlot) ELSE defaultBucket
      /\ bucket' = [b \in Buckets |->
           IF \E s \in new : ids[s] = b
           THEN LET s == CHOOSE s \in new : ids[s] = b
                IN  [cfg |-> BucketCfgOf(cfg, s), dyn |-> FALSE, activity |-> FALSE]
           ELSE IF b \in gone THEN Dead ELSE bucket[b]]
      /\ held' = IF held = Attached /\ cur[1] \in Destroyed(cfg)
                 THEN namespaces[cur[1]] ELSE held
      /\ UNCHANGED <<callerVars, newWatchers, stopped, watchers, reaper, todo, cur, panic>>

\* server.Stop closes newWatchers.  The RPC endpoints go on serving.
Stop ==
  /\ Alive /\ ~stopped
  /\ stopped' = TRUE
  /\ UNCHANGED <<namespaces, defaultBucket, bucket, callerVars, newWatchers,
                 reaperVars, panic, configVars>>

-----------------------------------------------------------------------------
CallerNext(c) ==
  \/ \E n \in Namespaces, name \in Names : FindBucket(c, n, name)
  \/ ReportActivity(c)
  \/ CreateBucket(c)
  \/ ApplyWatch(c)
  \/ ApplyWatchStopped(c)

ReaperNext ==
  \/ ReceiveWatcher
  \/ \E k \in DOMAIN watchers : Age(k)
  \/ StartScan
  \/ \E k \in todo : CheckWatcher(k)
  \/ EndScan
  \/ LookupNamespace
  \/ RemoveBucket
  \/ ReaperReturn

Next ==
  \/ \E c \in Callers : CallerNext(c)
  \/ ReaperNext
  \/ \E cfg \in ServiceConfigs : UpdateBucketContainer(cfg)
  \/ Stop

(***************************************************************************)
(* Goroutines that can run are scheduled.  Go's select chooses at random   *)
(* among the cases that are ready and its mutexes do not starve a waiter,  *)
(* so what is ready again and again is taken (SF).  MaxIdle passes.        *)
(* Nothing obliges callers to call, or an update or Stop to happen.        *)
(***************************************************************************)
Fairness ==
  /\ \A c \in Callers :
       /\ WF_vars(ReportActivity(c))
       /\ SF_vars(CreateBucket(c))
       /\ WF_vars(ApplyWatch(c))
  /\ SF_vars(ReceiveWatcher)
  /\ SF_vars(StartScan)
  /\ SF_vars(RemoveBucket)
  /\ WF_vars(LookupNamespace \/ EndScan \/ ReaperReturn)
  /\ \A k \in Keys :
       /\ WF_vars(k \in todo /\ CheckWatcher(k))
       /\ SF_vars(k \in DOMAIN watchers /\ Age(k))

Spec == Init /\ [][Next]_vars /\ Fairness

-----------------------------------------------------------------------------
Watcher == [b : Buckets, aged : BOOLEAN]

\* The types of the container's objects, of the callers and of the reaper.
\* That a count is a natural number says that no removal takes it below zero.
TypeOK ==
  /\ namespaces \in [Namespaces -> NamespaceObject \cup {None}]
  /\ bucket \in [Buckets -> BucketObject \cup {Dead}]
  /\ defaultBucket \in Buckets \cup {None}
  /\ nsLock \in [Namespaces -> Callers \cup {None}]
  /\ pc \in [Callers -> {"idle", "report", "lock", "watch"}]
  /\ call \in [Callers -> Keys \cup {None}]
  /\ found \in [Callers -> Buckets \cup {None}]
  /\ newWatchers \in Seq([key : Keys, b : Buckets])
  /\ Len(newWatchers) <= WatcherBuffer
  /\ stopped \in BOOLEAN
  /\ DOMAIN watchers \subseteq Keys
  /\ \A k \in DOMAIN watchers : watchers[k] \in Watcher
  /\ reaper \in {"select", "scan", "lookup", "remove", "returned"}
  /\ todo \subseteq DOMAIN watchers
  /\ cur \in Keys \cup {None}
  /\ held \in NamespaceObject \cup {None, Attached}
  /\ cfgs \in ServiceConfigs \cup {None}
  /\ updates \in 0..MaxUpdates

\* The buckets that FindBucket can hand out.
Reachable ==
  (UNION {BucketsOf(namespaces[n]) : n \in Namespaces}) \cup ({defaultBucket} \ {None})

\* A namespace's dynamicBucketCount, which removeBucket and
\* createNewNamedBucketFromCfg keep up to date under its lock, is the number
\* of dynamic buckets it holds, and never exceeds MaxDynamicBuckets.
DynamicBucketsCounted ==
  \A n \in Namespaces : namespaces[n] # None =>
    LET ns  == namespaces[n]
        dyn == {slot \in Slots : ns.buckets[slot] # None /\ bucket[ns.buckets[slot]].dyn}
    IN  /\ ns.count = Cardinality(dyn)
        /\ ns.cfg.max > 0 => ns.count <= ns.cfg.max

\* Destroy is called on a bucket exactly when it leaves the container: none
\* that can be found is destroyed, and none that cannot be found is left
\* running (the interface comment on Destroy, bucket.go:58).
DestroyedIffUnreachable == \A b \in Buckets : bucket[b] # Dead <=> b \in Reachable

\* The container holds what the configuration loaded last asks for, whatever
\* the updates and removals before it: its namespaces, its default buckets
\* and, in each bucket that can be found, the settings configured for it.
RunsCurrentConfig ==
  cfgs # None =>
    /\ (IF defaultBucket = None THEN None ELSE bucket[defaultBucket].cfg) = cfgs.default
    /\ \A n \in Namespaces :
         IF namespaces[n] = None THEN cfgs.namespaces[n] = None
         ELSE LET nsCfg == cfgs.namespaces[n]
              IN  \A slot \in Slots :
                    LET b == Lookup(n, slot)
                    IN  /\ b # None => bucket[b].cfg =
                             IF bucket[b].dyn THEN nsCfg.template
                             ELSE InitialBucketCfg(nsCfg, slot)
                        /\ slot = Default /\ b = None => nsCfg.default = None

\* A reapable bucket is known to the reaper under its name, or will be: the
\* last watcher of that name on its way to the reaper is its own.
WatcherKnown ==
  \A n \in Namespaces, name \in Names :
    LET b    == Lookup(n, name)
        key  == <<n, name>>
        sent == {i \in DOMAIN newWatchers : newWatchers[i].key = key}
        last == CHOOSE i \in sent : \A j \in sent : j <= i
    IN  b # None /\ Watched(b) /\ reaper # "returned" =>
          IF sent # {} THEN newWatchers[last].b = b
          ELSE key \in DOMAIN watchers /\ watchers[key].b = b

\* FindBucket is thread-safe (bucket.go:187): no interleaving with the reaper
\* makes it report activity on a channel that is closed.
FindBucketThreadSafe == panic # "report on closed activities"

\* Static buckets are not expired (bucket.go:280): a namespace always has the
\* buckets that its configuration names.
StaticNeverReaped ==
  \A n \in Namespaces : namespaces[n] # None =>
    \A name \in Names :
      namespaces[n].cfg.static[name] # None => Lookup(n, name) # None

\* The service is running: it has neither been stopped nor crashed.
Running == Alive /\ ~stopped

\* A reapable bucket that nobody asks for any more is deleted (reaper.go:131).
IdleReaped ==
  \A k \in Keys :
    LET b       == Lookup(k[1], k[2])
        present == b # None /\ Watched(b)
    IN  present ~> (~present \/ ~Running \/ \E c \in Callers : call[c] = k)

\* FindBucket returns, whatever the reaper and the other callers do.
FindBucketReturns ==
  \A c \in Callers : pc[c] # "idle" ~> (pc[c] = "idle" \/ ~Running)
=============================================================================
