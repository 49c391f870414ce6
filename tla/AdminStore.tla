----------------------------- MODULE AdminStore -----------------------------
(***************************************************************************)
(* The store of the admin UI (admin/public/src): what its action creators  *)
(* build and what its reducers make of it.  There is no state here; module *)
(* AdminUI has the views, the requests and the server.                     *)
(*                                                                         *)
(* The configuration being edited, items, maps a namespace to its settings *)
(* or to Undefined.  The names that objects carry beside the keys they are *)
(* stored under are left out, because ApplyDefaults and the reducers keep  *)
(* the two equal.  A name is the sequence of its dot-separated parts, so   *)
(* the key under which a change is recorded is a concatenation, as it is   *)
(* in the code, and two different objects may have the same key.           *)
(***************************************************************************)
EXTENDS Naturals, Sequences

CONSTANTS
    Parts,       \* what names and keys are made of
    Namespaces,  \* the names namespaces may have
    Buckets,     \* the names buckets may have, special ones included
    Fields,      \* the settings of a bucket
    Values,      \* the integers a field may be set to
    Searches,    \* the dynamic buckets whose statistics are looked up
    Null,
    Undefined

ASSUME StoreAssumption ==
    /\ Namespaces \cup Buckets \subseteq Seq(Parts)
    /\ Fields \subseteq Parts
    /\ {"default_bucket", "dynamic_bucket_template",
        "max_dynamic_buckets"} \subseteq Parts
    /\ {Null, Undefined} \cap Namespaces = {}
    /\ {Null, Undefined} \cap Values = {}
    /\ Null # Undefined

-----------------------------------------------------------------------------
(* The edited configuration.                                               *)

\* The special buckets live beside the map of buckets, under these keys.
BUCKET_KEY_MAP ==
    [b \in {<<"___DEFAULT_BUCKET___">>, <<"___DYNAMIC_BUCKET_TPL___">>} |->
        IF b = <<"___DEFAULT_BUCKET___">> THEN <<"default_bucket">>
                                          ELSE <<"dynamic_bucket_template">>]

DynamicTemplate == <<"___DYNAMIC_BUCKET_TPL___">>

\* bucketKey || action.bucket
BucketKey(b) == IF b \in DOMAIN BUCKET_KEY_MAP THEN BUCKET_KEY_MAP[b] ELSE b

\* Where a bucket is, from its namespace on.
BucketPath(b) ==
    IF b \in DOMAIN BUCKET_KEY_MAP THEN <<BUCKET_KEY_MAP[b]>>
                                   ELSE <<"buckets", b>>

BucketPaths == {BucketPath(b) : b \in Buckets}

Setting == Values \cup {Null, Undefined}

BucketConfig == [Fields -> Setting]

NamespaceConfig ==
    [max_dynamic_buckets : Setting,
     buckets : [BucketPaths -> BucketConfig \cup {Undefined}]]

Items == [Namespaces -> NamespaceConfig \cup {Undefined}]

NoItems == [n \in Namespaces |-> Undefined]

NewBucket == [f \in Fields |-> Undefined]

NewNamespace ==
    [max_dynamic_buckets |-> Undefined,
     buckets |-> [p \in BucketPaths |-> Undefined]]

HasBucket(items, n, b) ==
    items[n] # Undefined /\ items[n].buckets[BucketPath(b)] # Undefined

-----------------------------------------------------------------------------
(* Action creators.                                                        *)

confirm(action) == [type |-> "CONFIRM", action |-> action]

clearConfirm == [type |-> "CLEAR_CONFIRM"]

addNamespace(n) == [type |-> "ADD_NAMESPACE", namespace |-> n]

updateNamespace(n, v) ==
    [type |-> "UPDATE_NAMESPACE", namespace |-> n,
     key |-> "max_dynamic_buckets", value |-> v]

removeNamespace(n) == confirm([type |-> "REMOVE_NAMESPACE", namespace |-> n])

addBucket(n, b) == [type |-> "ADD_BUCKET", namespace |-> n, bucket |-> b]

updateBucket(n, b, f, v) ==
    [type |-> "UPDATE_BUCKET", namespace |-> n, bucket |-> b, key |-> f,
     value |-> v]

removeBucket(n, b) ==
    confirm([type |-> "REMOVE_BUCKET", namespace |-> n, bucket |-> b])

undo == [type |-> "UNDO"]

redo == [type |-> "REDO"]

selectNamespace(n, canMakeChanges) ==
    [type |-> "SELECT_NAMESPACE", namespace |-> n,
     canMakeChanges |-> canMakeChanges]

loadConfig(c) == [type |-> "LOAD_CONFIG", config |-> c]

\* The request to save is built, with the body serialised, when Save is
\* clicked; it is sent when the admin confirms.
commitConfig(items, version) ==
    confirm([type |-> "CALL_API", namespaces |-> items, version |-> version])

\* The dispatch of a plain action returns the action and no promise, so the
\* call of then fails and the top lists are never asked for here.
toggleStats == [type |-> "STATS_TOGGLE"]

\* An empty bucket name asks for the top lists of the namespace.
fetchStatsAction(n, b) == [type |-> "STATS", namespace |-> n, bucket |-> b]

-----------------------------------------------------------------------------
(* reducers/namespaces.jsx.  The reducer of an edit returns the new items  *)
(* and the change that the history records.                                *)

Changed(type, key, value, items) ==
    [change |-> [type |-> type, key |-> key, value |-> value],
     items |-> items]

onAddNamespace(items, a) ==
    Changed(a.type, a.namespace, Undefined,
            [items EXCEPT ![a.namespace] = NewNamespace])

onUpdateNamespace(items, a) ==
    Changed(a.type, a.namespace \o <<a.key>>, a.value,
            [items EXCEPT ![a.namespace].max_dynamic_buckets = a.value])

onRemoveNamespace(items, a) ==
    Changed(a.type, a.namespace, Undefined,
            [items EXCEPT ![a.namespace] = Undefined])

onAddBucket(items, a) ==
    Changed(a.type, a.namespace \o BucketKey(a.bucket), Undefined,
            [items EXCEPT ![a.namespace].buckets[BucketPath(a.bucket)] =
                NewBucket])

onUpdateBucket(items, a) ==
    Changed(a.type, a.namespace \o BucketKey(a.bucket) \o <<a.key>>, a.value,
            [items EXCEPT ![a.namespace].buckets[BucketPath(a.bucket)][a.key] =
                a.value])

onRemoveBucket(items, a) ==
    Changed(a.type, a.namespace \o BucketKey(a.bucket), Undefined,
            [items EXCEPT ![a.namespace].buckets[BucketPath(a.bucket)] =
                Undefined])

MutableActions ==
    {"ADD_NAMESPACE", "UPDATE_NAMESPACE", "REMOVE_NAMESPACE",
     "ADD_BUCKET", "UPDATE_BUCKET", "REMOVE_BUCKET"}

\* The cases of the reducer namespaces that edit.
Edited(items, a) ==
    CASE a.type = "ADD_NAMESPACE"    -> onAddNamespace(items, a)
      [] a.type = "UPDATE_NAMESPACE" -> onUpdateNamespace(items, a)
      [] a.type = "REMOVE_NAMESPACE" -> onRemoveNamespace(items, a)
      [] a.type = "ADD_BUCKET"       -> onAddBucket(items, a)
      [] a.type = "UPDATE_BUCKET"    -> onUpdateBucket(items, a)
      [] a.type = "REMOVE_BUCKET"    -> onRemoveBucket(items, a)

\* The reducer's loadConfig: what is loaded has no history.
Loaded(c) ==
    [items |-> c.items, version |-> c.version, past |-> <<>>, future |-> <<>>]

\* The configuration that an action loads, if it loads one.
LoadedConfig(a) ==
    CASE a.type = "LOAD_CONFIG" -> a.config
      [] a.type = "CONFIGS_FETCH_SUCCESS" /\ a.configs # <<>> -> a.configs[1]
      [] OTHER -> Undefined

selectedNamespaceReducer(state, a) ==
    CASE a.type = "ADD_NAMESPACE" ->
            [namespace |-> a.namespace, canMakeChanges |-> TRUE]
      [] a.type = "SELECT_NAMESPACE" ->
            IF a.namespace = Null THEN Null
            ELSE [namespace |-> a.namespace,
                  canMakeChanges |-> a.canMakeChanges]
      [] a.type = "REMOVE_NAMESPACE" -> Null
      [] OTHER -> state

-----------------------------------------------------------------------------
(* reducers/history.jsx.  The past has its newest entry first; of the      *)
(* future the last entry is the next to redo.  An entry is a state and the *)
(* change that led away from it, in the past, or to it, in the future.     *)

INITIAL_HISTORY ==
    [items |-> NoItems, version |-> 0, past |-> <<>>, future |-> <<>>]

MERGEABLE_CHANGES == {"UPDATE_NAMESPACE", "UPDATE_BUCKET"}

\* Mutant: the keys are not compared.
changesMergeableByType(previous, current) ==
    /\ current.type \in MERGEABLE_CHANGES
    /\ previous.type = current.type

changesMergeable(previous, current) ==
    /\ current.type \in MERGEABLE_CHANGES
    /\ previous.type = current.type
    /\ previous.key = current.key

Entry(state, change) ==
    [items |-> state.items, version |-> state.version, change |-> change]

\* Mutant: the entry of the past becomes the state with its change.
onUndoWithChange(state) ==
    IF state.past = <<>> THEN state
    ELSE LET last == Head(state.past)
         IN [items |-> last.items, version |-> last.version,
             change |-> last.change, past |-> Tail(state.past),
             future |-> Append(state.future, Entry(state, last.change))]

onUndo(state) ==
    IF state.past = <<>> THEN state
    ELSE LET last == Head(state.past)
         IN [items |-> last.items, version |-> last.version,
             past |-> Tail(state.past),
             future |-> Append(state.future, Entry(state, last.change))]

\* Mutant: the first entry of the future instead of the last.
onRedoFirst(state) ==
    IF state.future = <<>> THEN state
    ELSE LET next == Head(state.future)
         IN [items |-> next.items, version |-> next.version,
             past |-> <<Entry(state, next.change)>> \o state.past,
             future |-> Tail(state.future)]

onRedo(state) ==
    IF state.future = <<>> THEN state
    ELSE LET n == Len(state.future)
             next == state.future[n]
         IN [items |-> next.items, version |-> next.version,
             past |-> <<Entry(state, next.change)>> \o state.past,
             future |-> SubSeq(state.future, 1, n - 1)]

\* Whether an edit is merged with the newest change of the past.
Merges(state, change) ==
    state.past # <<>> /\ changesMergeable(Head(state.past).change, change)

\* Mutant: a merged edit does not go back to the older state.
RecordedFromCurrent(state, change) ==
    IF Merges(state, change)
    THEN <<Entry(state, change)>> \o Tail(state.past)
    ELSE <<Entry(state, change)>> \o state.past

\* The past after an edit: a merged edit keeps the older state.
Recorded(state, change) ==
    IF Merges(state, change)
    THEN <<Entry(Head(state.past), change)>> \o Tail(state.past)
    ELSE <<Entry(state, change)>> \o state.past

reduce(state, a) ==
    IF a.type \in MutableActions
    THEN LET res == Edited(state.items, a)
         IN [items |-> res.items, version |-> state.version,
             past |-> Recorded(state, res.change), future |-> <<>>]
    ELSE LET c == LoadedConfig(a)
         IN IF c = Undefined THEN state ELSE Loaded(c)

historyReducer(state, a) ==
    CASE a.type = "UNDO" -> onUndo(state)
      [] a.type = "REDO" -> onRedo(state)
      [] OTHER -> reduce(state, a)

-----------------------------------------------------------------------------
(* The other reducers.  An error is whether there is one.                  *)

INITIAL_CONFIGS == [items |-> Undefined, inRequest |-> FALSE, error |-> FALSE]

\* Mutants: the error is not kept; the request is not over.
handleConfigsFailureSilently(state) == [state EXCEPT !.inRequest = FALSE]

handleConfigsFailureLoading(state) == [state EXCEPT !.error = TRUE]

handleConfigsFailure(state) ==
    [state EXCEPT !.inRequest = FALSE, !.error = TRUE]

handleConfigsRequest(state, a) ==
    CASE a.error -> handleConfigsFailure(state)
      [] ~a.error /\ a.type = "CONFIGS_REQUEST" ->
            [state EXCEPT !.inRequest = TRUE, !.error = FALSE]
      [] ~a.error /\ a.type = "CONFIGS_FETCH_SUCCESS" ->
            [INITIAL_CONFIGS EXCEPT !.items = a.configs]
      [] ~a.error /\ a.type = "CONFIGS_COMMIT_SUCCESS" -> INITIAL_CONFIGS

configsReducer(state, a) ==
    CASE a.type = "CONFIGS_FAILURE" -> handleConfigsFailure(state)
      [] a.type \in {"CONFIGS_REQUEST", "CONFIGS_FETCH_SUCCESS",
                     "CONFIGS_COMMIT_SUCCESS"} ->
            handleConfigsRequest(state, a)
      [] OTHER -> state

\* Mutant: a loaded configuration counts as the current one.
currentVersionOfLoaded(state, a) ==
    LET c == LoadedConfig(a)
    IN IF c = Undefined THEN state ELSE c.version

currentVersionReducer(state, a) ==
    IF a.type = "CONFIGS_FETCH_SUCCESS" /\ a.configs # <<>>
    THEN a.configs[1].version
    ELSE state

\* Mutant: a confirmation stays until it is confirmed or cancelled.
confirmUntilCleared(state, a) ==
    CASE a.type = "CONFIRM" -> a.action
      [] a.type = "CLEAR_CONFIRM" -> Null
      [] OTHER -> state

\* Any other action withdraws a confirmation.
confirmReducer(state, a) == IF a.type = "CONFIRM" THEN a.action ELSE Null

\* What the answer holds is for the page's own hooks; the UI reads only
\* whether there is one.
capabilitiesReducer(state, a) ==
    CASE a.type = "CAPABILITIES_REQUEST" -> [inRequest |-> TRUE]
      [] a.type = "CAPABILITIES_FETCH_SUCCESS" -> [inRequest |-> FALSE]
      [] OTHER -> state

\* Of the statistics only the namespace they are about is kept.
INITIAL_STATS ==
    [show |-> FALSE, inRequest |-> FALSE, error |-> FALSE,
     items |-> [b \in Searches |-> Undefined]]

handleStatsRequest(state, a) ==
    CASE a.error -> [state EXCEPT !.inRequest = FALSE, !.error = TRUE]
      [] ~a.error /\ a.type = "STATS_REQUEST" ->
            [state EXCEPT !.inRequest = TRUE, !.error = FALSE]
      [] ~a.error /\ a.type = "STATS_FETCH_SUCCESS" ->
            [state EXCEPT !.inRequest = FALSE,
                          !.items[a.bucket] = a.namespace]

\* Mutant: failures are not handled.
statsWithoutFailure(state, a) ==
    CASE a.type = "STATS_TOGGLE" -> [state EXCEPT !.show = ~state.show]
      [] a.type \in {"SELECT_NAMESPACE", "CONFIGS_REQUEST"} -> INITIAL_STATS
      [] a.type \in {"STATS_REQUEST", "STATS_FETCH_SUCCESS"} ->
            handleStatsRequest(state, a)
      [] OTHER -> state

statsReducer(state, a) ==
    CASE a.type = "STATS_TOGGLE" -> [state EXCEPT !.show = ~state.show]
      [] a.type \in {"SELECT_NAMESPACE", "CONFIGS_REQUEST"} -> INITIAL_STATS
      [] a.type \in {"STATS_REQUEST", "STATS_FAILURE", "STATS_FETCH_SUCCESS"} ->
            handleStatsRequest(state, a)
      [] OTHER -> state

\* Every action goes through every reducer.
rootReducer(s, a) ==
    [namespaces        |-> historyReducer(s.namespaces, a),
     selectedNamespace |-> selectedNamespaceReducer(s.selectedNamespace, a),
     currentVersion    |-> currentVersionReducer(s.currentVersion, a),
     stats             |-> statsReducer(s.stats, a),
     configs           |-> configsReducer(s.configs, a),
     confirm           |-> confirmReducer(s.confirm, a),
     capabilities      |-> capabilitiesReducer(s.capabilities, a)]

InitialStore ==
    [namespaces |-> INITIAL_HISTORY, selectedNamespace |-> Null,
     currentVersion |-> 0, stats |-> INITIAL_STATS,
     configs |-> INITIAL_CONFIGS, confirm |-> Null,
     capabilities |-> [inRequest |-> FALSE]]
=============================================================================
