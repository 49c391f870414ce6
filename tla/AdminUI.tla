------------------------------- MODULE AdminUI -------------------------------
(***************************************************************************)
(* The admin UI in a browser (admin/public/src): the handlers of its       *)
(* views, its requests, and the server they go to.  The store's reducers   *)
(* are in AdminStore.                                                      *)
(*                                                                         *)
(* JavaScript runs a handler to its end, so a handler is one step: the     *)
(* actions it dispatches, each followed by a rendering.  In between come   *)
(* the answers to requests and timers, in any order.                       *)
(***************************************************************************)
EXTENDS AdminStore, FiniteSets

CONSTANTS
    CapabilitiesEnabled,  \* window.QUOTASERVICE_CAPABILITIES
    Default,              \* what the server gives a setting left at 0
    SavedBefore,          \* what the server may have saved when the page opens
    Slots,                \* bounds the requests in flight
    MaxHistory,           \* bounds the recorded edits
    MaxSaves              \* bounds the saved configurations

ASSUME UIAssumption ==
    /\ CapabilitiesEnabled \in BOOLEAN
    /\ Default \in Values
    /\ \A a \in SavedBefore :
          /\ a \in Seq([version : 1..MaxSaves, items : Items])
          /\ Len(a) <= MaxSaves
          /\ \A i \in DOMAIN a : a[i].version = Len(a) + 1 - i
    /\ Null \notin Slots
    /\ MaxHistory \in Nat
    /\ MaxSaves \in Nat

VARIABLES
    store,     \* the Redux store
    mounted,   \* whether the views are there; an error while rendering ends them
    search,    \* the search that the timer of the statistics view will send
    orphans,   \* searches whose timers have outlived their view
    requests,  \* per slot, a request in flight
    archive,   \* the configurations the server has saved, newest first
    seen,      \* how many of them the server has read back
    loaded     \* history variable: the configuration loaded last

vars == <<store, mounted, search, orphans, requests, archive, seen, loaded>>

serverVars == <<archive, seen>>

Config == [version : 0..MaxSaves, items : Items]

ASSUME UndefinedIsNoConfig == Undefined \notin Config \cup Seq(Config)

Selected == store.selectedNamespace.namespace

-----------------------------------------------------------------------------
(* Rendering.                                                              *)

\* The selected namespace is looked up among the items by name.  Every view
\* of a namespace reads properties of what is found there.
Renders(s) ==
    s.selectedNamespace # Null =>
        s.namespaces.items[s.selectedNamespace.namespace] # Undefined

NamespaceView(s) == s.selectedNamespace # Null /\ ~s.stats.show

StatsView(s) == s.selectedNamespace # Null /\ s.stats.show

IsLoading(s) == s.configs.inRequest \/ s.capabilities.inRequest

\* What follows the dispatches of a step.  A statistics view that goes away
\* leaves its timer running.
Render(s) ==
    LET left == search # Null /\ ~StatsView(s)
    IN /\ store' = s
       /\ mounted' = Renders(s)
       /\ search' = IF left THEN Null ELSE search
       /\ orphans' = IF left THEN orphans \cup {search} ELSE orphans

\* A step that dispatches one action.
Dispatch(a) ==
    /\ Render(rootReducer(store, a))
    /\ loaded' = IF LoadedConfig(a) = Undefined THEN loaded ELSE LoadedConfig(a)

\* One that sends nothing either.
DispatchOnly(a) ==
    /\ mounted
    /\ Dispatch(a)
    /\ UNCHANGED <<requests, serverVars>>

-----------------------------------------------------------------------------
(* Requests.                                                               *)

\* A request, whether and how it was answered, and for a GET with what.
GetRequest == [type |-> "GET", status |-> "sent", configs |-> <<>>]

Free(i) == requests[i] = Null

\* Requests are kept in the first free slot.
FirstFree == CHOOSE i \in Slots : Free(i)

Send(r) ==
    /\ \E i \in Slots : Free(i)
    /\ requests' = [requests EXCEPT ![FirstFree] = r]

\* fetchConfigs announces its request before it sends it; so does the API
\* middleware.
configsRequest == [type |-> "CONFIGS_REQUEST", error |-> FALSE]

fetchConfigs(s) == rootReducer(s, configsRequest)

\* When componentWillReceiveProps of QuotaService fetches.
NeedsRefetch(configs) ==
    ~configs.inRequest /\ ~configs.error /\ configs.items = Undefined

-----------------------------------------------------------------------------
(* The sidebar.                                                            *)

CanEdit == mounted /\ store.selectedNamespace # Null
                   /\ store.selectedNamespace.canMakeChanges

\* No guard of the code: edits are unlimited.
RoomForEdit == Len(store.namespaces.past) < MaxHistory

HandleAddNamespace(n) == RoomForEdit /\ DispatchOnly(addNamespace(n))

\* Any name may be typed, that of a bucket which is there included.
HandleAddBucket(b) ==
    /\ CanEdit
    /\ RoomForEdit
    /\ DispatchOnly(addBucket(Selected, b))

\* There is a button for each special bucket the namespace lacks.
SpecialBucketButtons ==
    {b \in Buckets \cap DOMAIN BUCKET_KEY_MAP :
        ~HasBucket(store.namespaces.items, Selected, b)}

HandleAddSpecialBucket(b) ==
    CanEdit /\ b \in SpecialBucketButtons /\ HandleAddBucket(b)

HandleUndo == store.namespaces.past # <<>> /\ DispatchOnly(undo)

HandleRedo == store.namespaces.future # <<>> /\ DispatchOnly(redo)

HandleRefresh ==
    /\ mounted
    /\ Render(fetchConfigs(store))
    /\ Send(GetRequest)
    /\ UNCHANGED <<serverVars, loaded>>

HandleCommit ==
    DispatchOnly(commitConfig(store.namespaces.items, store.currentVersion))

ChangeConfig ==
    /\ store.configs.items # Undefined
    /\ \E i \in DOMAIN store.configs.items :
        DispatchOnly(loadConfig(store.configs.items[i]))

-----------------------------------------------------------------------------
(* The namespaces and the selected one.                                    *)

\* The tiles are shown while nothing loads.
Tiles == {n \in Namespaces : store.namespaces.items[n] # Undefined}

\* Whether changes may be made is the answer of a hook of the page, and yes
\* until it answers.
OnClickTile(n, canMakeChanges) ==
    /\ ~IsLoading(store)
    /\ n \in Tiles
    /\ CapabilitiesEnabled \/ canMakeChanges
    /\ DispatchOnly(selectNamespace(n, canMakeChanges))

\* What a field passes on: null for an empty text, the integer otherwise, and
\* nothing for a text that is no integer in range.
FieldInput == Values \cup {Null}

HandleNamespaceChange(v) ==
    /\ CanEdit /\ NamespaceView(store)
    /\ RoomForEdit
    /\ DispatchOnly(updateNamespace(Selected, v))

HandleBucketChange(b, f, v) ==
    /\ CanEdit /\ NamespaceView(store)
    /\ RoomForEdit
    /\ HasBucket(store.namespaces.items, Selected, b)
    /\ DispatchOnly(updateBucket(Selected, b, f, v))

HandleBucketRemove(b) ==
    /\ CanEdit /\ NamespaceView(store)
    /\ HasBucket(store.namespaces.items, Selected, b)
    /\ DispatchOnly(removeBucket(Selected, b))

\* The statistics view does not pass canMakeChanges to its header.
HandleNamespaceRemove ==
    /\ store.selectedNamespace # Null
    /\ StatsView(store) \/ store.selectedNamespace.canMakeChanges
    /\ DispatchOnly(removeNamespace(Selected))

HandleBack == NamespaceView(store) /\ DispatchOnly(selectNamespace(Null, TRUE))

HandleBackFromStats == StatsView(store) /\ DispatchOnly(toggleStats)

HandleShowDynamicStats ==
    /\ NamespaceView(store)
    /\ DynamicTemplate \in Buckets
    /\ HasBucket(store.namespaces.items, Selected, DynamicTemplate)
    /\ DispatchOnly(toggleStats)

-----------------------------------------------------------------------------
(* The confirmation.                                                       *)

Cancel == store.confirm # Null /\ DispatchOnly(clearConfirm)

ConfirmRemoval ==
    /\ store.confirm # Null
    /\ store.confirm.type \in MutableActions
    /\ RoomForEdit
    /\ DispatchOnly(store.confirm)

ConfirmCommit ==
    /\ mounted
    /\ store.confirm # Null
    /\ store.confirm.type = "CALL_API"
    /\ Render(rootReducer(store, configsRequest))
    /\ Send([type |-> "POST", namespaces |-> store.confirm.namespaces,
             version |-> store.confirm.version, status |-> "sent"])
    /\ UNCHANGED <<serverVars, loaded>>

-----------------------------------------------------------------------------
(* The statistics view.                                                    *)

\* Typing replaces the timer of the text typed before.
HandleSearchChange(b) ==
    /\ mounted
    /\ StatsView(store)
    /\ search' = [namespace |-> Selected, bucket |-> b]
    /\ UNCHANGED <<store, mounted, orphans, requests, serverVars, loaded>>

SendSearch(t) ==
    /\ store' = rootReducer(store, [type |-> "STATS_REQUEST", error |-> FALSE])
    /\ Send(fetchStatsAction(t.namespace, t.bucket))
    /\ UNCHANGED <<mounted, serverVars, loaded>>

SearchTimer ==
    /\ mounted
    /\ search # Null
    /\ search' = Null
    /\ SendSearch(search)
    /\ UNCHANGED orphans

OrphanTimer(t) ==
    /\ mounted
    /\ t \in orphans
    /\ SendSearch(t)
    /\ orphans' = orphans \ {t}
    /\ UNCHANGED search

-----------------------------------------------------------------------------
(* Answers.  A rendering that fails ends the views; what arrives later     *)
(* finds nobody, and the model leaves it out.                              *)

\* fetchData asks for the capabilities when the configurations are there, or
\* have failed.
ThenFetchCapabilities(s) ==
    IF CapabilitiesEnabled
    THEN rootReducer(s, [type |-> "CAPABILITIES_REQUEST"])
    ELSE s

NextRequest ==
    IF CapabilitiesEnabled THEN [type |-> "CAPABILITIES"] ELSE Null

IsRequest(i, type) == requests[i] # Null /\ requests[i].type = type

ReceiveConfigs(i) ==
    /\ mounted
    /\ IsRequest(i, "GET")
    /\ requests[i].status = "ok"
    /\ requests' = [requests EXCEPT ![i] = NextRequest]
    /\ LET a == [type |-> "CONFIGS_FETCH_SUCCESS", error |-> FALSE,
                 configs |-> requests[i].configs]
       IN /\ Render(ThenFetchCapabilities(rootReducer(store, a)))
          /\ loaded' = IF LoadedConfig(a) = Undefined THEN loaded
                                                      ELSE LoadedConfig(a)
    /\ UNCHANGED serverVars

FetchConfigsFails(i) ==
    /\ mounted
    /\ IsRequest(i, "GET")
    /\ requests[i].status = "error"
    /\ requests' = [requests EXCEPT ![i] = NextRequest]
    /\ Render(ThenFetchCapabilities(
                rootReducer(store, [type |-> "CONFIGS_FAILURE"])))
    /\ UNCHANGED <<serverVars, loaded>>

\* A saved configuration empties the list, and an empty list is fetched.
ReceiveCommit(i) ==
    /\ mounted
    /\ IsRequest(i, "POST")
    /\ requests[i].status = "ok"
    /\ LET s == rootReducer(store, [type |-> "CONFIGS_COMMIT_SUCCESS",
                                    error |-> FALSE])
           refetch == NeedsRefetch(s.configs)
       IN /\ Render(IF refetch THEN fetchConfigs(s) ELSE s)
          /\ requests' = [requests EXCEPT ![i] = IF refetch THEN GetRequest
                                                            ELSE Null]
    /\ UNCHANGED <<serverVars, loaded>>

\* The middleware reports an answer that is an error as a failure, and an
\* answer that never came as a request with an error.  (So does version 2 of
\* redux-api-middleware, in the bundle that the server serves; version 3, which
\* package.json names, reports both as failures.  The reducers make the same of
\* either.)
CommitFails(i) ==
    /\ mounted
    /\ IsRequest(i, "POST")
    /\ requests' = [requests EXCEPT ![i] = Null]
    /\ \/ requests[i].status = "error" /\ Dispatch([type |-> "CONFIGS_FAILURE"])
       \/ requests[i].status = "lost"
          /\ Dispatch([type |-> "CONFIGS_REQUEST", error |-> TRUE])
    /\ UNCHANGED serverVars

ReceiveCapabilities(i) ==
    /\ mounted
    /\ IsRequest(i, "CAPABILITIES")
    /\ Dispatch([type |-> "CAPABILITIES_FETCH_SUCCESS"])
    /\ requests' = [requests EXCEPT ![i] = Null]
    /\ UNCHANGED serverVars

\* The server may refuse or fail to answer a request for statistics.
ReceiveStats(i) ==
    /\ mounted
    /\ IsRequest(i, "STATS")
    /\ requests' = [requests EXCEPT ![i] = Null]
    /\ \E failed \in BOOLEAN :
        Dispatch([type |-> IF failed THEN "STATS_FAILURE"
                                     ELSE "STATS_FETCH_SUCCESS",
                  error |-> failed, namespace |-> requests[i].namespace,
                  bucket |-> requests[i].bucket])
    /\ UNCHANGED serverVars

-----------------------------------------------------------------------------
(* The server and other admins.                                            *)

uiVars == <<store, mounted, search, orphans, loaded>>

\* What the server has read back, newest first.
Visible == SubSeq(archive, Len(archive) - seen + 1, Len(archive))

\* What it runs on; a new server has a configuration that is not archived.
\* A server that runs on less than it lists refuses more saves: FailRequest.
Current == IF Visible = <<>> THEN [version |-> 0, items |-> NoItems]
                             ELSE Visible[1]

\* An unset or empty setting of a bucket is 0 to the server, which then takes
\* the default; an empty limit of dynamic buckets stays 0 and is left out of
\* the answer.
ApplyDefaults(items) ==
    LET Numeric(v, zero) == IF v \in {Null, Undefined} THEN zero ELSE v
        Bucket(c) == IF c = Undefined THEN Undefined
                     ELSE [f \in Fields |-> Numeric(c[f], Default)]
    IN [n \in Namespaces |->
            IF items[n] = Undefined THEN Undefined
            ELSE [max_dynamic_buckets |->
                    Numeric(items[n].max_dynamic_buckets, Undefined),
                  buckets |->
                    [p \in BucketPaths |-> Bucket(items[n].buckets[p])]]]

\* ApplyDefaults panics on a namespace with both special buckets.
Acceptable(items) ==
    \A n \in Namespaces : \E b \in DOMAIN BUCKET_KEY_MAP :
        b \in Buckets => ~HasBucket(items, n, b)

Save(items) ==
    /\ Len(archive) < MaxSaves
    /\ archive' = <<[version |-> Current.version + 1,
                     items |-> ApplyDefaults(items)]>> \o archive
    /\ UNCHANGED seen

Answer(i, status) == requests' = [requests EXCEPT ![i].status = status]

AnswerGet(i) ==
    /\ IsRequest(i, "GET")
    /\ requests[i].status = "sent"
    /\ requests' = [requests EXCEPT ![i].status = "ok", ![i].configs = Visible]
    /\ UNCHANGED <<uiVars, serverVars>>

\* A save must name the version the server knows as its latest.
AcceptPost(i) ==
    /\ IsRequest(i, "POST")
    /\ requests[i].status = "sent"
    /\ requests[i].version = Current.version
    /\ Acceptable(requests[i].namespaces)
    /\ Save(requests[i].namespaces)
    /\ \E status \in {"ok", "lost"} : Answer(i, status)
    /\ UNCHANGED uiVars

\* A refused save, a failing server or a network that loses the request.
FailRequest(i) ==
    /\ \/ IsRequest(i, "GET") /\ requests[i].status = "sent"
          /\ Answer(i, "error")
       \/ IsRequest(i, "POST") /\ requests[i].status = "sent"
          /\ \E status \in {"error", "lost"} : Answer(i, status)
    /\ UNCHANGED <<uiVars, serverVars>>

\* The server's listener has read what was saved last.
ReadBack ==
    /\ seen < Len(archive)
    /\ seen' = Len(archive)
    /\ UNCHANGED <<uiVars, requests, archive>>

\* Another admin adds or removes a namespace.
OtherAdminSaves(n) ==
    /\ Save([Current.items EXCEPT ![n] = IF @ = Undefined THEN NewNamespace
                                                             ELSE Undefined])
    /\ UNCHANGED <<uiVars, requests>>

-----------------------------------------------------------------------------

\* componentDidMount has fetched.
Init ==
    /\ store = fetchConfigs(InitialStore)
    /\ mounted = TRUE
    /\ search = Null
    /\ orphans = {}
    /\ requests = [[i \in Slots |-> Null] EXCEPT
                     ![CHOOSE i \in Slots : TRUE] = GetRequest]
    /\ archive \in SavedBefore
    /\ seen = Len(archive)
    /\ loaded = [version |-> 0, items |-> NoItems]

UserStep ==
    \/ \E n \in Namespaces :
        \/ HandleAddNamespace(n)
        \/ \E canMakeChanges \in BOOLEAN : OnClickTile(n, canMakeChanges)
    \/ \E b \in Buckets :
        \/ HandleAddBucket(b)
        \/ HandleAddSpecialBucket(b)
        \/ HandleBucketRemove(b)
        \/ \E f \in Fields, v \in FieldInput : HandleBucketChange(b, f, v)
    \/ \E v \in FieldInput : HandleNamespaceChange(v)
    \/ HandleNamespaceRemove
    \/ HandleBack
    \/ HandleBackFromStats
    \/ HandleUndo
    \/ HandleRedo
    \/ HandleRefresh
    \/ HandleCommit
    \/ ChangeConfig
    \/ Cancel
    \/ ConfirmRemoval
    \/ ConfirmCommit
    \/ HandleShowDynamicStats
    \/ \E b \in Searches : HandleSearchChange(b)

Receive(i) ==
    \/ ReceiveConfigs(i)
    \/ FetchConfigsFails(i)
    \/ ReceiveCommit(i)
    \/ CommitFails(i)
    \/ ReceiveStats(i)

Serve(i) == AnswerGet(i) \/ AcceptPost(i) \/ FailRequest(i)

Timer == SearchTimer \/ \E t \in orphans : OrphanTimer(t)

Next ==
    \/ UserStep
    \/ Timer
    \/ \E i \in Slots : Receive(i) \/ ReceiveCapabilities(i) \/ Serve(i)
    \/ ReadBack
    \/ \E n \in Namespaces : OtherAdminSaves(n)

\* Requests are answered or fail, answers arrive, timers fire.  (A request is
\* waiting for one of Serve and Receive, never for both.)  Nothing is
\* assumed of the admins, of the hook that answers for the capabilities or of
\* the server's listener.
Fairness ==
    /\ \A i \in Slots : WF_vars(Serve(i) \/ Receive(i))
    /\ SF_vars(SearchTimer)

Spec == Init /\ [][Next]_vars /\ Fairness

-----------------------------------------------------------------------------
(* Properties.                                                             *)

Change == [type : MutableActions, key : Seq(Parts), value : Setting]

HistoryEntry == [items : Items, version : 0..MaxSaves, change : Change]

History ==
    [items : Items, version : 0..MaxSaves,
     past : Seq(HistoryEntry), future : Seq(HistoryEntry)]

Confirmable ==
    [type : {"REMOVE_NAMESPACE"}, namespace : Namespaces]
      \cup [type : {"REMOVE_BUCKET"}, namespace : Namespaces, bucket : Buckets]
      \cup [type : {"CALL_API"}, namespaces : Items, version : 0..MaxSaves]

StatsQuery == [namespace : Namespaces, bucket : Searches]

Store ==
    [namespaces : History,
     selectedNamespace :
        [namespace : Namespaces, canMakeChanges : BOOLEAN] \cup {Null},
     currentVersion : 0..MaxSaves,
     stats : [show : BOOLEAN, inRequest : BOOLEAN, error : BOOLEAN,
              items : [Searches -> Namespaces \cup {Undefined}]],
     configs : [items : Seq(Config) \cup {Undefined},
                inRequest : BOOLEAN, error : BOOLEAN],
     confirm : Confirmable \cup {Null},
     capabilities : [inRequest : BOOLEAN]]

Request ==
    [type : {"GET"}, status : {"sent", "ok", "error"}, configs : Seq(Config)]
      \cup [type : {"POST"}, namespaces : Items, version : 0..MaxSaves,
            status : {"sent", "ok", "error", "lost"}]
      \cup [type : {"CAPABILITIES"}]
      \cup [type : {"STATS"}, namespace : Namespaces, bucket : Searches]

\* The types of the store, the requests and the server, whatever the order of
\* edits, answers and timers.
TypeOK ==
    /\ store \in Store
    /\ mounted \in BOOLEAN
    /\ search \in StatsQuery \cup {Null}
    /\ orphans \in SUBSET StatsQuery
    /\ requests \in [Slots -> Request \cup {Null}]
    /\ archive \in Seq(Config)
    /\ seen \in 0..Len(archive)
    /\ loaded \in Config

\* The states of the history in the order of the edits, and the change that
\* led from each to the next.
TimelineOf(h) ==
    LET n == Len(h.past)
        m == Len(h.future)
    IN [i \in 1..(n + 1 + m) |->
            IF i <= n THEN h.past[n + 1 - i].items
            ELSE IF i = n + 1 THEN h.items
            ELSE h.future[n + m + 2 - i].items]

Timeline == TimelineOf(store.namespaces)

TimelineChange(i) ==
    LET h == store.namespaces
        n == Len(h.past)
        m == Len(h.future)
    IN IF i <= n THEN h.past[n + 1 - i].change
                 ELSE h.future[n + m + 1 - i].change

Undoing == INSTANCE UndoTimeline
                WITH timeline <- Timeline,
                     position <- Len(store.namespaces.past) + 1

\* undo, redo and reduce of the history, with entries pushed at one end of the
\* past and the other of the future, are an undo timeline: undo and redo never
\* change a state, and edits, merged or not, lose only what was undone.
ImplementsUndoTimeline == Undoing!Spec

\* The edits that can be made to items.
EditsOf(items) ==
    LET Present == {n \in Namespaces : items[n] # Undefined}
    IN {addNamespace(n) : n \in Namespaces}
         \cup {updateNamespace(n, v) : n \in Present, v \in FieldInput}
         \cup {removeNamespace(n).action : n \in Present}
         \cup {addBucket(n, b) : n \in Present, b \in Buckets}
         \cup {a \in {updateBucket(n, b, f, v) : n \in Present, b \in Buckets,
                                          f \in Fields, v \in FieldInput}
                     \cup {removeBucket(n, b).action : n \in Present,
                                                      b \in Buckets} :
                HasBucket(items, a.namespace, a.bucket)}

\* No two buckets have their changes recorded under the same key.  The names an
\* admin may choose do not guarantee it: bucket b.c of a and bucket c of a.b
\* share theirs, and so do default_bucket and the default bucket.
KeysApart ==
    \A n, m \in Namespaces, b, c \in Buckets :
        n \o BucketKey(b) = m \o BucketKey(c) =>
            n = m /\ BucketPath(b) = BucketPath(c)

\* The list of changes the sidebar shows is the truth: each change, done or
\* undone, merged or not, is a single edit that leads from the state before it
\* to the state after it (history.jsx merges only "to the same object").  It
\* holds for names with KeysApart.
HistoryExplained ==
    \A i \in 1..(Len(Timeline) - 1) :
        \E a \in EditsOf(Timeline[i]) :
            Edited(Timeline[i], a) =
                [change |-> TimelineChange(i), items |-> Timeline[i + 1]]

\* Undoing everything gives back the configuration that was loaded, whatever
\* was merged, undone, redone or answered since, and the version shown beside
\* any state of the history is that configuration's.
HistoryStartsAtLoaded ==
    LET h == store.namespaces
    IN /\ Timeline[1] = loaded.items
       /\ h.version = loaded.version
       /\ \A i \in DOMAIN h.past : h.past[i].version = loaded.version
       /\ \A i \in DOMAIN h.future : h.future[i].version = loaded.version

\* What a confirmation will do fits what is on the screen: a save that waits
\* for it has the edits and the version shown, a removal an object that is
\* there.  Edits, answers and timers that come in between must withdraw it.
ConfirmFresh ==
    LET c == store.confirm
        items == store.namespaces.items
    IN c # Null =>
        /\ c.type = "CALL_API" => /\ c.namespaces = items
                                  /\ c.version = store.currentVersion
        /\ c.type = "REMOVE_NAMESPACE" => items[c.namespace] # Undefined
        /\ c.type = "REMOVE_BUCKET" => HasBucket(items, c.namespace, c.bucket)

\* Three reducers take their part of one answer: the version that a save names
\* is that of the newest listed configuration, and what is being edited was
\* loaded from the list, also when answers overtake each other.
ListsAgree ==
    LET listed == store.configs.items
    IN listed \notin {Undefined, <<>>} =>
        /\ store.currentVersion = listed[1].version
        /\ \E i \in DOMAIN listed : loaded = listed[i]

\* componentWillReceiveProps fetches whenever nothing is listed, requested or
\* failed.  No step leaves that so: a save is followed by a fetch at once, and
\* a server that fails is not asked again and again.
NoRefetchLoop == ~NeedsRefetch(store.configs)

\* The UI does not load for ever: whatever happens to the requests that are on
\* their way, one of their outcomes ends the state configs.inRequest, and
\* likewise stats.inRequest.  (capabilities.inRequest ends when the page's hook
\* answers, which nothing obliges it to.)
LoadingEnds ==
    /\ store.configs.inRequest ~> (~store.configs.inRequest \/ ~mounted)
    /\ store.stats.inRequest ~> (~store.stats.inRequest \/ ~mounted)

\* A search in the statistics view, the first one or any other, is sent and then
\* brings statistics or an error, unless the admin types on or leaves the view.
\* (The statistics of an earlier search stay while a later one is under way: that
\* this one's request ends is for LoadingEnds to say.)
SearchAnswered ==
    \A n \in Namespaces, b \in Searches :
        LET t == [namespace |-> n, bucket |-> b]
            Left == ~StatsView(store) \/ ~mounted
            Sent == \E i \in Slots : requests[i] = fetchStatsAction(n, b)
            Shown == store.stats.items[b] # Undefined \/ store.stats.error
        IN search = t ~> \/ Left
                         \/ search \notin {t, Null}
                         \/ Sent /\ <>(Shown \/ Left)

\* Namespace.propTypes: the namespace that a view is given is an object, as
\* namespace: PropTypes.object.isRequired says.
SelectedNamespaceExists == Renders(store)
=============================================================================
