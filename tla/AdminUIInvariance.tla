-------------------------- MODULE AdminUIInvariance --------------------------
(***************************************************************************)
(* The invariants of the admin UI and its refinement of UndoTimeline, for  *)
(* every set of names and fields, and every bound.                         *)
(***************************************************************************)
EXTENDS AdminUIReducers

-----------------------------------------------------------------------------
(***************************************************************************)
(* The inductive invariant.  StoreInv has the properties of the store and  *)
(* what was loaded.  They rest on two facts more.  While the views are     *)
(* there, the selected namespace is: an edit of one that is gone would not *)
(* give a configuration.  And a saved configuration has a version no       *)
(* greater than its place, which bounds the next.                          *)
(***************************************************************************)

UIInv ==
  /\ StoreInv(store, loaded)
  /\ NoRefetchLoop
  /\ mounted \in BOOLEAN
  /\ mounted => Renders(store)

TimersInv ==
  /\ search \in StatsQuery \cup {Null}
  /\ orphans \in SUBSET StatsQuery

RequestsInv == requests \in [Slots -> Request \cup {Null}]

ServerInv ==
  /\ archive \in Seq(Config)
  /\ seen \in 0..Len(archive)
  /\ \A i \in DOMAIN archive : archive[i].version <= Len(archive) + 1 - i

IInv == UIInv /\ TimersInv /\ RequestsInv /\ ServerInv

\* What a step does to the history that UndoTimeline speaks of.
HistoryMoves == TimelineStep(store.namespaces, store.namespaces')

LEMMA InvImplies ==
  IInv => /\ TypeOK
          /\ ConfirmFresh
          /\ ListsAgree
          /\ HistoryStartsAtLoaded
          /\ NoRefetchLoop
<1> SUFFICES ASSUME IInv PROVE /\ TypeOK
                               /\ ConfirmFresh
                               /\ ListsAgree
                               /\ HistoryStartsAtLoaded
                               /\ NoRefetchLoop
  OBVIOUS
<1>1. TypeOK
  BY DEF IInv, UIInv, TimersInv, RequestsInv, ServerInv, StoreInv, TypeOK
<1>2. ConfirmFresh
  BY DEF IInv, UIInv, StoreInv, ConfirmFresh, ConfirmFreshIn
<1>3. ListsAgree
  BY DEF IInv, UIInv, StoreInv, ListsAgree, ListsAgreeIn
<1>4. HistoryStartsAtLoaded
  BY DEF IInv, UIInv, StoreInv, HistoryStartsAtLoaded, StartsAt, Timeline
<1> QED
  BY <1>1, <1>2, <1>3, <1>4 DEF IInv, UIInv

-----------------------------------------------------------------------------
(***************************************************************************)
(* What the steps have in common.                                          *)
(***************************************************************************)

\* A rendering of a store that keeps the invariants.
LEMMA RenderKeeps ==
  ASSUME TimersInv, NEW s, Render(s), StoreInv(s, loaded'),
         ~NeedsRefetch(s.configs)
  PROVE  UIInv' /\ TimersInv'
<1>1. store' = s /\ mounted' = Renders(s)
  BY DEF Render
<1>2. UIInv'
  <2>1. (Renders(s)) \in BOOLEAN
    BY DEF Renders
  <2>2. StoreInv(store, loaded)'
    BY <1>1 DEF StoreInv, ConfirmFreshIn, ListsAgreeIn
  <2>3. NoRefetchLoop'
    BY <1>1 DEF NoRefetchLoop, NeedsRefetch
  <2>4. mounted' \in BOOLEAN
    BY <1>1, <2>1
  <2>5. mounted' => Renders(store)'
    BY <1>1 DEF Renders
  <2> QED
    BY <2>2, <2>3, <2>4, <2>5 DEF UIInv
<1>3. TimersInv'
  <2>1. CASE search # Null /\ ~StatsView(s)
    <3>1. search \in StatsQuery /\ search' = Null /\ orphans' = orphans \cup {search}
      BY <2>1 DEF Render, TimersInv
    <3> QED
      BY <3>1 DEF TimersInv
  <2>2. CASE ~(search # Null /\ ~StatsView(s))
    <3>1. search' = search /\ orphans' = orphans
      BY <2>2 DEF Render
    <3> QED
      BY <3>1 DEF TimersInv
  <2> QED
    BY <2>1, <2>2
<1> QED
  BY <1>2, <1>3

\* A dispatch of an action that does.
LEMMA DispatchKeeps ==
  ASSUME IInv, NEW a, Dispatch(a), Keeps(store, loaded, a),
         ~NeedsRefetch(rootReducer(store, a).configs)
  PROVE  UIInv' /\ TimersInv' /\ HistoryMoves
<1>1. PICK s : s = rootReducer(store, a)
  OBVIOUS
<1>2. Render(s) /\ store' = s
  BY <1>1 DEF Dispatch, Render
<1>3. loaded' = AfterLoad(loaded, a)
  BY DEF Dispatch, AfterLoad
<1>4. StoreInv(s, loaded') /\ TimelineStep(store.namespaces, s.namespaces)
  BY <1>1, <1>3 DEF Keeps
<1>5. UIInv' /\ TimersInv'
  BY <1>1, <1>2, <1>4, RenderKeeps DEF IInv
<1> QED
  BY <1>2, <1>4, <1>5 DEF HistoryMoves

\* A step that does nothing else.
LEMMA DispatchOnlyKeeps ==
  ASSUME IInv, NEW a, DispatchOnly(a), Keeps(store, loaded, a),
         rootReducer(store, a).configs = store.configs
  PROVE  IInv' /\ HistoryMoves
<1>1. ~NeedsRefetch(rootReducer(store, a).configs)
  BY DEF IInv, UIInv, NoRefetchLoop
<1>2. UIInv' /\ TimersInv' /\ HistoryMoves
  BY <1>1, DispatchKeeps DEF DispatchOnly
<1>3. RequestsInv' /\ ServerInv'
  BY DEF DispatchOnly, serverVars, IInv, RequestsInv, ServerInv
<1> QED
  BY <1>2, <1>3 DEF IInv

\* A step that leaves the UI alone.
LEMMA QuietUI ==
  ASSUME IInv, UNCHANGED uiVars
  PROVE  UIInv' /\ TimersInv' /\ HistoryMoves
<1>1. /\ store' = store /\ mounted' = mounted /\ search' = search
      /\ orphans' = orphans /\ loaded' = loaded
  BY DEF uiVars
<1>2. UIInv'
  BY <1>1 DEF IInv, UIInv, StoreInv, ConfirmFreshIn, ListsAgreeIn, NoRefetchLoop,
              NeedsRefetch, Renders
<1>3. TimersInv'
  BY <1>1 DEF IInv, TimersInv
<1> QED
  BY <1>1, <1>2, <1>3 DEF HistoryMoves, TimelineStep

LEMMA QuietServer ==
  ASSUME IInv, UNCHANGED serverVars
  PROVE  ServerInv'
BY DEF IInv, ServerInv, serverVars

\* Sending a request.
LEMMA SendKeeps ==
  ASSUME IInv, NEW r \in Request, Send(r)
  PROVE  RequestsInv'
<1>1. FirstFree \in Slots
  BY DEF Send, FirstFree
<1> QED
  BY <1>1 DEF Send, IInv, RequestsInv

\* The kinds of requests.
LEMMA RequestKinds ==
  /\ GetRequest \in Request
  /\ NextRequest \in Request \cup {Null}
  /\ \A n \in Namespaces, b \in Searches : fetchStatsAction(n, b) \in Request
<1>1. GetRequest \in Request
  <2>1. <<>> \in Seq(Config)
    OBVIOUS
  <2> QED
    BY <2>1 DEF GetRequest, Request
<1>2. [type |-> "CAPABILITIES"] \in Request
  BY DEF Request
<1>3. \A n \in Namespaces, b \in Searches : fetchStatsAction(n, b) \in Request
  BY DEF fetchStatsAction, Request
<1> QED
  BY <1>1, <1>2, <1>3 DEF NextRequest

\* While the views are there, so is the selected namespace.
LEMMA SelectedPresent ==
  ASSUME IInv, mounted, store.selectedNamespace # Null
  PROVE  /\ Selected \in Namespaces
         /\ store.namespaces.items[Selected] # Undefined
         /\ store.selectedNamespace.canMakeChanges \in BOOLEAN
<1>1. store.selectedNamespace \in [namespace : Namespaces, canMakeChanges : BOOLEAN]
  BY PartsOfStore DEF IInv, UIInv, StoreInv
<1> QED
  BY <1>1 DEF IInv, UIInv, Renders, Selected

\* The actions that are edits of a configuration.
LEMMA AreEdits ==
  ASSUME NEW items, NEW n \in Namespaces
  PROVE  /\ addNamespace(n) \in EditsOf(items)
         /\ items[n] # Undefined =>
              /\ \A v \in FieldInput : updateNamespace(n, v) \in EditsOf(items)
              /\ [type |-> "REMOVE_NAMESPACE", namespace |-> n] \in EditsOf(items)
              /\ \A b \in Buckets : addBucket(n, b) \in EditsOf(items)
         /\ \A b \in Buckets : HasBucket(items, n, b) =>
              /\ \A f \in Fields, v \in FieldInput :
                   updateBucket(n, b, f, v) \in EditsOf(items)
              /\ [type |-> "REMOVE_BUCKET", namespace |-> n, bucket |-> b]
                   \in EditsOf(items)
<1> DEFINE Present == {m \in Namespaces : items[m] # Undefined}
<1>1. addNamespace(n) \in EditsOf(items)
  BY DEF EditsOf
<1>2. ASSUME items[n] # Undefined
      PROVE  /\ \A v \in FieldInput : updateNamespace(n, v) \in EditsOf(items)
             /\ [type |-> "REMOVE_NAMESPACE", namespace |-> n] \in EditsOf(items)
             /\ \A b \in Buckets : addBucket(n, b) \in EditsOf(items)
  <2>1. n \in Present
    BY <1>2
  <2>2. \A v \in FieldInput : updateNamespace(n, v) \in EditsOf(items)
    BY <2>1 DEF EditsOf
  <2>3. [type |-> "REMOVE_NAMESPACE", namespace |-> n] = removeNamespace(n).action
    BY DEF removeNamespace, confirm
  <2>4. removeNamespace(n).action \in EditsOf(items)
    BY <2>1 DEF EditsOf
  <2>5. \A b \in Buckets : addBucket(n, b) \in EditsOf(items)
    BY <2>1 DEF EditsOf
  <2> QED
    BY <2>2, <2>3, <2>4, <2>5
<1>3. ASSUME NEW b \in Buckets, HasBucket(items, n, b)
      PROVE  /\ \A f \in Fields, v \in FieldInput :
                  updateBucket(n, b, f, v) \in EditsOf(items)
             /\ [type |-> "REMOVE_BUCKET", namespace |-> n, bucket |-> b]
                  \in EditsOf(items)
  <2>1. n \in Present
    BY <1>3 DEF HasBucket
  <2>2. ASSUME NEW f \in Fields, NEW v \in FieldInput
        PROVE  updateBucket(n, b, f, v) \in EditsOf(items)
    <3>1. PICK a : a = updateBucket(n, b, f, v)
      OBVIOUS
    <3>2. a.namespace = n /\ a.bucket = b
      BY <3>1 DEF updateBucket
    <3>3. HasBucket(items, a.namespace, a.bucket)
      BY <1>3, <3>2
    <3>4. a \in {updateBucket(nn, bb, ff, vv) : nn \in Present, bb \in Buckets,
                                     ff \in Fields, vv \in FieldInput}
      BY <2>1, <3>1
    <3>5. a \in EditsOf(items)
      BY <3>3, <3>4 DEF EditsOf
    <3> QED
      BY <3>1, <3>5
  <2>3. [type |-> "REMOVE_BUCKET", namespace |-> n, bucket |-> b] \in EditsOf(items)
    <3>1. PICK a : a = [type |-> "REMOVE_BUCKET", namespace |-> n, bucket |-> b]
      OBVIOUS
    <3>2. a.namespace = n /\ a.bucket = b /\ a = removeBucket(n, b).action
      BY <3>1 DEF removeBucket, confirm
    <3>3. HasBucket(items, a.namespace, a.bucket)
      BY <1>3, <3>2
    <3>4. a \in {removeBucket(nn, bb).action : nn \in Present, bb \in Buckets}
      BY <2>1, <3>2
    <3>5. a \in EditsOf(items)
      BY <3>3, <3>4 DEF EditsOf
    <3> QED
      BY <3>1, <3>5
  <2> QED
    BY <2>2, <2>3
<1> QED
  BY <1>1, <1>2, <1>3

-----------------------------------------------------------------------------
(***************************************************************************)
(* The handlers of the views.                                              *)
(***************************************************************************)

LEMMA EditStep ==
  ASSUME IInv, NEW a, DispatchOnly(a), a \in EditsOf(store.namespaces.items)
  PROVE  IInv' /\ HistoryMoves
<1>1. StoreInv(store, loaded)
  BY DEF IInv, UIInv
<1>2. Keeps(store, loaded, a) /\ rootReducer(store, a).configs = store.configs
  BY <1>1, EditKeeps
<1> QED
  BY <1>2, DispatchOnlyKeeps

LEMMA QuietStep ==
  ASSUME IInv, NEW a, DispatchOnly(a),
         \/ a.type \in {"CLEAR_CONFIRM", "STATS_TOGGLE"}
         \/ /\ a.type = "SELECT_NAMESPACE"
            /\ a.namespace \in Namespaces \cup {Null}
            /\ a.canMakeChanges \in BOOLEAN
  PROVE  IInv' /\ HistoryMoves
<1>1. StoreInv(store, loaded)
  BY DEF IInv, UIInv
<1>2. Keeps(store, loaded, a) /\ rootReducer(store, a).configs = store.configs
  BY <1>1, QuietKeeps
<1> QED
  BY <1>2, DispatchOnlyKeeps

LEMMA ConfirmStep ==
  ASSUME IInv, NEW x \in Confirmable, DispatchOnly(confirm(x)),
         x.type = "CALL_API" => /\ x.namespaces = store.namespaces.items
                                /\ x.version = store.currentVersion,
         x.type = "REMOVE_NAMESPACE" =>
           store.namespaces.items[x.namespace] # Undefined,
         x.type = "REMOVE_BUCKET" =>
           HasBucket(store.namespaces.items, x.namespace, x.bucket)
  PROVE  IInv' /\ HistoryMoves
<1>1. StoreInv(store, loaded)
  BY DEF IInv, UIInv
<1>2. PICK a : a = confirm(x)
  OBVIOUS
<1>3. Keeps(store, loaded, a) /\ rootReducer(store, a).configs = store.configs
  BY <1>1, <1>2, ConfirmKeeps
<1> QED
  BY <1>2, <1>3, DispatchOnlyKeeps

\* Adding and changing namespaces and buckets.
LEMMA EditHandlers ==
  ASSUME IInv,
         \/ \E n \in Namespaces : HandleAddNamespace(n)
         \/ \E b \in Buckets : HandleAddBucket(b) \/ HandleAddSpecialBucket(b)
         \/ \E v \in FieldInput : HandleNamespaceChange(v)
         \/ \E b \in Buckets, f \in Fields, v \in FieldInput :
              HandleBucketChange(b, f, v)
  PROVE  IInv' /\ HistoryMoves
<1> DEFINE items == store.namespaces.items
<1>1. ASSUME NEW n \in Namespaces, HandleAddNamespace(n)
      PROVE  IInv' /\ HistoryMoves
  <2>1. addNamespace(n) \in EditsOf(items)
    BY AreEdits
  <2> QED
    BY <1>1, <2>1, EditStep DEF HandleAddNamespace
<1>2. ASSUME NEW b \in Buckets, HandleAddBucket(b)
      PROVE  IInv' /\ HistoryMoves
  <2>1. Selected \in Namespaces /\ items[Selected] # Undefined
    BY <1>2, SelectedPresent DEF HandleAddBucket, CanEdit
  <2>2. addBucket(Selected, b) \in EditsOf(items)
    BY <2>1, AreEdits
  <2> QED
    BY <1>2, <2>2, EditStep DEF HandleAddBucket
<1>3. ASSUME NEW v \in FieldInput, HandleNamespaceChange(v)
      PROVE  IInv' /\ HistoryMoves
  <2>1. Selected \in Namespaces /\ items[Selected] # Undefined
    BY <1>3, SelectedPresent DEF HandleNamespaceChange, CanEdit
  <2>2. updateNamespace(Selected, v) \in EditsOf(items)
    BY <2>1, AreEdits
  <2> QED
    BY <1>3, <2>2, EditStep DEF HandleNamespaceChange
<1>4. ASSUME NEW b \in Buckets, NEW f \in Fields, NEW v \in FieldInput,
             HandleBucketChange(b, f, v)
      PROVE  IInv' /\ HistoryMoves
  <2>1. Selected \in Namespaces /\ HasBucket(items, Selected, b)
    BY <1>4, SelectedPresent DEF HandleBucketChange, CanEdit
  <2>2. updateBucket(Selected, b, f, v) \in EditsOf(items)
    BY <2>1, AreEdits
  <2> QED
    BY <1>4, <2>2, EditStep DEF HandleBucketChange
<1> QED
  BY <1>1, <1>2, <1>3, <1>4 DEF HandleAddSpecialBucket

\* Undo, redo and the choice of a configuration from the list.
LEMMA HistoryHandlers ==
  ASSUME IInv, HandleUndo \/ HandleRedo \/ ChangeConfig
  PROVE  IInv' /\ HistoryMoves
<1>1. StoreInv(store, loaded)
  BY DEF IInv, UIInv
<1>2. ASSUME NEW a, DispatchOnly(a), a.type \in {"UNDO", "REDO"}
      PROVE  IInv' /\ HistoryMoves
  <2>1. Keeps(store, loaded, a) /\ rootReducer(store, a).configs = store.configs
    BY <1>1, <1>2, UndoRedoKeeps
  <2> QED
    BY <1>2, <2>1, DispatchOnlyKeeps
<1>3. CASE HandleUndo
  <2>1. undo.type = "UNDO"
    BY DEF undo
  <2> QED
    BY <1>2, <1>3, <2>1 DEF HandleUndo
<1>4. CASE HandleRedo
  <2>1. redo.type = "REDO"
    BY DEF redo
  <2> QED
    BY <1>2, <1>4, <2>1 DEF HandleRedo
<1>5. CASE ChangeConfig
  <2>1. PICK i \in DOMAIN store.configs.items :
          DispatchOnly(loadConfig(store.configs.items[i]))
    BY <1>5 DEF ChangeConfig
  <2>2. PICK a : a = loadConfig(store.configs.items[i])
    OBVIOUS
  <2>3. store.configs.items # Undefined
    BY <1>5 DEF ChangeConfig
  <2>4. Keeps(store, loaded, a) /\ rootReducer(store, a).configs = store.configs
    BY <1>1, <2>2, <2>3, LoadKeeps
  <2> QED
    BY <2>1, <2>2, <2>4, DispatchOnlyKeeps
<1> QED
  BY <1>3, <1>4, <1>5

\* Asking for a confirmation.
LEMMA ConfirmHandlers ==
  ASSUME IInv,
         \/ HandleCommit
         \/ HandleNamespaceRemove
         \/ \E b \in Buckets : HandleBucketRemove(b)
  PROVE  IInv' /\ HistoryMoves
<1> DEFINE items == store.namespaces.items
<1>1. CASE HandleCommit
  <2>1. PICK x : x = [type |-> "CALL_API", namespaces |-> items,
                      version |-> store.currentVersion]
    OBVIOUS
  <2>2. items \in Items /\ store.currentVersion \in 0..MaxSaves
    BY PartsOfStore DEF IInv, UIInv, StoreInv
  <2>3. x \in Confirmable
    BY <2>1, <2>2 DEF Confirmable
  <2>4. DispatchOnly(confirm(x))
    BY <1>1, <2>1 DEF HandleCommit, commitConfig
  <2>5. x.type = "CALL_API" /\ x.namespaces = items /\ x.version = store.currentVersion
    BY <2>1
  <2> QED
    BY <2>3, <2>4, <2>5, ConfirmStep
<1>2. CASE HandleNamespaceRemove
  <2>1. PICK x : x = [type |-> "REMOVE_NAMESPACE", namespace |-> Selected]
    OBVIOUS
  <2>2. Selected \in Namespaces /\ items[Selected] # Undefined
    BY <1>2, SelectedPresent DEF HandleNamespaceRemove, DispatchOnly
  <2>3. x \in Confirmable
    BY <2>1, <2>2 DEF Confirmable
  <2>4. DispatchOnly(confirm(x))
    BY <1>2, <2>1 DEF HandleNamespaceRemove, removeNamespace
  <2>5. x.type = "REMOVE_NAMESPACE" /\ x.namespace = Selected
    BY <2>1
  <2> QED
    BY <2>2, <2>3, <2>4, <2>5, ConfirmStep
<1>3. ASSUME NEW b \in Buckets, HandleBucketRemove(b)
      PROVE  IInv' /\ HistoryMoves
  <2>1. PICK x : x = [type |-> "REMOVE_BUCKET", namespace |-> Selected, bucket |-> b]
    OBVIOUS
  <2>2. Selected \in Namespaces /\ HasBucket(items, Selected, b)
    BY <1>3, SelectedPresent DEF HandleBucketRemove, CanEdit
  <2>3. x \in Confirmable
    BY <2>1, <2>2 DEF Confirmable
  <2>4. DispatchOnly(confirm(x))
    BY <1>3, <2>1 DEF HandleBucketRemove, removeBucket
  <2>5. x.type = "REMOVE_BUCKET" /\ x.namespace = Selected /\ x.bucket = b
    BY <2>1
  <2> QED
    BY <2>2, <2>3, <2>4, <2>5, ConfirmStep
<1> QED
  BY <1>1, <1>2, <1>3

\* Selecting a namespace, leaving it, opening and closing its statistics, and
\* cancelling.
LEMMA QuietHandlers ==
  ASSUME IInv,
         \/ \E n \in Namespaces, canMakeChanges \in BOOLEAN :
              OnClickTile(n, canMakeChanges)
         \/ HandleBack
         \/ HandleBackFromStats
         \/ HandleShowDynamicStats
         \/ Cancel
  PROVE  IInv' /\ HistoryMoves
<1>1. ASSUME NEW n \in Namespaces \cup {Null}, NEW can \in BOOLEAN,
             DispatchOnly(selectNamespace(n, can))
      PROVE  IInv' /\ HistoryMoves
  <2>1. PICK a : a = selectNamespace(n, can)
    OBVIOUS
  <2>2. a.type = "SELECT_NAMESPACE" /\ a.namespace = n /\ a.canMakeChanges = can
    BY <2>1 DEF selectNamespace
  <2> QED
    BY <1>1, <2>1, <2>2, QuietStep
<1>2. DispatchOnly(toggleStats) => IInv' /\ HistoryMoves
  <2>1. toggleStats.type = "STATS_TOGGLE"
    BY DEF toggleStats
  <2> QED
    BY <2>1, QuietStep
<1>3. DispatchOnly(clearConfirm) => IInv' /\ HistoryMoves
  <2>1. clearConfirm.type = "CLEAR_CONFIRM"
    BY DEF clearConfirm
  <2> QED
    BY <2>1, QuietStep
<1> QED
  BY <1>1, <1>2, <1>3 DEF OnClickTile, HandleBack, HandleBackFromStats,
                          HandleShowDynamicStats, Cancel

\* A confirmed removal is an edit: what it removes is there.
LEMMA RemovalStep ==
  ASSUME IInv, ConfirmRemoval
  PROVE  IInv' /\ HistoryMoves
<1> DEFINE items == store.namespaces.items
<1>1. PICK a : a = store.confirm
  OBVIOUS
<1>2. a # Null /\ a.type \in MutableActions /\ DispatchOnly(a)
  BY <1>1 DEF ConfirmRemoval
<1>3. a \in Confirmable
  BY <1>1, <1>2, PartsOfStore DEF IInv, UIInv, StoreInv
<1>4. /\ a.type = "REMOVE_NAMESPACE" => items[a.namespace] # Undefined
      /\ a.type = "REMOVE_BUCKET" => HasBucket(items, a.namespace, a.bucket)
  BY <1>1, <1>2 DEF IInv, UIInv, StoreInv, ConfirmFreshIn
<1>5. CASE a \in [type : {"REMOVE_NAMESPACE"}, namespace : Namespaces]
  <2>1. PICK n \in Namespaces : a = [type |-> "REMOVE_NAMESPACE", namespace |-> n]
    BY <1>5
  <2>2. items[n] # Undefined
    BY <1>4, <2>1
  <2>3. a \in EditsOf(items)
    BY <2>1, <2>2, AreEdits
  <2> QED
    BY <1>2, <2>3, EditStep
<1>6. CASE a \in [type : {"REMOVE_BUCKET"}, namespace : Namespaces, bucket : Buckets]
  <2>1. PICK n \in Namespaces, b \in Buckets :
          a = [type |-> "REMOVE_BUCKET", namespace |-> n, bucket |-> b]
    BY <1>6
  <2>2. HasBucket(items, n, b)
    BY <1>4, <2>1
  <2>3. a \in EditsOf(items)
    BY <2>1, <2>2, AreEdits
  <2> QED
    BY <1>2, <2>3, EditStep
<1>7. a.type # "CALL_API"
  BY <1>2 DEF MutableActions
<1> QED
  BY <1>3, <1>5, <1>6, <1>7 DEF Confirmable

\* The store once a request for configurations has been announced.
LEMMA AnnouncedStore ==
  ASSUME NEW s, NEW l, StoreInv(s, l)
  PROVE  /\ StoreInv(fetchConfigs(s), l)
         /\ fetchConfigs(s).namespaces = s.namespaces
         /\ ~NeedsRefetch(fetchConfigs(s).configs)
<1>1. PICK a : a = configsRequest
  OBVIOUS
<1>2. a.type = "CONFIGS_REQUEST" /\ a.error = FALSE
  BY <1>1 DEF configsRequest
<1>3. Keeps(s, l, a) /\ ~NeedsRefetch(rootReducer(s, a).configs)
  BY <1>2, ConfigsKeeps
<1>4. AfterLoad(l, a) = l
  BY <1>2 DEF AfterLoad, LoadedConfig
<1>5. rootReducer(s, a).namespaces = s.namespaces
  <2>1. "CONFIGS_REQUEST" \notin MutableActions
    BY DEF MutableActions
  <2> QED
    BY <1>2, <2>1, UntouchedParts
<1>6. fetchConfigs(s) = rootReducer(s, a)
  BY <1>1 DEF fetchConfigs
<1> QED
  BY <1>3, <1>4, <1>5, <1>6 DEF Keeps

\* Announcing and sending one.
LEMMA AnnounceStep ==
  ASSUME IInv, Render(fetchConfigs(store)), UNCHANGED <<serverVars, loaded>>,
         NEW r \in Request, Send(r)
  PROVE  IInv' /\ HistoryMoves
<1>1. PICK s : s = fetchConfigs(store)
  OBVIOUS
<1>2. /\ StoreInv(s, loaded) /\ s.namespaces = store.namespaces
      /\ ~NeedsRefetch(s.configs)
  BY <1>1, AnnouncedStore DEF IInv, UIInv
<1>3. UIInv' /\ TimersInv'
  BY <1>1, <1>2, RenderKeeps DEF IInv
<1>4. HistoryMoves
  BY <1>1, <1>2 DEF Render, HistoryMoves, TimelineStep
<1>5. RequestsInv' /\ ServerInv'
  BY SendKeeps, QuietServer
<1> QED
  BY <1>3, <1>4, <1>5 DEF IInv

LEMMA RefreshStep ==
  ASSUME IInv, HandleRefresh
  PROVE  IInv' /\ HistoryMoves
BY AnnounceStep, RequestKinds DEF HandleRefresh

LEMMA CommitStep ==
  ASSUME IInv, ConfirmCommit
  PROVE  IInv' /\ HistoryMoves
<1>1. PICK x : x = store.confirm
  OBVIOUS
<1>2. x \in Confirmable /\ x.type = "CALL_API"
  BY <1>1, PartsOfStore DEF ConfirmCommit, IInv, UIInv, StoreInv
<1>3. x.namespaces \in Items /\ x.version \in 0..MaxSaves
  BY <1>2 DEF Confirmable
<1>4. PICK r : r = [type |-> "POST", namespaces |-> x.namespaces,
                    version |-> x.version, status |-> "sent"]
  OBVIOUS
<1>5. r \in Request
  BY <1>3, <1>4 DEF Request
<1>6. /\ Send(r) /\ Render(fetchConfigs(store))
      /\ UNCHANGED <<serverVars, loaded>>
  BY <1>1, <1>4 DEF ConfirmCommit, fetchConfigs
<1> QED
  BY <1>5, <1>6, AnnounceStep

-----------------------------------------------------------------------------
(***************************************************************************)
(* Statistics.                                                             *)
(***************************************************************************)

LEMMA TypeSearch ==
  ASSUME IInv, NEW b \in Searches, HandleSearchChange(b)
  PROVE  IInv' /\ HistoryMoves
<1>1. Selected \in Namespaces
  BY SelectedPresent DEF HandleSearchChange, StatsView
<1>2. /\ store' = store /\ mounted' = mounted /\ orphans' = orphans
      /\ requests' = requests /\ UNCHANGED serverVars /\ loaded' = loaded
      /\ search' = [namespace |-> Selected, bucket |-> b]
  BY DEF HandleSearchChange
<1>3. search' \in StatsQuery
  BY <1>1, <1>2 DEF StatsQuery
<1>4. UIInv'
  BY <1>2 DEF IInv, UIInv, StoreInv, ConfirmFreshIn, ListsAgreeIn, NoRefetchLoop,
              NeedsRefetch, Renders
<1>5. TimersInv' /\ RequestsInv' /\ ServerInv'
  BY <1>2, <1>3, QuietServer DEF IInv, TimersInv, RequestsInv
<1> QED
  BY <1>2, <1>4, <1>5 DEF IInv, HistoryMoves, TimelineStep

\* A timer fires: the query is sent.
LEMMA SendQuery ==
  ASSUME IInv, NEW t \in StatsQuery, SendSearch(t)
  PROVE  UIInv' /\ RequestsInv' /\ ServerInv' /\ HistoryMoves
<1>1. PICK a : a = [type |-> "STATS_REQUEST", error |-> FALSE]
  OBVIOUS
<1>2. a.type = "STATS_REQUEST" /\ a.error = FALSE
  BY <1>1
<1>3. PICK s : s = rootReducer(store, a)
  OBVIOUS
<1>4. /\ store' = s /\ mounted' = mounted /\ loaded' = loaded
      /\ UNCHANGED serverVars
      /\ Send(fetchStatsAction(t.namespace, t.bucket))
  BY <1>1, <1>3 DEF SendSearch
<1>5. Keeps(store, loaded, a) /\ s.configs = store.configs
  BY <1>2, <1>3, QuietKeeps DEF IInv, UIInv
<1>6. s.namespaces = store.namespaces /\ s.selectedNamespace = store.selectedNamespace
  <2>1. "STATS_REQUEST" \notin MutableActions
    BY DEF MutableActions
  <2> QED
    BY <1>2, <1>3, <2>1, UntouchedParts
<1>7. AfterLoad(loaded, a) = loaded
  BY <1>2 DEF AfterLoad, LoadedConfig
<1>8. StoreInv(s, loaded)
  BY <1>3, <1>5, <1>7 DEF Keeps
<1>9. UIInv'
  <2>1. StoreInv(store, loaded)'
    BY <1>4, <1>8 DEF StoreInv, ConfirmFreshIn, ListsAgreeIn
  <2>2. NoRefetchLoop'
    BY <1>4, <1>5 DEF IInv, UIInv, NoRefetchLoop, NeedsRefetch
  <2>3. mounted' \in BOOLEAN /\ (mounted' => Renders(store)')
    BY <1>4, <1>6 DEF IInv, UIInv, Renders
  <2> QED
    BY <2>1, <2>2, <2>3 DEF UIInv
<1>10. RequestsInv'
  <2>1. t.namespace \in Namespaces /\ t.bucket \in Searches
    BY DEF StatsQuery
  <2>2. fetchStatsAction(t.namespace, t.bucket) \in Request
    BY <2>1, RequestKinds
  <2> QED
    BY <1>4, <2>2, SendKeeps
<1> QED
  BY <1>4, <1>6, <1>9, <1>10, QuietServer DEF HistoryMoves, TimelineStep

LEMMA TimerStep ==
  ASSUME IInv, Timer
  PROVE  IInv' /\ HistoryMoves
<1>1. CASE SearchTimer
  <2>1. search \in StatsQuery
    BY <1>1 DEF SearchTimer, IInv, TimersInv
  <2>2. UIInv' /\ RequestsInv' /\ ServerInv' /\ HistoryMoves
    BY <1>1, <2>1, SendQuery DEF SearchTimer
  <2>3. TimersInv'
    BY <1>1 DEF SearchTimer, IInv, TimersInv
  <2> QED
    BY <2>2, <2>3 DEF IInv
<1>2. ASSUME NEW t \in orphans, OrphanTimer(t)
      PROVE  IInv' /\ HistoryMoves
  <2>1. t \in StatsQuery
    BY DEF IInv, TimersInv
  <2>2. UIInv' /\ RequestsInv' /\ ServerInv' /\ HistoryMoves
    BY <1>2, <2>1, SendQuery DEF OrphanTimer
  <2>3. TimersInv'
    BY <1>2 DEF OrphanTimer, IInv, TimersInv
  <2> QED
    BY <2>2, <2>3 DEF IInv
<1> QED
  BY <1>1, <1>2 DEF Timer

\* Every handler of the views.
LEMMA UserStepKeeps ==
  ASSUME IInv, UserStep
  PROVE  IInv' /\ HistoryMoves
BY EditHandlers, HistoryHandlers, ConfirmHandlers, QuietHandlers, RemovalStep,
   RefreshStep, CommitStep, TypeSearch DEF UserStep

-----------------------------------------------------------------------------
(***************************************************************************)
(* Answers.                                                                *)
(***************************************************************************)

LEMMA RequestTypes ==
  ASSUME IInv, NEW i \in Slots
  PROVE  /\ IsRequest(i, "GET") =>
              requests[i] \in [type : {"GET"}, status : {"sent", "ok", "error"},
                               configs : Seq(Config)]
         /\ IsRequest(i, "POST") =>
              requests[i] \in [type : {"POST"}, namespaces : Items,
                               version : 0..MaxSaves,
                               status : {"sent", "ok", "error", "lost"}]
         /\ IsRequest(i, "STATS") =>
              requests[i] \in [type : {"STATS"}, namespace : Namespaces,
                               bucket : Searches]
<1>1. requests[i] \in Request \cup {Null}
  BY DEF IInv, RequestsInv
<1>2. PICK r : r = requests[i]
  OBVIOUS
<1>3. r \in Request \cup {Null}
  BY <1>1, <1>2
<1>4. r # Null /\ r.type = "GET" =>
        r \in [type : {"GET"}, status : {"sent", "ok", "error"}, configs : Seq(Config)]
  BY <1>3 DEF Request
<1>5. r # Null /\ r.type = "POST" =>
        r \in [type : {"POST"}, namespaces : Items, version : 0..MaxSaves,
               status : {"sent", "ok", "error", "lost"}]
  BY <1>3 DEF Request
<1>6. r # Null /\ r.type = "STATS" =>
        r \in [type : {"STATS"}, namespace : Namespaces, bucket : Searches]
  BY <1>3 DEF Request
<1> QED
  BY <1>2, <1>4, <1>5, <1>6 DEF IsRequest

\* What takes a request's place in its slot.
LEMMA SlotKeeps ==
  ASSUME IInv, NEW i \in Slots, NEW r \in Request \cup {Null},
         requests' = [requests EXCEPT ![i] = r]
  PROVE  RequestsInv'
BY DEF IInv, RequestsInv

\* Announcing the request for the capabilities, after an answer.
LEMMA CapabilitiesStore ==
  ASSUME NEW s, NEW l, StoreInv(s, l), ~NeedsRefetch(s.configs)
  PROVE  /\ StoreInv(ThenFetchCapabilities(s), l)
         /\ ThenFetchCapabilities(s).namespaces = s.namespaces
         /\ ~NeedsRefetch(ThenFetchCapabilities(s).configs)
<1>1. PICK a : a = [type |-> "CAPABILITIES_REQUEST"]
  OBVIOUS
<1>2. a.type = "CAPABILITIES_REQUEST"
  BY <1>1
<1>3. Keeps(s, l, a) /\ rootReducer(s, a).configs = s.configs
  BY <1>2, QuietKeeps
<1>4. AfterLoad(l, a) = l
  BY <1>2 DEF AfterLoad, LoadedConfig
<1>5. rootReducer(s, a).namespaces = s.namespaces
  <2>1. "CAPABILITIES_REQUEST" \notin MutableActions
    BY DEF MutableActions
  <2> QED
    BY <1>2, <2>1, UntouchedParts
<1>6. ThenFetchCapabilities(s) \in {s, rootReducer(s, a)}
  BY <1>1 DEF ThenFetchCapabilities
<1>7. /\ StoreInv(rootReducer(s, a), l)
      /\ ~NeedsRefetch(rootReducer(s, a).configs)
  BY <1>3, <1>4 DEF Keeps
<1> QED
  BY <1>5, <1>6, <1>7

\* An answer with configurations.
LEMMA ConfigsStep ==
  ASSUME IInv, NEW i \in Slots, ReceiveConfigs(i)
  PROVE  IInv' /\ HistoryMoves
<1>1. PICK configs : configs = requests[i].configs
  OBVIOUS
<1>2. configs \in Seq(Config)
  BY <1>1, RequestTypes DEF ReceiveConfigs
<1>3. PICK a : a = [type |-> "CONFIGS_FETCH_SUCCESS", error |-> FALSE,
                    configs |-> configs]
  OBVIOUS
<1>4. PICK s : s = rootReducer(store, a)
  OBVIOUS
<1>5. /\ Render(ThenFetchCapabilities(s))
      /\ loaded' = AfterLoad(loaded, a)
      /\ requests' = [requests EXCEPT ![i] = NextRequest]
      /\ UNCHANGED serverVars
  BY <1>1, <1>3, <1>4 DEF ReceiveConfigs, AfterLoad
<1>6. Keeps(store, loaded, a) /\ ~NeedsRefetch(s.configs)
  BY <1>2, <1>3, <1>4, FetchKeeps DEF IInv, UIInv
<1>7. StoreInv(s, loaded') /\ TimelineStep(store.namespaces, s.namespaces)
  BY <1>4, <1>5, <1>6 DEF Keeps
<1>8. PICK t : t = ThenFetchCapabilities(s)
  OBVIOUS
<1>9. StoreInv(t, loaded') /\ t.namespaces = s.namespaces /\ ~NeedsRefetch(t.configs)
  BY <1>6, <1>7, <1>8, CapabilitiesStore
<1>10. UIInv' /\ TimersInv'
  BY <1>5, <1>8, <1>9, RenderKeeps DEF IInv
<1>11. HistoryMoves
  BY <1>5, <1>7, <1>8, <1>9 DEF HistoryMoves, Render
<1>12. RequestsInv' /\ ServerInv'
  BY <1>5, RequestKinds, SlotKeeps, QuietServer
<1> QED
  BY <1>10, <1>11, <1>12 DEF IInv

\* An answer that is an error.
LEMMA ConfigsFailStep ==
  ASSUME IInv, NEW i \in Slots, FetchConfigsFails(i)
  PROVE  IInv' /\ HistoryMoves
<1>1. PICK a : a = [type |-> "CONFIGS_FAILURE"]
  OBVIOUS
<1>2. a.type = "CONFIGS_FAILURE"
  BY <1>1
<1>3. PICK s : s = rootReducer(store, a)
  OBVIOUS
<1>4. /\ Render(ThenFetchCapabilities(s)) /\ loaded' = loaded
      /\ requests' = [requests EXCEPT ![i] = NextRequest]
      /\ UNCHANGED serverVars
  BY <1>1, <1>3 DEF FetchConfigsFails
<1>5. Keeps(store, loaded, a) /\ ~NeedsRefetch(s.configs)
  BY <1>2, <1>3, ConfigsKeeps DEF IInv, UIInv
<1>6. AfterLoad(loaded, a) = loaded
  BY <1>2 DEF AfterLoad, LoadedConfig
<1>7. StoreInv(s, loaded) /\ TimelineStep(store.namespaces, s.namespaces)
  BY <1>3, <1>5, <1>6 DEF Keeps
<1>8. PICK t : t = ThenFetchCapabilities(s)
  OBVIOUS
<1>9. StoreInv(t, loaded') /\ t.namespaces = s.namespaces /\ ~NeedsRefetch(t.configs)
  BY <1>4, <1>5, <1>7, <1>8, CapabilitiesStore
<1>10. UIInv' /\ TimersInv'
  BY <1>4, <1>8, <1>9, RenderKeeps DEF IInv
<1>11. HistoryMoves
  BY <1>4, <1>7, <1>8, <1>9 DEF HistoryMoves, Render
<1>12. RequestsInv' /\ ServerInv'
  BY <1>4, RequestKinds, SlotKeeps, QuietServer
<1> QED
  BY <1>10, <1>11, <1>12 DEF IInv

\* A save that succeeded, and the request that follows it.
LEMMA CommittedStep ==
  ASSUME IInv, NEW i \in Slots, ReceiveCommit(i)
  PROVE  IInv' /\ HistoryMoves
<1>1. PICK a : a = [type |-> "CONFIGS_COMMIT_SUCCESS", error |-> FALSE]
  OBVIOUS
<1>2. a.type = "CONFIGS_COMMIT_SUCCESS" /\ a.error = FALSE
  BY <1>1
<1>3. PICK s : s = rootReducer(store, a)
  OBVIOUS
<1>4. /\ Render(IF NeedsRefetch(s.configs) THEN fetchConfigs(s) ELSE s)
      /\ requests' = [requests EXCEPT ![i] = IF NeedsRefetch(s.configs)
                                             THEN GetRequest ELSE Null]
      /\ loaded' = loaded /\ UNCHANGED serverVars
  BY <1>1, <1>3 DEF ReceiveCommit
<1>5. Keeps(store, loaded, a)
  BY <1>2, ConfigsKeeps DEF IInv, UIInv
<1>6. AfterLoad(loaded, a) = loaded
  BY <1>2 DEF AfterLoad, LoadedConfig
<1>7. StoreInv(s, loaded) /\ TimelineStep(store.namespaces, s.namespaces)
  BY <1>3, <1>5, <1>6 DEF Keeps
<1>8. PICK t : t = IF NeedsRefetch(s.configs) THEN fetchConfigs(s) ELSE s
  OBVIOUS
<1>9. StoreInv(t, loaded') /\ t.namespaces = s.namespaces /\ ~NeedsRefetch(t.configs)
  <2>1. CASE NeedsRefetch(s.configs)
    BY <1>4, <1>7, <1>8, <2>1, AnnouncedStore
  <2>2. CASE ~NeedsRefetch(s.configs)
    BY <1>4, <1>7, <1>8, <2>2
  <2> QED
    BY <2>1, <2>2
<1>10. UIInv' /\ TimersInv'
  BY <1>4, <1>8, <1>9, RenderKeeps DEF IInv
<1>11. HistoryMoves
  BY <1>4, <1>7, <1>8, <1>9 DEF HistoryMoves, Render
<1>12. RequestsInv' /\ ServerInv'
  <2>1. PICK r : r = IF NeedsRefetch(s.configs) THEN GetRequest ELSE Null
    OBVIOUS
  <2>2. r \in Request \cup {Null}
    BY <2>1, RequestKinds
  <2> QED
    BY <1>4, <2>1, <2>2, SlotKeeps, QuietServer
<1> QED
  BY <1>10, <1>11, <1>12 DEF IInv

\* A dispatch that ends a request.
LEMMA AnswerStep ==
  ASSUME IInv, NEW i \in Slots, NEW a, Dispatch(a), Keeps(store, loaded, a),
         ~NeedsRefetch(rootReducer(store, a).configs),
         requests' = [requests EXCEPT ![i] = Null], UNCHANGED serverVars
  PROVE  IInv' /\ HistoryMoves
<1>1. UIInv' /\ TimersInv' /\ HistoryMoves
  BY DispatchKeeps
<1>2. RequestsInv' /\ ServerInv'
  BY SlotKeeps, QuietServer
<1> QED
  BY <1>1, <1>2 DEF IInv

LEMMA CommitFailStep ==
  ASSUME IInv, NEW i \in Slots, CommitFails(i)
  PROVE  IInv' /\ HistoryMoves
<1>1. requests' = [requests EXCEPT ![i] = Null] /\ UNCHANGED serverVars
  BY DEF CommitFails
<1>2. PICK a : /\ Dispatch(a)
               /\ \/ a.type = "CONFIGS_FAILURE"
                  \/ a.type = "CONFIGS_REQUEST" /\ a.error \in BOOLEAN
  <2>1. [type |-> "CONFIGS_FAILURE"].type = "CONFIGS_FAILURE"
    OBVIOUS
  <2>2. /\ [type |-> "CONFIGS_REQUEST", error |-> TRUE].type = "CONFIGS_REQUEST"
        /\ [type |-> "CONFIGS_REQUEST", error |-> TRUE].error \in BOOLEAN
    OBVIOUS
  <2>3. \/ Dispatch([type |-> "CONFIGS_FAILURE"])
        \/ Dispatch([type |-> "CONFIGS_REQUEST", error |-> TRUE])
    BY DEF CommitFails
  <2> QED
    BY <2>1, <2>2, <2>3
<1>3. Keeps(store, loaded, a) /\ ~NeedsRefetch(rootReducer(store, a).configs)
  BY <1>2, ConfigsKeeps DEF IInv, UIInv
<1> QED
  BY <1>1, <1>2, <1>3, AnswerStep

LEMMA CapabilitiesStep ==
  ASSUME IInv, NEW i \in Slots, ReceiveCapabilities(i)
  PROVE  IInv' /\ HistoryMoves
<1>1. PICK a : a = [type |-> "CAPABILITIES_FETCH_SUCCESS"]
  OBVIOUS
<1>2. a.type = "CAPABILITIES_FETCH_SUCCESS"
  BY <1>1
<1>3. Keeps(store, loaded, a) /\ rootReducer(store, a).configs = store.configs
  BY <1>2, QuietKeeps DEF IInv, UIInv
<1>4. ~NeedsRefetch(rootReducer(store, a).configs)
  BY <1>3 DEF IInv, UIInv, NoRefetchLoop
<1> QED
  BY <1>1, <1>3, <1>4, AnswerStep DEF ReceiveCapabilities

LEMMA StatsStep ==
  ASSUME IInv, NEW i \in Slots, ReceiveStats(i)
  PROVE  IInv' /\ HistoryMoves
<1>1. PICK n, b : n = requests[i].namespace /\ b = requests[i].bucket
  OBVIOUS
<1>2. n \in Namespaces /\ b \in Searches
  BY <1>1, RequestTypes DEF ReceiveStats
<1>3. PICK failed \in BOOLEAN :
        Dispatch([type |-> IF failed THEN "STATS_FAILURE" ELSE "STATS_FETCH_SUCCESS",
                  error |-> failed, namespace |-> n, bucket |-> b])
  BY <1>1 DEF ReceiveStats
<1>4. PICK a : a = [type |-> IF failed THEN "STATS_FAILURE" ELSE "STATS_FETCH_SUCCESS",
                    error |-> failed, namespace |-> n, bucket |-> b]
  OBVIOUS
<1>5. \/ a.type = "STATS_FAILURE" /\ a.error = TRUE
      \/ /\ a.type = "STATS_FETCH_SUCCESS" /\ a.error = FALSE
         /\ a.namespace \in Namespaces /\ a.bucket \in Searches
  BY <1>2, <1>4
<1>6. Keeps(store, loaded, a) /\ rootReducer(store, a).configs = store.configs
  BY <1>5, QuietKeeps DEF IInv, UIInv
<1>7. ~NeedsRefetch(rootReducer(store, a).configs)
  BY <1>6 DEF IInv, UIInv, NoRefetchLoop
<1>8. requests' = [requests EXCEPT ![i] = Null] /\ UNCHANGED serverVars
  BY DEF ReceiveStats
<1> QED
  BY <1>3, <1>4, <1>6, <1>7, <1>8, AnswerStep

-----------------------------------------------------------------------------
(***************************************************************************)
(* The server.                                                             *)
(***************************************************************************)

\* What the server has read back.
LEMMA VisibleTypes ==
  ASSUME ServerInv
  PROVE  /\ Visible \in Seq(Config)
         /\ Current \in Config
         /\ Current.version <= seen
<1>1. /\ archive \in Seq(Config) /\ Len(archive) \in Nat /\ seen \in 0..Len(archive)
  BY DEF ServerInv
<1>2. PICK m : m = Len(archive) - seen + 1
  OBVIOUS
<1>3. m \in 1..(Len(archive) + 1) /\ Len(archive) + 1 - m = seen
  BY <1>1, <1>2
<1>4. Visible \in Seq(Config) /\ (Visible # <<>> => /\ m \in DOMAIN archive
                                                    /\ Visible[1] = archive[m])
  BY <1>1, <1>2, <1>3 DEF Visible
<1>5. CASE Visible = <<>>
  <2>1. Current = [version |-> 0, items |-> NoItems] /\ 0 \in 0..MaxSaves
    BY <1>5, UIAssumption DEF Current
  <2> QED
    BY <1>1, <1>4, <2>1, NewTypes DEF Config
<1>6. CASE Visible # <<>>
  <2>1. Current = archive[m] /\ m \in DOMAIN archive
    BY <1>4, <1>6 DEF Current
  <2>2. archive[m].version <= seen
    BY <1>3, <2>1 DEF ServerInv
  <2> QED
    BY <1>1, <1>4, <2>1, <2>2
<1> QED
  BY <1>5, <1>6

\* The defaults of the server make a configuration of a configuration.
LEMMA DefaultsTypes ==
  ASSUME NEW items \in Items
  PROVE  ApplyDefaults(items) \in Items
<1> DEFINE Numeric(v, zero) == IF v \in {Null, Undefined} THEN zero ELSE v
           Bucket(c) == IF c = Undefined THEN Undefined
                        ELSE [f \in Fields |-> Numeric(c[f], Default)]
<1>1. \A v \in Setting : /\ Numeric(v, Default) \in Setting
                         /\ Numeric(v, Undefined) \in Setting
  BY UIAssumption DEF Setting
<1> HIDE DEF Numeric
<1>2. \A c \in BucketConfig \cup {Undefined} :
        Bucket(c) \in BucketConfig \cup {Undefined}
  BY <1>1 DEF BucketConfig
<1> HIDE DEF Bucket
<1>3. ASSUME NEW n \in Namespaces, items[n] # Undefined
      PROVE  [max_dynamic_buckets |-> Numeric(items[n].max_dynamic_buckets, Undefined),
              buckets |-> [p \in BucketPaths |-> Bucket(items[n].buckets[p])]]
               \in NamespaceConfig
  <2>1. /\ items[n].max_dynamic_buckets \in Setting
        /\ items[n].buckets \in [BucketPaths -> BucketConfig \cup {Undefined}]
    BY <1>3 DEF Items, NamespaceConfig
  <2>2. [p \in BucketPaths |-> Bucket(items[n].buckets[p])] \in
          [BucketPaths -> BucketConfig \cup {Undefined}]
    BY <1>2, <2>1
  <2> QED
    BY <1>1, <2>1, <2>2 DEF NamespaceConfig
<1>4. ApplyDefaults(items) =
        [n \in Namespaces |->
           IF items[n] = Undefined THEN Undefined
           ELSE [max_dynamic_buckets |->
                   Numeric(items[n].max_dynamic_buckets, Undefined),
                 buckets |-> [p \in BucketPaths |-> Bucket(items[n].buckets[p])]]]
  BY DEF ApplyDefaults, Numeric, Bucket
<1> QED
  BY <1>3, <1>4 DEF Items

\* Saving: the next version has a place.
LEMMA SaveKeeps ==
  ASSUME IInv, NEW items \in Items, Save(items)
  PROVE  ServerInv'
<1> DEFINE n == Len(archive)
<1>1. PICK c : c = [version |-> Current.version + 1, items |-> ApplyDefaults(items)]
  OBVIOUS
<1>2. /\ archive \in Seq(Config) /\ n \in Nat /\ seen \in 0..n
      /\ \A i \in DOMAIN archive : archive[i].version <= n + 1 - i
  BY DEF IInv, ServerInv
<1>3. /\ Current.version \in Nat /\ Current.version <= seen
  BY VisibleTypes DEF IInv, Config
<1>4. n < MaxSaves /\ archive' = <<c>> \o archive /\ seen' = seen /\ MaxSaves \in Nat
  BY <1>1, UIAssumption DEF Save
<1>5. c.version = Current.version + 1 /\ c.version \in 0..MaxSaves /\ c.version <= n + 1
  <2>1. c.version = Current.version + 1
    BY <1>1
  <2> QED
    BY <1>2, <1>3, <1>4, <2>1
<1>6. c \in Config
  <2>1. c = [version |-> c.version, items |-> c.items] /\ c.items \in Items
    BY <1>1, DefaultsTypes
  <2> QED
    BY <1>5, <2>1 DEF Config
<1>7. /\ archive' \in Seq(Config) /\ Len(archive') = n + 1 /\ archive'[1] = c
      /\ \A i \in 2..(n + 1) : archive'[i] = archive[i - 1]
  BY <1>2, <1>4, <1>6, Prepended
<1>8. seen' \in 0..Len(archive')
  BY <1>2, <1>4, <1>7
<1>9. ASSUME NEW i \in DOMAIN archive'
      PROVE  archive'[i].version <= Len(archive') + 1 - i
  <2>1. i \in 1..(n + 1)
    BY <1>2, <1>7, <1>9
  <2>2. CASE i = 1
    BY <1>2, <1>5, <1>7, <2>2
  <2>3. CASE i # 1
    <3>1. i \in 2..(n + 1) /\ i - 1 \in DOMAIN archive
      BY <1>2, <2>1, <2>3
    <3>2. archive'[i] = archive[i - 1] /\ archive[i - 1].version <= n + 1 - (i - 1)
      BY <1>2, <1>7, <3>1
    <3>3. n + 1 - (i - 1) = Len(archive') + 1 - i
      BY <1>2, <1>7, <3>1
    <3> QED
      BY <3>2, <3>3
  <2> QED
    BY <2>2, <2>3
<1> QED
  BY <1>7, <1>8, <1>9 DEF ServerInv

\* Marking a request answered.
LEMMA AnswerKeeps ==
  ASSUME IInv, NEW i \in Slots, NEW status, Answer(i, status),
         \/ IsRequest(i, "GET") /\ status = "error"
         \/ IsRequest(i, "POST") /\ status \in {"ok", "error", "lost"}
  PROVE  RequestsInv'
<1>1. PICK q : q = requests[i]
  OBVIOUS
<1>2. PICK r : r = [q EXCEPT !.status = status]
  OBVIOUS
<1>3. r \in Request
  <2>1. CASE IsRequest(i, "GET") /\ status = "error"
    <3>1. q \in [type : {"GET"}, status : {"sent", "ok", "error"}, configs : Seq(Config)]
      BY <1>1, <2>1, RequestTypes
    <3>2. r \in [type : {"GET"}, status : {"sent", "ok", "error"}, configs : Seq(Config)]
      BY <1>2, <2>1, <3>1
    <3> QED
      BY <3>2 DEF Request
  <2>2. CASE IsRequest(i, "POST") /\ status \in {"ok", "error", "lost"}
    <3>1. q \in [type : {"POST"}, namespaces : Items, version : 0..MaxSaves,
                 status : {"sent", "ok", "error", "lost"}]
      BY <1>1, <2>2, RequestTypes
    <3>2. r \in [type : {"POST"}, namespaces : Items, version : 0..MaxSaves,
                 status : {"sent", "ok", "error", "lost"}]
      BY <1>2, <2>2, <3>1
    <3> QED
      BY <3>2 DEF Request
  <2> QED
    BY <2>1, <2>2
<1>4. requests' = [requests EXCEPT ![i] = r]
  BY <1>1, <1>2 DEF Answer
<1> QED
  BY <1>3, <1>4, SlotKeeps

LEMMA ServeStep ==
  ASSUME IInv, NEW i \in Slots, Serve(i)
  PROVE  IInv' /\ HistoryMoves
<1>1. CASE AnswerGet(i)
  <2>1. PICK q, v : q = requests[i] /\ v = Visible
    OBVIOUS
  <2>2. PICK r : r = [q EXCEPT !.status = "ok", !.configs = v]
    OBVIOUS
  <2>3. q \in [type : {"GET"}, status : {"sent", "ok", "error"}, configs : Seq(Config)]
    BY <1>1, <2>1, RequestTypes DEF AnswerGet
  <2>4. v \in Seq(Config)
    BY <2>1, VisibleTypes DEF IInv
  <2>5. r \in [type : {"GET"}, status : {"sent", "ok", "error"}, configs : Seq(Config)]
    BY <2>2, <2>3, <2>4
  <2>6. r \in Request
    BY <2>5 DEF Request
  <2>7. requests' = [requests EXCEPT ![i] = r]
    <3>1. requests' = [requests EXCEPT ![i].status = "ok", ![i].configs = v]
      BY <1>1, <2>1 DEF AnswerGet
    <3>2. requests \in [Slots -> Request \cup {Null}]
      BY DEF IInv, RequestsInv
    <3> QED
      BY <2>1, <2>2, <3>1, <3>2
  <2>8. RequestsInv'
    BY <2>6, <2>7, SlotKeeps
  <2> QED
    BY <1>1, <2>8, QuietUI, QuietServer DEF AnswerGet, IInv
<1>2. CASE AcceptPost(i)
  <2>1. RequestsInv'
    BY <1>2, AnswerKeeps DEF AcceptPost
  <2>2. requests[i].namespaces \in Items
    BY <1>2, RequestTypes DEF AcceptPost
  <2>3. ServerInv'
    BY <1>2, <2>2, SaveKeeps DEF AcceptPost
  <2> QED
    BY <1>2, <2>1, <2>3, QuietUI DEF AcceptPost, IInv
<1>3. CASE FailRequest(i)
  <2>1. RequestsInv'
    BY <1>3, AnswerKeeps DEF FailRequest
  <2> QED
    BY <1>3, <2>1, QuietUI, QuietServer DEF FailRequest, IInv
<1> QED
  BY <1>1, <1>2, <1>3 DEF Serve

LEMMA ReadBackStep ==
  ASSUME IInv, ReadBack
  PROVE  IInv' /\ HistoryMoves
<1>1. ServerInv'
  <2>1. archive' = archive /\ seen' = Len(archive) /\ Len(archive) \in Nat
    BY DEF ReadBack, IInv, ServerInv
  <2> QED
    BY <2>1 DEF IInv, ServerInv
<1>2. RequestsInv'
  BY DEF ReadBack, IInv, RequestsInv
<1> QED
  BY <1>1, <1>2, QuietUI DEF ReadBack, IInv

LEMMA OtherAdminStep ==
  ASSUME IInv, NEW n \in Namespaces, OtherAdminSaves(n)
  PROVE  IInv' /\ HistoryMoves
<1>1. PICK items : items = [Current.items EXCEPT
                              ![n] = IF @ = Undefined THEN NewNamespace ELSE Undefined]
  OBVIOUS
<1>2. Current.items \in Items
  BY VisibleTypes DEF IInv, Config
<1>3. items \in Items
  BY <1>1, <1>2, NewTypes DEF Items
<1>4. ServerInv'
  BY <1>1, <1>3, SaveKeeps DEF OtherAdminSaves
<1>5. RequestsInv'
  BY DEF OtherAdminSaves, IInv, RequestsInv
<1> QED
  BY <1>4, <1>5, QuietUI DEF OtherAdminSaves, IInv

-----------------------------------------------------------------------------
(***************************************************************************)
(* The theorems.                                                           *)
(***************************************************************************)

\* The page with nothing loaded yet.
LEMMA InitialStoreInv ==
  StoreInv(InitialStore, [version |-> 0, items |-> NoItems])
<1> DEFINE s == InitialStore
           l == [version |-> 0, items |-> NoItems]
<1>1. 0 \in 0..MaxSaves
  BY UIAssumption
<1>2. l \in Config
  BY <1>1, NewTypes DEF Config
<1>3. s.namespaces = Loaded(l)
  BY DEF InitialStore, INITIAL_HISTORY, Loaded
<1>4. Loaded(l) \in History /\ StartsAt(Loaded(l), l) /\ Explained(Loaded(l))
  <2> HIDE DEF l
  <2>1. l.items \in Items /\ l.version \in 0..MaxSaves
    BY <1>2 DEF Config
  <2>2. Loaded(l) \in History
    BY <2>1 DEF Loaded, History
  <2> QED
    BY <1>2, <2>2, LoadStarts
<1>5. s \in Store
  <2>1. INITIAL_STATS \in
          [show : BOOLEAN, inRequest : BOOLEAN, error : BOOLEAN,
           items : [Searches -> Namespaces \cup {Undefined}]]
    BY DEF INITIAL_STATS
  <2>2. INITIAL_CONFIGS \in [items : Seq(Config) \cup {Undefined},
                             inRequest : BOOLEAN, error : BOOLEAN]
    BY DEF INITIAL_CONFIGS
  <2>3. INITIAL_HISTORY \in History
    BY <1>3, <1>4 DEF InitialStore
  <2> QED
    BY <1>1, <2>1, <2>2, <2>3 DEF InitialStore, Store
<1>6. s.confirm = Null /\ s.configs.items = Undefined
  BY DEF InitialStore, INITIAL_CONFIGS
<1> HIDE DEF s, l
<1>7. ConfirmFreshIn(s) /\ ListsAgreeIn(s, l)
  BY <1>6 DEF ConfirmFreshIn, ListsAgreeIn
<1> QED
  BY <1>2, <1>3, <1>4, <1>5, <1>7 DEF StoreInv, s, l

LEMMA InitKeeps ==
  ASSUME Init
  PROVE  IInv
<1>1. StoreInv(store, loaded) /\ ~NeedsRefetch(store.configs)
  BY InitialStoreInv, AnnouncedStore DEF Init
<1>2. mounted = TRUE /\ Renders(store)
  <2>1. fetchConfigs(InitialStore).selectedNamespace = InitialStore.selectedNamespace
    <3>1. configsRequest.type = "CONFIGS_REQUEST"
      BY DEF configsRequest
    <3> QED
      BY <3>1, UntouchedParts DEF fetchConfigs
  <2>2. InitialStore.selectedNamespace = Null
    BY DEF InitialStore
  <2> QED
    BY <2>1, <2>2 DEF Init, Renders
<1>3. TimersInv
  BY DEF Init, TimersInv
<1>4. RequestsInv
  BY RequestKinds DEF Init, RequestsInv
<1>5. ServerInv
  <2>1. PICK a \in SavedBefore : archive = a /\ seen = Len(a)
    BY DEF Init
  <2>2. /\ a \in Seq([version : 1..MaxSaves, items : Items])
        /\ \A i \in DOMAIN a : a[i].version = Len(a) + 1 - i
    BY UIAssumption
  <2>3. [version : 1..MaxSaves, items : Items] \subseteq Config
    BY UIAssumption DEF Config
  <2>4. a \in Seq(Config) /\ Len(a) \in Nat
    <3>1. Len(a) \in Nat /\ a \in [1..Len(a) -> [version : 1..MaxSaves, items : Items]]
      <4>1. PICK R : R = [version : 1..MaxSaves, items : Items]
        OBVIOUS
      <4>2. a \in Seq(R)
        BY <2>2, <4>1
      <4>3. Len(a) \in Nat /\ a \in [1..Len(a) -> R]
        BY ONLY <4>2
      <4> QED
        BY <4>1, <4>3
    <3>2. a \in [1..Len(a) -> Config]
      BY <2>3, <3>1
    <3> QED
      BY <3>1, <3>2, FunctionIsSeq
  <2>5. \A i \in DOMAIN a : a[i].version <= Len(a) + 1 - i
    <3> SUFFICES ASSUME NEW i \in DOMAIN a PROVE a[i].version <= Len(a) + 1 - i
      OBVIOUS
    <3>1. i \in Nat /\ a[i].version = Len(a) + 1 - i
      BY <2>2, <2>4
    <3> QED
      BY <2>4, <3>1
  <2> QED
    BY <2>1, <2>4, <2>5 DEF ServerInv
<1> QED
  BY <1>1, <1>2, <1>3, <1>4, <1>5 DEF IInv, UIInv, NoRefetchLoop

LEMMA NextKeeps ==
  ASSUME IInv, Next
  PROVE  IInv' /\ HistoryMoves
<1>1. CASE UserStep
  BY <1>1, UserStepKeeps
<1>2. CASE Timer
  BY <1>2, TimerStep
<1>3. ASSUME NEW i \in Slots, Receive(i)
      PROVE  IInv' /\ HistoryMoves
  BY <1>3, ConfigsStep, ConfigsFailStep, CommittedStep, CommitFailStep, StatsStep
     DEF Receive
<1>4. ASSUME NEW i \in Slots, ReceiveCapabilities(i)
      PROVE  IInv' /\ HistoryMoves
  BY <1>4, CapabilitiesStep
<1>5. ASSUME NEW i \in Slots, Serve(i)
      PROVE  IInv' /\ HistoryMoves
  BY <1>5, ServeStep
<1>6. CASE ReadBack
  BY <1>6, ReadBackStep
<1>7. ASSUME NEW n \in Namespaces, OtherAdminSaves(n)
      PROVE  IInv' /\ HistoryMoves
  BY <1>7, OtherAdminStep
<1> QED
  BY <1>1, <1>2, <1>3, <1>4, <1>5, <1>6, <1>7 DEF Next

LEMMA StutterKeeps ==
  ASSUME IInv, UNCHANGED vars
  PROVE  IInv'
<1>1. UNCHANGED uiVars /\ UNCHANGED serverVars /\ requests' = requests
  BY DEF vars, uiVars, serverVars
<1>2. RequestsInv'
  BY <1>1 DEF IInv, RequestsInv
<1> QED
  BY <1>1, <1>2, QuietUI, QuietServer DEF IInv

LEMMA Inductive == Spec => []IInv
<1>1. Init => IInv
  BY InitKeeps
<1>2. IInv /\ [Next]_vars => IInv'
  BY NextKeeps, StutterKeeps
<1> QED
  BY <1>1, <1>2, PTL DEF Spec

\* The store, the requests in flight and the server's archive keep their types
\* through every order of handlers, answers and timers: no reducer edits a
\* namespace or a bucket that is not there.
THEOREM TypeCorrect == Spec => []TypeOK
BY Inductive, InvImplies, PTL

\* A confirmation does what the screen shows (confirm.jsx withdraws it upon
\* any other action), however many edits, answers and timers come in between.
THEOREM ConfirmationsFresh == Spec => []ConfirmFresh
BY Inductive, InvImplies, PTL

\* The three reducers that share an answer agree: a save names the version of
\* the newest listed configuration and what is edited came from the list.
THEOREM ListsAlwaysAgree == Spec => []ListsAgree
BY Inductive, InvImplies, PTL

\* Every change in the history is the one edit that leads from the state before
\* it to the state after it, also where history.jsx has merged edits, provided
\* that changes to different buckets have different keys: only then does
\* changesMergeable tell objects apart by the key.
THEOREM ChangesAreTrue ==
  ASSUME KeysApart
  PROVE  Spec => []HistoryExplained
<1>1. IInv => HistoryExplained
  BY ExplainedTimeline, PartsOfStore DEF IInv, UIInv, StoreInv
<1> QED
  BY <1>1, Inductive, PTL

\* Undoing everything gives back what was loaded, with its version.
THEOREM UndoReachesLoaded == Spec => []HistoryStartsAtLoaded
BY Inductive, InvImplies, PTL

\* componentWillReceiveProps never finds a reason to fetch that a fetch does
\* not end.
THEOREM NeverRefetchesForever == Spec => []NoRefetchLoop
BY Inductive, InvImplies, PTL

-----------------------------------------------------------------------------
(***************************************************************************)
(* The refinement.                                                         *)
(***************************************************************************)

\* The page opens at the start of an empty timeline.
LEMMA InitRefines ==
  ASSUME Init
  PROVE  Undoing!Init
<1>1. store.namespaces = INITIAL_HISTORY
  <2>1. configsRequest.type = "CONFIGS_REQUEST" /\ "CONFIGS_REQUEST" \notin MutableActions
    BY DEF configsRequest, MutableActions
  <2>2. fetchConfigs(InitialStore).namespaces = InitialStore.namespaces
    BY <2>1, UntouchedParts DEF fetchConfigs
  <2> QED
    BY <2>2 DEF Init, InitialStore
<1>2. store.namespaces.past = <<>> /\ store.namespaces.future = <<>>
  BY <1>1 DEF INITIAL_HISTORY
<1>3. store.namespaces \in History
  BY InitKeeps, PartsOfStore DEF IInv, UIInv, StoreInv
<1>4. Len(<<>>) = 0
  OBVIOUS
<1>5. Len(Timeline) = 1
  <2>1. Len(Timeline) = 0 + 1 + 0
    BY <1>2, <1>3, <1>4, TimelineIsSeq DEF Timeline
  <2> QED
    BY <2>1
<1> QED
  BY <1>2, <1>4, <1>5 DEF Undoing!Init

\* Every step of the UI is an edit, a load, an undo, a redo or no step of the
\* timeline.
LEMMA StepRefines ==
  ASSUME HistoryMoves
  PROVE  [Undoing!Next]_(Undoing!vars)
<1> DEFINE h == store.namespaces
<1>1. PICK g : g = store.namespaces'
  OBVIOUS
<1>2. Timeline = TimelineOf(h) /\ Timeline' = TimelineOf(g)
  BY <1>1 DEF Timeline, TimelineOf
<1>3. At(h) = Len(store.namespaces.past) + 1 /\ At(g) = (Len(store.namespaces.past) + 1)'
  BY <1>1 DEF At
<1>4. TimelineStep(h, g)
  BY <1>1 DEF HistoryMoves
<1>5. CASE g = h
  BY <1>1, <1>2, <1>3, <1>5 DEF Undoing!vars
<1>6. CASE PutsAfter(h, g, At(h))
  BY <1>2, <1>3, <1>6 DEF PutsAfter, Undoing!Next, Undoing!Edit, Undoing!PutAfter
<1>7. CASE At(h) > 1 /\ PutsAfter(h, g, At(h) - 1)
  BY <1>2, <1>3, <1>7 DEF PutsAfter, Undoing!Next, Undoing!ContinueEdit,
                          Undoing!PutAfter
<1>8. CASE PutsAfter(h, g, 0)
  BY <1>2, <1>3, <1>8 DEF PutsAfter, Undoing!Next, Undoing!Load, Undoing!PutAfter
<1>9. CASE /\ At(h) > 1 /\ At(g) = At(h) - 1
           /\ TimelineOf(g) = TimelineOf(h)
  BY <1>2, <1>3, <1>9 DEF Undoing!Next, Undoing!Undo
<1>10. CASE /\ At(h) < Len(TimelineOf(h)) /\ At(g) = At(h) + 1
            /\ TimelineOf(g) = TimelineOf(h)
  BY <1>2, <1>3, <1>10 DEF Undoing!Next, Undoing!Redo
<1> QED
  BY <1>4, <1>5, <1>6, <1>7, <1>8, <1>9, <1>10 DEF TimelineStep

\* history.jsx, with the handlers, answers and timers that drive it, is an undo
\* timeline: undo and redo never change a state, and edits, merged or not, lose
\* only what was undone.
THEOREM RefinesUndoTimeline == Spec => ImplementsUndoTimeline
<1>1. Init => Undoing!Init
  BY InitRefines
<1>2. IInv /\ [Next]_vars => [Undoing!Next]_(Undoing!vars)
  <2>1. CASE IInv /\ Next
    BY <2>1, NextKeeps, StepRefines
  <2>2. CASE IInv /\ UNCHANGED vars
    <3>1. HistoryMoves
      BY <2>2, QuietUI DEF vars, uiVars
    <3> QED
      BY <3>1, StepRefines
  <2> QED
    BY <2>1, <2>2
<1> QED
  BY <1>1, <1>2, Inductive, PTL DEF Spec, ImplementsUndoTimeline, Undoing!Spec

=============================================================================
