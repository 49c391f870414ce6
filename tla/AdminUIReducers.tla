--------------------------- MODULE AdminUIReducers ---------------------------
(***************************************************************************)
(* What the reducers of the admin UI keep of its invariants, for every set *)
(* of names and fields, and every bound.                                   *)
(***************************************************************************)
EXTENDS AdminUIProofs

-----------------------------------------------------------------------------
(***************************************************************************)
(* What the reducers make of an action, by its type.                       *)
(***************************************************************************)

\* The parts of the store that only some actions touch.
LEMMA UntouchedParts ==
  ASSUME NEW s, NEW a
  PROVE  LET t == rootReducer(s, a)
         IN /\ a.type \notin MutableActions \cup {"UNDO", "REDO", "LOAD_CONFIG",
                                                  "CONFIGS_FETCH_SUCCESS"}
                 => t.namespaces = s.namespaces
            /\ a.type \notin {"ADD_NAMESPACE", "SELECT_NAMESPACE", "REMOVE_NAMESPACE"}
                 => t.selectedNamespace = s.selectedNamespace
            /\ a.type # "CONFIGS_FETCH_SUCCESS"
                 => t.currentVersion = s.currentVersion
            /\ a.type \notin {"STATS_TOGGLE", "SELECT_NAMESPACE", "CONFIGS_REQUEST",
                              "STATS_REQUEST", "STATS_FAILURE", "STATS_FETCH_SUCCESS"}
                 => t.stats = s.stats
            /\ a.type \notin {"CONFIGS_FAILURE", "CONFIGS_REQUEST",
                              "CONFIGS_FETCH_SUCCESS", "CONFIGS_COMMIT_SUCCESS"}
                 => t.configs = s.configs
            /\ a.type # "CONFIRM" => t.confirm = Null
            /\ a.type \notin {"CAPABILITIES_REQUEST", "CAPABILITIES_FETCH_SUCCESS"}
                 => t.capabilities = s.capabilities
<1> DEFINE t == rootReducer(s, a)
<1>1. a.type \notin MutableActions \cup {"UNDO", "REDO", "LOAD_CONFIG",
                                         "CONFIGS_FETCH_SUCCESS"}
        => t.namespaces = s.namespaces
  <2>1. t.namespaces = historyReducer(s.namespaces, a)
    BY DEF rootReducer
  <2> QED
    BY <2>1 DEF historyReducer, reduce, LoadedConfig
<1>2. a.type \notin {"ADD_NAMESPACE", "SELECT_NAMESPACE", "REMOVE_NAMESPACE"}
        => t.selectedNamespace = s.selectedNamespace
  BY DEF rootReducer, selectedNamespaceReducer
<1>3. a.type # "CONFIGS_FETCH_SUCCESS" => t.currentVersion = s.currentVersion
  BY DEF rootReducer, currentVersionReducer
<1>4. a.type \notin {"STATS_TOGGLE", "SELECT_NAMESPACE", "CONFIGS_REQUEST",
                     "STATS_REQUEST", "STATS_FAILURE", "STATS_FETCH_SUCCESS"}
        => t.stats = s.stats
  BY DEF rootReducer, statsReducer
<1>5. a.type \notin {"CONFIGS_FAILURE", "CONFIGS_REQUEST",
                     "CONFIGS_FETCH_SUCCESS", "CONFIGS_COMMIT_SUCCESS"}
        => t.configs = s.configs
  BY DEF rootReducer, configsReducer
<1>6. a.type # "CONFIRM" => t.confirm = Null
  BY DEF rootReducer, confirmReducer
<1>7. a.type \notin {"CAPABILITIES_REQUEST", "CAPABILITIES_FETCH_SUCCESS"}
        => t.capabilities = s.capabilities
  BY DEF rootReducer, capabilitiesReducer
<1> HIDE DEF t
<1>8. t = rootReducer(s, a)
  BY DEF t
<1> QED
  BY <1>1, <1>2, <1>3, <1>4, <1>5, <1>6, <1>7, <1>8

\* A store is what its parts are.
LEMMA StoreOfParts ==
  ASSUME NEW s, NEW a
  PROVE  LET t == rootReducer(s, a)
         IN ( /\ t.namespaces \in History
              /\ t.selectedNamespace \in
                   [namespace : Namespaces, canMakeChanges : BOOLEAN] \cup {Null}
              /\ t.currentVersion \in 0..MaxSaves
              /\ t.stats \in [show : BOOLEAN, inRequest : BOOLEAN, error : BOOLEAN,
                              items : [Searches -> Namespaces \cup {Undefined}]]
              /\ t.configs \in [items : Seq(Config) \cup {Undefined},
                                inRequest : BOOLEAN, error : BOOLEAN]
              /\ t.confirm \in Confirmable \cup {Null}
              /\ t.capabilities \in [inRequest : BOOLEAN] )
            => t \in Store
BY DEF rootReducer, Store

-----------------------------------------------------------------------------
(***************************************************************************)
(* The invariants, as they concern a store s and the configuration l that  *)
(* was loaded last.                                                        *)
(***************************************************************************)

ConfirmFreshIn(s) ==
  LET c == s.confirm
      items == s.namespaces.items
  IN c # Null =>
       /\ c.type = "CALL_API" => /\ c.namespaces = items
                                 /\ c.version = s.currentVersion
       /\ c.type = "REMOVE_NAMESPACE" => items[c.namespace] # Undefined
       /\ c.type = "REMOVE_BUCKET" => HasBucket(items, c.namespace, c.bucket)

ListsAgreeIn(s, l) ==
  LET listed == s.configs.items
  IN listed \notin {Undefined, <<>>} =>
       /\ s.currentVersion = listed[1].version
       /\ \E i \in DOMAIN listed : l = listed[i]

StartsAt(h, l) ==
  /\ TimelineOf(h)[1] = l.items
  /\ h.version = l.version
  /\ \A i \in DOMAIN h.past : h.past[i].version = l.version
  /\ \A i \in DOMAIN h.future : h.future[i].version = l.version

StoreInv(s, l) ==
  /\ s \in Store
  /\ l \in Config
  /\ ConfirmFreshIn(s)
  /\ ListsAgreeIn(s, l)
  /\ StartsAt(s.namespaces, l)
  /\ KeysApart => Explained(s.namespaces)

\* What UndoTimeline allows a history to become.
At(h) == Len(h.past) + 1

PutsAfter(h, g, i) ==
  /\ Len(TimelineOf(g)) = i + 1
  /\ \A j \in 1..i : TimelineOf(g)[j] = TimelineOf(h)[j]
  /\ At(g) = i + 1

TimelineStep(h, g) ==
  \/ g = h
  \/ PutsAfter(h, g, At(h))
  \/ At(h) > 1 /\ PutsAfter(h, g, At(h) - 1)
  \/ PutsAfter(h, g, 0)
  \/ /\ At(h) > 1 /\ At(g) = At(h) - 1
     /\ TimelineOf(g) = TimelineOf(h)
  \/ /\ At(h) < Len(TimelineOf(h)) /\ At(g) = At(h) + 1
     /\ TimelineOf(g) = TimelineOf(h)

\* The configuration loaded last, once a has been dispatched.
AfterLoad(l, a) == IF LoadedConfig(a) = Undefined THEN l ELSE LoadedConfig(a)

\* What a dispatch must show.
Keeps(s, l, a) ==
  /\ StoreInv(rootReducer(s, a), AfterLoad(l, a))
  /\ TimelineStep(s.namespaces, rootReducer(s, a).namespaces)

\* The types of the parts of a store.
LEMMA PartsOfStore ==
  ASSUME NEW s \in Store
  PROVE  /\ s.namespaces \in History
         /\ s.selectedNamespace \in
              [namespace : Namespaces, canMakeChanges : BOOLEAN] \cup {Null}
         /\ s.currentVersion \in 0..MaxSaves
         /\ s.stats \in [show : BOOLEAN, inRequest : BOOLEAN, error : BOOLEAN,
                         items : [Searches -> Namespaces \cup {Undefined}]]
         /\ s.configs \in [items : Seq(Config) \cup {Undefined},
                           inRequest : BOOLEAN, error : BOOLEAN]
         /\ s.confirm \in Confirmable \cup {Null}
         /\ s.capabilities \in [inRequest : BOOLEAN]
         /\ s.namespaces.items \in Items
BY DEF Store, History

\* An action that neither edits, loads nor asks for a confirmation.
LEMMA QuietAction ==
  ASSUME NEW s, NEW l, StoreInv(s, l), NEW a, LoadedConfig(a) = Undefined,
         rootReducer(s, a) \in Store,
         rootReducer(s, a).namespaces = s.namespaces,
         rootReducer(s, a).currentVersion = s.currentVersion,
         rootReducer(s, a).configs.items \in {s.configs.items, Undefined},
         rootReducer(s, a).confirm = Null
  PROVE  Keeps(s, l, a)
<1> DEFINE t == rootReducer(s, a)
<1> HIDE DEF t
<1>1. /\ t \in Store /\ t.namespaces = s.namespaces
      /\ t.currentVersion = s.currentVersion
      /\ t.configs.items \in {s.configs.items, Undefined} /\ t.confirm = Null
  BY DEF t
<1>2. AfterLoad(l, a) = l
  BY DEF AfterLoad
<1>3. /\ ConfirmFreshIn(t) /\ ListsAgreeIn(t, l) /\ StartsAt(t.namespaces, l)
      /\ KeysApart => Explained(t.namespaces)
  BY <1>1 DEF StoreInv, ConfirmFreshIn, ListsAgreeIn
<1> QED
  BY <1>1, <1>2, <1>3 DEF Keeps, StoreInv, TimelineStep, t

\* The statistics stay typed, whatever is dispatched.
LEMMA StatsTypes ==
  ASSUME NEW state \in [show : BOOLEAN, inRequest : BOOLEAN, error : BOOLEAN,
                        items : [Searches -> Namespaces \cup {Undefined}]],
         NEW a,
         a.type \in {"STATS_REQUEST", "STATS_FAILURE", "STATS_FETCH_SUCCESS"} =>
           \/ a.error = TRUE
           \/ a.error = FALSE /\ a.type = "STATS_REQUEST"
           \/ /\ a.error = FALSE /\ a.type = "STATS_FETCH_SUCCESS"
              /\ a.namespace \in Namespaces /\ a.bucket \in Searches
  PROVE  statsReducer(state, a) \in
           [show : BOOLEAN, inRequest : BOOLEAN, error : BOOLEAN,
            items : [Searches -> Namespaces \cup {Undefined}]]
<1> DEFINE Stats == [show : BOOLEAN, inRequest : BOOLEAN, error : BOOLEAN,
                     items : [Searches -> Namespaces \cup {Undefined}]]
           r == statsReducer(state, a)
<1>1. CASE a.type = "STATS_TOGGLE"
  <2>1. r = [state EXCEPT !.show = ~state.show]
    BY <1>1 DEF statsReducer
  <2>2. (~state.show) \in BOOLEAN
    OBVIOUS
  <2> QED
    BY <2>1, <2>2
<1>2. CASE a.type \in {"SELECT_NAMESPACE", "CONFIGS_REQUEST"}
  <2>1. r = INITIAL_STATS
    BY <1>2 DEF statsReducer
  <2> QED
    BY <2>1 DEF INITIAL_STATS
<1>3. CASE a.type \in {"STATS_REQUEST", "STATS_FAILURE", "STATS_FETCH_SUCCESS"}
  <2>1. r = handleStatsRequest(state, a)
    BY <1>3 DEF statsReducer
  <2>2. CASE a.error = TRUE
    <3>1. r = [state EXCEPT !.inRequest = FALSE, !.error = TRUE]
      BY <2>1, <2>2 DEF handleStatsRequest
    <3> QED
      BY <3>1
  <2>3. CASE a.error = FALSE /\ a.type = "STATS_REQUEST"
    <3>1. r = [state EXCEPT !.inRequest = TRUE, !.error = FALSE]
      BY <2>1, <2>3 DEF handleStatsRequest
    <3> QED
      BY <3>1
  <2>4. CASE /\ a.error = FALSE /\ a.type = "STATS_FETCH_SUCCESS"
             /\ a.namespace \in Namespaces /\ a.bucket \in Searches
    <3>1. r = [state EXCEPT !.inRequest = FALSE, !.items[a.bucket] = a.namespace]
      BY <2>1, <2>4 DEF handleStatsRequest
    <3>2. [state.items EXCEPT ![a.bucket] = a.namespace] \in
            [Searches -> Namespaces \cup {Undefined}]
      BY <2>4
    <3> QED
      BY <3>1, <3>2
  <2> QED
    BY <1>3, <2>2, <2>3, <2>4
<1>4. CASE a.type \notin {"STATS_TOGGLE", "SELECT_NAMESPACE", "CONFIGS_REQUEST",
                          "STATS_REQUEST", "STATS_FAILURE", "STATS_FETCH_SUCCESS"}
  <2>1. r = state
    BY <1>4 DEF statsReducer
  <2> QED
    BY <2>1
<1> QED
  BY <1>1, <1>2, <1>3, <1>4

\* Selecting, cancelling, statistics and capabilities.
LEMMA QuietKeeps ==
  ASSUME NEW s, NEW l, StoreInv(s, l), NEW a,
         \/ a.type \in {"CLEAR_CONFIRM", "STATS_TOGGLE", "CAPABILITIES_REQUEST",
                        "CAPABILITIES_FETCH_SUCCESS"}
         \/ /\ a.type = "SELECT_NAMESPACE"
            /\ a.namespace \in Namespaces \cup {Null}
            /\ a.canMakeChanges \in BOOLEAN
         \/ a.type = "STATS_REQUEST" /\ a.error = FALSE
         \/ a.type = "STATS_FAILURE" /\ a.error = TRUE
         \/ /\ a.type = "STATS_FETCH_SUCCESS" /\ a.error = FALSE
            /\ a.namespace \in Namespaces /\ a.bucket \in Searches
  PROVE  Keeps(s, l, a) /\ rootReducer(s, a).configs = s.configs
<1> DEFINE t == rootReducer(s, a)
<1>1. s \in Store
  BY DEF StoreInv
<1>2. /\ a.type \notin MutableActions \cup {"UNDO", "REDO", "LOAD_CONFIG",
                                            "CONFIGS_FETCH_SUCCESS"}
      /\ a.type \notin {"CONFIGS_FAILURE", "CONFIGS_REQUEST",
                        "CONFIGS_FETCH_SUCCESS", "CONFIGS_COMMIT_SUCCESS", "CONFIRM",
                        "ADD_NAMESPACE", "REMOVE_NAMESPACE"}
  BY DEF MutableActions
<1>3. LoadedConfig(a) = Undefined
  BY <1>2 DEF LoadedConfig
<1>4. /\ t.namespaces = s.namespaces /\ t.currentVersion = s.currentVersion
      /\ t.configs = s.configs /\ t.confirm = Null
  BY <1>2, UntouchedParts
<1>5. t.stats \in [show : BOOLEAN, inRequest : BOOLEAN, error : BOOLEAN,
                   items : [Searches -> Namespaces \cup {Undefined}]]
  <2>1. t.stats = statsReducer(s.stats, a)
    BY DEF rootReducer
  <2>2. s.stats \in [show : BOOLEAN, inRequest : BOOLEAN, error : BOOLEAN,
                     items : [Searches -> Namespaces \cup {Undefined}]]
    BY <1>1, PartsOfStore
  <2>3. a.type \in {"STATS_REQUEST", "STATS_FAILURE", "STATS_FETCH_SUCCESS"} =>
          \/ a.error = TRUE
          \/ a.error = FALSE /\ a.type = "STATS_REQUEST"
          \/ /\ a.error = FALSE /\ a.type = "STATS_FETCH_SUCCESS"
             /\ a.namespace \in Namespaces /\ a.bucket \in Searches
    OBVIOUS
  <2>4. statsReducer(s.stats, a) \in
          [show : BOOLEAN, inRequest : BOOLEAN, error : BOOLEAN,
           items : [Searches -> Namespaces \cup {Undefined}]]
    BY ONLY <2>2, <2>3, StatsTypes
  <2> QED
    BY <2>1, <2>4
<1>6. t.selectedNamespace \in
        [namespace : Namespaces, canMakeChanges : BOOLEAN] \cup {Null}
  <2>1. t.selectedNamespace = selectedNamespaceReducer(s.selectedNamespace, a)
    BY DEF rootReducer
  <2> QED
    BY <1>1, <1>2, <2>1, PartsOfStore DEF selectedNamespaceReducer
<1>7. t.capabilities \in [inRequest : BOOLEAN]
  <2>1. t.capabilities = capabilitiesReducer(s.capabilities, a)
    BY DEF rootReducer
  <2> QED
    BY <1>1, <2>1, PartsOfStore DEF capabilitiesReducer
<1>8. t \in Store
  <2> HIDE DEF t
  <2>1. t.namespaces \in History /\ t.currentVersion \in 0..MaxSaves
    BY <1>1, <1>4, PartsOfStore
  <2>2. /\ t.configs \in [items : Seq(Config) \cup {Undefined},
                          inRequest : BOOLEAN, error : BOOLEAN]
        /\ t.confirm \in Confirmable \cup {Null}
    BY <1>1, <1>4, PartsOfStore
  <2> QED
    BY <1>5, <1>6, <1>7, <2>1, <2>2, StoreOfParts DEF t
<1> QED
  BY <1>3, <1>4, <1>8, QuietAction

\* A history keeps its first state and its version when it is undone, ...
LEMMA UndoStarts ==
  ASSUME NEW h \in History, NEW l, StartsAt(h, l)
  PROVE  /\ onUndo(h) \in History
         /\ StartsAt(onUndo(h), l)
         /\ TimelineStep(h, onUndo(h))
<1> DEFINE g == onUndo(h)
<1>1. CASE h.past = <<>>
  <2>1. g = h
    BY <1>1 DEF onUndo
  <2> QED
    BY <2>1 DEF TimelineStep
<1>2. CASE h.past # <<>>
  <2>1. /\ g \in History
        /\ TimelineOf(g) = TimelineOf(h)
        /\ Len(g.past) = Len(h.past) - 1
    BY <1>2, UndoMoves
  <2>2. /\ h.past \in Seq(HistoryEntry) /\ h.future \in Seq(HistoryEntry)
        /\ Len(h.past) \in Nat \ {0}
    BY <1>2 DEF History
  <2> DEFINE last == Head(h.past)
             e == Entry(h, last.change)
  <2>3. /\ g.version = last.version
        /\ g.past = Tail(h.past)
        /\ g.future = Append(h.future, e)
        /\ e.version = h.version
    BY <1>2 DEF onUndo, Entry
  <2>4. last = h.past[1] /\ 1 \in DOMAIN h.past
    BY <2>2
  <2>5. g.version = l.version /\ h.version = l.version
    BY <2>3, <2>4 DEF StartsAt
  <2>6. \A i \in DOMAIN g.past : g.past[i].version = l.version
    <3>1. \A i \in DOMAIN Tail(h.past) :
            i + 1 \in DOMAIN h.past /\ Tail(h.past)[i] = h.past[i + 1]
      BY <2>2
    <3> QED
      BY <2>3, <3>1 DEF StartsAt
  <2>7. \A i \in DOMAIN g.future : g.future[i].version = l.version
    <3> HIDE DEF e
    <3>1. \A i \in DOMAIN Append(h.future, e) :
            \/ i \in DOMAIN h.future /\ Append(h.future, e)[i] = h.future[i]
            \/ Append(h.future, e)[i] = e
      BY <2>2
    <3> QED
      BY <2>3, <2>5, <3>1 DEF StartsAt
  <2>8. StartsAt(g, l)
    BY <2>1, <2>5, <2>6, <2>7 DEF StartsAt
  <2>9. TimelineStep(h, g)
    <3> HIDE DEF g
    <3> QED
      BY <2>1, <2>2 DEF TimelineStep, At
  <2> QED
    BY <2>1, <2>8, <2>9
<1> QED
  BY <1>1, <1>2

\* ... when it is redone, ...
LEMMA RedoStarts ==
  ASSUME NEW h \in History, NEW l, StartsAt(h, l)
  PROVE  /\ onRedo(h) \in History
         /\ StartsAt(onRedo(h), l)
         /\ TimelineStep(h, onRedo(h))
<1> DEFINE g == onRedo(h)
<1>1. CASE h.future = <<>>
  <2>1. g = h
    BY <1>1 DEF onRedo
  <2> QED
    BY <2>1 DEF TimelineStep
<1>2. CASE h.future # <<>>
  <2>1. /\ g \in History
        /\ TimelineOf(g) = TimelineOf(h)
        /\ Len(g.past) = Len(h.past) + 1
    BY <1>2, RedoMoves
  <2>2. /\ h.past \in Seq(HistoryEntry) /\ h.future \in Seq(HistoryEntry)
        /\ Len(h.future) \in Nat \ {0} /\ Len(h.past) \in Nat
    BY <1>2 DEF History
  <2> DEFINE m == Len(h.future)
             next == h.future[m]
             e == Entry(h, next.change)
  <2>3. /\ g.version = next.version
        /\ g.past = <<e>> \o h.past
        /\ g.future = SubSeq(h.future, 1, m - 1)
        /\ e.version = h.version
    BY <1>2 DEF onRedo, Entry
  <2>4. m \in DOMAIN h.future /\ next \in HistoryEntry
    BY <2>2
  <2>5. g.version = l.version /\ h.version = l.version
    BY <2>3, <2>4 DEF StartsAt
  <2>6. \A i \in DOMAIN g.past : g.past[i].version = l.version
    <3>1. e \in HistoryEntry
      BY <2>4 DEF Entry, History, HistoryEntry
    <3> HIDE DEF e
    <3>2. /\ <<e>> \o h.past \in Seq(HistoryEntry)
          /\ Len(<<e>> \o h.past) = Len(h.past) + 1
          /\ (<<e>> \o h.past)[1] = e
          /\ \A i \in 2..(Len(h.past) + 1) : (<<e>> \o h.past)[i] = h.past[i - 1]
      BY <2>2, <3>1, Prepended
    <3>3. \A i \in DOMAIN (<<e>> \o h.past) :
            \/ (<<e>> \o h.past)[i] = e
            \/ i - 1 \in DOMAIN h.past /\ (<<e>> \o h.past)[i] = h.past[i - 1]
      BY <2>2, <3>2
    <3> QED
      BY <2>3, <2>5, <3>3 DEF StartsAt
  <2>7. \A i \in DOMAIN g.future : g.future[i].version = l.version
    <3>1. \A i \in DOMAIN SubSeq(h.future, 1, m - 1) :
            /\ i \in DOMAIN h.future
            /\ SubSeq(h.future, 1, m - 1)[i] = h.future[i]
      BY <2>2
    <3> QED
      BY <2>3, <3>1 DEF StartsAt
  <2>8. StartsAt(g, l)
    BY <2>1, <2>5, <2>6, <2>7 DEF StartsAt
  <2>9. TimelineStep(h, g)
    <3>1. Len(TimelineOf(h)) = Len(h.past) + 1 + Len(h.future)
      BY TimelineIsSeq
    <3>2. Len(h.past) + 1 < Len(TimelineOf(h))
      <4>1. \A x, y \in Nat : y # 0 => x + 1 < x + 1 + y
        OBVIOUS
      <4> QED
        BY <2>2, <3>1, <4>1
    <3>3. Len(g.past) + 1 = (Len(h.past) + 1) + 1
      BY ONLY <2>1, <2>2
    <3> QED
      BY <2>1, <3>2, <3>3 DEF TimelineStep, At
  <2> QED
    BY <2>1, <2>8, <2>9
<1> QED
  BY <1>1, <1>2

\* ... and when it is edited.
LEMMA EditStarts ==
  ASSUME NEW h \in History, NEW l, StartsAt(h, l),
         NEW items \in Items, NEW change \in Change
  PROVE  LET g == [items |-> items, version |-> h.version,
                   past |-> Recorded(h, change), future |-> <<>>]
         IN g \in History /\ StartsAt(g, l) /\ TimelineStep(h, g)
<1> DEFINE p == Recorded(h, change)
           g == [items |-> items, version |-> h.version,
                 past |-> p, future |-> <<>>]
           n == Len(h.past)
           k == n + (IF Merges(h, change) THEN 0 ELSE 1)
<1>1. /\ g \in History
      /\ Len(g.past) = k
      /\ Len(TimelineOf(g)) = k + 1
      /\ \A i \in 1..k : TimelineOf(g)[i] = TimelineOf(h)[i]
  BY EditPuts
<1>2. h.past \in Seq(HistoryEntry) /\ n \in Nat
  BY DEF History
<1>3. k \in Nat /\ k >= 1 /\ (k = n + 1 \/ (k = n /\ n > 0))
  <2>1. Merges(h, change) => n > 0
    BY <1>2 DEF Merges
  <2>2. CASE Merges(h, change)
    BY <1>2, <2>1, <2>2
  <2>3. CASE ~Merges(h, change)
    BY <1>2, <2>3
  <2> QED
    BY <2>2, <2>3
<1>4. TimelineOf(g)[1] = l.items
  <2> HIDE DEF g, k
  <2> QED
    BY <1>1, <1>3 DEF StartsAt
<1>5. \A i \in DOMAIN p : p[i].version = l.version
  <2>1. CASE Merges(h, change)
    <3> DEFINE old == Head(h.past)
               e == Entry(old, change)
               t == Tail(h.past)
    <3>1. /\ n > 0 /\ old = h.past[1] /\ 1 \in DOMAIN h.past
          /\ old \in HistoryEntry /\ t \in Seq(HistoryEntry)
          /\ Len(t) = n - 1 /\ \A i \in 1..(n - 1) : t[i] = h.past[i + 1]
      BY <1>2, <2>1 DEF Merges
    <3>2. e \in HistoryEntry /\ e.version = l.version /\ p = <<e>> \o t
      BY <2>1, <3>1 DEF Entry, HistoryEntry, StartsAt, Recorded
    <3> HIDE DEF e, t, p
    <3>3. \A i \in DOMAIN p : p[i] = e \/ (i - 1 \in 1..(n - 1) /\ p[i] = t[i - 1])
      <4>1. /\ p \in Seq(HistoryEntry) /\ Len(p) = Len(t) + 1 /\ p[1] = e
            /\ \A i \in 2..(Len(t) + 1) : p[i] = t[i - 1]
        BY <3>1, <3>2, Prepended
      <4> QED
        BY <1>2, <3>1, <4>1
    <3>4. \A i \in 1..(n - 1) : t[i].version = l.version
      BY <1>2, <3>1 DEF StartsAt
    <3> QED
      BY <3>2, <3>3, <3>4
  <2>2. CASE ~Merges(h, change)
    <3> DEFINE e == Entry(h, change)
    <3>1. e \in HistoryEntry /\ e.version = l.version /\ p = <<e>> \o h.past
      BY <2>2 DEF Entry, History, HistoryEntry, StartsAt, Recorded
    <3> HIDE DEF e, p
    <3>2. \A i \in DOMAIN p : p[i] = e \/ (i - 1 \in 1..n /\ p[i] = h.past[i - 1])
      <4>1. /\ p \in Seq(HistoryEntry) /\ Len(p) = n + 1 /\ p[1] = e
            /\ \A i \in 2..(n + 1) : p[i] = h.past[i - 1]
        BY <1>2, <3>1, Prepended
      <4> QED
        BY <1>2, <4>1
    <3> QED
      BY <1>2, <3>1, <3>2 DEF StartsAt
  <2> QED
    BY <2>1, <2>2
<1>6. StartsAt(g, l)
  <2>1. /\ g.version = l.version /\ g.past = p
        /\ \A i \in DOMAIN g.future : g.future[i].version = l.version
    BY DEF StartsAt
  <2> HIDE DEF g, p
  <2> QED
    BY <1>4, <1>5, <2>1 DEF StartsAt
<1>7. TimelineStep(h, g)
  <2> HIDE DEF g, k
  <2> QED
    BY <1>1, <1>2, <1>3 DEF TimelineStep, PutsAfter, At
<1> QED
  BY <1>1, <1>6, <1>7

\* A configuration that has been loaded is the start of its own history.
LEMMA LoadStarts ==
  ASSUME NEW h \in History, NEW c \in Config
  PROVE  /\ Loaded(c) \in History /\ StartsAt(Loaded(c), c)
         /\ Explained(Loaded(c)) /\ TimelineStep(h, Loaded(c))
<1> DEFINE g == Loaded(c)
<1>1. g = [items |-> c.items, version |-> c.version, past |-> <<>>, future |-> <<>>]
  BY DEF Loaded
<1>2. g \in History
  BY <1>1 DEF Config, History
<1>3. g.past = <<>> /\ g.future = <<>> /\ g.items = c.items /\ g.version = c.version
  BY <1>1
<1>4. Len(<<>>) = 0 /\ DOMAIN <<>> = {}
  OBVIOUS
<1> HIDE DEF g
<1>5. Len(TimelineOf(g)) = 1 /\ TimelineOf(g)[1] = c.items
  <2>1. Len(TimelineOf(g)) = 0 + 1 + 0
    BY <1>2, <1>3, <1>4, TimelineIsSeq
  <2>2. TimelineOf(g)[1] = c.items
    BY <1>3, <1>4 DEF TimelineOf
  <2> QED
    BY <2>1, <2>2
<1>6. StartsAt(g, c)
  BY <1>3, <1>4, <1>5 DEF StartsAt
<1>7. PutsAfter(h, g, 0)
  BY <1>3, <1>4, <1>5 DEF PutsAfter, At
<1>8. Explained(g)
  BY <1>3, <1>4 DEF Explained
<1> QED
  BY <1>2, <1>6, <1>7, <1>8 DEF TimelineStep, g

-----------------------------------------------------------------------------
(***************************************************************************)
(* What each kind of action keeps.                                         *)
(***************************************************************************)

\* An action that changes the history and possibly the selection: the rest of
\* the store is as it was and the confirmation is withdrawn.
LEMMA HistoryAction ==
  ASSUME NEW s, NEW l, StoreInv(s, l), NEW a,
         a.type \in MutableActions \cup {"UNDO", "REDO", "LOAD_CONFIG"},
         a.type = "ADD_NAMESPACE" => a.namespace \in Namespaces,
         NEW c, c = AfterLoad(l, a), c \in Config,
         ListsAgreeIn(s, c),
         NEW h, h = historyReducer(s.namespaces, a),
         h \in History, StartsAt(h, c), KeysApart => Explained(h),
         TimelineStep(s.namespaces, h)
  PROVE  Keeps(s, l, a) /\ rootReducer(s, a).configs = s.configs
<1> DEFINE t == rootReducer(s, a)
<1>1. s \in Store
  BY DEF StoreInv
<1>2. t.namespaces = h
  BY DEF rootReducer
<1>3. a.type \notin {"CONFIGS_FAILURE", "CONFIGS_REQUEST", "CONFIGS_FETCH_SUCCESS",
                     "CONFIGS_COMMIT_SUCCESS", "CONFIRM", "SELECT_NAMESPACE",
                     "CAPABILITIES_REQUEST", "CAPABILITIES_FETCH_SUCCESS",
                     "STATS_TOGGLE", "STATS_REQUEST", "STATS_FAILURE",
                     "STATS_FETCH_SUCCESS"}
  BY DEF MutableActions
<1>4. /\ t.currentVersion = s.currentVersion /\ t.stats = s.stats
      /\ t.configs = s.configs /\ t.confirm = Null
      /\ t.capabilities = s.capabilities
  BY <1>3, UntouchedParts
<1>5. t.selectedNamespace \in
        [namespace : Namespaces, canMakeChanges : BOOLEAN] \cup {Null}
  <2>1. t.selectedNamespace = selectedNamespaceReducer(s.selectedNamespace, a)
    BY DEF rootReducer
  <2>2. s.selectedNamespace \in
          [namespace : Namespaces, canMakeChanges : BOOLEAN] \cup {Null}
    BY <1>1, PartsOfStore
  <2>3. CASE a.type = "ADD_NAMESPACE"
    BY <2>1, <2>3 DEF selectedNamespaceReducer
  <2>4. CASE a.type # "ADD_NAMESPACE"
    BY <1>3, <2>1, <2>2, <2>4 DEF selectedNamespaceReducer
  <2> QED
    BY <2>3, <2>4
<1>6. t \in Store
  <2> HIDE DEF t
  <2> QED
    BY <1>1, <1>2, <1>4, <1>5, PartsOfStore, StoreOfParts DEF t
<1> HIDE DEF t
<1>7. ConfirmFreshIn(t) /\ ListsAgreeIn(t, c)
  BY <1>4 DEF ConfirmFreshIn, ListsAgreeIn
<1>8. StoreInv(t, c)
  BY <1>2, <1>6, <1>7 DEF StoreInv
<1> QED
  BY <1>2, <1>4, <1>8 DEF Keeps, t

LEMMA UndoRedoKeeps ==
  ASSUME NEW s, NEW l, StoreInv(s, l), NEW a, a.type \in {"UNDO", "REDO"}
  PROVE  Keeps(s, l, a) /\ rootReducer(s, a).configs = s.configs
<1>1. AfterLoad(l, a) = l
  BY DEF AfterLoad, LoadedConfig
<1>2. /\ l \in Config /\ ListsAgreeIn(s, l) /\ StartsAt(s.namespaces, l)
      /\ s.namespaces \in History
  BY PartsOfStore DEF StoreInv
<1>3. historyReducer(s.namespaces, a) \in {onUndo(s.namespaces), onRedo(s.namespaces)}
  BY DEF historyReducer
<1>4. PICK h : h = historyReducer(s.namespaces, a)
  OBVIOUS
<1>5. h \in History /\ StartsAt(h, l) /\ TimelineStep(s.namespaces, h)
  BY <1>2, <1>3, <1>4, UndoStarts, RedoStarts
<1>6. KeysApart => Explained(h)
  BY <1>2, <1>3, <1>4, UndoExplained, RedoExplained DEF StoreInv
<1> QED
  BY <1>1, <1>2, <1>4, <1>5, <1>6, HistoryAction

LEMMA EditKeeps ==
  ASSUME NEW s, NEW l, StoreInv(s, l), NEW a, a \in EditsOf(s.namespaces.items)
  PROVE  Keeps(s, l, a) /\ rootReducer(s, a).configs = s.configs
<1>1. /\ l \in Config /\ ListsAgreeIn(s, l) /\ StartsAt(s.namespaces, l)
      /\ s.namespaces \in History /\ s.namespaces.items \in Items
  BY PartsOfStore DEF StoreInv
<1>2. PICK items, change : /\ items = Edited(s.namespaces.items, a).items
                           /\ change = Edited(s.namespaces.items, a).change
  OBVIOUS
<1>3. a.type \in MutableActions /\ items \in Items /\ change \in Change
  BY <1>1, <1>2, EditTypes
<1>4. a.type \notin {"UNDO", "REDO", "LOAD_CONFIG", "CONFIGS_FETCH_SUCCESS"}
  BY <1>3 DEF MutableActions
<1>5. AfterLoad(l, a) = l
  BY <1>4 DEF AfterLoad, LoadedConfig
<1>6. PICK h : h = historyReducer(s.namespaces, a)
  OBVIOUS
<1>7. h = [items |-> items, version |-> s.namespaces.version,
           past |-> Recorded(s.namespaces, change), future |-> <<>>]
  BY <1>2, <1>3, <1>4, <1>6 DEF historyReducer, reduce
<1>8. h \in History /\ StartsAt(h, l) /\ TimelineStep(s.namespaces, h)
  BY <1>1, <1>3, <1>7, EditStarts
<1>9. a.type = "ADD_NAMESPACE" => a.namespace \in Namespaces
  BY EditKinds DEF addNamespace, updateNamespace, addBucket, updateBucket
<1>10. KeysApart => Explained(h)
  <2> SUFFICES ASSUME KeysApart PROVE Explained(h)
    OBVIOUS
  <2>1. Explained(s.namespaces)
    BY DEF StoreInv
  <2>2. Explains(s.namespaces.items, change, items)
    BY <1>2, EditExplains
  <2> QED
    BY <1>1, <1>3, <1>7, <2>1, <2>2, EditExplained
<1> QED
  BY <1>1, <1>3, <1>5, <1>6, <1>8, <1>9, <1>10, HistoryAction

LEMMA LoadKeeps ==
  ASSUME NEW s, NEW l, StoreInv(s, l), s.configs.items # Undefined,
         NEW i \in DOMAIN s.configs.items,
         NEW a, a = loadConfig(s.configs.items[i])
  PROVE  Keeps(s, l, a) /\ rootReducer(s, a).configs = s.configs
<1>1. PICK c : c = s.configs.items[i]
  OBVIOUS
<1>2. s.configs.items \in Seq(Config) /\ s.namespaces \in History
  BY PartsOfStore DEF StoreInv
<1>3. c \in Config
  BY <1>1, <1>2
<1>4. a.type = "LOAD_CONFIG" /\ a.config = c
  BY <1>1 DEF loadConfig
<1>5. LoadedConfig(a) = c
  BY <1>4 DEF LoadedConfig
<1>6. AfterLoad(l, a) = c
  BY <1>3, <1>5, UndefinedIsNoConfig DEF AfterLoad
<1>7. ListsAgreeIn(s, c)
  BY <1>1 DEF StoreInv, ListsAgreeIn
<1>8. PICK h : h = historyReducer(s.namespaces, a)
  OBVIOUS
<1>9. h = Loaded(c)
  <2>1. a.type \notin MutableActions
    BY <1>4 DEF MutableActions
  <2> QED
    BY <1>3, <1>4, <1>5, <1>8, <2>1, UndefinedIsNoConfig DEF historyReducer, reduce
<1>10. h \in History /\ StartsAt(h, c) /\ Explained(h) /\ TimelineStep(s.namespaces, h)
  BY <1>2, <1>3, <1>9, LoadStarts
<1> QED
  BY <1>3, <1>4, <1>6, <1>7, <1>8, <1>10, HistoryAction

\* A confirmation that fits the store when it is asked for.
LEMMA ConfirmKeeps ==
  ASSUME NEW s, NEW l, StoreInv(s, l),
         NEW x \in Confirmable,
         x.type = "CALL_API" => /\ x.namespaces = s.namespaces.items
                                /\ x.version = s.currentVersion,
         x.type = "REMOVE_NAMESPACE" => s.namespaces.items[x.namespace] # Undefined,
         x.type = "REMOVE_BUCKET" => HasBucket(s.namespaces.items, x.namespace, x.bucket),
         NEW a, a = confirm(x)
  PROVE  Keeps(s, l, a) /\ rootReducer(s, a).configs = s.configs
<1> DEFINE t == rootReducer(s, a)
<1>1. a.type = "CONFIRM" /\ a.action = x
  BY DEF confirm
<1>2. s \in Store /\ "CONFIRM" \notin MutableActions
  BY DEF StoreInv, MutableActions
<1>3. /\ t.namespaces = s.namespaces /\ t.currentVersion = s.currentVersion
      /\ t.selectedNamespace = s.selectedNamespace /\ t.stats = s.stats
      /\ t.configs = s.configs /\ t.capabilities = s.capabilities
  BY <1>1, <1>2, UntouchedParts
<1>4. t.confirm = x
  BY <1>1 DEF rootReducer, confirmReducer
<1>5. t \in Store
  <2> HIDE DEF t
  <2> QED
    BY <1>2, <1>3, <1>4, PartsOfStore, StoreOfParts DEF t
<1>6. AfterLoad(l, a) = l
  BY <1>1 DEF AfterLoad, LoadedConfig
<1> HIDE DEF t
<1>7. /\ ConfirmFreshIn(t) /\ ListsAgreeIn(t, l) /\ StartsAt(t.namespaces, l)
      /\ KeysApart => Explained(t.namespaces)
  BY <1>3, <1>4 DEF StoreInv, ConfirmFreshIn, ListsAgreeIn
<1> QED
  BY <1>3, <1>5, <1>6, <1>7 DEF Keeps, StoreInv, TimelineStep, t

\* A request that is announced or fails, and a save that succeeds.  Only the
\* last leaves something to fetch.
LEMMA ConfigsKeeps ==
  ASSUME NEW s, NEW l, StoreInv(s, l), NEW a,
         \/ a.type = "CONFIGS_REQUEST" /\ a.error \in BOOLEAN
         \/ a.type = "CONFIGS_FAILURE"
         \/ a.type = "CONFIGS_COMMIT_SUCCESS" /\ a.error = FALSE
  PROVE  /\ Keeps(s, l, a)
         /\ a.type # "CONFIGS_COMMIT_SUCCESS" =>
              ~NeedsRefetch(rootReducer(s, a).configs)
<1> DEFINE t == rootReducer(s, a)
           C == [items : Seq(Config) \cup {Undefined},
                 inRequest : BOOLEAN, error : BOOLEAN]
<1>1. s \in Store
  BY DEF StoreInv
<1>2. /\ a.type \notin MutableActions \cup {"UNDO", "REDO", "LOAD_CONFIG",
                                            "CONFIGS_FETCH_SUCCESS"}
      /\ a.type \notin {"CONFIRM", "ADD_NAMESPACE", "SELECT_NAMESPACE",
                        "REMOVE_NAMESPACE", "CAPABILITIES_REQUEST",
                        "CAPABILITIES_FETCH_SUCCESS"}
      /\ a.type \notin {"STATS_REQUEST", "STATS_FAILURE", "STATS_FETCH_SUCCESS"}
  BY DEF MutableActions
<1>3. LoadedConfig(a) = Undefined
  BY <1>2 DEF LoadedConfig
<1>4. /\ t.namespaces = s.namespaces /\ t.currentVersion = s.currentVersion
      /\ t.selectedNamespace = s.selectedNamespace /\ t.confirm = Null
      /\ t.capabilities = s.capabilities
  BY <1>2, UntouchedParts
<1>5. t.stats \in [show : BOOLEAN, inRequest : BOOLEAN, error : BOOLEAN,
                   items : [Searches -> Namespaces \cup {Undefined}]]
  <2>1. t.stats = statsReducer(s.stats, a)
    BY DEF rootReducer
  <2>2. s.stats \in [show : BOOLEAN, inRequest : BOOLEAN, error : BOOLEAN,
                     items : [Searches -> Namespaces \cup {Undefined}]]
    BY <1>1, PartsOfStore
  <2>3. statsReducer(s.stats, a) \in
          [show : BOOLEAN, inRequest : BOOLEAN, error : BOOLEAN,
           items : [Searches -> Namespaces \cup {Undefined}]]
    BY ONLY <1>2, <2>2, StatsTypes
  <2> QED
    BY <2>1, <2>3
<1>6. /\ t.configs \in C
      /\ t.configs.items \in {s.configs.items, Undefined}
      /\ a.type # "CONFIGS_COMMIT_SUCCESS" => ~NeedsRefetch(t.configs)
  <2>1. t.configs = configsReducer(s.configs, a)
    BY DEF rootReducer
  <2>2. s.configs \in C
    BY <1>1, PartsOfStore
  <2>3. CASE a.type = "CONFIGS_REQUEST" /\ a.error = FALSE
    <3>1. t.configs = [s.configs EXCEPT !.inRequest = TRUE, !.error = FALSE]
      BY <2>1, <2>3 DEF configsReducer, handleConfigsRequest
    <3> QED
      BY <2>2, <3>1 DEF NeedsRefetch
  <2>4. CASE a.type = "CONFIGS_FAILURE" \/ (a.type = "CONFIGS_REQUEST" /\ a.error = TRUE)
    <3>1. t.configs = [s.configs EXCEPT !.inRequest = FALSE, !.error = TRUE]
      BY <2>1, <2>4 DEF configsReducer, handleConfigsRequest, handleConfigsFailure
    <3> QED
      BY <2>2, <3>1 DEF NeedsRefetch
  <2>5. CASE a.type = "CONFIGS_COMMIT_SUCCESS" /\ a.error = FALSE
    <3>1. t.configs = INITIAL_CONFIGS
      BY <2>1, <2>5 DEF configsReducer, handleConfigsRequest
    <3> QED
      BY <2>5, <3>1 DEF INITIAL_CONFIGS
  <2> QED
    BY <2>3, <2>4, <2>5
<1>7. t \in Store
  <2> HIDE DEF t
  <2> QED
    BY <1>1, <1>4, <1>5, <1>6, PartsOfStore, StoreOfParts DEF t
<1> QED
  BY <1>3, <1>4, <1>6, <1>7, QuietAction

\* The answer to a GET: its newest configuration is loaded.
LEMMA FetchKeeps ==
  ASSUME NEW s, NEW l, StoreInv(s, l), NEW configs \in Seq(Config), NEW a,
         a = [type |-> "CONFIGS_FETCH_SUCCESS", error |-> FALSE,
              configs |-> configs]
  PROVE  /\ Keeps(s, l, a)
         /\ ~NeedsRefetch(rootReducer(s, a).configs)
<1> DEFINE t == rootReducer(s, a)
<1>1. s \in Store /\ l \in Config /\ s.namespaces \in History
  BY PartsOfStore DEF StoreInv
<1>2. /\ a.type = "CONFIGS_FETCH_SUCCESS" /\ a.error = FALSE /\ a.configs = configs
      /\ a.type \notin MutableActions
  BY DEF MutableActions
<1>3. /\ t.selectedNamespace = s.selectedNamespace /\ t.stats = s.stats
      /\ t.capabilities = s.capabilities /\ t.confirm = Null
  BY <1>2, UntouchedParts
<1>4. /\ t.configs = [items |-> configs, inRequest |-> FALSE, error |-> FALSE]
      /\ ~NeedsRefetch(t.configs)
  <2>1. t.configs = [INITIAL_CONFIGS EXCEPT !.items = configs]
    BY <1>2 DEF rootReducer, configsReducer, handleConfigsRequest
  <2>2. configs # Undefined
    BY UndefinedIsNoConfig
  <2> QED
    BY <2>1, <2>2 DEF INITIAL_CONFIGS, NeedsRefetch
<1>5. /\ t.configs \in [items : Seq(Config) \cup {Undefined},
                        inRequest : BOOLEAN, error : BOOLEAN]
      /\ t.configs.items = configs
  <2>1. [items |-> configs, inRequest |-> FALSE, error |-> FALSE] \in
          [items : Seq(Config) \cup {Undefined}, inRequest : BOOLEAN, error : BOOLEAN]
    OBVIOUS
  <2> HIDE DEF t
  <2> QED
    BY <1>4, <2>1
<1>6. CASE configs = <<>>
  <2>1. LoadedConfig(a) = Undefined
    BY <1>2, <1>6 DEF LoadedConfig
  <2>2. t.namespaces = s.namespaces
    BY <1>2, <2>1 DEF rootReducer, historyReducer, reduce
  <2>3. t.currentVersion = s.currentVersion
    BY <1>2, <1>6 DEF rootReducer, currentVersionReducer
  <2>4. AfterLoad(l, a) = l
    BY <2>1 DEF AfterLoad
  <2>5. t \in Store
    <3> HIDE DEF t
    <3> QED
      BY <1>1, <1>3, <1>5, <2>2, <2>3, PartsOfStore, StoreOfParts DEF t
  <2> HIDE DEF t
  <2>6. /\ ConfirmFreshIn(t) /\ ListsAgreeIn(t, l) /\ StartsAt(t.namespaces, l)
        /\ KeysApart => Explained(t.namespaces)
    BY <1>3, <1>5, <1>6, <2>2 DEF StoreInv, ConfirmFreshIn, ListsAgreeIn
  <2> QED
    BY <1>1, <1>4, <2>2, <2>4, <2>5, <2>6 DEF Keeps, StoreInv, TimelineStep, t
<1>7. CASE configs # <<>>
  <2>1. PICK c : c = configs[1]
    OBVIOUS
  <2>2. /\ c \in Config /\ c # Undefined /\ 1 \in DOMAIN configs
        /\ c.version \in 0..MaxSaves
    <3>1. c \in Config /\ 1 \in DOMAIN configs
      BY <1>7, <2>1
    <3> QED
      BY <3>1, UndefinedIsNoConfig DEF Config
  <2>3. LoadedConfig(a) = c
    BY <1>2, <1>7, <2>1 DEF LoadedConfig
  <2>4. t.namespaces = Loaded(c)
    BY <1>2, <2>2, <2>3 DEF rootReducer, historyReducer, reduce
  <2>5. t.currentVersion = c.version
    BY <1>2, <1>7, <2>1 DEF rootReducer, currentVersionReducer
  <2>6. AfterLoad(l, a) = c
    BY <2>2, <2>3 DEF AfterLoad
  <2>7. /\ t.namespaces \in History /\ StartsAt(t.namespaces, c)
        /\ Explained(t.namespaces)
        /\ TimelineStep(s.namespaces, t.namespaces)
    BY <1>1, <2>2, <2>4, LoadStarts
  <2>8. t \in Store
    <3> HIDE DEF t
    <3> QED
      BY <1>1, <1>3, <1>5, <2>2, <2>5, <2>7, PartsOfStore, StoreOfParts DEF t
  <2> HIDE DEF t
  <2>9. ConfirmFreshIn(t) /\ ListsAgreeIn(t, c)
    BY <1>3, <1>5, <2>1, <2>2, <2>5 DEF ConfirmFreshIn, ListsAgreeIn
  <2> QED
    BY <1>4, <2>2, <2>6, <2>7, <2>8, <2>9 DEF Keeps, StoreInv, t
<1> QED
  BY <1>6, <1>7

=============================================================================
