---------------------- MODULE BucketContainerInvariance ----------------------
(***************************************************************************)
(* The inductive invariant of the bucket container and its reaper, and the *)
(* theorems that follow from it.  The lemmas of BucketContainerProofs say  *)
(* what an operation makes of the container; here they are applied to the  *)
(* steps of the callers, the reaper and the server.                        *)
(***************************************************************************)
EXTENDS BucketContainerProofs

\* A slot holds a bucket that the reaper is to watch.
IsWatched(nss, bk, n, name) ==
  LET b == At(nss, n, name)
  IN  b # None /\ bk[b] # Dead /\ bk[b].dyn /\ bk[b].cfg.reapable

(***************************************************************************)
(* What a caller relies on between the steps of FindBucket.  A caller that *)
(* hands over a watcher has the lock of the namespace, so its slot stays   *)
(* empty and there is still room; the bucket it will put there is in no    *)
(* place yet, and no other caller's.                                       *)
(***************************************************************************)
Creating(nss, db, lk, pcs, cl, fd, c) ==
  /\ lk[cl[c][1]] = c
  /\ At(nss, cl[c][1], cl[c][2]) = None
  /\ ~TooManyBuckets(nss[cl[c][1]])
  /\ fd[c] \in Buckets
  /\ ~Placed(nss, db, fd[c])
  /\ \A d \in Callers \ {c} : pcs[d] = "watch" => fd[d] # fd[c]

CallersInv(nss, db, lk, pcs, cl, fd) ==
  \A c \in Callers :
    /\ pcs[c] # "idle" => cl[c] \in Keys
    /\ pcs[c] = "report" => fd[c] \in Buckets
    /\ pcs[c] \in {"lock", "watch"} =>
         nss[cl[c][1]] # None /\ nss[cl[c][1]].cfg.template # None
    /\ pcs[c] = "watch" => Creating(nss, db, lk, pcs, cl, fd, c)

\* Where the reaper is, and what it is working on.
ReaperInv(nss, rp, td, cr, hd) ==
  /\ rp \in {"select", "returned"} => td = {}
  /\ rp \in {"lookup", "remove"} => cr \in Keys /\ cr \notin td
  /\ rp = "remove" <=> hd # None
  /\ hd = Attached => nss[cr[1]] # None

(***************************************************************************)
(* The namespace object that an update took out of the container while the *)
(* reaper was holding it: its buckets are not in use again, and a bucket   *)
(* made since under the name being removed has its watcher on the way.     *)
(***************************************************************************)
HeldInv(nss, db, bk, pcs, fd, nw, cr, hd) ==
  hd \notin {None, Attached} =>
    /\ \A s \in Slots : hd.buckets[s] # None =>
         /\ ~Placed(nss, db, hd.buckets[s])
         /\ \A c \in Callers : pcs[c] = "watch" => fd[c] # hd.buckets[s]
    /\ IsWatched(nss, bk, cr[1], cr[2]) => \E i \in DOMAIN nw : nw[i].key = cr

\* The reaper will have bucket b under key once it has read the channel.
Known(nw, ws, key, b) ==
  \/ \E i \in DOMAIN nw :
       /\ nw[i].key = key /\ nw[i].b = b
       /\ \A j \in DOMAIN nw : j > i => nw[j].key # key
  \/ /\ \A j \in DOMAIN nw : nw[j].key # key
     /\ key \in DOMAIN ws /\ ws[key].b = b

KnownInv(nss, bk, rp, nw, ws) ==
  rp # "returned" =>
    \A n \in Namespaces, name \in Names :
      IsWatched(nss, bk, n, name) => Known(nw, ws, <<n, name>>, At(nss, n, name))

CallerTypes ==
  /\ nsLock \in [Namespaces -> Callers \cup {None}]
  /\ pc \in [Callers -> {"idle", "report", "lock", "watch"}]
  /\ call \in [Callers -> Keys \cup {None}]
  /\ found \in [Callers -> Buckets \cup {None}]

ReaperTypes ==
  /\ newWatchers \in Seq([key : Keys, b : Buckets])
  /\ Len(newWatchers) <= WatcherBuffer
  /\ stopped \in BOOLEAN
  /\ DOMAIN watchers \subseteq Keys
  /\ \A k \in DOMAIN watchers : watchers[k] \in Watcher
  /\ reaper \in {"select", "scan", "lookup", "remove", "returned"}
  /\ todo \subseteq DOMAIN watchers
  /\ cur \in Keys \cup {None}
  /\ held \in NamespaceObject \cup {None, Attached}
  /\ updates \in 0..MaxUpdates

IInv ==
  /\ ContainerInv(namespaces, defaultBucket, bucket, cfgs)
  /\ CallerTypes
  /\ ReaperTypes
  /\ CallersInv(namespaces, defaultBucket, nsLock, pc, call, found)
  /\ ReaperInv(namespaces, reaper, todo, cur, held)
  /\ HeldInv(namespaces, defaultBucket, bucket, pc, found, newWatchers, cur, held)
  /\ KnownInv(namespaces, bucket, reaper, newWatchers, watchers)

-----------------------------------------------------------------------------
(***************************************************************************)
(* What the invariant says of the state.                                   *)
(***************************************************************************)

\* A watcher that is known is the one that WatcherKnown looks for.
LEMMA KnownIsLast ==
  ASSUME IInv
  PROVE  WatcherKnown
<1> SUFFICES ASSUME NEW n \in Namespaces, NEW name \in Names, NEW sent, NEW b,
                    b = Lookup(n, name), b # None, Watched(b), reaper # "returned",
                    sent = {i \in DOMAIN newWatchers : newWatchers[i].key = <<n, name>>}
             PROVE  IF sent # {}
                    THEN newWatchers[CHOOSE i \in sent : \A j \in sent : j <= i].b = b
                    ELSE <<n, name>> \in DOMAIN watchers /\ watchers[<<n, name>>].b = b
  BY DEF WatcherKnown
<1>1. At(namespaces, n, name) = b /\ IsWatched(namespaces, bucket, n, name)
  BY DEF Lookup, At, IsWatched, Watched
<1>2. Known(newWatchers, watchers, <<n, name>>, b)
  BY <1>1 DEF IInv, KnownInv
<1>3. DOMAIN newWatchers \subseteq Int
  BY DEF IInv, ReaperTypes
<1>4. CASE \E i \in DOMAIN newWatchers :
             /\ newWatchers[i].key = <<n, name>> /\ newWatchers[i].b = b
             /\ \A j \in DOMAIN newWatchers : j > i => newWatchers[j].key # <<n, name>>
  <2>1. PICK i \in DOMAIN newWatchers :
          /\ newWatchers[i].key = <<n, name>> /\ newWatchers[i].b = b
          /\ \A j \in DOMAIN newWatchers : j > i => newWatchers[j].key # <<n, name>>
    BY <1>4
  <2>2. i \in sent /\ \A j \in sent : j <= i
    BY <1>3, <2>1
  <2>3. sent \subseteq Int
    BY <1>3
  <2>4. PICK l : l = CHOOSE k \in sent : \A j \in sent : j <= k
    OBVIOUS
  <2>5. l \in sent /\ \A j \in sent : j <= l
    BY <2>2, <2>4
  <2>6. l = i
    BY <2>2, <2>3, <2>5
  <2> QED
    BY <2>1, <2>2, <2>4, <2>6
<1>5. CASE /\ \A j \in DOMAIN newWatchers : newWatchers[j].key # <<n, name>>
           /\ <<n, name>> \in DOMAIN watchers /\ watchers[<<n, name>>].b = b
  BY <1>5
<1> QED
  BY <1>2, <1>4, <1>5 DEF Known

LEMMA InvTypes ==
  ASSUME IInv
  PROVE  TypeOK
BY DEF IInv, ContainerInv, ContainerTypes, CallerTypes, ReaperTypes, TypeOK

LEMMA InitInv ==
  ASSUME Init
  PROVE  IInv
<1>1. \A n \in Namespaces, s \in Slots : At(namespaces, n, s) = None
  BY DEF Init, At
<1>2. \A b \in Buckets : ~Placed(namespaces, defaultBucket, b)
  BY <1>1, ContainerAssumption DEF Placed, Init
<1>3. ContainerTypes(namespaces, defaultBucket, bucket, cfgs)
  BY DEF Init, ContainerTypes
<1>4. Distinct(namespaces, defaultBucket)
  BY <1>1 DEF Distinct
<1>5. LivePlaced(namespaces, defaultBucket, bucket)
  BY <1>2 DEF LivePlaced, Init
<1>6. /\ Counted(namespaces, bucket) /\ BucketsConfigured(namespaces, bucket)
      /\ ConfigLoaded(namespaces, defaultBucket, bucket, cfgs)
  BY DEF Counted, BucketsConfigured, ConfigLoaded, Init
<1>7. CallerTypes /\ CallersInv(namespaces, defaultBucket, nsLock, pc, call, found)
  BY DEF CallerTypes, CallersInv, Init
<1>8. ReaperTypes
  <2>1. /\ newWatchers \in Seq([key : Keys, b : Buckets])
        /\ Len(newWatchers) <= WatcherBuffer
    BY ContainerAssumption DEF Init
  <2>2. DOMAIN watchers = {}
    BY DEF Init
  <2>3. updates \in 0..MaxUpdates
    BY ContainerAssumption DEF Init
  <2> QED
    BY <2>1, <2>2, <2>3 DEF ReaperTypes, Init
<1>9. ReaperInv(namespaces, reaper, todo, cur, held)
  BY ContainerAssumption DEF ReaperInv, Init
<1>10. HeldInv(namespaces, defaultBucket, bucket, pc, found, newWatchers, cur, held)
  BY DEF HeldInv, Init
<1>11. KnownInv(namespaces, bucket, reaper, newWatchers, watchers)
  BY <1>1, ContainerAssumption DEF KnownInv, IsWatched, Slots
<1> QED
  BY <1>3, <1>4, <1>5, <1>6, <1>7, <1>8, <1>9, <1>10, <1>11 DEF IInv, ContainerInv

-----------------------------------------------------------------------------
(***************************************************************************)
(* What the parts of the invariant need of a step.                         *)
(***************************************************************************)

\* A bucket that is free is in no place, and nobody holds it.
LEMMA FreeBuckets ==
  ASSUME IInv, NEW b \in Free
  PROVE  /\ b \in Buckets
         /\ ~Placed(namespaces, defaultBucket, b)
         /\ \A c \in Callers : found[c] # b
         /\ held \notin {None, Attached} => \A s \in Slots : held.buckets[s] # b
<1>1. b \in Buckets /\ b \notin Referenced /\ b # None
  BY ContainerAssumption DEF Free
<1>2. /\ \A n \in Namespaces : b \notin BucketsOf(namespaces[n])
      /\ held \notin {None, Attached} => b \notin BucketsOf(held)
      /\ b # defaultBucket
      /\ b \notin Range(found)
  BY <1>1 DEF Referenced
<1>3. /\ namespaces \in [Namespaces -> NamespaceObject \cup {None}]
      /\ found \in [Callers -> Buckets \cup {None}]
      /\ held \in NamespaceObject \cup {None, Attached}
  BY DEF IInv, ContainerInv, ContainerTypes, CallerTypes, ReaperTypes
<1>4. \A ns \in NamespaceObject, s \in Slots : b \notin BucketsOf(ns) => ns.buckets[s] # b
  <2>1. \A ns \in NamespaceObject : ns # None /\ DOMAIN ns.buckets = Slots
    BY ConfigAssumption DEF NamespaceObject
  <2> QED
    BY <1>1, <2>1 DEF BucketsOf, Range
<1>5. \A n \in Namespaces, s \in Slots : At(namespaces, n, s) # b
  BY <1>1, <1>2, <1>3, <1>4 DEF At
<1>6. ~Placed(namespaces, defaultBucket, b)
  BY <1>2, <1>5 DEF Placed
<1>7. \A c \in Callers : found[c] # b
  BY <1>2, <1>3 DEF Range
<1>8. held \notin {None, Attached} => \A s \in Slots : held.buckets[s] # b
  BY <1>2, <1>3, <1>4
<1> QED
  BY <1>1, <1>6, <1>7, <1>8

LEMMA PlacedAfterReplace ==
  ASSUME NEW nss, NEW nss2, NEW db, NEW n \in Namespaces, NEW name \in Slots, NEW b,
         Replaced(nss, nss2, n, name, b), NEW x, Placed(nss2, db, x)
  PROVE  Placed(nss, db, x) \/ x = b
<1>1. \A m \in Namespaces, s \in Slots : At(nss2, m, s) = x => At(nss, m, s) = x \/ x = b
  BY DEF Replaced
<1> QED
  BY <1>1 DEF Placed

\* FindBucket returns, giving up its namespace's lock if it has it.
LEMMA ReturnKeepsCallers ==
  ASSUME NEW nss, NEW db, NEW lk, NEW pcs, NEW cl, NEW fd,
         pcs \in [Callers -> {"idle", "report", "lock", "watch"}],
         cl \in [Callers -> Keys \cup {None}],
         fd \in [Callers -> Buckets \cup {None}],
         CallersInv(nss, db, lk, pcs, cl, fd),
         NEW c \in Callers, NEW lk2,
         \A d \in Callers \ {c} : pcs[d] = "watch" => lk2[cl[d][1]] = lk[cl[d][1]]
  PROVE  CallersInv(nss, db, lk2, [pcs EXCEPT ![c] = "idle"],
                    [cl EXCEPT ![c] = None], [fd EXCEPT ![c] = None])
<1>1. PICK pcs2, cl2, fd2 : /\ pcs2 = [pcs EXCEPT ![c] = "idle"]
                            /\ cl2 = [cl EXCEPT ![c] = None]
                            /\ fd2 = [fd EXCEPT ![c] = None]
  OBVIOUS
<1>2. /\ pcs2[c] = "idle"
      /\ \A d \in Callers \ {c} : pcs2[d] = pcs[d] /\ cl2[d] = cl[d] /\ fd2[d] = fd[d]
  BY <1>1
<1>3. ASSUME NEW d \in Callers
      PROVE  /\ pcs2[d] # "idle" => cl2[d] \in Keys
             /\ pcs2[d] = "report" => fd2[d] \in Buckets
             /\ pcs2[d] \in {"lock", "watch"} =>
                  nss[cl2[d][1]] # None /\ nss[cl2[d][1]].cfg.template # None
             /\ pcs2[d] = "watch" => Creating(nss, db, lk2, pcs2, cl2, fd2, d)
  <2>1. CASE d = c
    BY <1>2, <2>1
  <2>2. CASE d # c
    <3>1. pcs2[d] = pcs[d] /\ cl2[d] = cl[d] /\ fd2[d] = fd[d]
      BY <1>2, <2>2
    <3>2. ASSUME pcs[d] = "watch" PROVE Creating(nss, db, lk2, pcs2, cl2, fd2, d)
      <4>1. Creating(nss, db, lk, pcs, cl, fd, d)
        BY <3>2 DEF CallersInv
      <4>2. lk2[cl[d][1]] = lk[cl[d][1]]
        BY <2>2, <3>2
      <4>3. \A e \in Callers \ {d} : pcs2[e] = "watch" => fd2[e] # fd2[d]
        BY <1>2, <3>1, <4>1 DEF Creating
      <4> QED
        BY <3>1, <4>1, <4>2, <4>3 DEF Creating
    <3> QED
      BY <3>1, <3>2 DEF CallersInv
  <2> QED
    BY <2>1, <2>2
<1>4. CallersInv(nss, db, lk2, pcs2, cl2, fd2)
  BY <1>3 DEF CallersInv
<1> QED
  BY <1>1, <1>4

\* A slot is filled or emptied in a namespace where nobody is creating.
LEMMA ReplaceKeepsCallers ==
  ASSUME NEW nss, NEW db, NEW lk, NEW pcs, NEW cl, NEW fd,
         CallersInv(nss, db, lk, pcs, cl, fd),
         NEW nss2, NEW n \in Namespaces, NEW name \in Slots, NEW b,
         Replaced(nss, nss2, n, name, b), nss[n] # None,
         \A c \in Callers : pcs[c] = "watch" => cl[c][1] # n /\ fd[c] # b
  PROVE  CallersInv(nss2, db, lk, pcs, cl, fd)
<1>1. \A m \in Namespaces : /\ nss2[m] # None <=> nss[m] # None
                            /\ nss[m] # None => nss2[m].cfg = nss[m].cfg
  BY DEF Replaced
<1> SUFFICES ASSUME NEW c \in Callers
             PROVE  /\ pcs[c] # "idle" => cl[c] \in Keys
                    /\ pcs[c] = "report" => fd[c] \in Buckets
                    /\ pcs[c] \in {"lock", "watch"} =>
                         nss2[cl[c][1]] # None /\ nss2[cl[c][1]].cfg.template # None
                    /\ pcs[c] = "watch" => Creating(nss2, db, lk, pcs, cl, fd, c)
  BY DEF CallersInv
<1>2. pcs[c] # "idle" => cl[c] \in Keys /\ cl[c][1] \in Namespaces /\ cl[c][2] \in Slots
  BY DEF CallersInv, Keys, Slots
<1>3. ASSUME pcs[c] = "watch" PROVE Creating(nss2, db, lk, pcs, cl, fd, c)
  <2>1. Creating(nss, db, lk, pcs, cl, fd, c)
    BY <1>3 DEF CallersInv
  <2>2. cl[c][1] \in Namespaces \ {n} /\ cl[c][2] \in Slots
    BY <1>2, <1>3
  <2>3. nss2[cl[c][1]] = nss[cl[c][1]] /\
        At(nss2, cl[c][1], cl[c][2]) = At(nss, cl[c][1], cl[c][2])
    BY <2>2 DEF Replaced
  <2>4. ~Placed(nss2, db, fd[c])
    BY <1>3, <2>1, PlacedAfterReplace DEF Creating
  <2> QED
    BY <2>1, <2>3, <2>4 DEF Creating
<1> QED
  BY <1>1, <1>2, <1>3 DEF CallersInv

LEMMA ReplaceKeepsReaper ==
  ASSUME NEW nss, NEW rp, NEW td, NEW cr, NEW hd,
         rp \in {"select", "scan", "lookup", "remove", "returned"},
         ReaperInv(nss, rp, td, cr, hd),
         NEW nss2, NEW n \in Namespaces, NEW name, NEW b, Replaced(nss, nss2, n, name, b)
  PROVE  ReaperInv(nss2, rp, td, cr, hd)
<1>1. \A m \in Namespaces : nss[m] # None => nss2[m] # None
  BY DEF Replaced
<1>2. hd = Attached => cr[1] \in Namespaces /\ nss[cr[1]] # None
  BY ContainerAssumption DEF ReaperInv, Keys
<1> QED
  BY <1>1, <1>2 DEF ReaperInv

\* No slot has come to hold a bucket that the reaper is to watch.
NoNewWatched(nss, bk, nss2, bk2) ==
  \A n \in Namespaces, name \in Names :
    IsWatched(nss2, bk2, n, name) =>
      IsWatched(nss, bk, n, name) /\ At(nss2, n, name) = At(nss, n, name)

LEMMA NoNewKeepsKnown ==
  ASSUME NEW nss, NEW bk, NEW nss2, NEW bk2, NoNewWatched(nss, bk, nss2, bk2),
         NEW rp, NEW nw, NEW ws, KnownInv(nss, bk, rp, nw, ws)
  PROVE  KnownInv(nss2, bk2, rp, nw, ws)
BY DEF KnownInv, NoNewWatched

LEMMA HeldKeeps ==
  ASSUME NEW nss, NEW db, NEW bk, NEW pcs, NEW fd, NEW nw, NEW cr, NEW hd,
         HeldInv(nss, db, bk, pcs, fd, nw, cr, hd), cr \in Keys \/ hd = None,
         NEW nss2, NEW db2, NEW bk2, NEW pcs2, NEW fd2,
         NoNewWatched(nss, bk, nss2, bk2),
         hd \notin {None, Attached} => \A s \in Slots : hd.buckets[s] # None =>
           /\ Placed(nss2, db2, hd.buckets[s]) => Placed(nss, db, hd.buckets[s])
           /\ \A c \in Callers : pcs2[c] = "watch" =>
                (pcs[c] = "watch" /\ fd2[c] = fd[c]) \/ fd2[c] # hd.buckets[s]
  PROVE  HeldInv(nss2, db2, bk2, pcs2, fd2, nw, cr, hd)
<1> SUFFICES ASSUME hd \notin {None, Attached}
             PROVE  /\ \A s \in Slots : hd.buckets[s] # None =>
                         /\ ~Placed(nss2, db2, hd.buckets[s])
                         /\ \A c \in Callers : pcs2[c] = "watch" => fd2[c] # hd.buckets[s]
                    /\ IsWatched(nss2, bk2, cr[1], cr[2]) =>
                         \E i \in DOMAIN nw : nw[i].key = cr
  BY DEF HeldInv
<1>1. cr[1] \in Namespaces /\ cr[2] \in Names
  BY DEF Keys
<1>2. IsWatched(nss2, bk2, cr[1], cr[2]) => IsWatched(nss, bk, cr[1], cr[2])
  BY <1>1 DEF NoNewWatched
<1> QED
  BY <1>2 DEF HeldInv

LEMMA TouchNoNew ==
  ASSUME NEW nss \in [Namespaces -> NamespaceObject \cup {None}], NEW bk, NEW bk2,
         SameButActivity(bk, bk2)
  PROVE  NoNewWatched(nss, bk, nss, bk2)
<1> SUFFICES ASSUME NEW n \in Namespaces, NEW name \in Names, IsWatched(nss, bk2, n, name)
             PROVE  IsWatched(nss, bk, n, name)
  BY DEF NoNewWatched
<1>1. At(nss, n, name) \in Buckets
  BY InSlots DEF IsWatched, Slots
<1> QED
  BY <1>1 DEF IsWatched, SameButActivity

LEMMA ReplaceNoNew ==
  ASSUME NEW nss \in [Namespaces -> NamespaceObject \cup {None}], NEW bk, NEW nss2, NEW bk2,
         NEW n \in Namespaces, NEW name \in Slots, NEW b, NEW old,
         Replaced(nss, nss2, n, name, b), b # None => ~bk2[b].dyn,
         \A x \in Buckets \ {old} : bk2[x] = bk[x], old # None => bk2[old] = Dead \/ ~bk2[old].dyn
  PROVE  NoNewWatched(nss, bk, nss2, bk2)
<1> SUFFICES ASSUME NEW m \in Namespaces, NEW s \in Names, IsWatched(nss2, bk2, m, s)
             PROVE  IsWatched(nss, bk, m, s) /\ At(nss2, m, s) = At(nss, m, s)
  BY DEF NoNewWatched
<1>1. s \in Slots
  BY DEF Slots
<1>2. At(nss2, m, s) # b /\ At(nss2, m, s) # old
  BY DEF IsWatched
<1>3. At(nss2, m, s) = At(nss, m, s)
  BY <1>1, <1>2 DEF Replaced
<1>4. At(nss, m, s) \in Buckets \ {old}
  BY <1>1, <1>2, <1>3, InSlots DEF IsWatched
<1> QED
  BY <1>3, <1>4 DEF IsWatched

-----------------------------------------------------------------------------
(***************************************************************************)
(* The steps of a caller.                                                  *)
(***************************************************************************)

\* What the lemmas below use of the invariant.
LEMMA InvParts ==
  ASSUME IInv
  PROVE  /\ namespaces \in [Namespaces -> NamespaceObject \cup {None}]
         /\ defaultBucket \in Buckets \cup {None}
         /\ bucket \in [Buckets -> BucketObject \cup {Dead}]
         /\ nsLock \in [Namespaces -> Callers \cup {None}]
         /\ pc \in [Callers -> {"idle", "report", "lock", "watch"}]
         /\ call \in [Callers -> Keys \cup {None}]
         /\ found \in [Callers -> Buckets \cup {None}]
         /\ cur \in Keys \/ held = None
BY DEF IInv, ContainerInv, ContainerTypes, CallerTypes, ReaperTypes, ReaperInv

LEMMA ReturnTypes ==
  ASSUME IInv, NEW c \in Callers, Return(c), nsLock' \in [Namespaces -> Callers \cup {None}]
  PROVE  CallerTypes'
BY InvParts DEF Return, CallerTypes

LEMMA StepFindBucket ==
  ASSUME IInv, NEW c \in Callers, NEW n \in Namespaces, NEW name \in Names,
         FindBucket(c, n, name)
  PROVE  IInv'
<1>1. ContainerInv(namespaces, defaultBucket, bucket, cfgs)' /\ ReaperTypes'
  BY DEF IInv, FindBucket, reaperVars, configVars, ReaperTypes
<1>2. ReaperInv(namespaces, reaper, todo, cur, held)'
  BY DEF IInv, FindBucket, reaperVars
<1>3. KnownInv(namespaces, bucket, reaper, newWatchers, watchers)'
  BY DEF IInv, FindBucket, reaperVars
<1>4. Lookup(n, name) = At(namespaces, n, name)
  BY DEF Lookup, At
<1>5. \/ UNCHANGED <<pc, call, found>>
      \/ /\ pc' = [pc EXCEPT ![c] = "report"]
         /\ call' = [call EXCEPT ![c] = <<n, name>>]
         /\ found' = [found EXCEPT ![c] = At(namespaces, n, name)]
         /\ At(namespaces, n, name) \in Buckets
      \/ /\ pc' = [pc EXCEPT ![c] = "lock"]
         /\ call' = [call EXCEPT ![c] = <<n, name>>]
         /\ UNCHANGED found
         /\ namespaces[n] # None /\ namespaces[n].cfg.template # None
  <2>1. At(namespaces, n, name) \in Buckets \cup {None}
    BY InvParts, InSlots DEF Slots
  <2> QED
    BY <1>4, <2>1 DEF FindBucket, Template
<1>6. <<n, name>> \in Keys /\ <<n, name>>[1] = n
  BY DEF Keys
<1>7. CallerTypes'
  BY <1>5, <1>6, InvParts DEF FindBucket, CallerTypes
<1>8. /\ pc'[c] # "watch" \/ UNCHANGED <<pc, call, found>>
      /\ \A d \in Callers \ {c} : pc'[d] = pc[d] /\ call'[d] = call[d] /\ found'[d] = found[d]
  BY <1>5, InvParts
<1>9. CallersInv(namespaces, defaultBucket, nsLock, pc, call, found)'
  <2>0. UNCHANGED <<namespaces, defaultBucket, nsLock>>
    BY DEF FindBucket
  <2>1. CASE UNCHANGED <<pc, call, found>>
    BY <2>0, <2>1 DEF IInv
  <2>2. CASE ~UNCHANGED <<pc, call, found>>
    <3>0. CallersInv(namespaces, defaultBucket, nsLock, pc, call, found)
      BY DEF IInv
    <3> SUFFICES ASSUME NEW d \in Callers
                 PROVE  /\ pc'[d] # "idle" => call'[d] \in Keys
                        /\ pc'[d] = "report" => found'[d] \in Buckets
                        /\ pc'[d] \in {"lock", "watch"} =>
                             /\ namespaces[call'[d][1]] # None
                             /\ namespaces[call'[d][1]].cfg.template # None
                        /\ pc'[d] = "watch" =>
                             Creating(namespaces, defaultBucket, nsLock, pc', call', found', d)
      BY <2>0 DEF CallersInv
    <3>1. CASE d = c
      <4>1. call'[c] = <<n, name>> /\ pc'[c] # "watch"
        BY <1>5, <2>2, InvParts
      <4>2. pc'[c] = "report" => found'[c] \in Buckets
        BY <1>5, <2>2, InvParts
      <4>3. pc'[c] = "lock" => namespaces[n] # None /\ namespaces[n].cfg.template # None
        BY <1>5, <2>2, InvParts
      <4> QED
        BY <1>6, <3>1, <4>1, <4>2, <4>3
    <3>2. CASE d # c
      <4>1. pc'[d] = pc[d] /\ call'[d] = call[d] /\ found'[d] = found[d]
        BY <1>8, <3>2
      <4>2. ASSUME pc[d] = "watch"
            PROVE  Creating(namespaces, defaultBucket, nsLock, pc', call', found', d)
        <5>1. Creating(namespaces, defaultBucket, nsLock, pc, call, found, d)
          BY <3>0, <4>2 DEF CallersInv
        <5>2. \A e \in Callers \ {d} : pc'[e] = "watch" => found'[e] # found'[d]
          BY <1>8, <2>2, <4>1, <5>1 DEF Creating
        <5> QED
          BY <4>1, <5>1, <5>2 DEF Creating
      <4> QED
        BY <3>0, <4>1, <4>2 DEF CallersInv
    <3> QED
      BY <3>1, <3>2
  <2> QED
    BY <2>1, <2>2
<1>10. HeldInv(namespaces, defaultBucket, bucket, pc, found, newWatchers, cur, held)'
  <2>1. NoNewWatched(namespaces, bucket, namespaces, bucket)
    BY DEF NoNewWatched
  <2>2. \A d \in Callers : pc'[d] = "watch" => pc[d] = "watch" /\ found'[d] = found[d]
    BY <1>8
  <2>3. HeldInv(namespaces, defaultBucket, bucket, pc', found', newWatchers, cur, held)
    BY <2>1, <2>2, InvParts, HeldKeeps DEF IInv
  <2> QED
    BY <2>3 DEF FindBucket, reaperVars
<1> QED
  BY <1>1, <1>2, <1>3, <1>7, <1>9, <1>10 DEF IInv

LEMMA ReturnOthers ==
  ASSUME IInv, NEW c \in Callers, Return(c)
  PROVE  /\ pc'[c] = "idle"
         /\ \A d \in Callers : pc'[d] = "watch" =>
              d # c /\ pc[d] = "watch" /\ call'[d] = call[d] /\ found'[d] = found[d]
BY InvParts DEF Return

\* A caller returns, and of the container at most the activity of a bucket
\* has changed.
LEMMA ReturnKeepsInv ==
  ASSUME IInv, NEW c \in Callers, Return(c), SameButActivity(bucket, bucket'),
         UNCHANGED <<namespaces, defaultBucket, nsLock, newWatchers, stopped,
                     reaperVars, configVars>>
  PROVE  IInv'
<1>1. ContainerInv(namespaces, defaultBucket, bucket', cfgs)
  BY TouchKeeps DEF IInv
<1>2. ContainerInv(namespaces, defaultBucket, bucket, cfgs)'
  BY <1>1 DEF configVars
<1>3. CallerTypes'
  BY ReturnTypes, InvParts
<1>4. ReaperTypes' /\ ReaperInv(namespaces, reaper, todo, cur, held)'
  BY DEF IInv, reaperVars, configVars, ReaperTypes
<1>5. CallersInv(namespaces, defaultBucket, nsLock, pc, call, found)'
  <2>1. CallersInv(namespaces, defaultBucket, nsLock, [pc EXCEPT ![c] = "idle"],
                   [call EXCEPT ![c] = None], [found EXCEPT ![c] = None])
    BY InvParts, ReturnKeepsCallers DEF IInv
  <2> QED
    BY <2>1 DEF Return
<1>6. NoNewWatched(namespaces, bucket, namespaces, bucket')
  BY InvParts, TouchNoNew
<1>7. KnownInv(namespaces, bucket, reaper, newWatchers, watchers)'
  <2>1. KnownInv(namespaces, bucket', reaper, newWatchers, watchers)
    BY <1>6, NoNewKeepsKnown DEF IInv
  <2> QED
    BY <2>1 DEF reaperVars
<1>8. HeldInv(namespaces, defaultBucket, bucket, pc, found, newWatchers, cur, held)'
  <2>1. HeldInv(namespaces, defaultBucket, bucket', pc', found', newWatchers, cur, held)
    BY <1>6, InvParts, ReturnOthers, HeldKeeps DEF IInv
  <2> QED
    BY <2>1 DEF reaperVars
<1> QED
  BY <1>2, <1>3, <1>4, <1>5, <1>7, <1>8 DEF IInv

LEMMA SameActivity ==
  ASSUME NEW bk \in [Buckets -> BucketObject \cup {Dead}]
  PROVE  SameButActivity(bk, bk)
BY DEF SameButActivity

LEMMA StepReportActivity ==
  ASSUME IInv, NEW c \in Callers, ReportActivity(c)
  PROVE  IInv'
<1>1. found[c] \in Buckets
  BY DEF IInv, CallersInv, ReportActivity
<1>2. SameButActivity(bucket, bucket')
  <2>1. CASE bucket[found[c]] # Dead
    <3>1. bucket' = [bucket EXCEPT ![found[c]].activity = TRUE]
      BY <2>1 DEF ReportActivity
    <3>2. SameButActivity(bucket, [bucket EXCEPT ![found[c]].activity = TRUE])
      BY <1>1, <2>1, InvParts, TouchTypes
    <3> QED
      BY <3>1, <3>2
  <2>2. CASE bucket[found[c]] = Dead
    BY <2>2, InvParts, SameActivity DEF ReportActivity
  <2> QED
    BY <2>1, <2>2
<1> QED
  BY <1>2, ReturnKeepsInv DEF ReportActivity

\* PutBucket, on the namespace object.
LEMMA PutBucketObject ==
  ASSUME IInv, NEW n \in Namespaces, namespaces[n] # None, NEW name \in Names,
         NEW b, NEW cfg, NEW dyn, PutBucket(n, name, b, cfg, dyn)
  PROVE  namespaces' = [namespaces EXCEPT ![n] = With(namespaces[n], name, b, dyn)]
<1>1. namespaces[n] \in NamespaceObject
  BY InvParts
<1> QED
  BY <1>1, InvParts DEF PutBucket, With, NamespaceObject

\* Where a caller that has come as far as locking a namespace works.
LEMMA CallPlace ==
  ASSUME IInv, NEW c \in Callers, pc[c] \in {"lock", "watch"}
  PROVE  /\ call[c] \in Keys
         /\ call[c] = <<call[c][1], call[c][2]>>
         /\ call[c][1] \in Namespaces /\ call[c][2] \in Names /\ call[c][2] \in Slots
         /\ namespaces[call[c][1]] \in NamespaceObject
         /\ namespaces[call[c][1]] # None
         /\ namespaces[call[c][1]].cfg.template \in BucketConfig
         /\ namespaces[call[c][1]].cfg.static \in [Names -> BucketConfig \cup {None}]
         /\ namespaces[call[c][1]].buckets[call[c][2]] =
              At(namespaces, call[c][1], call[c][2])
<1>1. /\ call[c] \in Keys
      /\ namespaces[call[c][1]] # None
      /\ namespaces[call[c][1]].cfg.template # None
  BY DEF IInv, CallersInv
<1>2. /\ call[c] = <<call[c][1], call[c][2]>>
      /\ call[c][1] \in Namespaces /\ call[c][2] \in Names
  BY <1>1 DEF Keys
<1>3. namespaces[call[c][1]] \in NamespaceObject
  BY <1>1, <1>2, InvParts
<1>4. namespaces[call[c][1]].cfg \in NamespaceConfig
  BY <1>3 DEF NamespaceObject
<1>5. /\ namespaces[call[c][1]].cfg.template \in BucketConfig
      /\ namespaces[call[c][1]].cfg.static \in [Names -> BucketConfig \cup {None}]
  BY <1>1, <1>4 DEF NamespaceConfig
<1> QED
  BY <1>1, <1>2, <1>3, <1>5 DEF At, Slots

\* Nobody is creating a bucket in a namespace that is not locked.
LEMMA UnlockedNamespace ==
  ASSUME IInv, NEW n \in Namespaces, nsLock[n] = None
  PROVE  \A d \in Callers : pc[d] = "watch" => call[d][1] # n
BY ContainerAssumption DEF IInv, CallersInv, Creating

LEMMA StepCreateBucket ==
  ASSUME IInv, NEW c \in Callers, CreateBucket(c)
  PROVE  IInv'
<1> DEFINE n == call[c][1]
           name == call[c][2]
           ns == namespaces[n]
           b == At(namespaces, n, name)
           x == CHOOSE y \in Free : TRUE
<1>1. /\ pc[c] = "lock" /\ nsLock[n] = None
      /\ UNCHANGED <<defaultBucket, newWatchers, stopped, reaperVars, panic, configVars>>
  BY DEF CreateBucket
<1>2. /\ call[c] \in Keys /\ call[c] = <<n, name>>
      /\ n \in Namespaces /\ name \in Names /\ name \in Slots
      /\ ns \in NamespaceObject /\ ns # None
      /\ ns.cfg.template \in BucketConfig
      /\ ns.cfg.static \in [Names -> BucketConfig \cup {None}]
      /\ ns.buckets[name] = b
  BY <1>1, CallPlace
<1>3. \A d \in Callers : pc[d] = "watch" => call[d][1] # n
  BY <1>1, <1>2, UnlockedNamespace
<1>4. Free # {} => /\ x \in Free /\ x \in Buckets
                   /\ ~Placed(namespaces, defaultBucket, x)
                   /\ \A d \in Callers : found[d] # x
                   /\ held \notin {None, Attached} => \A s \in Slots : held.buckets[s] # x
  <2>1. Free # {} => x \in Free
    OBVIOUS
  <2> HIDE DEF x
  <2> QED
    BY <2>1, FreeBuckets
<1> HIDE DEF n, name, ns, b, x
<1>5. CASE /\ b # None
           /\ bucket' = [bucket EXCEPT ![b].activity = Watched(b)]
           /\ Return(c)
           /\ UNCHANGED <<namespaces, nsLock>>
  <2>1. b \in Buckets /\ Placed(namespaces, defaultBucket, b)
    BY <1>2, <1>5, InvParts, InSlots DEF b
  <2>2. bucket[b] # Dead
    BY <2>1 DEF IInv, ContainerInv, LivePlaced
  <2>3. Watched(b) \in BOOLEAN
    BY DEF Watched
  <2>4. SameButActivity(bucket, [bucket EXCEPT ![b].activity = Watched(b)])
    BY <2>1, <2>2, <2>3, InvParts, TouchTypes
  <2>5. SameButActivity(bucket, bucket')
    BY <1>5, <2>4
  <2> QED
    BY <1>1, <1>5, <2>5, ReturnKeepsInv
<1>6. CASE /\ b = None
           /\ ns.cfg.static[name] # None
           /\ Free # {}
           /\ PutBucket(n, name, x, ns.cfg.static[name], FALSE)
           /\ Return(c)
           /\ UNCHANGED nsLock
  <2>1. PICK cfg \in BucketConfig : cfg = ns.cfg.static[name]
    BY <1>2, <1>6
  <2>2. PICK dyn \in BOOLEAN : ~dyn
    OBVIOUS
  <2>3. /\ ContainerInv(namespaces', defaultBucket, bucket', cfgs)
        /\ Replaced(namespaces, namespaces', n, name, x)
        /\ bucket'[x].cfg = cfg /\ ~bucket'[x].dyn
        /\ \A y \in Buckets \ {x} : bucket'[y] = bucket[y]
    <3>1. PutBucket(n, name, x, cfg, dyn)
      BY <1>6, <2>1, <2>2 DEF PutBucket
    <3>2. namespaces' = [namespaces EXCEPT ![n] = With(namespaces[n], name, x, dyn)]
      BY <1>2, <3>1, PutBucketObject DEF ns
    <3>3. bucket' = [bucket EXCEPT ![x] = [cfg |-> cfg, dyn |-> dyn,
                                           activity |-> dyn /\ cfg.reapable]]
      BY <3>1 DEF PutBucket
    <3>4. /\ ContainerInv(namespaces, defaultBucket, bucket, cfgs)
          /\ namespaces[n] # None /\ At(namespaces, n, name) = None
          /\ cfg = namespaces[n].cfg.static[name]
      BY <1>2, <1>6, <2>1 DEF IInv, b, ns
    <3>5. Put(namespaces, defaultBucket, bucket, n, name, x, cfg, dyn,
              namespaces', bucket')
      BY <1>2, <1>4, <1>6, <2>1, <2>2, <3>2, <3>3, <3>4 DEF Put
    <3>6. /\ ContainerInv(namespaces', defaultBucket, bucket', cfgs)
          /\ Replaced(namespaces, namespaces', n, name, x)
          /\ bucket'[x].cfg = cfg /\ bucket'[x].dyn = dyn
          /\ \A y \in Buckets \ {x} : bucket'[y] = bucket[y]
      BY <3>4, <3>5, PutKeeps
    <3> QED
      BY <2>2, <3>6
  <2>4. ContainerInv(namespaces, defaultBucket, bucket, cfgs)'
    BY <1>1, <2>3 DEF configVars
  <2>5. CallerTypes'
    BY <1>6, ReturnTypes, InvParts
  <2>6. ReaperTypes'
    BY <1>1 DEF IInv, reaperVars, configVars, ReaperTypes
  <2>7. ReaperInv(namespaces, reaper, todo, cur, held)'
    <3>1. ReaperInv(namespaces', reaper, todo, cur, held)
      BY <1>2, <2>3, ReplaceKeepsReaper DEF IInv, ReaperTypes
    <3> QED
      BY <1>1, <3>1 DEF reaperVars
  <2>8. CallersInv(namespaces, defaultBucket, nsLock, pc, call, found)'
    <3>1. CallersInv(namespaces, defaultBucket, nsLock, [pc EXCEPT ![c] = "idle"],
                     [call EXCEPT ![c] = None], [found EXCEPT ![c] = None])
      BY InvParts, ReturnKeepsCallers DEF IInv
    <3>2. CallersInv(namespaces, defaultBucket, nsLock, pc', call', found')
      BY <1>6, <3>1 DEF Return
    <3>3. \A d \in Callers : pc'[d] = "watch" => call'[d][1] # n /\ found'[d] # x
      BY <1>3, <1>4, <1>6, ReturnOthers
    <3>4. CallersInv(namespaces', defaultBucket, nsLock, pc', call', found')
      BY <1>2, <2>3, <3>2, <3>3, ReplaceKeepsCallers DEF ns
    <3> QED
      BY <1>1, <1>6, <3>4
  <2>9. NoNewWatched(namespaces, bucket, namespaces', bucket')
    BY <1>2, <2>3, InvParts, ReplaceNoNew
  <2>10. KnownInv(namespaces, bucket, reaper, newWatchers, watchers)'
    <3>1. KnownInv(namespaces', bucket', reaper, newWatchers, watchers)
      BY <2>9, NoNewKeepsKnown DEF IInv
    <3> QED
      BY <1>1, <3>1 DEF reaperVars
  <2>11. HeldInv(namespaces, defaultBucket, bucket, pc, found, newWatchers, cur, held)'
    <3>1. ASSUME held \notin {None, Attached}, NEW s \in Slots, held.buckets[s] # None
          PROVE  Placed(namespaces', defaultBucket, held.buckets[s]) =>
                   Placed(namespaces, defaultBucket, held.buckets[s])
      BY <1>2, <1>4, <1>6, <2>3, <3>1, PlacedAfterReplace
    <3>2. HeldInv(namespaces', defaultBucket, bucket', pc', found', newWatchers, cur, held)
      BY <1>6, <2>9, <3>1, InvParts, ReturnOthers, HeldKeeps DEF IInv
    <3> QED
      BY <1>1, <3>2 DEF reaperVars
  <2> QED
    BY <2>4, <2>5, <2>6, <2>7, <2>8, <2>10, <2>11 DEF IInv
<1>7. CASE Return(c) /\ UNCHANGED <<namespaces, bucket, nsLock>>
  BY <1>1, <1>7, InvParts, SameActivity, ReturnKeepsInv
<1>8. CASE /\ b = None
           /\ ~TooManyBuckets(ns)
           /\ Free # {}
           /\ found' = [found EXCEPT ![c] = x]
           /\ pc' = [pc EXCEPT ![c] = "watch"]
           /\ nsLock' = [nsLock EXCEPT ![n] = c]
           /\ UNCHANGED <<namespaces, bucket, call>>
  <2>1. /\ pc'[c] = "watch" /\ found'[c] = x /\ nsLock'[n] = c
        /\ \A d \in Callers \ {c} : pc'[d] = pc[d] /\ found'[d] = found[d]
        /\ \A m \in Namespaces \ {n} : nsLock'[m] = nsLock[m]
    BY <1>2, <1>8, InvParts
  <2>2. ContainerInv(namespaces, defaultBucket, bucket, cfgs)'
    BY <1>1, <1>8 DEF IInv, configVars
  <2>3. CallerTypes'
    BY <1>2, <1>4, <1>8, InvParts DEF CallerTypes
  <2>4. ReaperTypes' /\ ReaperInv(namespaces, reaper, todo, cur, held)'
    BY <1>1, <1>8 DEF IInv, reaperVars, configVars, ReaperTypes
  <2>5. CallersInv(namespaces, defaultBucket, nsLock, pc, call, found)'
    <3>0. CallersInv(namespaces, defaultBucket, nsLock, pc, call, found)
      BY DEF IInv
    <3> SUFFICES ASSUME NEW d \in Callers
                 PROVE  /\ pc'[d] # "idle" => call[d] \in Keys
                        /\ pc'[d] = "report" => found'[d] \in Buckets
                        /\ pc'[d] \in {"lock", "watch"} =>
                             /\ namespaces[call[d][1]] # None
                             /\ namespaces[call[d][1]].cfg.template # None
                        /\ pc'[d] = "watch" =>
                             Creating(namespaces, defaultBucket, nsLock', pc', call, found', d)
      BY <1>1, <1>8 DEF CallersInv
    <3>1. CASE d = c
      <4>1. \A e \in Callers \ {c} : found'[e] # found'[c]
        BY <1>4, <1>8, <2>1
      <4>2. Creating(namespaces, defaultBucket, nsLock', pc', call, found', c)
        BY <1>2, <1>4, <1>8, <2>1, <4>1 DEF Creating, n, name, b, ns
      <4>3. namespaces[n] # None /\ namespaces[n].cfg.template # None
        BY <1>1, <3>0 DEF CallersInv, n
      <4> QED
        BY <1>2, <2>1, <3>1, <4>2, <4>3 DEF n
    <3>2. CASE d # c
      <4>1. pc'[d] = pc[d] /\ found'[d] = found[d]
        BY <2>1, <3>2
      <4>2. ASSUME pc[d] = "watch"
            PROVE  Creating(namespaces, defaultBucket, nsLock', pc', call, found', d)
        <5>1. Creating(namespaces, defaultBucket, nsLock, pc, call, found, d)
          BY <3>0, <4>2 DEF CallersInv
        <5>2. call[d][1] \in Namespaces \ {n}
          BY <1>3, <3>0, <4>2 DEF CallersInv, Keys
        <5>3. \A e \in Callers \ {d} : pc'[e] = "watch" => found'[e] # found'[d]
          BY <1>4, <1>8, <2>1, <4>1, <5>1 DEF Creating
        <5>4. nsLock'[call[d][1]] = nsLock[call[d][1]]
          BY <2>1, <5>2
        <5> QED
          BY <4>1, <5>1, <5>3, <5>4 DEF Creating
      <4> QED
        BY <3>0, <4>1, <4>2 DEF CallersInv
    <3> QED
      BY <3>1, <3>2
  <2>6. KnownInv(namespaces, bucket, reaper, newWatchers, watchers)'
    BY <1>1, <1>8 DEF IInv, reaperVars
  <2>7. HeldInv(namespaces, defaultBucket, bucket, pc, found, newWatchers, cur, held)'
    <3>1. NoNewWatched(namespaces, bucket, namespaces, bucket)
      BY DEF NoNewWatched
    <3>2. ASSUME held \notin {None, Attached}, NEW s \in Slots, NEW d \in Callers,
                 pc'[d] = "watch"
          PROVE  (pc[d] = "watch" /\ found'[d] = found[d]) \/ found'[d] # held.buckets[s]
      BY <1>4, <1>8, <2>1, <3>2
    <3>3. HeldInv(namespaces, defaultBucket, bucket, pc', found', newWatchers, cur, held)
      BY <3>1, <3>2, InvParts, HeldKeeps DEF IInv
    <3> QED
      BY <1>1, <1>8, <3>3 DEF reaperVars
  <2> QED
    BY <2>2, <2>3, <2>4, <2>5, <2>6, <2>7 DEF IInv
<1> QED
  BY <1>2, <1>5, <1>6, <1>7, <1>8 DEF CreateBucket, n, name, ns, x

\* A watcher on the channel is behind those that were there.
LEMMA AppendKnown ==
  ASSUME NEW nw \in Seq([key : Keys, b : Buckets]), NEW w \in [key : Keys, b : Buckets],
         NEW nw2, nw2 = Append(nw, w), NEW ws
  PROVE  /\ Known(nw2, ws, w.key, w.b)
         /\ \A key, b : key # w.key /\ Known(nw, ws, key, b) => Known(nw2, ws, key, b)
         /\ nw2[Len(nw) + 1] = w /\ Len(nw) + 1 \in DOMAIN nw2
         /\ \A i \in DOMAIN nw : i \in DOMAIN nw2 /\ nw2[i] = nw[i]
<1>1. /\ DOMAIN nw = 1..Len(nw) /\ DOMAIN nw2 = 1..(Len(nw) + 1) /\ Len(nw) \in Nat
      /\ nw2[Len(nw) + 1] = w
      /\ \A i \in 1..Len(nw) : nw2[i] = nw[i]
  OBVIOUS
<1>2. Known(nw2, ws, w.key, w.b)
  BY <1>1 DEF Known
<1>3. ASSUME NEW key, NEW b, key # w.key, Known(nw, ws, key, b)
      PROVE  Known(nw2, ws, key, b)
  <2>1. CASE \E i \in DOMAIN nw : /\ nw[i].key = key /\ nw[i].b = b
                                  /\ \A j \in DOMAIN nw : j > i => nw[j].key # key
    <3>1. PICK i \in DOMAIN nw : /\ nw[i].key = key /\ nw[i].b = b
                                 /\ \A j \in DOMAIN nw : j > i => nw[j].key # key
      BY <2>1
    <3>2. i \in DOMAIN nw2 /\ nw2[i] = nw[i]
      BY <1>1
    <3>3. \A j \in DOMAIN nw2 : j > i => nw2[j].key # key
      BY <1>1, <1>3, <3>1
    <3> QED
      BY <3>1, <3>2, <3>3 DEF Known
  <2>2. CASE /\ \A j \in DOMAIN nw : nw[j].key # key
             /\ key \in DOMAIN ws /\ ws[key].b = b
    <3>1. \A j \in DOMAIN nw2 : nw2[j].key # key
      BY <1>1, <1>3, <2>2
    <3> QED
      BY <2>2, <3>1 DEF Known
  <2> QED
    BY <1>3, <2>1, <2>2 DEF Known
<1> QED
  BY <1>1, <1>2, <1>3

LEMMA StepApplyWatch ==
  ASSUME IInv, NEW c \in Callers, ApplyWatch(c)
  PROVE  IInv'
<1> DEFINE n == call[c][1]
           name == call[c][2]
           ns == namespaces[n]
           cfg == ns.cfg.template
           b == found[c]
           w == [key |-> call[c], b |-> b]
<1>1. /\ pc[c] = "watch"
      /\ \/ ~cfg.reapable /\ UNCHANGED newWatchers
         \/ /\ cfg.reapable /\ Len(newWatchers) < WatcherBuffer
            /\ newWatchers' = Append(newWatchers, w)
      /\ PutBucket(n, name, b, cfg, TRUE)
      /\ nsLock' = [nsLock EXCEPT ![n] = None]
      /\ Return(c)
      /\ UNCHANGED <<defaultBucket, stopped, reaperVars, panic, configVars>>
  BY DEF ApplyWatch
<1>2. /\ call[c] \in Keys /\ call[c] = <<n, name>>
      /\ n \in Namespaces /\ name \in Names /\ name \in Slots
      /\ ns \in NamespaceObject /\ ns # None
      /\ cfg \in BucketConfig
  BY <1>1, CallPlace
<1>3. /\ nsLock[n] = c
      /\ At(namespaces, n, name) = None
      /\ ~TooManyBuckets(ns)
      /\ b \in Buckets
      /\ ~Placed(namespaces, defaultBucket, b)
      /\ \A d \in Callers \ {c} : pc[d] = "watch" => found[d] # b
  BY <1>1 DEF IInv, CallersInv, Creating
<1>4. \A d \in Callers \ {c} : pc[d] = "watch" => call[d][1] # n /\ call[d][1] \in Namespaces
  BY <1>3 DEF IInv, CallersInv, Creating, Keys
<1>5. w \in [key : Keys, b : Buckets]
  BY <1>2, <1>3
<1>5a. w.key = <<n, name>> /\ w.b = b
  BY <1>2
<1>6. newWatchers \in Seq([key : Keys, b : Buckets])
  BY DEF IInv, ReaperTypes
<1> HIDE DEF n, name, ns, cfg, b, w
<1>7. PICK dyn \in BOOLEAN : dyn
  OBVIOUS
<1>8. /\ ContainerInv(namespaces', defaultBucket, bucket', cfgs)
      /\ Replaced(namespaces, namespaces', n, name, b)
      /\ bucket'[b].cfg = cfg /\ bucket'[b].dyn
      /\ \A y \in Buckets \ {b} : bucket'[y] = bucket[y]
  <2>1. PutBucket(n, name, b, cfg, dyn)
    BY <1>1, <1>7 DEF PutBucket
  <2>2. namespaces' = [namespaces EXCEPT ![n] = With(namespaces[n], name, b, dyn)]
    BY <1>2, <2>1, PutBucketObject DEF ns
  <2>3. bucket' = [bucket EXCEPT ![b] = [cfg |-> cfg, dyn |-> dyn,
                                         activity |-> dyn /\ cfg.reapable]]
    BY <2>1 DEF PutBucket
  <2>4. /\ ContainerInv(namespaces, defaultBucket, bucket, cfgs)
        /\ namespaces[n] # None /\ ~TooManyBuckets(namespaces[n])
        /\ cfg = namespaces[n].cfg.template
    BY <1>2, <1>3 DEF IInv, ns, cfg
  <2>5. Put(namespaces, defaultBucket, bucket, n, name, b, cfg, dyn, namespaces', bucket')
    BY <1>2, <1>3, <1>7, <2>2, <2>3, <2>4 DEF Put
  <2>6. /\ ContainerInv(namespaces', defaultBucket, bucket', cfgs)
        /\ Replaced(namespaces, namespaces', n, name, b)
        /\ bucket'[b].cfg = cfg /\ bucket'[b].dyn = dyn
        /\ \A y \in Buckets \ {b} : bucket'[y] = bucket[y]
    BY <2>4, <2>5, PutKeeps
  <2> QED
    BY <1>7, <2>6
<1>9. ContainerInv(namespaces, defaultBucket, bucket, cfgs)'
  BY <1>1, <1>8 DEF configVars
<1>10. CallerTypes'
  <2>1. nsLock' \in [Namespaces -> Callers \cup {None}]
    BY <1>1, InvParts
  <2> QED
    BY <1>1, <2>1, ReturnTypes
<1>11. ReaperTypes'
  <2>1. /\ newWatchers' \in Seq([key : Keys, b : Buckets])
        /\ Len(newWatchers') <= WatcherBuffer
    <3>1. Len(newWatchers) <= WatcherBuffer /\ WatcherBuffer \in Nat
      BY ContainerAssumption DEF IInv, ReaperTypes
    <3> QED
      <4>1. CASE UNCHANGED newWatchers
        BY <1>6, <3>1, <4>1
      <4>2. CASE Len(newWatchers) < WatcherBuffer /\ newWatchers' = Append(newWatchers, w)
        <5>1. /\ newWatchers' \in Seq([key : Keys, b : Buckets])
              /\ Len(newWatchers') = Len(newWatchers) + 1
          BY <1>5, <1>6, <4>2
        <5>2. Len(newWatchers) \in Nat
          BY <1>6
        <5> QED
          BY <3>1, <4>2, <5>1, <5>2
      <4> QED
        BY <1>1, <4>1, <4>2
  <2> QED
    BY <1>1, <2>1 DEF IInv, reaperVars, configVars, ReaperTypes
<1>12. ReaperInv(namespaces, reaper, todo, cur, held)'
  <2>1. ReaperInv(namespaces', reaper, todo, cur, held)
    BY <1>2, <1>8, ReplaceKeepsReaper DEF IInv, ReaperTypes
  <2> QED
    BY <1>1, <2>1 DEF reaperVars
<1>13. CallersInv(namespaces, defaultBucket, nsLock, pc, call, found)'
  <2>1. \A d \in Callers \ {c} : pc[d] = "watch" => nsLock'[call[d][1]] = nsLock[call[d][1]]
    BY <1>1, <1>4, InvParts
  <2>2. CallersInv(namespaces, defaultBucket, nsLock', [pc EXCEPT ![c] = "idle"],
                   [call EXCEPT ![c] = None], [found EXCEPT ![c] = None])
    BY <2>1, InvParts, ReturnKeepsCallers DEF IInv
  <2>3. CallersInv(namespaces, defaultBucket, nsLock', pc', call', found')
    BY <1>1, <2>2 DEF Return
  <2>4. \A d \in Callers : pc'[d] = "watch" => call'[d][1] # n /\ found'[d] # b
    BY <1>1, <1>3, <1>4, ReturnOthers
  <2>5. CallersInv(namespaces', defaultBucket, nsLock', pc', call', found')
    BY <1>2, <1>8, <2>3, <2>4, ReplaceKeepsCallers DEF ns
  <2> QED
    BY <1>1, <2>5
\* Only the new bucket is watched that was not before.
<1>14. ASSUME NEW m \in Namespaces, NEW s \in Names, IsWatched(namespaces', bucket', m, s)
       PROVE  \/ /\ m = n /\ s = name /\ At(namespaces', m, s) = b
                 /\ newWatchers' = Append(newWatchers, w)
              \/ /\ ~(m = n /\ s = name)
                 /\ At(namespaces', m, s) = At(namespaces, m, s)
                 /\ IsWatched(namespaces, bucket, m, s)
  <2>0. s \in Slots
    BY DEF Slots
  <2>1. At(namespaces', m, s) = IF m = n /\ s = name THEN b ELSE At(namespaces, m, s)
    BY <1>8, <2>0 DEF Replaced
  <2>2. CASE m = n /\ s = name
    <3>1. bucket'[b].cfg.reapable
      BY <1>14, <2>1, <2>2 DEF IsWatched
    <3> QED
      BY <1>1, <1>8, <2>1, <2>2, <3>1
  <2>3. CASE ~(m = n /\ s = name)
    <3>1. At(namespaces', m, s) = At(namespaces, m, s) /\ At(namespaces, m, s) # None
      BY <1>14, <2>1, <2>3 DEF IsWatched
    <3>2. At(namespaces, m, s) \in Buckets /\ Placed(namespaces, defaultBucket, At(namespaces, m, s))
      BY <2>0, <3>1, InvParts, InSlots
    <3>3. bucket'[At(namespaces, m, s)] = bucket[At(namespaces, m, s)]
      BY <1>3, <1>8, <3>2
    <3> QED
      BY <1>14, <2>3, <3>1, <3>3 DEF IsWatched
  <2> QED
    BY <2>2, <2>3
<1>15. \A i \in DOMAIN newWatchers : i \in DOMAIN newWatchers' /\ newWatchers'[i] = newWatchers[i]
  BY <1>1, <1>5, <1>6, AppendKnown
<1>16. KnownInv(namespaces, bucket, reaper, newWatchers, watchers)'
  <2>1. ASSUME NEW m \in Namespaces, NEW s \in Names, reaper # "returned",
               IsWatched(namespaces', bucket', m, s)
        PROVE  Known(newWatchers', watchers, <<m, s>>, At(namespaces', m, s))
    <3>1. CASE /\ m = n /\ s = name /\ At(namespaces', m, s) = b
               /\ newWatchers' = Append(newWatchers, w)
      <4>1. Known(newWatchers', watchers, w.key, w.b)
        BY <1>5, <1>6, <3>1, AppendKnown
      <4> QED
        BY <1>5a, <3>1, <4>1
    <3>2. CASE /\ ~(m = n /\ s = name)
               /\ At(namespaces', m, s) = At(namespaces, m, s)
               /\ IsWatched(namespaces, bucket, m, s)
      <4>1. Known(newWatchers, watchers, <<m, s>>, At(namespaces, m, s))
        BY <2>1, <3>2 DEF IInv, KnownInv
      <4>2. <<m, s>> # w.key
        BY <1>5a, <3>2
      <4>3. Known(newWatchers', watchers, <<m, s>>, At(namespaces, m, s))
        <5>1. CASE UNCHANGED newWatchers
          BY <4>1, <5>1
        <5>2. CASE newWatchers' = Append(newWatchers, w)
          BY <1>5, <1>6, <4>1, <4>2, <5>2, AppendKnown
        <5> QED
          BY <1>1, <5>1, <5>2
      <4> QED
        BY <3>2, <4>3
    <3> QED
      BY <1>14, <2>1, <3>1, <3>2
  <2>2. KnownInv(namespaces', bucket', reaper, newWatchers', watchers)
    BY <2>1 DEF KnownInv
  <2> QED
    BY <1>1, <2>2 DEF reaperVars
<1>17. HeldInv(namespaces, defaultBucket, bucket, pc, found, newWatchers, cur, held)'
  <2>1. ASSUME held \notin {None, Attached}, NEW s \in Slots, held.buckets[s] # None
        PROVE  /\ ~Placed(namespaces', defaultBucket, held.buckets[s])
               /\ \A d \in Callers : pc'[d] = "watch" => found'[d] # held.buckets[s]
    <3>1. /\ ~Placed(namespaces, defaultBucket, held.buckets[s])
          /\ \A d \in Callers : pc[d] = "watch" => found[d] # held.buckets[s]
      BY <2>1 DEF IInv, HeldInv
    <3>2. held.buckets[s] # b
      BY <1>1, <3>1 DEF b
    <3>3. ~Placed(namespaces', defaultBucket, held.buckets[s])
      BY <1>2, <1>8, <3>1, <3>2, PlacedAfterReplace
    <3> QED
      BY <1>1, <3>1, <3>3, ReturnOthers
  <2>2. ASSUME held \notin {None, Attached}, IsWatched(namespaces', bucket', cur[1], cur[2])
        PROVE  \E i \in DOMAIN newWatchers' : newWatchers'[i].key = cur
    <3>1. cur[1] \in Namespaces /\ cur[2] \in Names /\ cur = <<cur[1], cur[2]>>
      BY <2>2, InvParts DEF Keys
    <3>2. CASE cur[1] = n /\ cur[2] = name /\ newWatchers' = Append(newWatchers, w)
      <4>1. newWatchers'[Len(newWatchers) + 1] = w /\ Len(newWatchers) + 1 \in DOMAIN newWatchers'
        BY <1>5, <1>6, <3>2, AppendKnown
      <4> QED
        BY <1>5a, <3>1, <3>2, <4>1
    <3>3. CASE IsWatched(namespaces, bucket, cur[1], cur[2])
      <4>1. \E i \in DOMAIN newWatchers : newWatchers[i].key = cur
        BY <2>2, <3>3 DEF IInv, HeldInv
      <4> QED
        BY <1>15, <4>1
    <3> QED
      BY <1>14, <2>2, <3>1, <3>2, <3>3
  <2>3. HeldInv(namespaces', defaultBucket, bucket', pc', found', newWatchers', cur, held)
    BY <2>1, <2>2 DEF HeldInv
  <2> QED
    BY <1>1, <2>3 DEF reaperVars
<1> QED
  BY <1>9, <1>10, <1>11, <1>12, <1>13, <1>16, <1>17 DEF IInv

LEMMA StepApplyWatchStopped ==
  ASSUME IInv, NEW c \in Callers, ApplyWatchStopped(c)
  PROVE  IInv'
BY DEF ApplyWatchStopped, IInv, callerVars, reaperVars, configVars, CallerTypes, ReaperTypes

-----------------------------------------------------------------------------
(***************************************************************************)
(* The steps of the reaper.                                                *)
(***************************************************************************)

\* The reaper reads the channel: what it knew, or was to learn, it still does.
LEMMA ReceiveKnown ==
  ASSUME NEW nw \in Seq([key : Keys, b : Buckets]), nw # <<>>, NEW ws, NEW ws2,
         DOMAIN ws2 = DOMAIN ws \cup {Head(nw).key},
         ws2[Head(nw).key].b = Head(nw).b,
         \A k \in DOMAIN ws : k # Head(nw).key => ws2[k] = ws[k],
         NEW key, NEW b, Known(nw, ws, key, b)
  PROVE  Known(Tail(nw), ws2, key, b)
<1>1. PICK tl : tl = Tail(nw)
  OBVIOUS
<1>2. /\ DOMAIN nw = 1..Len(nw) /\ Len(nw) \in Nat \ {0} /\ Head(nw) = nw[1]
      /\ DOMAIN tl = 1..(Len(nw) - 1)
      /\ \A i \in 1..(Len(nw) - 1) : tl[i] = nw[i + 1]
  BY <1>1
<1>3. CASE \E i \in DOMAIN nw : /\ nw[i].key = key /\ nw[i].b = b
                                /\ \A j \in DOMAIN nw : j > i => nw[j].key # key
  <2>1. PICK i \in DOMAIN nw : /\ nw[i].key = key /\ nw[i].b = b
                               /\ \A j \in DOMAIN nw : j > i => nw[j].key # key
    BY <1>3
  <2>2. CASE i = 1
    <3>1. \A j \in DOMAIN tl : tl[j].key # key
      <4> SUFFICES ASSUME NEW j \in 1..(Len(nw) - 1) PROVE tl[j].key # key
        BY <1>2
      <4>1. j + 1 \in DOMAIN nw /\ j + 1 > i /\ tl[j] = nw[j + 1]
        BY <1>2, <2>2
      <4> QED
        BY <2>1, <4>1
    <3>2. key \in DOMAIN ws2 /\ ws2[key].b = b
      BY <1>2, <2>1, <2>2
    <3> QED
      BY <1>1, <3>1, <3>2 DEF Known
  <2>3. CASE i # 1
    <3>1. i - 1 \in DOMAIN tl /\ tl[i - 1] = nw[i]
      BY <1>2, <2>3
    <3>2. ASSUME NEW j \in DOMAIN tl, j > i - 1 PROVE tl[j].key # key
      <4>1. j + 1 \in DOMAIN nw /\ j + 1 > i /\ tl[j] = nw[j + 1]
        BY <1>2, <3>2
      <4> QED
        BY <2>1, <4>1
    <3> QED
      BY <1>1, <2>1, <3>1, <3>2 DEF Known
  <2> QED
    BY <2>2, <2>3
<1>4. CASE /\ \A j \in DOMAIN nw : nw[j].key # key
           /\ key \in DOMAIN ws /\ ws[key].b = b
  <2>1. \A j \in DOMAIN tl : tl[j].key # key
    <3> SUFFICES ASSUME NEW j \in 1..(Len(nw) - 1) PROVE tl[j].key # key
      BY <1>2
    <3>1. j + 1 \in DOMAIN nw /\ tl[j] = nw[j + 1]
      BY <1>2
    <3> QED
      BY <1>4, <3>1
  <2>2. key # Head(nw).key
    BY <1>2, <1>4
  <2> QED
    BY <1>1, <1>4, <2>1, <2>2 DEF Known
<1> QED
  BY <1>3, <1>4 DEF Known

LEMMA StepReceiveWatcher ==
  ASSUME IInv, ReceiveWatcher
  PROVE  IInv'
<1> DEFINE w == Head(newWatchers)
<1>1. /\ reaper = "select" /\ newWatchers # <<>>
      /\ watchers' = [k \in DOMAIN watchers \cup {w.key} |->
                        IF k = w.key THEN [b |-> w.b, aged |-> FALSE] ELSE watchers[k]]
      /\ newWatchers' = Tail(newWatchers)
      /\ UNCHANGED <<namespaces, defaultBucket, bucket, callerVars, stopped,
                     reaper, todo, cur, held, panic, configVars>>
  BY DEF ReceiveWatcher
<1>2. newWatchers \in Seq([key : Keys, b : Buckets]) /\ Len(newWatchers) <= WatcherBuffer
  BY DEF IInv, ReaperTypes
<1>3. w \in [key : Keys, b : Buckets]
  <2>1. \A S : newWatchers \in Seq(S) /\ newWatchers # <<>> => Head(newWatchers) \in S
    OBVIOUS
  <2> QED
    BY <1>1, <1>2, <2>1
<1>4. w.key \in Keys /\ w.b \in Buckets
  BY <1>3
<1> HIDE DEF w
<1>5. /\ newWatchers' \in Seq([key : Keys, b : Buckets])
      /\ Len(newWatchers') <= WatcherBuffer
  <2>1. Len(newWatchers') = Len(newWatchers) - 1 /\ Len(newWatchers) \in Nat
    BY <1>1, <1>2
  <2>2. WatcherBuffer \in Nat
    BY ContainerAssumption
  <2> QED
    BY <1>1, <1>2, <2>1, <2>2
<1>6. /\ DOMAIN watchers' = DOMAIN watchers \cup {w.key}
      /\ watchers'[w.key] = [b |-> w.b, aged |-> FALSE]
      /\ \A k \in DOMAIN watchers : k # w.key => watchers'[k] = watchers[k]
  BY <1>1
<1>7. ReaperTypes'
  <2>1. DOMAIN watchers \subseteq Keys /\ (\A k \in DOMAIN watchers : watchers[k] \in Watcher)
    BY DEF IInv, ReaperTypes
  <2>2. [b |-> w.b, aged |-> FALSE] \in Watcher
    BY <1>4 DEF Watcher
  <2>3. DOMAIN watchers' \subseteq Keys /\ (\A k \in DOMAIN watchers' : watchers'[k] \in Watcher)
    BY <1>4, <1>6, <2>1, <2>2
  <2>4. todo' \subseteq DOMAIN watchers'
    BY <1>1, <1>6 DEF IInv, ReaperTypes
  <2> QED
    BY <1>1, <1>5, <2>3, <2>4 DEF IInv, ReaperTypes, configVars
<1>8. /\ ContainerInv(namespaces, defaultBucket, bucket, cfgs)'
      /\ CallerTypes'
      /\ CallersInv(namespaces, defaultBucket, nsLock, pc, call, found)'
      /\ ReaperInv(namespaces, reaper, todo, cur, held)'
  BY <1>1 DEF IInv, callerVars, configVars, CallerTypes
<1>9. KnownInv(namespaces, bucket, reaper, newWatchers, watchers)'
  <2>1. watchers'[w.key].b = w.b
    BY <1>6
  <2>2. \A key, b : Known(newWatchers, watchers, key, b) =>
          Known(Tail(newWatchers), watchers', key, b)
    BY <1>1, <1>2, <1>6, <2>1, ReceiveKnown DEF w
  <2>3. KnownInv(namespaces, bucket, reaper, Tail(newWatchers), watchers')
    BY <2>2 DEF IInv, KnownInv
  <2> QED
    BY <1>1, <2>3
<1>10. HeldInv(namespaces, defaultBucket, bucket, pc, found, newWatchers, cur, held)'
  <2>1. held = None
    BY <1>1 DEF IInv, ReaperInv
  <2> QED
    BY <1>1, <2>1 DEF HeldInv
<1> QED
  BY <1>7, <1>8, <1>9, <1>10 DEF IInv

\* Watchers that differ in their age know the same buckets.
LEMMA AgingKnown ==
  ASSUME NEW nss, NEW bk, NEW rp, NEW nw, NEW ws, NEW ws2, KnownInv(nss, bk, rp, nw, ws),
         \A k \in DOMAIN ws : k \in DOMAIN ws2 /\ ws2[k].b = ws[k].b
  PROVE  KnownInv(nss, bk, rp, nw, ws2)
BY DEF KnownInv, Known

LEMMA AgedTypes ==
  ASSUME IInv, NEW k \in DOMAIN watchers, NEW v \in BOOLEAN,
         watchers' = [watchers EXCEPT ![k].aged = v]
  PROVE  /\ DOMAIN watchers' = DOMAIN watchers
         /\ \A j \in DOMAIN watchers :
              watchers'[j] \in Watcher /\ watchers'[j].b = watchers[j].b
<1>1. \A j \in DOMAIN watchers : watchers[j] \in Watcher
  BY DEF IInv, ReaperTypes
<1>2. PICK r : r = [watchers[k] EXCEPT !.aged = v]
  OBVIOUS
<1>3. r \in Watcher /\ r.b = watchers[k].b
  BY <1>1, <1>2 DEF Watcher
<1>4. /\ DOMAIN watchers' = DOMAIN watchers
      /\ watchers'[k] = r
      /\ \A j \in DOMAIN watchers : j # k => watchers'[j] = watchers[j]
  BY <1>2
<1> QED
  BY <1>1, <1>3, <1>4

LEMMA StepAge ==
  ASSUME IInv, NEW k \in DOMAIN watchers, Age(k)
  PROVE  IInv'
<1>1. /\ DOMAIN watchers' = DOMAIN watchers
      /\ \A j \in DOMAIN watchers :
           watchers'[j] \in Watcher /\ watchers'[j].b = watchers[j].b
  BY AgedTypes DEF Age
<1>2. ReaperTypes'
  BY <1>1 DEF IInv, Age, ReaperTypes, configVars
<1>3. KnownInv(namespaces, bucket, reaper, newWatchers, watchers)'
  <2>1. KnownInv(namespaces, bucket, reaper, newWatchers, watchers')
    BY <1>1, AgingKnown DEF IInv
  <2> QED
    BY <2>1 DEF Age
<1> QED
  BY <1>2, <1>3 DEF IInv, Age, callerVars, configVars, CallerTypes

LEMMA StepStartScan ==
  ASSUME IInv, StartScan
  PROVE  IInv'
<1>1. ReaperTypes'
  BY DEF IInv, StartScan, ReaperTypes, configVars
<1>2. ReaperInv(namespaces, reaper, todo, cur, held)'
  BY DEF IInv, StartScan, ReaperInv
<1>3. KnownInv(namespaces, bucket, reaper, newWatchers, watchers)'
  BY DEF IInv, StartScan, KnownInv
<1> QED
  BY <1>1, <1>2, <1>3 DEF IInv, StartScan, callerVars, configVars, CallerTypes

LEMMA StepEndScan ==
  ASSUME IInv, EndScan
  PROVE  IInv'
<1>1. ReaperTypes'
  BY DEF IInv, EndScan, ReaperTypes, configVars
<1>2. ReaperInv(namespaces, reaper, todo, cur, held)'
  BY DEF IInv, EndScan, ReaperInv
<1>3. KnownInv(namespaces, bucket, reaper, newWatchers, watchers)'
  BY DEF IInv, EndScan, KnownInv
<1> QED
  BY <1>1, <1>2, <1>3 DEF IInv, EndScan, callerVars, configVars, CallerTypes

LEMMA StepCheckWatcher ==
  ASSUME IInv, NEW k \in todo, CheckWatcher(k)
  PROVE  IInv'
<1>1. k \in DOMAIN watchers /\ k \in Keys /\ watchers[k].b \in Buckets
  BY DEF IInv, ReaperTypes, Watcher
<1>2. /\ reaper = "scan" /\ todo' = todo \ {k}
      /\ UNCHANGED <<namespaces, defaultBucket, callerVars, newWatchers, stopped,
                     held, panic, configVars>>
  BY DEF CheckWatcher
<1>3. held = None
  BY <1>2 DEF IInv, ReaperInv
<1>4. /\ SameButActivity(bucket, bucket')
      /\ DOMAIN watchers' = DOMAIN watchers
      /\ \A j \in DOMAIN watchers :
           watchers'[j] \in Watcher /\ watchers'[j].b = watchers[j].b
      /\ \/ reaper' = "scan" /\ cur' = cur
         \/ reaper' = "lookup" /\ cur' = k
  <2>0. \A j \in DOMAIN watchers : watchers[j] \in Watcher
    BY DEF IInv, ReaperTypes
  <2>1. CASE /\ bucket' = IF bucket[watchers[k].b] = Dead THEN bucket
                          ELSE [bucket EXCEPT ![watchers[k].b].activity = FALSE]
             /\ watchers' = [watchers EXCEPT ![k].aged = FALSE]
             /\ UNCHANGED <<reaper, cur>>
    <3>1. SameButActivity(bucket, bucket)
      BY InvParts, SameActivity
    <3>2. bucket[watchers[k].b] # Dead =>
            SameButActivity(bucket, [bucket EXCEPT ![watchers[k].b].activity = FALSE])
      BY <1>1, InvParts, TouchTypes
    <3>3. SameButActivity(bucket, bucket')
      BY <2>1, <3>1, <3>2
    <3> QED
      <4>1. /\ DOMAIN watchers' = DOMAIN watchers
            /\ \A j \in DOMAIN watchers :
                 watchers'[j] \in Watcher /\ watchers'[j].b = watchers[j].b
        <5>1. PICK v \in BOOLEAN : v = FALSE
          OBVIOUS
        <5>2. watchers' = [watchers EXCEPT ![k].aged = v]
          BY <2>1, <5>1
        <5> QED
          BY <1>1, <5>2, AgedTypes
      <4>2. reaper' = "scan" /\ cur' = cur
        BY <1>2, <2>1
      <4> QED
        BY <3>3, <4>1, <4>2
  <2>2. CASE UNCHANGED <<bucket, watchers, reaper, cur>>
    <3>1. bucket' = bucket /\ watchers' = watchers /\ reaper' = "scan" /\ cur' = cur
      BY <1>2, <2>2
    <3>2. SameButActivity(bucket, bucket)
      BY InvParts, SameActivity
    <3> QED
      BY <2>0, <3>1, <3>2
  <2>3. CASE reaper' = "lookup" /\ cur' = k /\ UNCHANGED <<bucket, watchers>>
    BY <2>0, <2>3, InvParts, SameActivity
  <2> QED
    BY <2>1, <2>2, <2>3 DEF CheckWatcher
<1>5. ContainerInv(namespaces, defaultBucket, bucket, cfgs)'
  <2>1. ContainerInv(namespaces, defaultBucket, bucket', cfgs)
    BY <1>4, TouchKeeps DEF IInv
  <2> QED
    BY <1>2, <2>1 DEF configVars
<1>6. ReaperTypes'
  BY <1>1, <1>2, <1>4 DEF IInv, ReaperTypes, configVars
<1>7. ReaperInv(namespaces, reaper, todo, cur, held)'
  BY <1>1, <1>2, <1>3, <1>4, ContainerAssumption DEF ReaperInv
<1>8. KnownInv(namespaces, bucket, reaper, newWatchers, watchers)'
  <2>1. NoNewWatched(namespaces, bucket, namespaces, bucket')
    BY <1>4, InvParts, TouchNoNew
  <2>2. KnownInv(namespaces, bucket', reaper, newWatchers, watchers)
    BY <2>1, NoNewKeepsKnown DEF IInv
  <2>3. KnownInv(namespaces, bucket', reaper, newWatchers, watchers')
    BY <1>4, <2>2, AgingKnown
  <2> QED
    BY <1>2, <1>4, <2>3 DEF KnownInv
<1>9. HeldInv(namespaces, defaultBucket, bucket, pc, found, newWatchers, cur, held)'
  BY <1>2, <1>3 DEF HeldInv
<1>10. CallerTypes' /\ CallersInv(namespaces, defaultBucket, nsLock, pc, call, found)'
  BY <1>2 DEF IInv, callerVars, CallerTypes
<1> QED
  BY <1>5, <1>6, <1>7, <1>8, <1>9, <1>10 DEF IInv

LEMMA StepLookupNamespace ==
  ASSUME IInv, LookupNamespace
  PROVE  IInv'
<1>1. ReaperTypes'
  BY DEF IInv, LookupNamespace, ReaperTypes, configVars
<1>2. ReaperInv(namespaces, reaper, todo, cur, held)'
  BY ContainerAssumption DEF IInv, LookupNamespace, ReaperInv
<1>3. KnownInv(namespaces, bucket, reaper, newWatchers, watchers)'
  BY DEF IInv, LookupNamespace, KnownInv
<1>4. HeldInv(namespaces, defaultBucket, bucket, pc, found, newWatchers, cur, held)'
  <2>1. held = None
    BY DEF IInv, ReaperInv, LookupNamespace
  <2>2. held' \in {None, Attached}
    BY <2>1 DEF LookupNamespace
  <2> QED
    BY <2>2 DEF HeldInv
<1> QED
  BY <1>1, <1>2, <1>3, <1>4 DEF IInv, LookupNamespace, callerVars, configVars, CallerTypes

LEMMA StepReaperReturn ==
  ASSUME IInv, ReaperReturn
  PROVE  IInv'
<1>1. ReaperTypes'
  <2>1. DOMAIN watchers' = {} /\ todo' = {}
    BY DEF IInv, ReaperReturn, ReaperInv
  <2> QED
    BY <2>1 DEF IInv, ReaperReturn, ReaperTypes, configVars
<1>2. ReaperInv(namespaces, reaper, todo, cur, held)'
  BY DEF IInv, ReaperReturn, ReaperInv
<1>3. KnownInv(namespaces, bucket, reaper, newWatchers, watchers)'
  BY DEF IInv, ReaperReturn, KnownInv
<1> QED
  BY <1>1, <1>2, <1>3 DEF IInv, ReaperReturn, callerVars, configVars, CallerTypes

LEMMA StepStop ==
  ASSUME IInv, Stop
  PROVE  IInv'
BY DEF Stop, IInv, callerVars, reaperVars, configVars, CallerTypes, ReaperTypes

\* The watcher of cr is dropped, whose bucket is gone or has another one coming.
LEMMA DropKnown ==
  ASSUME NEW nss, NEW bk, NEW rp, NEW nw, NEW ws, KnownInv(nss, bk, rp, nw, ws),
         rp # "returned", NEW cr \in Keys, NEW rp2,
         IsWatched(nss, bk, cr[1], cr[2]) => \E i \in DOMAIN nw : nw[i].key = cr,
         NEW ws2, ws2 = [k \in DOMAIN ws \ {cr} |-> ws[k]]
  PROVE  KnownInv(nss, bk, rp2, nw, ws2)
<1> SUFFICES ASSUME NEW n \in Namespaces, NEW name \in Names, IsWatched(nss, bk, n, name)
             PROVE  Known(nw, ws2, <<n, name>>, At(nss, n, name))
  BY DEF KnownInv
<1>1. Known(nw, ws, <<n, name>>, At(nss, n, name))
  BY DEF KnownInv
<1>2. CASE <<n, name>> = cr
  <2>1. cr[1] = n /\ cr[2] = name
    BY <1>2
  <2>2. \E i \in DOMAIN nw : nw[i].key = <<n, name>>
    BY <1>2, <2>1
  <2> QED
    BY <1>1, <2>2 DEF Known
<1>3. CASE <<n, name>> # cr
  <2>1. <<n, name>> \in DOMAIN ws => <<n, name>> \in DOMAIN ws2 /\ ws2[<<n, name>>] = ws[<<n, name>>]
    BY <1>3
  <2> QED
    BY <1>1, <2>1 DEF Known
<1> QED
  BY <1>2, <1>3

LEMMA StepRemoveBucket ==
  ASSUME IInv, RemoveBucket
  PROVE  IInv'
<1> DEFINE n == cur[1]
           name == cur[2]
           ns == IF held = Attached THEN namespaces[n] ELSE held
           b == ns.buckets[name]
<1>1. /\ reaper = "remove"
      /\ held = Attached => nsLock[n] = None
      /\ held = Attached => namespaces' = [namespaces EXCEPT ![n] = Without(ns, name)]
      /\ held # Attached => namespaces' = namespaces
      /\ bucket' = IF b = None THEN bucket ELSE [bucket EXCEPT ![b] = Dead]
      /\ watchers' = [k \in DOMAIN watchers \ {cur} |-> watchers[k]]
      /\ reaper' = "scan" /\ cur' = None /\ held' = None
      /\ UNCHANGED <<defaultBucket, callerVars, newWatchers, stopped, todo, configVars>>
  BY DEF RemoveBucket
<1>2. cur \in Keys /\ cur \notin todo /\ held # None
      /\ (held = Attached => namespaces[n] # None)
  BY <1>1 DEF IInv, ReaperInv
<1>3. n \in Namespaces /\ name \in Names /\ name \in Slots
  BY <1>2 DEF Keys, Slots
<1>4. held = Attached => ns = namespaces[n] /\ b = At(namespaces, n, name)
  BY <1>2 DEF At
<1>5. held # Attached => ns = held /\ b = held.buckets[name]
  OBVIOUS
<1> HIDE DEF n, name, ns, b
<1>6. ReaperTypes'
  <2>1. /\ DOMAIN watchers' = DOMAIN watchers \ {cur}
        /\ \A k \in DOMAIN watchers' : watchers'[k] = watchers[k]
    BY <1>1
  <2> QED
    BY <1>1, <1>2, <2>1 DEF IInv, ReaperTypes, configVars
<1>7. ReaperInv(namespaces, reaper, todo, cur, held)'
  BY <1>1, ContainerAssumption DEF ReaperInv
<1>8. HeldInv(namespaces, defaultBucket, bucket, pc, found, newWatchers, cur, held)'
  BY <1>1 DEF HeldInv
<1>9. CallerTypes'
  BY <1>1 DEF IInv, callerVars, CallerTypes
<1>10. ASSUME namespaces' = namespaces, bucket' = bucket,
              IsWatched(namespaces, bucket, n, name) =>
                \E i \in DOMAIN newWatchers : newWatchers[i].key = cur
       PROVE  IInv'
  <2>1. /\ ContainerInv(namespaces, defaultBucket, bucket, cfgs)'
        /\ CallersInv(namespaces, defaultBucket, nsLock, pc, call, found)'
    BY <1>1, <1>10 DEF IInv, callerVars, configVars
  <2>2. KnownInv(namespaces, bucket, reaper', newWatchers, watchers')
    <3>1. KnownInv(namespaces, bucket, reaper, newWatchers, watchers) /\ reaper # "returned"
      BY <1>1 DEF IInv
    <3>2. IsWatched(namespaces, bucket, cur[1], cur[2]) =>
            \E i \in DOMAIN newWatchers : newWatchers[i].key = cur
      BY <1>10 DEF n, name
    <3> QED
      BY <1>1, <1>2, <3>1, <3>2, DropKnown
  <2>3. KnownInv(namespaces, bucket, reaper, newWatchers, watchers)'
    BY <1>1, <1>10, <2>2
  <2> QED
    BY <1>6, <1>7, <1>8, <1>9, <2>1, <2>3 DEF IInv
<1>11. CASE held # Attached
  <2>1. b # None => b \in Buckets /\ bucket[b] = Dead
    <3>1. b # None => ~Placed(namespaces, defaultBucket, b)
      BY <1>2, <1>3, <1>5, <1>11 DEF IInv, HeldInv
    <3>2. b \in Buckets \cup {None}
      BY <1>2, <1>3, <1>5, <1>11 DEF IInv, ReaperTypes, NamespaceObject
    <3> QED
      BY <3>1, <3>2 DEF IInv, ContainerInv, LivePlaced
  <2>2. bucket' = bucket
    <3>1. b # None => [bucket EXCEPT ![b] = Dead] = bucket
      BY <2>1, InvParts
    <3> QED
      BY <1>1, <3>1
  <2>3. IsWatched(namespaces, bucket, n, name) =>
          \E i \in DOMAIN newWatchers : newWatchers[i].key = cur
    BY <1>2, <1>11 DEF IInv, HeldInv, n, name
  <2> QED
    BY <1>1, <1>10, <1>11, <2>2, <2>3
<1>12. CASE held = Attached /\ b = None
  <2>1. namespaces' = namespaces
    <3>1. Without(ns, name) = namespaces[n]
      BY <1>4, <1>12 DEF Without, b
    <3>2. [namespaces EXCEPT ![n] = namespaces[n]] = namespaces
      BY InvParts
    <3> QED
      BY <1>1, <1>12, <3>1, <3>2
  <2>2. ~IsWatched(namespaces, bucket, n, name)
    BY <1>4, <1>12 DEF IsWatched
  <2> QED
    BY <1>1, <1>10, <1>12, <2>1, <2>2
<1>13. CASE held = Attached /\ b # None
  <2>1. PICK u : u = Without(ns, name)
    OBVIOUS
  <2>2. u = [namespaces[n] EXCEPT !.buckets[name] = None,
                                  !.count = IF bucket[b] # Dead /\ bucket[b].dyn
                                            THEN @ - 1 ELSE @]
    BY <1>4, <1>13, <2>1 DEF Without, b
  <2>3. Removed(namespaces, bucket, n, name, b, u, namespaces', bucket')
    BY <1>1, <1>2, <1>3, <1>4, <1>13, <2>1, <2>2 DEF Removed
  <2>4. /\ ContainerInv(namespaces', defaultBucket, bucket', cfgs)
        /\ Replaced(namespaces, namespaces', n, name, None)
        /\ \A x \in Buckets \ {b} : bucket'[x] = bucket[x]
    BY <2>3, RemoveKeeps DEF IInv
  <2>5. b \in Buckets
    BY <1>3, <1>4, <1>13, InvParts, InSlots
  <2>6. bucket'[b] = Dead
    BY <1>1, <1>13, <2>5, InvParts
  <2>7. ContainerInv(namespaces, defaultBucket, bucket, cfgs)'
    BY <1>1, <2>4 DEF configVars
  <2>8. CallersInv(namespaces, defaultBucket, nsLock, pc, call, found)'
    <3>1. \A d \in Callers : pc[d] = "watch" => call[d][1] # n /\ found[d] # None
      <4>1. \A d \in Callers : pc[d] = "watch" => call[d][1] # n
        BY <1>1, <1>3, <1>13, UnlockedNamespace
      <4>2. \A d \in Callers : pc[d] = "watch" => found[d] # None
        BY ContainerAssumption DEF IInv, CallersInv, Creating
      <4> QED
        BY <4>1, <4>2
    <3>2. CallersInv(namespaces', defaultBucket, nsLock, pc, call, found)
      BY <1>2, <1>3, <1>13, <2>4, <3>1, ReplaceKeepsCallers DEF IInv
    <3> QED
      BY <1>1, <3>2 DEF callerVars
  <2>9. NoNewWatched(namespaces, bucket, namespaces', bucket')
    BY <1>3, <2>4, <2>6, InvParts, ReplaceNoNew
  <2>10. KnownInv(namespaces', bucket', reaper, newWatchers, watchers)
    BY <2>9, NoNewKeepsKnown DEF IInv
  <2>11. ~IsWatched(namespaces', bucket', n, name)
    BY <1>3, <2>4 DEF IsWatched, Replaced
  <2>12. KnownInv(namespaces', bucket', reaper', newWatchers, watchers')
    BY <1>1, <1>2, <2>10, <2>11, DropKnown DEF n, name
  <2>13. KnownInv(namespaces, bucket, reaper, newWatchers, watchers)'
    BY <1>1, <2>12
  <2> QED
    BY <1>6, <1>7, <1>8, <1>9, <2>7, <2>8, <2>13 DEF IInv
<1> QED
  BY <1>11, <1>12, <1>13

-----------------------------------------------------------------------------
(***************************************************************************)
(* Loading a configuration.                                                *)
(***************************************************************************)
LEMMA NewBucketsPlaces ==
  ASSUME NEW cfg
  PROVE  /\ \A n \in Namespaces, s \in Slots :
              <<n, s>> \in NewBuckets(cfg) <=>
                n \in Created(cfg) /\ InitialBucketCfg(cfg.namespaces[n], s) # None
         /\ GlobalSlot \in NewBuckets(cfg) <=> DefaultChanged(cfg) /\ cfg.default # None
         /\ \A p \in NewBuckets(cfg) : p # GlobalSlot =>
              \E n \in Namespaces, s \in Slots : p = <<n, s>>
         /\ IsFiniteSet(NewBuckets(cfg))
<1>1. Created(cfg) \subseteq Namespaces
  BY DEF Created
<1>2. \A n \in Namespaces, s \in Slots : <<n, s>> # GlobalSlot
  BY ContainerAssumption DEF GlobalSlot
<1>3. GlobalSlot \notin Created(cfg) \X Slots
  BY <1>1, ContainerAssumption DEF GlobalSlot
<1>4. IsFiniteSet(NewBuckets(cfg))
  <2>1. IsFiniteSet(Slots)
    BY ContainerAssumption, FS_AddElement DEF Slots
  <2>2. IsFiniteSet(Namespaces \X Slots)
    BY <2>1, ContainerAssumption, FS_Product
  <2>3. IsFiniteSet((Namespaces \X Slots) \cup {GlobalSlot})
    BY <2>2, FS_AddElement
  <2>4. NewBuckets(cfg) \in SUBSET ((Namespaces \X Slots) \cup {GlobalSlot})
    BY <1>1 DEF NewBuckets
  <2> QED
    BY <2>3, <2>4, FS_Subset
<1>5. ASSUME NEW n \in Namespaces, NEW s \in Slots
      PROVE  <<n, s>> \in NewBuckets(cfg) <=>
               n \in Created(cfg) /\ InitialBucketCfg(cfg.namespaces[n], s) # None
  BY <1>2 DEF NewBuckets
<1>6. GlobalSlot \in NewBuckets(cfg) <=> DefaultChanged(cfg) /\ cfg.default # None
  BY <1>3 DEF NewBuckets
<1>7. \A p \in NewBuckets(cfg) : p # GlobalSlot =>
        \E n \in Namespaces, s \in Slots : p = <<n, s>>
  BY <1>1 DEF NewBuckets
<1> QED
  BY <1>4, <1>5, <1>6, <1>7

LEMMA UpdateIsUpdated ==
  ASSUME IInv, NEW cfg \in ServiceConfigs, UpdateBucketContainer(cfg)
  PROVE  Updated(namespaces, defaultBucket, bucket, cfg, Destroyed(cfg), Created(cfg),
                 DefaultChanged(cfg), NewBuckets(cfg), Free,
                 CHOOSE f \in [NewBuckets(cfg) -> Free] : IsInjective(f),
                 namespaces', defaultBucket', bucket')
<1>1. PICK new, ids, D, C, dc :
        /\ new = NewBuckets(cfg)
        /\ ids = CHOOSE f \in [new -> Free] : IsInjective(f)
        /\ D = Destroyed(cfg) /\ C = Created(cfg) /\ dc = DefaultChanged(cfg)
  OBVIOUS
<1>2. PICK gone : gone = (UNION {BucketsOf(namespaces[n]) : n \in D})
                           \cup (IF dc THEN {defaultBucket} \ {None} ELSE {})
  OBVIOUS
<1> DEFINE at(s) == IF s \in new THEN ids[s] ELSE None
<1>3. /\ Cardinality(new) <= Cardinality(Free)
      /\ namespaces' = [n \in Namespaces |->
           IF n \in C
           THEN [cfg     |-> cfg.namespaces[n],
                 buckets |-> [slot \in Slots |-> at(<<n, slot>>)],
                 count   |-> 0]
           ELSE IF n \in D \/ namespaces[n] = None THEN None
           ELSE [namespaces[n] EXCEPT !.cfg = cfg.namespaces[n]]]
      /\ defaultBucket' = IF dc THEN at(GlobalSlot) ELSE defaultBucket
      /\ bucket' = [b \in Buckets |->
           IF \E s \in new : ids[s] = b
           THEN LET s == CHOOSE s \in new : ids[s] = b
                IN  [cfg |-> BucketCfgOf(cfg, s), dyn |-> FALSE, activity |-> FALSE]
           ELSE IF b \in gone THEN Dead ELSE bucket[b]]
  BY <1>1, <1>2 DEF UpdateBucketContainer
<1>4. /\ \A n \in Namespaces, s \in Slots :
           <<n, s>> \in new <=> n \in C /\ InitialBucketCfg(cfg.namespaces[n], s) # None
      /\ GlobalSlot \in new <=> dc /\ cfg.default # None
      /\ \A p \in new : p # GlobalSlot => \E n \in Namespaces, s \in Slots : p = <<n, s>>
      /\ IsFiniteSet(new)
  BY <1>1, NewBucketsPlaces
<1>5. /\ D = {n \in Namespaces :
                namespaces[n] # None /\ namespaces[n].cfg # cfg.namespaces[n]}
      /\ C = {n \in Namespaces :
                cfg.namespaces[n] # None /\ (namespaces[n] = None \/ n \in D)}
  BY <1>1 DEF Destroyed, Created
<1>6. /\ dc \in BOOLEAN
      /\ dc <=> (IF defaultBucket = None THEN None ELSE bucket[defaultBucket].cfg) # cfg.default
  BY <1>1 DEF DefaultChanged
<1>7. Free \subseteq Buckets /\ \A b \in Free : ~Placed(namespaces, defaultBucket, b)
  BY FreeBuckets
<1>8. /\ ids \in [new -> Free]
      /\ \A p \in new : \A q \in new : ids[p] = ids[q] => p = q
  <2>1. IsFiniteSet(Free)
    BY <1>7, ContainerAssumption, FS_Subset
  <2>2. \E f \in [new -> Free] : IsInjective(f)
    BY <1>3, <1>4, <2>1, RoomForAll
  <2>3. ids \in [new -> Free] /\ IsInjective(ids)
    BY <1>1, <2>2
  <2> QED
    BY <2>3 DEF IsInjective
<1>9. /\ cfg.default \in BucketConfig \cup {None}
      /\ \A n \in Namespaces : cfg.namespaces[n] \in NamespaceConfig \cup {None}
  BY ConfigAssumption DEF ServiceConfig
<1>10. \A p \in new : BucketCfgOf(cfg, p) \in BucketConfig
  <2> SUFFICES ASSUME NEW p \in new PROVE BucketCfgOf(cfg, p) \in BucketConfig
    OBVIOUS
  <2>1. CASE p = GlobalSlot
    BY <1>4, <1>9, <2>1 DEF BucketCfgOf
  <2>2. CASE p # GlobalSlot
    <3>1. PICK n \in Namespaces, s \in Slots : p = <<n, s>>
      BY <1>4, <2>2
    <3>2. /\ cfg.namespaces[n] # None
          /\ InitialBucketCfg(cfg.namespaces[n], s) # None
      BY <1>4, <1>5, <3>1
    <3>3. InitialBucketCfg(cfg.namespaces[n], s) \in BucketConfig
      BY <1>9, <3>2, InitialBucketTypes
    <3>4. BucketCfgOf(cfg, p) = InitialBucketCfg(cfg.namespaces[n], s)
      BY <2>2, <3>1 DEF BucketCfgOf
    <3> QED
      BY <3>3, <3>4
  <2> QED
    BY <2>1, <2>2
<1>11. /\ namespaces \in [Namespaces -> NamespaceObject \cup {None}]
       /\ bucket \in [Buckets -> BucketObject \cup {Dead}]
  BY InvParts
\* The namespaces.
<1>12. ASSUME NEW n \in C
       PROVE  /\ namespaces'[n] \in NamespaceObject
              /\ namespaces'[n].cfg = cfg.namespaces[n] /\ namespaces'[n].count = 0
              /\ \A s \in Slots : namespaces'[n].buckets[s] =
                   IF <<n, s>> \in new THEN ids[<<n, s>>] ELSE None
  <2>1. n \in Namespaces /\ cfg.namespaces[n] \in NamespaceConfig
    BY <1>5, <1>9
  <2>2. PICK f : f = [slot \in Slots |-> at(<<n, slot>>)]
    OBVIOUS
  <2>3. /\ f \in [Slots -> Buckets \cup {None}]
        /\ \A s \in Slots : f[s] = IF <<n, s>> \in new THEN ids[<<n, s>>] ELSE None
    BY <1>7, <1>8, <2>2
  <2>4. namespaces'[n] = [cfg |-> cfg.namespaces[n], buckets |-> f, count |-> 0]
    BY <1>3, <2>1, <2>2
  <2>5. /\ namespaces'[n] \in NamespaceObject
        /\ namespaces'[n].cfg = cfg.namespaces[n] /\ namespaces'[n].count = 0
        /\ namespaces'[n].buckets = f
    BY <2>1, <2>3, <2>4 DEF NamespaceObject
  <2> QED
    BY <2>3, <2>5
<1>13. \A n \in Namespaces \ C : n \in D \/ namespaces[n] = None => namespaces'[n] = None
  BY <1>3
<1>14. ASSUME NEW n \in Namespaces \ (C \cup D), namespaces[n] # None
       PROVE  /\ namespaces'[n] \in NamespaceObject
              /\ namespaces'[n].cfg = cfg.namespaces[n]
              /\ namespaces'[n].count = namespaces[n].count
              /\ namespaces'[n].buckets = namespaces[n].buckets
  <2>1. namespaces[n] \in NamespaceObject /\ cfg.namespaces[n] = namespaces[n].cfg
    BY <1>5, <1>11, <1>14
  <2>2. cfg.namespaces[n] \in NamespaceConfig
    BY <2>1 DEF NamespaceObject
  <2>3. namespaces'[n] = [namespaces[n] EXCEPT !.cfg = cfg.namespaces[n]]
    BY <1>3, <1>14
  <2> QED
    BY <2>1, <2>2, <2>3 DEF NamespaceObject
<1>15. namespaces' \in [Namespaces -> NamespaceObject \cup {None}]
  <2>1. namespaces' = [n \in Namespaces |-> namespaces'[n]]
    BY <1>3
  <2>2. \A n \in Namespaces : namespaces'[n] \in NamespaceObject \cup {None}
    BY <1>12, <1>13, <1>14
  <2> QED
    BY <2>1, <2>2
<1>16. \A ns \in NamespaceObject : ns # None
  BY ConfigAssumption
\* The buckets.
<1>17. ASSUME NEW p \in new
       PROVE  /\ bucket'[ids[p]] \in BucketObject /\ ~bucket'[ids[p]].dyn
              /\ bucket'[ids[p]].cfg = BucketCfgOf(cfg, p)
  <2>1. ids[p] \in Buckets
    BY <1>7, <1>8
  <2>2. PICK q : q = CHOOSE s \in new : ids[s] = ids[p]
    OBVIOUS
  <2>3. q = p
    BY <1>8, <2>2
  <2>4. bucket'[ids[p]] = [cfg |-> BucketCfgOf(cfg, p), dyn |-> FALSE, activity |-> FALSE]
    BY <1>3, <2>1, <2>2, <2>3
  <2> QED
    BY <1>10, <2>4 DEF BucketObject
<1>18. ASSUME NEW b \in Buckets, \A p \in new : ids[p] # b
       PROVE  bucket'[b] = IF \/ \E n \in D, s \in Slots : At(namespaces, n, s) = b
                              \/ dc /\ b = defaultBucket
                           THEN Dead ELSE bucket[b]
  <2>0. b # None
    BY ContainerAssumption
  <2>1. bucket'[b] = IF b \in gone THEN Dead ELSE bucket[b]
    BY <1>3, <1>18
  <2>2. \A n \in D : b \in BucketsOf(namespaces[n]) <=> \E s \in Slots : At(namespaces, n, s) = b
    <3> SUFFICES ASSUME NEW n \in D
                 PROVE  b \in BucketsOf(namespaces[n]) <=>
                          \E s \in Slots : At(namespaces, n, s) = b
      OBVIOUS
    <3>1. namespaces[n] \in NamespaceObject /\ namespaces[n] # None
      BY <1>5, <1>11
    <3>2. DOMAIN namespaces[n].buckets = Slots
      BY <3>1 DEF NamespaceObject
    <3> QED
      BY <2>0, <3>1, <3>2 DEF BucketsOf, Range, At
  <2>3. b \in (IF dc THEN {defaultBucket} \ {None} ELSE {}) <=> dc /\ b = defaultBucket
    BY <1>6, <2>0
  <2>4. b \in UNION {BucketsOf(namespaces[n]) : n \in D} <=>
          \E n \in D : b \in BucketsOf(namespaces[n])
    OBVIOUS
  <2>5. b \in gone <=> \/ b \in UNION {BucketsOf(namespaces[n]) : n \in D}
                       \/ b \in (IF dc THEN {defaultBucket} \ {None} ELSE {})
    BY <1>2
  <2>6. b \in gone <=> \/ \E n \in D, s \in Slots : At(namespaces, n, s) = b
                       \/ dc /\ b = defaultBucket
    BY <2>2, <2>3, <2>4, <2>5
  <2> QED
    BY <2>1, <2>6
<1>19. bucket' \in [Buckets -> BucketObject \cup {Dead}]
  <2>1. bucket' = [b \in Buckets |-> bucket'[b]]
    BY <1>3
  <2>2. ASSUME NEW b \in Buckets PROVE bucket'[b] \in BucketObject \cup {Dead}
    <3>1. CASE \E p \in new : ids[p] = b
      BY <1>17, <3>1
    <3>2. CASE \A p \in new : ids[p] # b
      BY <1>11, <1>18, <3>2
    <3> QED
      BY <3>1, <3>2
  <2> QED
    BY <2>1, <2>2
<1>20. \A r \in BucketObject : r # Dead
  BY ConfigAssumption DEF Dead
<1>21. defaultBucket' = IF dc THEN IF GlobalSlot \in new THEN ids[GlobalSlot] ELSE None
                        ELSE defaultBucket
  BY <1>3
<1>22. /\ \A n \in C : /\ namespaces'[n] # None /\ namespaces'[n].cfg = cfg.namespaces[n]
                       /\ namespaces'[n].count = 0
                       /\ \A s \in Slots : namespaces'[n].buckets[s] =
                            IF <<n, s>> \in new THEN ids[<<n, s>>] ELSE None
       /\ \A n \in Namespaces \ (C \cup D) : namespaces[n] # None =>
            /\ namespaces'[n] # None /\ namespaces'[n].cfg = cfg.namespaces[n]
            /\ namespaces'[n].count = namespaces[n].count
            /\ namespaces'[n].buckets = namespaces[n].buckets
       /\ \A p \in new : /\ bucket'[ids[p]] # Dead /\ ~bucket'[ids[p]].dyn
                         /\ bucket'[ids[p]].cfg = BucketCfgOf(cfg, p)
  BY <1>12, <1>14, <1>16, <1>17, <1>20
<1> HIDE DEF at
<1>23. Updated(namespaces, defaultBucket, bucket, cfg, D, C, dc, new, Free, ids,
               namespaces', defaultBucket', bucket')
  BY <1>4, <1>5, <1>6, <1>7, <1>8, <1>13, <1>15, <1>18, <1>19, <1>21, <1>22, Zenon DEF Updated
<1> QED
  BY <1>1, <1>23

LEMMA StepUpdateBucketContainer ==
  ASSUME IInv, NEW cfg \in ServiceConfigs, UpdateBucketContainer(cfg)
  PROVE  IInv'
<1>1. /\ \A c \in Callers : pc[c] = "idle"
      /\ updates < MaxUpdates /\ updates' = updates + 1
      /\ cfgs' = cfg
      /\ held' = IF held = Attached /\ cur[1] \in Destroyed(cfg)
                 THEN namespaces[cur[1]] ELSE held
      /\ UNCHANGED <<callerVars, newWatchers, stopped, watchers, reaper, todo, cur, panic>>
  BY DEF UpdateBucketContainer
<1>2. /\ ContainerInv(namespaces', defaultBucket', bucket', cfg)
      /\ \A b \in Buckets : Placed(namespaces', defaultBucket', b) =>
           \/ b \in Free
           \/ /\ Placed(namespaces, defaultBucket, b)
              /\ \A n \in Destroyed(cfg), s \in Slots : At(namespaces, n, s) # b
      /\ \A n \in Namespaces, s \in Slots :
           At(namespaces', n, s) # None /\ bucket'[At(namespaces', n, s)].dyn =>
             /\ At(namespaces, n, s) = At(namespaces', n, s)
             /\ bucket[At(namespaces, n, s)] = bucket'[At(namespaces', n, s)]
  <2>1. ContainerInv(namespaces, defaultBucket, bucket, cfgs)
    BY DEF IInv
  <2> QED
    BY <2>1, UpdateIsUpdated, UpdateKeeps
<1>3. ContainerInv(namespaces, defaultBucket, bucket, cfgs)'
  BY <1>1, <1>2
<1>4. Destroyed(cfg) \subseteq Namespaces /\ \A n \in Destroyed(cfg) : namespaces[n] # None
  BY DEF Destroyed
<1>5. CallerTypes'
  BY <1>1 DEF IInv, callerVars, CallerTypes
<1>6. held = Attached => cur \in Keys /\ cur[1] \in Namespaces /\ namespaces[cur[1]] \in NamespaceObject
  BY InvParts, ContainerAssumption DEF IInv, ReaperInv, Keys
<1>7. \A ns \in NamespaceObject : ns # None /\ ns # Attached
  BY ConfigAssumption
<1>8. ReaperTypes'
  <2>1. updates' \in 0..MaxUpdates
    BY <1>1, ContainerAssumption DEF IInv, ReaperTypes
  <2>2. held' \in NamespaceObject \cup {None, Attached}
    BY <1>1, <1>6 DEF IInv, ReaperTypes
  <2> QED
    BY <1>1, <2>1, <2>2 DEF IInv, ReaperTypes
<1>9. CallersInv(namespaces, defaultBucket, nsLock, pc, call, found)'
  BY <1>1 DEF CallersInv, callerVars
\* The namespace that the reaper holds is still there, or is held as it was.
<1>10. ReaperInv(namespaces, reaper, todo, cur, held)'
  <2>1. held' = Attached => namespaces'[cur[1]] # None
    <3> SUFFICES ASSUME held' = Attached PROVE namespaces'[cur[1]] # None
      OBVIOUS
    <3>1. held = Attached /\ cur[1] \notin Destroyed(cfg)
      BY <1>1, <1>6, <1>7
    <3>2. cur[1] \in Namespaces /\ namespaces[cur[1]] # None
      BY <1>6, <1>7, <3>1
    <3>3. namespaces[cur[1]].cfg = cfg.namespaces[cur[1]]
      BY <3>1, <3>2 DEF Destroyed
    <3>4. cfg.namespaces[cur[1]] # None
      <4>1. namespaces[cur[1]].cfg \in NamespaceConfig
        BY <1>6, <3>1 DEF NamespaceObject
      <4> QED
        BY <3>3, <4>1, ConfigAssumption
    <3>5. cfg # None
      BY ConfigAssumption
    <3> QED
      BY <1>2, <3>2, <3>4, <3>5 DEF ContainerInv, ConfigLoaded
  <2>2. held' = None <=> held = None
    BY <1>1, <1>6, <1>7, ContainerAssumption
  <2> QED
    BY <1>1, <2>1, <2>2 DEF IInv, ReaperInv
<1>11. NoNewWatched(namespaces, bucket, namespaces', bucket')
  <2> SUFFICES ASSUME NEW n \in Namespaces, NEW name \in Names,
                      IsWatched(namespaces', bucket', n, name)
               PROVE  /\ IsWatched(namespaces, bucket, n, name)
                      /\ At(namespaces', n, name) = At(namespaces, n, name)
    BY DEF NoNewWatched
  <2>1. /\ At(namespaces, n, name) = At(namespaces', n, name)
        /\ bucket[At(namespaces, n, name)] = bucket'[At(namespaces', n, name)]
    BY <1>2 DEF IsWatched, Slots
  <2> QED
    BY <2>1 DEF IsWatched
<1>12. KnownInv(namespaces, bucket, reaper, newWatchers, watchers)'
  <2>1. KnownInv(namespaces', bucket', reaper, newWatchers, watchers)
    BY <1>11, NoNewKeepsKnown DEF IInv
  <2> QED
    BY <1>1, <2>1
<1>13. HeldInv(namespaces, defaultBucket, bucket, pc, found, newWatchers, cur, held)'
  <2>1. CASE held = Attached /\ cur[1] \in Destroyed(cfg)
    <3>1. held' = namespaces[cur[1]] /\ held' \in NamespaceObject
      BY <1>1, <1>6, <2>1
    <3>2. ASSUME NEW s \in Slots, held'.buckets[s] # None
          PROVE  ~Placed(namespaces', defaultBucket', held'.buckets[s])
      <4>1. held'.buckets[s] = At(namespaces, cur[1], s)
        BY <1>6, <1>7, <2>1, <3>1 DEF At
      <4>2. /\ held'.buckets[s] \in Buckets
            /\ Placed(namespaces, defaultBucket, held'.buckets[s])
        BY <1>6, <2>1, <3>2, <4>1, InvParts, InSlots
      <4>3. held'.buckets[s] \notin Free
        BY <4>2, FreeBuckets
      <4> QED
        BY <1>2, <2>1, <4>1, <4>2, <4>3
    <3>3. ~IsWatched(namespaces', bucket', cur[1], cur[2])
      <4>1. cur[1] \in Namespaces /\ cur[2] \in Names /\ cur[2] \in Slots
        BY <1>6, <2>1 DEF Keys, Slots
      <4> SUFFICES ASSUME IsWatched(namespaces', bucket', cur[1], cur[2]) PROVE FALSE
        OBVIOUS
      <4>2. PICK x : x = At(namespaces', cur[1], cur[2])
        OBVIOUS
      <4>3. x # None /\ x = At(namespaces, cur[1], cur[2])
        BY <1>2, <4>1, <4>2 DEF IsWatched
      <4>4. x \in Buckets /\ Placed(namespaces', defaultBucket', x)
        <5>1. namespaces' \in [Namespaces -> NamespaceObject \cup {None}]
          BY <1>2 DEF ContainerInv, ContainerTypes
        <5> QED
          BY <4>1, <4>2, <4>3, <5>1, InSlots
      <4>5. Placed(namespaces, defaultBucket, x)
        BY <4>1, <4>3, InvParts, InSlots
      <4>6. x \notin Free
        BY <4>5, FreeBuckets
      <4> QED
        BY <1>2, <2>1, <4>1, <4>3, <4>4, <4>6
    <3>4. HeldInv(namespaces', defaultBucket', bucket', pc', found', newWatchers', cur, held')
      BY <1>1, <3>2, <3>3 DEF HeldInv, callerVars
    <3> QED
      BY <1>1, <3>4
  <2>2. CASE ~(held = Attached /\ cur[1] \in Destroyed(cfg))
    <3>1. held' = held
      BY <1>1, <2>2
    <3>2. ASSUME held \notin {None, Attached}, NEW s \in Slots, held.buckets[s] # None
          PROVE  /\ Placed(namespaces', defaultBucket', held.buckets[s]) =>
                      Placed(namespaces, defaultBucket, held.buckets[s])
                 /\ \A c \in Callers : pc'[c] # "watch"
      <4>1. held.buckets[s] \in Buckets
        BY <3>2 DEF IInv, ReaperTypes, NamespaceObject
      <4>2. held.buckets[s] \notin Free
        BY <3>2, FreeBuckets
      <4> QED
        BY <1>1, <1>2, <4>1, <4>2 DEF callerVars
    <3>3. HeldInv(namespaces', defaultBucket', bucket', pc', found', newWatchers, cur, held)
      BY <1>11, <3>2, InvParts, HeldKeeps DEF IInv
    <3> QED
      BY <1>1, <3>1, <3>3
  <2> QED
    BY <2>1, <2>2
<1> QED
  BY <1>3, <1>5, <1>8, <1>9, <1>10, <1>12, <1>13 DEF IInv

-----------------------------------------------------------------------------
(***************************************************************************)
(* The invariant holds of every behaviour.                                 *)
(***************************************************************************)
LEMMA NextInv ==
  ASSUME IInv, [Next]_vars
  PROVE  IInv'
<1>1. ASSUME NEW c \in Callers, CallerNext(c) PROVE IInv'
  BY <1>1, StepFindBucket, StepReportActivity, StepCreateBucket, StepApplyWatch,
     StepApplyWatchStopped DEF CallerNext
<1>2. CASE ReaperNext
  BY <1>2, StepReceiveWatcher, StepAge, StepStartScan, StepCheckWatcher, StepEndScan,
     StepLookupNamespace, StepRemoveBucket, StepReaperReturn DEF ReaperNext
<1>3. ASSUME NEW cfg \in ServiceConfigs, UpdateBucketContainer(cfg) PROVE IInv'
  BY <1>3, StepUpdateBucketContainer
<1>4. CASE Stop
  BY <1>4, StepStop
<1>5. CASE UNCHANGED vars
  BY <1>5 DEF vars, IInv, callerVars, reaperVars, configVars, CallerTypes, ReaperTypes
<1> QED
  BY <1>1, <1>2, <1>3, <1>4, <1>5 DEF Next

LEMMA Invariance == Spec => []IInv
<1>1. Init => IInv
  BY InitInv
<1>2. IInv /\ [Next]_vars => IInv'
  BY NextInv
<1> QED
  BY <1>1, <1>2, PTL DEF Spec

\* Every variable keeps its type: above all, no removal takes the count of a
\* namespace's dynamic buckets (dynamicBucketCount) below zero, and the reaper
\* scans only watchers it has.
THEOREM TypeCorrect == Spec => []TypeOK
<1>1. IInv => TypeOK
  BY InvTypes
<1> QED
  BY <1>1, Invariance, PTL

\* However callers, the reaper and updates interleave, dynamicBucketCount is
\* the number of dynamic buckets a namespace has, and MaxDynamicBuckets holds.
THEOREM CountsAreRight == Spec => []DynamicBucketsCounted
<1>1. IInv => DynamicBucketsCounted
  BY ContainerProperties DEF IInv
<1> QED
  BY <1>1, Invariance, PTL

\* Destroy has been called on exactly the buckets that FindBucket cannot hand
\* out: not on one that is in place, and on every one that has left.
THEOREM DestroyedExactlyOnLeaving == Spec => []DestroyedIffUnreachable
<1>1. IInv => DestroyedIffUnreachable
  BY ContainerProperties DEF IInv
<1> QED
  BY <1>1, Invariance, PTL

\* The container holds what the configuration loaded last asks for, after any
\* number of updates and removals.
THEOREM AlwaysRunsCurrentConfig == Spec => []RunsCurrentConfig
<1>1. IInv => RunsCurrentConfig
  BY ContainerProperties DEF IInv
<1> QED
  BY <1>1, Invariance, PTL

\* The reaper has, or has on the way, the watcher of every reapable bucket in
\* place, even where an update has replaced the bucket that it is removing.
THEOREM WatchersAlwaysKnown == Spec => []WatcherKnown
<1>1. IInv => WatcherKnown
  BY KnownIsLast
<1> QED
  BY <1>1, Invariance, PTL

=============================================================================
