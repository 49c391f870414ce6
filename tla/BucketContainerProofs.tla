------------------------ MODULE BucketContainerProofs ------------------------
(***************************************************************************)
(* Proofs about the bucket container and its reaper, for all sets of       *)
(* callers, names and bucket objects, all configurations, and any number   *)
(* of updates.                                                             *)
(*                                                                         *)
(* The invariants speak of the container as of a set of places, slots of   *)
(* namespaces and the place of the global default bucket, that are empty   *)
(* or hold a bucket.  They are stated for any value of the variables, so   *)
(* that a step can be argued about without primes.                         *)
(***************************************************************************)
EXTENDS BucketContainer, FiniteSetTheorems, TLAPS

\* The bucket in a slot of a namespace, as Lookup has it.
At(nss, n, slot) == IF nss[n] = None THEN None ELSE nss[n].buckets[slot]

\* A bucket is in some place.
Placed(nss, db, b) ==
  /\ b # None
  /\ b = db \/ \E n \in Namespaces, slot \in Slots : At(nss, n, slot) = b

DynSlots(nss, bk, n) ==
  {slot \in Slots : At(nss, n, slot) # None /\ bk[At(nss, n, slot)].dyn}

-----------------------------------------------------------------------------
(***************************************************************************)
(* The invariants of the container.  No bucket is in two places: without   *)
(* that, destroying the bucket of one place could end that of another.     *)
(***************************************************************************)

ContainerTypes(nss, db, bk, cf) ==
  /\ nss \in [Namespaces -> NamespaceObject \cup {None}]
  /\ db \in Buckets \cup {None}
  /\ bk \in [Buckets -> BucketObject \cup {Dead}]
  /\ cf \in ServiceConfigs \cup {None}

Distinct(nss, db) ==
  \A n \in Namespaces, s \in Slots : At(nss, n, s) # None =>
    /\ At(nss, n, s) # db
    /\ \A m \in Namespaces, t \in Slots :
         At(nss, m, t) = At(nss, n, s) => m = n /\ t = s

LivePlaced(nss, db, bk) ==
  \A b \in Buckets : bk[b] # Dead <=> Placed(nss, db, b)

Counted(nss, bk) ==
  \A n \in Namespaces : nss[n] # None =>
    /\ nss[n].count = Cardinality(DynSlots(nss, bk, n))
    /\ nss[n].cfg.max > 0 => nss[n].count <= nss[n].cfg.max

\* Every bucket has the settings that the configuration of its namespace has
\* for its slot ...
BucketsConfigured(nss, bk) ==
  \A n \in Namespaces : nss[n] # None =>
    /\ \A s \in Slots : At(nss, n, s) # None =>
         bk[At(nss, n, s)].cfg = IF bk[At(nss, n, s)].dyn THEN nss[n].cfg.template
                                 ELSE InitialBucketCfg(nss[n].cfg, s)
    /\ At(nss, n, Default) = None => nss[n].cfg.default = None

\* ... and that configuration is the loaded one's.
ConfigLoaded(nss, db, bk, cf) ==
  /\ cf = None => db = None /\ \A n \in Namespaces : nss[n] = None
  /\ cf # None =>
       /\ (IF db = None THEN None ELSE bk[db].cfg) = cf.default
       /\ \A n \in Namespaces :
            IF nss[n] = None THEN cf.namespaces[n] = None
            ELSE nss[n].cfg = cf.namespaces[n]

ContainerInv(nss, db, bk, cf) ==
  /\ ContainerTypes(nss, db, bk, cf)
  /\ Distinct(nss, db)
  /\ LivePlaced(nss, db, bk)
  /\ Counted(nss, bk)
  /\ BucketsConfigured(nss, bk)
  /\ ConfigLoaded(nss, db, bk, cf)

\* What the invariants say of the state.
LEMMA ContainerProperties ==
  ASSUME ContainerInv(namespaces, defaultBucket, bucket, cfgs)
  PROVE  /\ DynamicBucketsCounted
         /\ DestroyedIffUnreachable
         /\ RunsCurrentConfig
<1> DEFINE nss == namespaces
           db == defaultBucket
<1>1. /\ nss \in [Namespaces -> NamespaceObject \cup {None}]
      /\ db \in Buckets \cup {None}
  BY DEF ContainerInv, ContainerTypes
<1>2. \A n \in Namespaces : nss[n] # None =>
        /\ nss[n] \in NamespaceObject
        /\ nss[n].buckets \in [Slots -> Buckets \cup {None}]
        /\ \A s \in Slots : At(nss, n, s) = nss[n].buckets[s]
  BY <1>1 DEF NamespaceObject, At
<1>3. DynamicBucketsCounted
  <2> SUFFICES ASSUME NEW n \in Namespaces, nss[n] # None
               PROVE  LET ns  == nss[n]
                          dyn == {slot \in Slots : /\ ns.buckets[slot] # None
                                                   /\ bucket[ns.buckets[slot]].dyn}
                      IN  /\ ns.count = Cardinality(dyn)
                          /\ ns.cfg.max > 0 => ns.count <= ns.cfg.max
    BY DEF DynamicBucketsCounted
  <2>1. DynSlots(nss, bucket, n) =
          {slot \in Slots : /\ nss[n].buckets[slot] # None
                            /\ bucket[nss[n].buckets[slot]].dyn}
    BY <1>2 DEF DynSlots
  <2>2. /\ nss[n].count = Cardinality(DynSlots(nss, bucket, n))
        /\ nss[n].cfg.max > 0 => nss[n].count <= nss[n].cfg.max
    BY DEF ContainerInv, Counted
  <2> QED
    BY <2>1, <2>2
<1>4. DestroyedIffUnreachable
  <2>1. ASSUME NEW b \in Buckets PROVE b \in Reachable <=> Placed(nss, db, b)
    <3>1. b # None
      BY ContainerAssumption
    <3>2. \A n \in Namespaces : b \in BucketsOf(nss[n]) <=>
                                  \E s \in Slots : At(nss, n, s) = b
      BY <1>2, <3>1 DEF BucketsOf, Range, At
    <3>3. b \in Reachable <=> b = db \/ \E n \in Namespaces : b \in BucketsOf(nss[n])
      <4>1. b \in UNION {BucketsOf(nss[n]) : n \in Namespaces} <=>
              \E n \in Namespaces : b \in BucketsOf(nss[n])
        OBVIOUS
      <4>2. b \in ({db} \ {None}) <=> b = db
        BY <3>1
      <4>3. b \in Reachable <=> \/ b \in UNION {BucketsOf(nss[n]) : n \in Namespaces}
                                \/ b \in ({db} \ {None})
        BY DEF Reachable
      <4> QED
        BY <4>1, <4>2, <4>3
    <3> QED
      BY <3>1, <3>2, <3>3 DEF Placed
  <2> QED
    BY <2>1 DEF DestroyedIffUnreachable, ContainerInv, LivePlaced
<1>5. RunsCurrentConfig
  <2> SUFFICES ASSUME cfgs # None PROVE RunsCurrentConfig
    BY DEF RunsCurrentConfig
  <2>1. \A n \in Namespaces, s \in Slots : Lookup(n, s) = At(nss, n, s)
    BY DEF Lookup, At
  <2>2. Default \in Slots
    BY DEF Slots
  <2> QED
    BY <2>1, <2>2 DEF RunsCurrentConfig, ContainerInv, ConfigLoaded, BucketsConfigured
<1> QED
  BY <1>3, <1>4, <1>5

-----------------------------------------------------------------------------
(***************************************************************************)
(* Putting a bucket into an empty slot.                                    *)
(***************************************************************************)

\* What createNewNamedBucketFromCfg makes of a namespace object.
With(ns, name, b, dyn) ==
  [ns EXCEPT !.buckets[name] = b, !.count = IF dyn THEN @ + 1 ELSE @]

LEMMA WithTypes ==
  ASSUME NEW ns \in NamespaceObject, NEW name \in Slots,
         NEW b \in Buckets \cup {None}, NEW dyn \in BOOLEAN
  PROVE  LET u == With(ns, name, b, dyn)
         IN /\ u \in NamespaceObject
            /\ u.cfg = ns.cfg
            /\ u.count = IF dyn THEN ns.count + 1 ELSE ns.count
            /\ \A s \in Slots : u.buckets[s] = IF s = name THEN b ELSE ns.buckets[s]
<1> DEFINE u == With(ns, name, b, dyn)
           f == [ns.buckets EXCEPT ![name] = b]
<1>1. /\ f \in [Slots -> Buckets \cup {None}]
      /\ \A s \in Slots : f[s] = IF s = name THEN b ELSE ns.buckets[s]
  BY DEF NamespaceObject
<1>2. PICK k \in Nat : k = IF dyn THEN ns.count + 1 ELSE ns.count
  BY DEF NamespaceObject
<1>3. u = [ns EXCEPT !.buckets = f, !.count = k]
  BY <1>2 DEF With
<1> HIDE DEF f, u
<1>4. /\ u \in NamespaceObject /\ u.cfg = ns.cfg /\ u.count = k /\ u.buckets = f
  BY <1>1, <1>2, <1>3 DEF NamespaceObject
<1> QED
  BY <1>1, <1>2, <1>4 DEF u

\* What is in a slot is a bucket, and placed.
LEMMA InSlots ==
  ASSUME NEW nss \in [Namespaces -> NamespaceObject \cup {None}], NEW db,
         NEW n \in Namespaces, NEW s \in Slots
  PROVE  /\ At(nss, n, s) \in Buckets \cup {None}
         /\ At(nss, n, s) # None => nss[n] # None /\ Placed(nss, db, At(nss, n, s))
<1>1. nss[n] # None => nss[n].buckets[s] \in Buckets \cup {None}
  BY DEF NamespaceObject
<1> QED
  BY <1>1 DEF At, Placed

\* The namespaces after the bucket of one slot has been replaced by b.
Replaced(nss, nss2, n, name, b) ==
  /\ nss2 \in [Namespaces -> NamespaceObject \cup {None}]
  /\ nss2[n] # None
  /\ nss2[n].cfg = nss[n].cfg
  /\ \A m \in Namespaces \ {n} : nss2[m] = nss[m]
  /\ \A m \in Namespaces, s \in Slots :
       At(nss2, m, s) = IF m = n /\ s = name THEN b ELSE At(nss, m, s)

LEMMA WithReplaces ==
  ASSUME NEW nss \in [Namespaces -> NamespaceObject \cup {None}],
         NEW n \in Namespaces, nss[n] # None, NEW name \in Slots,
         NEW b \in Buckets \cup {None}, NEW u \in NamespaceObject,
         u.cfg = nss[n].cfg,
         \A s \in Slots : u.buckets[s] = IF s = name THEN b ELSE nss[n].buckets[s],
         NEW nss2, nss2 = [nss EXCEPT ![n] = u]
  PROVE  Replaced(nss, nss2, n, name, b) /\ nss2[n] = u
<1>1. /\ nss2 \in [Namespaces -> NamespaceObject \cup {None}]
      /\ nss2[n] = u
      /\ \A m \in Namespaces \ {n} : nss2[m] = nss[m]
  OBVIOUS
<1>2. u # None
  BY ConfigAssumption
<1>3. \A m \in Namespaces, s \in Slots :
        At(nss2, m, s) = IF m = n /\ s = name THEN b ELSE At(nss, m, s)
  BY <1>1, <1>2 DEF At
<1> QED
  BY <1>1, <1>2, <1>3 DEF Replaced

\* A bucket with settings cfg that is in no place is put into an empty slot.
Put(nss, db, bk, n, name, b, cfg, dyn, nss2, bk2) ==
  /\ n \in Namespaces /\ name \in Names
  /\ nss[n] # None /\ At(nss, n, name) = None
  /\ b \in Buckets /\ ~Placed(nss, db, b)
  /\ cfg \in BucketConfig
  /\ dyn \in BOOLEAN
  /\ dyn => cfg = nss[n].cfg.template /\ ~TooManyBuckets(nss[n])
  /\ ~dyn => cfg = nss[n].cfg.static[name]
  /\ nss2 = [nss EXCEPT ![n] = With(nss[n], name, b, dyn)]
  /\ bk2 = [bk EXCEPT ![b] = [cfg |-> cfg, dyn |-> dyn, activity |-> dyn /\ cfg.reapable]]

\* Putting a new bucket into an empty slot keeps the invariants.
LEMMA PutKeeps ==
  ASSUME NEW nss, NEW db, NEW bk, NEW cf, ContainerInv(nss, db, bk, cf),
         NEW n, NEW name, NEW b, NEW cfg, NEW dyn, NEW nss2, NEW bk2,
         Put(nss, db, bk, n, name, b, cfg, dyn, nss2, bk2)
  PROVE  /\ ContainerInv(nss2, db, bk2, cf)
         /\ Replaced(nss, nss2, n, name, b)
         /\ bk2[b].cfg = cfg /\ bk2[b].dyn = dyn
         /\ \A x \in Buckets \ {b} : bk2[x] = bk[x]
<1>0. /\ n \in Namespaces /\ name \in Names
      /\ nss[n] # None /\ At(nss, n, name) = None
      /\ b \in Buckets /\ ~Placed(nss, db, b)
      /\ cfg \in BucketConfig /\ dyn \in BOOLEAN
  BY DEF Put
<1> USE <1>0
<1>1. /\ nss \in [Namespaces -> NamespaceObject \cup {None}]
      /\ db \in Buckets \cup {None}
      /\ bk \in [Buckets -> BucketObject \cup {Dead}]
      /\ cf \in ServiceConfigs \cup {None}
  BY DEF ContainerInv, ContainerTypes
<1>2. name \in Slots /\ name # Default /\ Default \in Slots
  BY ContainerAssumption DEF Slots
<1>3. PICK u : u = With(nss[n], name, b, dyn)
  OBVIOUS
<1>4. /\ u \in NamespaceObject /\ u.cfg = nss[n].cfg
      /\ u.count = IF dyn THEN nss[n].count + 1 ELSE nss[n].count
      /\ \A s \in Slots : u.buckets[s] = IF s = name THEN b ELSE nss[n].buckets[s]
  BY <1>1, <1>2, <1>3, WithTypes
<1>5. Replaced(nss, nss2, n, name, b) /\ nss2[n] = u
  <2>1. nss2 = [nss EXCEPT ![n] = u] /\ b \in Buckets \cup {None}
    BY <1>3 DEF Put
  <2> QED
    BY ONLY <1>0, <1>1, <1>2, <1>4, <2>1, WithReplaces
<1>6. /\ bk2 \in [Buckets -> BucketObject \cup {Dead}]
      /\ bk2[b].cfg = cfg /\ bk2[b].dyn = dyn /\ bk2[b] # Dead
      /\ \A x \in Buckets \ {b} : bk2[x] = bk[x]
  <2>1. PICK r : r = [cfg |-> cfg, dyn |-> dyn, activity |-> dyn /\ cfg.reapable]
    OBVIOUS
  <2>2. cfg.reapable \in BOOLEAN
    BY DEF BucketConfig
  <2>3. (dyn /\ cfg.reapable) \in BOOLEAN
    BY <2>2
  <2>4. r \in BucketObject /\ r.cfg = cfg /\ r.dyn = dyn
    BY <2>1, <2>3 DEF BucketObject
  <2>5. r # Dead
    BY <2>4, ConfigAssumption DEF Dead
  <2>6. bk2 = [bk EXCEPT ![b] = r]
    BY <2>1 DEF Put
  <2> QED
    BY <1>1, <2>4, <2>5, <2>6
<1>7. ContainerTypes(nss2, db, bk2, cf)
  BY <1>1, <1>5, <1>6 DEF ContainerTypes, Replaced
<1>8. /\ \A m \in Namespaces, s \in Slots : At(nss, m, s) # b
      /\ b # db /\ b # None
  BY ContainerAssumption DEF Placed
<1>9. \A m \in Namespaces, s \in Slots :
        At(nss2, m, s) = IF m = n /\ s = name THEN b ELSE At(nss, m, s)
  BY <1>5 DEF Replaced
<1>10. \A m \in Namespaces, s \in Slots :
         At(nss, m, s) # None => bk2[At(nss, m, s)] = bk[At(nss, m, s)]
  BY <1>1, <1>6, <1>8, InSlots
<1>11. Distinct(nss2, db)
  <2> SUFFICES ASSUME NEW m \in Namespaces, NEW s \in Slots, At(nss2, m, s) # None
               PROVE  /\ At(nss2, m, s) # db
                      /\ \A p \in Namespaces, q \in Slots :
                           At(nss2, p, q) = At(nss2, m, s) => p = m /\ q = s
    BY DEF Distinct
  <2>1. CASE m = n /\ s = name
    BY <1>8, <1>9, <2>1
  <2>2. CASE ~(m = n /\ s = name)
    <3>1. At(nss2, m, s) = At(nss, m, s)
      BY <1>9, <2>2
    <3>2. /\ At(nss, m, s) # db
          /\ \A p \in Namespaces, q \in Slots :
               At(nss, p, q) = At(nss, m, s) => p = m /\ q = s
      BY <3>1 DEF ContainerInv, Distinct
    <3> QED
      BY <1>8, <1>9, <3>1, <3>2
  <2> QED
    BY <2>1, <2>2
<1>12. LivePlaced(nss2, db, bk2)
  <2>1. ASSUME NEW x \in Buckets PROVE Placed(nss2, db, x) <=> Placed(nss, db, x) \/ x = b
    <3>1. At(nss2, n, name) = b
      BY <1>2, <1>9
    <3>2. CASE x = b
      BY <1>2, <1>8, <3>1, <3>2 DEF Placed
    <3>3. CASE x # b
      <4>1. x # None
        BY ContainerAssumption
      <4>2. \A m \in Namespaces, s \in Slots : At(nss2, m, s) = x <=> At(nss, m, s) = x
        BY <1>9, <3>3, <4>1
      <4> QED
        BY <3>3, <4>2 DEF Placed
    <3> QED
      BY <3>2, <3>3
  <2> QED
    BY <1>6, <2>1 DEF ContainerInv, LivePlaced
<1>13. Counted(nss2, bk2)
  <2> SUFFICES ASSUME NEW m \in Namespaces, nss2[m] # None
               PROVE  /\ nss2[m].count = Cardinality(DynSlots(nss2, bk2, m))
                      /\ nss2[m].cfg.max > 0 => nss2[m].count <= nss2[m].cfg.max
    BY DEF Counted
  <2>1. CASE m # n
    <3>1. nss2[m] = nss[m]
      BY <1>5, <2>1 DEF Replaced
    <3>2. DynSlots(nss2, bk2, m) = DynSlots(nss, bk, m)
      BY <1>9, <1>10, <2>1 DEF DynSlots
    <3> QED
      BY <3>1, <3>2 DEF ContainerInv, Counted
  <2>2. CASE m = n
    <3>1. /\ nss[n].count = Cardinality(DynSlots(nss, bk, n))
          /\ nss[n].cfg.max > 0 => nss[n].count <= nss[n].cfg.max
          /\ nss[n].count \in Nat /\ nss[n].cfg.max \in Nat
      BY <1>1 DEF ContainerInv, Counted, NamespaceObject, NamespaceConfig
    <3>2. IsFiniteSet(DynSlots(nss, bk, n))
      <4>1. IsFiniteSet(Slots)
        BY ContainerAssumption, FS_AddElement DEF Slots
      <4>2. DynSlots(nss, bk, n) \in SUBSET Slots
        BY DEF DynSlots
      <4> QED
        BY <4>1, <4>2, FS_Subset
    <3>3. name \notin DynSlots(nss, bk, n)
      BY DEF DynSlots
    <3>0. At(nss2, n, name) = b
      BY <1>2, <1>9
    <3>6. \A s \in Slots \ {name} : s \in DynSlots(nss2, bk2, n) <=>
                                     s \in DynSlots(nss, bk, n)
      <4> SUFFICES ASSUME NEW s \in Slots \ {name}
                   PROVE  s \in DynSlots(nss2, bk2, n) <=> s \in DynSlots(nss, bk, n)
        OBVIOUS
      <4>1. At(nss2, n, s) = At(nss, n, s)
        BY <1>9
      <4>2. At(nss, n, s) # None => bk2[At(nss, n, s)] = bk[At(nss, n, s)]
        BY <1>10
      <4> QED
        BY <4>1, <4>2 DEF DynSlots
    <3>4. CASE dyn = TRUE
      <4>1. DynSlots(nss2, bk2, n) = DynSlots(nss, bk, n) \cup {name}
        <5>1. name \in DynSlots(nss2, bk2, n)
          BY <1>2, <1>6, <1>8, <3>0, <3>4 DEF DynSlots
        <5>2. DynSlots(nss2, bk2, n) \subseteq Slots /\ DynSlots(nss, bk, n) \subseteq Slots
          BY DEF DynSlots
        <5> QED
          BY <3>6, <5>1, <5>2
      <4>2. Cardinality(DynSlots(nss2, bk2, n)) = Cardinality(DynSlots(nss, bk, n)) + 1
        BY <3>2, <3>3, <4>1, FS_AddElement
      <4>3. nss2[n].count = nss[n].count + 1 /\ nss2[n].cfg = nss[n].cfg
        BY <1>4, <1>5, <3>4
      <4>4. nss[n].cfg.max > 0 => nss[n].count + 1 <= nss[n].cfg.max
        BY <3>1, <3>4 DEF TooManyBuckets, Put
      <4> QED
        BY <2>2, <3>1, <4>2, <4>3, <4>4
    <3>5. CASE dyn = FALSE
      <4>1. DynSlots(nss2, bk2, n) = DynSlots(nss, bk, n)
        <5>1. name \notin DynSlots(nss2, bk2, n)
          BY <1>2, <1>6, <1>8, <3>0, <3>5 DEF DynSlots
        <5>2. DynSlots(nss2, bk2, n) \subseteq Slots /\ DynSlots(nss, bk, n) \subseteq Slots
          BY DEF DynSlots
        <5>3. \A s \in Slots : s \in DynSlots(nss2, bk2, n) <=> s \in DynSlots(nss, bk, n)
          BY <3>3, <3>6, <5>1
        <5> QED
          BY <5>2, <5>3
      <4>2. nss2[n].count = nss[n].count /\ nss2[n].cfg = nss[n].cfg
        BY <1>4, <1>5, <3>5
      <4> QED
        BY <2>2, <3>1, <4>1, <4>2
    <3> QED
      BY <3>4, <3>5
  <2> QED
    BY <2>1, <2>2
<1>14. BucketsConfigured(nss2, bk2)
  <2>1. bk2[b].cfg = IF bk2[b].dyn THEN nss2[n].cfg.template
                     ELSE InitialBucketCfg(nss2[n].cfg, name)
    <3>1. cfg = IF dyn THEN nss[n].cfg.template ELSE nss[n].cfg.static[name]
      BY DEF Put
    <3> QED
      BY <1>2, <1>4, <1>5, <1>6, <3>1 DEF InitialBucketCfg
  <2>2. \A m \in Namespaces : (nss2[m] # None <=> nss[m] # None) /\
                              (nss[m] # None => nss2[m].cfg = nss[m].cfg)
    BY <1>5 DEF Replaced
  <2>3. \A m \in Namespaces, s \in Slots : ~(m = n /\ s = name) =>
          At(nss2, m, s) = At(nss, m, s)
    BY <1>9
  <2>4. At(nss2, n, name) = b
    BY <1>2, <1>9
  <2> SUFFICES ASSUME NEW m \in Namespaces, nss2[m] # None
               PROVE  /\ \A s \in Slots : At(nss2, m, s) # None =>
                           bk2[At(nss2, m, s)].cfg =
                             IF bk2[At(nss2, m, s)].dyn THEN nss2[m].cfg.template
                             ELSE InitialBucketCfg(nss2[m].cfg, s)
                      /\ At(nss2, m, Default) = None => nss2[m].cfg.default = None
    BY DEF BucketsConfigured
  <2>5. ASSUME NEW s \in Slots, At(nss2, m, s) # None
        PROVE  bk2[At(nss2, m, s)].cfg =
                 IF bk2[At(nss2, m, s)].dyn THEN nss2[m].cfg.template
                 ELSE InitialBucketCfg(nss2[m].cfg, s)
    <3>1. CASE m = n /\ s = name
      BY <2>1, <2>4, <3>1
    <3>2. CASE ~(m = n /\ s = name)
      <4>1. At(nss2, m, s) = At(nss, m, s) /\ bk2[At(nss, m, s)] = bk[At(nss, m, s)]
        BY <1>10, <2>3, <2>5, <3>2
      <4> QED
        BY <2>2, <2>5, <4>1 DEF ContainerInv, BucketsConfigured
    <3> QED
      BY <3>1, <3>2
  <2>6. At(nss2, m, Default) = None => nss2[m].cfg.default = None
    BY <1>2, <2>2, <2>3 DEF ContainerInv, BucketsConfigured
  <2> QED
    BY <2>5, <2>6
<1>15. ConfigLoaded(nss2, db, bk2, cf)
  <2>1. \A m \in Namespaces : (nss2[m] # None <=> nss[m] # None) /\
                              (nss[m] # None => nss2[m].cfg = nss[m].cfg)
    BY <1>5 DEF Replaced
  <2>2. db # None => bk2[db] = bk[db]
    BY <1>1, <1>6, <1>8
  <2> QED
    BY <2>1, <2>2 DEF ContainerInv, ConfigLoaded
<1> QED
  BY <1>5, <1>6, <1>7, <1>11, <1>12, <1>13, <1>14, <1>15 DEF ContainerInv

-----------------------------------------------------------------------------
(***************************************************************************)
(* Activity, and removing the bucket of a slot.                            *)
(***************************************************************************)

\* Two sets of bucket objects that differ in the activity they have seen.
SameButActivity(bk, bk2) ==
  /\ bk2 \in [Buckets -> BucketObject \cup {Dead}]
  /\ \A x \in Buckets :
       /\ bk2[x] = Dead <=> bk[x] = Dead
       /\ bk[x] # Dead => bk2[x].cfg = bk[x].cfg /\ bk2[x].dyn = bk[x].dyn

LEMMA TouchTypes ==
  ASSUME NEW bk \in [Buckets -> BucketObject \cup {Dead}], NEW b \in Buckets,
         bk[b] # Dead, NEW v \in BOOLEAN
  PROVE  SameButActivity(bk, [bk EXCEPT ![b].activity = v])
<1>1. PICK r : r = [bk[b] EXCEPT !.activity = v]
  OBVIOUS
<1>2. bk[b] \in BucketObject
  OBVIOUS
<1>3. r \in BucketObject /\ r.cfg = bk[b].cfg /\ r.dyn = bk[b].dyn
  BY <1>1, <1>2 DEF BucketObject
<1>4. r # Dead
  BY <1>3, ConfigAssumption DEF Dead
<1>5. PICK bk2 : bk2 = [bk EXCEPT ![b] = r]
  OBVIOUS
<1>6. bk2 = [bk EXCEPT ![b].activity = v]
  BY <1>1, <1>5
<1>7. bk2 \in [Buckets -> BucketObject \cup {Dead}]
  BY <1>3, <1>5
<1>8. bk2[b] = r /\ \A x \in Buckets \ {b} : bk2[x] = bk[x]
  BY <1>5
<1>9. SameButActivity(bk, bk2)
  BY <1>3, <1>4, <1>7, <1>8 DEF SameButActivity
<1> QED
  BY <1>6, <1>9

LEMMA TouchKeeps ==
  ASSUME NEW nss, NEW db, NEW bk, NEW cf, ContainerInv(nss, db, bk, cf),
         NEW bk2, SameButActivity(bk, bk2)
  PROVE  ContainerInv(nss, db, bk2, cf)
<1>1. /\ nss \in [Namespaces -> NamespaceObject \cup {None}]
      /\ db \in Buckets \cup {None}
      /\ LivePlaced(nss, db, bk)
  BY DEF ContainerInv, ContainerTypes
<1>2. ASSUME NEW b \in Buckets, Placed(nss, db, b)
      PROVE  bk2[b].cfg = bk[b].cfg /\ bk2[b].dyn = bk[b].dyn
  BY <1>1, <1>2 DEF LivePlaced, SameButActivity
<1>3. \A n \in Namespaces, s \in Slots : At(nss, n, s) # None =>
        /\ bk2[At(nss, n, s)].cfg = bk[At(nss, n, s)].cfg
        /\ bk2[At(nss, n, s)].dyn = bk[At(nss, n, s)].dyn
  BY <1>1, <1>2, InSlots
<1>4. db # None => bk2[db].cfg = bk[db].cfg
  BY <1>1, <1>2 DEF Placed
<1>5. ContainerTypes(nss, db, bk2, cf) /\ Distinct(nss, db)
  BY DEF ContainerInv, ContainerTypes, SameButActivity
<1>6. LivePlaced(nss, db, bk2)
  BY <1>1 DEF LivePlaced, SameButActivity
<1>7. \A n \in Namespaces : DynSlots(nss, bk2, n) = DynSlots(nss, bk, n)
  BY <1>3 DEF DynSlots
<1>8. Counted(nss, bk2)
  BY <1>7 DEF ContainerInv, Counted
<1>9. BucketsConfigured(nss, bk2)
  BY <1>3 DEF ContainerInv, BucketsConfigured
<1>10. ConfigLoaded(nss, db, bk2, cf)
  BY <1>4 DEF ContainerInv, ConfigLoaded
<1> QED
  BY <1>5, <1>6, <1>8, <1>9, <1>10 DEF ContainerInv

\* The bucket of a slot is destroyed as the slot is emptied, which leaves u of
\* the namespace.
Removed(nss, bk, n, name, b, u, nss2, bk2) ==
  /\ n \in Namespaces /\ name \in Names
  /\ nss[n] # None
  /\ b = At(nss, n, name) /\ b # None
  /\ u = [nss[n] EXCEPT !.buckets[name] = None,
                        !.count = IF bk[b] # Dead /\ bk[b].dyn THEN @ - 1 ELSE @]
  /\ nss2 = [nss EXCEPT ![n] = u]
  /\ bk2 = [bk EXCEPT ![b] = Dead]

LEMMA RemoveKeeps ==
  ASSUME NEW nss, NEW db, NEW bk, NEW cf, ContainerInv(nss, db, bk, cf),
         NEW n, NEW name, NEW b, NEW u, NEW nss2, NEW bk2,
         Removed(nss, bk, n, name, b, u, nss2, bk2)
  PROVE  /\ ContainerInv(nss2, db, bk2, cf)
         /\ Replaced(nss, nss2, n, name, None)
         /\ \A x \in Buckets \ {b} : bk2[x] = bk[x]
<1>0. /\ n \in Namespaces /\ name \in Names
      /\ nss[n] # None
      /\ b = At(nss, n, name) /\ b # None
  BY DEF Removed
<1> USE <1>0
<1>1. /\ nss \in [Namespaces -> NamespaceObject \cup {None}]
      /\ db \in Buckets \cup {None}
      /\ bk \in [Buckets -> BucketObject \cup {Dead}]
      /\ cf \in ServiceConfigs \cup {None}
      /\ nss[n] \in NamespaceObject
  BY DEF ContainerInv, ContainerTypes
<1>2. name \in Slots /\ name # Default /\ Default \in Slots
  BY ContainerAssumption DEF Slots
<1>3. b \in Buckets /\ Placed(nss, db, b) /\ bk[b] # Dead
  <2>1. b \in Buckets /\ Placed(nss, db, b)
    BY <1>1, <1>2, InSlots
  <2> QED
    BY <2>1 DEF ContainerInv, LivePlaced
<1>4. /\ nss[n].count = Cardinality(DynSlots(nss, bk, n))
      /\ nss[n].cfg.max > 0 => nss[n].count <= nss[n].cfg.max
      /\ nss[n].count \in Nat /\ nss[n].cfg.max \in Nat
  BY <1>1 DEF ContainerInv, Counted, NamespaceObject, NamespaceConfig
<1>5. IsFiniteSet(DynSlots(nss, bk, n))
  <2>1. IsFiniteSet(Slots)
    BY ContainerAssumption, FS_AddElement DEF Slots
  <2>2. DynSlots(nss, bk, n) \in SUBSET Slots
    BY DEF DynSlots
  <2> QED
    BY <2>1, <2>2, FS_Subset
<1>6. bk[b].dyn \in BOOLEAN
  BY <1>1, <1>3 DEF BucketObject
<1>7. name \in DynSlots(nss, bk, n) <=> bk[b].dyn
  BY <1>2 DEF DynSlots
<1>8. Cardinality(DynSlots(nss, bk, n) \ {name}) =
        IF bk[b].dyn THEN nss[n].count - 1 ELSE nss[n].count
  <2>1. Cardinality(DynSlots(nss, bk, n) \ {name}) =
          IF name \in DynSlots(nss, bk, n) THEN Cardinality(DynSlots(nss, bk, n)) - 1
          ELSE Cardinality(DynSlots(nss, bk, n))
    BY ONLY <1>5, FS_RemoveElement
  <2> QED
    BY <1>4, <1>7, <2>1
<1>9. PICK k \in Nat : /\ k = IF bk[b].dyn THEN nss[n].count - 1 ELSE nss[n].count
                       /\ k = Cardinality(DynSlots(nss, bk, n) \ {name})
  <2>1. IsFiniteSet(DynSlots(nss, bk, n) \ {name})
    BY <1>5, FS_RemoveElement
  <2> QED
    BY <1>8, <2>1, FS_CardinalityType
<1>10. /\ u \in NamespaceObject /\ u.cfg = nss[n].cfg /\ u.count = k
       /\ \A s \in Slots : u.buckets[s] = IF s = name THEN None ELSE nss[n].buckets[s]
  <2>1. PICK f : f = [nss[n].buckets EXCEPT ![name] = None]
    OBVIOUS
  <2>2. /\ f \in [Slots -> Buckets \cup {None}]
        /\ \A s \in Slots : f[s] = IF s = name THEN None ELSE nss[n].buckets[s]
    BY <1>1, <2>1 DEF NamespaceObject
  <2>3. (IF bk[b] # Dead /\ bk[b].dyn THEN nss[n].count - 1 ELSE nss[n].count) = k
    BY <1>3, <1>9
  <2>4. u = [nss[n] EXCEPT !.buckets = f, !.count = k]
    BY <2>1, <2>3 DEF Removed
  <2>5. u \in NamespaceObject /\ u.cfg = nss[n].cfg /\ u.count = k /\ u.buckets = f
    BY <1>1, <1>9, <2>2, <2>4 DEF NamespaceObject
  <2> QED
    BY <2>2, <2>5
<1>11. Replaced(nss, nss2, n, name, None) /\ nss2[n] = u
  <2> DEFINE none == None
  <2>1. none \in Buckets \cup {None}
    OBVIOUS
  <2>2. \A s \in Slots : u.buckets[s] = IF s = name THEN none ELSE nss[n].buckets[s]
    BY <1>10
  <2> HIDE DEF none
  <2>3. Replaced(nss, nss2, n, name, none) /\ nss2[n] = u
    <3>1. nss2 = [nss EXCEPT ![n] = u] /\ n \in Namespaces /\ nss[n] # None
      BY DEF Removed
    <3> QED
      BY ONLY <1>1, <1>2, <1>10, <2>1, <2>2, <3>1, WithReplaces
  <2> QED
    BY <2>3 DEF none
<1>12. /\ bk2 \in [Buckets -> BucketObject \cup {Dead}]
       /\ bk2[b] = Dead
       /\ \A x \in Buckets \ {b} : bk2[x] = bk[x]
  BY <1>1, <1>3 DEF Removed
<1>13. \A m \in Namespaces, s \in Slots :
         At(nss2, m, s) = IF m = n /\ s = name THEN None ELSE At(nss, m, s)
  BY <1>11 DEF Replaced
<1>14. \A m \in Namespaces, s \in Slots :
         At(nss, m, s) = b => m = n /\ s = name
  BY <1>2 DEF ContainerInv, Distinct
<1>15. b # db
  BY <1>2 DEF ContainerInv, Distinct
<1>16. \A m \in Namespaces, s \in Slots : At(nss2, m, s) # None =>
         /\ At(nss2, m, s) = At(nss, m, s)
         /\ At(nss, m, s) \in Buckets \ {b}
         /\ bk2[At(nss, m, s)] = bk[At(nss, m, s)]
  <2> SUFFICES ASSUME NEW m \in Namespaces, NEW s \in Slots, At(nss2, m, s) # None
               PROVE  /\ At(nss2, m, s) = At(nss, m, s)
                      /\ At(nss, m, s) \in Buckets \ {b}
                      /\ bk2[At(nss, m, s)] = bk[At(nss, m, s)]
    OBVIOUS
  <2>1. ~(m = n /\ s = name) /\ At(nss2, m, s) = At(nss, m, s)
    BY <1>13
  <2>2. At(nss, m, s) # b /\ At(nss, m, s) # None
    BY <1>14, <2>1
  <2>3. At(nss, m, s) \in Buckets
    BY <1>1, <2>2, InSlots
  <2> QED
    BY <1>12, <2>1, <2>2, <2>3
<1>17. ContainerTypes(nss2, db, bk2, cf)
  BY <1>1, <1>11, <1>12 DEF ContainerTypes, Replaced
<1>18. Distinct(nss2, db)
  <2> SUFFICES ASSUME NEW m \in Namespaces, NEW s \in Slots, At(nss2, m, s) # None
               PROVE  /\ At(nss2, m, s) # db
                      /\ \A p \in Namespaces, q \in Slots :
                           At(nss2, p, q) = At(nss2, m, s) => p = m /\ q = s
    BY DEF Distinct
  <2>1. At(nss2, m, s) = At(nss, m, s)
    BY <1>16
  <2>2. /\ At(nss, m, s) # db
        /\ \A p \in Namespaces, q \in Slots :
             At(nss, p, q) = At(nss, m, s) => p = m /\ q = s
    BY <2>1 DEF ContainerInv, Distinct
  <2> QED
    BY <1>13, <2>1, <2>2
<1>19. LivePlaced(nss2, db, bk2)
  <2>1. ASSUME NEW x \in Buckets
        PROVE  Placed(nss2, db, x) <=> Placed(nss, db, x) /\ x # b
    <3>1. x # None
      BY ContainerAssumption
    <3>2. \A m \in Namespaces, s \in Slots :
            At(nss2, m, s) = x <=> At(nss, m, s) = x /\ x # b
      BY <1>13, <1>14, <3>1
    <3> QED
      BY <1>15, <3>2 DEF Placed
  <2> QED
    BY <1>3, <1>12, <2>1 DEF ContainerInv, LivePlaced
<1>20. Counted(nss2, bk2)
  <2> SUFFICES ASSUME NEW m \in Namespaces, nss2[m] # None
               PROVE  /\ nss2[m].count = Cardinality(DynSlots(nss2, bk2, m))
                      /\ nss2[m].cfg.max > 0 => nss2[m].count <= nss2[m].cfg.max
    BY DEF Counted
  <2>1. \A s \in Slots : s \in DynSlots(nss2, bk2, m) <=>
                           s \in DynSlots(nss, bk, m) /\ ~(m = n /\ s = name)
    <3> SUFFICES ASSUME NEW s \in Slots
                 PROVE  s \in DynSlots(nss2, bk2, m) <=>
                          s \in DynSlots(nss, bk, m) /\ ~(m = n /\ s = name)
      OBVIOUS
    <3>1. CASE m = n /\ s = name
      <4>1. At(nss2, m, s) = None
        BY <1>13, <3>1
      <4> QED
        BY <3>1, <4>1 DEF DynSlots
    <3>2. CASE ~(m = n /\ s = name)
      <4>1. At(nss2, m, s) = At(nss, m, s)
        BY <1>13, <3>2
      <4>2. At(nss, m, s) # None => bk2[At(nss, m, s)] = bk[At(nss, m, s)]
        BY <1>16, <4>1
      <4> QED
        BY <3>2, <4>1, <4>2 DEF DynSlots
    <3> QED
      BY <3>1, <3>2
  <2>2. /\ DynSlots(nss2, bk2, m) \subseteq Slots
        /\ DynSlots(nss, bk, m) \subseteq Slots
    BY DEF DynSlots
  <2>3. CASE m # n
    <3>1. nss2[m] = nss[m]
      BY <1>11, <2>3 DEF Replaced
    <3>2. DynSlots(nss2, bk2, m) = DynSlots(nss, bk, m)
      BY <2>1, <2>2, <2>3
    <3> QED
      BY <3>1, <3>2 DEF ContainerInv, Counted
  <2>4. CASE m = n
    <3>1. DynSlots(nss2, bk2, n) = DynSlots(nss, bk, n) \ {name}
      BY <2>1, <2>2, <2>4
    <3>2. k <= nss[n].count
      BY <1>4, <1>9
    <3>3. nss2[n].count = k /\ nss2[n].cfg = nss[n].cfg
      BY <1>10, <1>11
    <3>4. nss[n].cfg.max > 0 => k <= nss[n].cfg.max
      BY <1>4, <3>2
    <3> QED
      BY <1>9, <2>4, <3>1, <3>3, <3>4
  <2> QED
    BY <2>3, <2>4
<1>21. \A m \in Namespaces : (nss2[m] # None <=> nss[m] # None) /\
                             (nss[m] # None => nss2[m].cfg = nss[m].cfg)
  BY <1>11 DEF Replaced
<1>22. BucketsConfigured(nss2, bk2)
  <2> SUFFICES ASSUME NEW m \in Namespaces, nss2[m] # None
               PROVE  /\ \A s \in Slots : At(nss2, m, s) # None =>
                           bk2[At(nss2, m, s)].cfg =
                             IF bk2[At(nss2, m, s)].dyn THEN nss2[m].cfg.template
                             ELSE InitialBucketCfg(nss2[m].cfg, s)
                      /\ At(nss2, m, Default) = None => nss2[m].cfg.default = None
    BY DEF BucketsConfigured
  <2>1. At(nss2, m, Default) = At(nss, m, Default)
    BY <1>2, <1>13
  <2>2. nss[m] # None /\ nss2[m].cfg = nss[m].cfg
    BY <1>21
  <2>3. ASSUME NEW s \in Slots, At(nss2, m, s) # None
        PROVE  bk2[At(nss2, m, s)].cfg =
                 IF bk2[At(nss2, m, s)].dyn THEN nss2[m].cfg.template
                 ELSE InitialBucketCfg(nss2[m].cfg, s)
    <3>1. At(nss2, m, s) = At(nss, m, s) /\ bk2[At(nss, m, s)] = bk[At(nss, m, s)]
      BY <1>16, <2>3
    <3> QED
      BY <2>2, <2>3, <3>1 DEF ContainerInv, BucketsConfigured
  <2>4. At(nss2, m, Default) = None => nss2[m].cfg.default = None
    BY <2>1, <2>2 DEF ContainerInv, BucketsConfigured
  <2> QED
    BY <2>3, <2>4
<1>23. ConfigLoaded(nss2, db, bk2, cf)
  <2>1. db # None => bk2[db] = bk[db]
    BY <1>1, <1>12, <1>15
  <2> QED
    BY <1>21, <2>1 DEF ContainerInv, ConfigLoaded
<1> QED
  BY <1>11, <1>12, <1>17, <1>18, <1>19, <1>20, <1>22, <1>23 DEF ContainerInv

-----------------------------------------------------------------------------
(***************************************************************************)
(* Loading a configuration.                                                *)
(***************************************************************************)

\* A set with room for another one has room for it one to one.
LEMMA RoomForAll ==
  ASSUME NEW S, NEW T, IsFiniteSet(S), IsFiniteSet(T), Cardinality(S) <= Cardinality(T)
  PROVE  \E f \in [S -> T] : IsInjective(f)
<1>1. /\ Cardinality(S) \in Nat /\ Cardinality(T) \in Nat
      /\ ExistsBijection(1..Cardinality(S), S) /\ ExistsBijection(1..Cardinality(T), T)
  BY FS_CardinalityType
<1>2. PICK g : g \in Bijection(1..Cardinality(S), S)
  BY <1>1 DEF ExistsBijection
<1>3. PICK h : h \in Bijection(1..Cardinality(T), T)
  BY <1>1 DEF ExistsBijection
<1>4. \A x \in S : \E i \in 1..Cardinality(S) : g[i] = x
  BY <1>2 DEF Bijection, Surjection
<1>5. /\ h \in [1..Cardinality(T) -> T]
      /\ \A i, j \in 1..Cardinality(T) : h[i] = h[j] => i = j
  BY <1>3 DEF Bijection, Injection, IsInjective
<1>6. PICK k : k = [x \in S |-> CHOOSE i \in 1..Cardinality(S) : g[i] = x]
  OBVIOUS
<1>7. \A x \in S : k[x] \in 1..Cardinality(S) /\ g[k[x]] = x
  BY <1>4, <1>6
<1>8. \A x \in S : k[x] \in 1..Cardinality(T)
  BY <1>1, <1>7
<1>9. PICK f : f = [x \in S |-> h[k[x]]]
  OBVIOUS
<1>10. f \in [S -> T]
  BY <1>5, <1>8, <1>9
<1>11. ASSUME NEW x \in S, NEW y \in S, f[x] = f[y] PROVE x = y
  <2>1. k[x] = k[y]
    BY <1>5, <1>8, <1>9, <1>11
  <2> QED
    BY <1>7, <2>1
<1>12. IsInjective(f)
  BY <1>10, <1>11 DEF IsInjective
<1> QED
  BY <1>10, <1>12

LEMMA InitialBucketTypes ==
  ASSUME NEW c \in NamespaceConfig, NEW s \in Slots
  PROVE  InitialBucketCfg(c, s) \in BucketConfig \cup {None}
BY DEF InitialBucketCfg, NamespaceConfig, Slots

(***************************************************************************)
(* The container after an update that destroys the namespaces of D and     *)
(* creates those of C, that replaces the default bucket if dc, and that    *)
(* takes the bucket for place p of new from F.                             *)
(***************************************************************************)
Updated(nss, db, bk, cfg, D, C, dc, new, F, ids, nss2, db2, bk2) ==
  /\ D = {n \in Namespaces : nss[n] # None /\ nss[n].cfg # cfg.namespaces[n]}
  /\ C = {n \in Namespaces : cfg.namespaces[n] # None /\ (nss[n] = None \/ n \in D)}
  /\ dc \in BOOLEAN
  /\ dc <=> (IF db = None THEN None ELSE bk[db].cfg) # cfg.default
  /\ \A n \in Namespaces, s \in Slots :
       <<n, s>> \in new <=> n \in C /\ InitialBucketCfg(cfg.namespaces[n], s) # None
  /\ GlobalSlot \in new <=> dc /\ cfg.default # None
  /\ \A p \in new : p # GlobalSlot =>
       \E n \in Namespaces, s \in Slots : p = <<n, s>>
  /\ F \subseteq Buckets
  /\ \A b \in F : ~Placed(nss, db, b)
  /\ ids \in [new -> F]
  /\ \A p \in new : \A q \in new : ids[p] = ids[q] => p = q
  /\ nss2 \in [Namespaces -> NamespaceObject \cup {None}]
  /\ \A n \in C : /\ nss2[n] # None /\ nss2[n].cfg = cfg.namespaces[n] /\ nss2[n].count = 0
                  /\ \A s \in Slots : nss2[n].buckets[s] =
                       IF <<n, s>> \in new THEN ids[<<n, s>>] ELSE None
  /\ \A n \in Namespaces \ C : n \in D \/ nss[n] = None => nss2[n] = None
  /\ \A n \in Namespaces \ (C \cup D) : nss[n] # None =>
       /\ nss2[n] # None /\ nss2[n].cfg = cfg.namespaces[n]
       /\ nss2[n].count = nss[n].count /\ nss2[n].buckets = nss[n].buckets
  /\ db2 = IF dc THEN IF GlobalSlot \in new THEN ids[GlobalSlot] ELSE None ELSE db
  /\ bk2 \in [Buckets -> BucketObject \cup {Dead}]
  /\ \A p \in new : /\ bk2[ids[p]] # Dead /\ ~bk2[ids[p]].dyn
                    /\ bk2[ids[p]].cfg = BucketCfgOf(cfg, p)
  /\ \A b \in Buckets : (\A p \in new : ids[p] # b) =>
       bk2[b] = IF \/ \E n \in D, s \in Slots : At(nss, n, s) = b
                   \/ dc /\ b = db
                THEN Dead ELSE bk[b]

LEMMA UpdateKeeps ==
  ASSUME NEW nss, NEW db, NEW bk, NEW cf, ContainerInv(nss, db, bk, cf),
         NEW cfg \in ServiceConfigs, NEW D, NEW C, NEW dc, NEW new, NEW F, NEW ids,
         NEW nss2, NEW db2, NEW bk2,
         Updated(nss, db, bk, cfg, D, C, dc, new, F, ids, nss2, db2, bk2)
  PROVE  /\ ContainerInv(nss2, db2, bk2, cfg)
         /\ \A b \in Buckets : Placed(nss2, db2, b) =>
              b \in F \/ (Placed(nss, db, b) /\ \A n \in D, s \in Slots : At(nss, n, s) # b)
         /\ \A n \in Namespaces, s \in Slots :
              At(nss2, n, s) # None /\ bk2[At(nss2, n, s)].dyn =>
                /\ At(nss, n, s) = At(nss2, n, s)
                /\ bk[At(nss, n, s)] = bk2[At(nss2, n, s)]
<1>1. /\ nss \in [Namespaces -> NamespaceObject \cup {None}]
      /\ db \in Buckets \cup {None}
      /\ bk \in [Buckets -> BucketObject \cup {Dead}]
      /\ Distinct(nss, db) /\ LivePlaced(nss, db, bk)
      /\ Counted(nss, bk) /\ BucketsConfigured(nss, bk)
  BY DEF ContainerInv, ContainerTypes
<1>2. /\ cfg \in ServiceConfig
      /\ cfg.default \in BucketConfig \cup {None}
      /\ \A n \in Namespaces : cfg.namespaces[n] \in NamespaceConfig \cup {None}
  BY ConfigAssumption DEF ServiceConfig
<1>3. /\ D \subseteq Namespaces /\ C \subseteq Namespaces
      /\ \A n \in D : nss[n] # None
  BY DEF Updated
<1>4. ASSUME NEW n \in Namespaces
      PROVE  /\ nss2[n] = None <=> cfg.namespaces[n] = None
             /\ nss2[n] # None => nss2[n].cfg = cfg.namespaces[n]
             /\ n \notin C \cup D /\ nss[n] # None => nss[n].cfg = cfg.namespaces[n]
  <2>1. nss[n] # None => nss[n].cfg # None
    <3>1. nss[n] # None => nss[n].cfg \in NamespaceConfig
      BY <1>1 DEF NamespaceObject
    <3> QED
      BY <3>1, ConfigAssumption
  <2>2. n \in D <=> nss[n] # None /\ nss[n].cfg # cfg.namespaces[n]
    BY DEF Updated
  <2>3. n \in C <=> cfg.namespaces[n] # None /\ (nss[n] = None \/ n \in D)
    BY DEF Updated
  <2>4. /\ n \in C => nss2[n] # None /\ nss2[n].cfg = cfg.namespaces[n]
        /\ n \notin C /\ (n \in D \/ nss[n] = None) => nss2[n] = None
        /\ n \notin C /\ n \notin D /\ nss[n] # None =>
             nss2[n] # None /\ nss2[n].cfg = cfg.namespaces[n]
    BY DEF Updated
  <2> QED
    BY <2>1, <2>2, <2>3, <2>4
<1>5. ASSUME NEW n \in C, NEW s \in Slots
      PROVE  At(nss2, n, s) = IF <<n, s>> \in new THEN ids[<<n, s>>] ELSE None
  BY DEF Updated, At
<1>6. ASSUME NEW n \in Namespaces \ C, NEW s \in Slots
      PROVE  At(nss2, n, s) = IF n \in D THEN None ELSE At(nss, n, s)
  BY DEF Updated, At
<1>7. ASSUME NEW p \in new
      PROVE  /\ ids[p] \in F /\ ids[p] \in Buckets /\ ids[p] # None
             /\ ~Placed(nss, db, ids[p])
             /\ bk2[ids[p]] # Dead /\ ~bk2[ids[p]].dyn
             /\ bk2[ids[p]].cfg = BucketCfgOf(cfg, p)
  BY ContainerAssumption DEF Updated
\* The place of a bucket that is kept.
<1>8. ASSUME NEW n \in Namespaces \ (C \cup D), NEW s \in Slots, At(nss, n, s) # None
      PROVE  /\ At(nss, n, s) \in Buckets
             /\ Placed(nss, db, At(nss, n, s))
             /\ bk2[At(nss, n, s)] = bk[At(nss, n, s)]
             /\ \A p \in new : ids[p] # At(nss, n, s)
             /\ At(nss, n, s) # db
  <2>1. At(nss, n, s) \in Buckets /\ Placed(nss, db, At(nss, n, s))
    BY <1>1, <1>8, InSlots
  <2>2. \A p \in new : ids[p] # At(nss, n, s)
    BY <1>7, <2>1
  <2>3. /\ At(nss, n, s) # db
        /\ \A m \in Namespaces, t \in Slots : At(nss, m, t) = At(nss, n, s) => m = n /\ t = s
    BY <1>1, <1>8 DEF Distinct
  <2>4. ~ \E m \in D, t \in Slots : At(nss, m, t) = At(nss, n, s)
    BY <1>3, <2>3
  <2> QED
    BY <2>1, <2>2, <2>3, <2>4 DEF Updated
<1>9. /\ dc /\ cfg.default = None => db2 = None
      /\ dc /\ cfg.default # None => GlobalSlot \in new /\ db2 = ids[GlobalSlot]
      /\ ~dc => db2 = db
  BY DEF Updated
<1>10. ~dc /\ db # None => db \in Buckets /\ Placed(nss, db, db) /\ bk2[db] = bk[db]
  <2> SUFFICES ASSUME ~dc, db # None
               PROVE  db \in Buckets /\ Placed(nss, db, db) /\ bk2[db] = bk[db]
    OBVIOUS
  <2>1. db \in Buckets /\ Placed(nss, db, db)
    BY <1>1 DEF Placed
  <2>2. \A p \in new : ids[p] # db
    BY <1>7, <2>1
  <2>3. ~ \E m \in D, t \in Slots : At(nss, m, t) = db
    BY <1>1, <1>3 DEF Distinct
  <2> QED
    BY <2>1, <2>2, <2>3 DEF Updated
<1>11. \A n \in Namespaces, s \in Slots : <<n, s>> # GlobalSlot
  BY ContainerAssumption DEF GlobalSlot
<1>12. ContainerTypes(nss2, db2, bk2, cfg)
  <2>1. db2 \in Buckets \cup {None}
    BY <1>1, <1>7, <1>9 DEF Updated
  <2> QED
    BY <2>1 DEF ContainerTypes, Updated
\* Every slot is empty, new or kept.
<1>13. ASSUME NEW n \in Namespaces, NEW s \in Slots, At(nss2, n, s) # None
       PROVE  \/ n \in C /\ <<n, s>> \in new /\ At(nss2, n, s) = ids[<<n, s>>]
              \/ n \notin C \cup D /\ At(nss2, n, s) = At(nss, n, s)
  BY <1>5, <1>6, <1>13
<1>14. Distinct(nss2, db2)
  <2> SUFFICES ASSUME NEW n \in Namespaces, NEW s \in Slots, At(nss2, n, s) # None
               PROVE  /\ At(nss2, n, s) # db2
                      /\ \A m \in Namespaces, t \in Slots :
                           At(nss2, m, t) = At(nss2, n, s) => m = n /\ t = s
    BY DEF Distinct
  <2>1. CASE n \in C /\ <<n, s>> \in new /\ At(nss2, n, s) = ids[<<n, s>>]
    <3>1. ids[<<n, s>>] # db2
      <4>1. dc => ids[<<n, s>>] # db2
        <5>1. ASSUME GlobalSlot \in new PROVE ids[<<n, s>>] # ids[GlobalSlot]
          BY <1>11, <2>1, <5>1 DEF Updated
        <5> QED
          BY <1>7, <1>9, <2>1, <5>1
      <4>2. ~dc => ids[<<n, s>>] # db2
        BY <1>7, <1>9, <1>10, <2>1
      <4> QED
        BY <4>1, <4>2
    <3>2. ASSUME NEW m \in Namespaces, NEW t \in Slots, At(nss2, m, t) = At(nss2, n, s)
          PROVE  m = n /\ t = s
      <4>1. CASE m \in C /\ <<m, t>> \in new /\ At(nss2, m, t) = ids[<<m, t>>]
        <5>1. \A p \in new : \A q \in new : ids[p] = ids[q] => p = q
          BY DEF Updated
        <5>2. ids[<<m, t>>] = ids[<<n, s>>]
          BY <2>1, <3>2, <4>1
        <5>3. <<m, t>> = <<n, s>>
          BY <2>1, <4>1, <5>1, <5>2
        <5> QED
          BY <5>3
      <4>2. CASE m \notin C \cup D /\ At(nss2, m, t) = At(nss, m, t)
        BY <1>8, <2>1, <3>2, <4>2
      <4> QED
        BY <1>13, <3>2, <4>1, <4>2
    <3> QED
      BY <2>1, <3>1, <3>2
  <2>2. CASE n \notin C \cup D /\ At(nss2, n, s) = At(nss, n, s)
    <3>1. At(nss, n, s) # db2
      <4>1. dc => At(nss, n, s) # db2
        BY <1>8, <1>9, <2>2
      <4>2. ~dc => At(nss, n, s) # db2
        BY <1>8, <1>9, <2>2
      <4> QED
        BY <4>1, <4>2
    <3>2. ASSUME NEW m \in Namespaces, NEW t \in Slots, At(nss2, m, t) = At(nss2, n, s)
          PROVE  m = n /\ t = s
      <4>1. CASE m \in C /\ <<m, t>> \in new /\ At(nss2, m, t) = ids[<<m, t>>]
        BY <1>8, <2>2, <3>2, <4>1
      <4>2. CASE m \notin C \cup D /\ At(nss2, m, t) = At(nss, m, t)
        <5>1. At(nss, m, t) = At(nss, n, s) /\ At(nss, n, s) # None
          BY <2>2, <3>2, <4>2
        <5> QED
          BY <1>1, <5>1 DEF Distinct
      <4> QED
        BY <1>13, <3>2, <4>1, <4>2
    <3> QED
      BY <2>2, <3>1, <3>2
  <2> QED
    BY <1>13, <2>1, <2>2
<1>15. ASSUME NEW b \in Buckets
       PROVE  Placed(nss2, db2, b) <=>
                \/ \E p \in new : ids[p] = b
                \/ /\ Placed(nss, db, b)
                   /\ \A n \in D, s \in Slots : At(nss, n, s) # b
                   /\ ~(dc /\ b = db)
  <2>0. b # None
    BY ContainerAssumption
  <2>1. ASSUME NEW p \in new, ids[p] = b PROVE Placed(nss2, db2, b)
    <3>1. CASE p = GlobalSlot
      <4>1. dc /\ cfg.default # None
        BY <2>1, <3>1 DEF Updated
      <4> QED
        BY <1>9, <2>0, <2>1, <3>1, <4>1 DEF Placed
    <3>2. CASE p # GlobalSlot
      <4>1. PICK n \in Namespaces, s \in Slots : p = <<n, s>>
        BY <2>1, <3>2 DEF Updated
      <4>2. n \in C
        BY <2>1, <4>1 DEF Updated
      <4>3. At(nss2, n, s) = b
        BY <1>5, <2>1, <4>1, <4>2
      <4> QED
        BY <2>0, <4>3 DEF Placed
    <3> QED
      BY <3>1, <3>2
  <2>2. ASSUME Placed(nss, db, b), \A n \in D, s \in Slots : At(nss, n, s) # b,
               ~(dc /\ b = db)
        PROVE  Placed(nss2, db2, b)
    <3>1. CASE b = db
      BY <1>9, <2>0, <2>2, <3>1 DEF Placed
    <3>2. CASE b # db
      <4>1. PICK n \in Namespaces, s \in Slots : At(nss, n, s) = b
        BY <2>2, <3>2 DEF Placed
      <4>2. n \notin D /\ nss[n] # None
        BY <1>1, <2>0, <2>2, <4>1, InSlots
      <4>3. n \notin C
        BY <4>2 DEF Updated
      <4>4. At(nss2, n, s) = b
        BY <1>6, <4>1, <4>2, <4>3
      <4> QED
        BY <2>0, <4>4 DEF Placed
    <3> QED
      BY <3>1, <3>2
  <2>3. ASSUME Placed(nss2, db2, b)
        PROVE  \/ \E p \in new : ids[p] = b
               \/ /\ Placed(nss, db, b)
                  /\ \A n \in D, s \in Slots : At(nss, n, s) # b
                  /\ ~(dc /\ b = db)
    <3>1. CASE b = db2
      <4>1. CASE dc
        BY <1>9, <2>0, <3>1, <4>1
      <4>2. CASE ~dc
        <5>1. b = db /\ Placed(nss, db, b)
          BY <1>9, <1>10, <2>0, <3>1, <4>2
        <5>2. \A n \in D, s \in Slots : At(nss, n, s) # b
          BY <1>1, <1>3, <2>0, <5>1 DEF Distinct
        <5> QED
          BY <4>2, <5>1, <5>2
      <4> QED
        BY <4>1, <4>2
    <3>2. CASE b # db2
      <4>1. PICK n \in Namespaces, s \in Slots : At(nss2, n, s) = b
        BY <2>3, <3>2 DEF Placed
      <4>2. CASE n \in C /\ <<n, s>> \in new /\ At(nss2, n, s) = ids[<<n, s>>]
        BY <4>1, <4>2
      <4>3. CASE n \notin C \cup D /\ At(nss2, n, s) = At(nss, n, s)
        <5>1. At(nss, n, s) = b /\ Placed(nss, db, b) /\ b # db
          BY <1>8, <2>0, <4>1, <4>3
        <5>2. \A m \in Namespaces, t \in Slots : At(nss, m, t) = b => m = n
          BY <1>1, <2>0, <5>1 DEF Distinct
        <5> QED
          BY <1>3, <4>3, <5>1, <5>2
      <4> QED
        BY <1>13, <2>0, <4>1, <4>2, <4>3
    <3> QED
      BY <3>1, <3>2
  <2> QED
    BY <2>1, <2>2, <2>3
<1>16. LivePlaced(nss2, db2, bk2)
  <2> SUFFICES ASSUME NEW b \in Buckets
               PROVE  bk2[b] # Dead <=> Placed(nss2, db2, b)
    BY DEF LivePlaced
  <2>1. CASE \E p \in new : ids[p] = b
    BY <1>7, <1>15, <2>1
  <2>2. CASE \A p \in new : ids[p] # b
    <3>1. bk2[b] = IF \/ \E n \in D, s \in Slots : At(nss, n, s) = b
                      \/ dc /\ b = db
                   THEN Dead ELSE bk[b]
      BY <2>2 DEF Updated
    <3>2. bk[b] # Dead <=> Placed(nss, db, b)
      BY <1>1 DEF LivePlaced
    <3> QED
      BY <1>15, <2>2, <3>1, <3>2
  <2> QED
    BY <2>1, <2>2
<1>17. Counted(nss2, bk2)
  <2> SUFFICES ASSUME NEW n \in Namespaces, nss2[n] # None
               PROVE  /\ nss2[n].count = Cardinality(DynSlots(nss2, bk2, n))
                      /\ nss2[n].cfg.max > 0 => nss2[n].count <= nss2[n].cfg.max
    BY DEF Counted
  <2>1. CASE n \in C
    <3>1. DynSlots(nss2, bk2, n) = {}
      <4>1. ASSUME NEW s \in Slots, At(nss2, n, s) # None
            PROVE  ~bk2[At(nss2, n, s)].dyn
        BY <1>5, <1>7, <2>1, <4>1
      <4> QED
        BY <4>1 DEF DynSlots
    <3>2. nss2[n].count = 0
      BY <2>1 DEF Updated
    <3>3. nss2[n].cfg.max \in Nat
      BY <1>12 DEF ContainerTypes, NamespaceObject, NamespaceConfig
    <3>4. Cardinality(DynSlots(nss2, bk2, n)) = 0
      BY <3>1, FS_EmptySet
    <3> QED
      BY <3>2, <3>3, <3>4
  <2>2. CASE n \notin C
    <3>1. n \notin D /\ nss[n] # None
      BY <2>2 DEF Updated
    <3>2. /\ nss2[n].count = nss[n].count
          /\ nss2[n].cfg = nss[n].cfg
      BY <1>4, <2>2, <3>1 DEF Updated
    <3>3. \A s \in Slots : At(nss2, n, s) = At(nss, n, s)
      BY <1>6, <2>2, <3>1
    <3>4. \A s \in Slots : At(nss, n, s) # None =>
            bk2[At(nss, n, s)] = bk[At(nss, n, s)]
      BY <1>8, <2>2, <3>1
    <3>5. DynSlots(nss2, bk2, n) = DynSlots(nss, bk, n)
      BY <3>3, <3>4 DEF DynSlots
    <3> QED
      BY <1>1, <3>1, <3>2, <3>5 DEF Counted
  <2> QED
    BY <2>1, <2>2
<1>18. BucketsConfigured(nss2, bk2)
  <2> SUFFICES ASSUME NEW n \in Namespaces, nss2[n] # None
               PROVE  /\ \A s \in Slots : At(nss2, n, s) # None =>
                           bk2[At(nss2, n, s)].cfg =
                             IF bk2[At(nss2, n, s)].dyn THEN nss2[n].cfg.template
                             ELSE InitialBucketCfg(nss2[n].cfg, s)
                      /\ At(nss2, n, Default) = None => nss2[n].cfg.default = None
    BY DEF BucketsConfigured
  <2>0. Default \in Slots
    BY DEF Slots
  <2>1. nss2[n].cfg = cfg.namespaces[n]
    BY <1>4
  <2>2. CASE n \in C
    <3>1. ASSUME NEW s \in Slots, At(nss2, n, s) # None
          PROVE  /\ ~bk2[At(nss2, n, s)].dyn
                 /\ bk2[At(nss2, n, s)].cfg = InitialBucketCfg(nss2[n].cfg, s)
      <4>1. <<n, s>> \in new /\ At(nss2, n, s) = ids[<<n, s>>]
        BY <1>5, <2>2, <3>1
      <4>2. BucketCfgOf(cfg, <<n, s>>) = InitialBucketCfg(cfg.namespaces[n], s)
        BY <1>11 DEF BucketCfgOf
      <4> QED
        BY <1>7, <2>1, <4>1, <4>2
    <3>2. ASSUME At(nss2, n, Default) = None PROVE nss2[n].cfg.default = None
      <4>1. <<n, Default>> \notin new
        BY <1>5, <1>7, <2>0, <2>2, <3>2
      <4>2. InitialBucketCfg(cfg.namespaces[n], Default) = None
        BY <2>0, <2>2, <4>1 DEF Updated
      <4> QED
        BY <2>1, <4>2 DEF InitialBucketCfg
    <3> QED
      BY <3>1, <3>2
  <2>3. CASE n \notin C
    <3>1. n \notin D /\ nss[n] # None
      BY <2>3 DEF Updated
    <3>2. nss2[n].cfg = nss[n].cfg
      BY <1>4, <2>3, <3>1
    <3>3. \A s \in Slots : At(nss2, n, s) = At(nss, n, s)
      BY <1>6, <2>3, <3>1
    <3>4. \A s \in Slots : At(nss, n, s) # None =>
            bk2[At(nss, n, s)] = bk[At(nss, n, s)]
      BY <1>8, <2>3, <3>1
    <3>5. At(nss2, n, Default) = None => nss2[n].cfg.default = None
      BY <1>1, <2>0, <3>1, <3>2, <3>3 DEF BucketsConfigured
    <3>6. ASSUME NEW s \in Slots, At(nss2, n, s) # None
          PROVE  bk2[At(nss2, n, s)].cfg =
                   IF bk2[At(nss2, n, s)].dyn THEN nss2[n].cfg.template
                   ELSE InitialBucketCfg(nss2[n].cfg, s)
      <4>1. At(nss2, n, s) = At(nss, n, s) /\ bk2[At(nss, n, s)] = bk[At(nss, n, s)]
        BY <3>3, <3>4, <3>6
      <4> QED
        BY <1>1, <3>1, <3>2, <3>6, <4>1 DEF BucketsConfigured
    <3> QED
      BY <3>5, <3>6
  <2> QED
    BY <2>2, <2>3
<1>19. ConfigLoaded(nss2, db2, bk2, cfg)
  <2>1. (IF db2 = None THEN None ELSE bk2[db2].cfg) = cfg.default
    <3>1. CASE dc /\ cfg.default = None
      BY <1>9, <3>1
    <3>2. CASE dc /\ cfg.default # None
      <4>1. BucketCfgOf(cfg, GlobalSlot) = cfg.default
        BY DEF BucketCfgOf
      <4> QED
        BY <1>7, <1>9, <3>2, <4>1
    <3>3. CASE ~dc
      <4>1. (IF db = None THEN None ELSE bk[db].cfg) = cfg.default
        BY <3>3 DEF Updated
      <4> QED
        BY <1>9, <1>10, <3>3, <4>1
    <3> QED
      BY <1>2, <3>1, <3>2, <3>3
  <2>2. cfg # None
    BY <1>2, ConfigAssumption
  <2>3. \A n \in Namespaces : IF nss2[n] = None THEN cfg.namespaces[n] = None
                              ELSE nss2[n].cfg = cfg.namespaces[n]
    BY <1>4
  <2> QED
    BY <2>1, <2>2, <2>3 DEF ConfigLoaded
<1>20. \A b \in Buckets : Placed(nss2, db2, b) =>
         b \in F \/ (Placed(nss, db, b) /\ \A n \in D, s \in Slots : At(nss, n, s) # b)
  BY <1>7, <1>15
<1>21. ASSUME NEW n \in Namespaces, NEW s \in Slots,
              At(nss2, n, s) # None, bk2[At(nss2, n, s)].dyn
       PROVE  /\ At(nss, n, s) = At(nss2, n, s)
              /\ bk[At(nss, n, s)] = bk2[At(nss2, n, s)]
  <2>1. n \notin C \cup D /\ At(nss2, n, s) = At(nss, n, s)
    BY <1>7, <1>13, <1>21
  <2> QED
    BY <1>8, <1>21, <2>1
<1> QED
  BY <1>12, <1>14, <1>16, <1>17, <1>18, <1>19, <1>20, <1>21 DEF ContainerInv

=============================================================================
