----------------------- MODULE ConfigDistributionProofs -----------------------
(***************************************************************************)
(* Proofs about the distribution of configurations, for every number of    *)
(* servers, edits, failures and restarts.                                  *)
(***************************************************************************)
EXTENDS ConfigDistribution, FiniteSetTheorems, TLAPS

-----------------------------------------------------------------------------
(***************************************************************************)
(* The inductive invariant.                                                *)
(***************************************************************************)

\* The edit has made a configuration, which may or may not be archived.
Made(e) == request[e].pc \notin {"new", "checked"}

MadeEdits == {e \in Edits : Made(e)}

\* A version is one more than an archived one and made by an edit that had made
\* nothing before, so it is at most one more than the number of edits made.
VersionCounted(c) == c.version <= 1 + Cardinality(MadeEdits)

\* c is e applied to something archived, with the version after that of
\* something archived which is no older.
EditOfArchived(c, e) ==
  \E a, b \in archive :
    /\ b.version <= a.version
    /\ c.version = a.version + 1
    /\ c.edits = b.edits \cup {e}

\* What a request has read, is about to archive, or has archived.  Its server
\* may have moved on since the check, but not back.
RequestedBy(e) ==
  /\ request[e].pc = "checked" =>
       /\ request[e].at \in Servers
       /\ cfgs[request[e].at] # None
       /\ request[e].cfg # None =>
            /\ request[e].cfg \in archive
            /\ request[e].cfg.version <= cfgs[request[e].at].version
  /\ request[e].pc \in {"persist", "archived"} =>
       /\ request[e].cfg \in Configs
       /\ VersionCounted(request[e].cfg)
       /\ EditOfArchived(request[e].cfg, e)

Requested == \A e \in Edits : RequestedBy(e)

\* A server, its persister and its listener only have what is archived.
OnlyArchived ==
  \A s \in Servers :
    /\ children[s] \subseteq archive
    /\ {zconfig[s], pending[s], cfgs[s]} \subseteq archive \cup {None}

\* What a server is about to run on is no older than what it has run on, at
\* each place it passes on its way from ZooKeeper.
NothingOlder ==
  \A s \in Servers :
    /\ \E c \in archive : c.version >= highest[s]
    /\ listener[s] = "store" =>
         /\ \E c \in children[s] : c.version >= highest[s]
         /\ zconfig[s] # None => zconfig[s] \in children[s]
    /\ notified[s] => zconfig[s] # None
    /\ zconfig[s] # None => zconfig[s].version >= highest[s]
    /\ pending[s] # None =>
         /\ pending[s].version >= highest[s]
         /\ zconfig[s] # None
         /\ zconfig[s].version >= pending[s].version

IInv ==
  /\ TypeOK
  /\ InitialConfig \in archive
  /\ \A c \in archive : VersionCounted(c)
  /\ HistoryUnbroken
  /\ Requested
  /\ OnlyArchived
  /\ NothingOlder
  /\ NeverRegresses

-----------------------------------------------------------------------------
(***************************************************************************)
(* Configurations.                                                         *)
(***************************************************************************)

LEMMA VersionsAreNumbers ==
  ASSUME NEW c \in Configs
  PROVE  c.version \in Nat /\ c.version >= 1
<1>1. MaxVersion \in Nat
  BY FS_CardinalityType, DistributionAssumption DEF MaxVersion
<1> QED
  BY <1>1 DEF Configs

LEMMA MadeEditsFinite ==
  /\ IsFiniteSet(MadeEdits) /\ Cardinality(MadeEdits) \in Nat
  /\ Cardinality(MadeEdits) <= Cardinality(Edits) /\ Cardinality(Edits) \in Nat
<1>1. MadeEdits \in SUBSET Edits
  BY DEF MadeEdits
<1> QED
  BY <1>1, DistributionAssumption, FS_Subset, FS_CardinalityType

\* While no edit is unmade, a version that was counted still is.
LEMMA StaysCounted ==
  ASSUME NEW c \in Configs, VersionCounted(c), \A e \in Edits : Made(e) => Made(e)'
  PROVE  VersionCounted(c)'
<1>1. MadeEdits \in SUBSET Edits /\ MadeEdits' \in SUBSET Edits
  BY DEF MadeEdits
<1>2. MadeEdits \subseteq MadeEdits'
  BY DEF MadeEdits
<1>3. /\ IsFiniteSet(MadeEdits')
      /\ Cardinality(MadeEdits) \in Nat /\ Cardinality(MadeEdits') \in Nat
      /\ Cardinality(MadeEdits) <= Cardinality(MadeEdits')
  BY <1>1, <1>2, DistributionAssumption, FS_Subset, FS_CardinalityType
<1>4. VersionCounted(c)' <=> c.version <= 1 + Cardinality(MadeEdits')
  BY DEF VersionCounted
<1> QED
  BY <1>3, <1>4, VersionsAreNumbers DEF VersionCounted

\* The next version is one more, and so is the number of edits made.
LEMMA NextVersionCounted ==
  ASSUME NEW a \in Configs, VersionCounted(a), NEW e \in Edits, ~Made(e),
         Made(e)', \A f \in Edits : Made(f) => Made(f)'
  PROVE  /\ a.version + 1 <= 1 + Cardinality(MadeEdits')
         /\ a.version + 1 \in 1..MaxVersion
<1>1. /\ MadeEdits \in SUBSET Edits /\ MadeEdits' \in SUBSET Edits
      /\ MadeEdits \cup {e} \in SUBSET Edits
      /\ e \notin MadeEdits
      /\ MadeEdits \cup {e} \subseteq MadeEdits'
  BY DEF MadeEdits
<1>2. /\ IsFiniteSet(MadeEdits) /\ IsFiniteSet(MadeEdits')
      /\ Cardinality(MadeEdits) \in Nat /\ Cardinality(MadeEdits') \in Nat
      /\ Cardinality(MadeEdits \cup {e}) <= Cardinality(MadeEdits')
      /\ Cardinality(MadeEdits') <= Cardinality(Edits)
      /\ Cardinality(Edits) \in Nat
  <2>1. IsFiniteSet(MadeEdits) /\ IsFiniteSet(MadeEdits')
    BY <1>1, DistributionAssumption, FS_Subset
  <2>2. Cardinality(MadeEdits \cup {e}) <= Cardinality(MadeEdits')
    BY <1>1, <2>1, FS_Subset
  <2>3. Cardinality(MadeEdits') <= Cardinality(Edits)
    BY <1>1, DistributionAssumption, FS_Subset
  <2> QED
    BY <2>1, <2>2, <2>3, DistributionAssumption, FS_CardinalityType
<1>3. Cardinality(MadeEdits \cup {e}) = Cardinality(MadeEdits) + 1
  BY <1>1, <1>2, FS_AddElement
<1> QED
  BY <1>2, <1>3, VersionsAreNumbers DEF VersionCounted, MaxVersion

LEMMA InitialIsConfig ==
  InitialConfig \in Configs /\ InitialConfig.version = 1
<1>1. Cardinality(Edits) \in Nat
  BY FS_CardinalityType, DistributionAssumption
<1> QED
  BY <1>1 DEF InitialConfig, Configs, MaxVersion

-----------------------------------------------------------------------------
(***************************************************************************)
(* The steps.                                                              *)
(***************************************************************************)

LEMMA InitIInv == Init => IInv
<1> SUFFICES ASSUME Init PROVE IInv
  OBVIOUS
<1>1. TypeOK
  <2>1. MaxVersion \in Nat
    BY FS_CardinalityType, DistributionAssumption DEF MaxVersion
  <2> QED
    BY <2>1, InitialIsConfig, DistributionAssumption DEF Init, TypeOK, Request
<1>2. InitialConfig \in archive /\ HistoryUnbroken
  BY DEF Init, HistoryUnbroken
<1>3. \A c \in archive : VersionCounted(c)
  BY InitialIsConfig, MadeEditsFinite DEF Init, VersionCounted
<1>4. Requested
  BY DEF Init, Requested, RequestedBy
<1>5. OnlyArchived
  BY DEF Init, OnlyArchived
<1>6. NothingOlder
  BY DEF Init, NothingOlder, InitialConfig
<1>7. NeverRegresses
  BY DEF Init, NeverRegresses
<1> QED
  BY <1>1, <1>2, <1>3, <1>4, <1>5, <1>6, <1>7 DEF IInv

\* A request that a step leaves alone, as does its server unless it moves on.
LEMMA OthersRequested ==
  ASSUME IInv, NEW e \in Edits, request'[e] = request[e],
         archive \subseteq archive',
         \A f \in Edits : Made(f) => Made(f)',
         request[e].pc = "checked" =>
           LET s == request[e].at
           IN  \/ cfgs'[s] = cfgs[s]
               \/ /\ cfgs'[s] \in archive
                  /\ cfgs'[s] # None
                  /\ cfgs[s].version <= cfgs'[s].version
  PROVE  RequestedBy(e)'
<1>1. RequestedBy(e)
  BY DEF IInv, Requested
<1>2. CASE request[e].pc = "checked"
  <2>1. PICK s \in Servers : s = request[e].at
    BY <1>1, <1>2 DEF RequestedBy
  <2>2. cfgs'[s] # None
    BY <1>1, <1>2, <2>1 DEF RequestedBy
  <2>3. ASSUME request[e].cfg # None
        PROVE  /\ request[e].cfg \in archive'
               /\ request[e].cfg.version <= cfgs'[s].version
    <3>1. /\ request[e].cfg \in archive
          /\ request[e].cfg.version <= cfgs[s].version
          /\ cfgs[s] # None
      BY <1>1, <1>2, <2>1, <2>3 DEF RequestedBy
    <3>2. CASE cfgs'[s] = cfgs[s]
      BY <3>1, <3>2
    <3>3. CASE /\ cfgs'[s] \in archive
               /\ cfgs[s].version <= cfgs'[s].version
      <4>1. request[e].cfg \in Configs /\ cfgs[s] \in Configs /\ cfgs'[s] \in Configs
        BY <3>1, <3>3 DEF IInv, TypeOK
      <4> QED
        BY <3>1, <3>3, <4>1, VersionsAreNumbers
    <3> QED
      BY <1>2, <2>1, <3>2, <3>3
  <2> QED
    BY <1>2, <2>1, <2>2, <2>3 DEF RequestedBy
<1>3. CASE request[e].pc \in {"persist", "archived"}
  <2>1. /\ request[e].cfg \in Configs
        /\ VersionCounted(request[e].cfg)
        /\ EditOfArchived(request[e].cfg, e)
    BY <1>1, <1>3 DEF RequestedBy
  <2>2. PICK c \in Configs : c = request[e].cfg
    BY <2>1
  <2>3. VersionCounted(c)' /\ EditOfArchived(c, e)'
    BY <2>1, <2>2, StaysCounted DEF EditOfArchived
  <2>4. request'[e].cfg = c
    BY <2>2
  <2>5. VersionCounted(request[e].cfg)' /\ EditOfArchived(request[e].cfg, e)'
    BY <2>3, <2>4 DEF VersionCounted, EditOfArchived
  <2> QED
    BY <1>3, <2>4, <2>5 DEF RequestedBy
<1> QED
  BY <1>2, <1>3 DEF RequestedBy

LEMMA CheckVersionIInv ==
  ASSUME IInv, NEW e \in Edits, NEW s \in Servers, CheckVersion(e, s)
  PROVE  IInv'
<1> USE DEF CheckVersion, persisterVars, serverVars, bounds
<1>1. PICK read \in Readable(s) \cup {None} :
        request' = [request EXCEPT ![e] = [pc |-> "checked", at |-> s, cfg |-> read]]
  OBVIOUS
<1>2. /\ read # None => /\ read \in archive
                        /\ read.version = cfgs[s].version
      /\ read \in Configs \cup {None}
      /\ cfgs[s] \in Configs
  BY DEF Readable, IInv, TypeOK, Request
<1>3. read # None => read.version <= cfgs[s].version
  BY <1>2, VersionsAreNumbers
<1>4. TypeOK'
  BY <1>1, <1>2 DEF IInv, TypeOK, Request
<1>5. /\ InitialConfig \in archive' /\ HistoryUnbroken'
      /\ OnlyArchived' /\ NothingOlder' /\ NeverRegresses'
  BY DEF IInv, HistoryUnbroken, OnlyArchived, NothingOlder, NeverRegresses
<1>6. \A f \in Edits : Made(f) => Made(f)'
  BY <1>1 DEF IInv, TypeOK, Request, Made
<1>7. \A c \in archive' : VersionCounted(c)'
  BY <1>6, StaysCounted DEF IInv, TypeOK
<1>8. Requested'
  <2> SUFFICES ASSUME NEW f \in Edits PROVE RequestedBy(f)'
    BY DEF Requested
  <2>1. CASE f = e
    BY <1>1, <1>2, <1>3, <2>1 DEF IInv, TypeOK, Request, RequestedBy
  <2>2. CASE f # e
    BY <1>1, <1>6, <2>2, OthersRequested DEF IInv, TypeOK, Request
  <2> QED
    BY <2>1, <2>2
<1> QED
  BY <1>4, <1>5, <1>7, <1>8 DEF IInv

LEMMA UpdateConfigIInv ==
  ASSUME IInv, NEW e \in Edits, UpdateConfig(e)
  PROVE  IInv'
<1> USE DEF UpdateConfig, persisterVars, serverVars, bounds
<1>0. PICK a, b, c : /\ a = cfgs[request[e].at]
                     /\ b = Base(a, request[e].cfg)
                     /\ c = Edited(a, request[e].cfg, e)
  OBVIOUS
<1>1. /\ a \in archive /\ a \in Configs /\ VersionCounted(a)
      /\ b \in archive /\ b \in Configs /\ b.version <= a.version
  <2>1. request[e].at \in Servers /\ a # None
    BY <1>0 DEF IInv, Requested, RequestedBy
  <2>2. a \in archive /\ a \in Configs /\ VersionCounted(a)
    BY <1>0, <2>1 DEF IInv, OnlyArchived, TypeOK, Request
  <2>3. b \in archive /\ b.version <= a.version
    <3>1. CASE request[e].cfg = None
      BY <1>0, <2>2, <3>1, VersionsAreNumbers DEF Base
    <3>2. CASE request[e].cfg # None
      BY <1>0, <3>2 DEF Base, IInv, Requested, RequestedBy
    <3> QED
      BY <3>1, <3>2
  <2> QED
    BY <2>2, <2>3 DEF IInv, TypeOK
<1>2. request' = [request EXCEPT ![e].pc = "persist", ![e].cfg = c]
  BY <1>0
<1>3. c = [version |-> a.version + 1, edits |-> b.edits \cup {e}]
  BY <1>0 DEF Edited
<1>4. ~Made(e) /\ Made(e)' /\ \A f \in Edits : Made(f) => Made(f)'
  BY <1>2 DEF IInv, TypeOK, Request, Made
<1>5. a.version + 1 \in 1..MaxVersion /\ a.version + 1 <= 1 + Cardinality(MadeEdits')
  BY <1>1, <1>4, NextVersionCounted
<1>6. c \in Configs
  <2>1. b.edits \cup {e} \in SUBSET Edits
    BY <1>1 DEF Configs
  <2> QED
    BY <1>3, <1>5, <2>1 DEF Configs
<1>7. /\ c.version = a.version + 1 /\ c.edits = b.edits \cup {e}
      /\ VersionCounted(c)'
  BY <1>3, <1>5 DEF VersionCounted
<1>8. TypeOK'
  <2>1. request' \in [Edits -> Request]
    <3>1. request \in [Edits -> Request]
      BY DEF IInv, TypeOK, Request
    <3> QED
      BY ONLY <1>2, <1>6, <3>1, e \in Edits DEF Request
  <2> QED
    BY <2>1 DEF IInv, TypeOK, Request
<1>9. /\ InitialConfig \in archive' /\ HistoryUnbroken'
      /\ OnlyArchived' /\ NothingOlder' /\ NeverRegresses'
  BY DEF IInv, HistoryUnbroken, OnlyArchived, NothingOlder, NeverRegresses
<1>10. \A d \in archive' : VersionCounted(d)'
  BY <1>4, StaysCounted DEF IInv, TypeOK
<1>11. Requested'
  <2> SUFFICES ASSUME NEW f \in Edits PROVE RequestedBy(f)'
    BY DEF Requested
  <2>1. CASE f = e
    <3>1. request'[e].pc = "persist" /\ request'[e].cfg = c
      BY <1>2 DEF IInv, TypeOK, Request
    <3>2. EditOfArchived(c, e)'
      BY <1>1, <1>7 DEF EditOfArchived
    <3> QED
      BY <1>6, <1>7, <2>1, <3>1, <3>2 DEF RequestedBy
  <2>2. CASE f # e
    BY <1>2, <1>4, <2>2, OthersRequested DEF IInv, TypeOK, Request
  <2> QED
    BY <2>1, <2>2
<1> QED
  BY <1>8, <1>9, <1>10, <1>11 DEF IInv

\* What archiving the configuration of a request does, whatever becomes of
\* the request: ArchiveConfig and PersistFails.
LEMMA ArchivingKeeps ==
  ASSUME IInv, NEW e \in Edits, request[e].pc = "persist",
         archive' = archive \cup {request[e].cfg},
         \A f \in Edits : Made(f) => Made(f)',
         UNCHANGED <<children, zconfig, pending, cfgs, listener, notified, highest>>
  PROVE  /\ archive' \subseteq Configs
         /\ InitialConfig \in archive'
         /\ \A c \in archive' : VersionCounted(c)'
         /\ HistoryUnbroken'
         /\ OnlyArchived'
         /\ NothingOlder'
         /\ NeverRegresses'
<1>0. PICK c : c = request[e].cfg
  OBVIOUS
<1>1. c \in Configs /\ VersionCounted(c) /\ EditOfArchived(c, e)
  BY <1>0 DEF IInv, Requested, RequestedBy
<1>2. archive' \subseteq Configs /\ InitialConfig \in archive'
  BY <1>0, <1>1 DEF IInv, TypeOK, Request
<1>3. \A d \in archive' : VersionCounted(d)'
  BY <1>0, <1>1, StaysCounted DEF IInv, TypeOK, Request
<1>4. HistoryUnbroken'
  <2> SUFFICES ASSUME NEW d \in archive' \ {InitialConfig}
               PROVE  \E a, b \in archive', f \in d.edits :
                        /\ d.version = a.version + 1
                        /\ b.version <= a.version
                        /\ d.edits = b.edits \cup {f}
    BY DEF HistoryUnbroken
  <2>1. CASE d = c
    <3>1. e \in c.edits
      BY <1>1 DEF EditOfArchived
    <3> QED
      BY <1>1, <2>1, <3>1 DEF EditOfArchived
  <2>2. CASE d \in archive
    BY <2>2 DEF IInv, HistoryUnbroken
  <2> QED
    BY <1>0, <2>1, <2>2
<1>5. OnlyArchived'
  BY DEF IInv, OnlyArchived
<1>6. NothingOlder' /\ NeverRegresses'
  BY DEF IInv, NothingOlder, NeverRegresses
<1> QED
  BY <1>2, <1>3, <1>4, <1>5, <1>6

LEMMA ArchiveConfigIInv ==
  ASSUME IInv, NEW e \in Edits, ArchiveConfig(e)
  PROVE  IInv'
<1> USE DEF ArchiveConfig, persisterVars, serverVars, bounds
<1>1. \A f \in Edits : Made(f) => Made(f)'
  BY DEF IInv, TypeOK, Request, Made
<1>2. /\ archive' \subseteq Configs
      /\ InitialConfig \in archive' /\ HistoryUnbroken'
      /\ \A c \in archive' : VersionCounted(c)'
      /\ OnlyArchived' /\ NothingOlder' /\ NeverRegresses'
  BY <1>1, ArchivingKeeps
<1>3. TypeOK'
  BY <1>2 DEF IInv, TypeOK, Request
<1>4. Requested'
  <2> SUFFICES ASSUME NEW f \in Edits PROVE RequestedBy(f)'
    BY DEF Requested
  <2>1. CASE f = e
    <3>1. PICK c : c = request[e].cfg
      OBVIOUS
    <3>2. c \in Configs /\ VersionCounted(c) /\ EditOfArchived(c, e)
      BY <3>1 DEF IInv, Requested, RequestedBy
    <3>3. request'[e].pc = "archived" /\ request'[e].cfg = c
      BY <3>1 DEF IInv, TypeOK, Request
    <3>4. VersionCounted(c)' /\ EditOfArchived(c, e)'
      BY <1>1, <3>2, StaysCounted DEF EditOfArchived
    <3>5. VersionCounted(request[e].cfg)' /\ EditOfArchived(request[e].cfg, e)'
      BY <3>3, <3>4 DEF VersionCounted, EditOfArchived
    <3> QED
      BY <2>1, <3>2, <3>3, <3>5 DEF RequestedBy
  <2>2. CASE f # e
    BY <1>1, <2>2, OthersRequested DEF IInv, TypeOK, Request
  <2> QED
    BY <2>1, <2>2
<1> QED
  BY <1>2, <1>3, <1>4 DEF IInv

LEMMA SetCurrentIInv ==
  ASSUME IInv, NEW e \in Edits, SetCurrent(e)
  PROVE  IInv'
<1> USE DEF SetCurrent, persisterVars, serverVars, bounds
<1>1. TypeOK'
  <2>1. request' \in [Edits -> Request]
    BY DEF IInv, TypeOK, Request
  <2>2. fired' \in [Servers -> BOOLEAN]
    OBVIOUS
  <2> QED
    BY <2>1, <2>2 DEF IInv, TypeOK, Request
<1>2. /\ InitialConfig \in archive' /\ HistoryUnbroken'
      /\ OnlyArchived' /\ NothingOlder' /\ NeverRegresses'
  BY DEF IInv, HistoryUnbroken, OnlyArchived, NothingOlder, NeverRegresses
<1>3. \A c \in archive' : VersionCounted(c)'
  <2>1. \A f \in Edits : Made(f) => Made(f)'
    BY DEF IInv, TypeOK, Request, Made
  <2> QED
    BY <2>1, StaysCounted DEF IInv, TypeOK
<1>4. Requested'
  <2> SUFFICES ASSUME NEW f \in Edits PROVE RequestedBy(f)'
    BY DEF Requested
  <2>1. CASE f = e
    BY <2>1 DEF IInv, TypeOK, Request, RequestedBy
  <2>2. CASE f # e
    <3>1. \A g \in Edits : Made(g) => Made(g)'
      BY DEF IInv, TypeOK, Request, Made
    <3> QED
      BY <2>2, <3>1, OthersRequested DEF IInv, TypeOK, Request
  <2> QED
    BY <2>1, <2>2
<1> QED
  BY <1>1, <1>2, <1>3, <1>4 DEF IInv

LEMMA PersistFailsIInv ==
  ASSUME IInv, NEW e \in Edits, PersistFails(e)
  PROVE  IInv'
<1> USE DEF PersistFails, persisterVars, serverVars, bounds
<1>1. /\ request' = [request EXCEPT ![e] = Failed]
      /\ Failed \in [pc : {"failed"}, at : Servers \cup {None},
                     cfg : Configs \cup {None}]
      /\ request[e].pc \in {"persist", "archived"}
  BY DEF Failed
<1>2. \A f \in Edits : Made(f) => Made(f)'
  BY <1>1 DEF IInv, TypeOK, Request, Made
<1>3. /\ archive' \subseteq Configs
      /\ InitialConfig \in archive' /\ HistoryUnbroken'
      /\ \A c \in archive' : VersionCounted(c)'
      /\ OnlyArchived' /\ NothingOlder' /\ NeverRegresses'
  <2>1. CASE archive' = archive
    <3>1. archive' \subseteq Configs /\ InitialConfig \in archive'
      BY <2>1 DEF IInv, TypeOK, Request
    <3>2. HistoryUnbroken'
      BY <2>1 DEF IInv, HistoryUnbroken
    <3>3. OnlyArchived' /\ NothingOlder' /\ NeverRegresses'
      BY <2>1 DEF IInv, OnlyArchived, NothingOlder, NeverRegresses
    <3>4. \A c \in archive' : VersionCounted(c)'
      BY <1>2, <2>1, StaysCounted DEF IInv, TypeOK
    <3> QED
      BY <3>1, <3>2, <3>3, <3>4
  <2>2. CASE /\ archive' = archive \cup {request[e].cfg}
             /\ request[e].pc = "persist"
    BY <1>2, <2>2, ArchivingKeeps
  <2> QED
    BY <2>1, <2>2
<1>4. TypeOK'
  <2>1. /\ fired' \in [Servers -> BOOLEAN]
        /\ failures' \in 0..MaxFailures
    <3>1. fired' \in {fired, [s \in Servers |-> TRUE]}
      OBVIOUS
    <3>2. fired \in [Servers -> BOOLEAN] /\ failures \in 0..MaxFailures
      BY DEF IInv, TypeOK, Request
    <3>3. fired' \in [Servers -> BOOLEAN]
      <4>1. [s \in Servers |-> TRUE] \in [Servers -> BOOLEAN]
        OBVIOUS
      <4> QED
        BY ONLY <3>1, <3>2, <4>1
    <3>4. failures' \in 0..MaxFailures
      BY <3>2, DistributionAssumption
    <3> QED
      BY <3>3, <3>4
  <2>2. request' \in [Edits -> Request]
    BY <1>1 DEF IInv, TypeOK, Request
  <2> QED
    BY <1>3, <2>1, <2>2 DEF IInv, TypeOK, Request
<1>5. Requested'
  <2> SUFFICES ASSUME NEW f \in Edits PROVE RequestedBy(f)'
    BY DEF Requested
  <2>1. CASE f = e
    BY <1>1, <2>1 DEF IInv, TypeOK, Request, RequestedBy
  <2>2. CASE f # e
    <3>1. request'[f] = request[f] /\ archive \subseteq archive' /\ cfgs' = cfgs
      BY <1>1, <2>2 DEF IInv, TypeOK, Request
    <3> QED
      BY <1>2, <3>1, OthersRequested
  <2> QED
    BY <2>1, <2>2
<1> QED
  BY <1>3, <1>4, <1>5 DEF IInv

\* A step of a server or its persister archives nothing and makes no edit, so
\* only what concerns that server is left to show.
LEMMA ArchiveKept ==
  ASSUME IInv, UNCHANGED archive,
         \A e \in Edits : Made(e) => Made(e)'
  PROVE  /\ archive' \subseteq Configs
         /\ InitialConfig \in archive'
         /\ \A c \in archive' : VersionCounted(c)'
         /\ HistoryUnbroken'
<1>1. HistoryUnbroken'
  BY DEF IInv, HistoryUnbroken
<1>2. \A c \in archive' : VersionCounted(c)'
  BY StaysCounted DEF IInv, TypeOK
<1> QED
  BY <1>1, <1>2 DEF IInv, TypeOK, Request

\* Requests look at servers only to see that they have started and not gone
\* back.
LEMMA RequestsKept ==
  ASSUME IInv, UNCHANGED <<archive, request>>,
         \A s \in Servers :
           \/ cfgs'[s] = cfgs[s]
           \/ /\ cfgs'[s] \in archive
              /\ cfgs'[s] # None
              /\ cfgs[s] # None => cfgs[s].version <= cfgs'[s].version
  PROVE  Requested' /\ \A e \in Edits : Made(e) => Made(e)'
<1>1. \A e \in Edits : Made(e) => Made(e)'
  BY DEF Made
<1>2. ASSUME NEW e \in Edits PROVE RequestedBy(e)'
  <2>1. request[e].pc = "checked" =>
          request[e].at \in Servers /\ cfgs[request[e].at] # None
    BY DEF IInv, Requested, RequestedBy
  <2> QED
    BY <1>1, <2>1, OthersRequested
<1> QED
  BY <1>1, <1>2 DEF Requested

LEMMA GetWIInv ==
  ASSUME IInv, NEW s \in Servers, GetW(s)
  PROVE  IInv'
<1> USE DEF GetW, serverVars, bounds
<1>1. Requested' /\ \A e \in Edits : Made(e) => Made(e)'
  BY RequestsKept
<1>2. TypeOK'
  BY DEF IInv, TypeOK, Request
<1>3. OnlyArchived' /\ NeverRegresses'
  BY DEF IInv, OnlyArchived, NeverRegresses
<1>4. NothingOlder'
  BY DEF IInv, TypeOK, Request, NothingOlder
<1> QED
  BY <1>1, <1>2, <1>3, <1>4, ArchiveKept DEF IInv

LEMMA ReadChildrenIInv ==
  ASSUME IInv, NEW s \in Servers, ReadChildren(s)
  PROVE  IInv'
<1> USE DEF ReadChildren, serverVars, bounds
<1>1. Requested' /\ \A e \in Edits : Made(e) => Made(e)'
  BY RequestsKept
<1>2. TypeOK'
  BY DEF IInv, TypeOK, Request
<1>3. OnlyArchived' /\ NeverRegresses'
  BY DEF IInv, TypeOK, Request, OnlyArchived, NeverRegresses
<1>4. NothingOlder'
  BY DEF IInv, TypeOK, Request, OnlyArchived, NothingOlder
<1> QED
  BY <1>1, <1>2, <1>3, <1>4, ArchiveKept DEF IInv

LEMMA ListenerFailsIInv ==
  ASSUME IInv, NEW s \in Servers, ListenerFails(s)
  PROVE  IInv'
<1> USE DEF ListenerFails, serverVars
<1>1. Requested' /\ \A e \in Edits : Made(e) => Made(e)'
  BY RequestsKept
<1>2. TypeOK'
  BY DistributionAssumption DEF IInv, TypeOK, Request
<1>3. OnlyArchived' /\ NeverRegresses'
  BY DEF IInv, OnlyArchived, NeverRegresses
<1>4. NothingOlder'
  BY DEF IInv, TypeOK, Request, NothingOlder
<1> QED
  BY <1>1, <1>2, <1>3, <1>4, ArchiveKept DEF IInv

\* The listener takes a configuration of the highest version it has read, so
\* none older than the one it took before.
LEMMA StoreLatestIInv ==
  ASSUME IInv, NEW s \in Servers, StoreLatest(s)
  PROVE  IInv'
<1> USE DEF StoreLatest, serverVars, bounds
<1>1. Requested' /\ \A e \in Edits : Made(e) => Made(e)'
  BY RequestsKept
<1>2. PICK c \in Latest(children[s]) : zconfig' = [zconfig EXCEPT ![s] = c]
  OBVIOUS
<1>3. /\ c \in children[s] /\ c \in archive /\ c \in Configs
      /\ \A d \in children[s] : d.version <= c.version
  BY DEF Latest, IInv, OnlyArchived, TypeOK, Request
<1>4. /\ c.version \in Nat /\ highest[s] \in Nat
      /\ \A d \in archive : d.version \in Nat
      /\ children[s] \subseteq archive
  <2>1. MaxVersion \in Nat
    BY FS_CardinalityType, DistributionAssumption DEF MaxVersion
  <2> QED
    BY <1>3, <2>1 DEF IInv, TypeOK, Request, Configs, OnlyArchived
<1>5. TypeOK'
  BY <1>2, <1>3 DEF IInv, TypeOK, Request
<1>6. OnlyArchived' /\ NeverRegresses'
  BY <1>2, <1>3 DEF IInv, TypeOK, Request, OnlyArchived, NeverRegresses
<1>7. c.version >= highest[s]
  BY <1>3, <1>4 DEF IInv, NothingOlder
<1>8. zconfig[s] # None => zconfig[s].version <= c.version
  BY <1>3 DEF IInv, NothingOlder
<1>9. NothingOlder'
  <2> SUFFICES ASSUME NEW t \in Servers
               PROVE  /\ \E d \in archive' : d.version >= highest'[t]
                      /\ listener'[t] = "store" =>
                           /\ \E d \in children'[t] : d.version >= highest'[t]
                           /\ zconfig'[t] # None => zconfig'[t] \in children'[t]
                      /\ notified'[t] => zconfig'[t] # None
                      /\ zconfig'[t] # None => zconfig'[t].version >= highest'[t]
                      /\ pending'[t] # None =>
                           /\ pending'[t].version >= highest'[t]
                           /\ zconfig'[t] # None
                           /\ zconfig'[t].version >= pending'[t].version
    BY DEF NothingOlder
  <2>1. CASE t # s
    BY <1>2, <2>1 DEF IInv, TypeOK, Request, NothingOlder
  <2>2. CASE t = s
    <3>1. c # None
      BY <1>3, NoneIsNoConfig
    <3>2. listener'[s] = "wait" /\ zconfig'[s] = c
      BY <1>2 DEF IInv, TypeOK, Request
    <3>3. pending[s] # None => /\ pending[s].version \in Nat
                               /\ zconfig[s].version \in Nat
      BY <1>4 DEF IInv, NothingOlder, OnlyArchived
    <3> QED
      BY <1>4, <1>7, <1>8, <2>2, <3>1, <3>2, <3>3 DEF IInv, NothingOlder
  <2> QED
    BY <2>1, <2>2
<1> QED
  BY <1>1, <1>5, <1>6, <1>9, ArchiveKept DEF IInv

LEMMA ReadUpdatedConfigIInv ==
  ASSUME IInv, NEW s \in Servers, ReadUpdatedConfig(s)
  PROVE  IInv'
<1> USE DEF ReadUpdatedConfig, persisterVars, bounds
<1>1. Requested' /\ \A e \in Edits : Made(e) => Made(e)'
  BY RequestsKept
<1>2. TypeOK'
  BY DEF IInv, TypeOK, Request
<1>3. OnlyArchived' /\ NeverRegresses'
  BY DEF IInv, TypeOK, Request, OnlyArchived, NeverRegresses
<1>4. NothingOlder'
  <2>1. \A c \in archive : c.version \in Int
    BY DEF IInv, TypeOK, Request, Configs
  <2> QED
    BY <2>1 DEF IInv, TypeOK, Request, OnlyArchived, NothingOlder
<1> QED
  BY <1>1, <1>2, <1>3, <1>4, ArchiveKept DEF IInv

LEMMA UpdateBucketContainerIInv ==
  ASSUME IInv, NEW s \in Servers, UpdateBucketContainer(s)
  PROVE  IInv'
<1> USE DEF UpdateBucketContainer, persisterVars, bounds
<1>1. /\ pending[s] \in archive /\ pending[s] \in Configs
      /\ pending[s].version \in Nat /\ highest[s] \in Nat
      /\ pending[s].version >= highest[s]
      /\ zconfig[s] # None /\ zconfig[s].version >= pending[s].version
      /\ \A c \in archive : c.version \in Nat
      /\ pending[s].version \in 0..MaxVersion
  BY DEF IInv, TypeOK, Request, OnlyArchived, NothingOlder, Configs
<1>2. Requested' /\ \A e \in Edits : Made(e) => Made(e)'
  <2>1. cfgs[s] # None => cfgs[s] \in Configs
    BY DEF IInv, TypeOK, Request
  <2>2. \A t \in Servers :
          \/ cfgs'[t] = cfgs[t]
          \/ /\ cfgs'[t] \in archive
             /\ cfgs'[t] # None
             /\ cfgs[t] # None => cfgs[t].version <= cfgs'[t].version
    BY <1>1, <2>1, VersionsAreNumbers DEF IInv, TypeOK
  <2> QED
    BY <2>2, RequestsKept
<1>3. TypeOK'
  BY <1>1 DEF IInv, TypeOK, Request
<1>4. OnlyArchived'
  BY <1>1 DEF IInv, TypeOK, Request, OnlyArchived
<1>5. NeverRegresses'
  BY <1>1 DEF IInv, TypeOK, Request, NeverRegresses
<1>6. /\ \A t \in Servers \ {s} : highest'[t] = highest[t] /\ pending'[t] = pending[t]
      /\ highest'[s] \in {highest[s], pending[s].version}
      /\ pending'[s] = None
  BY <1>1 DEF IInv, TypeOK, Request
<1>7. NothingOlder'
  <2>1. listener[s] = "store" => zconfig[s] \in children[s]
    BY <1>1 DEF IInv, NothingOlder
  <2> QED
    BY <1>1, <1>6, <2>1 DEF IInv, NothingOlder
<1> QED
  BY <1>2, <1>3, <1>4, <1>5, <1>7, ArchiveKept DEF IInv

\* After a restart the server has nothing; ZooKeeper still has all of it.
LEMMA RestartIInv ==
  ASSUME IInv, NEW s \in Servers, Restart(s)
  PROVE  IInv'
<1> USE DEF Restart
<1>1. Failed \in [pc : {"failed"}, at : {None}, cfg : {None}]
  BY DEF Failed
<1>2. \A e \in Edits : Made(e) => Made(e)'
  BY <1>1 DEF Made
<1>3. TypeOK'
  BY <1>1, DistributionAssumption DEF IInv, TypeOK, Request
<1>4. Requested'
  <2> SUFFICES ASSUME NEW f \in Edits PROVE RequestedBy(f)'
    BY DEF Requested
  <2>1. CASE request'[f] = Failed
    BY <1>1, <2>1 DEF RequestedBy
  <2>2. CASE /\ request'[f] = request[f]
             /\ request[f].pc \in {"checked", "persist", "archived"} =>
                  request[f].at # s
    <3>1. request[f].pc = "checked" => cfgs'[request[f].at] = cfgs[request[f].at]
      <4>1. request[f].pc = "checked" => request[f].at \in Servers \ {s}
        BY <2>2 DEF IInv, Requested, RequestedBy
      <4> QED
        BY <4>1 DEF IInv, TypeOK
    <3> QED
      BY <1>2, <2>2, <3>1, OthersRequested
  <2> QED
    BY <2>1, <2>2
<1>5. OnlyArchived' /\ NeverRegresses'
  BY DEF IInv, TypeOK, Request, OnlyArchived, NeverRegresses
<1>6. NothingOlder'
  BY DEF IInv, TypeOK, Request, NothingOlder
<1> QED
  BY <1>2, <1>3, <1>4, <1>5, <1>6, ArchiveKept DEF IInv

-----------------------------------------------------------------------------
LEMMA NextIInv == IInv /\ [Next]_vars => IInv'
<1> SUFFICES ASSUME IInv, [Next]_vars PROVE IInv'
  OBVIOUS
<1>1. CASE UNCHANGED vars
  <2> USE <1>1 DEF vars, persisterVars, serverVars, bounds
  <2>1. Requested' /\ \A e \in Edits : Made(e) => Made(e)'
    BY RequestsKept
  <2>2. TypeOK'
    BY DEF IInv, TypeOK, Request
  <2>3. OnlyArchived' /\ NeverRegresses' /\ NothingOlder'
    BY DEF IInv, OnlyArchived, NeverRegresses, NothingOlder
  <2> QED
    BY <2>1, <2>2, <2>3, ArchiveKept DEF IInv
<1>2. ASSUME NEW e \in Edits, NEW s \in Servers, CheckVersion(e, s) PROVE IInv'
  BY <1>2, CheckVersionIInv
<1>3. ASSUME NEW e \in Edits, UpdateConfig(e) PROVE IInv'
  BY <1>3, UpdateConfigIInv
<1>4. ASSUME NEW e \in Edits, ArchiveConfig(e) PROVE IInv'
  BY <1>4, ArchiveConfigIInv
<1>5. ASSUME NEW e \in Edits, SetCurrent(e) PROVE IInv'
  BY <1>5, SetCurrentIInv
<1>6. ASSUME NEW e \in Edits, PersistFails(e) PROVE IInv'
  BY <1>6, PersistFailsIInv
<1>7. ASSUME NEW s \in Servers, GetW(s) PROVE IInv'
  BY <1>7, GetWIInv
<1>8. ASSUME NEW s \in Servers, ReadChildren(s) PROVE IInv'
  BY <1>8, ReadChildrenIInv
<1>9. ASSUME NEW s \in Servers, ListenerFails(s) PROVE IInv'
  BY <1>9, ListenerFailsIInv
<1>10. ASSUME NEW s \in Servers, StoreLatest(s) PROVE IInv'
  BY <1>10, StoreLatestIInv
<1>11. ASSUME NEW s \in Servers, ReadUpdatedConfig(s) PROVE IInv'
  BY <1>11, ReadUpdatedConfigIInv
<1>12. ASSUME NEW s \in Servers, UpdateBucketContainer(s) PROVE IInv'
  BY <1>12, UpdateBucketContainerIInv
<1>13. ASSUME NEW s \in Servers, Restart(s) PROVE IInv'
  BY <1>13, RestartIInv
<1> QED
  BY <1>1, <1>2, <1>3, <1>4, <1>5, <1>6, <1>7, <1>8, <1>9, <1>10, <1>11,
     <1>12, <1>13 DEF Next

-----------------------------------------------------------------------------
\* The state is well typed; in particular no configuration ever has a version
\* beyond the number of edits, because an edit makes one configuration.
THEOREM TypeCorrect == Spec => []TypeOK
<1>1. IInv => TypeOK
  BY DEF IInv
<1> QED
  BY <1>1, InitIInv, NextIInv, PTL DEF Spec

\* A server never runs on an older configuration than it has run on before,
\* whatever fails, is coalesced or restarts in between (updateBucketContainer,
\* currentConfigEventListener).
THEOREM ServersNeverRegress == Spec => []NeverRegresses
<1>1. IInv => NeverRegresses
  BY DEF IInv
<1> QED
  BY <1>1, InitIInv, NextIInv, PTL DEF Spec

\* Every archived configuration is an edit of an archived one, also when
\* PersistAndNotify fails half way or a server restarts.
THEOREM HistoryNeverBroken == Spec => []HistoryUnbroken
<1>1. IInv => HistoryUnbroken
  BY DEF IInv
<1> QED
  BY <1>1, InitIInv, NextIInv, PTL DEF Spec

=============================================================================
