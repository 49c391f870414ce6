------------------------- MODULE ConfigDistribution -------------------------
(***************************************************************************)
(* How a configuration edited at one server reaches all of them: the admin *)
(* API's version check, updateConfig and the configListener of server.go,  *)
(* and the ZooKeeper persister (config/zookeeper_persister.go).            *)
(*                                                                         *)
(* A configuration is what tells two of them apart: its version and the    *)
(* edits it takes into account.  It stands for its own hash.  ZooKeeper is *)
(* modelled by what the persister relies on: children of a path that are   *)
(* created and never removed, and a one-shot watch on the path's data.     *)
(***************************************************************************)
EXTENDS Integers, FiniteSets

CONSTANTS
  Servers,      \* quota service nodes that share a ZooKeeper path
  Edits,        \* requests to the admin API; each is made once
  MaxFailures,  \* bound on ZooKeeper calls that fail
  MaxRestarts,  \* bound on crashes of a server
  None

ASSUME DistributionAssumption ==
  /\ MaxFailures \in Nat
  /\ MaxRestarts \in Nat
  /\ IsFiniteSet(Edits)

VARIABLES
  archive,    \* the children of the persister's path
  fired,      \* an event is pending on the server's watch channel
  listener,   \* where the server's waitForEvents goroutine is
  children,   \* what that goroutine has read
  zconfig,    \* z.configs[z.config], the persister's current configuration
  notified,   \* the persister's watcher channel holds a notification
  pending,    \* read by readUpdatedConfig, which may sleep before it is used
  cfgs,       \* s.cfgs, the configuration the server runs on
  request,    \* the admin API's requests
  highest,    \* history: the highest version each server has ever run on
  failures, restarts

persisterVars == <<fired, listener, children, zconfig>>
serverVars == <<pending, cfgs, highest>>
bounds == <<failures, restarts>>
vars == <<archive, persisterVars, notified, serverVars, request, bounds>>

InitialConfig == [version |-> 1, edits |-> {}]
MaxVersion == 1 + Cardinality(Edits)
Configs == [version : 1..MaxVersion, edits : SUBSET Edits]

ASSUME NoneIsNoConfig == None \notin Configs

Init ==
  /\ archive = {InitialConfig}
  /\ fired = [s \in Servers |-> TRUE]       \* createWatch runs the listener
  /\ listener = [s \in Servers |-> "wait"]
  /\ children = [s \in Servers |-> {}]
  /\ zconfig = [s \in Servers |-> None]
  /\ notified = [s \in Servers |-> FALSE]
  /\ pending = [s \in Servers |-> None]
  /\ cfgs = [s \in Servers |-> None]
  /\ request = [e \in Edits |-> [pc |-> "new", at |-> None, cfg |-> None]]
  /\ highest = [s \in Servers |-> 0]
  /\ failures = 0
  /\ restarts = 0

-----------------------------------------------------------------------------
(***************************************************************************)
(* An edit through the admin API.                                          *)
(***************************************************************************)
\* What a client may have read of the version that server s runs on, from s,
\* from another server or from the list of all configurations.
Readable(s) == {c \in archive : c.version = cfgs[s].version}

\* apiVersionHandler: the version the client sends is the server's own.  A
\* request with another one is refused and changes nothing; one that sends no
\* version is not checked and goes the same way.  A request names a bucket or
\* a namespace to change, or it is a whole configuration, which its client has
\* made from one of that version that it has read.  (What the client leaves out
\* of it knowingly is part of the edit.  A whole configuration without a version
\* may be made from anything; that is not modelled.)
CheckVersion(e, s) ==
  /\ request[e].pc = "new"
  /\ cfgs[s] # None
  /\ \E read \in Readable(s) \cup {None} :
       request' = [request EXCEPT ![e] = [pc |-> "checked", at |-> s, cfg |-> read]]
  /\ UNCHANGED <<archive, persisterVars, notified, serverVars, bounds>>

\* What e is applied to: a clone of what the server runs on, or what the client
\* has read, which replaces the clone.
Base(cfg, read) == IF read = None THEN cfg ELSE read

\* Mutants of Edited: versions are skipped; the version stays as it was.
EditedSkipping(cfg, read, e) ==
  [version |-> cfg.version + 2, edits |-> Base(cfg, read).edits \cup {e}]
EditedInPlace(cfg, read, e) ==
  [version |-> cfg.version, edits |-> Base(cfg, read).edits \cup {e}]

\* The configuration that follows cfg; its version does, whatever its contents.
Edited(cfg, read, e) ==
  [version |-> cfg.version + 1, edits |-> Base(cfg, read).edits \cup {e}]

\* updateConfig starts from whatever the server runs on by now.
UpdateConfig(e) ==
  LET s == request[e].at
  IN  /\ request[e].pc = "checked"
      /\ request' = [request EXCEPT ![e].pc = "persist",
                                    ![e].cfg = Edited(cfgs[s], request[e].cfg, e)]
      /\ UNCHANGED <<archive, persisterVars, notified, serverVars, bounds>>

\* PersistAndNotify archives it under its hash, with the read lock held ...
\* (The hash is never the current one's, since nobody else makes this edit.)
ArchiveConfig(e) ==
  /\ request[e].pc = "persist"
  /\ archive' = archive \cup {request[e].cfg}
  /\ request' = [request EXCEPT ![e].pc = "archived"]
  /\ UNCHANGED <<persisterVars, notified, serverVars, bounds>>

\* ... and sets the path's data, which fires every watch on it.
SetCurrent(e) ==
  /\ request[e].pc = "archived"
  /\ request' = [request EXCEPT ![e].pc = "accepted"]
  /\ fired' = [s \in Servers |-> TRUE]
  /\ UNCHANGED <<archive, listener, children, zconfig, notified, serverVars, bounds>>

Failed == [pc |-> "failed", at |-> None, cfg |-> None]

\* Either call returns an error, which the admin is told of.  When it is the
\* connection that was lost, ZooKeeper may have carried the call out.
PersistFails(e) ==
  /\ failures < MaxFailures
  /\ failures' = failures + 1
  /\ \/ /\ request[e].pc = "persist"
        /\ archive' \in {archive, archive \cup {request[e].cfg}}
        /\ UNCHANGED fired
     \/ /\ request[e].pc = "archived"
        /\ fired' \in {fired, [s \in Servers |-> TRUE]}
        /\ UNCHANGED archive
  /\ request' = [request EXCEPT ![e] = Failed]
  /\ UNCHANGED <<listener, children, zconfig, notified, serverVars, restarts>>

-----------------------------------------------------------------------------
(***************************************************************************)
(* The persister's listener: currentConfigEventListener.                   *)
(***************************************************************************)
\* GetW consumes the event and sets a new watch.
GetW(s) ==
  /\ listener[s] = "wait"
  /\ fired[s]
  /\ fired' = [fired EXCEPT ![s] = FALSE]
  /\ listener' = [listener EXCEPT ![s] = "children"]
  /\ UNCHANGED <<archive, children, zconfig, notified, serverVars, request, bounds>>

\* Children, and Get on each of them.
ReadChildren(s) ==
  /\ listener[s] = "children"
  /\ children' = [children EXCEPT ![s] = archive]
  /\ listener' = [listener EXCEPT ![s] = "store"]
  /\ UNCHANGED <<archive, fired, zconfig, notified, serverVars, request, bounds>>

\* A call fails: the old, closed channel is ready at once and all is retried.
\* (When it fails as the persister starts, the server starts again instead.)
ListenerFails(s) ==
  /\ listener[s] = "children"
  /\ failures < MaxFailures
  /\ failures' = failures + 1
  /\ fired' = [fired EXCEPT ![s] = TRUE]
  /\ listener' = [listener EXCEPT ![s] = "wait"]
  /\ UNCHANGED <<archive, children, zconfig, notified, serverVars, request, restarts>>

\* Mutant of Latest: the highest version seen so far is not remembered.
AnyOf(configs) == configs

\* The configurations of the highest version, of which the listener takes the
\* one that comes last in the order ZooKeeper lists them.
Latest(configs) == {c \in configs : \A d \in configs : d.version <= c.version}

\* Mutant of StoreLatest: the watch is set after the children have been read.
StoreThenWatch(s) ==
  /\ listener[s] = "store"
  /\ \E c \in Latest(children[s]) : zconfig' = [zconfig EXCEPT ![s] = c]
  /\ notified' = [notified EXCEPT ![s] = TRUE]
  /\ fired' = [fired EXCEPT ![s] = FALSE]
  /\ children' = [children EXCEPT ![s] = {}]
  /\ listener' = [listener EXCEPT ![s] = "wait"]
  /\ UNCHANGED <<archive, serverVars, request, bounds>>

\* With the write lock, which a PersistAndNotify under way holds off.
StoreLatest(s) ==
  /\ listener[s] = "store"
  /\ \A e \in Edits : ~(request[e].at = s /\ request[e].pc = "archived")
  /\ \E c \in Latest(children[s]) : zconfig' = [zconfig EXCEPT ![s] = c]
  /\ notified' = [notified EXCEPT ![s] = TRUE]
  /\ children' = [children EXCEPT ![s] = {}]
  /\ listener' = [listener EXCEPT ![s] = "wait"]
  /\ UNCHANGED <<archive, fired, serverVars, request, bounds>>

-----------------------------------------------------------------------------
(***************************************************************************)
(* The server: configListener.                                             *)
(***************************************************************************)
ReadUpdatedConfig(s) ==
  /\ notified[s]
  /\ pending[s] = None
  /\ notified' = [notified EXCEPT ![s] = FALSE]
  /\ pending' = [pending EXCEPT ![s] = zconfig[s]]
  /\ UNCHANGED <<archive, persisterVars, cfgs, highest, request, bounds>>

\* updateBucketContainer, after the jitter, ignores what is not newer.
UpdateBucketContainer(s) ==
  /\ pending[s] # None
  /\ IF cfgs[s] = None \/ pending[s].version > cfgs[s].version
     THEN /\ cfgs' = [cfgs EXCEPT ![s] = pending[s]]
          /\ highest' = [highest EXCEPT
               ![s] = IF @ < pending[s].version THEN pending[s].version ELSE @]
     ELSE UNCHANGED <<cfgs, highest>>
  /\ pending' = [pending EXCEPT ![s] = None]
  /\ UNCHANGED <<archive, persisterVars, notified, request, bounds>>

\* The process dies, with the requests it was serving, and comes up again.
Restart(s) ==
  /\ restarts < MaxRestarts
  /\ restarts' = restarts + 1
  /\ fired' = [fired EXCEPT ![s] = TRUE]
  /\ listener' = [listener EXCEPT ![s] = "wait"]
  /\ children' = [children EXCEPT ![s] = {}]
  /\ zconfig' = [zconfig EXCEPT ![s] = None]
  /\ notified' = [notified EXCEPT ![s] = FALSE]
  /\ pending' = [pending EXCEPT ![s] = None]
  /\ cfgs' = [cfgs EXCEPT ![s] = None]
  /\ request' = [e \in Edits |->
       IF request[e].at = s /\ request[e].pc \in {"checked", "persist", "archived"}
       THEN Failed ELSE request[e]]
  /\ UNCHANGED <<archive, highest, failures>>

Next ==
  \/ \E e \in Edits :
       \/ \E s \in Servers : CheckVersion(e, s)
       \/ UpdateConfig(e)
       \/ ArchiveConfig(e)
       \/ SetCurrent(e)
       \/ PersistFails(e)
  \/ \E s \in Servers :
       \/ GetW(s)
       \/ ReadChildren(s)
       \/ ListenerFails(s)
       \/ StoreLatest(s)
       \/ ReadUpdatedConfig(s)
       \/ UpdateBucketContainer(s)
       \/ Restart(s)

\* Every goroutine that can go on does; a request under way is carried out.
\* Nothing obliges anyone to edit, ZooKeeper to fail or a server to crash.
Fairness ==
  /\ \A e \in Edits : WF_vars(UpdateConfig(e)) /\ WF_vars(ArchiveConfig(e)) /\ WF_vars(SetCurrent(e))
  /\ \A s \in Servers :
       /\ WF_vars(GetW(s))
       /\ WF_vars(ReadChildren(s))
       /\ WF_vars(StoreLatest(s))
       /\ WF_vars(ReadUpdatedConfig(s))
       /\ WF_vars(UpdateBucketContainer(s))

Spec == Init /\ [][Next]_vars /\ Fairness

-----------------------------------------------------------------------------
Request ==
  [pc  : {"new", "checked", "persist", "archived", "accepted", "failed"},
   at  : Servers \cup {None},
   cfg : Configs \cup {None}]

TypeOK ==
  /\ archive \subseteq Configs
  /\ fired \in [Servers -> BOOLEAN]
  /\ listener \in [Servers -> {"wait", "children", "store"}]
  /\ children \in [Servers -> SUBSET Configs]
  /\ zconfig \in [Servers -> Configs \cup {None}]
  /\ notified \in [Servers -> BOOLEAN]
  /\ pending \in [Servers -> Configs \cup {None}]
  /\ cfgs \in [Servers -> Configs \cup {None}]
  /\ request \in [Edits -> Request]
  /\ highest \in [Servers -> 0..MaxVersion]
  /\ failures \in 0..MaxFailures
  /\ restarts \in 0..MaxRestarts

\* The version of a configuration, 0 for none.
VersionOf(cfg) == IF cfg = None THEN 0 ELSE cfg.version

\* A server never runs on an older configuration than it has run on before,
\* crashes and restarts included: what it ran on stays archived, and the
\* listener picks the highest version there is.
NeverRegresses == \A s \in Servers : cfgs[s] # None => cfgs[s].version >= highest[s]

\* Every archived configuration has the version after an archived one's and is
\* an edit of one no newer than that, its client's or the server's: nobody edits
\* something that ZooKeeper would not give back after a restart, and what a
\* client has read never overtakes the server between check and update.
HistoryUnbroken ==
  \A c \in archive \ {InitialConfig} :
    \E a, b \in archive, e \in c.edits :
      /\ c.version = a.version + 1
      /\ b.version <= a.version
      /\ c.edits = b.edits \cup {e}

\* An accepted edit's version, or a later one, reaches every server, whatever
\* notifications are coalesced on the way, because the watch is set before the
\* children are read (zookeeper_persister.go:221).
AcceptedReachesAll ==
  \A e \in Edits :
    request[e].pc = "accepted" ~>
      \A s \in Servers : VersionOf(cfgs[s]) >= VersionOf(request[e].cfg)

\* An edit that was accepted is not dropped by those accepted with it: clients
\* send the version they edited and a stale one is refused (admin.go:131).
NoEditLost ==
  \A e \in Edits, s \in Servers :
    request[e].pc = "accepted" /\ VersionOf(cfgs[s]) >= request[e].cfg.version
      => e \in cfgs[s].edits

=============================================================================
