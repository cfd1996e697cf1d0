----------------------------- MODULE NoiseClusters -----------------------------
(***************************************************************************)
(* The noise engine's shadow verdicts: the window in which a fingerprint   *)
(* is a duplicate (internal/noise/noise.go), the clusters an alert falls   *)
(* into (internal/noise/cluster.go), both together (shadow.go), and the    *)
(* restore of the clusters from saved records (internal/noise/store.go),   *)
(* at startup and at every promotion.                                      *)
(*                                                                         *)
(* The time of an event is the instant the alert STARTED (toEvent in       *)
(* cmd/opscopilot/noise_process.go), so a poll repeats old instants, and   *)
(* events come in any order.  Every method runs under the clusterer's      *)
(* mutex.  Two nodes are in one fault domain if the topology of the batch  *)
(* says so; the same topology places an alert on its node, or does not.    *)
(* Counts, summaries and severities of clusters decide nothing and are     *)
(* left out.  How and when records are saved is the subject of             *)
(* ClusterPersistence; here any record that was ever collected may be the  *)
(* one a restore finds, since saves fail and land late.                    *)
(***************************************************************************)
EXTENDS Integers, FiniteSets, FiniteSetsExt, Functions

CONSTANTS
  Fps,              \* fingerprints, numbered in their order
  Placeless,        \* those whose alert may come without a node
  Window,
  MaxTime,          \* bound on the instants
  ClusterLimits,    \* the memory limits a deployment may set; 0: none
  MaxSaved          \* bound on the different records ever collected, by the limit

ASSUME ClusterAssumption ==
  /\ Fps \subseteq Nat /\ Placeless \subseteq Fps
  /\ Window \in Nat \ {0} /\ MaxTime \in Nat
  /\ ClusterLimits \subseteq Nat /\ MaxSaved \in [ClusterLimits -> Nat]

VARIABLES
  anchors,          \* Dedup.seen: fingerprint -> start of its window
  active,           \* key -> cluster
  resolved,         \* key -> cluster
  byFp,             \* fingerprint -> key of its active cluster
  clusterLimit,     \* memory limit of the clusterer and of the deduplicator
  clusterRecords,   \* <<key, cluster>>: the records collected for saving
  mixed             \* history: two live clusters of the last restore shared a
                    \* fingerprint

clusterVars == <<anchors, active, resolved, byFp, clusterLimit, clusterRecords, mixed>>

Times == 0..MaxTime

(* A key is the first fingerprint with the window it started in.           *)
Keys == Fps \X (0..(MaxTime \div Window))

(* nodes: the fingerprints whose alert came with a node.                   *)
Clusters == [state : {"open", "acked", "resolved"}, last : Times,
             fps : SUBSET Fps, nodes : SUBSET Fps]

Without(f, S) == Restrict(f, DOMAIN f \ S)

NoiseTypeOK ==
  /\ DOMAIN anchors \subseteq Fps /\ \A f \in DOMAIN anchors : anchors[f] \in Times
  /\ DOMAIN active \subseteq Keys /\ DOMAIN resolved \subseteq Keys
  /\ \A k \in DOMAIN active : active[k] \in Clusters /\ active[k].state # "resolved"
  /\ \A k \in DOMAIN resolved : resolved[k] \in Clusters /\ resolved[k].state = "resolved"
  /\ DOMAIN byFp \subseteq Fps /\ \A f \in DOMAIN byFp : byFp[f] \in Keys
  /\ clusterRecords \subseteq Keys \X Clusters /\ mixed \in BOOLEAN
  /\ clusterLimit # 0 =>
       /\ Cardinality(DOMAIN active) + Cardinality(DOMAIN resolved) <= clusterLimit
       /\ Cardinality(DOMAIN anchors) <= clusterLimit

NoiseInit ==
  /\ anchors = <<>> /\ active = <<>> /\ resolved = <<>> /\ byFp = <<>>
  /\ clusterLimit \in ClusterLimits
  /\ clusterRecords = {} /\ mixed = FALSE

------------------------------------------------------------------------------
(* Eviction and the expiry of windows, on a state of the clusterer         *)

Size(s) == Cardinality(DOMAIN s.active) + Cardinality(DOMAIN s.resolved)

(* pickOldestByLastSeen                                                    *)
Older(m, j, k) ==
  \/ m[j].last < m[k].last
  \/ m[j].last = m[k].last /\ (j[1] < k[1] \/ (j[1] = k[1] /\ j[2] <= k[2]))

(* Mutant of Indexed: only the fingerprint that opened the cluster.        *)
IndexedFirst(index, ck, cl) == {ck[1]} \cap DOMAIN index

(* unindexLocked: the entries that are the cluster's own.                  *)
Indexed(index, ck, cl) == {f \in cl.fps \cap DOMAIN index : index[f] = ck}

(* The index without the clusters of old.                                  *)
Unindexed(s, old) == Without(s.byFp, UNION {Indexed(s.byFp, k, s.active[k]) : k \in old})

Entries(s) == ({"resolved"} \X DOMAIN s.resolved) \cup ({"active"} \X DOMAIN s.active)

(* enforceLocked: history first, then the longest inactive.                *)
Sooner(s, x, y) ==
  \/ x[1] = "resolved" /\ y[1] = "active"
  \/ x[1] = "resolved" /\ y[1] = "resolved" /\ Older(s.resolved, x[2], y[2])
  \/ x[1] = "active" /\ y[1] = "active" /\ Older(s.active, x[2], y[2])

OverLimit(s) == IF clusterLimit # 0 /\ Size(s) > clusterLimit THEN Size(s) - clusterLimit ELSE 0

Victims(s) ==
  {V \in SUBSET Entries(s) : /\ Cardinality(V) = OverLimit(s)
                             /\ \A x \in V, y \in Entries(s) \ V : Sooner(s, x, y)}

Evict(s, V) ==
  LET old == {k \in DOMAIN s.active : <<"active", k>> \in V}
  IN  [active |-> Without(s.active, old),
       resolved |-> Without(s.resolved, {k \in DOMAIN s.resolved : <<"resolved", k>> \in V}),
       byFp |-> Unindexed(s, old)]

(* sweepLocked: what has been silent for a window is resolved.             *)
Sweep(s, now) ==
  LET old == {k \in DOMAIN s.active : s.active[k].last + Window <= now}
      closed == [k \in old |-> [s.active[k] EXCEPT !.state = "resolved"]]
  IN  [active |-> Without(s.active, old),
       resolved |-> [k \in DOMAIN s.resolved \cup old |->
                       IF k \in old THEN closed[k] ELSE s.resolved[k]],
       byFp |-> Unindexed(s, old)]

------------------------------------------------------------------------------
(* Ingest                                                                  *)

(* The fingerprints whose nodes are in one fault domain with the node of   *)
(* f's alert; none if the alert has no node.                               *)
Domains(f) == {D \in SUBSET Fps : IF D = {} THEN f \in Placeless ELSE f \in D}

(* The cluster seen last wins, and the first key among those.              *)
Nearest(s, ks) ==
  CHOOSE k \in ks : \A j \in ks :
    \/ s.active[k].last > s.active[j].last
    \/ s.active[k].last = s.active[j].last /\ Older(s.active, k, j)

Absorb(s, k, f, at, domain) ==
  [s EXCEPT !.active[k].last = at,
            !.active[k].fps = @ \cup {f},
            !.active[k].nodes = @ \cup ({f} \cap domain),
            !.byFp = [g \in DOMAIN @ \cup {f} |-> IF g = f THEN k ELSE @[g]]]

Open(s, f, at, domain) ==
  LET k == <<f, at \div Window>>
      cl == [state |-> "open", last |-> at, fps |-> {f}, nodes |-> {f} \cap domain]
  IN  [s EXCEPT !.active = [j \in DOMAIN @ \cup {k} |-> IF j = k THEN cl ELSE @[j]],
                !.byFp = [g \in DOMAIN @ \cup {f} |-> IF g = f THEN k ELSE @[g]]]

Place(s, f, at, domain) ==
  LET near == {k \in DOMAIN s.active : s.active[k].nodes \cap domain # {}}
  IN  CASE f \in DOMAIN s.byFp -> Absorb(s, s.byFp[f], f, at, domain)
        [] f \notin DOMAIN s.byFp /\ near # {} -> Absorb(s, Nearest(s, near), f, at, domain)
        [] OTHER -> Open(s, f, at, domain)

(* Ingest dereferences what the index names without a check; an entry that *)
(* names no active cluster ends the process.                               *)
Dereferences(s, f) == f \in DOMAIN s.byFp => s.byFp[f] \in DOMAIN s.active

(* Dedup.Allow; the periodic sweep of old windows may run first.           *)
Allowed(f, at) == ~(f \in DOMAIN anchors /\ at < anchors[f] + Window)

Anchor(f, at, kept) ==
  LET seen == [g \in kept \cup {f} |-> IF g = f THEN at ELSE anchors[g]]
      victims == {g \in DOMAIN seen : \A h \in DOMAIN seen :
                    seen[g] < seen[h] \/ (seen[g] = seen[h] /\ g <= h)}
  IN  IF clusterLimit # 0 /\ Cardinality(DOMAIN seen) > clusterLimit
      THEN Without(seen, victims) ELSE seen

Engine == [active |-> active, resolved |-> resolved, byFp |-> byFp]

Becomes(s) == active' = s.active /\ resolved' = s.resolved /\ byFp' = s.byFp

(* Shadow.Process: the duplicate check, then the cluster.                  *)
Process(f, at, domain) ==
  LET swept == Sweep(Engine, at)
      placed == Place(swept, f, at, domain)
  IN
  /\ Dereferences(swept, f)
  /\ \E old \in {{}, {g \in DOMAIN anchors : anchors[g] + Window <= at}} :
       LET kept == DOMAIN anchors \ old
       IN  anchors' = IF f \in kept /\ ~Allowed(f, at)
                      THEN Restrict(anchors, kept)
                      ELSE Anchor(f, at, kept)
  /\ \E V \in Victims(placed) : Becomes(Evict(placed, V))
  /\ UNCHANGED <<clusterLimit, clusterRecords, mixed>>

(* Ack: an open cluster only; history stays as it is.                      *)
Ack(k) ==
  /\ k \in DOMAIN active
  /\ active' = [active EXCEPT ![k].state = "acked"]
  /\ UNCHANGED <<anchors, resolved, byFp, clusterLimit, clusterRecords, mixed>>

------------------------------------------------------------------------------
(* Records                                                                 *)

(* A cluster, active or resolved, is collected for saving.                 *)
CollectCluster(k) ==
  /\ \/ k \in DOMAIN active /\ clusterRecords' = clusterRecords \cup {<<k, active[k]>>}
     \/ k \in DOMAIN resolved /\ clusterRecords' = clusterRecords \cup {<<k, resolved[k]>>}
  /\ Cardinality(clusterRecords') <= MaxSaved[clusterLimit]
  /\ UNCHANGED <<anchors, active, resolved, byFp, clusterLimit, mixed>>

(* What a load may return: the latest record that landed under each key;   *)
(* some never did, are lost with the mirror, or are corrupt and skipped.   *)
Loads == {R \in SUBSET clusterRecords : \A x, y \in R : x[1] = y[1] => x = y}

Live(R) == {x \in R : x[2].state # "resolved"}

Holders(R, f) == {x[1] : x \in {y \in Live(R) : f \in y[2].fps}}

Shared(R) == \E x, y \in Live(R) : x # y /\ x[2].fps \cap y[2].fps # {}

AsFunction(R) == [k \in {x[1] : x \in R} |-> (CHOOSE x \in R : x[1] = k)[2]]

(* Restore, before eviction.  A fingerprint of several live records is     *)
(* indexed by the one whose key comes last; that order is left open here.  *)
Rebuilt(R, index) ==
  [active |-> AsFunction(Live(R)), resolved |-> AsFunction(R \ Live(R)), byFp |-> index]

Indexes(R) ==
  LET fps == UNION {x[2].fps : x \in Live(R)}
  IN  {index \in [fps -> {x[1] : x \in Live(R)}] : \A f \in fps : index[f] \in Holders(R, f)}

(* RestoreFrom, at startup (nothing is left of the windows of duplicates)  *)
(* or at a promotion (the deduplicator keeps them).  A startup whose load  *)
(* fails goes on with nothing, as from an empty load.                      *)
Restore(R) ==
  /\ \E index \in Indexes(R) :
       LET s == Rebuilt(R, index)
       IN  \E V \in Victims(s) : Becomes(Evict(s, V))
  /\ anchors' \in {anchors, <<>>}
  /\ mixed' = Shared(R)
  /\ UNCHANGED <<clusterLimit, clusterRecords>>

NoiseNext ==
  \/ \E f \in Fps, at \in Times : \E domain \in Domains(f) : Process(f, at, domain)
  \/ \E k \in Keys : Ack(k) \/ CollectCluster(k)
  \/ \E R \in Loads : Restore(R)

NoiseSpec == NoiseInit /\ [][NoiseNext]_clusterVars

------------------------------------------------------------------------------
(* Properties                                                              *)

(* byFingerprint (cluster.go:113) holds exactly the fingerprints of active *)
(* clusters, each with a cluster that has it: Ingest dereferences what it  *)
(* finds there without a check (cluster.go:219), and an alert with a live  *)
(* cluster never opens a second one.  Through Process, Ack, eviction and   *)
(* restores, except after a restore that met one fingerprint in two live   *)
(* records, which Restore neither refuses nor repairs.                     *)
ClusterIndexIsExact ==
  mixed \/
    /\ \A f \in DOMAIN byFp : byFp[f] \in DOMAIN active /\ f \in active[byFp[f]].fps
    /\ \A k \in DOMAIN active : \A f \in active[k].fps : f \in DOMAIN byFp /\ byFp[f] = k
===============================================================================
