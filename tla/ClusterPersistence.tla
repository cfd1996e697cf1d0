--------------------------- MODULE ClusterPersistence ---------------------------
(***************************************************************************)
(* How the clusters of the noise engine are saved and restored:            *)
(* ProcessAlerts picks the clusters whose signature changed, saves them    *)
(* outside its lock and then commits the signatures                        *)
(* (cmd/opscopilot/noise_process.go), to a mirror in Redis and to a table  *)
(* in PostgreSQL (noise_store_redis.go, noise_store_pg.go); an instance    *)
(* that is promoted replaces its clusters by what it reads there           *)
(* (leader_gated.go, internal/noise/store.go).                             *)
(*                                                                         *)
(* What a cluster holds is a version: every alert that touches it gives it *)
(* a version nobody had before, and a signature is the version it was      *)
(* computed from.  Gated loops stop some time after the lock is lost, so   *)
(* an instance may go on processing and saving after another one has been  *)
(* promoted.                                                               *)
(***************************************************************************)
EXTENDS Integers, FiniteSets

CONSTANTS
  Engines,          \* instances
  ClusterKeys,
  NoEngine,
  MaxVersion,       \* bound on the changes of clusters
  MaxLapses         \* bound on failed saves and reads, crashes and lost mirrors

ASSUME PersistenceAssumption ==
  /\ NoEngine \notin Engines /\ ClusterKeys # {}
  /\ MaxVersion \in Nat /\ MaxLapses \in Nat

VARIABLES
  memory,           \* per instance and cluster: its version, 0 if there is none
  signature,        \* persistedSig, 0 if there is none
  batch,            \* per instance: the save under way
  promotion,        \* per instance: records read for RestoreFrom, or Nothing
  processing,       \* instances whose gated loops run
  promoted,         \* the instance promoted last
  mirror,           \* Redis
  clusterRows,            \* PostgreSQL: alert_cluster
  intruded,         \* <<e, k>>: another instance saved k since e was promoted
  version, lapses   \* versions and failures so far

engineVars == <<memory, signature, batch>>
storeVars == <<mirror, clusterRows, intruded>>
clusterStoreVars == <<engineVars, promotion, processing, promoted, storeVars, version, lapses>>

Versions == 0..MaxVersion
Empty == [k \in ClusterKeys |-> 0]
Nothing == [read |-> FALSE, records |-> Empty]

(* A batch: the clusters still to save, the one being saved, and how far.  *)
NoBatch == [dirty |-> Empty, at |-> "idle", key |-> CHOOSE k \in ClusterKeys : TRUE, failed |-> FALSE]

StoreTypeOK ==
  /\ memory \in [Engines -> [ClusterKeys -> Versions]]
  /\ signature \in [Engines -> [ClusterKeys -> Versions]]
  /\ batch \in [Engines -> [dirty : [ClusterKeys -> Versions], key : ClusterKeys,
                            failed : BOOLEAN, at : {"idle", "next", "table", "commit"}]]
  /\ promotion \in [Engines -> [read : BOOLEAN, records : [ClusterKeys -> Versions]]]
  /\ processing \subseteq Engines /\ promoted \in Engines \cup {NoEngine}
  /\ mirror \in [ClusterKeys -> Versions] /\ clusterRows \in [ClusterKeys -> Versions]
  /\ intruded \subseteq Engines \X ClusterKeys /\ version \in Versions /\ lapses \in 0..MaxLapses

StoreInit ==
  /\ memory = [e \in Engines |-> Empty] /\ signature = memory
  /\ batch = [e \in Engines |-> NoBatch]
  /\ promotion = [e \in Engines |-> Nothing]
  /\ processing = {} /\ promoted = NoEngine
  /\ mirror = Empty /\ clusterRows = Empty /\ intruded = {}
  /\ version = 0 /\ lapses = 0

Lapse == lapses < MaxLapses /\ lapses' = lapses + 1

------------------------------------------------------------------------------
(* ProcessAlerts                                                           *)

(* gcSigCacheLocked: signatures of clusters that are gone may be dropped.  *)
Collected(sig, mem, S) == [k \in ClusterKeys |-> IF k \in S /\ mem[k] = 0 THEN 0 ELSE sig[k]]

(* The locked part: alerts change clusters, the memory limit may push some *)
(* out, and those whose signature differs are picked.                      *)
ProcessAlerts(e) ==
  /\ e \in processing
  /\ batch[e].at = "idle"
  /\ version < MaxVersion
  /\ version' = version + 1
  /\ \E touched \in ClusterKeys, evicted, orphans \in SUBSET ClusterKeys :
       LET mem == [k \in ClusterKeys |-> IF k \in evicted THEN 0
                                         ELSE IF k = touched THEN version + 1 ELSE memory[e][k]]
       IN  /\ orphans \subseteq evicted
           /\ memory' = [memory EXCEPT ![e] = mem]
           /\ signature' = [signature EXCEPT ![e] = Collected(@, mem, orphans)]
           /\ batch' = [batch EXCEPT ![e] = [NoBatch EXCEPT !.at = "next",
                !.dirty = [k \in ClusterKeys |-> IF signature[e][k] # mem[k] THEN mem[k] ELSE 0]]]
  /\ UNCHANGED <<promotion, processing, promoted, storeVars, lapses>>

(* persistClusters, multiRecordSink: the mirror first, ...                 *)
SaveMirror(e) ==
  /\ batch[e].at = "next"
  /\ \E k \in ClusterKeys :
       /\ batch[e].dirty[k] # 0
       /\ \/ /\ mirror' = [mirror EXCEPT ![k] = batch[e].dirty[k]]
             /\ batch' = [batch EXCEPT ![e].at = "table", ![e].key = k]
             /\ UNCHANGED lapses
          \/ /\ Lapse
             /\ batch' = [batch EXCEPT ![e].at = "table", ![e].key = k, ![e].failed = TRUE]
             /\ UNCHANGED mirror
  /\ UNCHANGED <<memory, signature, promotion, processing, promoted, clusterRows, intruded, version>>

(* ... then the table, whatever became of the mirror; a failure of either  *)
(* leaves the signature uncommitted.                                       *)
SaveTable(e) ==
  LET b == batch[e]
      done == [b EXCEPT !.at = "next", !.dirty[b.key] = 0, !.failed = FALSE]
  IN
  /\ b.at = "table"
  /\ \/ /\ clusterRows' = [clusterRows EXCEPT ![b.key] = b.dirty[b.key]]
        /\ intruded' = intruded \cup ((Engines \ {e}) \X {b.key})
        /\ batch' = [batch EXCEPT ![e] = IF b.failed THEN done ELSE [b EXCEPT !.at = "commit"]]
        /\ UNCHANGED lapses
     \/ /\ Lapse
        /\ batch' = [batch EXCEPT ![e] = done]
        /\ UNCHANGED <<clusterRows, intruded>>
  /\ UNCHANGED <<memory, signature, promotion, processing, promoted, mirror, version>>

(* Mutant of Commit: the signature is that of the cluster as it is now.    *)
CommitCurrent(e) ==
  LET k == batch[e].key
  IN
  /\ batch[e].at = "commit"
  /\ signature' = [signature EXCEPT ![e][k] = memory[e][k]]
  /\ batch' = [batch EXCEPT ![e].at = "next", ![e].dirty[k] = 0]
  /\ UNCHANGED <<memory, promotion, processing, promoted, storeVars, version, lapses>>

Commit(e) ==
  LET k == batch[e].key
  IN
  /\ batch[e].at = "commit"
  /\ signature' = [signature EXCEPT ![e][k] = batch[e].dirty[k]]
  /\ batch' = [batch EXCEPT ![e].at = "next", ![e].dirty[k] = 0]
  /\ UNCHANGED <<memory, promotion, processing, promoted, storeVars, version, lapses>>

BatchEnds(e) ==
  /\ batch[e].at = "next"
  /\ batch[e].dirty = Empty
  /\ batch' = [batch EXCEPT ![e] = NoBatch]
  /\ \E orphans \in SUBSET ClusterKeys :
       signature' = [signature EXCEPT ![e] = Collected(@, memory[e], orphans)]
  /\ UNCHANGED <<memory, promotion, processing, promoted, storeVars, version, lapses>>

------------------------------------------------------------------------------
(* Promotion                                                               *)

(* LoadClusters of the two stores.                                         *)
FromMirror(records) == records = mirror /\ mirror # Empty
FromTable(records) == records = clusterRows

(* clusterRestoreOnPromote: the mirror if it can be read and is not empty, *)
(* else the table, else nothing if the mirror at least could be read.  The *)
(* lock admits one instance at a time.                                     *)
Load(e) ==
  /\ e # promoted
  /\ \A f \in Engines : ~promotion[f].read
  /\ \E records \in {mirror, clusterRows, Empty} :
       /\ promotion' = [promotion EXCEPT ![e] = [read |-> TRUE, records |-> records]]
       /\ \/ FromMirror(records) /\ UNCHANGED lapses
          \/ FromTable(records) /\ IF mirror = Empty THEN UNCHANGED lapses ELSE Lapse
          \/ records = Empty /\ mirror = Empty /\ Lapse
  /\ UNCHANGED <<engineVars, processing, promoted, storeVars, version>>

(* Restore: the clusters are those of the records, and no others.          *)
Restored(e) == [memory EXCEPT ![e] = promotion[e].records]

(* RestoreFrom, then the flip: the signatures are dropped, the loops start. *)
BecomeLeader(e) ==
  /\ promotion[e].read
  /\ memory' = Restored(e)
  /\ signature' = [signature EXCEPT ![e] = Empty]
  /\ promotion' = [promotion EXCEPT ![e] = Nothing]
  /\ promoted' = e
  /\ processing' = processing \cup {e}
  /\ intruded' = IF batch[e].at = "idle" THEN intruded \ ({e} \X ClusterKeys) ELSE intruded
  /\ UNCHANGED <<batch, mirror, clusterRows, version, lapses>>

(* The gated loops of an instance that lost the lock return.               *)
EngineLoopsReturn(e) ==
  /\ e \in processing
  /\ e # promoted
  /\ batch[e].at = "idle"
  /\ processing' = processing \ {e}
  /\ UNCHANGED <<engineVars, promotion, promoted, storeVars, version, lapses>>

StepDown(e) ==
  /\ e = promoted
  /\ promoted' = NoEngine
  /\ UNCHANGED <<engineVars, promotion, processing, storeVars, version, lapses>>

EngineDies(e) ==
  /\ Lapse
  /\ memory' = [memory EXCEPT ![e] = Empty]
  /\ signature' = [signature EXCEPT ![e] = Empty]
  /\ batch' = [batch EXCEPT ![e] = NoBatch]
  /\ promotion' = [promotion EXCEPT ![e] = Nothing]
  /\ processing' = processing \ {e}
  /\ promoted' = IF promoted = e THEN NoEngine ELSE promoted
  /\ UNCHANGED <<storeVars, version>>

MirrorLost ==
  /\ Lapse
  /\ mirror' = Empty
  /\ UNCHANGED <<engineVars, promotion, processing, promoted, clusterRows, intruded, version>>

StoreNext ==
  \/ \E e \in Engines :
       \/ ProcessAlerts(e) \/ SaveMirror(e) \/ SaveTable(e) \/ Commit(e) \/ BatchEnds(e)
       \/ Load(e) \/ BecomeLeader(e) \/ EngineLoopsReturn(e) \/ StepDown(e) \/ EngineDies(e)
  \/ MirrorLost

StoreSpec == StoreInit /\ [][StoreNext]_clusterStoreVars

------------------------------------------------------------------------------
(* Properties                                                              *)

(* A cluster the next batch would skip is in the table as it is in memory. *)
Skippable(e, k) == memory[e][k] # 0 /\ signature[e][k] = memory[e][k]

Stored(e, k) == clusterRows[k] = memory[e][k]

(* A failed save is never taken for a done one (dirtyCluster, persist-     *)
(* Clusters, RestoreFrom): what the promoted instance considers saved is   *)
(* in the table, through failures, evictions, restarts and restores during *)
(* a batch, unless another instance wrote the row since it was promoted    *)
(* (with a batch of its own under way: since the promotion before).        *)
CommittedIsStored ==
  \A e \in Engines, k \in ClusterKeys :
    e = promoted /\ <<e, k>> \notin intruded /\ Skippable(e, k) => Stored(e, k)
===============================================================================
