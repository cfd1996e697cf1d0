----------------------------- MODULE ChangeRecords -----------------------------
(***************************************************************************)
(* The record of changes, evidence for the root cause analysis: a cache in *)
(* the memory of each instance (internal/topology/change.go) in front of   *)
(* the table change_record (change_pg.go), fed by the webhook of changes   *)
(* (cmd/opscopilot/change_webhook.go), replayed at the start and pruned to *)
(* a window of retention (change_prune.go).                                *)
(***************************************************************************)
EXTENDS Integers, FiniteSets, Functions

CONSTANTS
  ChangeHosts,       \* the instances
  ChangeIds,
  ChangeNodes,       \* nodes of the topology
  ChangeRetention,
  MaxChangeTime,     \* bound on the clock
  MaxChangeFaults    \* bound on failures and crashes

ASSUME ChangeAssumption ==
  /\ ChangeRetention \in Nat /\ MaxChangeTime \in Nat /\ MaxChangeFaults \in Nat

VARIABLES
  changeClock,
  store,          \* per instance: "down", "pg" or "memory" (degraded)
  cache,          \* per instance: id -> event
  byNode,         \* per instance: node -> ids
  persisting,     \* per instance: the events on their way to the table
  table,          \* id -> event
  acknowledged,   \* per instance: the ids answered 200 that it has not pruned since
  changeFaults

changeVars ==
  <<changeClock, store, cache, byNode, persisting, table, acknowledged, changeFaults>>

ChangeEvents == [id : ChangeIds, node : ChangeNodes, at : 0..MaxChangeTime]

Nil == [id \in {} |-> {}]

NoIds == [n \in ChangeNodes |-> {}]

IsRecord(f) == DOMAIN f \subseteq ChangeIds /\ Range(f) \subseteq ChangeEvents

ChangeTypeOK ==
  /\ changeClock \in 0..MaxChangeTime
  /\ store \in [ChangeHosts -> {"down", "pg", "memory"}]
  /\ \A i \in ChangeHosts : IsRecord(cache[i]) /\ persisting[i] \subseteq ChangeEvents
  /\ byNode \in [ChangeHosts -> [ChangeNodes -> SUBSET ChangeIds]]
  /\ IsRecord(table)
  /\ acknowledged \in [ChangeHosts -> SUBSET ChangeIds]
  /\ changeFaults \in 0..MaxChangeFaults

ChangeInit ==
  /\ changeClock = 0
  /\ store = [i \in ChangeHosts |-> "down"]
  /\ cache = [i \in ChangeHosts |-> Nil]
  /\ byNode = [i \in ChangeHosts |-> NoIds]
  /\ persisting = [i \in ChangeHosts |-> {}]
  /\ table = Nil
  /\ acknowledged = [i \in ChangeHosts |-> {}]
  /\ changeFaults = 0

ChangeFault == changeFaults < MaxChangeFaults /\ changeFaults' = changeFaults + 1

Cutoff == changeClock - ChangeRetention

Kept(f) == Restrict(f, {id \in DOMAIN f : f[id].at >= Cutoff})

Aged(f) == DOMAIN f \ DOMAIN Kept(f)

(* The index of a cache.                                                   *)
IdsByNode(f) == [n \in ChangeNodes |-> {id \in DOMAIN f : f[id].node = n}]

------------------------------------------------------------------------------

TimeGoesOn ==
  /\ changeClock < MaxChangeTime /\ changeClock' = changeClock + 1
  /\ UNCHANGED <<store, cache, byNode, persisting, table, acknowledged, changeFaults>>

(* Record of a change that is new to this instance, by the webhook: into   *)
(* the cache, then to the table.  A degraded instance answers at once.     *)
Record(i, ev) ==
  /\ store[i] # "down" /\ ev.id \notin DOMAIN cache[i] /\ ev.at <= changeClock
  /\ cache' = [cache EXCEPT ![i] = [id \in DOMAIN @ \cup {ev.id} |-> IF id = ev.id THEN ev ELSE @[id]]]
  /\ byNode' = [byNode EXCEPT ![i][ev.node] = @ \cup {ev.id}]
  /\ IF store[i] = "pg"
     THEN persisting' = [persisting EXCEPT ![i] = @ \cup {ev}] /\ UNCHANGED acknowledged
     ELSE acknowledged' = [acknowledged EXCEPT ![i] = @ \cup {ev.id}] /\ UNCHANGED persisting
  /\ UNCHANGED <<changeClock, store, table, changeFaults>>

(* A duplicate is answered 200; its row is not tried again.                *)
RecordAgain(i, id) ==
  /\ store[i] # "down" /\ id \in DOMAIN cache[i] \ acknowledged[i]
  /\ acknowledged' = [acknowledged EXCEPT ![i] = @ \cup {id}]
  /\ UNCHANGED <<changeClock, store, cache, byNode, persisting, table, changeFaults>>

(* The insert, which leaves a row of that id as it is; an error is logged  *)
(* and the change stays in memory.  Either way the answer is 200.          *)
Persist(i, ev) ==
  /\ ev \in persisting[i]
  /\ persisting' = [persisting EXCEPT ![i] = @ \ {ev}]
  /\ \/ /\ table' = [id \in DOMAIN table \cup {ev.id} |->
                       IF id \in DOMAIN table THEN table[id] ELSE ev]
        /\ UNCHANGED changeFaults
     \/ ChangeFault /\ UNCHANGED table
  /\ acknowledged' = [acknowledged EXCEPT ![i] = @ \cup ({ev.id} \cap DOMAIN cache[i])]
  /\ UNCHANGED <<changeClock, store, cache, byNode>>

(* Mutant of PruneBefore: the index is not rebuilt.                        *)
PruneKeepsIndex(i) ==
  /\ store[i] # "down" /\ Kept(cache[i]) # cache[i]
  /\ cache' = [cache EXCEPT ![i] = Kept(@)]
  /\ table' \in {Kept(table), table}
  /\ acknowledged' = [acknowledged EXCEPT ![i] = {id \in @ : id \notin Aged(cache[i])}]
  /\ UNCHANGED <<changeClock, store, byNode, persisting, changeFaults>>

(* The memory, its index rebuilt if anything went, and the table of all    *)
(* tenants, whose delete may fail.                                         *)
PruneBefore(i) ==
  /\ store[i] # "down"
  /\ cache' = [cache EXCEPT ![i] = Kept(@)]
  /\ byNode' = [byNode EXCEPT ![i] = IF cache'[i] = cache[i] THEN @ ELSE IdsByNode(cache'[i])]
  /\ table' \in {IF store[i] = "pg" THEN Kept(table) ELSE table, table}
  /\ acknowledged' = [acknowledged EXCEPT ![i] = {id \in @ : id \notin Aged(cache[i])}]
  /\ UNCHANGED <<changeClock, store, persisting, changeFaults>>

(* An instance starts and replays the rows of the window; an error leaves  *)
(* it with what it has read so far, in memory only.  A change whose insert *)
(* had failed is gone with the process that knew it.                       *)
LoadSince(i) ==
  /\ store[i] = "down"
  /\ \/ store' = [store EXCEPT ![i] = "pg"] /\ cache' = [cache EXCEPT ![i] = Kept(table)]
        /\ UNCHANGED changeFaults
     \/ /\ store' = [store EXCEPT ![i] = "memory"] /\ ChangeFault
        /\ \E read \in SUBSET DOMAIN Kept(table) : cache' = [cache EXCEPT ![i] = Restrict(table, read)]
  /\ byNode' = [byNode EXCEPT ![i] = IdsByNode(cache'[i])]
  /\ acknowledged' = [acknowledged EXCEPT ![i] = @ \cap DOMAIN Kept(table)]
  /\ UNCHANGED <<changeClock, persisting, table>>

HostDies(i) ==
  /\ store[i] # "down" /\ ChangeFault
  /\ store' = [store EXCEPT ![i] = "down"]
  /\ cache' = [cache EXCEPT ![i] = Nil]
  /\ byNode' = [byNode EXCEPT ![i] = NoIds]
  /\ persisting' = [persisting EXCEPT ![i] = {}]
  /\ UNCHANGED <<changeClock, table, acknowledged>>

ChangeNext ==
  \/ TimeGoesOn
  \/ \E i \in ChangeHosts :
       \/ \E ev \in ChangeEvents : Record(i, ev) \/ Persist(i, ev)
       \/ \E id \in ChangeIds : RecordAgain(i, id)
       \/ PruneBefore(i) \/ LoadSince(i) \/ HostDies(i)

ChangeSpec == ChangeInit /\ [][ChangeNext]_changeVars

------------------------------------------------------------------------------
(* Properties                                                              *)

(* The evidence is there when the analysis asks for it (change_pg.go:12):  *)
(* the index of a node names the cached changes of that node and no other  *)
(* (one too many is a nil dereference, change.go:238), and a change an     *)
(* instance has acknowledged and that has its row in the table is found by *)
(* this instance until it leaves the window, across restarts, prunes and   *)
(* failed deletes.                                                         *)
ChangesAreFound ==
  \A i \in ChangeHosts :
    /\ byNode[i] = IdsByNode(cache[i])
    /\ store[i] = "pg" => acknowledged[i] \cap DOMAIN Kept(table) \subseteq DOMAIN cache[i]
===============================================================================
