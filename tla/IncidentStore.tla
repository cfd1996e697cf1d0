---------------------------- MODULE IncidentStore ----------------------------
(***************************************************************************)
(* The incident store (internal/incident): the contract that the in-memory *)
(* store and the PostgreSQL store share, each method one atomic step, and  *)
(* the archive step of the retention sweeper.                              *)
(*                                                                         *)
(* An incident of link A has the id (series, generation): its series is    *)
(* its (origin, source_ref), the first generation has the bare id          *)
(* origin:ref and each recurrence after a resolution opens the next one.   *)
(* A person may give a manual incident any id without '#', so also the     *)
(* bare id of a series.  Titles, severities, payloads, timestamps and SLA  *)
(* minutes are left out; of acked_at only whether it is set is kept.       *)
(***************************************************************************)
EXTENDS Naturals

CONSTANTS
  Series,       \* the (origin, source_ref) pairs
  MaxGen,       \* bound: generations of a series
  ManualIds,    \* ids of manual incidents outside the series
  Clusters,     \* noise clusters
  NoIncident    \* merged_into = '', or a cluster not attached

Generations == 1..MaxGen
Ids == ManualIds \cup (Series \X Generations)

ASSUME StoreAssumption ==
  /\ MaxGen \in Nat
  /\ ManualIds \cap (Series \X Generations) = {}
  /\ NoIncident \notin Ids

VARIABLES
  inc,          \* the incident of each id
  cluster       \* incident_cluster: the incident that holds each cluster

svars == <<inc, cluster>>

States == {"open", "acked", "mitigated", "resolved"}
Actors == {"human", "system"}

Incident == [state : States \cup {"none"},
             origin : {"manual", "external"},
             policy : {"auto", "manual_only"},          \* auto_close_policy
             acked : BOOLEAN,                           \* acked_at is set
             ackBy : Actors \cup {"nobody"},
             mergedInto : Ids \cup {NoIncident}]

Fresh(origin, policy) ==
  [state |-> "open", origin |-> origin, policy |-> policy,
   acked |-> FALSE, ackBy |-> "nobody", mergedInto |-> NoIncident]

Absent == [Fresh("manual", "manual_only") EXCEPT !.state = "none"]

TypeOK ==
  /\ inc \in [Ids -> Incident]
  /\ cluster \in [Clusters -> Ids \cup {NoIncident}]

Init ==
  /\ inc = [i \in Ids |-> Absent]
  /\ cluster = [k \in Clusters |-> NoIncident]

Exists(i) == inc[i].state # "none"
Unresolved(i) == inc[i].state \notin {"none", "resolved"}

------------------------------------------------------------------------------
(* The state machine (statemachine.go)                                     *)

transitions ==
  [open      |-> {"acked", "mitigated", "resolved"},
   acked     |-> {"mitigated", "resolved"},
   mitigated |-> {"resolved"},
   resolved  |-> {},
   none      |-> {}]

CanTransition(from, to) == to \in transitions[from]

(* Mutant of Apply: acking does not hand the incident to the people.       *)
ApplyKeepsAuto(x, to, actor) ==
  [x EXCEPT !.state = to,
            !.acked = @ \/ to = "acked",
            !.ackBy = IF to = "resolved" THEN actor ELSE @]

(* planTransition and applyTransitionPlan: a person who acks takes the     *)
(* incident over, and the first ack is stamped once.                       *)
Apply(x, to, actor) ==
  [x EXCEPT !.state = to,
            !.policy = IF to = "acked" THEN "manual_only" ELSE @,
            !.acked = @ \/ to = "acked",
            !.ackBy = IF to = "resolved" THEN actor ELSE @]

Transition(i, to, actor) ==
  /\ CanTransition(inc[i].state, to)
  /\ inc' = [inc EXCEPT ![i] = Apply(@, to, actor)]
  /\ UNCHANGED cluster

------------------------------------------------------------------------------
(* Manual incidents                                                        *)

Nameable == ManualIds \cup (Series \X (Generations \cap {1}))

Create(i) ==
  /\ i \in Nameable
  /\ ~Exists(i)
  /\ inc' = [inc EXCEPT ![i] = Fresh("manual", "manual_only")]
  /\ UNCHANGED cluster

------------------------------------------------------------------------------
(* Link A: one incident per series, a new generation per recurrence        *)

(* The generations of a series that are stored; a manual incident that     *)
(* occupies the bare id is not one of them.                                *)
Gens(s) == {g \in Generations : Exists(<<s, g>>) /\ inc[<<s, g>>].origin = "external"}

(* ORDER BY generation DESC LIMIT 1                                        *)
Newest(s, g) == g \in Gens(s) /\ \A h \in Gens(s) : h <= g

ExternalActive(s) == \E g \in Gens(s) : Unresolved(<<s, g>>)

(* The current generation is unresolved: the alert only refreshes it.      *)
Refresh(s, i) ==
  /\ \E g \in Generations : i = <<s, g>> /\ Newest(s, g)
  /\ Unresolved(i)
  /\ UNCHANGED svars

(* Mutant of Recur: the first free generation instead of the next one.     *)
RecurFirstFree(s, i) ==
  /\ \E g \in Generations :
       /\ i = <<s, g>>
       /\ \A h \in 1..(g - 1) : h \in Gens(s) /\ ~Unresolved(<<s, h>>)
  /\ ~Exists(i)
  /\ inc' = [inc EXCEPT ![i] = Fresh("external", "auto")]
  /\ UNCHANGED cluster

(* None yet, or the current one is resolved: the next generation, refused  *)
(* if its id is taken by an incident of another kind.                      *)
Recur(s, i) ==
  /\ \E g \in Generations :
       /\ i = <<s, g>>
       /\ \/ g = 1 /\ Gens(s) = {}
          \/ Newest(s, g - 1) /\ ~Unresolved(<<s, g - 1>>)
  /\ ~Exists(i)
  /\ inc' = [inc EXCEPT ![i] = Fresh("external", "auto")]
  /\ UNCHANGED cluster

(* i is the id of the incident returned.                                   *)
UpsertExternal(s, i) == Refresh(s, i) \/ Recur(s, i)

------------------------------------------------------------------------------
(* Clusters, merging, archiving                                            *)

AttachCluster(i, k) ==
  /\ Exists(i)
  /\ cluster[k] = NoIncident
  /\ cluster' = [cluster EXCEPT ![k] = i]
  /\ UNCHANGED inc

(* Mutant of MoveClusters: the clusters stay with the merged incident.     *)
KeepClusters(i, t) == cluster

MoveClusters(i, t) == [k \in Clusters |-> IF cluster[k] = i THEN t ELSE cluster[k]]

(* Merging does not go through the transition table: a resolved incident   *)
(* may be merged too, and ack_by stays.                                    *)
MergeInto(i, t) ==
  /\ i # t
  /\ Exists(i) /\ Exists(t)
  /\ ~(inc[i].mergedInto = t /\ inc[i].state = "resolved")
  /\ inc' = [inc EXCEPT ![i].state = "resolved", ![i].mergedInto = t]
  /\ cluster' = MoveClusters(i, t)

(* Mutants of Archive: without the condition on the state; without the     *)
(* cascade to the clusters.                                                *)
ArchiveAny(i) ==
  /\ Exists(i)
  /\ inc' = [inc EXCEPT ![i] = Absent]
  /\ cluster' = [k \in Clusters |-> IF cluster[k] = i THEN NoIncident ELSE cluster[k]]
ArchiveKeepsClusters(i) ==
  /\ inc[i].state = "resolved"
  /\ inc' = [inc EXCEPT ![i] = Absent]
  /\ UNCHANGED cluster

(* sweepOnce, for an incident old enough: rechecked under the row lock,    *)
(* archived, deleted; its clusters go with it.                             *)
Archive(i) ==
  /\ inc[i].state = "resolved"
  /\ inc' = [inc EXCEPT ![i] = Absent]
  /\ cluster' = [k \in Clusters |-> IF cluster[k] = i THEN NoIncident ELSE cluster[k]]

------------------------------------------------------------------------------
Next ==
  \/ \E i \in Ids : Create(i) \/ Archive(i)
  \/ \E i \in Ids, to \in States : Transition(i, to, "human")
  \/ \E i \in Ids : Transition(i, "resolved", "system")
  \/ \E s \in Series, i \in Ids : UpsertExternal(s, i)
  \/ \E i \in Ids, k \in Clusters : AttachCluster(i, k)
  \/ \E i, t \in Ids : MergeInto(i, t)

Spec == Init /\ [][Next]_svars

------------------------------------------------------------------------------
(* Properties                                                              *)

(* Only the newest generation of a series can be unresolved, so an alert   *)
(* has at most one active incident and a push refreshes exactly that one   *)
(* (UpsertExternal, M9), whatever people merge, resolve or name by hand    *)
(* and whatever the sweeper takes away in between.                         *)
OnlyNewestActive ==
  \A s \in Series : \A g \in Gens(s) : Unresolved(<<s, g>>) => Newest(s, g)

(* An incident that was acked, in whatever state it is now, is exempt from *)
(* automatic closing, and one created by hand always is (R2).              *)
AckedIsHandedOver ==
  \A i \in Ids : inc[i].acked \/ inc[i].origin = "manual" => inc[i].policy = "manual_only"

(* A cluster always points at a stored incident, through merges and        *)
(* archiving alike (one cluster, one incident: ON DELETE CASCADE).         *)
ClustersHaveOwners ==
  \A k \in Clusters : cluster[k] # NoIncident => Exists(cluster[k])

(* A resolved incident is never reopened in place, nor does an unresolved  *)
(* one disappear: recurrences, merges and the sweeper included.            *)
Lifecycle ==
  [][\A i \in Ids :
       /\ inc[i].state = "resolved" => inc'[i].state \in {"resolved", "none"}
       /\ Unresolved(i) => Exists(i)']_svars

(* A merge leaves no cluster behind, so the fault domain of the merged     *)
(* incident is never orphaned with it (D7).                                *)
MergeEmptiesSource ==
  [][\A i \in Ids : inc'[i].mergedInto # inc[i].mergedInto =>
       \A k \in Clusters : cluster'[k] # i]_svars
==============================================================================
