------------------------- MODULE IncidentStoreProofs -------------------------
(***************************************************************************)
(* Proofs about the incident store contract, for all sets of series,       *)
(* manual ids and clusters and any bound on the generations.  The four     *)
(* invariants of the run are together inductive.                           *)
(***************************************************************************)
EXTENDS IncidentStore, TLAPS

StoreInv ==
  /\ TypeOK
  /\ OnlyNewestActive
  /\ AckedIsHandedOver
  /\ ClustersHaveOwners

------------------------------------------------------------------------------
(* The state machine                                                       *)

(* Only an unresolved incident can make a transition, and never back to    *)
(* open.                                                                   *)
LEMMA TransitionsLeadOn ==
  ASSUME NEW from \in States \cup {"none"}, NEW to, CanTransition(from, to)
  PROVE  to \in {"acked", "mitigated", "resolved"} /\ from \notin {"none", "resolved"}
<1>1. CASE from = "open"
  BY <1>1 DEF CanTransition, transitions
<1>2. CASE from = "acked"
  BY <1>2 DEF CanTransition, transitions
<1>3. CASE from = "mitigated"
  BY <1>3 DEF CanTransition, transitions
<1>4. CASE from \in {"none", "resolved"}
  BY <1>4 DEF CanTransition, transitions
<1>5. QED
  BY <1>1, <1>2, <1>3, <1>4 DEF States

LEMMA FreshIsIncident ==
  ASSUME NEW o \in {"manual", "external"}, NEW p \in {"auto", "manual_only"}
  PROVE  Fresh(o, p) \in Incident
BY DEF Fresh, Incident, States

LEMMA AbsentIsIncident == Absent \in Incident /\ Absent.state = "none" /\ Absent.origin = "manual"
                          /\ Absent.policy = "manual_only" /\ ~Absent.acked
BY DEF Absent, Fresh, Incident, States

------------------------------------------------------------------------------
(* A step that makes no incident of link A and reactivates none keeps the  *)
(* active generation the newest one.                                       *)
LEMMA QuietStepKeepsNewest ==
  ASSUME OnlyNewestActive,
         \A i \in Series \X Generations :
           Exists(i)' /\ inc'[i].origin = "external" =>
             /\ Exists(i)
             /\ inc[i].origin = "external"
             /\ Unresolved(i)' => Unresolved(i)
  PROVE  OnlyNewestActive'
<1> SUFFICES ASSUME NEW s \in Series, NEW g \in Gens(s)', Unresolved(<<s, g>>)',
                    NEW h \in Gens(s)'
             PROVE  h <= g
  BY DEF OnlyNewestActive, Newest
<1>1. g \in Gens(s) /\ h \in Gens(s) /\ Unresolved(<<s, g>>)
  BY DEF Gens
<1>2. QED
  BY <1>1 DEF OnlyNewestActive, Newest

------------------------------------------------------------------------------
(* Each action preserves StoreInv.                                         *)

LEMMA CreateStoreInv ==
  ASSUME StoreInv, NEW i \in Ids, Create(i)
  PROVE  StoreInv'
<1> DEFINE x == Fresh("manual", "manual_only")
<1>1. /\ x \in Incident /\ x.state = "open" /\ x.origin = "manual"
      /\ x.policy = "manual_only" /\ ~x.acked
  BY FreshIsIncident DEF Fresh
<1>2. inc' = [inc EXCEPT ![i] = x] /\ cluster' = cluster /\ ~Exists(i)
  BY DEF Create
<1> HIDE DEF x
<1> USE DEF StoreInv
<1>3. TypeOK'
  BY <1>1, <1>2 DEF TypeOK
<1>4. OnlyNewestActive'
  <2>1. \A j \in Series \X Generations :
          Exists(j)' /\ inc'[j].origin = "external" =>
            Exists(j) /\ inc[j].origin = "external" /\ (Unresolved(j)' => Unresolved(j))
    BY <1>1, <1>2 DEF TypeOK, Ids, Exists, Unresolved
  <2>2. QED
    BY <2>1, QuietStepKeepsNewest
<1>5. AckedIsHandedOver'
  BY <1>1, <1>2 DEF TypeOK, AckedIsHandedOver
<1>6. ClustersHaveOwners'
  BY <1>1, <1>2 DEF TypeOK, ClustersHaveOwners, Exists
<1>7. QED
  BY <1>3, <1>4, <1>5, <1>6

LEMMA TransitionStoreInv ==
  ASSUME StoreInv, NEW i \in Ids, NEW to \in States, NEW actor \in Actors,
         Transition(i, to, actor)
  PROVE  StoreInv'
<1> USE DEF StoreInv
<1> DEFINE x == Apply(inc[i], to, actor)
<1>1. inc[i] \in Incident /\ inc[i].state \in States \cup {"none"}
  BY DEF TypeOK, Incident
<1>2. to \in {"acked", "mitigated", "resolved"} /\ inc[i].state \notin {"none", "resolved"}
  BY <1>1, TransitionsLeadOn DEF Transition
<1>3. /\ x \in Incident
      /\ x.state = to
      /\ x.origin = inc[i].origin
      /\ x.policy = IF to = "acked" THEN "manual_only" ELSE inc[i].policy
      /\ x.acked = (inc[i].acked \/ to = "acked")
  BY <1>1, <1>2 DEF Apply, Incident, States, Actors
<1>4. inc' = [inc EXCEPT ![i] = x] /\ cluster' = cluster
  BY DEF Transition
<1> HIDE DEF x
<1>5. TypeOK'
  BY <1>3, <1>4 DEF TypeOK
<1>6. OnlyNewestActive'
  <2>1. \A j \in Series \X Generations :
          Exists(j)' /\ inc'[j].origin = "external" =>
            Exists(j) /\ inc[j].origin = "external" /\ (Unresolved(j)' => Unresolved(j))
    BY <1>2, <1>3, <1>4 DEF TypeOK, Ids, Exists, Unresolved
  <2>2. QED
    BY <2>1, QuietStepKeepsNewest
<1>7. AckedIsHandedOver'
  BY <1>1, <1>3, <1>4 DEF TypeOK, AckedIsHandedOver
<1>8. ClustersHaveOwners'
  BY <1>2, <1>3, <1>4 DEF TypeOK, ClustersHaveOwners, Exists
<1>9. QED
  BY <1>5, <1>6, <1>7, <1>8

(* The case that matters: the new generation is above all stored ones, and *)
(* the newest of those, the only one that could be active, is resolved.    *)
LEMMA RecurStoreInv ==
  ASSUME StoreInv, NEW s \in Series, NEW i \in Ids, Recur(s, i)
  PROVE  StoreInv'
<1> USE DEF StoreInv
<1> DEFINE x == Fresh("external", "auto")
<1>1. /\ x \in Incident /\ x.state = "open" /\ x.origin = "external" /\ ~x.acked
  BY FreshIsIncident DEF Fresh
<1>2. inc' = [inc EXCEPT ![i] = x] /\ cluster' = cluster /\ ~Exists(i)
  BY DEF Recur
<1>3. PICK g \in Generations :
        /\ i = <<s, g>>
        /\ \/ g = 1 /\ Gens(s) = {}
           \/ Newest(s, g - 1) /\ ~Unresolved(<<s, g - 1>>)
  BY DEF Recur
<1> HIDE DEF x
<1>4. TypeOK'
  BY <1>1, <1>2 DEF TypeOK
<1>5. OnlyNewestActive'
  <2> SUFFICES ASSUME NEW t \in Series, NEW a \in Gens(t)', Unresolved(<<t, a>>)',
                      NEW b \in Gens(t)'
               PROVE  b <= a
    BY DEF OnlyNewestActive, Newest
  <2>1. a \in Generations /\ b \in Generations /\ Generations \subseteq Nat
    BY DEF Gens, Generations
  <2>2. \A c \in Generations : <<t, c>> # i =>
          /\ c \in Gens(t)' <=> c \in Gens(t)
          /\ Unresolved(<<t, c>>)' <=> Unresolved(<<t, c>>)
    BY <1>2 DEF TypeOK, Ids, Gens, Exists, Unresolved
  <2>3. CASE t # s
    <3>1. a \in Gens(t) /\ b \in Gens(t) /\ Unresolved(<<t, a>>)
      BY <2>1, <2>2, <2>3, <1>3
    <3>2. QED
      BY <3>1 DEF OnlyNewestActive, Newest
  <2>4. CASE t = s
    <3>1. \A c \in Gens(s) : c < g /\ ~Unresolved(<<s, c>>)
      <4>1. CASE Gens(s) = {}
        BY <4>1
      <4>2. CASE Newest(s, g - 1) /\ ~Unresolved(<<s, g - 1>>)
        <5>1. Gens(s) \subseteq Nat /\ g \in Nat
          BY <2>1 DEF Gens
        <5>2. g - 1 \in Gens(s) /\ \A c \in Gens(s) : c <= g - 1
          BY <4>2 DEF Newest
        <5>3. \A c \in Gens(s) : Unresolved(<<s, c>>) => c = g - 1
          BY <5>1, <5>2 DEF OnlyNewestActive, Newest
        <5>4. QED
          BY <4>2, <5>1, <5>2, <5>3
      <4>3. QED
        BY <1>3, <4>1, <4>2
    <3>2. a = g
      BY <1>3, <2>1, <2>2, <2>4, <3>1
    <3>3. b = g \/ b \in Gens(s)
      BY <1>3, <2>1, <2>2, <2>4
    <3>4. b \in Nat /\ g \in Nat
      BY <2>1
    <3>5. b = g \/ b < g
      BY <3>1, <3>3
    <3>6. QED
      BY <3>2, <3>4, <3>5
  <2>5. QED
    BY <2>3, <2>4
<1>6. AckedIsHandedOver'
  BY <1>1, <1>2 DEF TypeOK, AckedIsHandedOver
<1>7. ClustersHaveOwners'
  BY <1>1, <1>2 DEF TypeOK, ClustersHaveOwners, Exists
<1>8. QED
  BY <1>4, <1>5, <1>6, <1>7

LEMMA AttachClusterStoreInv ==
  ASSUME StoreInv, NEW i \in Ids, NEW k \in Clusters, AttachCluster(i, k)
  PROVE  StoreInv'
<1> USE DEF StoreInv, AttachCluster
<1>1. TypeOK'
  BY DEF TypeOK
<1>2. OnlyNewestActive'
  <2>1. \A j \in Series \X Generations :
          Exists(j)' /\ inc'[j].origin = "external" =>
            Exists(j) /\ inc[j].origin = "external" /\ (Unresolved(j)' => Unresolved(j))
    BY DEF Exists, Unresolved
  <2>2. QED
    BY <2>1, QuietStepKeepsNewest
<1>3. AckedIsHandedOver' /\ ClustersHaveOwners'
  BY DEF TypeOK, AckedIsHandedOver, ClustersHaveOwners, Exists
<1>4. QED
  BY <1>1, <1>2, <1>3

LEMMA MergeIntoStoreInv ==
  ASSUME StoreInv, NEW i \in Ids, NEW t \in Ids, MergeInto(i, t)
  PROVE  StoreInv'
<1> USE DEF StoreInv
<1> DEFINE x == [inc[i] EXCEPT !.state = "resolved", !.mergedInto = t]
<1>1. inc' = [inc EXCEPT ![i] = x] /\ cluster' = MoveClusters(i, t) /\ Exists(i) /\ Exists(t)
  BY DEF MergeInto, TypeOK
<1>2. inc[i] \in Incident
  BY DEF TypeOK
<1>3. /\ x \in Incident /\ x.state = "resolved" /\ x.origin = inc[i].origin
      /\ x.policy = inc[i].policy /\ x.acked = inc[i].acked
  BY <1>2 DEF Incident, States
<1> HIDE DEF x
<1>4. TypeOK'
  BY <1>1, <1>3 DEF TypeOK, MoveClusters
<1>5. OnlyNewestActive'
  <2>1. \A j \in Series \X Generations :
          Exists(j)' /\ inc'[j].origin = "external" =>
            Exists(j) /\ inc[j].origin = "external" /\ (Unresolved(j)' => Unresolved(j))
    BY <1>1, <1>3 DEF TypeOK, Ids, Exists, Unresolved
  <2>2. QED
    BY <2>1, QuietStepKeepsNewest
<1>6. AckedIsHandedOver'
  BY <1>1, <1>3 DEF TypeOK, AckedIsHandedOver
<1>7. ClustersHaveOwners'
  <2>1. \A j \in Ids : Exists(j) => Exists(j)'
    BY <1>1, <1>3 DEF TypeOK, Exists
  <2>2. \A k \in Clusters : cluster[k] \in Ids \cup {NoIncident}
    BY DEF TypeOK
  <2>3. QED
    BY <1>1, <2>1, <2>2 DEF ClustersHaveOwners, MoveClusters
<1>8. QED
  BY <1>4, <1>5, <1>6, <1>7

LEMMA ArchiveStoreInv ==
  ASSUME StoreInv, NEW i \in Ids, Archive(i)
  PROVE  StoreInv'
<1> USE DEF StoreInv
<1>1. /\ inc' = [inc EXCEPT ![i] = Absent]
      /\ cluster' = [k \in Clusters |-> IF cluster[k] = i THEN NoIncident ELSE cluster[k]]
  BY DEF Archive
<1> USE AbsentIsIncident
<1>2. TypeOK'
  BY <1>1 DEF TypeOK
<1>3. OnlyNewestActive'
  <2>1. \A j \in Series \X Generations :
          Exists(j)' /\ inc'[j].origin = "external" =>
            Exists(j) /\ inc[j].origin = "external" /\ (Unresolved(j)' => Unresolved(j))
    BY <1>1 DEF TypeOK, Ids, Exists, Unresolved
  <2>2. QED
    BY <2>1, QuietStepKeepsNewest
<1>4. AckedIsHandedOver'
  BY <1>1 DEF TypeOK, AckedIsHandedOver
<1>5. ClustersHaveOwners'
  <2>1. \A j \in Ids \ {i} : Exists(j) => Exists(j)'
    BY <1>1 DEF TypeOK, Exists
  <2>2. \A k \in Clusters : cluster[k] \in Ids \cup {NoIncident}
    BY DEF TypeOK
  <2>3. QED
    BY <1>1, <2>1, <2>2 DEF ClustersHaveOwners
<1>6. QED
  BY <1>2, <1>3, <1>4, <1>5

------------------------------------------------------------------------------
LEMMA InitStoreInv == Init => StoreInv
<1> SUFFICES ASSUME Init PROVE StoreInv
  OBVIOUS
<1> USE AbsentIsIncident DEF Init
<1>1. TypeOK
  BY DEF TypeOK
<1>2. OnlyNewestActive
  BY DEF OnlyNewestActive, Gens, Exists, Ids
<1>3. AckedIsHandedOver /\ ClustersHaveOwners
  BY DEF AckedIsHandedOver, ClustersHaveOwners
<1>4. QED
  BY <1>1, <1>2, <1>3 DEF StoreInv

LEMMA NextStoreInv == StoreInv /\ [Next]_svars => StoreInv'
<1> SUFFICES ASSUME StoreInv, [Next]_svars PROVE StoreInv'
  OBVIOUS
<1>1. CASE \E i \in Ids : Create(i)
  BY <1>1, CreateStoreInv
<1>2. CASE \E i \in Ids : Archive(i)
  BY <1>2, ArchiveStoreInv
<1>3. CASE \E i \in Ids, to \in States : Transition(i, to, "human")
  BY <1>3, TransitionStoreInv DEF Actors
<1>4. CASE \E i \in Ids : Transition(i, "resolved", "system")
  BY <1>4, TransitionStoreInv DEF Actors, States
<1>5. CASE \E i \in Ids, k \in Clusters : AttachCluster(i, k)
  BY <1>5, AttachClusterStoreInv
<1>6. CASE \E i, t \in Ids : MergeInto(i, t)
  BY <1>6, MergeIntoStoreInv
<1>7. CASE UNCHANGED svars
  BY <1>7 DEF StoreInv, svars, TypeOK, OnlyNewestActive, AckedIsHandedOver,
              ClustersHaveOwners, Gens, Newest, Exists, Unresolved
<1>8. CASE \E s \in Series, i \in Ids : UpsertExternal(s, i)
  BY <1>7, <1>8, RecurStoreInv DEF UpsertExternal, Refresh
<1>9. QED
  BY <1>1, <1>2, <1>3, <1>4, <1>5, <1>6, <1>7, <1>8 DEF Next

LEMMA StoreInvHolds == Spec => []StoreInv
BY InitStoreInv, NextStoreInv, PTL DEF Spec

------------------------------------------------------------------------------
(* Every incident keeps its type, and a cluster holds an id or nothing.    *)
THEOREM StoreTypeCorrect == Spec => []TypeOK
BY StoreInvHolds, PTL DEF StoreInv

(* An alert has one active incident at most, and it is the newest (M9).    *)
THEOREM NewestGenerationActive == Spec => []OnlyNewestActive
BY StoreInvHolds, PTL DEF StoreInv

(* Acked and manual incidents are exempt from automatic closing (R2).      *)
THEOREM AckedStaysHandedOver == Spec => []AckedIsHandedOver
BY StoreInvHolds, PTL DEF StoreInv

(* Clusters point at stored incidents only.                                *)
THEOREM ClustersKeepOwners == Spec => []ClustersHaveOwners
BY StoreInvHolds, PTL DEF StoreInv

------------------------------------------------------------------------------
(* The action properties.  A step touches one incident; the formulas of    *)
(* the properties are named to be proved for one step.                     *)

LifecycleStep ==
  \A i \in Ids :
    /\ inc[i].state = "resolved" => inc'[i].state \in {"resolved", "none"}
    /\ Unresolved(i) => Exists(i)'

MergeStep ==
  \A i \in Ids : inc'[i].mergedInto # inc[i].mergedInto =>
    \A k \in Clusters : cluster'[k] # i

(* Opening an incident under a free id, by hand or for an alert.           *)
LEMMA OpeningStep ==
  ASSUME StoreInv, NEW i \in Ids, NEW x \in Incident, ~Exists(i),
         inc' = [inc EXCEPT ![i] = x], cluster' = cluster
  PROVE  LifecycleStep /\ MergeStep
<1> USE DEF StoreInv, TypeOK
<1>1. LifecycleStep
  BY DEF LifecycleStep, Exists, Unresolved
<1>2. \A k \in Clusters : cluster[k] # i
  BY StoreAssumption DEF ClustersHaveOwners
<1>3. QED
  BY <1>1, <1>2 DEF MergeStep

LEMMA TransitionStep ==
  ASSUME StoreInv, NEW i \in Ids, NEW to \in States, NEW actor \in Actors,
         Transition(i, to, actor)
  PROVE  LifecycleStep /\ MergeStep
<1> DEFINE x == Apply(inc[i], to, actor)
<1>1. inc[i] \in Incident /\ inc[i].state \in States \cup {"none"}
  BY DEF StoreInv, TypeOK, Incident
<1>2. to \in {"acked", "mitigated", "resolved"} /\ inc[i].state \notin {"none", "resolved"}
  BY <1>1, TransitionsLeadOn DEF Transition
<1>3. x.state = to /\ x.mergedInto = inc[i].mergedInto
  BY <1>1 DEF Apply, Incident
<1>4. inc' = [inc EXCEPT ![i] = x]
  BY DEF Transition
<1> HIDE DEF x
<1>5. QED
  BY <1>2, <1>3, <1>4 DEF StoreInv, TypeOK, LifecycleStep, MergeStep, Exists, Unresolved

LEMMA MergeIntoStep ==
  ASSUME StoreInv, NEW i \in Ids, NEW t \in Ids, MergeInto(i, t)
  PROVE  LifecycleStep /\ MergeStep
<1> USE DEF StoreInv, TypeOK
<1> DEFINE x == [inc[i] EXCEPT !.state = "resolved", !.mergedInto = t]
<1>1. /\ inc' = [inc EXCEPT ![i] = x] /\ cluster' = MoveClusters(i, t)
      /\ Exists(i) /\ i # t
  BY DEF MergeInto
<1>2. x.state = "resolved"
  BY DEF Incident
<1> HIDE DEF x
<1>3. LifecycleStep
  BY <1>1, <1>2 DEF LifecycleStep, Exists, Unresolved
<1>4. \A k \in Clusters : cluster'[k] # i
  BY <1>1 DEF MoveClusters
<1>5. QED
  BY <1>1, <1>3, <1>4 DEF MergeStep

LEMMA ArchiveStep ==
  ASSUME StoreInv, NEW i \in Ids, Archive(i)
  PROVE  LifecycleStep /\ MergeStep
<1> USE DEF StoreInv, TypeOK, Archive
<1>1. LifecycleStep
  BY AbsentIsIncident DEF LifecycleStep, Exists, Unresolved
<1>2. \A k \in Clusters : cluster'[k] # i
  BY StoreAssumption
<1>3. QED
  BY <1>1, <1>2 DEF MergeStep

LEMMA NextStep == StoreInv /\ [Next]_svars => LifecycleStep /\ MergeStep
<1> SUFFICES ASSUME StoreInv, [Next]_svars PROVE LifecycleStep /\ MergeStep
  OBVIOUS
<1>1. CASE \E i \in Ids : Create(i)
  BY <1>1, OpeningStep, FreshIsIncident DEF Create
<1>2. CASE \E i \in Ids : Archive(i)
  BY <1>2, ArchiveStep
<1>3. CASE \E i \in Ids, to \in States : Transition(i, to, "human")
  BY <1>3, TransitionStep DEF Actors
<1>4. CASE \E i \in Ids : Transition(i, "resolved", "system")
  BY <1>4, TransitionStep DEF Actors, States
<1>5. CASE \E i, t \in Ids : MergeInto(i, t)
  BY <1>5, MergeIntoStep
<1>6. CASE UNCHANGED inc
  BY <1>6 DEF LifecycleStep, MergeStep, Exists, Unresolved
<1>7. CASE \E i \in Ids, k \in Clusters : AttachCluster(i, k)
  BY <1>6, <1>7 DEF AttachCluster
<1>8. CASE \E s \in Series, i \in Ids : UpsertExternal(s, i)
  <2>1. CASE \E s \in Series, i \in Ids : Refresh(s, i)
    BY <1>6, <2>1 DEF Refresh, svars
  <2>2. CASE \E s \in Series, i \in Ids : Recur(s, i)
    BY <2>2, OpeningStep, FreshIsIncident DEF Recur
  <2>3. QED
    BY <1>8, <2>1, <2>2 DEF UpsertExternal
<1>9. QED
  BY <1>1, <1>2, <1>3, <1>4, <1>5, <1>6, <1>7, <1>8 DEF Next, svars

(* A resolved incident is never reopened, and no unresolved one goes away. *)
THEOREM ResolvedStaysResolved == Spec => Lifecycle
<1>1. StoreInv /\ [Next]_svars => [LifecycleStep]_svars
  BY NextStep
<1>2. Lifecycle <=> [][LifecycleStep]_svars
  BY PTL DEF Lifecycle, LifecycleStep
<1>3. QED
  BY <1>1, <1>2, StoreInvHolds, PTL DEF Spec

(* Merging takes every cluster of the merged incident along (D7).          *)
THEOREM MergeTakesClusters == Spec => MergeEmptiesSource
<1>1. StoreInv /\ [Next]_svars => [MergeStep]_svars
  BY NextStep
<1>2. MergeEmptiesSource <=> [][MergeStep]_svars
  BY PTL DEF MergeEmptiesSource, MergeStep
<1>3. QED
  BY <1>1, <1>2, StoreInvHolds, PTL DEF Spec

------------------------------------------------------------------------------
(* What the system may still close: an unresolved incident of an alert no  *)
(* person has taken over.  Only an alert's own upsert leaves one more, and *)
(* then it is the one the upsert returned.                                 *)

LeftToSystem(i) == Unresolved(i) /\ inc[i].origin = "external" /\ inc[i].policy = "auto"

LEMMA UpsertReturnsTheActive ==
  ASSUME StoreInv, NEW s \in Series, NEW i \in Ids, UpsertExternal(s, i)
  PROVE  /\ \E g \in Generations : i = <<s, g>>
         /\ \A j \in Ids : LeftToSystem(j)' => LeftToSystem(j) \/ j = i
         /\ \A g \in Generations : LeftToSystem(<<s, g>>)' => i = <<s, g>>
<1> USE DEF StoreInv
<1>1. CASE Refresh(s, i)
  <2>1. PICK g \in Generations : i = <<s, g>> /\ Newest(s, g)
    BY <1>1 DEF Refresh
  <2>2. inc' = inc
    BY <1>1 DEF Refresh, svars
  <2>3. ASSUME NEW h \in Generations, LeftToSystem(<<s, h>>)
        PROVE  h = g
    <3>1. h \in Gens(s) /\ Unresolved(<<s, h>>)
      BY <2>3 DEF LeftToSystem, Gens, Exists, Unresolved
    <3>2. h <= g /\ g <= h
      BY <2>1, <3>1 DEF OnlyNewestActive, Newest
    <3>3. QED
      BY <3>2 DEF Generations
  <2>4. QED
    BY <2>1, <2>2, <2>3 DEF LeftToSystem, Unresolved
<1>2. CASE Recur(s, i)
  <2>1. PICK g \in Generations : i = <<s, g>>
    BY <1>2 DEF Recur
  <2>2. /\ inc' = [inc EXCEPT ![i] = Fresh("external", "auto")]
        /\ i \in Ids
    BY <1>2 DEF Recur
  <2>3. \A j \in Ids : j # i => inc'[j] = inc[j]
    BY <2>2 DEF TypeOK
  <2>4. inc'[i].state = "open" /\ inc'[i].origin = "external"
    BY <2>2 DEF TypeOK, Fresh
  <2>5. StoreInv'
    BY <1>2, RecurStoreInv
  <2>6. g \in Gens(s)' /\ Unresolved(<<s, g>>)'
    BY <2>1, <2>4 DEF Gens, Exists, Unresolved
  <2>7. ASSUME NEW h \in Generations, LeftToSystem(<<s, h>>)'
        PROVE  h = g
    <3>1. h \in Gens(s)' /\ Unresolved(<<s, h>>)'
      BY <2>7 DEF LeftToSystem, Gens, Exists, Unresolved
    <3>2. h <= g /\ g <= h
      BY <2>5, <2>6, <3>1 DEF OnlyNewestActive, Newest
    <3>3. QED
      BY <3>2 DEF Generations
  <2>8. QED
    BY <2>1, <2>3, <2>7 DEF LeftToSystem, Unresolved
<1>3. QED
  BY <1>1, <1>2 DEF UpsertExternal

LEMMA OtherCallsLeaveNoMore ==
  ASSUME StoreInv, NEW j \in Ids,
         \/ \E i \in Ids : Create(i) \/ Archive(i)
         \/ \E i \in Ids, to \in States, actor \in Actors : Transition(i, to, actor)
         \/ \E i, t \in Ids : MergeInto(i, t)
         \/ UNCHANGED svars,
         LeftToSystem(j)'
  PROVE  LeftToSystem(j)
<1> USE DEF StoreInv, TypeOK
<1>1. CASE \E i \in Ids : Create(i)
  BY <1>1 DEF Create, Fresh, LeftToSystem, Unresolved
<1>2. CASE \E i \in Ids : Archive(i)
  BY <1>2, AbsentIsIncident DEF Archive, LeftToSystem, Unresolved
<1>3. CASE \E i \in Ids, to \in States, actor \in Actors : Transition(i, to, actor)
  <2>1. PICK i \in Ids, to \in States, actor \in Actors : Transition(i, to, actor)
    BY <1>3
  <2> DEFINE x == Apply(inc[i], to, actor)
  <2>2. inc[i] \in Incident /\ inc[i].state \in States \cup {"none"}
    BY DEF Incident
  <2>3. to \in {"acked", "mitigated", "resolved"} /\ inc[i].state \notin {"none", "resolved"}
    BY <2>1, <2>2, TransitionsLeadOn DEF Transition
  <2>4. /\ x.origin = inc[i].origin
        /\ x.policy = "auto" => inc[i].policy = "auto"
    BY <2>2 DEF Apply, Incident
  <2>5. inc' = [inc EXCEPT ![i] = x]
    BY <2>1 DEF Transition
  <2> HIDE DEF x
  <2>6. QED
    BY <2>3, <2>4, <2>5 DEF LeftToSystem, Unresolved
<1>4. CASE \E i, t \in Ids : MergeInto(i, t)
  <2>1. PICK i \in Ids, t \in Ids : MergeInto(i, t)
    BY <1>4
  <2> DEFINE x == [inc[i] EXCEPT !.state = "resolved", !.mergedInto = t]
  <2>2. inc' = [inc EXCEPT ![i] = x] /\ inc[i] \in Incident
    BY <2>1 DEF MergeInto
  <2>3. x.state = "resolved"
    BY <2>2 DEF Incident
  <2> HIDE DEF x
  <2>4. QED
    BY <2>2, <2>3 DEF LeftToSystem, Unresolved
<1>5. CASE UNCHANGED svars
  BY <1>5 DEF svars, LeftToSystem, Unresolved
<1>6. QED
  BY <1>1, <1>2, <1>3, <1>4, <1>5

(* The system's own close either closes or finds nothing to close.         *)
LEMMA ResolvedIsNotLeft ==
  ASSUME StoreInv, NEW i \in Ids,
         \/ Transition(i, "resolved", "system")
         \/ ~CanTransition(inc[i].state, "resolved") /\ UNCHANGED svars
  PROVE  ~LeftToSystem(i)'
<1> USE DEF StoreInv, TypeOK
<1>1. inc[i] \in Incident /\ inc[i].state \in States \cup {"none"}
  BY DEF Incident
<1>2. CASE Transition(i, "resolved", "system")
  <2> DEFINE x == Apply(inc[i], "resolved", "system")
  <2>1. x.state = "resolved"
    BY <1>1 DEF Apply, Incident
  <2>2. inc' = [inc EXCEPT ![i] = x]
    BY <1>2 DEF Transition
  <2> HIDE DEF x
  <2>3. QED
    BY <2>1, <2>2 DEF LeftToSystem, Unresolved
<1>3. CASE ~CanTransition(inc[i].state, "resolved") /\ UNCHANGED svars
  <2>1. inc[i].state \in {"resolved", "none"}
    BY <1>1, <1>3 DEF CanTransition, transitions, States
  <2>2. QED
    BY <1>3, <2>1 DEF LeftToSystem, Unresolved, svars
<1>4. QED
  BY <1>2, <1>3
==============================================================================
