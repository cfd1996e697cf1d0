------------------------------- MODULE MemStore -------------------------------
(***************************************************************************)
(* The in-memory incident store (internal/incident/mem_store.go): the      *)
(* methods of IncidentStore under one mutex, with an index from a series   *)
(* to its newest incident, and with a limit on the number of incidents     *)
(* beyond which the longest inactive one is dropped.  It finds the current *)
(* generation of a series by walking the ids of its generations from the   *)
(* first one, not by their highest number.                                 *)
(*                                                                         *)
(* UpdatedAt is modelled by the order lru; two incidents stamped with the  *)
(* same instant (a merge) stand in either order.                           *)
(***************************************************************************)
EXTENDS IncidentStore, SequencesExt

CONSTANT Limits             \* the limits a deployment may set; 0: none

ASSUME LimitsAssumption == Limits \subseteq Nat

VARIABLES
  byExternal,               \* series -> id of the incident created last for it
  lru,                      \* the stored ids, the longest inactive first
  limit                     \* OPS_MEMLIMIT_INCIDENTS

mvars == <<svars, byExternal, lru, limit>>

Stored == {i \in Ids : Exists(i)}

MemTypeOK ==
  /\ TypeOK
  /\ byExternal \in [Series -> Ids \cup {NoIncident}]
  /\ {lru[n] : n \in 1..Len(lru)} = Stored
  /\ \A m, n \in 1..Len(lru) : lru[m] = lru[n] => m = n
  /\ limit # 0 => Len(lru) <= limit

MemInit ==
  /\ Init
  /\ byExternal = [s \in Series |-> NoIncident]
  /\ lru = <<>>
  /\ limit \in Limits

(* Mutant of Touch: the old place in the order is not given up.            *)
TouchAppends(i) == lru' = Append(lru, i)

Touch(i) == lru' = Append(RemoveFirst(lru, i), i)

------------------------------------------------------------------------------
(* Insertion and eviction                                                  *)

(* pickEvictVictimLocked: resolved incidents first, then the oldest.       *)
Victim(x, q) ==
  LET closed == {n \in 1..Len(q) : x[q[n]].state = "resolved"}
  IN  q[IF closed # {} THEN Min(closed) ELSE 1]

(* Mutant of Unindex: the victim stays in the index.                       *)
UnindexForgets(f, v) == f

Unindex(f, v) == [k \in DOMAIN f |-> IF f[k] = v THEN NoIncident ELSE f[k]]

(* Stores x under i, the index being ext, and removes one incident if that *)
(* is one too many (enforceLimitLocked).                                   *)
Insert(i, x, ext) ==
  LET added == [inc EXCEPT ![i] = x]
      q == Append(lru, i)
      v == Victim(added, q)
  IN  IF limit # 0 /\ Len(q) > limit
      THEN /\ inc' = [added EXCEPT ![v] = Absent]
           /\ lru' = RemoveFirst(q, v)
           /\ cluster' = Unindex(cluster, v)
           /\ byExternal' = Unindex(ext, v)
      ELSE /\ inc' = added
           /\ lru' = q
           /\ byExternal' = ext
           /\ UNCHANGED cluster

MemCreate(i) ==
  /\ i \in Nameable
  /\ ~Exists(i)
  /\ Insert(i, Fresh("manual", "manual_only"), byExternal)
  /\ UNCHANGED limit

------------------------------------------------------------------------------
(* Link A                                                                  *)

(* The walk comes to generation g: all before it are stored and resolved.  *)
Reaches(s, g) == \A h \in 1..(g - 1) : h \in Gens(s) /\ ~Unresolved(<<s, h>>)

MemRefresh(s, i) ==
  /\ \E g \in Gens(s) : i = <<s, g>> /\ Reaches(s, g)
  /\ Unresolved(i)
  /\ Touch(i)
  /\ UNCHANGED <<svars, byExternal, limit>>

(* Mutant of MemRecur: the index keeps the first incident of the series.   *)
MemRecurIndexOnce(s, i) ==
  /\ \E g \in Generations : i = <<s, g>> /\ Reaches(s, g)
  /\ ~Exists(i)
  /\ Insert(i, Fresh("external", "auto"),
            [byExternal EXCEPT ![s] = IF @ = NoIncident THEN i ELSE @])
  /\ UNCHANGED limit

(* Mutant of MemRecur: the walk does not look at the state.                *)
MemRecurAlways(s, i) ==
  /\ \E g \in Generations : i = <<s, g>> /\ \A h \in 1..(g - 1) : h \in Gens(s)
  /\ ~Exists(i)
  /\ Insert(i, Fresh("external", "auto"), [byExternal EXCEPT ![s] = i])
  /\ UNCHANGED limit

(* The walk ends at a free id; it is refused at a manual incident.         *)
MemRecur(s, i) ==
  /\ \E g \in Generations : i = <<s, g>> /\ Reaches(s, g)
  /\ ~Exists(i)
  /\ Insert(i, Fresh("external", "auto"), [byExternal EXCEPT ![s] = i])
  /\ UNCHANGED limit

MemUpsertExternal(s, i) == MemRefresh(s, i) \/ MemRecur(s, i)

MemExternalActive(s) ==
  byExternal[s] # NoIncident /\ Unresolved(byExternal[s])

------------------------------------------------------------------------------
MemTransition(i, to, actor) ==
  /\ Transition(i, to, actor)
  /\ Touch(i)
  /\ UNCHANGED <<byExternal, limit>>

MemAttachCluster(i, k) ==
  /\ AttachCluster(i, k)
  /\ Touch(i)
  /\ UNCHANGED <<byExternal, limit>>

MemMergeInto(i, t) ==
  /\ MergeInto(i, t)
  /\ LET q == RemoveFirst(RemoveFirst(lru, i), t)
     IN  lru' \in {Append(Append(q, i), t), Append(Append(q, t), i)}
  /\ UNCHANGED <<byExternal, limit>>

MemNext ==
  \/ \E i \in Ids : MemCreate(i)
  \/ \E i \in Ids, to \in States : MemTransition(i, to, "human")
  \/ \E i \in Ids : MemTransition(i, "resolved", "system")
  \/ \E s \in Series, i \in Ids : MemUpsertExternal(s, i)
  \/ \E i \in Ids, k \in Clusters : MemAttachCluster(i, k)
  \/ \E i, t \in Ids : MemMergeInto(i, t)

MemSpec == MemInit /\ [][MemNext]_mvars

------------------------------------------------------------------------------
(* Properties                                                              *)

(* Without a limit every method does what the contract says, so the two    *)
(* ways of finding the current generation agree (TestContract* of          *)
(* store_contract_test.go, for every order of calls).                      *)
ImplementsContract == [][limit = 0 => Next]_svars

(* The index never names a manual incident or one that is gone, the case   *)
(* ExternalActive calls impossible, also while the store evicts; without a *)
(* limit it answers what a search of all incidents would, so the rate      *)
(* limiter may trust it.                                                   *)
IndexIsExact ==
  /\ \A s \in Series : byExternal[s] # NoIncident =>
       Exists(byExternal[s]) /\ inc[byExternal[s]].origin = "external"
  /\ limit = 0 => \A s \in Series : MemExternalActive(s) <=> ExternalActive(s)

(* A push never opens a second incident beside an unresolved one of the    *)
(* same alert (the Store contract of UpsertExternal).                      *)
RepushNeverForks ==
  \A s \in Series : \A g, h \in Gens(s) :
    Unresolved(<<s, g>>) /\ Unresolved(<<s, h>>) => g = h
==============================================================================
