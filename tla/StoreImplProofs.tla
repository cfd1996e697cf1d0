---------------------------- MODULE StoreImplProofs ----------------------------
(***************************************************************************)
(* Proofs about the two implementations of the incident store, for all     *)
(* sets of series, manual ids, clusters and calls, any bound on the        *)
(* generations and any limits.                                             *)
(*                                                                         *)
(* In memory: the order of activity lists what is stored and respects the  *)
(* limit, the index is exact, and without a limit the store implements the *)
(* contract.  The two ways of finding the current generation agree because *)
(* without eviction the generations of a series have no gap and all but the*)
(* last are resolved; that is what GenerationsInOrder adds.                *)
(*                                                                         *)
(* In PostgreSQL: between its statements a call knows of the tables what   *)
(* its locks and its row ids keep true (PgInv), and that is enough for its *)
(* last statement to be the step of the contract.                          *)
(***************************************************************************)
EXTENDS MemStore, PgStore, IncidentStoreProofs, DataLemmas

------------------------------------------------------------------------------
(* In memory: what holds after every call                                  *)

LruOK ==
  /\ lru \in Seq(Ids)
  /\ IsInjective(lru)
  /\ ToSet(lru) = Stored

IndexOK ==
  \A s \in Series : byExternal[s] # NoIncident =>
    /\ byExternal[s] \in {s} \X Generations
    /\ Exists(byExternal[s])
    /\ inc[byExternal[s]].origin = "external"

(* n is the number of generations of the series s.                         *)
InOrder(s, n) ==
  /\ Gens(s) = 1..n
  /\ \A h \in 1..(n - 1) : ~Unresolved(<<s, h>>)
  /\ byExternal[s] = IF n = 0 THEN NoIncident ELSE <<s, n>>

GenerationsInOrder ==
  limit = 0 => \A s \in Series : \E n \in 0..MaxGen : InOrder(s, n)

MemInv ==
  /\ TypeOK
  /\ byExternal \in [Series -> Ids \cup {NoIncident}]
  /\ limit \in Limits
  /\ limit # 0 => Len(lru) <= limit
  /\ LruOK
  /\ IndexOK
  /\ GenerationsInOrder

(* The parts of MemInv are what MemTypeOK and IndexIsExact say.            *)
LEMMA InvIsTyped == MemInv => MemTypeOK
BY DEF MemInv, LruOK, MemTypeOK, ToSet, IsInjective

LEMMA InvIsExact == MemInv => IndexIsExact
<1> SUFFICES ASSUME MemInv, limit = 0, NEW s \in Series
             PROVE  MemExternalActive(s) <=> ExternalActive(s)
  BY DEF MemInv, IndexOK, IndexIsExact
<1>1. PICK n \in 0..MaxGen : InOrder(s, n)
  BY DEF MemInv, GenerationsInOrder
<1>2. CASE n = 0
  BY <1>1, <1>2 DEF InOrder, MemExternalActive, ExternalActive
<1>3. CASE n # 0
  <2>1. n \in Nat /\ n \in Gens(s) /\ byExternal[s] = <<s, n>>
    BY <1>1, <1>3, StoreAssumption DEF InOrder
  <2>2. byExternal[s] # NoIncident
    BY <2>1, StoreAssumption DEF Ids, Gens
  <2>3. \A g \in Gens(s) : Unresolved(<<s, g>>) => g = n
    BY <1>1, <2>1 DEF InOrder
  <2>4. QED
    BY <2>1, <2>2, <2>3 DEF MemExternalActive, ExternalActive
<1>4. QED
  BY <1>2, <1>3

------------------------------------------------------------------------------
(* The order of activity                                                   *)

LEMMA Touched ==
  ASSUME LruOK, NEW i \in Stored, Touch(i)
  PROVE  /\ lru' \in Seq(Ids) /\ IsInjective(lru') /\ ToSet(lru') = Stored
         /\ Len(lru') = Len(lru)
<1> DEFINE q == RemoveFirst(lru, i)
<1>1. i \in ToSet(lru)
  BY DEF LruOK
<1>2. /\ q \in Seq(Ids) /\ IsInjective(q) /\ ToSet(q) = Stored \ {i}
      /\ Len(q) = Len(lru) - 1
  BY <1>1, FirstIsRemoved DEF LruOK
<1>3. lru' = Append(q, i)
  BY DEF Touch
<1>4. i \in Ids /\ i \notin ToSet(q)
  BY <1>2 DEF Stored
<1>5. Len(lru) \in Nat
  BY DEF LruOK
<1> HIDE DEF q
<1>6. /\ lru' \in Seq(Ids) /\ IsInjective(lru') /\ ToSet(lru') = ToSet(q) \cup {i}
      /\ Len(lru') = Len(q) + 1
  BY <1>2, <1>3, <1>4, ListGrows
<1>7. QED
  BY <1>2, <1>5, <1>6

LEMMA VictimIsListed ==
  ASSUME NEW x, NEW q \in Seq(Ids), q # <<>>
  PROVE  Victim(x, q) \in ToSet(q)
<1> DEFINE closed == {n \in 1..Len(q) : x[q[n]].state = "resolved"}
<1>0. 1 \in 1..Len(q) /\ DOMAIN q = 1..Len(q)
  OBVIOUS
<1>1. CASE closed # {}
  <2>1. closed \subseteq Nat
    OBVIOUS
  <2>2. PICK n \in closed : \A m \in closed : n <= m
    BY <1>1, <2>1, SmallestNumber
  <2>3. Min(closed) \in closed
    BY <2>2 DEF Min
  <2>4. QED
    BY <1>0, <1>1, <2>3 DEF Victim, ToSet
<1>2. CASE closed = {}
  BY <1>0, <1>2 DEF Victim, ToSet
<1>3. QED
  BY <1>1, <1>2

------------------------------------------------------------------------------
(* Each action preserves MemInv.                                           *)

(* x is stored under the free id i and the index becomes ext: what Insert  *)
(* must find and what it leaves behind, with and without an eviction.      *)
LEMMA InsertKeeps ==
  ASSUME MemInv, NEW i \in Ids, ~Exists(i),
         NEW x \in Incident, x.state = "open",
         NEW ext \in [Series -> Ids \cup {NoIncident}],
         \A s \in Series : ext[s] # NoIncident =>
           /\ ext[s] \in {s} \X Generations
           /\ IF ext[s] = i THEN x.origin = "external"
              ELSE Exists(ext[s]) /\ inc[ext[s]].origin = "external",
         Insert(i, x, ext), limit' = limit
  PROVE  /\ TypeOK'
         /\ byExternal' \in [Series -> Ids \cup {NoIncident}]
         /\ (limit # 0 => Len(lru) <= limit)'
         /\ LruOK'
         /\ IndexOK'
         /\ limit = 0 => /\ inc' = [inc EXCEPT ![i] = x]
                         /\ cluster' = cluster
                         /\ byExternal' = ext
<1> USE DEF MemInv
<1> DEFINE added == [inc EXCEPT ![i] = x]
           q == Append(lru, i)
           v == Victim(added, q)
<1>1. i \notin ToSet(lru) /\ lru \in Seq(Ids) /\ IsInjective(lru) /\ Len(lru) \in Nat
  BY DEF LruOK, Stored
<1>2. /\ q \in Seq(Ids) /\ IsInjective(q) /\ ToSet(q) = Stored \cup {i}
      /\ Len(q) = Len(lru) + 1
  BY <1>1, ListGrows DEF LruOK
<1>3. limit \in Nat
  BY LimitsAssumption
<1>4. added \in [Ids -> Incident] /\ added[i] = x /\ \A j \in Ids \ {i} : added[j] = inc[j]
  BY DEF TypeOK
<1>5. {j \in Ids : added[j].state # "none"} = Stored \cup {i}
  BY <1>4 DEF Stored, Exists
<1>6. \A s \in Series : ext[s] # NoIncident =>
        added[ext[s]].state # "none" /\ added[ext[s]].origin = "external"
  BY <1>4 DEF Exists
<1>7. CASE limit # 0 /\ Len(q) > limit
  <2>1. /\ inc' = [added EXCEPT ![v] = Absent]
        /\ lru' = RemoveFirst(q, v)
        /\ cluster' = Unindex(cluster, v)
        /\ byExternal' = Unindex(ext, v)
    BY <1>7 DEF Insert
  <2>2. v \in ToSet(q)
    <3>1. q # <<>>
      BY <1>1, <1>2
    <3> HIDE DEF q, added
    <3>2. QED
      BY <1>2, <3>1, VictimIsListed
  <2> HIDE DEF v, q, added
  <2>3. v \in Ids /\ v # NoIncident
    BY <1>2, <2>2, StoreAssumption DEF Stored
  <2>4. /\ lru' \in Seq(Ids) /\ IsInjective(lru') /\ ToSet(lru') = (Stored \cup {i}) \ {v}
        /\ Len(lru') = Len(q) - 1
    BY <1>2, <2>1, <2>2, FirstIsRemoved
  <2>5. inc' \in [Ids -> Incident] /\ inc'[v] = Absent /\ \A j \in Ids \ {v} : inc'[j] = added[j]
    <3>1. Absent \in Incident
      BY DEF Absent, Fresh, Incident, States
    <3>2. QED
      BY <1>4, <2>1, <2>3, <3>1
  <2>6. Stored' = (Stored \cup {i}) \ {v}
    <3>1. Absent.state = "none"
      BY DEF Absent, Fresh
    <3>2. QED
      BY <1>5, <2>5, <3>1 DEF Stored, Exists
  <2>7. LruOK'
    BY <2>4, <2>6 DEF LruOK
  <2>8. Len(lru') <= limit
    BY <1>1, <1>2, <1>3, <1>7, <2>4
  <2>9. TypeOK'
    BY <2>1, <2>5 DEF TypeOK, Unindex
  <2>10. byExternal' \in [Series -> Ids \cup {NoIncident}]
    BY <2>1 DEF Unindex
  <2>11. IndexOK'
    <3> SUFFICES ASSUME NEW s \in Series, byExternal'[s] # NoIncident
                 PROVE  /\ byExternal'[s] \in {s} \X Generations
                        /\ Exists(byExternal[s])'
                        /\ inc'[byExternal'[s]].origin = "external"
      BY DEF IndexOK
    <3>1. byExternal'[s] = ext[s] /\ ext[s] # v /\ ext[s] # NoIncident
      BY <2>1, <2>3 DEF Unindex
    <3>2. ext[s] \in {s} \X Generations /\ ext[s] \in Ids
      BY <3>1
    <3>3. inc'[ext[s]] = added[ext[s]]
      BY <2>5, <3>1, <3>2
    <3>4. QED
      BY <1>6, <3>1, <3>2, <3>3 DEF Exists
  <2>12. QED
    BY <1>7, <2>7, <2>8, <2>9, <2>10, <2>11
<1>8. CASE ~(limit # 0 /\ Len(q) > limit)
  <2>1. inc' = added /\ lru' = q /\ byExternal' = ext /\ cluster' = cluster
    BY <1>8 DEF Insert
  <2> HIDE DEF q, added
  <2>2. Stored' = Stored \cup {i}
    BY <1>5, <2>1 DEF Stored, Exists
  <2>3. LruOK'
    BY <1>2, <2>1, <2>2 DEF LruOK
  <2>4. limit # 0 => Len(lru') <= limit
    BY <1>1, <1>2, <1>3, <1>8, <2>1
  <2>5. TypeOK'
    BY <1>4, <2>1 DEF TypeOK
  <2>6. IndexOK'
    BY <1>6, <2>1 DEF IndexOK, Exists
  <2>7. QED
    BY <2>1, <2>3, <2>4, <2>5, <2>6 DEF added
<1>9. QED
  BY <1>7, <1>8

(* A step that stores and drops nothing and reopens nothing.               *)
LEMMA QuietStepKeeps ==
  ASSUME MemInv,
         \A j \in Ids :
           /\ Exists(j)' <=> Exists(j)
           /\ inc'[j].origin = inc[j].origin
           /\ Unresolved(j)' => Unresolved(j),
         UNCHANGED <<byExternal, limit>>
  PROVE  Stored' = Stored /\ IndexOK' /\ GenerationsInOrder'
<1> USE DEF MemInv
<1>1. Stored' = Stored
  BY DEF Stored
<1>2. IndexOK'
  BY DEF IndexOK, Ids
<1>3. \A s \in Series : Gens(s)' = Gens(s)
  BY DEF Gens, Ids
<1>4. ASSUME limit = 0, NEW s \in Series
      PROVE  \E n \in 0..MaxGen : InOrder(s, n)'
  <2>1. PICK n \in 0..MaxGen : InOrder(s, n)
    BY <1>4 DEF GenerationsInOrder
  <2>2. \A h \in 1..n : Exists(<<s, h>>) /\ <<s, h>> \in Ids
    BY <2>1 DEF InOrder, Gens, Ids
  <2>3. \A h \in 1..(n - 1) : h \in 1..n
    BY StoreAssumption
  <2>4. \A h \in 1..(n - 1) : ~Unresolved(<<s, h>>)'
    BY <2>1, <2>2, <2>3 DEF InOrder
  <2>5. QED
    BY <1>3, <2>1, <2>4 DEF InOrder
<1>5. GenerationsInOrder'
  BY <1>4 DEF GenerationsInOrder
<1>6. QED
  BY <1>1, <1>2, <1>5

LEMMA MemCreateStep ==
  ASSUME MemInv, NEW i \in Ids, MemCreate(i)
  PROVE  MemInv' /\ (limit = 0 => Create(i))
<1> USE DEF MemInv
<1> DEFINE x == Fresh("manual", "manual_only")
<1>1. x \in Incident /\ x.state = "open" /\ x.origin = "manual"
  BY FreshIsIncident DEF Fresh
<1>2. i \in Nameable /\ ~Exists(i) /\ Insert(i, x, byExternal) /\ limit' = limit
  BY DEF MemCreate
<1> HIDE DEF x
<1>3. \A s \in Series : byExternal[s] # NoIncident =>
        /\ byExternal[s] \in {s} \X Generations
        /\ IF byExternal[s] = i THEN x.origin = "external"
           ELSE Exists(byExternal[s]) /\ inc[byExternal[s]].origin = "external"
  BY <1>2 DEF IndexOK
<1>4. /\ TypeOK'
      /\ byExternal' \in [Series -> Ids \cup {NoIncident}]
      /\ (limit # 0 => Len(lru) <= limit)'
      /\ LruOK'
      /\ IndexOK'
      /\ limit = 0 => inc' = [inc EXCEPT ![i] = x] /\ cluster' = cluster
                      /\ byExternal' = byExternal
  BY <1>1, <1>2, <1>3, InsertKeeps
<1>5. limit = 0 => Create(i)
  BY <1>2, <1>4 DEF Create, x
<1>6. GenerationsInOrder'
  <2> SUFFICES ASSUME limit = 0, NEW s \in Series
               PROVE  \E n \in 0..MaxGen : InOrder(s, n)'
    BY <1>2 DEF GenerationsInOrder
  <2>1. PICK n \in 0..MaxGen : InOrder(s, n)
    BY DEF GenerationsInOrder
  <2>2. /\ inc' = [inc EXCEPT ![i] = x] /\ byExternal' = byExternal
        /\ inc \in [Ids -> Incident] /\ \A g \in Generations : <<s, g>> \in Ids
    BY <1>4 DEF TypeOK, Ids
  <2>3. Gens(s)' = Gens(s)
    BY <1>1, <1>2, <2>2 DEF Gens, Exists
  <2>4. \A h \in 1..(n - 1) : h \in Gens(s) /\ ~Unresolved(<<s, h>>)
    BY <2>1, StoreAssumption DEF InOrder
  <2>5. \A h \in 1..(n - 1) : inc'[<<s, h>>] = inc[<<s, h>>]
    BY <1>2, <2>2, <2>4 DEF Gens
  <2>6. QED
    BY <2>1, <2>2, <2>3, <2>4, <2>5 DEF InOrder, Unresolved
<1>7. QED
  BY <1>2, <1>4, <1>5, <1>6

(* The walk ends one above the last generation.                            *)
LEMMA MemRecurStep ==
  ASSUME MemInv, NEW s \in Series, NEW i \in Ids, MemRecur(s, i)
  PROVE  MemInv' /\ (limit = 0 => Recur(s, i))
<1> USE DEF MemInv
<1> DEFINE x == Fresh("external", "auto")
           ext == [byExternal EXCEPT ![s] = i]
<1>1. x \in Incident /\ x.state = "open" /\ x.origin = "external"
  BY FreshIsIncident DEF Fresh
<1>2. PICK g \in Generations : i = <<s, g>> /\ Reaches(s, g)
  BY DEF MemRecur
<1>3. ~Exists(i) /\ Insert(i, x, ext) /\ limit' = limit
  BY DEF MemRecur
<1>4. ext \in [Series -> Ids \cup {NoIncident}] /\ ext[s] = i
      /\ \A r \in Series \ {s} : ext[r] = byExternal[r]
  OBVIOUS
<1> HIDE DEF x, ext
<1>5. \A r \in Series : ext[r] # NoIncident =>
        /\ ext[r] \in {r} \X Generations
        /\ IF ext[r] = i THEN x.origin = "external"
           ELSE Exists(ext[r]) /\ inc[ext[r]].origin = "external"
  BY <1>1, <1>2, <1>3, <1>4 DEF IndexOK
<1>6. /\ TypeOK'
      /\ byExternal' \in [Series -> Ids \cup {NoIncident}]
      /\ (limit # 0 => Len(lru) <= limit)'
      /\ LruOK'
      /\ IndexOK'
      /\ limit = 0 => inc' = [inc EXCEPT ![i] = x] /\ cluster' = cluster
                      /\ byExternal' = ext
  BY <1>1, <1>3, <1>4, <1>5, InsertKeeps
<1>7. ASSUME limit = 0, NEW r \in Series
      PROVE  /\ \E n \in 0..MaxGen : InOrder(r, n)'
             /\ r = s => Recur(s, i)
  <2>1. PICK n \in 0..MaxGen : InOrder(r, n)
    BY <1>7 DEF GenerationsInOrder
  <2>2. /\ inc' = [inc EXCEPT ![i] = x] /\ byExternal' = ext /\ cluster' = cluster
        /\ inc \in [Ids -> Incident] /\ \A h \in Generations : <<r, h>> \in Ids
    BY <1>6, <1>7 DEF TypeOK, Ids
  <2>3. n \in Nat /\ g \in Nat \ {0} /\ MaxGen \in Nat /\ g <= MaxGen
    BY StoreAssumption DEF Generations
  <2>4. CASE r # s
    <3>1. \A h \in Generations : inc'[<<r, h>>] = inc[<<r, h>>]
      BY <1>2, <2>2, <2>4
    <3>2. Gens(r)' = Gens(r)
      BY <3>1 DEF Gens, Exists
    <3>3. \A h \in 1..(n - 1) : h \in Generations
      BY <2>3 DEF Generations
    <3>4. byExternal'[r] = byExternal[r]
      BY <1>4, <2>2, <2>4
    <3>5. InOrder(r, n)'
      BY <2>1, <3>1, <3>2, <3>3, <3>4 DEF InOrder, Unresolved
    <3>6. QED
      BY <2>4, <3>5
  <2>5. CASE r = s
    <3>1. g \notin Gens(s)
      BY <1>2, <1>3 DEF Gens
    <3>2. Gens(s) = 1..n /\ \A h \in 1..(g - 1) : h \in 1..n /\ ~Unresolved(<<s, h>>)
      BY <1>2, <2>1, <2>5 DEF InOrder, Reaches
    <3>3. g = n + 1
      <4>1. g > n
        BY <2>3, <3>1, <3>2
      <4>2. g - 1 <= n
        <5>1. CASE g = 1
          BY <2>3, <5>1
        <5>2. CASE g > 1
          <6>1. g - 1 \in 1..(g - 1)
            BY <2>3, <5>2
          <6>2. g - 1 \in 1..n
            BY <3>2, <6>1
          <6>3. QED
            BY <2>3, <6>2
        <5>3. QED
          BY <2>3, <5>1, <5>2
      <4>3. QED
        BY <2>3, <4>1, <4>2
    <3>4. /\ inc'[<<s, g>>] = x
          /\ \A h \in Generations : h # g => inc'[<<s, h>>] = inc[<<s, h>>]
      BY <1>2, <2>2, <2>5
    <3>5. Gens(s)' = 1..g
      <4>1. Gens(s)' = Gens(s) \cup {g}
        BY <1>1, <3>4 DEF Gens, Exists
      <4>2. QED
        BY <2>3, <3>2, <3>3, <4>1
    <3>6. \A h \in 1..(g - 1) : h \in Generations /\ h # g
      BY <2>3 DEF Generations
    <3>7. \A h \in 1..(g - 1) : ~Unresolved(<<s, h>>)'
      BY <3>2, <3>4, <3>6 DEF Unresolved
    <3>8. byExternal'[s] = <<s, g>>
      BY <1>2, <1>4, <2>2
    <3>9. InOrder(s, g)' /\ g \in 0..MaxGen
      BY <2>3, <3>5, <3>7, <3>8 DEF InOrder
    <3>10. Recur(s, i)
      <4>1. CASE g = 1
        <5>1. Gens(s) = {}
          BY <2>3, <3>2, <3>3, <4>1
        <5>2. QED
          BY <1>2, <1>3, <2>2, <4>1, <5>1 DEF Recur, x
      <4>2. CASE g # 1
        <5>1. g - 1 \in 1..(g - 1) /\ g - 1 \in 1..n /\ \A h \in 1..n : h <= g - 1
          BY <2>3, <3>3, <4>2
        <5>2. Newest(s, g - 1) /\ ~Unresolved(<<s, g - 1>>)
          BY <3>2, <5>1 DEF Newest
        <5>3. QED
          BY <1>2, <1>3, <2>2, <5>2 DEF Recur, x
      <4>3. QED
        BY <4>1, <4>2
    <3>11. QED
      BY <2>5, <3>9, <3>10
  <2>6. QED
    BY <2>4, <2>5
<1>8. GenerationsInOrder'
  BY <1>3, <1>7 DEF GenerationsInOrder
<1>9. QED
  BY <1>3, <1>6, <1>7, <1>8

LEMMA MemRefreshStep ==
  ASSUME MemInv, NEW s \in Series, NEW i \in Ids, MemRefresh(s, i)
  PROVE  MemInv' /\ (limit = 0 => Refresh(s, i))
<1> USE DEF MemInv
<1>1. PICK g \in Gens(s) : i = <<s, g>> /\ Reaches(s, g)
  BY DEF MemRefresh
<1>2. Unresolved(i) /\ Touch(i) /\ UNCHANGED <<inc, cluster, byExternal, limit>>
  BY DEF MemRefresh, svars
<1>3. i \in Stored
  BY <1>2 DEF Stored, Exists, Unresolved
<1>4. /\ lru' \in Seq(Ids) /\ IsInjective(lru') /\ ToSet(lru') = Stored
      /\ Len(lru') = Len(lru)
  BY <1>2, <1>3, Touched
<1>5. Stored' = Stored /\ IndexOK' /\ GenerationsInOrder'
  BY <1>2, QuietStepKeeps DEF Exists, Unresolved
<1>6. MemInv'
  BY <1>2, <1>4, <1>5 DEF LruOK, TypeOK
<1>7. ASSUME limit = 0 PROVE Refresh(s, i)
  <2>1. PICK n \in 0..MaxGen : InOrder(s, n)
    BY <1>7 DEF GenerationsInOrder
  <2>2. g \in 1..n /\ g \in Generations /\ Gens(s) = 1..n
    BY <2>1 DEF InOrder, Gens
  <2>3. g = n
    BY <1>1, <1>2, <2>1, <2>2, StoreAssumption DEF InOrder
  <2>4. Newest(s, g)
    BY <2>2, <2>3, StoreAssumption DEF Newest
  <2>5. QED
    BY <1>1, <1>2, <2>2, <2>4 DEF Refresh, svars
<1>8. QED
  BY <1>6, <1>7

LEMMA MemTransitionStep ==
  ASSUME MemInv, NEW i \in Ids, NEW to \in States, NEW actor \in Actors,
         MemTransition(i, to, actor)
  PROVE  MemInv'
<1> USE DEF MemInv
<1> DEFINE x == Apply(inc[i], to, actor)
<1>1. inc[i] \in Incident /\ inc[i].state \in States \cup {"none"}
  BY DEF TypeOK, Incident
<1>2. /\ CanTransition(inc[i].state, to) /\ inc' = [inc EXCEPT ![i] = x] /\ cluster' = cluster
      /\ Touch(i) /\ UNCHANGED <<byExternal, limit>>
  BY DEF MemTransition, Transition
<1>3. to \in {"acked", "mitigated", "resolved"} /\ inc[i].state \notin {"none", "resolved"}
  BY <1>1, <1>2, TransitionsLeadOn
<1>4. x \in Incident /\ x.state = to /\ x.origin = inc[i].origin
  BY <1>1, <1>3 DEF Apply, Incident, States, Actors
<1> HIDE DEF x
<1>5. i \in Stored
  BY <1>3 DEF Stored, Exists
<1>6. /\ lru' \in Seq(Ids) /\ IsInjective(lru') /\ ToSet(lru') = Stored
      /\ Len(lru') = Len(lru)
  BY <1>2, <1>5, Touched
<1>7. \A j \in Ids :
        /\ Exists(j)' <=> Exists(j)
        /\ inc'[j].origin = inc[j].origin
        /\ Unresolved(j)' => Unresolved(j)
  BY <1>2, <1>3, <1>4 DEF Exists, Unresolved, TypeOK
<1>8. Stored' = Stored /\ IndexOK' /\ GenerationsInOrder'
  BY <1>2, <1>7, QuietStepKeeps
<1>9. TypeOK'
  BY <1>2, <1>4 DEF TypeOK
<1>10. QED
  BY <1>2, <1>6, <1>8, <1>9 DEF LruOK

LEMMA MemAttachClusterStep ==
  ASSUME MemInv, NEW i \in Ids, NEW k \in Clusters, MemAttachCluster(i, k)
  PROVE  MemInv'
<1> USE DEF MemInv
<1>1. /\ Exists(i) /\ cluster' = [cluster EXCEPT ![k] = i] /\ inc' = inc
      /\ Touch(i) /\ UNCHANGED <<byExternal, limit>>
  BY DEF MemAttachCluster, AttachCluster
<1>2. /\ lru' \in Seq(Ids) /\ IsInjective(lru') /\ ToSet(lru') = Stored
      /\ Len(lru') = Len(lru)
  BY <1>1, Touched DEF Stored
<1>3. Stored' = Stored /\ IndexOK' /\ GenerationsInOrder'
  BY <1>1, QuietStepKeeps DEF Exists, Unresolved
<1>4. TypeOK'
  BY <1>1 DEF TypeOK
<1>5. QED
  BY <1>1, <1>2, <1>3, <1>4 DEF LruOK

LEMMA MemMergeIntoStep ==
  ASSUME MemInv, NEW i \in Ids, NEW t \in Ids, MemMergeInto(i, t)
  PROVE  MemInv'
<1> USE DEF MemInv
<1> DEFINE x == [inc[i] EXCEPT !.state = "resolved", !.mergedInto = t]
           q == RemoveFirst(lru, i)
           p == RemoveFirst(q, t)
<1>1. /\ i # t /\ Exists(i) /\ Exists(t) /\ inc' = [inc EXCEPT ![i] = x]
      /\ cluster' = MoveClusters(i, t)
      /\ lru' \in {Append(Append(p, i), t), Append(Append(p, t), i)}
      /\ UNCHANGED <<byExternal, limit>>
  <2>1. inc[i] \in Incident
    BY DEF TypeOK
  <2>2. inc' = [inc EXCEPT ![i] = x]
    BY DEF MemMergeInto, MergeInto, TypeOK
  <2>3. QED
    BY <2>2 DEF MemMergeInto, MergeInto
<1>2. x \in Incident /\ x.state = "resolved" /\ x.origin = inc[i].origin
  BY DEF TypeOK, Incident, States
<1>3. {i, t} \subseteq Stored /\ Stored = ToSet(lru) /\ {i, t} \subseteq Ids
  BY <1>1 DEF Stored, LruOK
<1>4. /\ q \in Seq(Ids) /\ IsInjective(q) /\ ToSet(q) = Stored \ {i}
      /\ Len(q) = Len(lru) - 1
  BY <1>3, FirstIsRemoved DEF LruOK
<1> HIDE DEF x, q
<1>5. /\ p \in Seq(Ids) /\ IsInjective(p) /\ ToSet(p) = Stored \ {i, t}
      /\ Len(p) = Len(q) - 1
  BY <1>1, <1>3, <1>4, FirstIsRemoved
<1> HIDE DEF p
<1>6. ASSUME NEW a \in {i, t}, NEW b \in {i, t}, a # b
      PROVE  /\ Append(Append(p, a), b) \in Seq(Ids)
             /\ IsInjective(Append(Append(p, a), b))
             /\ ToSet(Append(Append(p, a), b)) = Stored
             /\ Len(Append(Append(p, a), b)) = Len(p) + 2
  <2> DEFINE o == Append(p, a)
  <2>1. /\ o \in Seq(Ids) /\ IsInjective(o) /\ ToSet(o) = (Stored \ {i, t}) \cup {a}
        /\ Len(o) = Len(p) + 1
    BY <1>3, <1>5, ListGrows
  <2> HIDE DEF o
  <2>2. b \in Ids /\ b \notin ToSet(o)
    BY <1>3, <1>6, <2>1
  <2>3. /\ Append(o, b) \in Seq(Ids) /\ IsInjective(Append(o, b))
        /\ ToSet(Append(o, b)) = ToSet(o) \cup {b} /\ Len(Append(o, b)) = Len(o) + 1
    BY <2>1, <2>2, ListGrows
  <2>4. ToSet(o) \cup {b} = Stored
    BY <1>3, <1>6, <2>1
  <2>5. Len(p) \in Nat
    BY <1>5
  <2>6. QED
    BY <2>1, <2>3, <2>4, <2>5 DEF o
<1>7. Len(lru) \in Nat
  BY DEF LruOK
<1>8. /\ lru' \in Seq(Ids) /\ IsInjective(lru') /\ ToSet(lru') = Stored
      /\ Len(lru') = Len(lru)
  <2>1. Len(p) + 2 = Len(lru)
    BY <1>4, <1>5, <1>7
  <2>2. i # t
    BY <1>1
  <2>3. CASE lru' = Append(Append(p, i), t)
    BY <1>6, <2>1, <2>2, <2>3
  <2>4. CASE lru' = Append(Append(p, t), i)
    BY <1>6, <2>1, <2>2, <2>4
  <2>5. QED
    BY <1>1, <2>3, <2>4
<1>9. \A j \in Ids :
        /\ Exists(j)' <=> Exists(j)
        /\ inc'[j].origin = inc[j].origin
        /\ Unresolved(j)' => Unresolved(j)
  BY <1>1, <1>2 DEF Exists, Unresolved, TypeOK
<1>10. Stored' = Stored /\ IndexOK' /\ GenerationsInOrder'
  BY <1>1, <1>9, QuietStepKeeps
<1>11. TypeOK'
  BY <1>1, <1>2 DEF TypeOK, MoveClusters
<1>12. QED
  BY <1>1, <1>8, <1>10, <1>11 DEF LruOK

------------------------------------------------------------------------------
(* Theorems about the in-memory store                                      *)

LEMMA InitMemInv == MemInit => MemInv
<1> SUFFICES ASSUME MemInit PROVE MemInv
  OBVIOUS
<1>1. /\ inc = [i \in Ids |-> Absent] /\ cluster = [k \in Clusters |-> NoIncident]
      /\ byExternal = [s \in Series |-> NoIncident] /\ lru = <<>> /\ limit \in Limits
  BY DEF MemInit, Init
<1>2. \A i \in Ids : ~Exists(i)
  BY <1>1, AbsentIsIncident DEF Exists
<1>3. LruOK
  <2>1. Stored = {}
    BY <1>2 DEF Stored
  <2>2. ToSet(lru) = {} /\ IsInjective(lru) /\ lru \in Seq(Ids)
    BY <1>1 DEF ToSet, IsInjective
  <2>3. QED
    BY <2>1, <2>2 DEF LruOK
<1>4. TypeOK
  BY <1>1, AbsentIsIncident DEF TypeOK
<1>5. limit # 0 => Len(lru) <= limit
  BY <1>1, LimitsAssumption
<1>6. IndexOK
  BY <1>1 DEF IndexOK
<1>7. GenerationsInOrder
  <2> SUFFICES ASSUME NEW s \in Series PROVE InOrder(s, 0) /\ 0 \in 0..MaxGen
    BY DEF GenerationsInOrder
  <2>1. Gens(s) = {}
    BY <1>2 DEF Gens, Ids
  <2>2. 1..0 = {} /\ 1..(0 - 1) = {}
    OBVIOUS
  <2>3. QED
    BY <1>1, <2>1, <2>2, StoreAssumption DEF InOrder
<1>8. QED
  BY <1>1, <1>3, <1>4, <1>5, <1>6, <1>7 DEF MemInv

LEMMA NextMemInv ==
  ASSUME MemInv, [MemNext]_mvars
  PROVE  MemInv' /\ [limit = 0 => Next]_svars
<1>1. ASSUME NEW i \in Ids, MemCreate(i)
      PROVE  MemInv' /\ [limit = 0 => Next]_svars
  BY <1>1, MemCreateStep DEF Next
<1>2. ASSUME NEW i \in Ids, NEW to \in States, MemTransition(i, to, "human")
      PROVE  MemInv' /\ [limit = 0 => Next]_svars
  BY <1>2, MemTransitionStep DEF Next, MemTransition, Actors
<1>3. ASSUME NEW i \in Ids, MemTransition(i, "resolved", "system")
      PROVE  MemInv' /\ [limit = 0 => Next]_svars
  BY <1>3, MemTransitionStep DEF Next, MemTransition, Actors, States
<1>4. ASSUME NEW s \in Series, NEW i \in Ids, MemUpsertExternal(s, i)
      PROVE  MemInv' /\ [limit = 0 => Next]_svars
  BY <1>4, MemRefreshStep, MemRecurStep DEF Next, MemUpsertExternal, UpsertExternal
<1>5. ASSUME NEW i \in Ids, NEW k \in Clusters, MemAttachCluster(i, k)
      PROVE  MemInv' /\ [limit = 0 => Next]_svars
  BY <1>5, MemAttachClusterStep DEF Next, MemAttachCluster
<1>6. ASSUME NEW i \in Ids, NEW t \in Ids, MemMergeInto(i, t)
      PROVE  MemInv' /\ [limit = 0 => Next]_svars
  BY <1>6, MemMergeIntoStep DEF Next, MemMergeInto
<1>7. CASE UNCHANGED mvars
  <2>1. UNCHANGED <<inc, cluster, byExternal, lru, limit>>
    BY <1>7 DEF mvars, svars
  <2>2. Stored' = Stored /\ IndexOK' /\ GenerationsInOrder'
    BY <2>1, QuietStepKeeps DEF Exists, Unresolved
  <2>3. QED
    BY <2>1, <2>2 DEF MemInv, LruOK, TypeOK, svars
<1>8. QED
  BY <1>1, <1>2, <1>3, <1>4, <1>5, <1>6, <1>7 DEF MemNext

(* The order of activity lists every stored incident once and never more   *)
(* than the limit, whatever is evicted, merged or touched.                 *)
THEOREM MemStoreTypeCorrect == MemSpec => []MemTypeOK
<1>1. MemInv /\ [MemNext]_mvars => MemInv'
  BY NextMemInv
<1>2. QED
  BY InitMemInv, <1>1, InvIsTyped, PTL DEF MemSpec

(* ExternalActive, which asks the index only, answers for all incidents of *)
(* the series, and the index names none that an eviction took away.        *)
THEOREM IndexStaysExact == MemSpec => []IndexIsExact
<1>1. MemInv /\ [MemNext]_mvars => MemInv'
  BY NextMemInv
<1>2. QED
  BY InitMemInv, <1>1, InvIsExact, PTL DEF MemSpec

(* Without a limit every method of the in-memory store is the method of    *)
(* the contract: walking the ids of the generations finds the same one as  *)
(* their highest number does in the PostgreSQL store.                      *)
THEOREM MemStoreImplementsContract == MemSpec => ImplementsContract
<1>1. MemInv /\ [MemNext]_mvars => MemInv' /\ [limit = 0 => Next]_svars
  BY NextMemInv
<1>2. QED
  BY InitMemInv, <1>1, PTL DEF MemSpec, ImplementsContract

------------------------------------------------------------------------------
(* In PostgreSQL: what holds of a call between its statements.             *)

LocalsOK(c) ==
  /\ c.at \in {"update", "delete", "owner", "link", "touch",
               "target", "move", "close", "mark"} => c.i \in Ids
  /\ c.at \in {"look", "pick", "refresh", "insert"} => c.s \in Series
  /\ c.at \in {"owner", "link", "touch"} => c.k \in Clusters
  /\ c.at \in {"target", "move", "close", "mark"} => c.t \in Ids /\ c.i # c.t
  /\ c.at \notin {"close", "mark"} => c.moved = {}
  /\ c.at = "update" =>
       /\ c.to \in States
       /\ c.by = "human" \/ (c.by = "system" /\ c.to = "resolved")
       /\ CanTransition(inc[c.i].state, c.to)
  /\ c.at = "delete" => inc[c.i].state = "resolved"

(* The rows that were read are there, but for those deleted since.         *)
FoundOK(c) ==
  /\ c.at \in {"owner", "link", "touch", "target", "move", "close", "mark"} /\ c.i \notin c.gone =>
       Exists(c.i)
  /\ c.at \in {"move", "close", "mark"} /\ c.t \notin c.gone => Exists(c.t)
  /\ c.at = "touch" => c.i \notin c.gone /\ cluster[c.k] = NoIncident
  /\ c.moved # {} => c.i \notin c.gone /\ c.t \notin c.gone
  /\ \A k \in c.moved : cluster[k] = c.i

Upserting(c) == c.at \in {"pick", "refresh", "insert"}

(* An upsert has picked the highest of the generations it found that are   *)
(* left, and goes by the state of that row.                                *)
PickOK(c) ==
  Upserting(c) =>
    /\ Live(c) \subseteq Gens(c.s)
    /\ IF c.i = NoIncident
       THEN c.at = "pick" \/ (c.at = "insert" /\ Live(c) = {})
       ELSE \E g \in Live(c) :
              /\ c.i = <<c.s, g>> /\ \A h \in Live(c) : h <= g
              /\ c.at = IF Unresolved(c.i) THEN "refresh" ELSE "insert"

IsTop(g, G) == IF G = {} THEN g = 0 ELSE g \in G /\ \A h \in G : h <= g

(* A generation above those the upsert found was opened after the one next *)
(* to them, when the highest it found was resolved; unless one of the      *)
(* series was deleted meanwhile.                                           *)
BeyondOK(c) ==
  Upserting(c) /\ (\A g \in Generations : <<c.s, g>> \notin c.gone) =>
    \A g \in 0..MaxGen : IsTop(g, c.gens) =>
      \A h \in Gens(c.s) : h > g => g + 1 \in Gens(c.s) /\ (g # 0 => ~Unresolved(<<c.s, g>>))

CallOK(c) == LocalsOK(c) /\ FoundOK(c) /\ PickOK(c) /\ BeyondOK(c)

(* Two calls never hold the same row, cluster or key in conflicting ways.  *)
Compatible(c, d) ==
  /\ \A r \in Ids :
       /\ ForUpdate(c, r) => ~ForUpdate(d, r) /\ ~NoKeyUpdate(d, r) /\ ~KeyShare(d, r)
       /\ NoKeyUpdate(c, r) => ~ForUpdate(d, r) /\ ~NoKeyUpdate(d, r)
       /\ KeyShare(c, r) => ~ForUpdate(d, r)
  /\ c.at = "touch" /\ d.at = "touch" => c.k # d.k
  /\ c.moved \cap d.moved = {}

Locked(c, r) == ForUpdate(c, r) \/ NoKeyUpdate(c, r) \/ KeyShare(c, r)

LockedExist(c) == \A r \in Ids : Locked(c, r) => Exists(r)

TablesOK == TypeOK /\ ClustersHaveOwners /\ AckedIsHandedOver

PgInv ==
  /\ TablesOK
  /\ call \in [Calls -> Call]
  /\ \A x \in Calls : CallOK(call[x]) /\ LockedExist(call[x])
  /\ \A x, y \in Calls : x # y => Compatible(call[x], call[y])

LEMMA InvIsPgTyped == PgInv => PgTypeOK
<1> SUFFICES ASSUME PgInv, NEW x \in Calls, NEW r \in Ids
             PROVE  /\ ForUpdate(call[x], r) => MayUpdate(x, r)
                    /\ NoKeyUpdate(call[x], r) => MayChange(x, r)
                    /\ KeyShare(call[x], r) => MayRefer(x, r)
                    /\ Locked(call[x], r) => Exists(r)
  BY DEF PgInv, TablesOK, PgTypeOK, LocksOK, Locked
<1>1. \A y \in Calls \ {x} : Compatible(call[x], call[y])
  BY DEF PgInv
<1>2. QED
  BY <1>1 DEF PgInv, LockedExist, Others, MayUpdate, MayChange, MayRefer, Compatible

LEMMA OthersAreNoUpserts ==
  ASSUME NEW c, c.at \notin {"pick", "refresh", "insert"}
  PROVE  PickOK(c) /\ BeyondOK(c)
BY DEF PickOK, BeyondOK, Upserting

LEMMA CompatibleIsSymmetric ==
  ASSUME NEW c, NEW d, Compatible(c, d)
  PROVE  Compatible(d, c)
BY DEF Compatible

(* A call at no statement has no locals and no locks.                      *)
LEMMA IdleIsOK ==
  ASSUME NEW a \in {"new"} \cup Ends, NEW c, c = [NewCall EXCEPT !.at = a],
         NEW d
  PROVE  /\ c \in Call /\ CallOK(c) /\ \A r \in Ids : ~Locked(c, r)
         /\ Compatible(c, d)
<1> USE DEF NewCall
<1>1. c.at = a /\ c.moved = {} /\ c.at \notin (Statements \ ({"new"} \cup Ends)) /\ a \in Statements
  BY DEF Ends, Statements
<1>2. c \in Call
  BY <1>1, PgAssumption DEF Call
<1>3. \A r \in Ids : ~ForUpdate(c, r) /\ ~NoKeyUpdate(c, r) /\ ~KeyShare(c, r)
  BY <1>1 DEF ForUpdate, NoKeyUpdate, KeyShare, Ends
<1>4. CallOK(c)
  BY <1>1 DEF CallOK, LocalsOK, FoundOK, PickOK, BeyondOK, Upserting, Ends
<1>5. Compatible(c, d)
  BY <1>1, <1>3 DEF Compatible, Ends
<1>6. QED
  BY <1>2, <1>3, <1>4, <1>5 DEF Locked

LEMMA NewCallIsCall == NewCall \in Call
BY IdleIsOK DEF NewCall

------------------------------------------------------------------------------
LEMMA TablesUnchanged ==
  ASSUME UNCHANGED svars
  PROVE  /\ TablesOK => TablesOK'
         /\ \A d : CallOK(d)' = CallOK(d) /\ LockedExist(d)' = LockedExist(d)
<1>1. inc' = inc /\ cluster' = cluster
  BY DEF svars
<1>2. TablesOK => TablesOK'
  BY <1>1 DEF TablesOK, TypeOK, ClustersHaveOwners, AckedIsHandedOver, Exists
<1>3. \A d : CallOK(d)' = CallOK(d) /\ LockedExist(d)' = LockedExist(d)
  BY <1>1 DEF CallOK, LocalsOK, FoundOK, PickOK, BeyondOK, Live, Gens, Exists, Unresolved,
              LockedExist, Locked
<1>4. QED
  BY <1>2, <1>3

(* A statement that changes nothing that is committed.                     *)
LEMMA QuietStatement ==
  ASSUME PgInv, NEW x \in Calls, NEW c \in Call, Proceeds(x, c), UNCHANGED svars,
         CallOK(c), LockedExist(c),
         \A d \in Others(x) : Compatible(c, d)
  PROVE  PgInv'
<1>1. TablesOK' /\ \A d : CallOK(d)' = CallOK(d) /\ LockedExist(d)' = LockedExist(d)
  BY TablesUnchanged DEF PgInv
<1>2. /\ call' \in [Calls -> Call] /\ call'[x] = c
      /\ \A y \in Calls \ {x} : call'[y] = call[y]
  BY DEF Proceeds, PgInv
<1>3. \A y \in Calls : (CallOK(call[y]) /\ LockedExist(call[y]))'
  BY <1>1, <1>2 DEF PgInv
<1>4. ASSUME NEW y \in Calls, NEW z \in Calls, y # z
      PROVE  Compatible(call'[y], call'[z])
  <2>1. \A u \in Calls \ {x} : Compatible(c, call[u]) /\ Compatible(call[u], c)
    BY CompatibleIsSymmetric DEF Others
  <2>2. CASE y # x /\ z # x
    BY <2>2, <1>2, <1>4 DEF PgInv
  <2>3. QED
    BY <2>1, <2>2, <1>2, <1>4
<1>5. QED
  BY <1>1, <1>2, <1>3, <1>4 DEF PgInv

------------------------------------------------------------------------------
(* A step that commits, seen by the others.  D are the rows it deletes.    *)

(* What is not deleted stays what it is, and does not become active again. *)
RowsStay(D) ==
  \A r \in Ids \ D : Exists(r) =>
    /\ Exists(r)'
    /\ inc'[r].origin = inc[r].origin
    /\ Unresolved(r)' => Unresolved(r)

(* A new generation is the first, or comes after a resolved one.           *)
NewComeAfter ==
  \A s \in Series : \A h \in Gens(s)' \ Gens(s) :
    h = 1 \/ (h - 1 \in Gens(s) /\ ~Unresolved(<<s, h - 1>>))

(* Nothing that the call c has locked is touched.                          *)
Untouched(c, D) ==
  /\ \A r \in Ids : ForUpdate(c, r) => inc'[r] = inc[r]
  /\ \A r \in D : ~Locked(c, r)
  /\ \A k \in c.moved : cluster'[k] = cluster[k]
  /\ c.at = "touch" => cluster'[c.k] = cluster[c.k]

Hears(c, D) == [c EXCEPT !.gone = @ \cup D]

LEMMA HearingKeepsLocals ==
  ASSUME NEW c \in Call, NEW D \in SUBSET Ids, NEW e, e = Hears(c, D)
  PROVE  /\ e \in Call
         /\ e.at = c.at /\ e.i = c.i /\ e.t = c.t /\ e.k = c.k /\ e.s = c.s /\ e.to = c.to
         /\ e.by = c.by /\ e.gens = c.gens /\ e.moved = c.moved
         /\ e.gone = c.gone \cup D
         /\ D = {} => e = c
<1>1. /\ e.at = c.at /\ e.i = c.i /\ e.t = c.t /\ e.k = c.k /\ e.s = c.s /\ e.to = c.to
      /\ e.by = c.by /\ e.gens = c.gens /\ e.moved = c.moved /\ e.tries = c.tries
      /\ e.gone = c.gone \cup D
  BY DEF Hears, Call
<1>2. e \in Call
  BY DEF Hears, Call
<1>3. ASSUME D = {} PROVE e = c
  BY <1>1, <1>2, <1>3 DEF Call
<1>4. QED
  BY <1>1, <1>2, <1>3

LEMMA OthersLocals ==
  ASSUME PgInv, NEW x \in Calls, NEW D \in SUBSET Ids, NEW e \in Call,
         e = Hears(call[x], D), Untouched(call[x], D), RowsStay(D),
         TablesOK', \A r \in D : ~Exists(r)'
  PROVE  LocalsOK(e)' /\ FoundOK(e)' /\ LockedExist(e)'
<1> DEFINE c == call[x]
<1>1. c \in Call /\ LocalsOK(c) /\ FoundOK(c) /\ LockedExist(c)
  BY DEF PgInv, CallOK
<1>2. /\ e.at = c.at /\ e.i = c.i /\ e.t = c.t /\ e.k = c.k /\ e.s = c.s /\ e.to = c.to
      /\ e.by = c.by /\ e.moved = c.moved /\ e.gone = c.gone \cup D
  BY <1>1, HearingKeepsLocals
<1>3. Untouched(c, D)
  OBVIOUS
<1> HIDE DEF c
<1>4. LocalsOK(e)'
  BY <1>1, <1>2, <1>3 DEF LocalsOK, Untouched, ForUpdate
<1>5. ASSUME NEW r \in Ids, r \notin e.gone, r \notin c.gone => Exists(r)
      PROVE  Exists(r)'
  BY <1>2, <1>5 DEF RowsStay
<1>6. e.i \in Ids \cup {NoIncident} /\ e.t \in Ids \cup {NoIncident} /\ c.moved \subseteq Clusters
  BY <1>1, <1>2 DEF Call
<1>7. \A k \in e.moved : cluster'[k] = e.i
  BY <1>1, <1>2, <1>3 DEF FoundOK, Untouched
<1>8. e.at = "touch" => e.i \notin e.gone /\ cluster'[e.k] = NoIncident
  BY <1>1, <1>2, <1>3 DEF FoundOK, LocalsOK, Untouched, Locked, KeyShare
<1>9. e.moved # {} => e.i \notin e.gone /\ e.t \notin e.gone
  <2> SUFFICES ASSUME e.moved # {} PROVE e.i \notin D /\ e.t \notin D
    BY <1>1, <1>2 DEF FoundOK
  <2>1. e.at \in {"close", "mark"} /\ e.t \in Ids /\ e.i \in Ids
    BY <1>1, <1>2 DEF LocalsOK
  <2>2. e.t \notin D
    BY <1>2, <1>3, <2>1 DEF Untouched, Locked, KeyShare
  <2>3. PICK k \in Clusters : cluster'[k] = e.i
    BY <1>2, <1>6, <1>7
  <2>4. Exists(e.i)'
    BY <2>1, <2>3, StoreAssumption DEF TablesOK, ClustersHaveOwners, Exists
  <2>5. QED
    BY <2>1, <2>2, <2>4
<1>10. FoundOK(e)'
  <2>1. e.at \in {"owner", "link", "touch", "target", "move", "close", "mark"} /\ e.i \notin e.gone =>
          Exists(e.i)'
    BY <1>1, <1>2, <1>5 DEF FoundOK, LocalsOK
  <2>2. e.at \in {"move", "close", "mark"} /\ e.t \notin e.gone => Exists(e.t)'
    BY <1>1, <1>2, <1>5 DEF FoundOK, LocalsOK
  <2>3. QED
    BY <1>7, <1>8, <1>9, <2>1, <2>2 DEF FoundOK, Exists
<1>11. ASSUME NEW r \in Ids, Locked(e, r)
       PROVE  Exists(r)'
  <2>1. Locked(c, r)
    BY <1>2, <1>11 DEF Locked, ForUpdate, NoKeyUpdate, KeyShare
  <2>2. Exists(r) /\ r \notin D
    BY <1>1, <1>3, <2>1 DEF LockedExist, Untouched
  <2>3. QED
    BY <2>2 DEF RowsStay
<1>12. QED
  BY <1>4, <1>10, <1>11 DEF LockedExist, Locked, Exists

LEMMA GenerationsStay ==
  ASSUME NEW D \in SUBSET Ids, RowsStay(D), NEW s \in Series, NEW g \in Gens(s), <<s, g>> \notin D
  PROVE  g \in Gens(s)' /\ (Unresolved(<<s, g>>)' => Unresolved(<<s, g>>))
BY DEF Gens, RowsStay, Ids

LEMMA OthersUpserts ==
  ASSUME PgInv, NEW x \in Calls, NEW D \in SUBSET Ids, NEW e \in Call,
         e = Hears(call[x], D), Untouched(call[x], D), RowsStay(D), NewComeAfter
  PROVE  PickOK(e)' /\ BeyondOK(e)'
<1> DEFINE c == call[x]
<1>1. c \in Call /\ LocalsOK(c) /\ PickOK(c) /\ BeyondOK(c)
  BY DEF PgInv, CallOK
<1>2. /\ e.at = c.at /\ e.i = c.i /\ e.s = c.s /\ e.gens = c.gens /\ e.gone = c.gone \cup D
  BY <1>1, HearingKeepsLocals
<1>3. Untouched(c, D)
  OBVIOUS
<1> HIDE DEF c
<1> SUFFICES ASSUME Upserting(e) PROVE PickOK(e)' /\ BeyondOK(e)'
  BY DEF PickOK, BeyondOK
<1>4. Upserting(c) /\ e.s \in Series
  BY <1>1, <1>2 DEF Upserting, LocalsOK
<1>5. Live(e) = {g \in Live(c) : <<e.s, g>> \notin D} /\ Live(e)' = Live(e)
  BY <1>2 DEF Live
<1>6. Live(c) \subseteq Gens(e.s) /\ Live(e) \subseteq Gens(e.s)' /\ Gens(e.s) \subseteq Generations
  <2>1. Live(c) \subseteq Gens(e.s)
    BY <1>1, <1>2, <1>4 DEF PickOK
  <2>2. QED
    BY <1>4, <1>5, <2>1, GenerationsStay DEF Gens
<1>7. PickOK(e)'
  <2>1. CASE c.i = NoIncident
    BY <1>1, <1>2, <1>4, <1>5, <1>6, <2>1 DEF PickOK
  <2>2. CASE c.i # NoIncident
    <3>1. PICK g \in Live(c) :
            /\ c.i = <<c.s, g>> /\ \A h \in Live(c) : h <= g
            /\ c.at = IF Unresolved(c.i) THEN "refresh" ELSE "insert"
      BY <1>1, <1>4, <2>2 DEF PickOK
    <3>2. c.i \in Ids
      BY <1>2, <1>4, <1>6, <3>1 DEF Ids
    <3>3. ForUpdate(c, c.i)
      BY <3>1 DEF ForUpdate
    <3>4. inc'[c.i] = inc[c.i] /\ c.i \notin D
      BY <1>3, <3>2, <3>3 DEF Untouched, Locked
    <3>5. g \in Live(e)
      BY <1>2, <1>5, <3>1, <3>4
    <3>6. Unresolved(e.i)' <=> Unresolved(c.i)
      BY <1>2, <3>4 DEF Unresolved
    <3>7. /\ e.i = <<e.s, g>> /\ \A h \in Live(e) : h <= g
          /\ e.at = IF Unresolved(e.i)' THEN "refresh" ELSE "insert"
      BY <1>2, <1>5, <3>1, <3>6
    <3>8. e.i # NoIncident
      BY <1>2, <2>2
    <3>9. QED
      BY <1>5, <1>6, <3>5, <3>7, <3>8 DEF PickOK
  <2>3. QED
    BY <2>1, <2>2
<1>8. BeyondOK(e)'
  <2> SUFFICES ASSUME \A g \in Generations : <<e.s, g>> \notin e.gone,
                      NEW g \in 0..MaxGen, IsTop(g, e.gens),
                      NEW h \in Gens(e.s)', h > g
               PROVE  g + 1 \in Gens(e.s)' /\ (g # 0 => ~Unresolved(<<e.s, g>>)')
    BY DEF BeyondOK
  <2>1. \A a \in Generations : <<e.s, a>> \notin D /\ <<c.s, a>> \notin c.gone
    BY <1>2
  <2>2. IsTop(g, c.gens) /\ c.s = e.s
    BY <1>2
  <2>3. \A a \in Gens(c.s) : a > g => g + 1 \in Gens(c.s) /\ (g # 0 => ~Unresolved(<<c.s, g>>))
    BY <1>1, <1>4, <2>1, <2>2 DEF BeyondOK
  <2>4. c.gens = Live(c)
    BY <1>1, <2>1 DEF Live, Call
  <2>5. g # 0 => g \in Gens(e.s)
    BY <1>6, <2>2, <2>4 DEF IsTop
  <2>6. h \in Generations /\ g \in Nat /\ h \in Nat /\ Generations \subseteq Nat
    BY StoreAssumption DEF Gens, Generations
  <2>7. g + 1 \in Gens(e.s) =>
          g + 1 \in Gens(e.s)' /\ (g # 0 /\ ~Unresolved(<<e.s, g>>) => ~Unresolved(<<e.s, g>>)')
    BY <1>4, <1>6, <2>1, <2>5, GenerationsStay
  <2>8. CASE h \in Gens(e.s)
    BY <2>2, <2>3, <2>7, <2>8
  <2>9. CASE h \notin Gens(e.s)
    <3>1. h = 1 \/ (h - 1 \in Gens(e.s) /\ ~Unresolved(<<e.s, h - 1>>))
      BY <1>4, <2>9 DEF NewComeAfter
    <3>2. CASE h = g + 1
      <4>1. g # 0 => ~Unresolved(<<e.s, g>>)
        BY <2>6, <3>1, <3>2
      <4>2. g # 0 => ~Unresolved(<<e.s, g>>)'
        BY <1>4, <2>1, <2>5, <4>1, <1>6, GenerationsStay
      <4>3. QED
        BY <3>2, <4>2
    <3>3. CASE h # g + 1
      <4>1. h - 1 \in Gens(e.s) /\ h - 1 > g
        BY <2>6, <3>1, <3>3
      <4>2. QED
        BY <2>2, <2>3, <2>7, <4>1
    <3>4. QED
      BY <3>2, <3>3
  <2>10. QED
    BY <2>8, <2>9
<1>9. QED
  BY <1>7, <1>8

LEMMA HearingKeepsCompatible ==
  ASSUME NEW c \in Call, NEW d \in Call, NEW e, NEW f, Compatible(c, d), NEW D \in SUBSET Ids,
         e = c \/ e = Hears(c, D), f = d \/ f = Hears(d, D)
  PROVE  Compatible(e, f)
<1>1. e.at = c.at /\ e.i = c.i /\ e.t = c.t /\ e.k = c.k /\ e.moved = c.moved /\ c.gone \subseteq e.gone
  BY HearingKeepsLocals
<1>2. f.at = d.at /\ f.i = d.i /\ f.t = d.t /\ f.k = d.k /\ f.moved = d.moved /\ d.gone \subseteq f.gone
  BY HearingKeepsLocals
<1>3. \A r : /\ ForUpdate(e, r) <=> ForUpdate(c, r)
             /\ KeyShare(e, r) <=> KeyShare(c, r)
             /\ NoKeyUpdate(e, r) => NoKeyUpdate(c, r)
  BY <1>1 DEF ForUpdate, KeyShare, NoKeyUpdate
<1>4. \A r : /\ ForUpdate(f, r) <=> ForUpdate(d, r)
             /\ KeyShare(f, r) <=> KeyShare(d, r)
             /\ NoKeyUpdate(f, r) => NoKeyUpdate(d, r)
  BY <1>2 DEF ForUpdate, KeyShare, NoKeyUpdate
<1>5. QED
  BY <1>1, <1>2, <1>3, <1>4 DEF Compatible

(* A commit by the calls X (none for Create) of changes to the tables.     *)
LEMMA Commit ==
  ASSUME PgInv, NEW X \in SUBSET Calls, NEW D \in SUBSET Ids,
         \A y \in X : call'[y] = [NewCall EXCEPT !.at = "committed"],
         \A y \in Calls \ X : Untouched(call[y], D),
         \A y \in Calls \ X :
           call'[y] = IF D # {} /\ Running(y) THEN Hears(call[y], D) ELSE call[y],
         call' \in [Calls -> Call],
         TablesOK', RowsStay(D), NewComeAfter, \A r \in D : ~Exists(r)'
  PROVE  PgInv'
<1>1. \A y \in Calls : call[y] \in Call
  BY DEF PgInv
<1>2. \A y \in Calls \ X : Running(y) =>
        call'[y] = Hears(call[y], D) /\ Hears(call[y], D) \in Call
  BY <1>1, HearingKeepsLocals
<1>3. ASSUME NEW y \in Calls \ X, ~Running(y)
      PROVE  call'[y] = call[y] /\ call[y].at \in {"new"} \cup Ends
  BY <1>3 DEF Running
<1>4. ASSUME NEW c \in Call, c.at \in {"new"} \cup Ends, c.moved = {}
      PROVE  CallOK(c)' /\ LockedExist(c)' /\ \A d : Compatible(c, d)
  BY <1>4 DEF CallOK, LocalsOK, FoundOK, PickOK, BeyondOK, Upserting, LockedExist, Locked,
              ForUpdate, NoKeyUpdate, KeyShare, Compatible, Ends
<1>5. \A y \in X : call'[y].at = "committed" /\ call'[y].moved = {} /\ call'[y] \in Call
  BY IdleIsOK DEF NewCall, Ends
<1>6. ASSUME NEW y \in Calls
      PROVE  (CallOK(call[y]) /\ LockedExist(call[y]))'
  <2>1. CASE y \in X
    BY <1>4, <1>5, <2>1 DEF Ends
  <2>2. CASE y \notin X /\ ~Running(y)
    <3>1. call[y].moved = {}
      BY <1>3, <2>2 DEF PgInv, CallOK, LocalsOK, Ends
    <3>2. QED
      BY <1>1, <1>3, <1>4, <2>2, <3>1
  <2>3. CASE y \notin X /\ Running(y)
    <3>1. PICK e \in Call : e = Hears(call[y], D) /\ call'[y] = e
      BY <1>2, <2>3
    <3>2. Untouched(call[y], D)
      BY <2>3
    <3>3. LocalsOK(e)' /\ FoundOK(e)' /\ LockedExist(e)'
      BY <3>1, <3>2, OthersLocals
    <3>4. PickOK(e)' /\ BeyondOK(e)'
      BY <3>1, <3>2, OthersUpserts
    <3>5. QED
      BY <3>1, <3>3, <3>4 DEF CallOK
  <2>4. QED
    BY <2>1, <2>2, <2>3
<1>7. ASSUME NEW y \in Calls, NEW z \in Calls, y # z
      PROVE  Compatible(call'[y], call'[z])
  <2>1. \A u \in X : \A d : Compatible(call'[u], d) /\ Compatible(d, call'[u])
    BY <1>4, <1>5, CompatibleIsSymmetric DEF Ends
  <2>2. CASE y \notin X /\ z \notin X
    <3>1. call'[y] = call[y] \/ call'[y] = Hears(call[y], D)
      BY <2>2
    <3>2. call'[z] = call[z] \/ call'[z] = Hears(call[z], D)
      BY <2>2
    <3>3. Compatible(call[y], call[z])
      BY <1>7 DEF PgInv
    <3>4. QED
      BY <1>1, <3>1, <3>2, <3>3, HearingKeepsCompatible
  <2>3. QED
    BY <2>1, <2>2
<1>8. QED
  BY <1>6, <1>7 DEF PgInv

------------------------------------------------------------------------------
(* The statements that read, lock, or write what is not yet committed      *)

LEMMA GivesUp ==
  ASSUME PgInv, NEW x \in Calls, NEW a \in {"new"} \cup Ends,
         Proceeds(x, [NewCall EXCEPT !.at = a]), UNCHANGED svars
  PROVE  PgInv'
<1> DEFINE c == [NewCall EXCEPT !.at = a]
<1>1. c \in Call /\ CallOK(c) /\ LockedExist(c) /\ \A d : Compatible(c, d)
  BY IdleIsOK DEF LockedExist
<1>2. Proceeds(x, c)
  OBVIOUS
<1> HIDE DEF c
<1>3. QED
  BY <1>1, <1>2, QuietStatement

(* What the wait for a lock on r ensures of a call that holds no other.    *)
LEMMA Waited ==
  ASSUME PgInv, NEW x \in Calls, NEW c \in Call, NEW d \in Others(x), NEW r \in Ids,
         \/ MayUpdate(x, r) /\ \A q \in Ids : Locked(c, q) => q = r
         \/ /\ MayRefer(x, r)
            /\ \A q \in Ids : /\ KeyShare(c, q) => q = r
                             /\ ~ForUpdate(c, q) /\ ~NoKeyUpdate(c, q),
         c.at = "touch" /\ d.at = "touch" => c.k # d.k,
         c.moved \cap d.moved = {}
  PROVE  Compatible(c, d)
BY DEF Compatible, MayUpdate, MayRefer, Locked

LEMMA TransitionSelectStep ==
  ASSUME PgInv, NEW x \in Calls, NEW i \in Ids, NEW to \in States, NEW by \in Actors,
         by = "human" \/ (by = "system" /\ to = "resolved"), TransitionSelect(x, i, to, by)
  PROVE  PgInv'
<1> DEFINE c == [NewCall EXCEPT !.at = "update", !.i = i, !.to = to, !.by = by]
<1>0. c \in Call
  BY NewCallIsCall DEF Call, Statements
<1>1. c.at = "update" /\ c.i = i /\ c.to = to /\ c.by = by /\ c.moved = {} /\ c.gone = {}
  BY DEF NewCall
<1>2. Proceeds(x, c) /\ UNCHANGED svars /\ MayUpdate(x, i) /\ CanTransition(inc[i].state, to)
  BY DEF TransitionSelect
<1> HIDE DEF c
<1>3. Exists(i)
  <2>1. inc[i].state \in States \cup {"none"}
    BY DEF PgInv, TablesOK, TypeOK, Incident
  <2>2. QED
    BY <1>2, <2>1, TransitionsLeadOn DEF Exists
<1>4. \A q \in Ids : Locked(c, q) => q = i
  BY <1>1 DEF Locked, ForUpdate, NoKeyUpdate, KeyShare
<1>5. CallOK(c) /\ LockedExist(c)
  BY <1>1, <1>2, <1>3, <1>4, OthersAreNoUpserts
  DEF CallOK, LocalsOK, FoundOK, LockedExist, Exists, CanTransition
<1>6. \A d \in Others(x) : Compatible(c, d)
  BY <1>0, <1>1, <1>2, <1>4, Waited
<1>7. QED
  BY <1>0, <1>1, <1>2, <1>5, <1>6, QuietStatement

LEMMA SweepSelectStep ==
  ASSUME PgInv, NEW x \in Calls, NEW i \in Ids, SweepSelect(x, i)
  PROVE  PgInv'
<1> DEFINE c == [NewCall EXCEPT !.at = "delete", !.i = i]
<1>0. c \in Call
  BY NewCallIsCall DEF Call, Statements
<1>1. c.at = "delete" /\ c.i = i /\ c.moved = {} /\ c.gone = {}
  BY DEF NewCall
<1>2. Proceeds(x, c) /\ UNCHANGED svars /\ MayUpdate(x, i) /\ inc[i].state = "resolved"
  BY DEF SweepSelect
<1> HIDE DEF c
<1>3. Exists(i)
  BY <1>2 DEF Exists
<1>4. \A q \in Ids : Locked(c, q) => q = i
  BY <1>1 DEF Locked, ForUpdate, NoKeyUpdate, KeyShare
<1>5. CallOK(c) /\ LockedExist(c)
  BY <1>1, <1>2, <1>3, <1>4, OthersAreNoUpserts
  DEF CallOK, LocalsOK, FoundOK, LockedExist, Exists, CanTransition
<1>6. \A d \in Others(x) : Compatible(c, d)
  BY <1>0, <1>1, <1>2, <1>4, Waited
<1>7. QED
  BY <1>0, <1>1, <1>2, <1>5, <1>6, QuietStatement

(* A statement that takes no lock.                                         *)
LEMMA PlainRead ==
  ASSUME PgInv, NEW x \in Calls, NEW c \in Call, Proceeds(x, c), UNCHANGED svars,
         CallOK(c), c.moved = {}, c.at \in {"look", "pick", "owner", "link", "target", "move"}
  PROVE  PgInv'
<1>1. \A r \in Ids : ~ForUpdate(c, r) /\ ~NoKeyUpdate(c, r) /\ ~KeyShare(c, r)
  BY DEF ForUpdate, NoKeyUpdate, KeyShare
<1>2. LockedExist(c) /\ \A d : Compatible(c, d)
  BY <1>1 DEF LockedExist, Locked, Compatible
<1>3. QED
  BY <1>2, QuietStatement

LEMMA UpsertLookStep ==
  ASSUME PgInv, NEW x \in Calls, NEW s \in Series, UpsertLook(x, s)
  PROVE  PgInv'
<1> DEFINE c == [NewCall EXCEPT !.at = "pick", !.s = s, !.gens = Gens(s), !.tries = call[x].tries]
<1>1. /\ c.at = "pick" /\ c.i = NoIncident /\ c.s = s /\ c.gens = Gens(s) /\ c.gone = {}
      /\ c.moved = {}
  BY DEF NewCall
<1>2. c \in Call
  <2>1. call[x].tries \in 0..Retries /\ Gens(s) \subseteq Generations
    BY DEF PgInv, Call, Gens
  <2>2. QED
    BY <2>1, PgAssumption DEF NewCall, Call, Statements
<1>3. Proceeds(x, c) /\ UNCHANGED svars
  BY DEF UpsertLook
<1> HIDE DEF c
<1>4. PickOK(c)
  BY <1>1 DEF PickOK, Live
<1>5. BeyondOK(c)
  <2> SUFFICES ASSUME NEW g \in 0..MaxGen, IsTop(g, Gens(s)), NEW h \in Gens(s), h > g
               PROVE  FALSE
    BY <1>1 DEF BeyondOK
  <2>1. g \in Nat /\ h \in Nat /\ h <= g
    BY StoreAssumption DEF IsTop, Gens, Generations
  <2>2. QED
    BY <2>1
<1>6. CallOK(c)
  BY <1>1, <1>4, <1>5 DEF CallOK, LocalsOK, FoundOK
<1>7. QED
  BY <1>1, <1>2, <1>3, <1>6, PlainRead

LEMMA AttachFindStep ==
  ASSUME PgInv, NEW x \in Calls, NEW i \in Ids, NEW k \in Clusters, AttachFind(x, i, k)
  PROVE  PgInv'
<1> DEFINE c == [NewCall EXCEPT !.at = "owner", !.i = i, !.k = k]
<1>0. c \in Call
  BY NewCallIsCall DEF Call, Statements
<1>1. c.at = "owner" /\ c.i = i /\ c.k = k /\ c.moved = {} /\ c.gone = {}
  BY DEF NewCall
<1>2. Proceeds(x, c) /\ UNCHANGED svars /\ Exists(i)
  BY DEF AttachFind
<1> HIDE DEF c
<1>3. CallOK(c)
  BY <1>1, <1>2, OthersAreNoUpserts DEF CallOK, LocalsOK, FoundOK, Exists
<1>4. QED
  BY <1>0, <1>1, <1>2, <1>3, PlainRead

LEMMA MergeSourceStep ==
  ASSUME PgInv, NEW x \in Calls, NEW i \in Ids, NEW t \in Ids, MergeSource(x, i, t)
  PROVE  PgInv'
<1> DEFINE c == [NewCall EXCEPT !.at = "target", !.i = i, !.t = t]
<1>0. c \in Call
  BY NewCallIsCall DEF Call, Statements
<1>1. c.at = "target" /\ c.i = i /\ c.t = t /\ c.moved = {} /\ c.gone = {}
  BY DEF NewCall
<1>2. Proceeds(x, c) /\ UNCHANGED svars /\ Exists(i) /\ i # t
  BY DEF MergeSource
<1> HIDE DEF c
<1>3. CallOK(c)
  BY <1>1, <1>2, OthersAreNoUpserts DEF CallOK, LocalsOK, FoundOK, Exists
<1>4. QED
  BY <1>0, <1>1, <1>2, <1>3, PlainRead

(* The call that is running, and what is known of it.                      *)
LEMMA AttachOwnerStep ==
  ASSUME PgInv, NEW x \in Calls, AttachOwner(x)
  PROVE  PgInv'
<1> DEFINE b == call[x]
           c == [b EXCEPT !.at = "link"]
<1>1. b \in Call /\ LocalsOK(b) /\ FoundOK(b)
  BY DEF PgInv, CallOK
<1>2. Proceeds(x, c) /\ UNCHANGED svars /\ b.at = "owner"
  BY DEF AttachOwner
<1> HIDE DEF b
<1>3. /\ c.at = "link" /\ c.i = b.i /\ c.k = b.k /\ c.moved = b.moved /\ c.gone = b.gone
      /\ c \in Call
  BY <1>1 DEF Call, Statements
<1> HIDE DEF c
<1>4. CallOK(c)
  BY <1>1, <1>2, <1>3, OthersAreNoUpserts DEF CallOK, LocalsOK, FoundOK, Exists
<1>5. c.moved = {}
  BY <1>1, <1>2, <1>3 DEF LocalsOK
<1>6. QED
  BY <1>2, <1>3, <1>4, <1>5, PlainRead

LEMMA AttachLinkStep ==
  ASSUME PgInv, NEW x \in Calls, AttachLink(x)
  PROVE  PgInv'
<1> DEFINE b == call[x]
           c == [b EXCEPT !.at = "touch"]
<1>1. b \in Call /\ LocalsOK(b) /\ FoundOK(b)
  BY DEF PgInv, CallOK
<1>2. /\ Proceeds(x, c) /\ UNCHANGED svars /\ b.at = "link" /\ cluster[b.k] = NoIncident
      /\ \A d \in Others(x) : ~(d.at = "touch" /\ d.k = b.k)
      /\ b.i \notin b.gone /\ MayRefer(x, b.i)
  BY DEF AttachLink
<1> HIDE DEF b
<1>3. /\ c.at = "touch" /\ c.i = b.i /\ c.k = b.k /\ c.moved = b.moved /\ c.gone = b.gone
      /\ c \in Call
  BY <1>1 DEF Call, Statements
<1> HIDE DEF c
<1>4. c.moved = {} /\ c.i \in Ids
  BY <1>1, <1>2, <1>3 DEF LocalsOK
<1>5. CallOK(c)
  BY <1>1, <1>2, <1>3, <1>4, OthersAreNoUpserts DEF CallOK, LocalsOK, FoundOK, Exists
<1>6. \A q \in Ids : /\ KeyShare(c, q) => q = c.i
                     /\ ~ForUpdate(c, q) /\ ~NoKeyUpdate(c, q)
  BY <1>3 DEF ForUpdate, NoKeyUpdate, KeyShare
<1>7. LockedExist(c)
  BY <1>1, <1>2, <1>3, <1>6 DEF LockedExist, Locked, FoundOK, Exists
<1>8. \A d \in Others(x) : Compatible(c, d)
  BY <1>2, <1>3, <1>4, <1>6, Waited
<1>9. QED
  BY <1>2, <1>3, <1>5, <1>7, <1>8, QuietStatement

LEMMA MergeTargetStep ==
  ASSUME PgInv, NEW x \in Calls, MergeTarget(x)
  PROVE  PgInv'
<1> DEFINE b == call[x]
           c == [b EXCEPT !.at = "move", !.gone = @ \ {b.t}]
<1>1. b \in Call /\ LocalsOK(b) /\ FoundOK(b)
  BY DEF PgInv, CallOK
<1>2. Proceeds(x, c) /\ UNCHANGED svars /\ b.at = "target" /\ Exists(b.t)
  BY DEF MergeTarget
<1> HIDE DEF b
<1>3. /\ c.at = "move" /\ c.i = b.i /\ c.t = b.t /\ c.moved = b.moved /\ c.gone = b.gone \ {b.t}
      /\ c \in Call
  BY <1>1 DEF Call, Statements
<1> HIDE DEF c
<1>4. c.moved = {} /\ b.i # b.t
  BY <1>1, <1>2, <1>3 DEF LocalsOK
<1>5. CallOK(c)
  BY <1>1, <1>2, <1>3, <1>4, OthersAreNoUpserts DEF CallOK, LocalsOK, FoundOK, Exists
<1>6. QED
  BY <1>2, <1>3, <1>4, <1>5, PlainRead

LEMMA MergeMoveStep ==
  ASSUME PgInv, NEW x \in Calls, MergeMove(x)
  PROVE  PgInv'
<1> DEFINE b == call[x]
           c == [b EXCEPT !.at = "close", !.moved = Owned(b)]
<1>1. b \in Call /\ LocalsOK(b) /\ FoundOK(b)
  BY DEF PgInv, CallOK
<1>2. /\ Proceeds(x, c) /\ UNCHANGED svars /\ b.at = "move"
      /\ \A d \in Others(x) : d.moved \cap Owned(b) = {}
      /\ Owned(b) # {} => b.t \notin b.gone /\ MayRefer(x, b.t)
  BY DEF MergeMove
<1> HIDE DEF b
<1>3. /\ c.at = "close" /\ c.i = b.i /\ c.t = b.t /\ c.moved = Owned(b) /\ c.gone = b.gone
      /\ c \in Call
  BY <1>1 DEF Call, Statements, Owned
<1> HIDE DEF c
<1>4. \A k \in c.moved : cluster[k] = c.i
  BY <1>3 DEF Owned
<1>5. c.moved # {} => c.i \notin c.gone /\ c.t \notin c.gone
  BY <1>2, <1>3 DEF Owned
<1>6. CallOK(c)
  BY <1>1, <1>2, <1>3, <1>4, <1>5, OthersAreNoUpserts DEF CallOK, LocalsOK, FoundOK, Exists
<1>7. \A q \in Ids : /\ KeyShare(c, q) => c.moved # {} /\ q = c.t
                     /\ ~ForUpdate(c, q) /\ ~NoKeyUpdate(c, q)
  BY <1>3 DEF ForUpdate, NoKeyUpdate, KeyShare
<1>8. LockedExist(c)
  BY <1>3, <1>5, <1>6, <1>7 DEF LockedExist, Locked, CallOK, FoundOK, Exists
<1>9. \A d \in Others(x) : Compatible(c, d)
  BY <1>2, <1>3, <1>7 DEF Compatible, MayRefer
<1>10. QED
  BY <1>2, <1>3, <1>6, <1>8, <1>9, QuietStatement

LEMMA MergeCloseStep ==
  ASSUME PgInv, NEW x \in Calls, MergeClose(x)
  PROVE  PgInv'
<1> DEFINE b == call[x]
           c == [b EXCEPT !.at = "mark"]
<1>1. b \in Call /\ LocalsOK(b) /\ FoundOK(b) /\ LockedExist(b)
  BY DEF PgInv, CallOK
<1>2. /\ Proceeds(x, c) /\ UNCHANGED svars /\ b.at = "close"
      /\ b.i \notin b.gone => MayChange(x, b.i)
  BY DEF MergeClose
<1>3. \A d \in Others(x) : Compatible(b, d)
  BY DEF PgInv, Others
<1> HIDE DEF b
<1>4. /\ c.at = "mark" /\ c.i = b.i /\ c.t = b.t /\ c.moved = b.moved /\ c.gone = b.gone
      /\ c \in Call
  BY <1>1 DEF Call, Statements
<1> HIDE DEF c
<1>5. CallOK(c)
  BY <1>1, <1>2, <1>4, OthersAreNoUpserts DEF CallOK, LocalsOK, FoundOK, Exists
<1>6. \A q \in Ids : /\ KeyShare(c, q) <=> KeyShare(b, q)
                     /\ NoKeyUpdate(c, q) => q = b.i /\ b.i \notin b.gone
                     /\ ~ForUpdate(c, q)
  BY <1>2, <1>4 DEF ForUpdate, NoKeyUpdate, KeyShare
<1>7. LockedExist(c)
  BY <1>1, <1>2, <1>4, <1>6 DEF LockedExist, Locked, FoundOK, Exists
<1>8. \A d \in Others(x) : Compatible(c, d)
  BY <1>2, <1>3, <1>4, <1>6 DEF Compatible, MayChange
<1>9. QED
  BY <1>2, <1>4, <1>5, <1>7, <1>8, QuietStatement

LEMMA UpsertPickStep ==
  ASSUME PgInv, NEW x \in Calls, UpsertPick(x)
  PROVE  PgInv'
<1> DEFINE b == call[x]
<1>1. b \in Call /\ LocalsOK(b) /\ FoundOK(b) /\ PickOK(b) /\ BeyondOK(b)
  BY DEF PgInv, CallOK
<1>2. UNCHANGED svars /\ b.at = "pick"
  BY DEF UpsertPick
<1>3. b.s \in Series /\ b.moved = {} /\ Upserting(b) /\ Live(b) \subseteq Gens(b.s)
  BY <1>1, <1>2 DEF LocalsOK, PickOK, Upserting
<1>4. CASE Live(b) = {} /\ Proceeds(x, [b EXCEPT !.at = "insert"])
  <2> DEFINE c == [b EXCEPT !.at = "insert"]
  <2>1. Proceeds(x, c)
    BY <1>4
  <2> HIDE DEF b
  <2>2. /\ c.at = "insert" /\ c.i = b.i /\ c.s = b.s /\ c.moved = {} /\ c.gens = b.gens
        /\ c.gone = b.gone /\ c \in Call
    BY <1>1, <1>3 DEF Call, Statements
  <2> HIDE DEF c
  <2>3. b.i = NoIncident /\ Live(c) = {}
    BY <1>1, <1>2, <1>4, <2>2 DEF PickOK, Upserting, Live
  <2>4. PickOK(c)
    BY <2>2, <2>3 DEF PickOK
  <2>5. BeyondOK(c)
    BY <1>1, <1>3, <2>2 DEF BeyondOK
  <2>6. CallOK(c)
    BY <1>3, <2>2, <2>4, <2>5 DEF CallOK, LocalsOK, FoundOK
  <2>7. \A r \in Ids : ~ForUpdate(c, r) /\ ~NoKeyUpdate(c, r) /\ ~KeyShare(c, r)
    BY <2>2, <2>3, StoreAssumption DEF ForUpdate, NoKeyUpdate, KeyShare
  <2>8. LockedExist(c) /\ \A d : Compatible(c, d)
    BY <2>2, <2>7 DEF LockedExist, Locked, Compatible
  <2>9. QED
    BY <1>2, <2>1, <2>2, <2>6, <2>8, QuietStatement
<1>5. ASSUME NEW g \in Live(b), \A h \in Live(b) : h <= g, MayUpdate(x, <<b.s, g>>),
             Proceeds(x, [b EXCEPT !.i = <<b.s, g>>,
                                   !.at = IF Unresolved(<<b.s, g>>) THEN "refresh" ELSE "insert"])
      PROVE  PgInv'
  <2> DEFINE r == <<b.s, g>>
             a == IF Unresolved(r) THEN "refresh" ELSE "insert"
             c == [b EXCEPT !.i = r, !.at = a]
  <2>1. Proceeds(x, c) /\ MayUpdate(x, r)
    BY <1>5
  <2>2. r \in Ids /\ Exists(r)
    BY <1>3, <1>5 DEF Gens, Ids
  <2>3. Live(b) = {h \in b.gens : <<b.s, h>> \notin b.gone}
    BY DEF Live
  <2> HIDE DEF b
  <2>4. a \in {"refresh", "insert"} /\ a = IF Unresolved(r) THEN "refresh" ELSE "insert"
    OBVIOUS
  <2> HIDE DEF a
  <2>5. r = <<b.s, g>> /\ r # NoIncident
    BY <2>2, StoreAssumption
  <2> HIDE DEF r
  <2>6. /\ c.at = a /\ c.i = r /\ c.s = b.s /\ c.moved = {} /\ c.gens = b.gens
        /\ c.gone = b.gone /\ c \in Call
    BY <1>1, <1>3, <2>2, <2>4 DEF Call, Statements
  <2> HIDE DEF c
  <2>7. Live(c) = Live(b)
    BY <2>6 DEF Live
  <2>8. PickOK(c)
    BY <1>3, <1>5, <2>4, <2>5, <2>6, <2>7 DEF PickOK, Unresolved
  <2>9. BeyondOK(c)
    BY <1>1, <1>3, <2>6 DEF BeyondOK
  <2>10. CallOK(c)
    BY <1>3, <2>4, <2>6, <2>8, <2>9 DEF CallOK, LocalsOK, FoundOK
  <2>11. \A q \in Ids : Locked(c, q) => q = r
    BY <2>4, <2>6 DEF Locked, ForUpdate, NoKeyUpdate, KeyShare
  <2>12. LockedExist(c)
    BY <2>2, <2>11 DEF LockedExist
  <2>13. \A d \in Others(x) : Compatible(c, d)
    BY <2>1, <2>2, <2>4, <2>6, <2>11, Waited
  <2>14. QED
    BY <1>2, <2>1, <2>6, <2>10, <2>12, <2>13, QuietStatement
<1>6. QED
  BY <1>4, <1>5 DEF UpsertPick

------------------------------------------------------------------------------
(* The commits                                                             *)

LEMMA RowUpdated ==
  ASSUME TablesOK, NEW i \in Ids, NEW n \in Incident, Exists(i),
         inc' = [inc EXCEPT ![i] = n],
         n.state # "none", n.origin = inc[i].origin,
         n.state # "resolved" => Unresolved(i),
         n.acked \/ n.origin = "manual" => n.policy = "manual_only",
         cluster' \in [Clusters -> Ids \cup {NoIncident}],
         \A k \in Clusters : cluster'[k] # NoIncident => Exists(cluster'[k])
  PROVE  TablesOK' /\ RowsStay({}) /\ NewComeAfter
<1>1. TypeOK'
  BY DEF TablesOK, TypeOK
<1>2. AckedIsHandedOver'
  BY DEF TablesOK, TypeOK, AckedIsHandedOver
<1>3. \A r \in Ids : /\ Exists(r) <=> Exists(r)'
                     /\ inc'[r].origin = inc[r].origin
                     /\ Unresolved(r)' => Unresolved(r)
  BY DEF TablesOK, TypeOK, Exists, Unresolved
<1>4. ClustersHaveOwners'
  BY <1>3 DEF ClustersHaveOwners
<1>5. RowsStay({})
  BY <1>3 DEF RowsStay
<1>6. \A s \in Series : Gens(s)' = Gens(s)
  BY <1>3 DEF Gens, Ids
<1>7. QED
  BY <1>1, <1>2, <1>4, <1>5, <1>6 DEF TablesOK, NewComeAfter

LEMMA RowOpened ==
  ASSUME TablesOK, NEW i \in Ids, NEW n \in Incident, ~Exists(i),
         inc' = [inc EXCEPT ![i] = n], UNCHANGED cluster,
         n.acked \/ n.origin = "manual" => n.policy = "manual_only"
  PROVE  /\ TablesOK' /\ RowsStay({})
         /\ \A s \in Series : \A h \in Gens(s)' \ Gens(s) : i = <<s, h>> /\ n.origin = "external"
<1>1. TypeOK'
  BY DEF TablesOK, TypeOK
<1>2. AckedIsHandedOver'
  BY DEF TablesOK, TypeOK, AckedIsHandedOver
<1>3. \A r \in Ids \ {i} : inc'[r] = inc[r]
  BY DEF TablesOK, TypeOK
<1>4. \A k \in Clusters : cluster[k] \in Ids \cup {NoIncident}
  BY DEF TablesOK, TypeOK
<1>5. ClustersHaveOwners'
  BY <1>3, <1>4 DEF ClustersHaveOwners, Exists, TablesOK
<1>6. RowsStay({})
  BY <1>3 DEF RowsStay, Exists, Unresolved
<1>7. ASSUME NEW s \in Series, NEW h \in Gens(s)' \ Gens(s)
      PROVE  i = <<s, h>> /\ n.origin = "external"
  <2>1. <<s, h>> \in Ids /\ h \in Generations
    BY <1>7 DEF Gens, Ids
  <2>2. i = <<s, h>>
    BY <1>3, <1>7, <2>1 DEF Gens, Exists
  <2>3. inc'[i] = n
    BY DEF TablesOK, TypeOK
  <2>4. QED
    BY <1>7, <2>2, <2>3 DEF Gens
<1>8. QED
  BY <1>1, <1>2, <1>5, <1>6, <1>7 DEF TablesOK

(* A commit that deletes no row: what is left to see is that it touches    *)
(* nothing the others have locked.                                         *)
LEMMA CommitOfOne ==
  ASSUME PgInv, NEW x \in Calls, Commits(x),
         TablesOK', RowsStay({}), NewComeAfter,
         \A y \in Calls \ {x} : Untouched(call[y], {})
  PROVE  PgInv'
<1>1. [NewCall EXCEPT !.at = "committed"] \in Call
  BY IdleIsOK DEF Ends
<1>2. /\ call' \in [Calls -> Call]
      /\ \A y \in {x} : call'[y] = [NewCall EXCEPT !.at = "committed"]
      /\ \A y \in Calls \ {x} : call'[y] = call[y]
  BY <1>1 DEF Commits, Proceeds, PgInv
<1>3. QED
  BY <1>2, Commit, {x} \in SUBSET Calls, {} \in SUBSET Ids

LEMMA TransitionUpdateStep ==
  ASSUME PgInv, NEW x \in Calls, TransitionUpdate(x)
  PROVE  PgInv'
<1> DEFINE b == call[x]
           i == b.i
           n == Apply(inc[i], b.to, b.by)
<1>1. b \in Call /\ LocalsOK(b) /\ LockedExist(b)
  BY DEF PgInv, CallOK
<1>2. b.at = "update" /\ inc' = [inc EXCEPT ![i] = n] /\ cluster' = cluster
  BY DEF TransitionUpdate
<1>3. /\ i \in Ids /\ b.to \in States /\ b.by \in Actors /\ CanTransition(inc[i].state, b.to)
  BY <1>1, <1>2 DEF LocalsOK, Actors
<1>4. inc[i] \in Incident /\ inc[i].state \in States \cup {"none"}
  BY <1>3 DEF PgInv, TablesOK, TypeOK, Incident
<1>5. b.to \in {"acked", "mitigated", "resolved"} /\ inc[i].state \notin {"none", "resolved"}
  BY <1>3, <1>4, TransitionsLeadOn
<1>6. /\ n \in Incident /\ n.state = b.to /\ n.origin = inc[i].origin
      /\ n.policy = IF b.to = "acked" THEN "manual_only" ELSE inc[i].policy
      /\ n.acked = (inc[i].acked \/ b.to = "acked")
  BY <1>3, <1>4, <1>5 DEF Apply, Incident, States, Actors
<1>7. Exists(i) /\ Unresolved(i)
  BY <1>5 DEF Exists, Unresolved
<1>8. n.acked \/ n.origin = "manual" => n.policy = "manual_only"
  BY <1>3, <1>6 DEF PgInv, TablesOK, AckedIsHandedOver
<1>9. /\ cluster' \in [Clusters -> Ids \cup {NoIncident}]
      /\ \A k \in Clusters : cluster'[k] # NoIncident => Exists(cluster'[k])
  BY <1>2 DEF PgInv, TablesOK, TypeOK, ClustersHaveOwners
<1>10. ASSUME NEW y \in Calls \ {x}
       PROVE  Untouched(call[y], {})
  <2>1. Compatible(b, call[y]) /\ ForUpdate(b, i)
    BY <1>2 DEF PgInv, ForUpdate
  <2>2. ~ForUpdate(call[y], i)
    BY <1>3, <2>1 DEF Compatible
  <2>3. \A r \in Ids \ {i} : inc'[r] = inc[r]
    BY <1>2 DEF PgInv, TablesOK, TypeOK
  <2>4. QED
    BY <1>2, <2>2, <2>3 DEF Untouched
<1>11. TablesOK
  BY DEF PgInv
<1> HIDE DEF n, i, b
<1>12. TablesOK' /\ RowsStay({}) /\ NewComeAfter
  BY <1>2, <1>3, <1>5, <1>6, <1>7, <1>8, <1>9, <1>11, RowUpdated
<1>13. QED
  BY <1>10, <1>12, CommitOfOne DEF TransitionUpdate

LEMMA AttachTouchStep ==
  ASSUME PgInv, NEW x \in Calls, AttachTouch(x)
  PROVE  PgInv'
<1> DEFINE b == call[x]
<1>1. b \in Call /\ LocalsOK(b) /\ FoundOK(b) /\ LockedExist(b) /\ TablesOK
  BY DEF PgInv, CallOK
<1>2. b.at = "touch" /\ inc' = inc /\ cluster' = [cluster EXCEPT ![b.k] = b.i]
  BY DEF AttachTouch
<1>3. b.i \in Ids /\ b.k \in Clusters /\ Exists(b.i) /\ cluster[b.k] = NoIncident
  BY <1>1, <1>2 DEF LocalsOK, FoundOK, LockedExist, Locked, KeyShare
<1>4. \A y \in Calls \ {x} : Compatible(b, call[y])
  BY DEF PgInv
<1> HIDE DEF b
<1>5. TablesOK'
  BY <1>1, <1>2, <1>3 DEF TablesOK, TypeOK, ClustersHaveOwners, AckedIsHandedOver, Exists
<1>6. RowsStay({}) /\ NewComeAfter
  BY <1>2 DEF RowsStay, NewComeAfter, Gens, Exists, Unresolved
<1>7. ASSUME NEW y \in Calls \ {x}
      PROVE  Untouched(call[y], {})
  <2> DEFINE d == call[y]
  <2>1. d \in Call /\ LocalsOK(d) /\ FoundOK(d) /\ Compatible(b, d)
    BY <1>4 DEF PgInv, CallOK
  <2> HIDE DEF d
  <2>2. \A k \in d.moved : k \in Clusters /\ cluster[k] = d.i /\ d.i \in Ids
    BY <2>1 DEF FoundOK, LocalsOK, Call
  <2>3. b.k \notin d.moved
    BY <1>3, <2>2, StoreAssumption
  <2>4. d.at = "touch" => d.k # b.k /\ d.k \in Clusters
    BY <1>2, <2>1 DEF Compatible, LocalsOK
  <2>5. \A k \in Clusters \ {b.k} : cluster'[k] = cluster[k]
    BY <1>1, <1>2 DEF TablesOK, TypeOK
  <2>6. Untouched(d, {})
    BY <1>2, <2>2, <2>3, <2>4, <2>5 DEF Untouched
  <2>7. QED
    BY <2>6 DEF d
<1>8. QED
  BY <1>5, <1>6, <1>7, CommitOfOne DEF AttachTouch

LEMMA MergeMarkStep ==
  ASSUME PgInv, NEW x \in Calls, MergeMark(x)
  PROVE  PgInv'
<1> DEFINE b == call[x]
           i == b.i
           n == [inc[i] EXCEPT !.state = "resolved", !.mergedInto = b.t]
<1>1. b \in Call /\ LocalsOK(b) /\ FoundOK(b) /\ LockedExist(b) /\ TablesOK
  BY DEF PgInv, CallOK
<1>2. /\ b.at = "mark"
      /\ inc' = IF i \in b.gone THEN inc ELSE [inc EXCEPT ![i].state = "resolved", ![i].mergedInto = b.t]
      /\ cluster' = [k \in Clusters |-> IF k \in b.moved THEN b.t ELSE cluster[k]]
  BY DEF MergeMark
<1>3. \A y \in Calls \ {x} : Compatible(b, call[y])
  BY DEF PgInv
<1> HIDE DEF b
<1>4. i \in Ids /\ b.t \in Ids /\ i # b.t /\ b.moved \subseteq Clusters
  BY <1>1, <1>2 DEF LocalsOK, Call
<1>5. b.moved # {} => Exists(b.t)
  BY <1>1, <1>2, <1>4 DEF LockedExist, Locked, KeyShare
<1>6. \A k \in b.moved : cluster[k] = i
  BY <1>1 DEF FoundOK
<1>7. inc' = inc \/ (inc' = [inc EXCEPT ![i] = n] /\ i \notin b.gone)
  BY <1>1, <1>2, <1>4 DEF TablesOK, TypeOK
<1>8. inc[i] \in Incident
  BY <1>1, <1>4 DEF TablesOK, TypeOK
<1>9. /\ n \in Incident /\ n.state = "resolved" /\ n.origin = inc[i].origin
      /\ n.policy = inc[i].policy /\ n.acked = inc[i].acked
  BY <1>4, <1>8 DEF Incident, States
<1> HIDE DEF n, i
<1>10. /\ cluster' \in [Clusters -> Ids \cup {NoIncident}]
       /\ \A k \in Clusters : cluster'[k] # NoIncident => Exists(cluster'[k])
  <2>1. cluster' \in [Clusters -> Ids \cup {NoIncident}]
    BY <1>1, <1>2, <1>4 DEF TablesOK, TypeOK
  <2>2. ASSUME NEW k \in Clusters, cluster'[k] # NoIncident
        PROVE  Exists(cluster'[k])
    <3>1. CASE k \in b.moved
      BY <1>2, <1>5, <3>1 DEF Exists
    <3>2. CASE k \notin b.moved
      BY <1>1, <1>2, <2>2, <3>2 DEF TablesOK, ClustersHaveOwners, Exists
    <3>3. QED
      BY <3>1, <3>2
  <2>3. QED
    BY <2>1, <2>2
<1>11. TablesOK' /\ RowsStay({}) /\ NewComeAfter
  <2>1. CASE inc' = inc
    <3>1. TypeOK' /\ AckedIsHandedOver'
      BY <1>1, <1>10, <2>1 DEF TablesOK, TypeOK, AckedIsHandedOver
    <3>2. ClustersHaveOwners'
      BY <1>10, <2>1 DEF ClustersHaveOwners, Exists
    <3>3. QED
      BY <2>1, <3>1, <3>2 DEF TablesOK, RowsStay, NewComeAfter, Gens, Exists, Unresolved
  <2>2. CASE inc' = [inc EXCEPT ![i] = n] /\ i \notin b.gone
    <3>1. Exists(i)
      BY <1>1, <1>2, <2>2 DEF FoundOK, i
    <3>2. n.acked \/ n.origin = "manual" => n.policy = "manual_only"
      BY <1>1, <1>4, <1>9 DEF TablesOK, AckedIsHandedOver
    <3>3. QED
      BY <1>1, <1>4, <1>9, <1>10, <2>2, <3>1, <3>2, RowUpdated
  <2>3. QED
    BY <1>7, <2>1, <2>2
<1>12. ASSUME NEW y \in Calls \ {x}
       PROVE  Untouched(call[y], {})
  <2> DEFINE d == call[y]
  <2>1. d \in Call /\ LocalsOK(d) /\ FoundOK(d) /\ Compatible(b, d)
    BY <1>3 DEF PgInv, CallOK
  <2>2. \A r \in Ids : ForUpdate(d, r) => inc'[r] = inc[r]
    <3>1. i \notin b.gone => NoKeyUpdate(b, i)
      BY <1>2 DEF NoKeyUpdate, i
    <3>2. i \notin b.gone => ~ForUpdate(d, i)
      BY <1>4, <2>1, <3>1 DEF Compatible
    <3>3. \A r \in Ids \ {i} : inc'[r] = inc[r]
      BY <1>1, <1>7 DEF TablesOK, TypeOK
    <3>4. QED
      BY <1>7, <3>2, <3>3
  <2> HIDE DEF d
  <2>3. \A k \in d.moved : cluster'[k] = cluster[k]
    BY <1>2, <2>1 DEF Compatible, Call
  <2>4. d.at = "touch" => cluster'[d.k] = cluster[d.k]
    <3> SUFFICES ASSUME d.at = "touch" PROVE cluster'[d.k] = cluster[d.k]
      OBVIOUS
    <3>1. d.k \in Clusters /\ cluster[d.k] = NoIncident
      BY <2>1 DEF LocalsOK, FoundOK
    <3>2. d.k \notin b.moved
      BY <1>4, <1>6, <3>1, StoreAssumption
    <3>3. QED
      BY <1>2, <3>1, <3>2
  <2>5. Untouched(d, {})
    BY <2>2, <2>3, <2>4 DEF Untouched
  <2>6. QED
    BY <2>5 DEF d
<1>13. QED
  BY <1>11, <1>12, CommitOfOne DEF MergeMark

LEMMA UpsertInsertStep ==
  ASSUME PgInv, NEW x \in Calls, UpsertInsert(x)
  PROVE  PgInv'
<1> DEFINE b == call[x]
           h == NextGen(b)
           r == <<b.s, h>>
           n == Fresh("external", "auto")
<1>1. b \in Call /\ LocalsOK(b) /\ PickOK(b) /\ TablesOK
  BY DEF PgInv, CallOK
<1>2. b.at = "insert" /\ h \in Generations
  BY DEF UpsertInsert
<1>3. b.s \in Series /\ Upserting(b)
  BY <1>1, <1>2 DEF LocalsOK, Upserting
<1>4. r \in Ids
  BY <1>2, <1>3 DEF Ids
<1>5. CASE /\ ~Exists(r)
           /\ inc' = [inc EXCEPT ![r] = n]
           /\ Commits(x)
           /\ UNCHANGED cluster
  <2>1. n \in Incident /\ n.state = "open" /\ n.origin = "external" /\ ~n.acked
    BY FreshIsIncident DEF Fresh
  <2> HIDE DEF n
  <2>2. h = 1 \/ (h - 1 \in Gens(b.s) /\ ~Unresolved(<<b.s, h - 1>>))
    <3>1. CASE b.i = NoIncident
      BY <3>1 DEF NextGen
    <3>2. CASE b.i # NoIncident
      <4>1. PICK g \in Live(b) : b.i = <<b.s, g>> /\ b.at = IF Unresolved(b.i) THEN "refresh" ELSE "insert"
        BY <1>1, <1>3, <3>2 DEF PickOK
      <4>2. g \in Gens(b.s) /\ g \in Nat
        BY <1>1, <1>3, <4>1 DEF PickOK, Gens, Generations
      <4>3. h = g + 1
        BY <3>2, <4>1 DEF NextGen
      <4>4. ~Unresolved(b.i)
        BY <1>2, <4>1
      <4>5. h - 1 = g
        BY <4>2, <4>3
      <4>6. QED
        BY <4>1, <4>2, <4>4, <4>5 DEF Unresolved
    <3>3. QED
      BY <3>1, <3>2
  <2> HIDE DEF h
  <2>3. /\ TablesOK' /\ RowsStay({})
        /\ \A s \in Series : \A g \in Gens(s)' \ Gens(s) : r = <<s, g>>
    BY <1>1, <1>4, <1>5, <2>1, RowOpened
  <2>4. NewComeAfter
    BY <2>2, <2>3 DEF NewComeAfter
  <2>5. ASSUME NEW y \in Calls \ {x}
        PROVE  Untouched(call[y], {})
    <3>1. ~ForUpdate(call[y], r)
      BY <1>4, <1>5 DEF PgInv, LockedExist, Locked
    <3>2. \A q \in Ids \ {r} : inc'[q] = inc[q]
      BY <1>1, <1>5 DEF TablesOK, TypeOK
    <3>3. QED
      BY <1>5, <3>1, <3>2 DEF Untouched
  <2>6. QED
    BY <1>5, <2>3, <2>4, <2>5, CommitOfOne
<1>6. CASE Proceeds(x, [NewCall EXCEPT !.at = "failed"]) /\ UNCHANGED svars
  BY <1>6, GivesUp DEF Ends
<1>7. CASE /\ b.tries + 1 < Retries
           /\ Proceeds(x, [NewCall EXCEPT !.at = "look", !.s = b.s, !.tries = b.tries + 1])
           /\ UNCHANGED svars
  <2> DEFINE c == [NewCall EXCEPT !.at = "look", !.s = b.s, !.tries = b.tries + 1]
  <2>1. Proceeds(x, c)
    BY <1>7
  <2>2. c.at = "look" /\ c.s = b.s /\ c.moved = {} /\ c.gone = {}
    BY DEF NewCall
  <2>3. b.tries + 1 \in 0..Retries
    BY <1>1, <1>7, PgAssumption DEF Call
  <2>4. c \in Call
    BY <1>3, <2>3, NewCallIsCall DEF Call, Statements
  <2> HIDE DEF c, b
  <2>5. CallOK(c)
    BY <1>3, <2>2, OthersAreNoUpserts DEF CallOK, LocalsOK, FoundOK
  <2>6. QED
    BY <1>7, <2>1, <2>2, <2>4, <2>5, PlainRead
<1>8. QED
  BY <1>5, <1>6, <1>7 DEF UpsertInsert

LEMMA SweepDeleteStep ==
  ASSUME PgInv, NEW x \in Calls, SweepDelete(x)
  PROVE  PgInv'
<1> DEFINE b == call[x]
           i == b.i
<1>1. b \in Call /\ LocalsOK(b) /\ LockedExist(b) /\ TablesOK
  BY DEF PgInv, CallOK
<1>2. /\ b.at = "delete"
      /\ \A d \in Others(x) : \A k \in d.moved : cluster[k] # i
      /\ inc' = [inc EXCEPT ![i] = Absent]
      /\ cluster' = [k \in Clusters |-> IF cluster[k] = i THEN NoIncident ELSE cluster[k]]
  BY DEF SweepDelete
<1>3. i \in Ids
  BY <1>1, <1>2 DEF LocalsOK
<1>4. \A y \in Calls \ {x} : Compatible(b, call[y]) /\ call[y] \in Others(x)
  BY DEF PgInv, Others
<1>5. /\ call'[x] = [NewCall EXCEPT !.at = "committed"]
      /\ \A y \in Calls \ {x} :
           call'[y] = IF Running(y) THEN Hears(call[y], {i}) ELSE call[y]
  BY DEF SweepDelete, Hears
<1>6. call' \in [Calls -> Call]
  <2>1. \A y \in Calls : call[y] \in Call /\ Hears(call[y], {i}) \in Call
    BY <1>3, HearingKeepsLocals DEF PgInv
  <2>2. [NewCall EXCEPT !.at = "committed"] \in Call
    BY IdleIsOK DEF Ends
  <2>3. \A y \in Calls : call'[y] \in Call
    BY <1>5, <2>1, <2>2
  <2>4. call' = [y \in Calls |-> call'[y]]
    BY DEF SweepDelete
  <2>5. QED
    BY <2>3, <2>4
<1> HIDE DEF i
<1> USE AbsentIsIncident
<1>7. \A r \in Ids \ {i} : inc'[r] = inc[r]
  BY <1>1, <1>2 DEF TablesOK, TypeOK
<1>8. inc'[i] = Absent
  BY <1>1, <1>2, <1>3 DEF TablesOK, TypeOK
<1>9. TablesOK'
  <2>1. TypeOK'
    BY <1>1, <1>2 DEF TablesOK, TypeOK
  <2>2. AckedIsHandedOver'
    BY <1>1, <1>7, <1>8 DEF TablesOK, AckedIsHandedOver
  <2>3. \A k \in Clusters : cluster[k] \in Ids \cup {NoIncident}
    BY <1>1 DEF TablesOK, TypeOK
  <2>4. ClustersHaveOwners'
    BY <1>1, <1>2, <1>7, <2>3 DEF TablesOK, ClustersHaveOwners, Exists
  <2>5. QED
    BY <2>1, <2>2, <2>4 DEF TablesOK
<1>10. RowsStay({i}) /\ \A r \in {i} : ~Exists(r)'
  BY <1>7, <1>8 DEF RowsStay, Exists, Unresolved
<1>11. NewComeAfter
  BY <1>7, <1>8 DEF NewComeAfter, Gens, Exists, Ids
<1>12. ASSUME NEW y \in Calls \ {x}
       PROVE  Untouched(call[y], {i})
  <2> DEFINE d == call[y]
  <2>1. d \in Call /\ LocalsOK(d) /\ FoundOK(d) /\ Compatible(b, d) /\ d \in Others(x)
    BY <1>4 DEF PgInv, CallOK
  <2> HIDE DEF d
  <2>2. ForUpdate(b, i)
    BY <1>2 DEF ForUpdate, i
  <2>3. ~Locked(d, i)
    BY <1>3, <2>1, <2>2 DEF Compatible, Locked
  <2>4. \A k \in d.moved : cluster'[k] = cluster[k]
    BY <1>2, <2>1 DEF Call
  <2>5. d.at = "touch" => cluster'[d.k] = cluster[d.k]
    BY <1>2, <2>1 DEF LocalsOK, FoundOK
  <2>6. Untouched(d, {i})
    BY <1>7, <2>3, <2>4, <2>5 DEF Untouched, Locked
  <2>7. QED
    BY <2>6 DEF d
<1>13. QED
  <2>1. {x} \in SUBSET Calls /\ {i} \in SUBSET Ids /\ {i} # {}
    BY <1>3
  <2>2. \A y \in {x} : call'[y] = [NewCall EXCEPT !.at = "committed"]
    BY <1>5
  <2>3. \A y \in Calls \ {x} :
          call'[y] = IF {i} # {} /\ Running(y) THEN Hears(call[y], {i}) ELSE call[y]
    BY <1>5, <2>1
  <2>4. QED
    BY <1>6, <1>9, <1>10, <1>11, <1>12, <2>1, <2>2, <2>3, Commit

LEMMA CreateStep ==
  ASSUME PgInv, NEW i \in Ids, Create(i), UNCHANGED call
  PROVE  PgInv'
<1> DEFINE n == Fresh("manual", "manual_only")
<1>1. n \in Incident /\ n.state = "open" /\ n.origin = "manual" /\ n.policy = "manual_only"
  BY FreshIsIncident DEF Fresh
<1>2. ~Exists(i) /\ inc' = [inc EXCEPT ![i] = n] /\ UNCHANGED cluster
  BY DEF Create
<1>3. TablesOK
  BY DEF PgInv
<1> HIDE DEF n
<1>4. /\ TablesOK' /\ RowsStay({})
      /\ \A s \in Series : \A g \in Gens(s)' \ Gens(s) : n.origin = "external"
  BY <1>1, <1>2, <1>3, RowOpened
<1>5. NewComeAfter
  BY <1>1, <1>4 DEF NewComeAfter
<1>6. ASSUME NEW y \in Calls
      PROVE  Untouched(call[y], {})
  <2>1. ~ForUpdate(call[y], i)
    BY <1>2 DEF PgInv, LockedExist, Locked
  <2>2. \A q \in Ids \ {i} : inc'[q] = inc[q]
    BY <1>2, <1>3 DEF TablesOK, TypeOK
  <2>3. QED
    BY <1>2, <2>1, <2>2 DEF Untouched
<1>7. QED
  <2>1. /\ {} \in SUBSET Calls /\ {} \in SUBSET Ids
        /\ \A y \in {} : call'[y] = [NewCall EXCEPT !.at = "committed"]
        /\ \A y \in Calls \ {} :
             call'[y] = IF {} # {} /\ Running(y) THEN Hears(call[y], {}) ELSE call[y]
        /\ call' \in [Calls -> Call]
        /\ \A r \in {} : ~Exists(r)'
    BY DEF PgInv
  <2>2. \A y \in Calls \ {} : Untouched(call[y], {})
    BY <1>6
  <2>3. QED
    BY <1>4, <1>5, <2>1, <2>2, Commit

------------------------------------------------------------------------------
LEMMA InitPgInv == PgInit => PgInv
<1> SUFFICES ASSUME PgInit PROVE PgInv
  OBVIOUS
<1>1. TablesOK
  BY InitStoreInv DEF PgInit, StoreInv, TablesOK
<1>2. NewCall = [NewCall EXCEPT !.at = "new"]
  BY DEF NewCall
<1>3. NewCall \in Call /\ CallOK(NewCall) /\ LockedExist(NewCall) /\ Compatible(NewCall, NewCall)
  BY <1>2, IdleIsOK DEF LockedExist
<1>4. QED
  BY <1>1, <1>3 DEF PgInit, PgInv

LEMMA NextPgInv == PgInv /\ [PgNext]_pgVars => PgInv'
<1> SUFFICES ASSUME PgInv, [PgNext]_pgVars PROVE PgInv'
  OBVIOUS
<1>1. CASE UNCHANGED pgVars
  <2>1. call' = call /\ UNCHANGED svars
    BY <1>1 DEF pgVars
  <2>2. TablesOK' /\ \A d : CallOK(d)' = CallOK(d) /\ LockedExist(d)' = LockedExist(d)
    BY <2>1, TablesUnchanged DEF PgInv
  <2>3. \A x \in Calls : (CallOK(call[x]) /\ LockedExist(call[x]))'
    BY <2>1, <2>2 DEF PgInv
  <2>4. QED
    BY <2>1, <2>2, <2>3 DEF PgInv
<1>2. CASE \E i \in Ids : Create(i) /\ UNCHANGED call
  BY <1>2, CreateStep
<1>3. ASSUME NEW x \in Calls, Begin(x)
      PROVE  PgInv'
  <2>1. CASE \E i \in Ids, to \in States : TransitionSelect(x, i, to, "human")
    BY <2>1, TransitionSelectStep DEF Actors
  <2>2. CASE \E i \in Ids : TransitionSelect(x, i, "resolved", "system")
    BY <2>2, TransitionSelectStep DEF Actors, States
  <2>3. CASE \E s \in Series : UpsertLook(x, s)
    BY <2>3, UpsertLookStep
  <2>4. CASE \E i \in Ids, k \in Clusters : AttachFind(x, i, k)
    BY <2>4, AttachFindStep
  <2>5. CASE \E i, t \in Ids : MergeSource(x, i, t)
    BY <2>5, MergeSourceStep
  <2>6. CASE \E i \in Ids : SweepSelect(x, i)
    BY <2>6, SweepSelectStep
  <2>7. QED
    BY <1>3, <2>1, <2>2, <2>3, <2>4, <2>5, <2>6 DEF Begin
<1>4. ASSUME NEW x \in Calls, UpsertRefresh(x) \/ Fail(x)
      PROVE  PgInv'
  BY <1>4, GivesUp DEF UpsertRefresh, Commits, Fail, Ends
<1>5. ASSUME NEW x \in Calls, TransitionUpdate(x) \/ Upsert(x) \/ Attach(x) \/ Merge(x)
      PROVE  PgInv'
  BY <1>4, <1>5, TransitionUpdateStep, UpsertPickStep, UpsertInsertStep, AttachOwnerStep,
     AttachLinkStep, AttachTouchStep, MergeTargetStep, MergeMoveStep, MergeCloseStep, MergeMarkStep
  DEF Upsert, Attach, Merge
<1>6. ASSUME NEW x \in Calls, SweepDelete(x)
      PROVE  PgInv'
  BY <1>6, SweepDeleteStep
<1>7. QED
  BY <1>1, <1>2, <1>3, <1>4, <1>5, <1>6 DEF PgNext

LEMMA PgInvHolds == PgSpec => []PgInv
BY InitPgInv, NextPgInv, PTL DEF PgSpec

(* The locks of the calls are compatible and the rows they lock exist,     *)
(* whatever the interleaving.                                              *)
THEOREM PgStoreTypeCorrect == PgSpec => []PgTypeOK
BY PgInvHolds, InvIsPgTyped, PTL

------------------------------------------------------------------------------
(* What each commit does                                                   *)

(* Only the call that takes the step can commit with it.                   *)
LEMMA OnlyTheOneCommits ==
  ASSUME PgInv, NEW x \in Calls, NEW c, Proceeds(x, c), NEW y \in Calls, Committing(y)
  PROVE  y = x /\ c.at = "committed"
BY DEF Proceeds, PgInv, Committing, Running, Ends

LEMMA RefreshKept ==
  ASSUME PgInv, NEW x \in Calls, UpsertRefresh(x), ~Overtaken(call[x])
  PROVE  Promised(call[x])
<1> DEFINE b == call[x]
<1>1. b \in Call /\ PickOK(b) /\ BeyondOK(b)
  BY DEF PgInv, CallOK
<1>2. b.at = "refresh" /\ Upserting(b) /\ UNCHANGED svars
  BY DEF UpsertRefresh, Upserting
<1>3. \A g \in Generations : <<b.s, g>> \notin b.gone
  BY <1>2 DEF Overtaken
<1> HIDE DEF b
<1>4. Live(b) = b.gens /\ b.gens \subseteq Gens(b.s) /\ b.i # NoIncident
  BY <1>1, <1>2, <1>3 DEF Live, PickOK, Call
<1>5. PICK g \in b.gens : b.i = <<b.s, g>> /\ (\A h \in b.gens : h <= g) /\ Unresolved(b.i)
  BY <1>1, <1>2, <1>4 DEF PickOK
<1>6. g \in Generations /\ g \in Gens(b.s) /\ g \in 1..MaxGen /\ IsTop(g, b.gens)
  BY <1>4, <1>5 DEF Gens, Generations, IsTop
<1>7. ~\E h \in Gens(b.s) : h > g
  <2>1. g \in 0..MaxGen /\ g # 0
    BY <1>6, StoreAssumption
  <2>2. \A h \in Gens(b.s) : h > g => ~Unresolved(<<b.s, g>>)
    BY <1>1, <1>2, <1>3, <1>6, <2>1 DEF BeyondOK
  <2>3. QED
    BY <1>5, <2>2 DEF Unresolved
<1>8. Newest(b.s, g)
  <2> SUFFICES ASSUME NEW h \in Gens(b.s) PROVE h <= g
    BY <1>6 DEF Newest
  <2>1. h \in Nat /\ g \in Nat /\ ~(h > g)
    BY <1>6, <1>7, StoreAssumption DEF Gens, Generations
  <2>2. QED
    BY <2>1
<1>9. Refresh(b.s, b.i)
  BY <1>2, <1>5, <1>6, <1>8 DEF Refresh
<1>10. QED
  BY <1>2, <1>9 DEF Promised, b

LEMMA RecurKept ==
  ASSUME PgInv, NEW x \in Calls, UpsertInsert(x), Committing(x), ~Overtaken(call[x])
  PROVE  Promised(call[x])
<1> DEFINE b == call[x]
           n == NextGen(b)
           r == <<b.s, n>>
<1>1. b \in Call /\ LocalsOK(b) /\ PickOK(b) /\ BeyondOK(b)
  BY DEF PgInv, CallOK
<1>2. b.at = "insert" /\ n \in Generations
  BY DEF UpsertInsert
<1>3. /\ ~Exists(r)
      /\ inc' = [inc EXCEPT ![r] = Fresh("external", "auto")]
      /\ UNCHANGED cluster
  <2>1. call'[x].at = "committed"
    BY DEF Committing
  <2>2. \A c : Proceeds(x, c) => c.at = "committed"
    BY OnlyTheOneCommits
  <2>3. ~Proceeds(x, [NewCall EXCEPT !.at = "failed"])
    BY <2>2 DEF NewCall
  <2>4. ~Proceeds(x, [NewCall EXCEPT !.at = "look", !.s = b.s, !.tries = b.tries + 1])
    <3> DEFINE c == [NewCall EXCEPT !.at = "look", !.s = b.s, !.tries = b.tries + 1]
    <3>1. c.at = "look"
      BY DEF NewCall
    <3> HIDE DEF c
    <3>2. ~Proceeds(x, c)
      BY <2>2, <3>1
    <3>3. QED
      BY <3>2 DEF c
  <2>5. QED
    BY <2>3, <2>4 DEF UpsertInsert
<1>4. \A g \in Generations : <<b.s, g>> \notin b.gone
  BY <1>2 DEF Overtaken
<1>5. Upserting(b) /\ b.s \in Series
  BY <1>1, <1>2 DEF Upserting, LocalsOK
<1>6. NextGen(b) = IF b.i = NoIncident THEN 1 ELSE b.i[2] + 1
  BY DEF NextGen
<1>7. Gens(b.s) \subseteq Generations /\ Generations \subseteq Nat /\ MaxGen \in Nat
  BY StoreAssumption DEF Gens, Generations
<1> HIDE DEF b
<1>8. Live(b) = b.gens /\ b.gens \subseteq Gens(b.s)
  BY <1>1, <1>4, <1>5 DEF Live, PickOK, Call
<1>9. n \notin Gens(b.s)
  BY <1>3 DEF Gens
<1>10. CASE b.i = NoIncident
  <2>1. n = 1 /\ b.gens = {}
    BY <1>1, <1>2, <1>5, <1>6, <1>8, <1>10 DEF PickOK
  <2>2. IsTop(0, b.gens) /\ 0 \in 0..MaxGen
    BY <1>7, <2>1 DEF IsTop
  <2>3. \A h \in Gens(b.s) : h > 0 => 0 + 1 \in Gens(b.s)
    BY <1>1, <1>4, <1>5, <2>2 DEF BeyondOK
  <2>4. Gens(b.s) = {}
    BY <1>7, <1>9, <2>1, <2>3 DEF Generations
  <2>5. QED
    BY <1>2, <1>3, <2>1, <2>4 DEF Promised, Recur, b
<1>11. CASE b.i # NoIncident
  <2>1. PICK g \in b.gens : /\ b.i = <<b.s, g>> /\ \A h \in b.gens : h <= g
                            /\ b.at = IF Unresolved(b.i) THEN "refresh" ELSE "insert"
    BY <1>1, <1>5, <1>8, <1>11 DEF PickOK
  <2>2. g \in Gens(b.s) /\ g \in 0..MaxGen /\ g \in Nat /\ IsTop(g, b.gens)
    BY <1>7, <1>8, <2>1 DEF IsTop, Generations
  <2>3. n = g + 1
    BY <1>6, <1>11, <2>1
  <2>4. ~Unresolved(<<b.s, g>>)
    BY <1>2, <2>1 DEF Unresolved
  <2>5. \A h \in Gens(b.s) : h > g => g + 1 \in Gens(b.s)
    BY <1>1, <1>4, <1>5, <2>2 DEF BeyondOK
  <2>6. Newest(b.s, g)
    <3> SUFFICES ASSUME NEW h \in Gens(b.s) PROVE h <= g
      BY <2>2 DEF Newest
    <3>1. h \in Nat /\ ~(h > g)
      BY <1>7, <1>9, <2>3, <2>5
    <3>2. QED
      BY <2>2, <3>1
  <2>7. n - 1 = g
    BY <2>2, <2>3
  <2> HIDE DEF n
  <2>8. \E h \in Generations : /\ <<b.s, n>> = <<b.s, h>>
                               /\ Newest(b.s, h - 1) /\ ~Unresolved(<<b.s, h - 1>>)
    BY <1>2, <2>4, <2>6, <2>7 DEF Newest, Unresolved
  <2>9. Recur(b.s, r)
    BY <1>3, <2>8 DEF Recur
  <2>10. QED
    BY <1>2, <2>9 DEF Promised, b, n
<1>12. QED
  BY <1>10, <1>11

LEMMA MergeKept ==
  ASSUME PgInv, NEW x \in Calls, MergeMark(x), ~Overtaken(call[x])
  PROVE  Promised(call[x])
<1> DEFINE b == call[x]
<1>1. b \in Call /\ LocalsOK(b) /\ FoundOK(b)
  BY DEF PgInv, CallOK
<1>2. /\ b.at = "mark" /\ b.i \notin b.gone /\ b.t \notin b.gone /\ Owned(b) = b.moved
      /\ ~(inc[b.i].mergedInto = b.t /\ inc[b.i].state = "resolved")
  BY DEF MergeMark, Overtaken
<1>3. /\ inc' = [inc EXCEPT ![b.i].state = "resolved", ![b.i].mergedInto = b.t]
      /\ cluster' = [k \in Clusters |-> IF k \in b.moved THEN b.t ELSE cluster[k]]
  BY <1>2 DEF MergeMark
<1>4. b.i # b.t /\ Exists(b.i) /\ Exists(b.t)
  BY <1>1, <1>2 DEF LocalsOK, FoundOK
<1>5. \A k \in Clusters : k \in b.moved <=> cluster[k] = b.i
  BY <1>2 DEF Owned
<1>6. cluster' = MoveClusters(b.i, b.t)
  BY <1>3, <1>5 DEF MoveClusters
<1>7. QED
  BY <1>2, <1>3, <1>4, <1>6 DEF Promised, MergeInto

LEMMA OthersKept ==
  ASSUME PgInv, NEW x \in Calls, TransitionUpdate(x) \/ AttachTouch(x) \/ SweepDelete(x)
  PROVE  Promised(call[x])
<1>1. LocalsOK(call[x]) /\ FoundOK(call[x])
  BY DEF PgInv, CallOK
<1>2. CASE TransitionUpdate(x)
  BY <1>1, <1>2 DEF TransitionUpdate, Promised, Transition, LocalsOK
<1>3. CASE AttachTouch(x)
  BY <1>1, <1>3 DEF AttachTouch, Promised, AttachCluster, FoundOK
<1>4. CASE SweepDelete(x)
  BY <1>1, <1>4 DEF SweepDelete, Promised, Archive, LocalsOK
<1>5. QED
  BY <1>2, <1>3, <1>4

(* What a call promises is a step of the contract.                         *)
LEMMA PromisesAreTheContract ==
  ASSUME PgInv, NEW x \in Calls, Promised(call[x])
  PROVE  Next
<1> DEFINE b == call[x]
<1>1. b \in Call /\ LocalsOK(b) /\ PickOK(b)
  BY DEF PgInv, CallOK
<1>2. CASE b.at = "update" /\ Transition(b.i, b.to, b.by)
  BY <1>1, <1>2 DEF LocalsOK, Next
<1>3. CASE b.at = "refresh" /\ Refresh(b.s, b.i)
  <2>1. b.s \in Series /\ b.i \in Ids
    BY <1>1, <1>3 DEF LocalsOK, Refresh, Ids
  <2>2. QED
    BY <1>3, <2>1 DEF Next, UpsertExternal
<1>4. CASE b.at = "insert" /\ Recur(b.s, <<b.s, NextGen(b)>>)
  <2>1. b.s \in Series /\ <<b.s, NextGen(b)>> \in Ids
    BY <1>1, <1>4 DEF LocalsOK, Recur, Ids
  <2>2. QED
    BY <1>4, <2>1 DEF Next, UpsertExternal
<1>5. CASE b.at = "touch" /\ AttachCluster(b.i, b.k)
  BY <1>1, <1>5 DEF LocalsOK, Next
<1>6. CASE b.at = "mark" /\ MergeInto(b.i, b.t)
  BY <1>1, <1>6 DEF LocalsOK, Next
<1>7. CASE b.at = "delete" /\ Archive(b.i)
  BY <1>1, <1>7 DEF LocalsOK, Next
<1>8. QED
  BY <1>2, <1>3, <1>4, <1>5, <1>6, <1>7 DEF Promised

KeptStep ==
  /\ \A x \in Calls : Committing(x) => Promised(call[x]) \/ Overtaken(call[x])
  /\ \/ \E x \in Calls : Committing(x) /\ Overtaken(call[x])
     \/ Next
     \/ UNCHANGED svars

(* Every statement but the last of a call.                                 *)
LEMMA EarlierStatements ==
  ASSUME PgInv, NEW x \in Calls,
         Begin(x) \/ UpsertPick(x) \/ AttachOwner(x) \/ AttachLink(x) \/ MergeTarget(x)
           \/ MergeMove(x) \/ MergeClose(x) \/ Fail(x)
  PROVE  UNCHANGED svars /\ ~\E y \in Calls : Committing(y)
<1>1. UNCHANGED svars
  BY DEF Begin, TransitionSelect, UpsertLook, AttachFind, MergeSource, SweepSelect, UpsertPick,
         AttachOwner, AttachLink, MergeTarget, MergeMove, MergeClose, Fail
<1>2. ASSUME NEW c, Proceeds(x, c), c.at # "committed"
      PROVE  ~\E y \in Calls : Committing(y)
  BY <1>2, OnlyTheOneCommits
<1>3. PICK b \in Call : b = call[x]
  BY DEF PgInv
<1>4. \E c : Proceeds(x, c) /\ c.at # "committed"
  <2>1. CASE Begin(x)
    <3>1. ASSUME NEW i \in Ids, NEW to, NEW by, TransitionSelect(x, i, to, by)
          PROVE  \E c : Proceeds(x, c) /\ c.at # "committed"
      <4>1. [NewCall EXCEPT !.at = "update", !.i = i, !.to = to, !.by = by].at # "committed"
        BY DEF NewCall
      <4>2. QED
        BY <3>1, <4>1 DEF TransitionSelect
    <3>2. ASSUME NEW s \in Series, UpsertLook(x, s)
          PROVE  \E c : Proceeds(x, c) /\ c.at # "committed"
      <4>1. [NewCall EXCEPT !.at = "pick", !.s = s, !.gens = Gens(s),
                            !.tries = call[x].tries].at # "committed"
        BY DEF NewCall
      <4>2. QED
        BY <3>2, <4>1 DEF UpsertLook
    <3>3. ASSUME NEW i \in Ids, NEW k \in Clusters, AttachFind(x, i, k)
          PROVE  \E c : Proceeds(x, c) /\ c.at # "committed"
      <4>1. [NewCall EXCEPT !.at = "owner", !.i = i, !.k = k].at # "committed"
        BY DEF NewCall
      <4>2. QED
        BY <3>3, <4>1 DEF AttachFind
    <3>4. ASSUME NEW i \in Ids, NEW t \in Ids, MergeSource(x, i, t)
          PROVE  \E c : Proceeds(x, c) /\ c.at # "committed"
      <4>1. [NewCall EXCEPT !.at = "target", !.i = i, !.t = t].at # "committed"
        BY DEF NewCall
      <4>2. QED
        BY <3>4, <4>1 DEF MergeSource
    <3>5. ASSUME NEW i \in Ids, SweepSelect(x, i)
          PROVE  \E c : Proceeds(x, c) /\ c.at # "committed"
      <4>1. [NewCall EXCEPT !.at = "delete", !.i = i].at # "committed"
        BY DEF NewCall
      <4>2. QED
        BY <3>5, <4>1 DEF SweepSelect
    <3>6. QED
      BY <2>1, <3>1, <3>2, <3>3, <3>4, <3>5 DEF Begin
  <2>2. CASE UpsertPick(x)
    <3>1. CASE Proceeds(x, [b EXCEPT !.at = "insert"])
      BY <1>3, <3>1 DEF Call
    <3>2. CASE \E g \in Live(b) :
                 Proceeds(x, [b EXCEPT !.i = <<b.s, g>>,
                                       !.at = IF Unresolved(<<b.s, g>>) THEN "refresh" ELSE "insert"])
      <4>1. PICK a \in {"refresh", "insert"} : \E r : Proceeds(x, [b EXCEPT !.i = r, !.at = a])
        BY <3>2
      <4>2. \A r : [b EXCEPT !.i = r, !.at = a].at # "committed"
        BY <1>3 DEF Call
      <4>3. QED
        BY <4>1, <4>2
    <3>3. QED
      BY <1>3, <2>2, <3>1, <3>2 DEF UpsertPick
  <2>3. CASE AttachOwner(x) \/ AttachLink(x) \/ MergeClose(x)
    <3>1. PICK a \in {"link", "touch", "mark"} : Proceeds(x, [b EXCEPT !.at = a])
      BY <1>3, <2>3 DEF AttachOwner, AttachLink, MergeClose
    <3>2. [b EXCEPT !.at = a].at # "committed"
      BY <1>3 DEF Call
    <3>3. QED
      BY <3>1, <3>2
  <2>4. CASE MergeTarget(x)
    <3>1. [b EXCEPT !.at = "move", !.gone = @ \ {b.t}].at # "committed"
      BY <1>3 DEF Call
    <3>2. QED
      BY <1>3, <2>4, <3>1 DEF MergeTarget
  <2>5. CASE MergeMove(x)
    <3>1. [b EXCEPT !.at = "close", !.moved = Owned(b)].at # "committed"
      BY <1>3 DEF Call
    <3>2. QED
      BY <1>3, <2>5, <3>1 DEF MergeMove
  <2>6. CASE Fail(x)
    BY <2>6 DEF Fail, NewCall
  <2>7. QED
    BY <2>1, <2>2, <2>3, <2>4, <2>5, <2>6
<1>5. QED
  BY <1>1, <1>2, <1>4

(* The last one.                                                           *)
LEMMA LastStatement ==
  ASSUME PgInv, NEW x \in Calls,
         \A y \in Calls : Committing(y) => y = x,
         Committing(x) => Promised(call[x]) \/ Overtaken(call[x]),
         Committing(x) \/ UNCHANGED svars
  PROVE  KeptStep
<1>1. CASE Committing(x) /\ Promised(call[x])
  BY <1>1, PromisesAreTheContract DEF KeptStep
<1>2. CASE Committing(x) /\ Overtaken(call[x])
  BY <1>2 DEF KeptStep
<1>3. CASE ~Committing(x)
  BY <1>3 DEF KeptStep
<1>4. QED
  BY <1>1, <1>2, <1>3

LEMMA PgNextKeeps == PgInv /\ [PgNext]_pgVars => KeptStep
<1> SUFFICES ASSUME PgInv, [PgNext]_pgVars PROVE KeptStep
  OBVIOUS
<1>1. CASE call' = call /\ (Next \/ UNCHANGED svars)
  BY <1>1 DEF KeptStep, Committing, Running, Ends
<1>2. CASE UNCHANGED pgVars \/ \E i \in Ids : Create(i) /\ UNCHANGED call
  BY <1>1, <1>2 DEF pgVars, Next
<1>3. ASSUME NEW x \in Calls,
             Begin(x) \/ UpsertPick(x) \/ AttachOwner(x) \/ AttachLink(x) \/ MergeTarget(x)
               \/ MergeMove(x) \/ MergeClose(x) \/ Fail(x)
      PROVE  KeptStep
  BY <1>3, EarlierStatements DEF KeptStep
<1>4. ASSUME NEW x \in Calls,
             TransitionUpdate(x) \/ UpsertRefresh(x) \/ AttachTouch(x) \/ MergeMark(x)
      PROVE  KeptStep
  <2>1. Commits(x) /\ call[x].at \notin {"new"} \cup Ends
    BY <1>4 DEF TransitionUpdate, UpsertRefresh, AttachTouch, MergeMark, Ends
  <2>2. \A y \in Calls : Committing(y) => y = x
    BY <2>1, OnlyTheOneCommits DEF Commits
  <2>3. Committing(x)
    BY <2>1 DEF Commits, Proceeds, PgInv, Committing, Running, NewCall
  <2>4. Promised(call[x]) \/ Overtaken(call[x])
    BY <1>4, RefreshKept, MergeKept, OthersKept
  <2>5. QED
    BY <2>2, <2>3, <2>4, LastStatement
<1>5. ASSUME NEW x \in Calls, UpsertInsert(x)
      PROVE  KeptStep
  <2>1. PICK c : Proceeds(x, c)
    BY <1>5 DEF UpsertInsert, Commits
  <2>2. \A y \in Calls : Committing(y) => y = x
    BY <2>1, OnlyTheOneCommits
  <2>3. Committing(x) \/ UNCHANGED svars
    <3>1. CASE Commits(x)
      BY <1>5, <3>1 DEF UpsertInsert, Commits, Proceeds, PgInv, Committing, Running, NewCall, Ends
    <3>2. CASE ~Commits(x)
      BY <1>5, <3>2 DEF UpsertInsert
    <3>3. QED
      BY <3>1, <3>2
  <2>4. Committing(x) => Promised(call[x]) \/ Overtaken(call[x])
    BY <1>5, RecurKept
  <2>5. QED
    BY <2>2, <2>3, <2>4, LastStatement
<1>6. ASSUME NEW x \in Calls, SweepDelete(x)
      PROVE  KeptStep
  <2>1. \A y \in Calls \ {x} : call'[y] = Hears(call[y], {call[x].i}) \/ call'[y] = call[y]
    BY <1>6 DEF SweepDelete, Hears
  <2>2. \A y \in Calls \ {x} : call'[y].at = call[y].at
    BY <2>1 DEF Hears, PgInv, Call
  <2>3. \A y \in Calls : Committing(y) => y = x
    BY <2>2 DEF Committing, Running, Ends
  <2>4. Committing(x)
    BY <1>6 DEF SweepDelete, Committing, Running, Ends, NewCall
  <2>5. QED
    BY <1>6, <2>3, <2>4, OthersKept, LastStatement
<1>7. QED
  BY <1>2, <1>3, <1>4, <1>5, <1>6 DEF PgNext, Upsert, Attach, Merge

(* The PostgreSQL store keeps the contract at every commit that was not    *)
(* overtaken, whatever the interleaving.                                   *)
THEOREM PgStoreKeepsContract == PgSpec => CommitsKeepTheContract
<1>1. PgSpec => [][KeptStep]_pgVars
  BY PgInvHolds, PgNextKeeps, PTL DEF PgSpec
<1>2. QED
  BY <1>1 DEF KeptStep, CommitsKeepTheContract

NotOvertaken == \A x \in Calls : Committing(x) => ~Overtaken(call[x])

(* As long as no call is overtaken, it implements the contract: whatever   *)
(* is true of the contract's store is then true of this one.               *)
THEOREM PgStoreImplementsContract == PgSpec /\ [][NotOvertaken]_pgVars => Spec
<1>1. PgInit => Init
  BY DEF PgInit
<1>2. ASSUME KeptStep, [NotOvertaken]_pgVars
      PROVE  [Next]_svars
  BY <1>2 DEF KeptStep, NotOvertaken, pgVars
<1>3. QED
  BY <1>1, <1>2, PgInvHolds, PgNextKeeps, PTL DEF PgSpec, Spec

(* In particular only the newest generation of an alert can be unresolved, *)
(* and a merge leaves no cluster with its source.                          *)
THEOREM PgNewestGenerationActive ==
  PgSpec /\ [][NotOvertaken]_pgVars => []OnlyNewestActive /\ MergeEmptiesSource
BY PgStoreImplementsContract, NewestGenerationActive, MergeTakesClusters, PTL

------------------------------------------------------------------------------
(* What no call, overtaken or not, can break                               *)

(* Whatever the interleaving, an acked incident stays out of reach of the  *)
(* automatic close.                                                        *)
THEOREM PgAckedStaysHandedOver == PgSpec => []AckedIsHandedOver
BY PgInvHolds, PTL DEF PgInv, TablesOK

(* Nor does a cluster point at an incident that was archived meanwhile.    *)
THEOREM PgClustersKeepOwners == PgSpec => []ClustersHaveOwners
BY PgInvHolds, PTL DEF PgInv, TablesOK

LEMMA RowLives ==
  ASSUME TypeOK, NEW i \in Ids, NEW n, inc' = [inc EXCEPT ![i] = n],
         inc[i].state = "resolved" => n.state \in {"resolved", "none"},
         Unresolved(i) => n.state # "none"
  PROVE  LifecycleStep
BY DEF TypeOK, LifecycleStep, Exists, Unresolved

LEMMA PgNextLifecycle == PgInv /\ [PgNext]_pgVars => LifecycleStep
<1> SUFFICES ASSUME PgInv, [PgNext]_pgVars PROVE LifecycleStep
  OBVIOUS
<1>1. TypeOK
  BY DEF PgInv, TablesOK
<1>2. CASE UNCHANGED inc
  BY <1>2 DEF LifecycleStep, Exists, Unresolved
<1>3. CASE \E i \in Ids : Create(i)
  BY <1>1, <1>3, RowLives DEF Create, Exists, Unresolved
<1>4. ASSUME NEW x \in Calls, TransitionUpdate(x)
      PROVE  LifecycleStep
  <2> DEFINE b == call[x]
             n == Apply(inc[b.i], b.to, b.by)
  <2>1. b.at = "update" /\ inc' = [inc EXCEPT ![b.i] = n] /\ LocalsOK(b)
    BY <1>4 DEF TransitionUpdate, PgInv, CallOK
  <2>2. b.i \in Ids /\ inc[b.i] \in Incident /\ CanTransition(inc[b.i].state, b.to)
    BY <1>1, <2>1 DEF LocalsOK, TypeOK
  <2>3. n.state = b.to
    BY <2>2 DEF Apply, Incident
  <2>4. b.to \in {"acked", "mitigated", "resolved"} /\ inc[b.i].state \notin {"none", "resolved"}
    BY <2>2, TransitionsLeadOn DEF Incident
  <2> HIDE DEF n, b
  <2>5. QED
    BY <1>1, <2>1, <2>2, <2>3, <2>4, RowLives
<1>5. ASSUME NEW x \in Calls, UpsertInsert(x)
      PROVE  LifecycleStep
  <2> DEFINE r == <<call[x].s, NextGen(call[x])>>
  <2>1. UNCHANGED inc \/ (~Exists(r) /\ inc' = [inc EXCEPT ![r] = Fresh("external", "auto")])
    BY <1>5 DEF UpsertInsert, svars
  <2>2. r \in Ids
    BY <1>5 DEF UpsertInsert, PgInv, CallOK, LocalsOK, Ids
  <2> HIDE DEF r
  <2>3. QED
    BY <1>1, <1>2, <2>1, <2>2, RowLives DEF Exists, Unresolved
<1>6. ASSUME NEW x \in Calls, MergeMark(x)
      PROVE  LifecycleStep
  <2> DEFINE i == call[x].i
             n == [inc[i] EXCEPT !.state = "resolved", !.mergedInto = call[x].t]
  <2>1. i \in Ids
    BY <1>6 DEF MergeMark, PgInv, CallOK, LocalsOK
  <2>2. UNCHANGED inc \/ inc' = [inc EXCEPT ![i] = n]
    BY <1>1, <1>6, <2>1 DEF MergeMark, TypeOK
  <2>3. n.state = "resolved"
    BY <1>1, <2>1 DEF TypeOK, Incident
  <2> HIDE DEF n, i
  <2>4. QED
    BY <1>1, <1>2, <2>1, <2>2, <2>3, RowLives
<1>7. ASSUME NEW x \in Calls, SweepDelete(x)
      PROVE  LifecycleStep
  <2>1. LocalsOK(call[x]) /\ call[x].at = "delete" /\ inc' = [inc EXCEPT ![call[x].i] = Absent]
    BY <1>7 DEF SweepDelete, PgInv, CallOK
  <2>2. call[x].i \in Ids /\ inc[call[x].i].state = "resolved"
    BY <2>1 DEF LocalsOK
  <2>3. QED
    BY <1>1, <2>1, <2>2, AbsentIsIncident, RowLives DEF Unresolved
<1>8. ASSUME NEW x \in Calls,
             \/ Begin(x) \/ UpsertPick(x) \/ AttachOwner(x) \/ AttachLink(x) \/ MergeTarget(x)
                \/ MergeMove(x) \/ MergeClose(x) \/ Fail(x)
             \/ UpsertRefresh(x) \/ AttachTouch(x)
      PROVE  LifecycleStep
  BY <1>2, <1>8, EarlierStatements DEF UpsertRefresh, AttachTouch, svars
<1>9. QED
  BY <1>2, <1>3, <1>4, <1>5, <1>6, <1>7, <1>8
  DEF PgNext, Upsert, Attach, Merge, pgVars, svars

(* A resolved incident is not reopened in place, nor does an unresolved    *)
(* one disappear, in any interleaving.                                     *)
THEOREM PgResolvedStaysResolved == PgSpec => Lifecycle
<1>1. PgSpec => [][LifecycleStep]_pgVars
  BY PgInvHolds, PgNextLifecycle, PTL DEF PgSpec
<1>2. [LifecycleStep]_pgVars => [LifecycleStep]_svars
  BY DEF pgVars
<1>3. PgSpec => [][LifecycleStep]_svars
  BY <1>1, <1>2, PTL
<1>4. QED
  BY <1>3 DEF LifecycleStep, Lifecycle
==============================================================================
