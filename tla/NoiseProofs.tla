----------------------------- MODULE NoiseProofs ------------------------------
(***************************************************************************)
(* Proofs about the noise engine: the queue of its verdicts, the index of  *)
(* its clusters, their persistence, and what becomes of the verdicts at the*)
(* exit of the engine, for any number of callers, instances, fingerprints  *)
(* and clusters and any sizes.                                             *)
(***************************************************************************)
EXTENDS VerdictQueue, NoiseClusters, ClusterPersistence, EnforceExit, DataLemmas

------------------------------------------------------------------------------
(* VerdictQueue: a push that could still reach the channel holds the read  *)
(* lock, so none is under way once the flag is set, and the writer drains  *)
(* only after that.                                                        *)

(* The writer drains only after the done channel was closed.               *)
DrainIsLate == writer \in {"drain", "drainflush", "finished"} => flag = "done"

(* No push is past its look at the flag once the flag is set.              *)
StoppedIsQuiet == flag # "open" => \A p \in Pushers : pushing[p] = "idle"

(* The batch is never left empty in the middle of a flush.                 *)
FlushHasWork == writer \in {"flush", "drainflush"} => gathered > 0

(* The writer finishes only with nothing in its hands.                     *)
FinishedIsEmpty == writer = "finished" => channel = 0 /\ gathered = 0

(* A writer between two receives of its drain has room in its batch.       *)
BatchHasRoom == writer \in {"loop", "drain"} => gathered < BatchSize

VerdictInv ==
  /\ VerdictTypeOK /\ DrainIsLate /\ StoppedIsQuiet
  /\ FlushHasWork /\ FinishedIsEmpty /\ BatchHasRoom

LEMMA VerdictInvInit == VerdictInit => VerdictInv
BY VerdictAssumption
DEF VerdictInit, VerdictInv, VerdictTypeOK, DrainIsLate, StoppedIsQuiet, FlushHasWork,
    FinishedIsEmpty, BatchHasRoom

LEMMA VerdictInvPreserved == VerdictInv /\ [VerdictNext]_verdictVars => VerdictInv'
<1> SUFFICES ASSUME VerdictInv, [VerdictNext]_verdictVars PROVE VerdictInv'
  OBVIOUS
<1> USE VerdictAssumption
    DEF VerdictInv, VerdictTypeOK, DrainIsLate, StoppedIsQuiet, FlushHasWork,
        FinishedIsEmpty, BatchHasRoom
<1>1. ASSUME NEW p \in Pushers, BeginPush(p) PROVE VerdictInv'
  BY <1>1 DEF BeginPush
<1>2. ASSUME NEW p \in Pushers, SendVerdict(p) PROVE VerdictInv'
  BY <1>2 DEF SendVerdict
<1>3. CASE Gather
  BY <1>3 DEF Gather, WriterGoes
<1>4. CASE Tick
  BY <1>4 DEF Tick, WriterGoes
<1>5. CASE NoticeDone
  BY <1>5 DEF NoticeDone, WriterGoes
<1>6. CASE Drain
  BY <1>6 DEF Drain, WriterGoes
<1>7. CASE Flush
  <2>1. CASE sink = "attached"
    BY <1>7, <2>1 DEF Flush
  <2>2. CASE sink = "detached"
    BY <1>7, <2>2 DEF Flush
  <2> QED BY <2>1, <2>2
<1>8. CASE SetStopped
  BY <1>8 DEF SetStopped, countVars
<1>9. CASE CloseDone
  BY <1>9 DEF CloseDone, countVars
<1>10. CASE StopReturns
  BY <1>10 DEF StopReturns, queueVars
<1>11. CASE StopAgain \/ ProcessExits \/ Reattach
  BY <1>11 DEF StopAgain, ProcessExits, Reattach, queueVars, countVars
<1>12. CASE UNCHANGED verdictVars
  BY <1>12 DEF verdictVars, queueVars, countVars
<1> QED
  BY <1>1, <1>2, <1>3, <1>4, <1>5, <1>6, <1>7, <1>8, <1>9, <1>10, <1>11, <1>12
  DEF VerdictNext

(* Type correctness: the channel and the batch stay within their sizes.    *)
THEOREM VerdictTypeCorrect == VerdictSpec => []VerdictTypeOK
<1>1. VerdictInv => VerdictTypeOK BY DEF VerdictInv
<1> QED BY <1>1, VerdictInvInit, VerdictInvPreserved, PTL DEF VerdictSpec

(* When the writer has finished, no verdict is left behind: none in the    *)
(* channel, none in the batch and none in the hands of a caller.           *)
THEOREM NothingIsStranded == VerdictSpec => []NothingStranded
<1>1. VerdictInv => NothingStranded
  BY DEF VerdictInv, VerdictTypeOK, DrainIsLate, StoppedIsQuiet, FinishedIsEmpty,
         NothingStranded, Sending
<1> QED BY <1>1, VerdictInvInit, VerdictInvPreserved, PTL DEF VerdictSpec

------------------------------------------------------------------------------
(* NoiseClusters                                                           *)

(* The keys, clusters and index of a state of the clusterer are what they  *)
(* should be, ...                                                          *)
EngineTyped(s) ==
  /\ s = [active |-> s.active, resolved |-> s.resolved, byFp |-> s.byFp]
  /\ DOMAIN s.active \subseteq Keys /\ DOMAIN s.resolved \subseteq Keys
  /\ \A k \in DOMAIN s.active : s.active[k] \in Clusters /\ s.active[k].state # "resolved"
  /\ \A k \in DOMAIN s.resolved : s.resolved[k] \in Clusters /\ s.resolved[k].state = "resolved"
  /\ DOMAIN s.byFp \subseteq Fps /\ \A f \in DOMAIN s.byFp : s.byFp[f] \in Keys

(* ... its index is exact, ...                                             *)
EngineIndexed(s) ==
  /\ \A f \in DOMAIN s.byFp : s.byFp[f] \in DOMAIN s.active /\ f \in s.active[s.byFp[f]].fps
  /\ \A k \in DOMAIN s.active : \A f \in s.active[k].fps : f \in DOMAIN s.byFp /\ s.byFp[f] = k

(* ... and an active cluster has the fingerprint it was opened with, so    *)
(* none of its own key can be opened beside it.                            *)
KeysAreMembers(s) == \A k \in DOMAIN s.active : k[1] \in s.active[k].fps

(* c: the index is known to be exact.                                      *)
EngineOK(s, c) == EngineTyped(s) /\ KeysAreMembers(s) /\ (c => EngineIndexed(s))

LEMMA WithoutIsRestricted ==
  ASSUME NEW f, NEW S
  PROVE  /\ DOMAIN Without(f, S) = DOMAIN f \ S
         /\ \A x \in DOMAIN f \ S : Without(f, S)[x] = f[x]
BY DEF Without, Restrict

(* Active clusters leave together with what the index has of them.         *)
LEMMA DropKeeps ==
  ASSUME NEW s, NEW c, EngineOK(s, c), NEW old, old \subseteq DOMAIN s.active,
         NEW m, DOMAIN m \subseteq Keys,
         \A k \in DOMAIN m : m[k] \in Clusters /\ m[k].state = "resolved"
  PROVE  EngineOK([active |-> Without(s.active, old), resolved |-> m, byFp |-> Unindexed(s, old)], c)
<1> DEFINE a == Without(s.active, old)
           x == UNION {Indexed(s.byFp, k, s.active[k]) : k \in old}
           b == Without(s.byFp, x)
           t == [active |-> a, resolved |-> m, byFp |-> b]
<1>1. Unindexed(s, old) = b
  BY DEF Unindexed
<1>2. t.active = a /\ t.resolved = m /\ t.byFp = b
  OBVIOUS
<1>4. /\ DOMAIN a = DOMAIN s.active \ old
      /\ \A k \in DOMAIN s.active \ old : a[k] = s.active[k]
      /\ DOMAIN b = DOMAIN s.byFp \ x
      /\ \A f \in DOMAIN s.byFp \ x : b[f] = s.byFp[f]
  BY WithoutIsRestricted
<1>6. \A f : f \in x <=> \E k \in old : f \in s.active[k].fps /\ f \in DOMAIN s.byFp /\ s.byFp[f] = k
  BY DEF Indexed
<1>0. t = [active |-> t.active, resolved |-> t.resolved, byFp |-> t.byFp]
  BY <1>2
<1> HIDE DEF a, x, b, t
<1>7. EngineTyped(t)
  <2>1. DOMAIN t.active \subseteq Keys /\ DOMAIN t.resolved \subseteq Keys
    BY <1>2, <1>4 DEF EngineOK, EngineTyped
  <2>2. \A k \in DOMAIN t.active : t.active[k] \in Clusters /\ t.active[k].state # "resolved"
    BY <1>2, <1>4 DEF EngineOK, EngineTyped
  <2>3. \A k \in DOMAIN t.resolved : t.resolved[k] \in Clusters /\ t.resolved[k].state = "resolved"
    BY <1>2
  <2>4. DOMAIN t.byFp \subseteq Fps /\ \A f \in DOMAIN t.byFp : t.byFp[f] \in Keys
    BY <1>2, <1>4 DEF EngineOK, EngineTyped
  <2> QED BY <1>0, <2>1, <2>2, <2>3, <2>4 DEF EngineTyped
<1>8. ASSUME c PROVE EngineIndexed(t)
  <2>1. ASSUME NEW f \in DOMAIN b PROVE b[f] \in DOMAIN a /\ f \in a[b[f]].fps
    BY <1>4, <1>6, <1>8 DEF EngineOK, EngineIndexed
  <2>2. ASSUME NEW k \in DOMAIN a, NEW f \in a[k].fps PROVE f \in DOMAIN b /\ b[f] = k
    BY <1>4, <1>6, <1>8 DEF EngineOK, EngineIndexed
  <2> QED BY <1>2, <2>1, <2>2 DEF EngineIndexed
<1>9. KeysAreMembers(t)
  BY <1>2, <1>4 DEF EngineOK, KeysAreMembers
<1>10. EngineOK(t, c)
  BY <1>7, <1>8, <1>9 DEF EngineOK
<1>11. t = [active |-> Without(s.active, old), resolved |-> m, byFp |-> Unindexed(s, old)]
  BY <1>1 DEF t, a
<1> QED BY <1>10, <1>11

LEMMA EvictKeeps ==
  ASSUME NEW s, NEW c, EngineOK(s, c), NEW V PROVE EngineOK(Evict(s, V), c)
<1> DEFINE old == {k \in DOMAIN s.active : <<"active", k>> \in V}
           gone == {k \in DOMAIN s.resolved : <<"resolved", k>> \in V}
           m == Without(s.resolved, gone)
<1>1. old \subseteq DOMAIN s.active OBVIOUS
<1>2. Evict(s, V) = [active |-> Without(s.active, old), resolved |-> m, byFp |-> Unindexed(s, old)]
  BY DEF Evict
<1> HIDE DEF old, gone
<1>3. DOMAIN m \subseteq DOMAIN s.resolved /\ \A k \in DOMAIN m : m[k] = s.resolved[k]
  <2>1. DOMAIN m = DOMAIN s.resolved \ gone /\ \A k \in DOMAIN s.resolved \ gone : m[k] = s.resolved[k]
    BY WithoutIsRestricted
  <2> QED BY <2>1
<1> HIDE DEF m
<1>4. DOMAIN m \subseteq Keys /\ \A k \in DOMAIN m : m[k] \in Clusters /\ m[k].state = "resolved"
  BY <1>3 DEF EngineOK, EngineTyped
<1> QED BY <1>1, <1>2, <1>4, DropKeeps

LEMMA SweepKeeps ==
  ASSUME NEW s, NEW c, EngineOK(s, c), NEW now \in Times PROVE EngineOK(Sweep(s, now), c)
<1> DEFINE old == {k \in DOMAIN s.active : s.active[k].last + Window <= now}
           closed == [k \in old |-> [s.active[k] EXCEPT !.state = "resolved"]]
           r == [k \in DOMAIN s.resolved \cup old |-> IF k \in old THEN closed[k] ELSE s.resolved[k]]
<1>1. Sweep(s, now) = [active |-> Without(s.active, old), resolved |-> r, byFp |-> Unindexed(s, old)]
  BY DEF Sweep
<1>2. old \subseteq DOMAIN s.active
  OBVIOUS
<1>3. /\ DOMAIN r = DOMAIN s.resolved \cup old
      /\ \A k \in old : r[k] \in Clusters /\ r[k].state = "resolved"
      /\ \A k \in DOMAIN s.resolved \ old : r[k] = s.resolved[k]
  BY <1>2 DEF EngineOK, EngineTyped, Clusters
<1> HIDE DEF old, closed, r
<1>4. DOMAIN r \subseteq Keys /\ \A k \in DOMAIN r : r[k] \in Clusters /\ r[k].state = "resolved"
  BY <1>2, <1>3 DEF EngineOK, EngineTyped
<1> QED BY <1>1, <1>2, <1>4, DropKeeps

(* The nearest of some active clusters is one of them.                     *)
LEMMA NearestIsOne ==
  ASSUME NEW s, EngineTyped(s), NEW ks, ks \subseteq DOMAIN s.active, ks # {}
  PROVE  Nearest(s, ks) \in ks
<1> DEFINE L == {s.active[k].last : k \in ks}
<1>1. \A k \in ks : s.active[k].last \in Times /\ k \in Keys
  BY DEF EngineTyped, Clusters
<1>2. \A k \in ks : k[1] \in Nat /\ k[2] \in Nat
  <2> DEFINE W == 0..(MaxTime \div Window)
  <2>1. W \subseteq Nat OBVIOUS
  <2>2. Keys = Fps \X W /\ Fps \subseteq Nat BY ClusterAssumption DEF Keys
  <2> HIDE DEF W, L
  <2>3. ASSUME NEW k \in ks PROVE k[1] \in Nat /\ k[2] \in Nat
    <3>1. k \in Fps \X W BY <1>1, <2>2
    <3> QED BY <3>1, <2>1, <2>2
  <2> QED BY <2>3
<1>3. PICK l \in L : \A m \in L : m <= l
  <2>1. L \subseteq Nat /\ L # {} /\ \A m \in L : m <= MaxTime
    BY <1>1 DEF Times
  <2>2. MaxTime \in Nat BY ClusterAssumption
  <2> HIDE DEF L
  <2> QED BY <2>1, <2>2, LargestNumber
<1> DEFINE K1 == {k[1] : k \in {i \in ks : s.active[i].last = l}}
<1>4. PICK p \in K1 : \A q \in K1 : p <= q
  <2>1. K1 \subseteq Nat BY <1>2
  <2>2. K1 # {}
    <3>1. PICK k \in ks : s.active[k].last = l BY <1>3
    <3> QED BY <3>1
  <2> HIDE DEF K1
  <2> QED BY <2>1, <2>2, SmallestNumber
<1> DEFINE K2 == {k[2] : k \in {i \in ks : s.active[i].last = l /\ i[1] = p}}
<1>5. PICK q \in K2 : \A r \in K2 : q <= r
  <2>1. K2 \subseteq Nat BY <1>2
  <2>2. K2 # {}
    <3>1. PICK k \in ks : s.active[k].last = l /\ k[1] = p BY <1>4
    <3> QED BY <3>1
  <2> HIDE DEF K2
  <2> QED BY <2>1, <2>2, SmallestNumber
<1>6. PICK k \in ks : s.active[k].last = l /\ k[1] = p /\ k[2] = q
  BY <1>5
<1>7. ASSUME NEW j \in ks
      PROVE  \/ s.active[k].last > s.active[j].last
             \/ s.active[k].last = s.active[j].last /\ Older(s.active, k, j)
  <2>1. s.active[j].last \in L /\ s.active[j].last <= l BY <1>3
  <2>2. s.active[j].last \in Nat /\ l \in Nat BY <1>1, <1>6 DEF Times
  <2>3. CASE s.active[j].last # l BY <1>6, <2>1, <2>2, <2>3
  <2>4. CASE s.active[j].last = l
    <3>1. j[1] \in K1 /\ p <= j[1] BY <1>4, <2>4
    <3>2. p \in Nat /\ j[1] \in Nat /\ q \in Nat /\ j[2] \in Nat BY <1>2, <1>6
    <3>3. CASE j[1] # p
      <4>1. k[1] < j[1] BY <1>6, <3>1, <3>2, <3>3
      <4> QED BY <4>1, <2>4, <1>6 DEF Older
    <3>4. CASE j[1] = p
      <4>1. j[2] \in K2 /\ q <= j[2] BY <1>5, <2>4, <3>4
      <4>2. k[2] <= j[2] BY <4>1, <1>6
      <4> QED BY <4>2, <2>4, <3>4, <1>6 DEF Older
    <3> QED BY <3>3, <3>4
  <2> QED BY <2>3, <2>4
<1> QED BY <1>7 DEF Nearest

(* An alert joins a cluster that has it, or that it is not yet indexed of. *)
LEMMA AbsorbKeeps ==
  ASSUME NEW s, NEW c, EngineOK(s, c), NEW k \in DOMAIN s.active, NEW f \in Fps, NEW at \in Times,
         NEW domain, f \in DOMAIN s.byFp => s.byFp[f] = k
  PROVE  EngineOK(Absorb(s, k, f, at, domain), c)
<1> DEFINE cl == [s.active[k] EXCEPT !.last = at, !.fps = @ \cup {f}, !.nodes = @ \cup ({f} \cap domain)]
           m == [s.active EXCEPT ![k] = cl]
           b == [g \in DOMAIN s.byFp \cup {f} |-> IF g = f THEN k ELSE s.byFp[g]]
           t == [active |-> m, resolved |-> s.resolved, byFp |-> b]
<1>1. /\ EngineTyped(s) /\ KeysAreMembers(s)
      /\ k \in Keys
  BY DEF EngineOK, EngineTyped
<1>2. Absorb(s, k, f, at, domain) = t
  <2>1. s = [active |-> s.active, resolved |-> s.resolved, byFp |-> s.byFp]
    BY <1>1 DEF EngineTyped
  <2>2. s.active[k] \in Clusters BY <1>1 DEF EngineTyped
  <2>3. m = [s.active EXCEPT ![k].last = at, ![k].fps = @ \cup {f}, ![k].nodes = @ \cup ({f} \cap domain)]
    BY <2>2 DEF Clusters
  <2>4. Absorb(s, k, f, at, domain) = [s EXCEPT !.active = m, !.byFp = b]
    BY <2>1, <2>3 DEF Absorb
  <2> HIDE DEF m, b
  <2> QED BY <2>1, <2>4
<1>3. /\ cl \in Clusters /\ cl.state # "resolved" /\ cl.fps = s.active[k].fps \cup {f}
  BY <1>1 DEF EngineTyped, Clusters
<1>4. /\ DOMAIN m = DOMAIN s.active /\ m[k] = cl
      /\ \A j \in DOMAIN s.active \ {k} : m[j] = s.active[j]
  OBVIOUS
<1>5. /\ DOMAIN b = DOMAIN s.byFp \cup {f} /\ b[f] = k
      /\ \A g \in DOMAIN s.byFp \ {f} : b[g] = s.byFp[g]
  OBVIOUS
<1>6. /\ t.active = m /\ t.resolved = s.resolved /\ t.byFp = b
      /\ t = [active |-> t.active, resolved |-> t.resolved, byFp |-> t.byFp]
  OBVIOUS
<1> HIDE DEF cl, m, b, t
<1>7. EngineTyped(t)
  BY <1>1, <1>3, <1>4, <1>5, <1>6 DEF EngineTyped
<1>8. ASSUME c PROVE EngineIndexed(t)
  <2>1. EngineIndexed(s) BY <1>8 DEF EngineOK
  <2> QED BY <2>1, <1>3, <1>4, <1>5, <1>6 DEF EngineIndexed
<1>9. KeysAreMembers(t)
  BY <1>1, <1>3, <1>4, <1>6 DEF KeysAreMembers
<1> QED BY <1>2, <1>7, <1>8, <1>9 DEF EngineOK

(* A fingerprint without a cluster opens one, under a key no cluster has   *)
(* while the index is exact.                                               *)
LEMMA OpenKeeps ==
  ASSUME NEW s, NEW c, EngineOK(s, c), NEW f \in Fps, NEW at \in Times, NEW domain,
         f \notin DOMAIN s.byFp
  PROVE  EngineOK(Open(s, f, at, domain), c)
<1> DEFINE k == <<f, at \div Window>>
           cl == [state |-> "open", last |-> at, fps |-> {f}, nodes |-> {f} \cap domain]
           m == [j \in DOMAIN s.active \cup {k} |-> IF j = k THEN cl ELSE s.active[j]]
           b == [g \in DOMAIN s.byFp \cup {f} |-> IF g = f THEN k ELSE s.byFp[g]]
           t == [active |-> m, resolved |-> s.resolved, byFp |-> b]
<1>1. EngineTyped(s) /\ KeysAreMembers(s)
  BY DEF EngineOK
<1>2. Open(s, f, at, domain) = t
  <2>1. s = [active |-> s.active, resolved |-> s.resolved, byFp |-> s.byFp]
    BY <1>1 DEF EngineTyped
  <2>2. Open(s, f, at, domain) = [s EXCEPT !.active = m, !.byFp = b]
    BY <2>1 DEF Open
  <2> HIDE DEF m, b
  <2> QED BY <2>1, <2>2
<1>3. k \in Keys /\ k[1] = f
  <2>1. at \div Window \in 0..(MaxTime \div Window)
    BY ClusterAssumption, SMTT(30) DEF Times
  <2> QED BY <2>1 DEF Keys
<1>4. cl \in Clusters /\ cl.state # "resolved" /\ cl.fps = {f}
  BY DEF Clusters
<1>5. /\ DOMAIN m = DOMAIN s.active \cup {k} /\ m[k] = cl
      /\ \A j \in DOMAIN s.active \ {k} : m[j] = s.active[j]
  OBVIOUS
<1>6. /\ DOMAIN b = DOMAIN s.byFp \cup {f} /\ b[f] = k
      /\ \A g \in DOMAIN s.byFp : b[g] = s.byFp[g]
  OBVIOUS
<1>7. /\ t.active = m /\ t.resolved = s.resolved /\ t.byFp = b
      /\ t = [active |-> t.active, resolved |-> t.resolved, byFp |-> t.byFp]
  OBVIOUS
<1> HIDE DEF k, cl, m, b, t
<1>8. EngineTyped(t)
  BY <1>1, <1>3, <1>4, <1>5, <1>6, <1>7 DEF EngineTyped
<1>9. ASSUME c PROVE EngineIndexed(t)
  <2>1. EngineIndexed(s) BY <1>9 DEF EngineOK
  <2>2. k \notin DOMAIN s.active
    BY <1>1, <1>3, <2>1 DEF EngineIndexed, KeysAreMembers
  <2> QED BY <2>1, <2>2, <1>4, <1>5, <1>6, <1>7 DEF EngineIndexed
<1>10. KeysAreMembers(t)
  BY <1>1, <1>3, <1>4, <1>5, <1>7 DEF KeysAreMembers
<1> QED BY <1>2, <1>8, <1>9, <1>10 DEF EngineOK

LEMMA PlaceKeeps ==
  ASSUME NEW s, NEW c, EngineOK(s, c), NEW f \in Fps, NEW at \in Times, NEW domain, Dereferences(s, f)
  PROVE  EngineOK(Place(s, f, at, domain), c)
<1> DEFINE near == {k \in DOMAIN s.active : s.active[k].nodes \cap domain # {}}
<1>1. CASE f \in DOMAIN s.byFp
  <2>1. s.byFp[f] \in DOMAIN s.active BY <1>1 DEF Dereferences
  <2>2. EngineOK(Absorb(s, s.byFp[f], f, at, domain), c) BY <2>1, AbsorbKeeps
  <2> QED BY <1>1, <2>2 DEF Place
<1>2. CASE f \notin DOMAIN s.byFp /\ near # {}
  <2>1. EngineTyped(s) /\ near \subseteq DOMAIN s.active BY DEF EngineOK
  <2> HIDE DEF near
  <2>2. Nearest(s, near) \in near BY <1>2, <2>1, NearestIsOne
  <2>3. EngineOK(Absorb(s, Nearest(s, near), f, at, domain), c) BY <1>2, <2>1, <2>2, AbsorbKeeps
  <2>4. Place(s, f, at, domain) = Absorb(s, Nearest(s, near), f, at, domain)
    BY <1>2 DEF Place, near
  <2> QED BY <2>3, <2>4
<1>3. CASE f \notin DOMAIN s.byFp /\ near = {}
  <2>1. EngineOK(Open(s, f, at, domain), c) BY <1>3, OpenKeeps
  <2>2. Place(s, f, at, domain) = Open(s, f, at, domain) BY <1>3 DEF Place
  <2> QED BY <2>1, <2>2
<1> QED BY <1>1, <1>2, <1>3

(* The records of a load, as Collect took them, make an engine again; its  *)
(* index is exact unless two live records share a fingerprint.             *)
RecordsOK == clusterRecords \subseteq Keys \X Clusters /\ \A x \in Live(clusterRecords) : x[1][1] \in x[2].fps

LEMMA AsFunctionIsIt ==
  ASSUME NEW R, \A x, y \in R : x[1] = y[1] => x = y
  PROVE  /\ DOMAIN AsFunction(R) = {x[1] : x \in R}
         /\ \A x \in R : AsFunction(R)[x[1]] = x[2]
<1>1. ASSUME NEW x \in R PROVE (CHOOSE y \in R : y[1] = x[1]) = x
  OBVIOUS
<1> QED BY <1>1 DEF AsFunction

LEMMA RebuiltIsEngine ==
  ASSUME RecordsOK, NEW R \in Loads, NEW index \in Indexes(R)
  PROVE  EngineOK(Rebuilt(R, index), ~Shared(R))
<1> DEFINE L == Live(R)
           D == R \ L
           a == AsFunction(L)
           h == AsFunction(D)
           t == Rebuilt(R, index)
<1>1. /\ t = [active |-> a, resolved |-> h, byFp |-> index]
      /\ t.active = a /\ t.resolved = h /\ t.byFp = index
  BY DEF Rebuilt
<1>2. /\ R \subseteq Keys \X Clusters
      /\ \A x \in R : x[1] \in Keys /\ x[2] \in Clusters
      /\ \A x \in L : x[1][1] \in x[2].fps
      /\ \A x, y \in R : x[1] = y[1] => x = y
  BY DEF RecordsOK, Loads, Live
<1>3. L \subseteq R /\ D \subseteq R /\ (\A x \in L : x[2].state # "resolved") /\ \A x \in D : x[2].state = "resolved"
  BY DEF Live
<1>4. /\ DOMAIN a = {x[1] : x \in L} /\ \A x \in L : a[x[1]] = x[2]
      /\ DOMAIN h = {x[1] : x \in D} /\ \A x \in D : h[x[1]] = x[2]
  <2>1. (\A x, y \in L : x[1] = y[1] => x = y) /\ \A x, y \in D : x[1] = y[1] => x = y
    BY <1>2, <1>3
  <2> HIDE DEF L, D
  <2> QED BY <2>1, AsFunctionIsIt
<1>5. /\ \A k \in DOMAIN a : \E x \in L : k = x[1] /\ a[k] = x[2]
      /\ \A k \in DOMAIN h : \E x \in D : k = x[1] /\ h[k] = x[2]
  BY <1>4
<1>6. /\ DOMAIN index = UNION {x[2].fps : x \in L}
      /\ \A f \in DOMAIN index : \E x \in L : f \in x[2].fps /\ index[f] = x[1]
  BY DEF Indexes, Holders
<1> HIDE DEF L, D, a, h, t
<1>7. EngineTyped(t)
  <2>1. DOMAIN t.active \subseteq Keys /\ DOMAIN t.resolved \subseteq Keys
    BY <1>1, <1>2, <1>3, <1>4
  <2>2. \A k \in DOMAIN t.active : t.active[k] \in Clusters /\ t.active[k].state # "resolved"
    BY <1>1, <1>2, <1>3, <1>5
  <2>3. \A k \in DOMAIN t.resolved : t.resolved[k] \in Clusters /\ t.resolved[k].state = "resolved"
    BY <1>1, <1>2, <1>3, <1>5
  <2>4. DOMAIN t.byFp \subseteq Fps
    <3>1. \A x \in L : x[2].fps \subseteq Fps BY <1>2, <1>3 DEF Clusters
    <3> QED BY <3>1, <1>1, <1>6
  <2>5. \A f \in DOMAIN t.byFp : t.byFp[f] \in Keys
    BY <1>1, <1>2, <1>3, <1>6
  <2> QED BY <1>1, <2>1, <2>2, <2>3, <2>4, <2>5 DEF EngineTyped
<1>8. KeysAreMembers(t)
  BY <1>1, <1>2, <1>3, <1>5 DEF KeysAreMembers
<1>9. ASSUME ~Shared(R) PROVE EngineIndexed(t)
  <2>1. \A x, y \in L : \A f \in x[2].fps : f \in y[2].fps => x = y
    BY <1>9 DEF Shared, L
  <2>2. ASSUME NEW f \in DOMAIN index PROVE index[f] \in DOMAIN a /\ f \in a[index[f]].fps
    BY <1>4, <1>6
  <2>3. ASSUME NEW k \in DOMAIN a, NEW f \in a[k].fps PROVE f \in DOMAIN index /\ index[f] = k
    <3>1. PICK x \in L : k = x[1] /\ a[k] = x[2] BY <1>5
    <3>2. f \in x[2].fps BY <3>1
    <3>3. f \in DOMAIN index BY <3>2, <1>6
    <3>4. PICK y \in L : f \in y[2].fps /\ index[f] = y[1] BY <3>3, <1>6
    <3>5. x = y BY <3>2, <3>4, <2>1
    <3> QED BY <3>1, <3>3, <3>4, <3>5
  <2> QED BY <1>1, <2>2, <2>3 DEF EngineIndexed
<1> QED BY <1>7, <1>8, <1>9 DEF EngineOK, t

------------------------------------------------------------------------------
(* The window of the deduplicator                                          *)

AnchorsOK == DOMAIN anchors \subseteq Fps /\ \A f \in DOMAIN anchors : anchors[f] \in Times

LEMMA AnchorKeeps ==
  ASSUME AnchorsOK, NEW f \in Fps, NEW at \in Times, NEW kept, kept \subseteq DOMAIN anchors
  PROVE  /\ DOMAIN Anchor(f, at, kept) \subseteq Fps
         /\ \A g \in DOMAIN Anchor(f, at, kept) : Anchor(f, at, kept)[g] \in Times
<1> DEFINE seen == [g \in kept \cup {f} |-> IF g = f THEN at ELSE anchors[g]]
           victims == {g \in DOMAIN seen : \A h \in DOMAIN seen :
                         seen[g] < seen[h] \/ (seen[g] = seen[h] /\ g <= h)}
<1>1. DOMAIN seen \subseteq Fps /\ \A g \in DOMAIN seen : seen[g] \in Times
  BY DEF AnchorsOK
<1>2. Anchor(f, at, kept) = seen \/ Anchor(f, at, kept) = Without(seen, victims)
  BY DEF Anchor
<1> HIDE DEF seen, victims
<1>3. /\ DOMAIN Without(seen, victims) = DOMAIN seen \ victims
      /\ \A g \in DOMAIN seen \ victims : Without(seen, victims)[g] = seen[g]
  BY WithoutIsRestricted
<1> QED BY <1>1, <1>2, <1>3

------------------------------------------------------------------------------
(* The inductive invariant                                                 *)

NoiseInv == AnchorsOK /\ clusterLimit \in ClusterLimits /\ RecordsOK /\ mixed \in BOOLEAN /\ EngineOK(Engine, ~mixed)

LEMMA InitialNoise == NoiseInit => NoiseInv
<1> SUFFICES ASSUME NoiseInit PROVE NoiseInv OBVIOUS
<1>0. /\ DOMAIN anchors = {} /\ DOMAIN active = {} /\ DOMAIN resolved = {} /\ DOMAIN byFp = {}
  BY DEF NoiseInit
<1>a. clusterRecords = {} /\ mixed \in BOOLEAN
  BY DEF NoiseInit
<1>1. /\ DOMAIN anchors = {} /\ DOMAIN active = {} /\ DOMAIN resolved = {} /\ DOMAIN byFp = {}
      /\ RecordsOK /\ mixed \in BOOLEAN
  BY <1>0, <1>a DEF RecordsOK, Live
<1> DEFINE s == Engine
<1>2. /\ s.active = active /\ s.resolved = resolved /\ s.byFp = byFp
      /\ s = [active |-> s.active, resolved |-> s.resolved, byFp |-> s.byFp]
  BY DEF Engine
<1> HIDE DEF s
<1>3. EngineOK(s, ~mixed)
  BY <1>1, <1>2 DEF EngineOK, EngineTyped, EngineIndexed, KeysAreMembers
<1> QED BY <1>1, <1>3 DEF NoiseInv, AnchorsOK, NoiseInit, s

LEMMA EngineBecomes ==
  ASSUME NEW s, EngineTyped(s), Becomes(s) PROVE Engine' = s
BY DEF EngineTyped, Becomes, Engine

LEMMA EngineIsOKThen ==
  ASSUME NEW s, NEW c, EngineOK(s, c), Becomes(s), c <=> ~mixed'
  PROVE  EngineOK(Engine, ~mixed)'
<1>1. Engine' = s BY EngineBecomes DEF EngineOK
<1>2. EngineOK(Engine', c) BY <1>1
<1> QED BY <1>2 DEF EngineOK, EngineTyped, EngineIndexed, KeysAreMembers, Engine

LEMMA ProcessKeeps ==
  ASSUME NoiseInv, NEW f \in Fps, NEW at \in Times, NEW domain, Process(f, at, domain)
  PROVE  NoiseInv'
<1> DEFINE v == Sweep(Engine, at)
           p == Place(v, f, at, domain)
<1>1. PICK V : Becomes(Evict(p, V))
  BY DEF Process
<1>2. Dereferences(v, f) /\ UNCHANGED <<clusterLimit, clusterRecords, mixed>>
  BY DEF Process
<1>3. EngineOK(v, ~mixed) BY SweepKeeps DEF NoiseInv
<1> HIDE DEF v
<1>4. EngineOK(p, ~mixed) BY <1>2, <1>3, PlaceKeeps
<1> HIDE DEF p
<1>5. EngineOK(Evict(p, V), ~mixed) BY <1>4, EvictKeeps
<1>6. EngineOK(Engine, ~mixed)' BY <1>1, <1>2, <1>5, EngineIsOKThen
<1>7. AnchorsOK'
  <2>1. AnchorsOK BY DEF NoiseInv
  <2>2. PICK old : anchors' = IF f \in DOMAIN anchors \ old /\ ~Allowed(f, at)
                                THEN Restrict(anchors, DOMAIN anchors \ old)
                                ELSE Anchor(f, at, DOMAIN anchors \ old)
    BY DEF Process
  <2>3. CASE anchors' = Restrict(anchors, DOMAIN anchors \ old)
    <3>1. /\ DOMAIN Without(anchors, old) = DOMAIN anchors \ old
          /\ \A x \in DOMAIN anchors \ old : Without(anchors, old)[x] = anchors[x]
      BY WithoutIsRestricted
    <3>2. anchors' = Without(anchors, old) BY <2>3 DEF Without
    <3> QED BY <2>1, <3>1, <3>2 DEF AnchorsOK
  <2>4. CASE anchors' = Anchor(f, at, DOMAIN anchors \ old)
    <3>1. DOMAIN anchors \ old \subseteq DOMAIN anchors OBVIOUS
    <3> QED BY <2>1, <2>4, <3>1, AnchorKeeps DEF AnchorsOK
  <2> QED BY <2>2, <2>3, <2>4
<1> QED BY <1>2, <1>6, <1>7 DEF NoiseInv, RecordsOK, Live

LEMMA AckKeeps == ASSUME NoiseInv, NEW k \in Keys, Ack(k) PROVE NoiseInv'
<1> DEFINE s == Engine
           t == [active |-> active', resolved |-> resolved', byFp |-> byFp']
<1>1. /\ s.active = active /\ s.resolved = resolved /\ s.byFp = byFp
      /\ t.active = active' /\ t.resolved = resolved /\ t.byFp = byFp
      /\ t = [active |-> t.active, resolved |-> t.resolved, byFp |-> t.byFp]
      /\ Becomes(t)
  BY DEF Ack, Engine, Becomes
<1>2. EngineTyped(s) /\ KeysAreMembers(s) BY DEF NoiseInv, EngineOK
<1>3. k \in DOMAIN active /\ active' = [active EXCEPT ![k].state = "acked"]
  BY DEF Ack
<1>0. ~mixed => EngineIndexed(s) BY DEF NoiseInv, EngineOK
<1> HIDE DEF s, t
<1>4. /\ DOMAIN active' = DOMAIN active
      /\ active'[k] \in Clusters /\ active'[k].state # "resolved" /\ active'[k].fps = active[k].fps
      /\ \A j \in DOMAIN active \ {k} : active'[j] = active[j]
  <2>1. active[k] \in Clusters BY <1>1, <1>2, <1>3 DEF EngineTyped
  <2>2. active'[k] = [active[k] EXCEPT !.state = "acked"] BY <1>3
  <2>3. active'[k] \in Clusters /\ active'[k].state = "acked" /\ active'[k].fps = active[k].fps
    BY <2>1, <2>2 DEF Clusters
  <2> QED BY <1>3, <2>3
<1>5. EngineTyped(t) BY <1>1, <1>2, <1>4 DEF EngineTyped
<1>6. ASSUME ~mixed PROVE EngineIndexed(t) BY <1>0, <1>1, <1>4, <1>6 DEF EngineIndexed
<1>7. KeysAreMembers(t) BY <1>1, <1>2, <1>4 DEF KeysAreMembers
<1>8. EngineOK(t, ~mixed) BY <1>5, <1>6, <1>7 DEF EngineOK
<1>9. EngineOK(Engine, ~mixed)'
  <2>1. mixed' = mixed BY DEF Ack
  <2> QED BY <1>1, <1>8, <2>1, EngineIsOKThen
<1> QED BY <1>9 DEF NoiseInv, AnchorsOK, RecordsOK, Live, Ack

LEMMA CollectKeepsEngine == ASSUME NoiseInv, NEW k \in Keys, CollectCluster(k) PROVE NoiseInv'
<1>1. UNCHANGED <<anchors, active, resolved, byFp, clusterLimit, mixed>>
  BY DEF CollectCluster
<1>2. /\ \A j \in DOMAIN active : active[j] \in Clusters /\ j[1] \in active[j].fps
      /\ \A j \in DOMAIN resolved : resolved[j] \in Clusters /\ resolved[j].state = "resolved"
  BY DEF NoiseInv, EngineOK, EngineTyped, KeysAreMembers, Engine
<1>3. RecordsOK'
  <2>1. CASE k \in DOMAIN active /\ clusterRecords' = clusterRecords \cup {<<k, active[k]>>}
    BY <1>2, <2>1 DEF NoiseInv, RecordsOK, Live
  <2>2. CASE k \in DOMAIN resolved /\ clusterRecords' = clusterRecords \cup {<<k, resolved[k]>>}
    BY <1>2, <2>2 DEF NoiseInv, RecordsOK, Live
  <2> QED BY <2>1, <2>2 DEF CollectCluster
<1>4. Engine' = Engine /\ AnchorsOK'
  BY <1>1 DEF Engine, AnchorsOK, NoiseInv
<1>5. EngineOK(Engine, ~mixed)'
  BY <1>1, <1>4 DEF NoiseInv, EngineOK, EngineTyped, EngineIndexed, KeysAreMembers
<1> QED BY <1>1, <1>3, <1>4, <1>5 DEF NoiseInv

LEMMA RestoreKeeps == ASSUME NoiseInv, NEW R \in Loads, Restore(R) PROVE NoiseInv'
<1>0. PICK index \in Indexes(R) : \E V \in Victims(Rebuilt(R, index)) : Becomes(Evict(Rebuilt(R, index), V))
  BY DEF Restore
<1>1. PICK V \in Victims(Rebuilt(R, index)) : Becomes(Evict(Rebuilt(R, index), V))
  BY <1>0
<1>2. EngineOK(Rebuilt(R, index), ~Shared(R))
  BY RebuiltIsEngine DEF NoiseInv
<1>3. EngineOK(Evict(Rebuilt(R, index), V), ~Shared(R))
  BY <1>2, EvictKeeps
<1>4. /\ mixed' = Shared(R) /\ mixed' \in BOOLEAN
      /\ UNCHANGED <<clusterLimit, clusterRecords>>
      /\ anchors' = anchors \/ anchors' = <<>>
  BY DEF Restore, Shared
<1>5. EngineOK(Engine, ~mixed)'
  BY <1>1, <1>3, <1>4, EngineIsOKThen
<1>6. AnchorsOK'
  BY <1>4 DEF NoiseInv, AnchorsOK
<1> QED BY <1>4, <1>5, <1>6 DEF NoiseInv, RecordsOK, Live

LEMMA NoisePreserved == NoiseInv /\ [NoiseNext]_clusterVars => NoiseInv'
<1> SUFFICES ASSUME NoiseInv, [NoiseNext]_clusterVars PROVE NoiseInv' OBVIOUS
<1>1. CASE NoiseNext
  BY <1>1, ProcessKeeps, AckKeeps, CollectKeepsEngine, RestoreKeeps DEF NoiseNext
<1>2. CASE UNCHANGED clusterVars
  BY <1>2 DEF clusterVars, NoiseInv, AnchorsOK, RecordsOK, Live, EngineOK, EngineTyped, EngineIndexed,
              KeysAreMembers, Engine
<1> QED BY <1>1, <1>2

(* The index of the clusters holds exactly the fingerprints of the active  *)
(* clusters, each with the cluster that has it, through alerts, evictions, *)
(* acks and restores, unless the last restore met a fingerprint in two     *)
(* live records: Ingest dereferences what it finds there without a check,  *)
(* and no alert with a live cluster opens a second one (cluster.go:113,    *)
(* 219; store.go:75-150).                                                  *)
THEOREM ClusterIndexStaysExact == NoiseSpec => []ClusterIndexIsExact
<1>1. NoiseInv => ClusterIndexIsExact
  <2>1. Engine.active = active /\ Engine.byFp = byFp BY DEF Engine
  <2> QED BY <2>1 DEF NoiseInv, EngineOK, EngineIndexed, ClusterIndexIsExact
<1> QED BY InitialNoise, NoisePreserved, <1>1, PTL DEF NoiseSpec

------------------------------------------------------------------------------
(* The memory limit of the engine                                         *)

(* A state of the clusterer is finite; Size counts its clusters.           *)
Sized(s) == IsFiniteSet(DOMAIN s.active) /\ IsFiniteSet(DOMAIN s.resolved)

LEMMA SizeIsNat ==
  ASSUME NEW s, Sized(s)
  PROVE  /\ Cardinality(DOMAIN s.active) \in Nat /\ Cardinality(DOMAIN s.resolved) \in Nat
         /\ Size(s) = Cardinality(DOMAIN s.active) + Cardinality(DOMAIN s.resolved)
         /\ Size(s) \in Nat
BY FS_CardinalityType DEF Sized, Size

(* The sweep moves clusters to the history, an alert adds at most one.     *)
LEMMA SweepIsSized ==
  ASSUME NEW s, Sized(s), NEW now PROVE Sized(Sweep(s, now))
<1> DEFINE old == {k \in DOMAIN s.active : s.active[k].last + Window <= now}
           t == Sweep(s, now)
<1>1. DOMAIN t.active = DOMAIN s.active \ old /\ DOMAIN t.resolved = DOMAIN s.resolved \cup old
  BY WithoutIsRestricted DEF Sweep
<1>2. old \subseteq DOMAIN s.active OBVIOUS
<1> HIDE DEF old, t
<1>3. IsFiniteSet(old) /\ IsFiniteSet(DOMAIN s.active \ old)
  BY <1>2, FS_Subset DEF Sized
<1>4. IsFiniteSet(DOMAIN s.resolved \cup old)
  BY <1>3, FS_Union DEF Sized
<1> QED BY <1>1, <1>3, <1>4 DEF Sized, t

LEMMA PlaceIsSized ==
  ASSUME NEW s, NEW c, EngineOK(s, c), Sized(s), NEW f, NEW at, NEW domain, Dereferences(s, f)
  PROVE  Sized(Place(s, f, at, domain))
<1> DEFINE near == {k \in DOMAIN s.active : s.active[k].nodes \cap domain # {}}
           p == Place(s, f, at, domain)
           o == <<f, at \div Window>>
<1>0. s = [active |-> s.active, resolved |-> s.resolved, byFp |-> s.byFp]
  BY DEF EngineOK, EngineTyped
<1>1. ASSUME NEW k \in DOMAIN s.active
      PROVE  /\ DOMAIN Absorb(s, k, f, at, domain).active = DOMAIN s.active
             /\ Absorb(s, k, f, at, domain).resolved = s.resolved
  <2> DEFINE cl == [s.active[k] EXCEPT !.last = at, !.fps = @ \cup {f}, !.nodes = @ \cup ({f} \cap domain)]
             m == [s.active EXCEPT ![k] = cl]
             b == [g \in DOMAIN s.byFp \cup {f} |-> IF g = f THEN k ELSE s.byFp[g]]
  <2>1. s.active[k] \in Clusters BY DEF EngineOK, EngineTyped
  <2>2. m = [s.active EXCEPT ![k].last = at, ![k].fps = @ \cup {f}, ![k].nodes = @ \cup ({f} \cap domain)]
    BY <2>1 DEF Clusters
  <2>3. Absorb(s, k, f, at, domain) = [s EXCEPT !.active = m, !.byFp = b]
    BY <1>0, <2>2 DEF Absorb
  <2>4. DOMAIN m = DOMAIN s.active OBVIOUS
  <2> HIDE DEF m, b
  <2> QED BY <1>0, <2>3, <2>4
<1>2. /\ DOMAIN Open(s, f, at, domain).active = DOMAIN s.active \cup {o}
      /\ Open(s, f, at, domain).resolved = s.resolved
  <2> DEFINE cl == [state |-> "open", last |-> at, fps |-> {f}, nodes |-> {f} \cap domain]
             m == [i \in DOMAIN s.active \cup {o} |-> IF i = o THEN cl ELSE s.active[i]]
             b == [g \in DOMAIN s.byFp \cup {f} |-> IF g = f THEN o ELSE s.byFp[g]]
  <2>1. Open(s, f, at, domain) = [active |-> m, resolved |-> s.resolved, byFp |-> b]
    <3>1. Open(s, f, at, domain) = [s EXCEPT !.active = m, !.byFp = b] BY <1>0 DEF Open
    <3> HIDE DEF m, b
    <3> QED BY <3>1, <1>0
  <2>2. DOMAIN m = DOMAIN s.active \cup {o} OBVIOUS
  <2> HIDE DEF m, b
  <2> QED BY <2>1, <2>2
<1>3. /\ p.resolved = s.resolved
      /\ DOMAIN p.active = DOMAIN s.active \/ DOMAIN p.active = DOMAIN s.active \cup {o}
  <2> HIDE DEF o
  <2>1. CASE f \in DOMAIN s.byFp
    <3>1. p = Absorb(s, s.byFp[f], f, at, domain) BY <2>1 DEF Place
    <3>2. s.byFp[f] \in DOMAIN s.active BY <2>1 DEF Dereferences
    <3> QED BY <3>1, <3>2, <1>1
  <2>2. CASE f \notin DOMAIN s.byFp /\ near # {}
    <3>1. p = Absorb(s, Nearest(s, near), f, at, domain) BY <2>2 DEF Place
    <3>2. Nearest(s, near) \in near
      <4>1. near \subseteq DOMAIN s.active OBVIOUS
      <4> HIDE DEF near
      <4> QED BY <2>2, <4>1, NearestIsOne DEF EngineOK
    <3> QED BY <3>1, <3>2, <1>1
  <2>3. CASE f \notin DOMAIN s.byFp /\ near = {}
    <3>1. p = Open(s, f, at, domain) BY <2>3 DEF Place
    <3> QED BY <3>1, <1>2
  <2> QED BY <2>1, <2>2, <2>3
<1> HIDE DEF p, o
<1>4. IsFiniteSet(DOMAIN s.active \cup {o})
  BY FS_AddElement DEF Sized
<1> QED BY <1>3, <1>4 DEF Sized, p

(* A load holds no more records than were collected.                       *)
LEMMA RebuiltIsSized ==
  ASSUME NEW R, IsFiniteSet(R), NEW index PROVE Sized(Rebuilt(R, index))
<1>1. ASSUME NEW S, S \subseteq R PROVE IsFiniteSet(DOMAIN AsFunction(S))
  <2>1. IsFiniteSet(S) BY <1>1, FS_Subset
  <2>2. IsFiniteSet({x[1] : x \in S})
    <3> DEFINE T == {x[1] : x \in S}
               g == [x \in S |-> x[1]]
    <3>1. g \in Surjection(S, T) BY DEF Surjection
    <3> HIDE DEF T, g
    <3>2. IsFiniteSet(T) BY <2>1, <3>1, FS_Surjection
    <3> QED BY <3>2 DEF T
  <2>3. DOMAIN AsFunction(S) = {x[1] : x \in S} BY DEF AsFunction
  <2> QED BY <2>2, <2>3
<1>2. Live(R) \subseteq R /\ R \ Live(R) \subseteq R BY DEF Live
<1> QED BY <1>1, <1>2 DEF Sized, Rebuilt

(* Pairs with one tag are as many as what they tag.                        *)
LEMMA TaggedAreAsMany ==
  ASSUME NEW S, IsFiniteSet(S), NEW tag
  PROVE  IsFiniteSet({tag} \X S) /\ Cardinality({tag} \X S) = Cardinality(S)
<1>1. IsFiniteSet({tag}) /\ Cardinality({tag}) = 1 BY FS_Singleton
<1>2. /\ IsFiniteSet({tag} \X S)
      /\ Cardinality({tag} \X S) = Cardinality({tag}) * Cardinality(S)
  BY <1>1, FS_Product
<1>3. Cardinality(S) \in Nat BY FS_CardinalityType
<1> QED BY <1>1, <1>2, <1>3

(* After eviction the clusters are within the limit.                       *)
LEMMA EvictBounds ==
  ASSUME NEW s, Sized(s), clusterLimit \in Nat, NEW V \in Victims(s)
  PROVE  /\ Sized(Evict(s, V))
         /\ clusterLimit # 0 => Size(Evict(s, V)) <= clusterLimit
<1> DEFINE A == {k \in DOMAIN s.active : <<"active", k>> \in V}
           H == {k \in DOMAIN s.resolved : <<"resolved", k>> \in V}
           t == Evict(s, V)
<1>1. DOMAIN t.active = DOMAIN s.active \ A /\ DOMAIN t.resolved = DOMAIN s.resolved \ H
  BY WithoutIsRestricted DEF Evict
<1>2. A \subseteq DOMAIN s.active /\ H \subseteq DOMAIN s.resolved OBVIOUS
<1>3. V = ({"active"} \X A) \cup ({"resolved"} \X H)
  BY DEF Victims, Entries
<1>4. Cardinality(V) = OverLimit(s)
  BY DEF Victims
<1> HIDE DEF A, H, t
<1>5. /\ IsFiniteSet(A) /\ Cardinality(A) \in Nat
      /\ IsFiniteSet(H) /\ Cardinality(H) \in Nat
  BY <1>2, FS_Subset, FS_CardinalityType DEF Sized
<1>6. Cardinality(V) = Cardinality(A) + Cardinality(H)
  <2> DEFINE x == {"active"} \X A
             y == {"resolved"} \X H
  <2>1. /\ IsFiniteSet(x) /\ Cardinality(x) = Cardinality(A)
        /\ IsFiniteSet(y) /\ Cardinality(y) = Cardinality(H)
    BY <1>5, TaggedAreAsMany
  <2>2. x \cap y = {} OBVIOUS
  <2>3. V = x \cup y BY <1>3
  <2> HIDE DEF x, y
  <2>4. Cardinality(x \cup y) = Cardinality(x) + Cardinality(y) - Cardinality(x \cap y)
    BY <2>1, FS_Union
  <2>5. Cardinality(x \cap y) = 0 BY <2>2, FS_EmptySet
  <2> QED BY <1>5, <2>1, <2>3, <2>4, <2>5
<1>7. /\ IsFiniteSet(DOMAIN t.active)
      /\ Cardinality(DOMAIN t.active) = Cardinality(DOMAIN s.active) - Cardinality(A)
  <2> DEFINE d == DOMAIN s.active
  <2>1. d \cap A = A BY <1>2
  <2>2. IsFiniteSet(d) BY DEF Sized
  <2> HIDE DEF d
  <2>3. IsFiniteSet(d \ A) /\ Cardinality(d \ A) = Cardinality(d) - Cardinality(d \cap A)
    BY <2>2, FS_Difference
  <2> QED BY <1>1, <2>1, <2>3 DEF d
<1>8. /\ IsFiniteSet(DOMAIN t.resolved)
      /\ Cardinality(DOMAIN t.resolved) = Cardinality(DOMAIN s.resolved) - Cardinality(H)
  <2> DEFINE d == DOMAIN s.resolved
  <2>1. d \cap H = H BY <1>2
  <2>2. IsFiniteSet(d) BY DEF Sized
  <2> HIDE DEF d
  <2>3. IsFiniteSet(d \ H) /\ Cardinality(d \ H) = Cardinality(d) - Cardinality(d \cap H)
    BY <2>2, FS_Difference
  <2> QED BY <1>1, <2>1, <2>3 DEF d
<1>9. Sized(t) BY <1>7, <1>8 DEF Sized
<1>10. Size(t) = Size(s) - OverLimit(s)
  BY <1>4, <1>5, <1>6, <1>7, <1>8, <1>9, SizeIsNat
<1>11. Size(s) \in Nat BY SizeIsNat
<1>12. clusterLimit # 0 => Size(t) <= clusterLimit
  BY <1>10, <1>11 DEF OverLimit
<1> QED BY <1>9, <1>12 DEF t

LEMMA AnchorBounds ==
  ASSUME AnchorsOK, NEW f \in Fps, NEW at \in Times, NEW kept, kept \subseteq DOMAIN anchors,
         IsFiniteSet(DOMAIN anchors), clusterLimit \in Nat,
         clusterLimit # 0 => Cardinality(DOMAIN anchors) <= clusterLimit
  PROVE  /\ IsFiniteSet(DOMAIN Anchor(f, at, kept))
         /\ clusterLimit # 0 => Cardinality(DOMAIN Anchor(f, at, kept)) <= clusterLimit
<1> DEFINE seen == [g \in kept \cup {f} |-> IF g = f THEN at ELSE anchors[g]]
           victims == {g \in DOMAIN seen : \A h \in DOMAIN seen :
                         seen[g] < seen[h] \/ (seen[g] = seen[h] /\ g <= h)}
           a == Anchor(f, at, kept)
<1>1. a = IF clusterLimit # 0 /\ Cardinality(DOMAIN seen) > clusterLimit
            THEN Without(seen, victims) ELSE seen
  BY DEF Anchor
<1>2. DOMAIN seen = kept \cup {f} /\ \A g \in DOMAIN seen : seen[g] \in Nat /\ g \in Nat
  <2>1. DOMAIN seen = kept \cup {f} OBVIOUS
  <2>2. Fps \subseteq Nat /\ Times \subseteq Nat /\ kept \subseteq Fps
    BY ClusterAssumption DEF AnchorsOK, Times
  <2>3. ASSUME NEW g \in kept \cup {f} PROVE seen[g] \in Nat /\ g \in Nat
    <3>1. CASE g = f BY <3>1, <2>2
    <3>2. CASE g # f
      <4>1. anchors[g] \in Times BY <3>2 DEF AnchorsOK
      <4> QED BY <3>2, <4>1, <2>2
    <3> QED BY <3>1, <3>2
  <2> QED BY <2>1, <2>3
<1> HIDE DEF seen, a
<1>3. /\ IsFiniteSet(kept) /\ Cardinality(kept) <= Cardinality(DOMAIN anchors)
      /\ Cardinality(kept) \in Nat /\ Cardinality(DOMAIN anchors) \in Nat
  BY FS_Subset, FS_CardinalityType
<1>4. IsFiniteSet(DOMAIN seen) /\ Cardinality(DOMAIN seen) <= Cardinality(DOMAIN anchors) + 1
  <2>1. CASE f \in kept
    <3>1. DOMAIN seen = kept BY <2>1, <1>2
    <3> QED BY <3>1, <1>3
  <2>2. CASE f \notin kept
    <3>1. IsFiniteSet(kept \cup {f}) /\ Cardinality(kept \cup {f}) = Cardinality(kept) + 1
      BY <2>2, <1>3, FS_AddElement
    <3>2. DOMAIN seen = kept \cup {f} BY <1>2
    <3>3. Cardinality(DOMAIN seen) = Cardinality(kept) + 1 BY <3>1, <3>2
    <3> QED BY <3>1, <3>2, <3>3, <1>3
  <2> QED BY <2>1, <2>2
<1>5. Cardinality(DOMAIN seen) \in Nat BY <1>4, FS_CardinalityType
<1>6. \E g \in victims : g \in DOMAIN seen
  <2> DEFINE L == {seen[g] : g \in DOMAIN seen}
  <2>1. L \subseteq Nat /\ L # {} BY <1>2
  <2>2. PICK l \in L : \A n \in L : l <= n
    <3> HIDE DEF L
    <3> QED BY <2>1, SmallestNumber
  <2> DEFINE K == {g \in DOMAIN seen : seen[g] = l}
  <2>3. K \subseteq Nat /\ K # {} BY <1>2, <2>2
  <2>4. PICK k \in K : \A n \in K : k <= n
    <3> HIDE DEF K
    <3> QED BY <2>3, SmallestNumber
  <2>5. ASSUME NEW h \in DOMAIN seen
        PROVE  seen[k] < seen[h] \/ (seen[k] = seen[h] /\ k <= h)
    <3>1. seen[h] \in L /\ l <= seen[h] /\ seen[h] \in Nat /\ l \in Nat /\ seen[k] = l
      BY <1>2, <2>1, <2>2, <2>4
    <3>2. CASE seen[h] = l BY <2>4, <3>1, <3>2
    <3>3. CASE seen[h] # l BY <3>1, <3>3
    <3> QED BY <3>2, <3>3
  <2>6. k \in DOMAIN seen BY <2>4
  <2> QED BY <2>5, <2>6
<1> HIDE DEF victims
<1>7. CASE clusterLimit # 0 /\ Cardinality(DOMAIN seen) > clusterLimit
  <2>1. DOMAIN a = DOMAIN seen \ victims
    BY <1>1, <1>7, WithoutIsRestricted
  <2>2. PICK g \in victims : g \in DOMAIN seen BY <1>6
  <2>3. /\ IsFiniteSet(DOMAIN seen \ {g})
        /\ Cardinality(DOMAIN seen \ {g}) = Cardinality(DOMAIN seen) - 1
    BY <1>4, <2>2, FS_RemoveElement
  <2>4. DOMAIN a \subseteq DOMAIN seen \ {g} BY <2>1, <2>2
  <2>5. IsFiniteSet(DOMAIN a) /\ Cardinality(DOMAIN a) <= Cardinality(DOMAIN seen) - 1
    BY <2>3, <2>4, FS_Subset
  <2>6. Cardinality(DOMAIN a) \in Nat BY <2>5, FS_CardinalityType
  <2> QED BY <1>3, <1>4, <1>5, <1>7, <2>5, <2>6 DEF a
<1>8. CASE ~(clusterLimit # 0 /\ Cardinality(DOMAIN seen) > clusterLimit)
  <2>1. a = seen BY <1>1, <1>8
  <2> QED BY <1>4, <1>5, <1>8, <2>1 DEF a
<1> QED BY <1>7, <1>8

(* The memory limit binds the clusters and the windows of the              *)
(* deduplicator.                                                           *)
NoiseBounds ==
  /\ IsFiniteSet(DOMAIN anchors) /\ Sized(Engine) /\ IsFiniteSet(clusterRecords)
  /\ clusterLimit # 0 =>
       Size(Engine) <= clusterLimit /\ Cardinality(DOMAIN anchors) <= clusterLimit

(* The engine keeps within its limit when it becomes what eviction left.   *)
LEMMA BoundedThen ==
  ASSUME NEW s, NEW c, EngineOK(s, c), Sized(s), clusterLimit \in Nat, UNCHANGED clusterLimit,
         NEW V \in Victims(s), Becomes(Evict(s, V))
  PROVE  /\ Sized(Engine)'
         /\ (clusterLimit # 0 => Size(Engine) <= clusterLimit)'
<1> DEFINE t == Evict(s, V)
<1>1. Sized(t) /\ (clusterLimit # 0 => Size(t) <= clusterLimit) BY EvictBounds
<1>2. EngineTyped(t) BY EvictKeeps DEF EngineOK
<1> HIDE DEF t
<1>3. Engine' = t BY <1>2, EngineBecomes DEF t
<1>4. Sized(Engine') /\ (clusterLimit # 0 => Size(Engine') <= clusterLimit) BY <1>1, <1>3
<1> QED BY <1>4 DEF Sized, Size, Engine

LEMMA NoiseBoundsPreserved ==
  NoiseInv /\ NoiseBounds /\ [NoiseNext]_clusterVars => NoiseBounds'
<1> SUFFICES ASSUME NoiseInv, NoiseBounds, [NoiseNext]_clusterVars PROVE NoiseBounds' OBVIOUS
<1>0. clusterLimit \in Nat BY ClusterAssumption DEF NoiseInv
<1>1. ASSUME NEW f \in Fps, NEW at \in Times, NEW domain, Process(f, at, domain)
      PROVE  NoiseBounds'
  <2> DEFINE v == Sweep(Engine, at)
             p == Place(v, f, at, domain)
  <2>1. EngineOK(Engine, ~mixed) /\ Sized(Engine) BY DEF NoiseInv, NoiseBounds
  <2>2. EngineOK(v, ~mixed) /\ Sized(v) BY <2>1, SweepKeeps, SweepIsSized
  <2>3. Dereferences(v, f) /\ UNCHANGED <<clusterLimit, clusterRecords>> BY <1>1 DEF Process
  <2>4. PICK V \in Victims(p) : Becomes(Evict(p, V)) BY <1>1 DEF Process
  <2> HIDE DEF v
  <2>5. EngineOK(p, ~mixed) /\ Sized(p) BY <2>2, <2>3, PlaceKeeps, PlaceIsSized
  <2> HIDE DEF p
  <2>6. Sized(Engine)' /\ (clusterLimit # 0 => Size(Engine) <= clusterLimit)'
    BY <1>0, <2>3, <2>4, <2>5, BoundedThen
  <2>7. /\ IsFiniteSet(DOMAIN anchors')
        /\ clusterLimit # 0 => Cardinality(DOMAIN anchors') <= clusterLimit
    <3>1. PICK old : anchors' = IF f \in DOMAIN anchors \ old /\ ~Allowed(f, at)
                                  THEN Restrict(anchors, DOMAIN anchors \ old)
                                  ELSE Anchor(f, at, DOMAIN anchors \ old)
      BY <1>1 DEF Process
    <3>2. CASE anchors' = Restrict(anchors, DOMAIN anchors \ old)
      <4>1. DOMAIN anchors' \subseteq DOMAIN anchors BY <3>2 DEF Restrict
      <4>2. /\ IsFiniteSet(DOMAIN anchors') /\ Cardinality(DOMAIN anchors') \in Nat
            /\ Cardinality(DOMAIN anchors') <= Cardinality(DOMAIN anchors)
            /\ Cardinality(DOMAIN anchors) \in Nat
        BY <4>1, FS_Subset, FS_CardinalityType DEF NoiseBounds
      <4> QED BY <1>0, <4>2 DEF NoiseBounds
    <3>3. CASE anchors' = Anchor(f, at, DOMAIN anchors \ old)
      <4>1. DOMAIN anchors \ old \subseteq DOMAIN anchors OBVIOUS
      <4> QED BY <1>0, <3>3, <4>1, AnchorBounds DEF NoiseInv, NoiseBounds
    <3> QED BY <3>1, <3>2, <3>3
  <2> QED BY <2>3, <2>6, <2>7 DEF NoiseBounds
<1>2. ASSUME NEW k \in Keys, Ack(k) PROVE NoiseBounds'
  <2>1. DOMAIN active' = DOMAIN active /\ UNCHANGED <<anchors, resolved, clusterLimit, clusterRecords>>
    BY <1>2 DEF Ack
  <2>2. /\ DOMAIN Engine.active = DOMAIN active /\ Engine.resolved = resolved
        /\ DOMAIN Engine'.active = DOMAIN active' /\ Engine'.resolved = resolved'
    BY DEF Engine
  <2>3. Sized(Engine') /\ Size(Engine') = Size(Engine)
    BY <2>1, <2>2 DEF NoiseBounds, Sized, Size
  <2>4. Sized(Engine)' /\ Size(Engine)' = Size(Engine)
    BY <2>3 DEF Sized, Size, Engine
  <2> QED BY <2>1, <2>4 DEF NoiseBounds
<1>3. ASSUME NEW k \in Keys, CollectCluster(k) PROVE NoiseBounds'
  <2>1. PICK x : clusterRecords' = clusterRecords \cup {x}
    BY <1>3 DEF CollectCluster
  <2>2. IsFiniteSet(clusterRecords')
    BY <2>1, FS_AddElement DEF NoiseBounds
  <2> QED BY <1>3, <2>2 DEF CollectCluster, NoiseBounds, Sized, Size, Engine
<1>4. ASSUME NEW R \in Loads, Restore(R) PROVE NoiseBounds'
  <2>1. PICK index \in Indexes(R) : \E V \in Victims(Rebuilt(R, index)) : Becomes(Evict(Rebuilt(R, index), V))
    BY <1>4 DEF Restore
  <2>2. PICK V \in Victims(Rebuilt(R, index)) : Becomes(Evict(Rebuilt(R, index), V))
    BY <2>1
  <2>3. /\ UNCHANGED <<clusterLimit, clusterRecords>>
        /\ anchors' = anchors \/ anchors' = <<>>
    BY <1>4 DEF Restore
  <2>4. EngineOK(Rebuilt(R, index), ~Shared(R)) BY RebuiltIsEngine DEF NoiseInv
  <2>5. IsFiniteSet(R) BY FS_Subset DEF Loads, NoiseBounds
  <2>6. Sized(Rebuilt(R, index)) BY <2>5, RebuiltIsSized
  <2>7. Sized(Engine)' /\ (clusterLimit # 0 => Size(Engine) <= clusterLimit)'
    BY <1>0, <2>2, <2>3, <2>4, <2>6, BoundedThen
  <2>8. /\ IsFiniteSet(DOMAIN anchors')
        /\ clusterLimit # 0 => Cardinality(DOMAIN anchors') <= clusterLimit
    <3>1. CASE anchors' = anchors BY <3>1 DEF NoiseBounds
    <3>2. CASE anchors' = <<>>
      <4>1. DOMAIN anchors' = {} BY <3>2
      <4> QED BY <1>0, <4>1, FS_EmptySet
    <3> QED BY <2>3, <3>1, <3>2
  <2> QED BY <2>3, <2>7, <2>8 DEF NoiseBounds
<1>5. CASE UNCHANGED clusterVars
  BY <1>5 DEF clusterVars, NoiseBounds, Sized, Size, Engine
<1> QED BY <1>1, <1>2, <1>3, <1>4, <1>5 DEF NoiseNext

(* Type correctness of the noise engine; in particular neither the         *)
(* clusters nor the windows exceed the memory limit, whatever a restore    *)
(* loads.                                                                  *)
THEOREM NoiseTypeCorrect == NoiseSpec => []NoiseTypeOK
<1>1. NoiseInit => NoiseBounds
  <2> SUFFICES ASSUME NoiseInit PROVE NoiseBounds OBVIOUS
  <2>1. /\ DOMAIN anchors = {} /\ DOMAIN active = {} /\ DOMAIN resolved = {} /\ clusterLimit \in Nat
        /\ clusterRecords = {}
    BY ClusterAssumption DEF NoiseInit
  <2>2. Engine.active = active /\ Engine.resolved = resolved BY DEF Engine
  <2> QED BY <2>1, <2>2, FS_EmptySet DEF NoiseBounds, Sized, Size
<1>2. NoiseInv /\ NoiseBounds => NoiseTypeOK
  <2> SUFFICES ASSUME NoiseInv, NoiseBounds PROVE NoiseTypeOK OBVIOUS
  <2>1. Engine.active = active /\ Engine.resolved = resolved /\ Engine.byFp = byFp
    BY DEF Engine
  <2>2. EngineTyped(Engine) BY DEF NoiseInv, EngineOK
  <2>3. clusterLimit # 0 =>
          /\ Cardinality(DOMAIN active) + Cardinality(DOMAIN resolved) <= clusterLimit
          /\ Cardinality(DOMAIN anchors) <= clusterLimit
    BY <2>1 DEF NoiseBounds, Size
  <2>4. clusterRecords \subseteq Keys \X Clusters /\ mixed \in BOOLEAN
    BY DEF NoiseInv, RecordsOK
  <2> QED BY <2>1, <2>2, <2>3, <2>4 DEF NoiseTypeOK, NoiseInv, AnchorsOK, EngineTyped
<1> QED
  BY InitialNoise, NoisePreserved, <1>1, NoiseBoundsPreserved, <1>2, PTL DEF NoiseSpec

------------------------------------------------------------------------------
(* ClusterPersistence                                                      *)

Batches == [dirty : [ClusterKeys -> Versions], key : ClusterKeys,
            failed : BOOLEAN, at : {"idle", "next", "table", "commit"}]

(* No version is ahead of the counter, so the next one is new everywhere.  *)
Old == 0..version

VersionsAreOld ==
  /\ \A e \in Engines, k \in ClusterKeys :
       /\ memory[e][k] \in Old /\ signature[e][k] \in Old
       /\ batch[e].dirty[k] \in Old /\ promotion[e].records[k] \in Old
  /\ \A k \in ClusterKeys : mirror[k] \in Old /\ clusterRows[k] \in Old

(* A cluster that waits to be saved would not be skipped: since it was     *)
(* picked, neither its version nor its signature changed, or the           *)
(* signatures were dropped.                                                *)
WaitingIsDirty ==
  \A e \in Engines, k \in ClusterKeys :
    batch[e].dirty[k] # 0 => signature[e][k] = 0 \/ signature[e][k] # memory[e][k]

(* What is being saved has a version.                                      *)
SavingHasVersion ==
  \A e \in Engines : batch[e].at \in {"table", "commit"} => batch[e].dirty[batch[e].key] # 0

(* What is about to be committed is in the table.                          *)
ToCommitIsStored ==
  \A e \in Engines :
    batch[e].at = "commit" /\ <<e, batch[e].key>> \notin intruded
      => clusterRows[batch[e].key] = batch[e].dirty[batch[e].key]

(* What the next batch would skip is in the table, whoever is promoted.    *)
SkippedIsStored ==
  \A e \in Engines, k \in ClusterKeys :
    <<e, k>> \notin intruded /\ Skippable(e, k) => Stored(e, k)

ClusterInv ==
  /\ StoreTypeOK /\ VersionsAreOld /\ WaitingIsDirty /\ SavingHasVersion
  /\ ToCommitIsStored /\ SkippedIsStored

LEMMA EmptyIsOld == Empty \in [ClusterKeys -> Versions] /\ \A k \in ClusterKeys : Empty[k] = 0
BY PersistenceAssumption DEF Empty, Versions

LEMMA LapseIsCounted == ASSUME StoreTypeOK, Lapse PROVE lapses' \in 0..MaxLapses
<1>1. lapses \in 0..MaxLapses /\ MaxLapses \in Nat
  BY PersistenceAssumption DEF StoreTypeOK
<1> QED BY <1>1 DEF Lapse

LEMMA NoBatchIsBatch ==
  NoBatch \in Batches /\ NoBatch.at = "idle" /\ NoBatch.dirty = Empty
<1>1. (CHOOSE k \in ClusterKeys : TRUE) \in ClusterKeys
  BY PersistenceAssumption
<1> QED BY <1>1, EmptyIsOld DEF NoBatch, Batches

(* The signatures that are kept are those of before.                       *)
LEMMA CollectedIsTyped ==
  ASSUME NEW sig \in [ClusterKeys -> Versions], NEW mem, NEW S
  PROVE  /\ Collected(sig, mem, S) \in [ClusterKeys -> Versions]
         /\ \A k \in ClusterKeys : Collected(sig, mem, S)[k] \in {0, sig[k]}
BY PersistenceAssumption DEF Collected, Versions

LEMMA ClusterInvInit == StoreInit => ClusterInv
<1> SUFFICES ASSUME StoreInit PROVE ClusterInv
  OBVIOUS
<1>1. 0 \in Versions /\ 0 \in 0..MaxLapses
  BY PersistenceAssumption DEF Versions
<1>2. NoBatch \in Batches /\ NoBatch.at = "idle" /\ NoBatch.dirty = Empty
  BY NoBatchIsBatch
<1>3. Nothing \in [read : BOOLEAN, records : [ClusterKeys -> Versions]] /\ Nothing.records = Empty
  BY EmptyIsOld DEF Nothing
<1>4. StoreTypeOK
  BY <1>1, <1>2, <1>3, EmptyIsOld DEF StoreInit, StoreTypeOK, Batches
<1>5. VersionsAreOld
  <2>1. 0 \in Old BY DEF StoreInit, Old
  <2> QED BY <2>1, <1>2, <1>3, EmptyIsOld DEF StoreInit, VersionsAreOld
<1>6. WaitingIsDirty /\ SavingHasVersion /\ ToCommitIsStored /\ SkippedIsStored
  BY <1>2, EmptyIsOld DEF StoreInit, WaitingIsDirty, SavingHasVersion, ToCommitIsStored,
                          SkippedIsStored, Skippable
<1> QED BY <1>4, <1>5, <1>6 DEF ClusterInv

LEMMA ProcessAlertsKeeps ==
  ASSUME ClusterInv, NEW e \in Engines, ProcessAlerts(e) PROVE ClusterInv'
<1>1. PICK touched \in ClusterKeys, evicted \in SUBSET ClusterKeys, orphans \in SUBSET ClusterKeys :
        LET mem == [k \in ClusterKeys |-> IF k \in evicted THEN 0
                                          ELSE IF k = touched THEN version + 1 ELSE memory[e][k]]
        IN  /\ memory' = [memory EXCEPT ![e] = mem]
            /\ signature' = [signature EXCEPT ![e] = Collected(@, mem, orphans)]
            /\ batch' = [batch EXCEPT ![e] = [NoBatch EXCEPT !.at = "next",
                 !.dirty = [k \in ClusterKeys |-> IF signature[e][k] # mem[k] THEN mem[k] ELSE 0]]]
  BY DEF ProcessAlerts
<1> DEFINE mem == [k \in ClusterKeys |-> IF k \in evicted THEN 0
                                         ELSE IF k = touched THEN version + 1 ELSE memory[e][k]]
           sig == Collected(signature[e], mem, orphans)
           dirt == [k \in ClusterKeys |-> IF signature[e][k] # mem[k] THEN mem[k] ELSE 0]
           b == [NoBatch EXCEPT !.at = "next", !.dirty = dirt]
<1>2. /\ memory' = [memory EXCEPT ![e] = mem]
      /\ signature' = [signature EXCEPT ![e] = sig]
      /\ batch' = [batch EXCEPT ![e] = b]
  BY <1>1
<1>3. UNCHANGED <<promotion, processing, promoted, mirror, clusterRows, intruded, lapses>>
      /\ version' = version + 1
  BY DEF ProcessAlerts, storeVars
<1>4. version \in Nat /\ version + 1 \in Versions /\ version + 1 # 0
  <2>1. version \in 0..MaxVersion BY DEF ClusterInv, StoreTypeOK, Versions
  <2> QED BY <2>1, PersistenceAssumption DEF ProcessAlerts, Versions
<1>5. 0 \in Versions /\ 0 \in Old' /\ version + 1 \in Old' /\ (\A x \in Old : x \in Old' /\ x # version + 1)
  <2>1. version' = version + 1 BY <1>3
  <2>2. 0 \in Versions BY PersistenceAssumption DEF Versions
  <2> QED BY <2>1, <2>2, <1>4 DEF Old
<1>6. memory[e] \in [ClusterKeys -> Versions] /\ signature[e] \in [ClusterKeys -> Versions]
  BY DEF ClusterInv, StoreTypeOK
<1>7. /\ mem \in [ClusterKeys -> Versions]
      /\ \A k \in ClusterKeys : mem[k] \in {0, version + 1, memory[e][k]}
  BY <1>4, <1>5, <1>6
<1>8. sig \in [ClusterKeys -> Versions] /\ \A k \in ClusterKeys : sig[k] \in {0, signature[e][k]}
  BY <1>6, CollectedIsTyped
<1>9. /\ dirt \in [ClusterKeys -> Versions]
      /\ \A k \in ClusterKeys : dirt[k] = IF signature[e][k] # mem[k] THEN mem[k] ELSE 0
  BY <1>5, <1>7
<1> HIDE DEF mem, sig, dirt
<1>10. b \in Batches /\ b.at = "next" /\ b.dirty = dirt
  BY <1>9, NoBatchIsBatch DEF Batches
<1> HIDE DEF b
<1>11. StoreTypeOK'
  BY <1>2, <1>3, <1>4, <1>7, <1>8, <1>10 DEF ClusterInv, StoreTypeOK, Batches
<1>12. \A f \in Engines : /\ memory'[f] = IF f = e THEN mem ELSE memory[f]
                          /\ signature'[f] = IF f = e THEN sig ELSE signature[f]
                          /\ batch'[f] = IF f = e THEN b ELSE batch[f]
  BY <1>2 DEF ClusterInv, StoreTypeOK
<1>13. \A k \in ClusterKeys : mem[k] \in Old' /\ sig[k] \in Old' /\ dirt[k] \in Old'
  BY <1>5, <1>7, <1>8, <1>9 DEF ClusterInv, VersionsAreOld
<1>14. VersionsAreOld'
  BY <1>3, <1>5, <1>10, <1>12, <1>13 DEF ClusterInv, VersionsAreOld
<1>15. WaitingIsDirty'
  BY <1>8, <1>9, <1>10, <1>12 DEF ClusterInv, WaitingIsDirty
<1>16. SavingHasVersion' /\ ToCommitIsStored'
  BY <1>3, <1>10, <1>12 DEF ClusterInv, SavingHasVersion, ToCommitIsStored
<1>17. SkippedIsStored'
  <2> SUFFICES ASSUME NEW f \in Engines, NEW k \in ClusterKeys, <<f, k>> \notin intruded,
                      memory'[f][k] # 0, signature'[f][k] = memory'[f][k]
               PROVE  clusterRows[k] = memory'[f][k]
    BY <1>3 DEF SkippedIsStored, Skippable, Stored
  <2>1. CASE f # e
    BY <2>1, <1>12 DEF ClusterInv, SkippedIsStored, Skippable, Stored
  <2>2. CASE f = e
    <3>1. mem[k] # 0 /\ sig[k] = mem[k] BY <2>2, <1>12
    <3>2. sig[k] = signature[e][k] BY <3>1, <1>8
    <3>3. signature[e][k] # version + 1 BY <1>5 DEF ClusterInv, VersionsAreOld
    <3>4. mem[k] = memory[e][k] BY <3>1, <3>2, <3>3, <1>7
    <3>5. memory'[f][k] = memory[e][k] BY <3>4, <2>2, <1>12
    <3> QED BY <2>2, <3>1, <3>2, <3>4, <3>5 DEF ClusterInv, SkippedIsStored, Skippable, Stored
  <2> QED BY <2>1, <2>2
<1> QED BY <1>11, <1>14, <1>15, <1>16, <1>17 DEF ClusterInv

(* A step of the batch of e that changes neither memory nor signatures,    *)
(* and of the dirty clusters at most takes one off the list.               *)
LEMMA BatchStep ==
  ASSUME ClusterInv, NEW e \in Engines, NEW b \in Batches, batch' = [batch EXCEPT ![e] = b],
         \A k \in ClusterKeys : b.dirty[k] \in {0, batch[e].dirty[k]},
         b.at \in {"table", "commit"} => b.dirty[b.key] # 0,
         \A k \in ClusterKeys : mirror'[k] \in Old, mirror' \in [ClusterKeys -> Versions],
         lapses' \in 0..MaxLapses,
         UNCHANGED <<memory, signature, promotion, processing, promoted, version>>
  PROVE  /\ \A f \in Engines : batch'[f] = IF f = e THEN b ELSE batch[f]
         /\ clusterRows' \in [ClusterKeys -> Versions] /\ intruded' \subseteq Engines \X ClusterKeys
              => StoreTypeOK'
         /\ (\A k \in ClusterKeys : clusterRows'[k] \in Old) => VersionsAreOld'
         /\ WaitingIsDirty' /\ SavingHasVersion'
<1>1. \A f \in Engines : batch'[f] = IF f = e THEN b ELSE batch[f]
  BY DEF ClusterInv, StoreTypeOK
<1>2. clusterRows' \in [ClusterKeys -> Versions] /\ intruded' \subseteq Engines \X ClusterKeys => StoreTypeOK'
  BY DEF ClusterInv, StoreTypeOK, Batches
<1>3. Old' = Old /\ 0 \in Old
  <2>1. version \in Nat BY PersistenceAssumption DEF ClusterInv, StoreTypeOK, Versions
  <2> QED BY <2>1 DEF Old
<1>4. (\A k \in ClusterKeys : clusterRows'[k] \in Old) => VersionsAreOld'
  BY <1>1, <1>3 DEF ClusterInv, VersionsAreOld
<1>5. WaitingIsDirty' /\ SavingHasVersion'
  BY <1>1 DEF ClusterInv, WaitingIsDirty, SavingHasVersion
<1> QED BY <1>1, <1>2, <1>4, <1>5

LEMMA SaveMirrorKeeps ==
  ASSUME ClusterInv, NEW e \in Engines, SaveMirror(e) PROVE ClusterInv'
<1>1. PICK k \in ClusterKeys :
        /\ batch[e].dirty[k] # 0
        /\ \/ /\ mirror' = [mirror EXCEPT ![k] = batch[e].dirty[k]]
              /\ batch' = [batch EXCEPT ![e].at = "table", ![e].key = k]
              /\ UNCHANGED lapses
           \/ /\ Lapse
              /\ batch' = [batch EXCEPT ![e].at = "table", ![e].key = k, ![e].failed = TRUE]
              /\ UNCHANGED mirror
  BY DEF SaveMirror
<1>2. UNCHANGED <<memory, signature, promotion, processing, promoted, clusterRows, intruded, version>>
  BY DEF SaveMirror
<1>3. PICK fails \in BOOLEAN :
        batch' = [batch EXCEPT ![e] = [batch[e] EXCEPT !.at = "table", !.key = k, !.failed = fails]]
  <2>1. batch[e] \in Batches BY DEF ClusterInv, StoreTypeOK, Batches
  <2>2. [batch[e] EXCEPT !.at = "table", !.key = k]
          = [batch[e] EXCEPT !.at = "table", !.key = k, !.failed = batch[e].failed]
    BY <2>1 DEF Batches
  <2>3. batch[e].failed \in BOOLEAN BY <2>1 DEF Batches
  <2>4. CASE batch' = [batch EXCEPT ![e].at = "table", ![e].key = k]
    <3>1. batch' = [batch EXCEPT ![e] = [batch[e] EXCEPT !.at = "table", !.key = k]] BY <2>4
    <3> QED BY <3>1, <2>2, <2>3
  <2>5. CASE batch' = [batch EXCEPT ![e].at = "table", ![e].key = k, ![e].failed = TRUE]
    BY <2>5
  <2> QED BY <1>1, <2>4, <2>5
<1> DEFINE b == [batch[e] EXCEPT !.at = "table", !.key = k, !.failed = fails]
<1>4. b \in Batches /\ b.at = "table" /\ b.key = k /\ b.dirty = batch[e].dirty
  <2>1. batch[e] \in Batches BY DEF ClusterInv, StoreTypeOK, Batches
  <2> QED BY <2>1 DEF Batches
<1>5. batch' = [batch EXCEPT ![e] = b] BY <1>3
<1> HIDE DEF b
<1>6. batch[e].dirty[k] \in Versions /\ batch[e].dirty[k] \in Old
  BY DEF ClusterInv, StoreTypeOK, VersionsAreOld
<1>7. /\ mirror' \in [ClusterKeys -> Versions]
      /\ \A j \in ClusterKeys : mirror'[j] \in Old
  BY <1>1, <1>6 DEF ClusterInv, StoreTypeOK, VersionsAreOld
<1>8. lapses' \in 0..MaxLapses
  BY <1>1, LapseIsCounted DEF ClusterInv, StoreTypeOK
<1>9. /\ \A f \in Engines : batch'[f] = IF f = e THEN b ELSE batch[f]
      /\ clusterRows' \in [ClusterKeys -> Versions] /\ intruded' \subseteq Engines \X ClusterKeys => StoreTypeOK'
      /\ (\A j \in ClusterKeys : clusterRows'[j] \in Old) => VersionsAreOld'
      /\ WaitingIsDirty' /\ SavingHasVersion'
  <2>1. \A j \in ClusterKeys : b.dirty[j] \in {0, batch[e].dirty[j]} BY <1>4
  <2>2. b.at \in {"table", "commit"} => b.dirty[b.key] # 0 BY <1>1, <1>4
  <2> QED BY <2>1, <2>2, <1>2, <1>4, <1>5, <1>7, <1>8, BatchStep
<1>10. StoreTypeOK' /\ VersionsAreOld'
  BY <1>2, <1>9 DEF ClusterInv, StoreTypeOK, VersionsAreOld
<1>11. ToCommitIsStored' /\ SkippedIsStored'
  BY <1>2, <1>4, <1>9 DEF ClusterInv, ToCommitIsStored, SkippedIsStored, Skippable, Stored
<1> QED BY <1>9, <1>10, <1>11 DEF ClusterInv

LEMMA SaveTableKeeps ==
  ASSUME ClusterInv, NEW e \in Engines, SaveTable(e) PROVE ClusterInv'
<1> DEFINE k == batch[e].key
           d == batch[e].dirty[k]
           done == [batch[e] EXCEPT !.at = "next", !.dirty[k] = 0, !.failed = FALSE]
           toCommit == [batch[e] EXCEPT !.at = "commit"]
<1>1. batch[e] \in Batches /\ batch[e].at = "table" /\ k \in ClusterKeys /\ d # 0
      /\ batch[e].dirty \in [ClusterKeys -> Versions]
  BY DEF SaveTable, ClusterInv, StoreTypeOK, Batches, SavingHasVersion
<1>2. UNCHANGED <<memory, signature, promotion, processing, promoted, mirror, version>>
  BY DEF SaveTable
<1>0. 0 \in Versions BY PersistenceAssumption DEF Versions
<1>3. /\ done \in Batches /\ done.at = "next"
      /\ \A j \in ClusterKeys : done.dirty[j] \in {0, batch[e].dirty[j]}
  BY <1>0, <1>1 DEF Batches
<1>4. /\ toCommit \in Batches /\ toCommit.at = "commit" /\ toCommit.key = k
      /\ toCommit.dirty = batch[e].dirty
  BY <1>1 DEF Batches
<1>5. PICK b \in {done, toCommit} : batch' = [batch EXCEPT ![e] = b]
  BY DEF SaveTable
<1>6. /\ b \in Batches
      /\ \A j \in ClusterKeys : b.dirty[j] \in {0, batch[e].dirty[j]}
      /\ b.at \in {"table", "commit"} => b.dirty[b.key] # 0
      /\ b.at = "commit" => b.key = k /\ b.dirty[k] = d
      /\ b.at # "table"
  BY <1>1, <1>3, <1>4
<1>7. d \in Versions /\ d \in Old
  BY <1>1 DEF ClusterInv, VersionsAreOld
<1>8. \/ /\ clusterRows' = [clusterRows EXCEPT ![k] = d]
         /\ intruded' = intruded \cup ((Engines \ {e}) \X {k})
         /\ UNCHANGED lapses
      \/ /\ Lapse /\ b.at = "next" /\ UNCHANGED <<clusterRows, intruded>>
  <2>1. CASE clusterRows' = [clusterRows EXCEPT ![k] = d]
             /\ intruded' = intruded \cup ((Engines \ {e}) \X {k}) /\ UNCHANGED lapses
    BY <2>1
  <2>2. CASE Lapse /\ batch' = [batch EXCEPT ![e] = done] /\ UNCHANGED <<clusterRows, intruded>>
    <3>1. b = done
      <4>1. batch'[e] = b BY <1>5 DEF ClusterInv, StoreTypeOK
      <4>2. batch'[e] = done BY <2>2 DEF ClusterInv, StoreTypeOK
      <4> QED BY <4>1, <4>2
    <3> QED BY <2>2, <3>1, <1>3
  <2> QED BY <2>1, <2>2 DEF SaveTable
<1> HIDE DEF done, toCommit, d, k
<1>9. /\ clusterRows' \in [ClusterKeys -> Versions]
      /\ \A j \in ClusterKeys : clusterRows'[j] \in Old
      /\ intruded' \subseteq Engines \X ClusterKeys
      /\ lapses' \in 0..MaxLapses
  <2>1. clusterRows \in [ClusterKeys -> Versions] /\ intruded \subseteq Engines \X ClusterKeys
        /\ lapses \in 0..MaxLapses /\ \A j \in ClusterKeys : clusterRows[j] \in Old
    BY DEF ClusterInv, StoreTypeOK, VersionsAreOld
  <2>2. lapses' \in 0..MaxLapses
    BY <2>1, <1>8, LapseIsCounted DEF ClusterInv
  <2>3. (Engines \ {e}) \X {k} \subseteq Engines \X ClusterKeys
    BY <1>1
  <2> QED BY <1>1, <1>7, <1>8, <2>1, <2>2, <2>3
<1>10. /\ \A f \in Engines : batch'[f] = IF f = e THEN b ELSE batch[f]
       /\ StoreTypeOK' /\ VersionsAreOld' /\ WaitingIsDirty' /\ SavingHasVersion'
  <2>1. (\A j \in ClusterKeys : mirror'[j] \in Old) /\ mirror' \in [ClusterKeys -> Versions]
    BY <1>2 DEF ClusterInv, StoreTypeOK, VersionsAreOld
  <2> QED BY <2>1, <1>2, <1>5, <1>6, <1>9, BatchStep
<1>11. ToCommitIsStored'
  <2> SUFFICES ASSUME NEW f \in Engines, batch'[f].at = "commit", <<f, batch'[f].key>> \notin intruded'
               PROVE  clusterRows'[batch'[f].key] = batch'[f].dirty[batch'[f].key]
    BY DEF ToCommitIsStored
  <2>1. CASE f = e
    <3>1. batch'[f] = b /\ b.at = "commit" /\ b.key = k /\ b.dirty[k] = d
      BY <2>1, <1>6, <1>10
    <3>2. clusterRows'[k] = d
      BY <3>1, <1>1, <1>8 DEF ClusterInv, StoreTypeOK
    <3> QED BY <3>1, <3>2
  <2>2. CASE f # e
    <3>1. batch'[f] = batch[f] BY <2>2, <1>10
    <3>2. batch[f].key \in ClusterKeys BY DEF ClusterInv, StoreTypeOK
    <3>3. <<f, batch[f].key>> \notin intruded BY <3>1, <1>8
    <3>4. clusterRows'[batch[f].key] = clusterRows[batch[f].key]
      BY <2>2, <3>1, <3>2, <1>1, <1>8 DEF ClusterInv, StoreTypeOK
    <3> QED BY <3>1, <3>3, <3>4 DEF ClusterInv, ToCommitIsStored
  <2> QED BY <2>1, <2>2
<1>12. SkippedIsStored'
  <2> SUFFICES ASSUME NEW f \in Engines, NEW j \in ClusterKeys, <<f, j>> \notin intruded',
                      memory[f][j] # 0, signature[f][j] = memory[f][j]
               PROVE  clusterRows'[j] = memory[f][j]
    BY <1>2 DEF SkippedIsStored, Skippable, Stored
  <2>1. <<f, j>> \notin intruded BY <1>8
  <2>2. clusterRows[j] = memory[f][j]
    BY <2>1 DEF ClusterInv, SkippedIsStored, Skippable, Stored
  <2>3. j = k => f # e
    BY <1>1 DEF ClusterInv, WaitingIsDirty, d
  <2>4. clusterRows'[j] = clusterRows[j]
    BY <2>3, <1>1, <1>8 DEF ClusterInv, StoreTypeOK
  <2> QED BY <2>2, <2>4
<1> QED BY <1>10, <1>11, <1>12 DEF ClusterInv

LEMMA CommitKeeps ==
  ASSUME ClusterInv, NEW e \in Engines, Commit(e) PROVE ClusterInv'
<1> DEFINE k == batch[e].key
           d == batch[e].dirty[k]
           b == [batch[e] EXCEPT !.at = "next", !.dirty[k] = 0]
<1>1. batch[e] \in Batches /\ batch[e].at = "commit" /\ k \in ClusterKeys
      /\ batch[e].dirty \in [ClusterKeys -> Versions]
  BY DEF Commit, ClusterInv, StoreTypeOK, Batches
<1>2. /\ signature' = [signature EXCEPT ![e][k] = d]
      /\ UNCHANGED <<memory, promotion, processing, promoted, mirror, clusterRows, intruded, version, lapses>>
  BY DEF Commit, storeVars
<1>3. batch' = [batch EXCEPT ![e] = b]
  BY DEF Commit
<1>4. 0 \in Versions /\ 0 \in Old
  <2>1. version \in 0..MaxVersion BY DEF ClusterInv, StoreTypeOK, Versions
  <2> QED BY <2>1, PersistenceAssumption DEF Versions, Old
<1>5. /\ b \in Batches /\ b.at = "next"
      /\ \A j \in ClusterKeys : b.dirty[j] = IF j = k THEN 0 ELSE batch[e].dirty[j]
  BY <1>1, <1>4 DEF Batches
<1>6. d \in Versions /\ d \in Old
  BY <1>1 DEF ClusterInv, VersionsAreOld
<1>7. <<e, k>> \notin intruded => clusterRows[k] = d
  BY <1>1 DEF ClusterInv, ToCommitIsStored
<1> HIDE DEF b, d, k
<1>8. \A f \in Engines : batch'[f] = IF f = e THEN b ELSE batch[f]
  BY <1>3 DEF ClusterInv, StoreTypeOK
<1>9. \A f \in Engines, j \in ClusterKeys :
        signature'[f][j] = IF f = e /\ j = k THEN d ELSE signature[f][j]
  BY <1>1, <1>2 DEF ClusterInv, StoreTypeOK
<1>10. StoreTypeOK'
  BY <1>1, <1>2, <1>3, <1>5, <1>6 DEF ClusterInv, StoreTypeOK, Batches
<1>11. VersionsAreOld'
  <2>1. Old' = Old BY <1>2 DEF Old
  <2> QED BY <2>1, <1>2, <1>4, <1>5, <1>6, <1>8, <1>9 DEF ClusterInv, VersionsAreOld
<1>12. WaitingIsDirty' /\ SavingHasVersion' /\ ToCommitIsStored'
  BY <1>2, <1>5, <1>8, <1>9 DEF ClusterInv, WaitingIsDirty, SavingHasVersion, ToCommitIsStored
<1>13. SkippedIsStored'
  BY <1>2, <1>7, <1>9 DEF ClusterInv, SkippedIsStored, Skippable, Stored
<1> QED BY <1>10, <1>11, <1>12, <1>13 DEF ClusterInv

LEMMA BatchEndsKeeps ==
  ASSUME ClusterInv, NEW e \in Engines, BatchEnds(e) PROVE ClusterInv'
<1>1. PICK orphans \in SUBSET ClusterKeys :
        signature' = [signature EXCEPT ![e] = Collected(signature[e], memory[e], orphans)]
  BY DEF BatchEnds
<1> DEFINE sig == Collected(signature[e], memory[e], orphans)
<1>2. /\ batch' = [batch EXCEPT ![e] = NoBatch]
      /\ UNCHANGED <<memory, promotion, processing, promoted, mirror, clusterRows, intruded, version, lapses>>
  BY DEF BatchEnds, storeVars
<1>3. sig \in [ClusterKeys -> Versions] /\ \A k \in ClusterKeys : sig[k] \in {0, signature[e][k]}
  BY CollectedIsTyped DEF ClusterInv, StoreTypeOK
<1>4. signature' = [signature EXCEPT ![e] = sig] BY <1>1
<1> HIDE DEF sig
<1>5. \A f \in Engines : /\ batch'[f] = IF f = e THEN NoBatch ELSE batch[f]
                         /\ signature'[f] = IF f = e THEN sig ELSE signature[f]
  BY <1>2, <1>4 DEF ClusterInv, StoreTypeOK
<1>6. NoBatch \in Batches /\ NoBatch.at = "idle" /\ \A k \in ClusterKeys : NoBatch.dirty[k] = 0
  BY NoBatchIsBatch, EmptyIsOld
<1>7. StoreTypeOK'
  BY <1>2, <1>3, <1>4, <1>6 DEF ClusterInv, StoreTypeOK, Batches
<1>8. VersionsAreOld'
  <2>1. Old' = Old BY <1>2 DEF Old
  <2>2. 0 \in Old
    <3>1. version \in 0..MaxVersion BY DEF ClusterInv, StoreTypeOK, Versions
    <3> QED BY <3>1, PersistenceAssumption DEF Old
  <2> QED BY <2>1, <2>2, <1>2, <1>3, <1>5, <1>6 DEF ClusterInv, VersionsAreOld
<1>9. WaitingIsDirty' /\ SavingHasVersion' /\ ToCommitIsStored' /\ SkippedIsStored'
  BY <1>2, <1>3, <1>5, <1>6 DEF ClusterInv, WaitingIsDirty, SavingHasVersion, ToCommitIsStored,
                               SkippedIsStored, Skippable, Stored
<1> QED BY <1>7, <1>8, <1>9 DEF ClusterInv

(* A step that leaves the batches, the table and what was skipped alone.   *)
LEMMA QuietStep ==
  ASSUME ClusterInv, StoreTypeOK',
         UNCHANGED <<memory, signature, batch, clusterRows, intruded, version>>,
         \A k \in ClusterKeys : mirror'[k] \in Old,
         \A e \in Engines, k \in ClusterKeys : promotion'[e].records[k] \in Old
  PROVE  ClusterInv'
<1>1. Old' = Old BY DEF Old
<1>2. VersionsAreOld'
  BY <1>1 DEF ClusterInv, VersionsAreOld
<1>3. WaitingIsDirty' /\ SavingHasVersion' /\ ToCommitIsStored' /\ SkippedIsStored'
  BY DEF ClusterInv, WaitingIsDirty, SavingHasVersion, ToCommitIsStored, SkippedIsStored,
         Skippable, Stored
<1> QED BY <1>2, <1>3 DEF ClusterInv

LEMMA ZeroIsOld == StoreTypeOK => 0 \in Old /\ 0 \in Versions
<1> SUFFICES ASSUME StoreTypeOK PROVE 0 \in Old /\ 0 \in Versions
  OBVIOUS
<1>1. version \in 0..MaxVersion BY DEF StoreTypeOK, Versions
<1> QED BY <1>1, PersistenceAssumption DEF Old, Versions

LEMMA LoadKeeps ==
  ASSUME ClusterInv, NEW e \in Engines, Load(e) PROVE ClusterInv'
<1>1. PICK records \in {mirror, clusterRows, Empty} :
        promotion' = [promotion EXCEPT ![e] = [read |-> TRUE, records |-> records]]
  BY DEF Load
<1>2. UNCHANGED <<memory, signature, batch, processing, promoted, mirror, clusterRows, intruded, version>>
  BY DEF Load, engineVars, storeVars
<1>3. lapses' \in 0..MaxLapses
  <2>1. lapses' = lapses \/ Lapse BY DEF Load
  <2> QED BY <2>1, LapseIsCounted DEF ClusterInv, StoreTypeOK
<1>4. records \in [ClusterKeys -> Versions] /\ \A k \in ClusterKeys : records[k] \in Old
  <2>1. 0 \in Old BY ZeroIsOld DEF ClusterInv
  <2> QED BY <2>1, EmptyIsOld DEF ClusterInv, StoreTypeOK, VersionsAreOld
<1>5. StoreTypeOK'
  BY <1>1, <1>2, <1>3, <1>4 DEF ClusterInv, StoreTypeOK
<1>6. \A f \in Engines, k \in ClusterKeys : promotion'[f].records[k] \in Old
  BY <1>1, <1>4 DEF ClusterInv, StoreTypeOK, VersionsAreOld
<1>7. \A k \in ClusterKeys : mirror'[k] \in Old
  BY <1>2 DEF ClusterInv, VersionsAreOld
<1> QED BY <1>2, <1>5, <1>6, <1>7, QuietStep

LEMMA BecomeLeaderKeeps ==
  ASSUME ClusterInv, NEW e \in Engines, BecomeLeader(e) PROVE ClusterInv'
<1>1. /\ memory' = [memory EXCEPT ![e] = promotion[e].records]
      /\ signature' = [signature EXCEPT ![e] = Empty]
      /\ promotion' = [promotion EXCEPT ![e] = Nothing]
      /\ promoted' = e /\ processing' = processing \cup {e}
      /\ UNCHANGED <<batch, mirror, clusterRows, version, lapses>>
  BY DEF BecomeLeader, Restored
<1>2. intruded' = IF batch[e].at = "idle" THEN intruded \ ({e} \X ClusterKeys) ELSE intruded
  BY DEF BecomeLeader
<1>3. promotion[e].records \in [ClusterKeys -> Versions] /\ \A k \in ClusterKeys : promotion[e].records[k] \in Old
  BY DEF ClusterInv, StoreTypeOK, VersionsAreOld
<1>4. Nothing \in [read : BOOLEAN, records : [ClusterKeys -> Versions]] /\ Nothing.records = Empty
  BY EmptyIsOld DEF Nothing
<1>5. StoreTypeOK'
  BY <1>1, <1>2, <1>3, <1>4, EmptyIsOld DEF ClusterInv, StoreTypeOK
<1>6. \A f \in Engines :
        /\ memory'[f] = IF f = e THEN promotion[e].records ELSE memory[f]
        /\ signature'[f] = IF f = e THEN Empty ELSE signature[f]
        /\ promotion'[f] = IF f = e THEN Nothing ELSE promotion[f]
  BY <1>1 DEF ClusterInv, StoreTypeOK
<1>7. VersionsAreOld'
  <2>1. Old' = Old BY <1>1 DEF Old
  <2>2. 0 \in Old BY ZeroIsOld DEF ClusterInv
  <2> QED BY <2>1, <2>2, <1>1, <1>3, <1>4, <1>6, EmptyIsOld DEF ClusterInv, VersionsAreOld
<1>8. WaitingIsDirty' /\ SavingHasVersion'
  BY <1>1, <1>6, EmptyIsOld DEF ClusterInv, WaitingIsDirty, SavingHasVersion
<1>9. \A f \in Engines, k \in ClusterKeys : <<f, k>> \notin intruded' =>
        <<f, k>> \notin intruded \/ (f = e /\ batch[e].at = "idle")
  BY <1>2
<1>10. ToCommitIsStored'
  <2>1. \A f \in Engines : batch[f].key \in ClusterKeys BY DEF ClusterInv, StoreTypeOK
  <2> QED BY <2>1, <1>1, <1>9 DEF ClusterInv, ToCommitIsStored
<1>11. SkippedIsStored'
  BY <1>1, <1>6, <1>9, EmptyIsOld DEF ClusterInv, SkippedIsStored, Skippable, Stored
<1> QED BY <1>5, <1>7, <1>8, <1>10, <1>11 DEF ClusterInv

LEMMA EngineDiesKeeps ==
  ASSUME ClusterInv, NEW e \in Engines, EngineDies(e) PROVE ClusterInv'
<1>1. /\ memory' = [memory EXCEPT ![e] = Empty]
      /\ signature' = [signature EXCEPT ![e] = Empty]
      /\ batch' = [batch EXCEPT ![e] = NoBatch]
      /\ promotion' = [promotion EXCEPT ![e] = Nothing]
      /\ processing' = processing \ {e}
      /\ promoted' = IF promoted = e THEN NoEngine ELSE promoted
      /\ UNCHANGED <<mirror, clusterRows, intruded, version>>
  BY DEF EngineDies, storeVars
<1>2. lapses' \in 0..MaxLapses
  BY LapseIsCounted DEF EngineDies, ClusterInv
<1>3. Nothing \in [read : BOOLEAN, records : [ClusterKeys -> Versions]] /\ Nothing.records = Empty
  BY EmptyIsOld DEF Nothing
<1>4. NoBatch \in Batches /\ NoBatch.at = "idle" /\ NoBatch.dirty = Empty
  BY NoBatchIsBatch
<1>5. StoreTypeOK'
  BY <1>1, <1>2, <1>3, <1>4, EmptyIsOld DEF ClusterInv, StoreTypeOK, Batches
<1>6. \A f \in Engines :
        /\ memory'[f] = IF f = e THEN Empty ELSE memory[f]
        /\ signature'[f] = IF f = e THEN Empty ELSE signature[f]
        /\ batch'[f] = IF f = e THEN NoBatch ELSE batch[f]
        /\ promotion'[f] = IF f = e THEN Nothing ELSE promotion[f]
  BY <1>1 DEF ClusterInv, StoreTypeOK
<1>7. VersionsAreOld'
  <2>1. Old' = Old BY <1>1 DEF Old
  <2>2. 0 \in Old BY ZeroIsOld DEF ClusterInv
  <2> QED BY <2>1, <2>2, <1>1, <1>3, <1>4, <1>6, EmptyIsOld DEF ClusterInv, VersionsAreOld
<1>8. WaitingIsDirty' /\ SavingHasVersion' /\ ToCommitIsStored' /\ SkippedIsStored'
  BY <1>1, <1>4, <1>6, EmptyIsOld DEF ClusterInv, WaitingIsDirty, SavingHasVersion, ToCommitIsStored,
                                      SkippedIsStored, Skippable, Stored
<1> QED BY <1>5, <1>7, <1>8 DEF ClusterInv

LEMMA ClusterInvPreserved == ClusterInv /\ [StoreNext]_clusterStoreVars => ClusterInv'
<1> SUFFICES ASSUME ClusterInv, [StoreNext]_clusterStoreVars PROVE ClusterInv'
  OBVIOUS
<1>1. (\A k \in ClusterKeys : mirror[k] \in Old)
      /\ \A e \in Engines, k \in ClusterKeys : promotion[e].records[k] \in Old
  BY DEF ClusterInv, VersionsAreOld
<1>2. ASSUME NEW e \in Engines, EngineLoopsReturn(e) \/ StepDown(e) PROVE ClusterInv'
  <2>1. /\ UNCHANGED <<memory, signature, batch, promotion, mirror, clusterRows, intruded, version, lapses>>
        /\ processing' \subseteq processing /\ promoted' \in {promoted, NoEngine}
    BY <1>2 DEF EngineLoopsReturn, StepDown, engineVars, storeVars
  <2>2. StoreTypeOK' BY <2>1 DEF ClusterInv, StoreTypeOK
  <2> QED BY <1>1, <2>1, <2>2, QuietStep
<1>3. CASE MirrorLost
  <2>1. mirror' = Empty /\ UNCHANGED <<memory, signature, batch, promotion, processing, promoted,
                                       clusterRows, intruded, version>>
    BY <1>3 DEF MirrorLost, engineVars
  <2>2. lapses' \in 0..MaxLapses BY <1>3, LapseIsCounted DEF MirrorLost, ClusterInv
  <2>3. StoreTypeOK' BY <2>1, <2>2, EmptyIsOld DEF ClusterInv, StoreTypeOK
  <2>4. \A k \in ClusterKeys : mirror'[k] \in Old
    <3>1. 0 \in Old BY ZeroIsOld DEF ClusterInv
    <3> QED BY <2>1, <3>1, EmptyIsOld
  <2> QED BY <1>1, <2>1, <2>3, <2>4, QuietStep
<1>4. CASE UNCHANGED clusterStoreVars
  <2>1. UNCHANGED <<memory, signature, batch, promotion, processing, promoted, mirror,
                    clusterRows, intruded, version, lapses>>
    BY <1>4 DEF clusterStoreVars, engineVars, storeVars
  <2>2. StoreTypeOK' BY <2>1 DEF ClusterInv, StoreTypeOK
  <2> QED BY <1>1, <2>1, <2>2, QuietStep
<1> QED
  BY <1>2, <1>3, <1>4, ProcessAlertsKeeps, SaveMirrorKeeps, SaveTableKeeps, CommitKeeps,
     BatchEndsKeeps, LoadKeeps, BecomeLeaderKeeps, EngineDiesKeeps
  DEF StoreNext

(* Type correctness of the stores of the clusters.                         *)
THEOREM ClusterStoreTypeCorrect == StoreSpec => []StoreTypeOK
<1>1. ClusterInv => StoreTypeOK BY DEF ClusterInv
<1> QED BY <1>1, ClusterInvInit, ClusterInvPreserved, PTL DEF StoreSpec

(* What the promoted instance considers saved is in the table, for any     *)
(* number of instances, clusters, versions and failures.                   *)
THEOREM CommittedStaysStored == StoreSpec => []CommittedIsStored
<1>1. ClusterInv => CommittedIsStored
  BY DEF ClusterInv, SkippedIsStored, CommittedIsStored
<1> QED BY <1>1, ClusterInvInit, ClusterInvPreserved, PTL DEF StoreSpec

------------------------------------------------------------------------------
(* EnforceExit                                                             *)

Tallies == [suppressed : Nat, dispatched : Nat]

AtMost(a, b) == a.suppressed <= b.suppressed /\ a.dispatched <= b.dispatched

(* While nothing was counted everything is zero; from then on neither the  *)
(* row nor a memory is ahead of what passed.                               *)
CountsOK ==
  /\ gateCounts \in [Enforcers -> Tallies] /\ gateRow \in Tallies /\ passed \in Tallies
  /\ countedBy = {} => gateRow = Zero /\ passed = Zero /\ \A e \in Enforcers : gateCounts[e] = Zero
  /\ AtMost(gateRow, passed) /\ \A e \in Enforcers : AtMost(gateCounts[e], passed)
  /\ \A e \in Enforcers : countedBy = {e} /\ intact => gateCounts[e] = passed

Outgoing ==
  [at : {"idle", "admit", "create", "attach"}, pending : Seq(Verdicts), requests : Seq(Opened),
   on : Domain!Ids \cup {Unattached}]

(* An instance is about an incident exactly while it attaches.             *)
RequestsOK ==
  /\ exit \in [Enforcers -> Outgoing]
  /\ \A e \in Enforcers :
       /\ exit[e].at = "attach" <=> exit[e].on # Unattached
       /\ exit[e].at = "attach" => exit[e].requests # <<>>

IncidentsOK ==
  /\ Domain!TypeOK
  /\ \A i \in handled : i \in Domain!Ids /\ Domain!Exists(i)

ExitInv == CountsOK /\ RequestsOK /\ IncidentsOK /\ DomainIsKept

LEMMA NobodyIsNoIncident == Unattached \notin Domain!Ids
BY ExitAssumption DEF Domain!Ids, Domain!Generations

------------------------------------------------------------------------------
(* What others may do to the incidents                                     *)

(* Incidents keep their types; one that was there and is unresolved after  *)
(* the step was unresolved before it and lost no cluster.                  *)
KeepsIncidents ==
  /\ Domain!TypeOK'
  /\ \A i \in Domain!Ids : Domain!Exists(i) /\ Domain!Unresolved(i)' =>
       Domain!Unresolved(i) /\ \A k \in Opened : owner[k] = i => owner'[k] = i

LEMMA FreshKeeps ==
  ASSUME Domain!TypeOK, NEW i \in Domain!Ids, ~Domain!Exists(i),
         NEW o \in {"manual", "external"}, NEW p \in {"auto", "manual_only"},
         exitInc' = [exitInc EXCEPT ![i] = Domain!Fresh(o, p)], owner' = owner
  PROVE  KeepsIncidents
<1>1. Domain!Fresh(o, p) \in Domain!Incident
  BY DEF Domain!Fresh, Domain!Incident, Domain!States
<1>2. Domain!TypeOK' BY <1>1 DEF Domain!TypeOK
<1>3. \A j \in Domain!Ids : j # i => exitInc'[j] = exitInc[j]
  BY DEF Domain!TypeOK
<1> QED BY <1>2, <1>3 DEF KeepsIncidents, Domain!Exists, Domain!Unresolved

LEMMA UpsertKeeps ==
  ASSUME Domain!TypeOK, NEW alert \in Alerts, NEW i \in Domain!Ids, Domain!UpsertExternal(alert, i)
  PROVE  /\ KeepsIncidents /\ Domain!Exists(i)'
         /\ \A j \in Domain!Ids : Domain!Exists(j) => Domain!Exists(j)'
<1>1. CASE Domain!Refresh(alert, i)
  BY <1>1 DEF Domain!Refresh, Domain!svars, KeepsIncidents, Domain!TypeOK, Domain!Exists,
              Domain!Unresolved
<1>2. CASE Domain!Recur(alert, i)
  <2>1. /\ ~Domain!Exists(i) /\ owner' = owner
        /\ exitInc' = [exitInc EXCEPT ![i] = Domain!Fresh("external", "auto")]
    BY <1>2 DEF Domain!Recur
  <2>2. KeepsIncidents BY <2>1, FreshKeeps
  <2>3. exitInc'[i].state = "open" /\ \A j \in Domain!Ids : j # i => exitInc'[j] = exitInc[j]
    BY <2>1 DEF Domain!TypeOK, Domain!Fresh
  <2> QED BY <2>2, <2>3 DEF Domain!Exists
<1> QED BY <1>1, <1>2 DEF Domain!UpsertExternal

LEMMA OthersKeep ==
  ASSUME Domain!TypeOK,
         \/ \E i \in Domain!Ids : Domain!Create(i) \/ Domain!Archive(i)
         \/ \E i \in Domain!Ids : Domain!Transition(i, "resolved", "human")
         \/ \E i, t \in Domain!Ids : Domain!MergeInto(i, t)
         \/ \E alert \in Alerts, i \in Domain!Ids : Domain!UpsertExternal(alert, i)
  PROVE  KeepsIncidents
<1>1. CASE \E i \in Domain!Ids : Domain!Create(i)
  BY <1>1, FreshKeeps DEF Domain!Create
<1>2. CASE \E i \in Domain!Ids : Domain!Archive(i)
  <2>1. PICK i \in Domain!Ids : Domain!Archive(i) BY <1>2
  <2>2. Domain!Absent \in Domain!Incident /\ Domain!Absent.state = "none"
    BY DEF Domain!Absent, Domain!Fresh, Domain!Incident, Domain!States
  <2>3. Domain!TypeOK' BY <2>1, <2>2 DEF Domain!Archive, Domain!TypeOK
  <2>4. exitInc'[i].state = "none" /\ \A j \in Domain!Ids : j # i => exitInc'[j] = exitInc[j]
    BY <2>1, <2>2 DEF Domain!Archive, Domain!TypeOK
  <2>5. \A k \in Opened : owner[k] # i => owner'[k] = owner[k]
    BY <2>1 DEF Domain!Archive, Domain!TypeOK
  <2> QED BY <2>3, <2>4, <2>5 DEF KeepsIncidents, Domain!Unresolved
<1>3. CASE \E i \in Domain!Ids : Domain!Transition(i, "resolved", "human")
  <2>1. PICK i \in Domain!Ids : Domain!Transition(i, "resolved", "human") BY <1>3
  <2> DEFINE x == Domain!Apply(exitInc[i], "resolved", "human")
  <2>2. exitInc' = [exitInc EXCEPT ![i] = x] /\ owner' = owner
    BY <2>1 DEF Domain!Transition, Domain!TypeOK
  <2>3. exitInc[i] \in Domain!Incident BY DEF Domain!TypeOK
  <2>4. x \in Domain!Incident /\ x.state = "resolved"
    BY <2>3 DEF Domain!Apply, Domain!Incident, Domain!States, Domain!Actors
  <2> HIDE DEF x
  <2>5. Domain!TypeOK' BY <2>2, <2>4 DEF Domain!TypeOK
  <2>6. exitInc'[i].state = "resolved" /\ \A j \in Domain!Ids : j # i => exitInc'[j] = exitInc[j]
    BY <2>2, <2>4 DEF Domain!TypeOK
  <2> QED BY <2>2, <2>5, <2>6 DEF KeepsIncidents, Domain!Unresolved
<1>4. CASE \E i, t \in Domain!Ids : Domain!MergeInto(i, t)
  <2>1. PICK i \in Domain!Ids, t \in Domain!Ids : Domain!MergeInto(i, t) BY <1>4
  <2> DEFINE x == [exitInc[i] EXCEPT !.state = "resolved", !.mergedInto = t]
  <2>2. exitInc[i] \in Domain!Incident BY DEF Domain!TypeOK
  <2>3. exitInc' = [exitInc EXCEPT ![i] = x] /\ owner' = Domain!MoveClusters(i, t)
    BY <2>1, <2>2 DEF Domain!MergeInto, Domain!TypeOK, Domain!Incident
  <2>4. x \in Domain!Incident /\ x.state = "resolved"
    BY <2>2 DEF Domain!Incident, Domain!States
  <2> HIDE DEF x
  <2>5. Domain!TypeOK' BY <2>3, <2>4 DEF Domain!TypeOK, Domain!MoveClusters
  <2>6. exitInc'[i].state = "resolved" /\ \A j \in Domain!Ids : j # i => exitInc'[j] = exitInc[j]
    BY <2>3, <2>4 DEF Domain!TypeOK
  <2>7. \A k \in Opened : owner[k] # i => owner'[k] = owner[k]
    BY <2>3 DEF Domain!MoveClusters
  <2> QED BY <2>5, <2>6, <2>7 DEF KeepsIncidents, Domain!Unresolved
<1>5. CASE \E alert \in Alerts, i \in Domain!Ids : Domain!UpsertExternal(alert, i)
  BY <1>5, UpsertKeeps
<1> QED BY <1>1, <1>2, <1>3, <1>4, <1>5

------------------------------------------------------------------------------
(* The steps                                                               *)

LEMMA ExitInvInit == ExitInit => ExitInv
<1> SUFFICES ASSUME ExitInit PROVE ExitInv OBVIOUS
<1> USE DEF ExitInit
<1>1. Zero \in Tallies /\ AtMost(Zero, Zero) BY DEF Zero, Tallies, AtMost
<1>2. CountsOK BY <1>1 DEF CountsOK
<1>3. NoBatchLeft \in Outgoing /\ NoBatchLeft.at = "idle" /\ NoBatchLeft.on = Unattached
  BY EmptySeq DEF NoBatchLeft, Outgoing
<1>4. RequestsOK
  <2>1. \A e \in Enforcers : exit[e] = NoBatchLeft OBVIOUS
  <2>2. exit \in [Enforcers -> Outgoing] BY <1>3
  <2> QED BY <1>3, <2>1, <2>2 DEF RequestsOK
<1>5. Domain!TypeOK
  <2>1. Domain!Absent \in Domain!Incident
    BY DEF Domain!Absent, Domain!Fresh, Domain!Incident, Domain!States
  <2> QED BY <2>1 DEF Domain!Init, Domain!TypeOK
<1> QED BY <1>2, <1>4, <1>5 DEF ExitInv, IncidentsOK, DomainIsKept

(* A step that leaves the counts alone, and one that leaves the incidents. *)
LEMMA CountsStay ==
  ASSUME CountsOK, UNCHANGED gateVars
  PROVE  CountsOK'
BY DEF CountsOK, gateVars, AtMost

LEMMA IncidentsStay ==
  ASSUME ExitInv, UNCHANGED <<exitStoreVars, handled, givenUp>>,
         \A e \in Enforcers : exit'[e].on = exit[e].on
  PROVE  IncidentsOK' /\ DomainIsKept'
BY DEF ExitInv, IncidentsOK, DomainIsKept, exitStoreVars, Domain!TypeOK, Domain!Exists,
       Domain!Unresolved

(* One batch moves on.                                                     *)
LEMMA BatchMoves ==
  ASSUME RequestsOK, NEW e \in Enforcers, NEW b \in Outgoing, exit' = [exit EXCEPT ![e] = b],
         b.at = "attach" <=> b.on # Unattached, b.at = "attach" => b.requests # <<>>
  PROVE  /\ RequestsOK' /\ exit'[e] = b
         /\ \A f \in Enforcers : f # e => exit'[f] = exit[f]
<1>1. exit'[e] = b /\ \A f \in Enforcers : f # e => exit'[f] = exit[f]
  BY DEF RequestsOK
<1> QED BY <1>1 DEF RequestsOK

LEMMA CollectKeeps == ASSUME ExitInv, NEW e \in Enforcers, CollectDecisions(e) PROVE ExitInv'
<1>1. exit \in [Enforcers -> Outgoing] /\ exit[e] \in Outgoing /\ exit[e].at = "idle"
      /\ exit[e].on = Unattached
  BY DEF ExitInv, RequestsOK, CollectDecisions
<1>2. PICK v \in Verdicts :
        exit' = [exit EXCEPT ![e].pending = Append(@, v),
                             ![e].requests = IF v = Repeat THEN @ ELSE Append(@, v)]
  BY DEF CollectDecisions
<1> DEFINE q == IF v = Repeat THEN exit[e].requests ELSE Append(exit[e].requests, v)
           b == [exit[e] EXCEPT !.pending = Append(exit[e].pending, v), !.requests = q]
<1>3. Append(exit[e].pending, v) \in Seq(Verdicts)
  BY <1>1, AppendProperties DEF Outgoing
<1>4. q \in Seq(Opened)
  BY <1>1, AppendProperties DEF Outgoing, Verdicts
<1>5. b \in Outgoing /\ b.at = "idle" /\ b.on = Unattached
  BY <1>1, <1>3, <1>4 DEF Outgoing
<1>6. exit' = [exit EXCEPT ![e] = b]
  BY <1>1, <1>2 DEF Outgoing
<1> HIDE DEF b
<1>7. RequestsOK' /\ exit'[e] = b /\ \A f \in Enforcers : f # e => exit'[f] = exit[f]
  BY <1>5, <1>6, BatchMoves DEF ExitInv
<1>8. \A f \in Enforcers : exit'[f].on = exit[f].on BY <1>1, <1>5, <1>7
<1> QED BY <1>7, <1>8, CountsStay, IncidentsStay DEF ExitInv, CollectDecisions

(* Counting one verdict.                                                   *)
LEMMA PlusCounts ==
  ASSUME NEW a \in Tallies, NEW field \in {"suppressed", "dispatched"}
  PROVE  Plus(a, field) \in Tallies /\ AtMost(a, Plus(a, field))
BY DEF Plus, Tallies, AtMost

LEMMA PlusIsMonotone ==
  ASSUME NEW a \in Tallies, NEW b \in Tallies, AtMost(a, b),
         NEW field \in {"suppressed", "dispatched"}
  PROVE  AtMost(Plus(a, field), Plus(b, field))
BY DEF Plus, Tallies, AtMost

LEMMA AtMostIsTransitive ==
  ASSUME NEW a \in Tallies, NEW b \in Tallies, NEW c \in Tallies, AtMost(a, b), AtMost(b, c)
  PROVE  AtMost(a, c)
BY DEF Tallies, AtMost

LEMMA AdmitKeeps == ASSUME ExitInv, NEW e \in Enforcers, Admit(e) PROVE ExitInv'
<1>1. exit \in [Enforcers -> Outgoing] /\ exit[e] \in Outgoing /\ exit[e].at # "attach"
      /\ exit[e].on = Unattached /\ exit[e].pending # <<>>
  BY DEF ExitInv, RequestsOK, Admit
<1> DEFINE b == [exit[e] EXCEPT !.at = "admit", !.pending = Tail(exit[e].pending)]
<1>2. Tail(exit[e].pending) \in Seq(Verdicts)
  BY <1>1, HeadTailProperties DEF Outgoing
<1>3. b \in Outgoing /\ b.at = "admit" /\ b.on = Unattached
  BY <1>1, <1>2 DEF Outgoing
<1>4. exit' = [exit EXCEPT ![e] = b]
  BY <1>1 DEF Admit, Outgoing
<1> HIDE DEF b
<1>5. RequestsOK' /\ exit'[e] = b /\ \A f \in Enforcers : f # e => exit'[f] = exit[f]
  BY <1>3, <1>4, BatchMoves DEF ExitInv
<1>6. \A f \in Enforcers : exit'[f].on = exit[f].on BY <1>1, <1>3, <1>5
<1>7. CountsOK'
  <2>1. CountsOK BY DEF ExitInv
  <2>2. CASE \E field \in {"suppressed", "dispatched"} :
               /\ gateCounts' = [gateCounts EXCEPT ![e] = Plus(@, field)]
               /\ passed' = Plus(passed, field)
               /\ countedBy' = countedBy \cup {e}
    <3>1. PICK field \in {"suppressed", "dispatched"} :
               /\ gateCounts' = [gateCounts EXCEPT ![e] = Plus(@, field)]
               /\ passed' = Plus(passed, field)
               /\ countedBy' = countedBy \cup {e}
      BY <2>2
    <3>2. gateRow' = gateRow /\ intact' = intact BY DEF Admit
    <3>3. /\ gateCounts \in [Enforcers -> Tallies] /\ gateRow \in Tallies /\ passed \in Tallies
          /\ AtMost(gateRow, passed) /\ \A f \in Enforcers : AtMost(gateCounts[f], passed)
      BY <2>1 DEF CountsOK
    <3>4. /\ gateCounts'[e] = Plus(gateCounts[e], field)
          /\ \A f \in Enforcers : f # e => gateCounts'[f] = gateCounts[f]
      BY <3>1, <3>3
    <3>5. passed' \in Tallies /\ AtMost(passed, passed') /\ gateCounts'[e] \in Tallies
      BY <3>1, <3>3, <3>4, PlusCounts
    <3>6. gateCounts' \in [Enforcers -> Tallies] BY <3>1, <3>3, <3>4, <3>5
    <3>7. AtMost(gateRow', passed') BY <3>2, <3>3, <3>5, AtMostIsTransitive
    <3>8. ASSUME NEW f \in Enforcers PROVE AtMost(gateCounts'[f], passed')
      <4>1. CASE f = e BY <4>1, <3>1, <3>3, <3>4, PlusIsMonotone
      <4>2. CASE f # e BY <4>2, <3>3, <3>4, <3>5, AtMostIsTransitive
      <4> QED BY <4>1, <4>2
    <3>9. ASSUME NEW f \in Enforcers, countedBy' = {f}, intact' PROVE gateCounts'[f] = passed'
      <4>1. f = e /\ (countedBy = {} \/ countedBy = {e}) BY <3>1, <3>9
      <4>2. gateCounts[e] = passed BY <4>1, <2>1, <3>2, <3>9 DEF CountsOK
      <4> QED BY <4>1, <4>2, <3>1, <3>4
    <3>10. countedBy' # {} BY <3>1
    <3> QED BY <3>2, <3>3, <3>5, <3>6, <3>7, <3>8, <3>9, <3>10 DEF CountsOK
  <2>3. CASE UNCHANGED <<gateCounts, passed, countedBy>>
    BY <2>1, <2>3, CountsStay DEF Admit, gateVars
  <2> QED BY <2>2, <2>3 DEF Admit
<1>8. UNCHANGED <<exitStoreVars, handled, givenUp>> BY DEF Admit
<1> QED BY <1>5, <1>6, <1>7, <1>8, IncidentsStay DEF ExitInv

LEMMA SaveKeeps == ASSUME ExitInv, NEW e \in Enforcers, SaveGateStats(e) PROVE ExitInv'
<1>1. exit \in [Enforcers -> Outgoing] /\ exit[e] \in Outgoing /\ exit[e].on = Unattached
  BY DEF ExitInv, RequestsOK, SaveGateStats
<1> DEFINE b == [exit[e] EXCEPT !.at = "create"]
<1>2. b \in Outgoing /\ b.at = "create" /\ b.on = Unattached
  BY <1>1 DEF Outgoing
<1>3. exit' = [exit EXCEPT ![e] = b]
  BY <1>1 DEF SaveGateStats, Outgoing
<1> HIDE DEF b
<1>4. RequestsOK' /\ exit'[e] = b /\ \A f \in Enforcers : f # e => exit'[f] = exit[f]
  BY <1>2, <1>3, BatchMoves DEF ExitInv
<1>5. \A f \in Enforcers : exit'[f].on = exit[f].on BY <1>1, <1>2, <1>4
<1>6. CountsOK'
  <2>1. CountsOK BY DEF ExitInv
  <2>2. UNCHANGED <<gateCounts, passed, countedBy, intact>> BY DEF SaveGateStats
  <2>3. gateRow' = gateCounts[e] \/ gateRow' = gateRow BY DEF SaveGateStats
  <2> QED BY <2>1, <2>2, <2>3 DEF CountsOK, AtMost
<1>7. UNCHANGED <<exitStoreVars, handled, givenUp>> BY DEF SaveGateStats
<1> QED BY <1>4, <1>5, <1>6, <1>7, IncidentsStay DEF ExitInv

(* The next request, the incident of this one being left.                  *)
LEMMA RequestEnds ==
  ASSUME RequestsOK, NEW e \in Enforcers, exit[e].requests # <<>>, exit' = NextRequest(e)
  PROVE  /\ RequestsOK' /\ exit'[e].on = Unattached
         /\ \A f \in Enforcers : f # e => exit'[f] = exit[f]
<1>1. exit \in [Enforcers -> Outgoing] /\ exit[e] \in Outgoing BY DEF RequestsOK
<1> DEFINE b == [exit[e] EXCEPT !.at = "create", !.on = Unattached, !.requests = Tail(exit[e].requests)]
<1>2. Tail(exit[e].requests) \in Seq(Opened)
  BY <1>1, HeadTailProperties DEF Outgoing
<1>3. b \in Outgoing /\ b.at = "create" /\ b.on = Unattached
  BY <1>1, <1>2 DEF Outgoing
<1>4. exit' = [exit EXCEPT ![e] = b]
  BY <1>1 DEF NextRequest, Outgoing
<1> HIDE DEF b
<1> QED BY <1>3, <1>4, BatchMoves

LEMMA UpsertIncidentKeeps == ASSUME ExitInv, NEW e \in Enforcers, UpsertIncident(e) PROVE ExitInv'
<1>1. /\ RequestsOK /\ Domain!TypeOK
      /\ exit \in [Enforcers -> Outgoing] /\ exit[e] \in Outgoing /\ exit[e].on = Unattached
      /\ exit[e].requests # <<>>
  BY DEF ExitInv, RequestsOK, IncidentsOK, UpsertIncident
<1> DEFINE alert == Head(exit[e].requests)[1]
<1>2. alert \in Alerts
  <2>1. Head(exit[e].requests) \in Opened
    BY <1>1, HeadTailProperties DEF Outgoing
  <2> QED BY <2>1 DEF Opened
<1>3. CountsOK' BY CountsStay DEF ExitInv, UpsertIncident
<1>4. CASE \E i \in Domain!Ids :
             /\ Domain!UpsertExternal(alert, i)
             /\ handled' = handled \cup {i}
             /\ givenUp' = IF Domain!Exists(i) THEN givenUp ELSE givenUp \ {i}
             /\ exit' = [exit EXCEPT ![e].at = "attach", ![e].on = i]
  <2>1. PICK i \in Domain!Ids :
             /\ Domain!UpsertExternal(alert, i)
             /\ handled' = handled \cup {i}
             /\ givenUp' = IF Domain!Exists(i) THEN givenUp ELSE givenUp \ {i}
             /\ exit' = [exit EXCEPT ![e].at = "attach", ![e].on = i]
    BY <1>4
  <2>2. /\ KeepsIncidents /\ Domain!Exists(i)'
        /\ \A j \in Domain!Ids : Domain!Exists(j) => Domain!Exists(j)'
    BY <1>1, <1>2, <2>1, UpsertKeeps
  <2> DEFINE b == [exit[e] EXCEPT !.at = "attach", !.on = i]
  <2>3. b \in Outgoing /\ b.at = "attach" /\ b.on = i /\ b.requests # <<>> /\ i # Unattached
    BY <1>1, NobodyIsNoIncident DEF Outgoing
  <2>4. exit' = [exit EXCEPT ![e] = b] BY <1>1, <2>1 DEF Outgoing
  <2> HIDE DEF b
  <2>5. RequestsOK' /\ exit'[e] = b /\ \A f \in Enforcers : f # e => exit'[f] = exit[f]
    BY <1>1, <2>3, <2>4, BatchMoves
  <2>6. IncidentsOK'
    <3>1. Domain!TypeOK' BY <2>2 DEF KeepsIncidents
    <3>2. \A j \in handled : j \in Domain!Ids /\ Domain!Exists(j)' BY <2>2 DEF ExitInv, IncidentsOK
    <3>3. \A j \in handled' : j \in Domain!Ids /\ Domain!Exists(j)' BY <2>1, <2>2, <3>2
    <3>4. Domain!Ids' = Domain!Ids BY DEF Domain!Ids, Domain!Generations
    <3> QED BY <3>1, <3>3, <3>4 DEF IncidentsOK
  <2>7. ASSUME NEW j \in handled' \ givenUp', Domain!Unresolved(j)'
        PROVE  (\E k \in Opened : owner'[k] = j) \/ (\E f \in Enforcers : exit'[f].on = j)
    <3>1. CASE j = i BY <3>1, <2>3, <2>5
    <3>2. CASE j # i
      <4>1. j \in handled \ givenUp BY <2>1, <3>2
      <4>2. j \in Domain!Ids /\ Domain!Exists(j) BY <4>1 DEF ExitInv, IncidentsOK
      <4>3. Domain!Unresolved(j) /\ \A k \in Opened : owner[k] = j => owner'[k] = j
        BY <2>2, <2>7, <4>2 DEF KeepsIncidents
      <4>4. (\E k \in Opened : owner[k] = j) \/ (\E f \in Enforcers : exit[f].on = j)
        BY <4>1, <4>3 DEF ExitInv, DomainIsKept
      <4>5. j # Unattached BY <4>2, NobodyIsNoIncident
      <4> QED BY <1>1, <2>5, <4>3, <4>4, <4>5
    <3> QED BY <3>1, <3>2
  <2>8. DomainIsKept' BY <2>7 DEF DomainIsKept
  <2> QED BY <1>3, <2>5, <2>6, <2>8 DEF ExitInv
<1>5. CASE exit' = NextRequest(e) /\ UNCHANGED <<exitStoreVars, handled, givenUp>>
  <2>1. RequestsOK' /\ exit'[e].on = Unattached /\ \A f \in Enforcers : f # e => exit'[f] = exit[f]
    BY <1>1, <1>5, RequestEnds
  <2>2. \A f \in Enforcers : exit'[f].on = exit[f].on BY <1>1, <2>1
  <2> QED BY <1>3, <1>5, <2>1, <2>2, IncidentsStay DEF ExitInv
<1> QED BY <1>4, <1>5 DEF UpsertIncident

LEMMA AttachKeeps == ASSUME ExitInv, NEW e \in Enforcers, Attach(e) PROVE ExitInv'
<1> DEFINE i == exit[e].on
           k == Head(exit[e].requests)
           attached == [owner EXCEPT ![k] = i]
<1>1. /\ RequestsOK /\ Domain!TypeOK
      /\ exit[e] \in Outgoing /\ exit[e].requests # <<>> /\ i \in Domain!Ids
  BY DEF ExitInv, RequestsOK, IncidentsOK, Attach, Outgoing
<1>2. k \in Opened BY <1>1, HeadTailProperties DEF Outgoing
<1>3. owner \in [Opened -> Domain!Ids \cup {Unattached}] BY <1>1 DEF Domain!TypeOK
<1>4. attached \in [Opened -> Domain!Ids \cup {Unattached}] /\ attached[k] = i
      /\ \A j \in Opened : j # k => attached[j] = owner[j]
  BY <1>1, <1>2, <1>3
<1>5. RequestsOK' /\ exit'[e].on = Unattached /\ \A f \in Enforcers : f # e => exit'[f] = exit[f]
  BY <1>1, RequestEnds DEF Attach
<1>6. CountsOK' BY CountsStay DEF ExitInv, Attach
<1>7. UNCHANGED <<exitInc, handled>> BY DEF Attach
<1>8. \/ ~Taken(k, i) /\ owner' = attached /\ givenUp' = givenUp
      \/ ~Taken(k, i) /\ owner' \in {owner, attached} /\ givenUp' = givenUp \cup {i}
      \/ owner' = owner /\ givenUp' = givenUp \cup {i}
  BY DEF Attach
<1> HIDE DEF k, attached, i
<1>9. IncidentsOK'
  <2>1. owner' \in [Opened -> Domain!Ids \cup {Unattached}] BY <1>3, <1>4, <1>8
  <2> QED BY <1>7, <2>1 DEF ExitInv, IncidentsOK, Domain!TypeOK, Domain!Exists
<1>10. ASSUME NEW j \in handled' \ givenUp', Domain!Unresolved(j)'
       PROVE  (\E c \in Opened : owner'[c] = j) \/ (\E f \in Enforcers : exit'[f].on = j)
  <2>1. j \in handled \ givenUp /\ Domain!Unresolved(j)
    BY <1>7, <1>8, <1>10 DEF Domain!Unresolved
  <2>2. j \in Domain!Ids /\ j # Unattached BY <2>1, NobodyIsNoIncident DEF ExitInv, IncidentsOK
  <2>3. CASE j = i
    <3>1. owner' = attached BY <1>8, <1>10, <2>3
    <3> QED BY <1>2, <1>4, <2>3, <3>1
  <2>4. CASE j # i
    <3>1. CASE \E c \in Opened : owner[c] = j
      <4>1. PICK c \in Opened : owner[c] = j BY <3>1
      <4>2. CASE owner' = owner BY <4>1, <4>2
      <4>3. CASE owner' = attached /\ ~Taken(k, i)
        <5>1. c # k BY <4>1, <4>3, <2>2, <2>4 DEF Taken
        <5> QED BY <1>4, <4>1, <4>3, <5>1
      <4> QED BY <1>8, <4>2, <4>3
    <3>2. CASE \E f \in Enforcers : exit[f].on = j
      <4>1. PICK f \in Enforcers : exit[f].on = j BY <3>2
      <4>2. f # e BY <4>1, <2>4 DEF i
      <4> QED BY <1>5, <4>1, <4>2
    <3> QED BY <2>1, <3>1, <3>2 DEF ExitInv, DomainIsKept
  <2> QED BY <2>3, <2>4
<1>11. DomainIsKept' BY <1>10 DEF DomainIsKept
<1> QED BY <1>5, <1>6, <1>9, <1>11 DEF ExitInv

LEMMA BatchDoneKeeps == ASSUME ExitInv, NEW e \in Enforcers, BatchDone(e) PROVE ExitInv'
<1>1. NoBatchLeft \in Outgoing /\ NoBatchLeft.at = "idle" /\ NoBatchLeft.on = Unattached
  BY EmptySeq DEF NoBatchLeft, Outgoing
<1>2. RequestsOK' /\ exit'[e] = NoBatchLeft /\ \A f \in Enforcers : f # e => exit'[f] = exit[f]
  BY <1>1, BatchMoves DEF ExitInv, BatchDone
<1>3. exit[e].on = Unattached BY DEF ExitInv, RequestsOK, BatchDone
<1>4. \A f \in Enforcers : exit'[f].on = exit[f].on BY <1>1, <1>2, <1>3
<1> QED BY <1>2, <1>4, CountsStay, IncidentsStay DEF ExitInv, BatchDone

LEMMA RestartKeeps == ASSUME ExitInv, NEW e \in Enforcers, EnforcerRestarts(e) PROVE ExitInv'
<1>1. NoBatchLeft \in Outgoing /\ NoBatchLeft.at = "idle" /\ NoBatchLeft.on = Unattached
  BY EmptySeq DEF NoBatchLeft, Outgoing
<1>2. RequestsOK' /\ exit'[e] = NoBatchLeft /\ \A f \in Enforcers : f # e => exit'[f] = exit[f]
  BY <1>1, BatchMoves DEF ExitInv, EnforcerRestarts
<1>3. UNCHANGED <<exitStoreVars, handled>> /\ givenUp' = givenUp \cup ({exit[e].on} \ {Unattached})
  BY DEF EnforcerRestarts
<1>4. IncidentsOK'
  BY <1>3 DEF ExitInv, IncidentsOK, exitStoreVars, Domain!TypeOK, Domain!Exists
<1>5. DomainIsKept'
  <2>1. ASSUME NEW j \in handled' \ givenUp', Domain!Unresolved(j)'
        PROVE  (\E c \in Opened : owner'[c] = j) \/ (\E f \in Enforcers : exit'[f].on = j)
    <3>1. j \in handled \ givenUp /\ Domain!Unresolved(j)
      BY <1>3, <2>1 DEF exitStoreVars, Domain!Unresolved
    <3>2. j # Unattached BY <3>1, NobodyIsNoIncident DEF ExitInv, IncidentsOK
    <3>3. exit[e].on # j BY <1>3, <2>1, <3>2
    <3>4. (\E c \in Opened : owner[c] = j) \/ (\E f \in Enforcers : exit[f].on = j)
      BY <3>1 DEF ExitInv, DomainIsKept
    <3> QED BY <1>2, <1>3, <3>3, <3>4 DEF exitStoreVars
  <2> QED BY <2>1 DEF DomainIsKept
<1>6. CountsOK'
  <2>1. CountsOK BY DEF ExitInv
  <2>2. UNCHANGED <<gateRow, passed, countedBy>> BY DEF EnforcerRestarts
  <2>3. PICK c \in {gateRow, Zero} : gateCounts' = [gateCounts EXCEPT ![e] = c]
    BY DEF EnforcerRestarts
  <2>4. Zero \in Tallies /\ AtMost(Zero, passed)
    BY <2>1 DEF CountsOK, Zero, Tallies, AtMost
  <2>5. c \in Tallies /\ AtMost(c, passed) /\ (countedBy = {} => c = Zero)
    BY <2>1, <2>4 DEF CountsOK
  <2>6. /\ gateCounts' \in [Enforcers -> Tallies] /\ gateCounts'[e] = c
        /\ \A f \in Enforcers : f # e => gateCounts'[f] = gateCounts[f]
    BY <2>1, <2>3, <2>5 DEF CountsOK
  <2>7. ASSUME intact' PROVE intact /\ gateCounts[e] = gateCounts'[e]
    BY <2>7 DEF EnforcerRestarts
  <2>8. \A f \in Enforcers : countedBy' = {f} /\ intact' => gateCounts'[f] = passed'
    BY <2>1, <2>2, <2>6, <2>7 DEF CountsOK
  <2>9. gateRow' \in Tallies /\ passed' \in Tallies /\ AtMost(gateRow', passed')
    BY <2>1, <2>2 DEF CountsOK
  <2>10. \A f \in Enforcers : AtMost(gateCounts'[f], passed')
    BY <2>1, <2>2, <2>5, <2>6 DEF CountsOK
  <2>11. countedBy' = {} => gateRow' = Zero /\ passed' = Zero /\ \A f \in Enforcers : gateCounts'[f] = Zero
    BY <2>1, <2>2, <2>5, <2>6 DEF CountsOK
  <2> QED BY <2>6, <2>8, <2>9, <2>10, <2>11 DEF CountsOK
<1> QED BY <1>2, <1>4, <1>5, <1>6 DEF ExitInv

LEMMA OthersActKeeps == ASSUME ExitInv, OthersAct PROVE ExitInv'
<1>1. /\ UNCHANGED <<gateVars, exit, givenUp>>
      /\ handled' = {i \in handled : Domain!Exists(i)'}
  BY DEF OthersAct
<1>2. KeepsIncidents BY OthersKeep DEF OthersAct, ExitInv, IncidentsOK
<1>3. CountsOK' BY <1>1, CountsStay DEF ExitInv
<1>4. RequestsOK' BY <1>1 DEF ExitInv, RequestsOK
<1>5. IncidentsOK'
  <2>1. Domain!Ids' = Domain!Ids BY DEF Domain!Ids, Domain!Generations
  <2>2. Domain!TypeOK' BY <1>2 DEF KeepsIncidents
  <2>3. \A i \in handled' : i \in Domain!Ids /\ Domain!Exists(i)' BY <1>1 DEF ExitInv, IncidentsOK
  <2> QED BY <2>1, <2>2, <2>3 DEF IncidentsOK
<1>6. DomainIsKept'
  <2>1. ASSUME NEW j \in handled' \ givenUp', Domain!Unresolved(j)'
        PROVE  (\E c \in Opened : owner'[c] = j) \/ (\E f \in Enforcers : exit'[f].on = j)
    <3>1. j \in handled \ givenUp BY <1>1
    <3>2. j \in Domain!Ids /\ Domain!Exists(j) BY <3>1 DEF ExitInv, IncidentsOK
    <3>3. Domain!Unresolved(j) /\ \A c \in Opened : owner[c] = j => owner'[c] = j
      BY <1>2, <2>1, <3>2 DEF KeepsIncidents
    <3> QED BY <1>1, <3>1, <3>3 DEF ExitInv, DomainIsKept
  <2> QED BY <2>1 DEF DomainIsKept
<1> QED BY <1>3, <1>4, <1>5, <1>6 DEF ExitInv

LEMMA ExitInvPreserved == ExitInv /\ [ExitNext]_exitVars => ExitInv'
<1> SUFFICES ASSUME ExitInv, [ExitNext]_exitVars PROVE ExitInv' OBVIOUS
<1>1. CASE ExitNext
  BY <1>1, CollectKeeps, AdmitKeeps, SaveKeeps, UpsertIncidentKeeps, AttachKeeps, BatchDoneKeeps,
     RestartKeeps, OthersActKeeps DEF ExitNext
<1>2. CASE UNCHANGED exitVars
  <2>1. UNCHANGED <<exitStoreVars, gateVars, exit, handled, givenUp>> BY <1>2 DEF exitVars
  <2>2. RequestsOK' BY <2>1 DEF ExitInv, RequestsOK
  <2> QED BY <2>1, <2>2, CountsStay, IncidentsStay DEF ExitInv
<1> QED BY <1>1, <1>2

(* Neither a memory nor the row of the gate counts a verdict that did not  *)
(* pass, one instance that restarts between batches misses none, and an    *)
(* active incident the exit worked on keeps a cluster unless the failure   *)
(* was counted, whatever people, link A, the sweeper and other instances   *)
(* did meanwhile (noise.go:198-200, noise_process.go:222-230).             *)
THEOREM VerdictsStayAccounted == ExitSpec => []VerdictsAreAccounted
<1>1. ExitInv => VerdictsAreAccounted
  <2> SUFFICES ASSUME ExitInv PROVE VerdictsAreAccounted OBVIOUS
  <2>1. CountsAreTrue
    BY DEF ExitInv, CountsOK, CountsAreTrue, AtMost
  <2> QED BY <2>1 DEF ExitInv, VerdictsAreAccounted
<1> QED BY ExitInvInit, ExitInvPreserved, <1>1, PTL DEF ExitSpec

------------------------------------------------------------------------------
(* What passed the gate                                                    *)

(* Every verdict judged passes the gate at most once: those that passed    *)
(* and those still waiting, over all instances, are no more than those     *)
(* judged. The waiting ones are counted as places in the batches.          *)
Places(lengths) == {w \in Enforcers \X (Nat \ {0}) : w[2] <= lengths[w[1]]}

Lengths == [e \in Enforcers |-> Len(exit[e].pending)]

LEMMA PlaceIsAdded ==
  ASSUME NEW q \in [Enforcers -> Nat], IsFiniteSet(Places(q)), NEW e \in Enforcers
  PROVE  /\ IsFiniteSet(Places([q EXCEPT ![e] = @ + 1]))
         /\ Cardinality(Places([q EXCEPT ![e] = @ + 1])) = Cardinality(Places(q)) + 1
<1> DEFINE r == [q EXCEPT ![e] = @ + 1]
           x == <<e, q[e] + 1>>
<1>1. r[e] = q[e] + 1 /\ \A f \in Enforcers : f # e => r[f] = q[f]
  OBVIOUS
<1>2. q[e] \in Nat /\ \A f \in Enforcers : q[f] \in Nat OBVIOUS
<1>3. x \in Enforcers \X (Nat \ {0}) /\ x[1] = e /\ x[2] = q[e] + 1 BY <1>2
<1> HIDE DEF r
<1>4. ASSUME NEW w \in Enforcers \X (Nat \ {0}) PROVE w[2] <= r[w[1]] <=> w[2] <= q[w[1]] \/ w = x
  <2>1. PICK f \in Enforcers, n \in Nat \ {0} : w = <<f, n>> OBVIOUS
  <2>2. w[1] = f /\ w[2] = n BY <2>1
  <2>3. CASE f = e
    BY <1>1, <1>2, <2>1, <2>2, <2>3
  <2>4. CASE f # e
    BY <1>1, <1>2, <2>1, <2>2, <2>4
  <2> QED BY <2>3, <2>4
<1>5. x \notin Places(q) BY <1>2, <1>3 DEF Places
<1> HIDE DEF x
<1>6. Places(r) = Places(q) \cup {x} BY <1>3, <1>4 DEF Places
<1>7. /\ IsFiniteSet(Places(q) \cup {x})
      /\ Cardinality(Places(q) \cup {x}) = Cardinality(Places(q)) + 1
  BY <1>5, FS_AddElement
<1> QED BY <1>6, <1>7 DEF r

LEMMA PlaceIsLeft ==
  ASSUME NEW q \in [Enforcers -> Nat], IsFiniteSet(Places(q)), NEW e \in Enforcers, q[e] # 0
  PROVE  /\ IsFiniteSet(Places([q EXCEPT ![e] = @ - 1]))
         /\ Cardinality(Places([q EXCEPT ![e] = @ - 1])) = Cardinality(Places(q)) - 1
<1> DEFINE r == [q EXCEPT ![e] = @ - 1]
           x == <<e, q[e]>>
<1>1. r[e] = q[e] - 1 /\ \A f \in Enforcers : f # e => r[f] = q[f]
  OBVIOUS
<1>2. q[e] \in Nat /\ \A f \in Enforcers : q[f] \in Nat OBVIOUS
<1>3. x \in Enforcers \X (Nat \ {0}) /\ x[1] = e /\ x[2] = q[e] BY <1>2
<1> HIDE DEF r
<1>4. ASSUME NEW w \in Enforcers \X (Nat \ {0}) PROVE w[2] <= r[w[1]] <=> w[2] <= q[w[1]] /\ w # x
  <2>1. PICK f \in Enforcers, n \in Nat \ {0} : w = <<f, n>> OBVIOUS
  <2>2. w[1] = f /\ w[2] = n BY <2>1
  <2>3. CASE f = e
    BY <1>1, <1>2, <2>1, <2>2, <2>3
  <2>4. CASE f # e
    BY <1>1, <1>2, <2>1, <2>2, <2>4
  <2> QED BY <2>3, <2>4
<1>5. x \in Places(q) BY <1>2, <1>3 DEF Places
<1> HIDE DEF x
<1>6. Places(r) = Places(q) \ {x} BY <1>4 DEF Places
<1>7. /\ IsFiniteSet(Places(q) \ {x})
      /\ Cardinality(Places(q) \ {x}) = Cardinality(Places(q)) - 1
  BY <1>5, FS_RemoveElement
<1> QED BY <1>6, <1>7 DEF r

LEMMA PlacesAreDropped ==
  ASSUME NEW q \in [Enforcers -> Nat], IsFiniteSet(Places(q)), NEW e \in Enforcers
  PROVE  /\ IsFiniteSet(Places([q EXCEPT ![e] = 0]))
         /\ Cardinality(Places([q EXCEPT ![e] = 0])) <= Cardinality(Places(q))
<1> DEFINE r == [q EXCEPT ![e] = 0]
<1>1. r[e] = 0 /\ \A f \in Enforcers : f # e => r[f] = q[f]
  OBVIOUS
<1> HIDE DEF r
<1>2. ASSUME NEW w \in Enforcers \X (Nat \ {0}), w[2] <= r[w[1]] PROVE w[2] <= q[w[1]]
  <2>1. PICK f \in Enforcers, n \in Nat \ {0} : w = <<f, n>> OBVIOUS
  <2> QED BY <1>1, <1>2, <2>1
<1>3. Places(r) \subseteq Places(q) BY <1>2 DEF Places
<1> QED BY <1>3, FS_Subset DEF r

(* How the batches grow and shrink.                                        *)
LEMMA LengthsAreTyped ==
  ASSUME RequestsOK
  PROVE  Lengths \in [Enforcers -> Nat] /\ \A e \in Enforcers : Lengths[e] = Len(exit[e].pending)
<1>1. ASSUME NEW e \in Enforcers PROVE Len(exit[e].pending) \in Nat
  <2>1. exit[e].pending \in Seq(Verdicts) BY DEF RequestsOK, Outgoing
  <2> QED BY <2>1, LenProperties
<1> QED BY <1>1 DEF Lengths

(* Steps that let no verdict pass and judge none.                          *)
PassedIsBacked ==
  /\ IsFiniteSet(Places(Lengths))
  /\ passed.suppressed + passed.dispatched + Cardinality(Places(Lengths)) <= judged

LEMMA NonePasses ==
  ASSUME PassedIsBacked, RequestsOK, CountsOK, judged \in Nat, UNCHANGED <<passed, judged>>,
         Lengths' = Lengths \/ \E e \in Enforcers : Lengths' = [Lengths EXCEPT ![e] = 0]
  PROVE  PassedIsBacked'
<1>1. passed.suppressed \in Nat /\ passed.dispatched \in Nat BY DEF CountsOK, Tallies
<1>2. Cardinality(Places(Lengths)) \in Nat BY FS_CardinalityType DEF PassedIsBacked
<1>3. /\ IsFiniteSet(Places(Lengths')) /\ Cardinality(Places(Lengths')) \in Nat
      /\ Cardinality(Places(Lengths')) <= Cardinality(Places(Lengths))
  <2>1. CASE Lengths' = Lengths BY <2>1, <1>2 DEF PassedIsBacked
  <2>2. ASSUME NEW e \in Enforcers, Lengths' = [Lengths EXCEPT ![e] = 0]
        PROVE  /\ IsFiniteSet(Places(Lengths'))
               /\ Cardinality(Places(Lengths')) <= Cardinality(Places(Lengths))
    BY <2>2, LengthsAreTyped, PlacesAreDropped DEF PassedIsBacked
  <2>3. IsFiniteSet(Places(Lengths')) /\ Cardinality(Places(Lengths')) <= Cardinality(Places(Lengths))
    BY <1>2, <2>1, <2>2
  <2> QED BY <2>3, FS_CardinalityType
<1>4. Places(Lengths)' = Places(Lengths') BY DEF Places
<1> QED BY <1>1, <1>2, <1>3, <1>4 DEF PassedIsBacked

LEMMA CollectedIsBacked ==
  ASSUME PassedIsBacked, RequestsOK, CountsOK, judged \in Nat,
         NEW e \in Enforcers, CollectDecisions(e)
  PROVE  PassedIsBacked'
<1>1. PICK v \in Verdicts :
        exit' = [exit EXCEPT ![e].pending = Append(@, v),
                             ![e].requests = IF v = Repeat THEN @ ELSE Append(@, v)]
  BY DEF CollectDecisions
<1>2. exit \in [Enforcers -> Outgoing] /\ exit[e] \in Outgoing BY DEF RequestsOK
<1>3. /\ exit'[e].pending = Append(exit[e].pending, v)
      /\ \A f \in Enforcers : f # e => exit'[f] = exit[f]
  BY <1>1, <1>2 DEF Outgoing
<1>4. Len(exit'[e].pending) = Len(exit[e].pending) + 1
  <2>1. exit[e].pending \in Seq(Verdicts) BY <1>2 DEF Outgoing
  <2> QED BY <1>3, <2>1, AppendProperties
<1>5. Lengths' = [Lengths EXCEPT ![e] = @ + 1]
  BY <1>3, <1>4 DEF Lengths
<1>6. /\ IsFiniteSet(Places(Lengths'))
      /\ Cardinality(Places(Lengths')) = Cardinality(Places(Lengths)) + 1
  BY <1>5, LengthsAreTyped, PlaceIsAdded DEF PassedIsBacked
<1>7. Places(Lengths)' = Places(Lengths') BY DEF Places
<1>8. judged' = judged + 1 /\ passed' = passed BY DEF CollectDecisions, gateVars
<1>9. passed.suppressed \in Nat /\ passed.dispatched \in Nat BY DEF CountsOK, Tallies
<1>10. Cardinality(Places(Lengths)) \in Nat BY FS_CardinalityType DEF PassedIsBacked
<1> QED BY <1>6, <1>7, <1>8, <1>9, <1>10 DEF PassedIsBacked

LEMMA AdmittedIsBacked ==
  ASSUME PassedIsBacked, RequestsOK, CountsOK, judged \in Nat,
         NEW e \in Enforcers, Admit(e)
  PROVE  PassedIsBacked'
<1>1. exit' = [exit EXCEPT ![e].at = "admit", ![e].pending = Tail(@)]
      /\ exit[e].pending # <<>> /\ judged' = judged
  BY DEF Admit
<1>2. exit \in [Enforcers -> Outgoing] /\ exit[e] \in Outgoing BY DEF RequestsOK
<1>3. /\ exit'[e].pending = Tail(exit[e].pending)
      /\ \A f \in Enforcers : f # e => exit'[f] = exit[f]
  BY <1>1, <1>2 DEF Outgoing
<1>4. /\ Len(exit'[e].pending) = Len(exit[e].pending) - 1 /\ Len(exit[e].pending) # 0
  <2>1. exit[e].pending \in Seq(Verdicts) BY <1>2 DEF Outgoing
  <2> QED BY <1>1, <1>3, <2>1, HeadTailProperties, EmptySeq
<1>5. Lengths' = [Lengths EXCEPT ![e] = @ - 1] /\ Lengths[e] # 0
  BY <1>3, <1>4 DEF Lengths
<1>6. /\ IsFiniteSet(Places(Lengths'))
      /\ Cardinality(Places(Lengths')) = Cardinality(Places(Lengths)) - 1
  BY <1>5, LengthsAreTyped, PlaceIsLeft DEF PassedIsBacked
<1>7. Places(Lengths)' = Places(Lengths') BY DEF Places
<1>8. /\ passed \in Tallies /\ passed.suppressed \in Nat /\ passed.dispatched \in Nat
  BY DEF CountsOK, Tallies
<1>9. passed' = passed \/ \E field \in {"suppressed", "dispatched"} : passed' = Plus(passed, field)
  BY DEF Admit
<1>10. /\ passed'.suppressed \in Nat /\ passed'.dispatched \in Nat
       /\ passed'.suppressed + passed'.dispatched <= passed.suppressed + passed.dispatched + 1
  <2>1. CASE passed' = passed BY <1>8, <2>1
  <2>2. CASE passed' = Plus(passed, "suppressed") BY <1>8, <2>2 DEF Plus, Tallies
  <2>3. CASE passed' = Plus(passed, "dispatched") BY <1>8, <2>3 DEF Plus, Tallies
  <2> QED BY <1>9, <2>1, <2>2, <2>3
<1>11. Cardinality(Places(Lengths)) \in Nat BY FS_CardinalityType DEF PassedIsBacked
<1> QED BY <1>1, <1>6, <1>7, <1>8, <1>10, <1>11 DEF PassedIsBacked

(* Attaching, restarting and what others do leave the batches waiting, or  *)
(* drop one.                                                               *)
LEMMA LengthsStay ==
  ASSUME RequestsOK, NEW e \in Enforcers,
         \/ SaveGateStats(e) \/ UpsertIncident(e) \/ Attach(e)
         \/ BatchDone(e) \/ EnforcerRestarts(e)
  PROVE  Lengths' = Lengths \/ Lengths' = [Lengths EXCEPT ![e] = 0]
<1>1. exit \in [Enforcers -> Outgoing] /\ exit[e] \in Outgoing BY DEF RequestsOK
<1>2. CASE SaveGateStats(e)
  <2>1. exit' = [exit EXCEPT ![e].at = "create"] BY <1>2 DEF SaveGateStats
  <2>2. exit'[e].pending = exit[e].pending /\ \A f \in Enforcers : f # e => exit'[f] = exit[f]
    BY <1>1, <2>1 DEF Outgoing
  <2> QED BY <2>2 DEF Lengths
<1>3. CASE UpsertIncident(e) \/ Attach(e)
  <2>1. \/ exit' = NextRequest(e)
        \/ \E i \in Domain!Ids : exit' = [exit EXCEPT ![e].at = "attach", ![e].on = i]
    BY <1>3 DEF UpsertIncident, Attach
  <2>2. exit'[e].pending = exit[e].pending /\ \A f \in Enforcers : f # e => exit'[f] = exit[f]
    BY <1>1, <2>1 DEF Outgoing, NextRequest
  <2> QED BY <2>2 DEF Lengths
<1>4. CASE BatchDone(e) \/ EnforcerRestarts(e)
  <2>1. exit' = [exit EXCEPT ![e] = NoBatchLeft] BY <1>4 DEF BatchDone, EnforcerRestarts
  <2>2. exit'[e] = NoBatchLeft /\ \A f \in Enforcers : f # e => exit'[f] = exit[f]
    BY <1>1, <2>1
  <2>3. Len(NoBatchLeft.pending) = 0 BY DEF NoBatchLeft
  <2> QED BY <2>2, <2>3 DEF Lengths
<1> QED BY <1>2, <1>3, <1>4

LEMMA BackedIsPreserved ==
  ASSUME PassedIsBacked, RequestsOK, CountsOK, judged \in Nat, [ExitNext]_exitVars
  PROVE  PassedIsBacked'
<1>1. ASSUME NEW e \in Enforcers, CollectDecisions(e) PROVE PassedIsBacked'
  BY <1>1, CollectedIsBacked
<1>2. ASSUME NEW e \in Enforcers, Admit(e) PROVE PassedIsBacked'
  BY <1>2, AdmittedIsBacked
<1>3. ASSUME NEW e \in Enforcers,
             \/ SaveGateStats(e) \/ UpsertIncident(e) \/ Attach(e)
             \/ BatchDone(e) \/ EnforcerRestarts(e)
      PROVE  PassedIsBacked'
  <2>1. UNCHANGED <<passed, judged>>
    BY <1>3 DEF SaveGateStats, UpsertIncident, Attach, BatchDone, EnforcerRestarts, gateVars
  <2>2. Lengths' = Lengths \/ Lengths' = [Lengths EXCEPT ![e] = 0] BY <1>3, LengthsStay
  <2> QED BY <2>1, <2>2, NonePasses
<1>4. CASE OthersAct \/ UNCHANGED exitVars
  <2>1. UNCHANGED <<passed, judged, exit>> BY <1>4 DEF OthersAct, gateVars, exitVars
  <2>2. Lengths' = Lengths BY <2>1 DEF Lengths
  <2> QED BY <2>1, <2>2, NonePasses
<1> QED BY <1>1, <1>2, <1>3, <1>4 DEF ExitNext

(* The bounds of the counters, and whom the histories are about.           *)
HistoriesOK ==
  /\ judged \in 0..MaxJudged /\ acts \in 0..MaxActs /\ exitFaults \in 0..MaxExitFaults
  /\ givenUp \subseteq Domain!Ids /\ countedBy \subseteq Enforcers /\ intact \in BOOLEAN

LEMMA HistoriesArePreserved ==
  ASSUME HistoriesOK, RequestsOK, [ExitNext]_exitVars
  PROVE  HistoriesOK'
<1>0. MaxJudged \in Nat /\ MaxActs \in Nat /\ MaxExitFaults \in Nat BY ExitAssumption
<1>f. ASSUME ExitFault \/ UNCHANGED exitFaults PROVE exitFaults' \in 0..MaxExitFaults
  BY <1>0, <1>f DEF HistoriesOK, ExitFault
<1>i. Domain!Ids' = Domain!Ids BY DEF Domain!Ids, Domain!Generations
<1>1. ASSUME NEW e \in Enforcers, CollectDecisions(e) PROVE HistoriesOK'
  BY <1>0, <1>1, <1>i DEF CollectDecisions, HistoriesOK, gateVars
<1>2. ASSUME NEW e \in Enforcers, Admit(e) PROVE HistoriesOK'
  BY <1>2, <1>f, <1>i DEF Admit, HistoriesOK
<1>3. ASSUME NEW e \in Enforcers, SaveGateStats(e) PROVE HistoriesOK'
  BY <1>3, <1>f, <1>i DEF SaveGateStats, HistoriesOK
<1>4. ASSUME NEW e \in Enforcers, UpsertIncident(e) PROVE HistoriesOK'
  <2>1. exitFaults' \in 0..MaxExitFaults BY <1>4, <1>f DEF UpsertIncident
  <2>2. givenUp' \subseteq givenUp BY <1>4 DEF UpsertIncident
  <2> QED BY <1>4, <1>i, <2>1, <2>2 DEF UpsertIncident, HistoriesOK, gateVars
<1>5. ASSUME NEW e \in Enforcers, Attach(e) PROVE HistoriesOK'
  <2>1. exitFaults' \in 0..MaxExitFaults BY <1>5, <1>f DEF Attach
  <2>2. exit[e].on \in Domain!Ids
    BY <1>5 DEF Attach, RequestsOK, Outgoing
  <2>3. givenUp' = givenUp \/ givenUp' = givenUp \cup {exit[e].on} BY <1>5 DEF Attach
  <2> QED BY <1>5, <1>i, <2>1, <2>2, <2>3 DEF Attach, HistoriesOK, gateVars
<1>6. ASSUME NEW e \in Enforcers, BatchDone(e) PROVE HistoriesOK'
  BY <1>6, <1>i DEF BatchDone, HistoriesOK, gateVars
<1>7. ASSUME NEW e \in Enforcers, EnforcerRestarts(e) PROVE HistoriesOK'
  <2>1. exitFaults' \in 0..MaxExitFaults BY <1>7, <1>f DEF EnforcerRestarts
  <2>2. exit[e].on \in Domain!Ids \cup {Unattached} BY DEF RequestsOK, Outgoing
  <2>3. givenUp' \subseteq Domain!Ids BY <1>7, <2>2 DEF EnforcerRestarts, HistoriesOK
  <2>4. intact' \in BOOLEAN BY <1>7 DEF EnforcerRestarts
  <2> QED BY <1>7, <1>i, <2>1, <2>3, <2>4 DEF EnforcerRestarts, HistoriesOK
<1>8. CASE OthersAct
  BY <1>0, <1>8, <1>i DEF OthersAct, HistoriesOK, gateVars
<1>9. CASE UNCHANGED exitVars
  BY <1>9, <1>i DEF exitVars, HistoriesOK, gateVars
<1> QED BY <1>1, <1>2, <1>3, <1>4, <1>5, <1>6, <1>7, <1>8, <1>9 DEF ExitNext

(* Type correctness of the exit; in particular the gate counts no more     *)
(* verdicts than were judged, restarts and reloaded counts included.       *)
THEOREM ExitTypeCorrect == ExitSpec => []ExitTypeOK
<1> DEFINE Bounds == PassedIsBacked /\ HistoriesOK
<1>1. ExitInit => Bounds
  <2> SUFFICES ASSUME ExitInit PROVE Bounds OBVIOUS
  <2>1. \A e \in Enforcers : Len(exit[e].pending) = 0 BY DEF ExitInit, NoBatchLeft
  <2>2. Places(Lengths) = {}
    <3>1. ASSUME NEW w \in Enforcers \X (Nat \ {0}) PROVE ~(w[2] <= Lengths[w[1]])
      <4>1. PICK e \in Enforcers, n \in Nat \ {0} : w = <<e, n>> OBVIOUS
      <4> QED BY <2>1, <4>1 DEF Lengths
    <3> QED BY <3>1 DEF Places
  <2>3. PassedIsBacked
    BY <2>2, FS_EmptySet DEF PassedIsBacked, ExitInit, Zero
  <2>4. HistoriesOK BY ExitAssumption DEF HistoriesOK, ExitInit
  <2> QED BY <2>3, <2>4
<1>2. ExitInv /\ Bounds /\ [ExitNext]_exitVars => Bounds'
  BY BackedIsPreserved, HistoriesArePreserved DEF ExitInv, HistoriesOK
<1>3. ExitInv /\ Bounds => ExitTypeOK
  <2> SUFFICES ASSUME ExitInv, Bounds PROVE ExitTypeOK OBVIOUS
  <2>1. /\ passed \in Tallies /\ gateRow \in Tallies /\ gateCounts \in [Enforcers -> Tallies]
        /\ AtMost(gateRow, passed) /\ \A e \in Enforcers : AtMost(gateCounts[e], passed)
    BY DEF ExitInv, CountsOK
  <2>2. passed.suppressed <= MaxJudged /\ passed.dispatched <= MaxJudged
    <3>1. Cardinality(Places(Lengths)) \in Nat BY FS_CardinalityType DEF PassedIsBacked
    <3>2. judged \in Nat /\ judged <= MaxJudged /\ MaxJudged \in Nat
      BY ExitAssumption DEF HistoriesOK
    <3>3. passed.suppressed \in Nat /\ passed.dispatched \in Nat BY <2>1 DEF Tallies
    <3> QED BY <3>1, <3>2, <3>3 DEF PassedIsBacked
  <2>3. ASSUME NEW c \in Tallies, AtMost(c, passed) PROVE c \in Counts
    <3>1. MaxJudged \in Nat BY ExitAssumption
    <3> QED BY <2>1, <2>2, <2>3, <3>1 DEF Tallies, AtMost, Counts
  <2>4. passed \in Counts /\ gateRow \in Counts /\ gateCounts \in [Enforcers -> Counts]
    <3>1. AtMost(passed, passed) BY <2>1 DEF AtMost, Tallies
    <3> QED BY <2>1, <2>3, <3>1
  <2>5. ASSUME NEW e \in Enforcers
        PROVE  /\ exit[e].at \in {"idle", "admit", "create", "attach"}
               /\ ToSet(exit[e].pending) \subseteq Verdicts /\ ToSet(exit[e].requests) \subseteq Opened
               /\ exit[e].on \in Domain!Ids \cup {Unattached}
               /\ exit[e].at = "attach" <=> exit[e].on # Unattached
               /\ exit[e].at = "attach" => exit[e].requests # <<>>
    <3>1. exit[e] \in Outgoing BY DEF ExitInv, RequestsOK
    <3>2. exit[e].pending \in Seq(Verdicts) /\ exit[e].requests \in Seq(Opened)
      BY <3>1 DEF Outgoing
    <3>3. ToSet(exit[e].pending) \subseteq Verdicts /\ ToSet(exit[e].requests) \subseteq Opened
      BY <3>2, Members
    <3> QED BY <3>1, <3>3 DEF ExitInv, RequestsOK, Outgoing
  <2> QED BY <2>4, <2>5 DEF ExitTypeOK, ExitInv, IncidentsOK, HistoriesOK
<1> HIDE DEF Bounds
<1> QED BY ExitInvInit, ExitInvPreserved, <1>1, <1>2, <1>3, PTL DEF ExitSpec
===============================================================================
