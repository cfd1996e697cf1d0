---------------------------- MODULE RecordsProofs -----------------------------
(***************************************************************************)
(* Proofs about what is written down: the log of executions, the records of*)
(* changes, the ledger of the schema, the graph of the topology and the    *)
(* pages of the audit trail, for any number of requests, hosts, upgrading  *)
(* processes, nodes and entries; and about the analysis that reads changes *)
(* and topology and writes its findings down.                              *)
(***************************************************************************)
EXTENDS RunbookLog, SchemaUpgrade, ChangeRecords, TopologyGraph, AuditPaging,
        RcaPipeline, TimelinePaging, DataLemmas

------------------------------------------------------------------------------
(* RunbookLog: the seqs come from one column shared by all mounts, so      *)
(* their order within a mount rests on the lock of the mount: who has a    *)
(* seq in hand holds that lock, and no two requests hold the same one.     *)

(* A request in its transaction holds the lock of its mount, and no other  *)
(* request holds any.                                                      *)
WriterHoldsMount ==
  \A q \in RunbookCalls :
    IF call[q].at \in {"locked", "inserted"}
      THEN call[q].mount \in mounts /\ call[q].locks = {call[q].mount}
      ELSE call[q].locks = {}

(* A request that is under way knows its mount.                            *)
CallHasMount == \A q \in RunbookCalls : call[q].at # "free" => call[q].mount \in Mounts

(* Two requests never hold the lock of one mount.                          *)
LocksAreExclusive ==
  \A q, r \in RunbookCalls : q # r => call[q].locks \cap call[r].locks = {}

(* The column is ahead of every seq it gave out.                           *)
SeqsAreGiven ==
  /\ \A m \in Mounts : \A s \in executions[m] : s <= nextSeq
  /\ \A q \in RunbookCalls : call[q].seq <= nextSeq

(* A seq in hand is beyond every committed one of its mount.               *)
InHandIsNewest ==
  \A q \in RunbookCalls : call[q].at = "inserted" =>
    \A s \in executions[call[q].mount] : s < call[q].seq

RunbookInv ==
  /\ RunbookTypeOK /\ WriterHoldsMount /\ CallHasMount /\ LocksAreExclusive
  /\ SeqsAreGiven /\ InHandIsNewest

LEMMA RunbookInvInit == RunbookInit => RunbookInv
BY RunbookAssumption
DEF RunbookInit, RunbookInv, RunbookTypeOK, CallStates, WriterHoldsMount, CallHasMount,
    LocksAreExclusive, SeqsAreGiven, InHandIsNewest, NoCall, Seqs, Mounts

(* A request that ends gives up its lock and disturbs no other.            *)
LEMMA EndedCallKeepsInv ==
  ASSUME RunbookInv, NEW q \in RunbookCalls, call' = [call EXCEPT ![q] = NoCall],
         UNCHANGED <<manuals, incidents, mounts, executions, nextSeq>>
  PROVE  RunbookInv'
BY RunbookAssumption
DEF RunbookInv, RunbookTypeOK, CallStates, WriterHoldsMount, CallHasMount,
    LocksAreExclusive, SeqsAreGiven, InHandIsNewest, NoCall, Seqs, Mounts

LEMMA RunbookInvPreserved == RunbookInv /\ [RunbookNext]_runbookVars => RunbookInv'
<1> SUFFICES ASSUME RunbookInv, [RunbookNext]_runbookVars PROVE RunbookInv'
  OBVIOUS
<1> USE RunbookAssumption
    DEF RunbookInv, RunbookTypeOK, WriterHoldsMount, CallHasMount, LocksAreExclusive,
        SeqsAreGiven, InHandIsNewest
<1>1. ASSUME NEW rb \in Manuals, CreateManual(rb) PROVE RunbookInv'
  BY <1>1 DEF CreateManual, Seqs, Mounts
<1>2. ASSUME NEW i \in RunbookIncidents, ArchiveIncident(i) PROVE RunbookInv'
  BY <1>2 DEF ArchiveIncident, Seqs
<1>3. ASSUME NEW q \in RunbookCalls, NEW m \in Mounts,
             NEW op \in {"mount", "unmount", "append"}, EnsureIncident(q, op, m)
      PROVE RunbookInv'
  <2> DEFINE row == [at |-> "checked", op |-> op, mount |-> m, seq |-> 0, locks |-> {}]
  <2>1. row \in CallStates /\ row.at = "checked" /\ row.mount = m /\ row.locks = {} /\ row.seq = 0
    BY DEF CallStates, Seqs
  <2>2. /\ call' = [call EXCEPT ![q] = row]
        /\ UNCHANGED <<manuals, incidents, mounts, executions, nextSeq>>
    BY <1>3 DEF EnsureIncident
  <2> HIDE DEF row
  <2>3. RunbookTypeOK' BY <2>1, <2>2
  <2> QED BY <2>1, <2>2, <2>3 DEF Seqs
<1>0. NoCall \in CallStates /\ NoCall.at = "free" /\ NoCall.seq = 0 /\ NoCall.locks = {}
  BY DEF NoCall, CallStates, Seqs
<1>4. ASSUME NEW q \in RunbookCalls, Mount(q) PROVE RunbookInv'
  <2>1. /\ mounts \subseteq mounts' /\ mounts' \subseteq Mounts
        /\ \A m \in mounts' : m[2] \in manuals
        /\ call' = [call EXCEPT ![q] = NoCall]
        /\ UNCHANGED <<manuals, incidents, executions, nextSeq>>
    BY <1>4 DEF Mount
  <2>2. RunbookTypeOK' BY <1>0, <2>1
  <2> QED BY <1>0, <2>1, <2>2 DEF Seqs
<1>5. ASSUME NEW q \in RunbookCalls, Unmount(q) PROVE RunbookInv'
  <2>1. /\ mounts' = mounts \ {call[q].mount}
        /\ call' = [call EXCEPT ![q] = NoCall]
        /\ UNCHANGED <<manuals, incidents, executions, nextSeq>>
        /\ \A r \in RunbookCalls : call[q].mount \notin call[r].locks
    BY <1>5 DEF Unmount, Unlocked
  <2>2. RunbookTypeOK' BY <1>0, <2>1
  <2>3. WriterHoldsMount' BY <1>0, <2>1
  <2> QED BY <1>0, <2>1, <2>2, <2>3 DEF Seqs
<1>6. ASSUME NEW q \in RunbookCalls, SelectForUpdate(q) PROVE RunbookInv'
  <2>1. CASE call[q].mount \in mounts
    <3> DEFINE row == [call[q] EXCEPT !.at = "locked", !.locks = {call[q].mount}]
    <3>1. call' = [call EXCEPT ![q] = row]
          /\ UNCHANGED <<manuals, incidents, mounts, executions, nextSeq>>
      BY <1>6, <2>1 DEF SelectForUpdate
    <3>2. /\ row \in CallStates /\ row.at = "locked" /\ row.mount = call[q].mount
          /\ row.locks = {call[q].mount} /\ row.seq = call[q].seq
      BY <1>6, <2>1 DEF CallStates, SelectForUpdate
    <3>3. \A r \in RunbookCalls : call[q].mount \notin call[r].locks
      BY <1>6 DEF SelectForUpdate, Unlocked
    <3> HIDE DEF row
    <3>4. RunbookTypeOK' BY <3>1, <3>2
    <3>5. LocksAreExclusive' BY <3>1, <3>2, <3>3
    <3> QED BY <2>1, <3>1, <3>2, <3>4, <3>5
  <2>2. CASE call[q].mount \notin mounts
    BY <1>6, <2>2, EndedCallKeepsInv DEF SelectForUpdate
  <2> QED BY <2>1, <2>2
<1>7. ASSUME NEW q \in RunbookCalls, InsertExecution(q) PROVE RunbookInv'
  <2>1. nextSeq' = nextSeq + 1 /\ nextSeq' \in Seqs
    BY <1>7 DEF InsertExecution, Seqs
  <2>2. call' = [call EXCEPT ![q].at = "inserted", ![q].seq = nextSeq + 1]
    BY <1>7 DEF InsertExecution
  <2>3. RunbookTypeOK'
    <3>1. [call[q] EXCEPT !.at = "inserted", !.seq = nextSeq + 1] \in CallStates
      BY <1>7, <2>1 DEF CallStates, InsertExecution
    <3> QED BY <1>7, <2>1, <2>2, <3>1 DEF InsertExecution
  <2>4. SeqsAreGiven' /\ InHandIsNewest'
    <3>1. nextSeq \in Nat /\ nextSeq' = nextSeq + 1 /\ executions' = executions
      BY <1>7, <2>1 DEF InsertExecution, Seqs
    <3>2. \A m \in Mounts : \A s \in executions[m] : s \in Int /\ s <= nextSeq
      BY DEF Seqs
    <3>3. \A r \in RunbookCalls : call[r].seq \in Int /\ call[r].seq <= nextSeq
      BY DEF Seqs, CallStates
    <3>4. /\ call'[q].seq = nextSeq + 1 /\ call'[q].mount = call[q].mount
          /\ \A r \in RunbookCalls : r # q => call'[r] = call[r]
      BY <2>2
    <3>5. call[q].mount \in Mounts BY <1>7 DEF InsertExecution
    <3>6. SeqsAreGiven' BY <3>1, <3>2, <3>3, <3>4
    <3>7. InHandIsNewest' BY <3>1, <3>2, <3>3, <3>4, <3>5
    <3> QED BY <3>6, <3>7
  <2>5. WriterHoldsMount' /\ CallHasMount' /\ LocksAreExclusive'
    BY <1>7, <2>2 DEF InsertExecution
  <2> QED BY <2>3, <2>4, <2>5
<1>8. ASSUME NEW q \in RunbookCalls, CommitExecution(q) PROVE RunbookInv'
  <2> DEFINE m == call[q].mount
  <2>1. \A r \in RunbookCalls : r # q /\ call[r].at = "inserted" => call[r].mount # m
    BY <1>8 DEF CommitExecution
  <2>2. /\ executions' = [executions EXCEPT ![m] = @ \cup {call[q].seq}]
        /\ call' = [call EXCEPT ![q] = NoCall]
        /\ UNCHANGED <<manuals, incidents, mounts, nextSeq>>
    BY <1>8 DEF CommitExecution
  <2>3. RunbookTypeOK'
    <3>2. executions[m] \cup {call[q].seq} \in SUBSET Seqs
      BY <1>8 DEF CommitExecution, CallStates
    <3> QED BY <1>0, <2>2, <3>2
  <2>6. WriterHoldsMount' /\ CallHasMount' /\ LocksAreExclusive'
    BY <2>2 DEF NoCall
  <2>4. SeqsAreGiven' BY <2>2 DEF NoCall, Seqs
  <2>5. InHandIsNewest' BY <2>1, <2>2 DEF NoCall
  <2> QED BY <2>3, <2>4, <2>5, <2>6
<1>9. ASSUME NEW q \in RunbookCalls, CallFails(q) PROVE RunbookInv'
  BY <1>9, EndedCallKeepsInv DEF CallFails
<1>10. CASE UNCHANGED runbookVars
  BY <1>10 DEF runbookVars, Seqs
<1> QED
  BY <1>1, <1>2, <1>3, <1>4, <1>5, <1>6, <1>7, <1>8, <1>9, <1>10 DEF RunbookNext

(* Type correctness, the foreign key of the mounts included.               *)
THEOREM RunbookTypeCorrect == RunbookSpec => []RunbookTypeOK
<1>1. RunbookInv => RunbookTypeOK BY DEF RunbookInv
<1> QED BY <1>1, RunbookInvInit, RunbookInvPreserved, PTL DEF RunbookSpec

(* Within a mount the log only grows at its end and only while the manual  *)
(* is mounted.                                                             *)
THEOREM HistoryIsAppendOnly == RunbookSpec => HistoryGrowsAtItsEnd
<1> DEFINE Grows ==
      \A m \in Mounts :
        /\ executions[m] \subseteq executions'[m]
        /\ \A s \in executions'[m] \ executions[m] :
             m \in mounts /\ \A t \in executions[m] : t < s
<1>1. RunbookInv /\ [RunbookNext]_runbookVars => [Grows]_runbookVars
  <2> SUFFICES ASSUME RunbookInv, RunbookNext PROVE Grows
    OBVIOUS
  <2>1. CASE executions' = executions
    BY <2>1
  <2>2. ASSUME NEW q \in RunbookCalls, CommitExecution(q) PROVE Grows
    BY <2>2 DEF CommitExecution, RunbookInv, RunbookTypeOK, WriterHoldsMount, CallHasMount,
                InHandIsNewest
  <2>3. executions' = executions \/ \E q \in RunbookCalls : CommitExecution(q)
    BY DEF RunbookNext, CreateManual, ArchiveIncident, EnsureIncident, Mount, Unmount,
           SelectForUpdate, InsertExecution, CallFails
  <2> QED BY <2>1, <2>2, <2>3
<1> QED
  BY <1>1, RunbookInvInit, RunbookInvPreserved, PTL DEF RunbookSpec, HistoryGrowsAtItsEnd

------------------------------------------------------------------------------
(* ChangeRecords                                                           *)

CachesOK ==
  /\ DOMAIN cache = ChangeHosts /\ persisting \in [ChangeHosts -> SUBSET ChangeEvents]

(* The index of an instance is that of its cache, ...                      *)
IndexesOK == \A i \in ChangeHosts : byNode[i] = IdsByNode(cache[i])

(* ... and with a table behind it, what it has acknowledged is cached.     *)
AckedAreCached ==
  \A i \in ChangeHosts : store[i] = "pg" => acknowledged[i] \subseteq DOMAIN cache[i]

ChangeInv == ChangeTypeOK /\ CachesOK /\ IndexesOK /\ AckedAreCached

LEMMA RecordsArePruned ==
  ASSUME NEW f, IsRecord(f), NEW S, S \subseteq DOMAIN f
  PROVE  IsRecord(Restrict(f, S)) /\ DOMAIN Restrict(f, S) = S
<1>1. DOMAIN Restrict(f, S) = S /\ \A x \in S : Restrict(f, S)[x] = f[x]
  BY DEF Restrict
<1> QED BY <1>1 DEF IsRecord, Range

LEMMA KeptIsRecord ==
  ASSUME NEW f, IsRecord(f)
  PROVE  IsRecord(Kept(f)) /\ DOMAIN Kept(f) \subseteq DOMAIN f
BY RecordsArePruned DEF Kept

LEMMA NilIsRecord == IsRecord(Nil) /\ DOMAIN Nil = {}
BY DEF IsRecord, Nil, Range

LEMMA RecordGrows ==
  ASSUME NEW f, IsRecord(f), NEW ev \in ChangeEvents, NEW g,
         DOMAIN g = DOMAIN f \cup {ev.id},
         \A id \in DOMAIN g : g[id] = ev \/ (id \in DOMAIN f /\ g[id] = f[id])
  PROVE  IsRecord(g)
BY DEF IsRecord, Range, ChangeEvents

(* A step on the cache of instance i.                                      *)
LEMMA CacheStep ==
  ASSUME ChangeInv, NEW i \in ChangeHosts, NEW c, IsRecord(c), cache' = [cache EXCEPT ![i] = c]
  PROVE  /\ DOMAIN cache' = ChangeHosts
         /\ \A j \in ChangeHosts : cache'[j] = IF j = i THEN c ELSE cache[j]
         /\ \A j \in ChangeHosts : IsRecord(cache'[j])
BY DEF ChangeInv, ChangeTypeOK, CachesOK

LEMMA IndexIsTyped ==
  ASSUME NEW f, IsRecord(f) PROVE IdsByNode(f) \in [ChangeNodes -> SUBSET ChangeIds]
BY DEF IsRecord, IdsByNode

LEMMA ChangeFaultIsCounted ==
  ASSUME ChangeTypeOK, ChangeFault PROVE changeFaults' \in 0..MaxChangeFaults
<1>1. changeFaults \in 0..MaxChangeFaults /\ MaxChangeFaults \in Nat
  BY ChangeAssumption DEF ChangeTypeOK
<1> QED BY <1>1 DEF ChangeFault

LEMMA ChangeInvInit == ChangeInit => ChangeInv
<1> SUFFICES ASSUME ChangeInit PROVE ChangeInv
  OBVIOUS
<1>1. 0 \in 0..MaxChangeTime /\ 0 \in 0..MaxChangeFaults
  BY ChangeAssumption
<1>2. ChangeTypeOK
  BY <1>1, NilIsRecord DEF ChangeInit, ChangeTypeOK, NoIds
<1>3. CachesOK /\ AckedAreCached
  BY DEF ChangeInit, CachesOK, AckedAreCached
<1>4. IdsByNode(Nil) = NoIds
  BY NilIsRecord DEF IdsByNode, NoIds
<1>5. IndexesOK
  BY <1>4 DEF ChangeInit, IndexesOK
<1> QED BY <1>2, <1>3, <1>5 DEF ChangeInv

LEMMA RecordKeeps ==
  ASSUME ChangeInv, NEW i \in ChangeHosts, NEW ev \in ChangeEvents, Record(i, ev)
  PROVE  ChangeInv'
<1> DEFINE c == [id \in DOMAIN cache[i] \cup {ev.id} |-> IF id = ev.id THEN ev ELSE cache[i][id]]
<1>1. /\ DOMAIN c = DOMAIN cache[i] \cup {ev.id} /\ c[ev.id] = ev
      /\ \A id \in DOMAIN cache[i] : c[id] = cache[i][id]
  BY DEF Record
<1>2. IsRecord(c)
  <2>1. \A id \in DOMAIN c : c[id] = ev \/ (id \in DOMAIN cache[i] /\ c[id] = cache[i][id])
    BY <1>1
  <2>2. IsRecord(cache[i]) BY DEF ChangeInv, ChangeTypeOK
  <2> HIDE DEF c
  <2> QED BY <2>1, <2>2, <1>1, RecordGrows
<1>3. cache' = [cache EXCEPT ![i] = c] BY DEF Record
<1>4. ev.id \in ChangeIds /\ ev.node \in ChangeNodes BY DEF ChangeEvents
<1> HIDE DEF c
<1>5. /\ DOMAIN cache' = ChangeHosts
      /\ \A j \in ChangeHosts : cache'[j] = IF j = i THEN c ELSE cache[j]
      /\ \A j \in ChangeHosts : IsRecord(cache'[j])
  BY <1>2, <1>3, CacheStep
<1>6. byNode' = [byNode EXCEPT ![i][ev.node] = @ \cup {ev.id}] BY DEF Record
<1>7. byNode' \in [ChangeHosts -> [ChangeNodes -> SUBSET ChangeIds]]
  BY <1>4, <1>6 DEF ChangeInv, ChangeTypeOK
<1>8. IndexesOK'
  <2> SUFFICES ASSUME NEW j \in ChangeHosts PROVE byNode'[j] = IdsByNode(cache'[j])
    BY DEF IndexesOK, IdsByNode
  <2>1. CASE j # i
    <3>1. byNode'[j] = byNode[j] BY <2>1, <1>6 DEF ChangeInv, ChangeTypeOK
    <3> QED BY <2>1, <3>1, <1>5 DEF ChangeInv, IndexesOK
  <2>2. CASE j = i
    <3>1. byNode'[i] = [byNode[i] EXCEPT ![ev.node] = @ \cup {ev.id}]
      BY <1>6 DEF ChangeInv, ChangeTypeOK
    <3>2. byNode[i] = [n \in ChangeNodes |-> {id \in DOMAIN cache[i] : cache[i][id].node = n}]
      BY DEF ChangeInv, IndexesOK, IdsByNode
    <3>3. byNode'[i] = [n \in ChangeNodes |-> {id \in DOMAIN c : c[id].node = n}]
      <4>1. byNode'[i] = [n \in ChangeNodes |-> IF n = ev.node THEN byNode[i][n] \cup {ev.id} ELSE byNode[i][n]]
        BY <3>1, <3>2
      <4>2. ASSUME NEW n \in ChangeNodes
            PROVE  (IF n = ev.node THEN byNode[i][n] \cup {ev.id} ELSE byNode[i][n])
                     = {id \in DOMAIN c : c[id].node = n}
        BY <3>2, <1>1, <1>4 DEF Record
      <4> QED BY <4>1, <4>2
    <3> QED BY <2>2, <3>3, <1>5 DEF IdsByNode
  <2> QED BY <2>1, <2>2
<1>9. ChangeTypeOK' /\ CachesOK'
  <2>1. persisting' \in [ChangeHosts -> SUBSET ChangeEvents]
    BY DEF Record, ChangeInv, CachesOK
  <2>2. acknowledged' \in [ChangeHosts -> SUBSET ChangeIds]
    BY <1>4 DEF Record, ChangeInv, ChangeTypeOK
  <2> QED BY <1>5, <1>7, <2>1, <2>2 DEF Record, ChangeInv, ChangeTypeOK, CachesOK
<1>10. AckedAreCached'
  <2> SUFFICES ASSUME NEW j \in ChangeHosts, store'[j] = "pg" PROVE acknowledged'[j] \subseteq DOMAIN cache'[j]
    BY DEF AckedAreCached
  <2>1. acknowledged[j] \subseteq DOMAIN cache[j] /\ store[j] = "pg"
    BY DEF Record, ChangeInv, AckedAreCached
  <2>2. acknowledged'[j] = acknowledged[j]
    BY <2>1 DEF Record, ChangeInv, ChangeTypeOK
  <2> QED BY <2>1, <2>2, <1>1, <1>5
<1> QED BY <1>8, <1>9, <1>10 DEF ChangeInv

LEMMA RecordAgainKeeps ==
  ASSUME ChangeInv, NEW i \in ChangeHosts, NEW id \in ChangeIds, RecordAgain(i, id)
  PROVE  ChangeInv'
<1>1. acknowledged' = [acknowledged EXCEPT ![i] = @ \cup {id}] /\ id \in DOMAIN cache[i]
      /\ UNCHANGED <<changeClock, store, cache, byNode, persisting, table, changeFaults>>
  BY DEF RecordAgain
<1>2. ChangeTypeOK'
  BY <1>1 DEF ChangeInv, ChangeTypeOK
<1>3. CachesOK' /\ IndexesOK' /\ AckedAreCached'
  BY <1>1 DEF ChangeInv, ChangeTypeOK, CachesOK, IndexesOK, IdsByNode, AckedAreCached
<1> QED BY <1>2, <1>3 DEF ChangeInv

LEMMA PersistKeeps ==
  ASSUME ChangeInv, NEW i \in ChangeHosts, NEW ev \in ChangeEvents, Persist(i, ev)
  PROVE  ChangeInv'
<1>1. /\ persisting' = [persisting EXCEPT ![i] = @ \ {ev}]
      /\ acknowledged' = [acknowledged EXCEPT ![i] = @ \cup ({ev.id} \cap DOMAIN cache[i])]
      /\ UNCHANGED <<changeClock, store, cache, byNode>>
  BY DEF Persist
<1>2. IsRecord(table')
  <2> DEFINE t == [id \in DOMAIN table \cup {ev.id} |-> IF id \in DOMAIN table THEN table[id] ELSE ev]
  <2>1. IsRecord(table) BY DEF ChangeInv, ChangeTypeOK
  <2>2. DOMAIN t = DOMAIN table \cup {ev.id}
        /\ \A id \in DOMAIN t : t[id] = ev \/ (id \in DOMAIN table /\ t[id] = table[id])
    OBVIOUS
  <2>3. table' = t \/ table' = table BY DEF Persist
  <2> HIDE DEF t
  <2> QED BY <2>1, <2>2, <2>3, RecordGrows
<1>3. changeFaults' \in 0..MaxChangeFaults
  BY ChangeFaultIsCounted DEF Persist, ChangeInv, ChangeTypeOK
<1>4. ev.id \in ChangeIds BY DEF ChangeEvents
<1>5. ChangeTypeOK' /\ CachesOK'
  BY <1>1, <1>2, <1>3, <1>4 DEF ChangeInv, ChangeTypeOK, CachesOK
<1>6. IndexesOK' /\ AckedAreCached'
  BY <1>1 DEF ChangeInv, ChangeTypeOK, IndexesOK, IdsByNode, AckedAreCached
<1> QED BY <1>5, <1>6 DEF ChangeInv

LEMMA PruneBeforeKeeps ==
  ASSUME ChangeInv, NEW i \in ChangeHosts, PruneBefore(i)
  PROVE  ChangeInv'
<1> DEFINE c == Kept(cache[i])
<1>1. IsRecord(cache[i]) /\ IsRecord(table) BY DEF ChangeInv, ChangeTypeOK
<1>2. IsRecord(c) /\ DOMAIN c \subseteq DOMAIN cache[i] BY <1>1, KeptIsRecord
<1>3. Aged(cache[i]) = DOMAIN cache[i] \ DOMAIN c BY DEF Aged
<1>4. cache' = [cache EXCEPT ![i] = c] BY DEF PruneBefore
<1>5. IsRecord(table') BY <1>1, KeptIsRecord DEF PruneBefore
<1> HIDE DEF c
<1>6. /\ DOMAIN cache' = ChangeHosts
      /\ \A j \in ChangeHosts : cache'[j] = IF j = i THEN c ELSE cache[j]
      /\ \A j \in ChangeHosts : IsRecord(cache'[j])
  BY <1>2, <1>4, CacheStep
<1>7. byNode' = [byNode EXCEPT ![i] = IF c = cache[i] THEN @ ELSE IdsByNode(c)]
  BY <1>6 DEF PruneBefore
<1>8. IdsByNode(c) \in [ChangeNodes -> SUBSET ChangeIds] BY <1>2, IndexIsTyped
<1>9. byNode' \in [ChangeHosts -> [ChangeNodes -> SUBSET ChangeIds]]
  BY <1>7, <1>8 DEF ChangeInv, ChangeTypeOK
<1>10. acknowledged' = [acknowledged EXCEPT ![i] = {id \in @ : id \notin Aged(cache[i])}]
       /\ UNCHANGED <<changeClock, store, persisting, changeFaults>>
  BY DEF PruneBefore
<1>11. ChangeTypeOK' /\ CachesOK'
  BY <1>5, <1>6, <1>9, <1>10 DEF ChangeInv, ChangeTypeOK, CachesOK
<1>12. IndexesOK'
  <2> SUFFICES ASSUME NEW j \in ChangeHosts PROVE byNode'[j] = IdsByNode(cache'[j])
    BY DEF IndexesOK, IdsByNode
  <2>1. byNode[j] = IdsByNode(cache[j]) BY DEF ChangeInv, IndexesOK
  <2> QED BY <2>1, <1>6, <1>7 DEF ChangeInv, ChangeTypeOK
<1>13. AckedAreCached'
  <2> SUFFICES ASSUME NEW j \in ChangeHosts, store[j] = "pg" PROVE acknowledged'[j] \subseteq DOMAIN cache'[j]
    BY <1>10 DEF AckedAreCached
  <2>1. acknowledged[j] \subseteq DOMAIN cache[j] BY DEF ChangeInv, AckedAreCached
  <2> QED BY <2>1, <1>3, <1>6, <1>10 DEF ChangeInv, ChangeTypeOK
<1> QED BY <1>11, <1>12, <1>13 DEF ChangeInv

(* An instance starts with the rows read as its cache.                     *)
LEMMA LoadedKeeps ==
  ASSUME ChangeInv, NEW i \in ChangeHosts, LoadSince(i), NEW c, NEW s \in {"pg", "memory"},
         IsRecord(c), cache' = [cache EXCEPT ![i] = c], store' = [store EXCEPT ![i] = s],
         s = "pg" => DOMAIN c = DOMAIN Kept(table)
  PROVE  ChangeInv'
<1>3. /\ DOMAIN cache' = ChangeHosts
      /\ \A j \in ChangeHosts : cache'[j] = IF j = i THEN c ELSE cache[j]
      /\ \A j \in ChangeHosts : IsRecord(cache'[j])
  BY CacheStep
<1>4. byNode' = [byNode EXCEPT ![i] = IdsByNode(c)]
  BY <1>3 DEF LoadSince
<1>5. byNode' \in [ChangeHosts -> [ChangeNodes -> SUBSET ChangeIds]]
  BY <1>4, IndexIsTyped DEF ChangeInv, ChangeTypeOK
<1>6. acknowledged' = [acknowledged EXCEPT ![i] = @ \cap DOMAIN Kept(table)]
      /\ UNCHANGED <<changeClock, persisting, table>>
  BY DEF LoadSince
<1>7. changeFaults' \in 0..MaxChangeFaults
  BY ChangeFaultIsCounted DEF LoadSince, ChangeInv, ChangeTypeOK
<1>8. ChangeTypeOK' /\ CachesOK'
  BY <1>3, <1>5, <1>6, <1>7 DEF ChangeInv, ChangeTypeOK, CachesOK
<1>9. IndexesOK'
  <2> SUFFICES ASSUME NEW j \in ChangeHosts PROVE byNode'[j] = IdsByNode(cache'[j])
    BY DEF IndexesOK, IdsByNode
  <2>1. byNode[j] = IdsByNode(cache[j]) BY DEF ChangeInv, IndexesOK
  <2> QED BY <2>1, <1>3, <1>4 DEF ChangeInv, ChangeTypeOK
<1>10. AckedAreCached'
  <2> SUFFICES ASSUME NEW j \in ChangeHosts, store'[j] = "pg" PROVE acknowledged'[j] \subseteq DOMAIN cache'[j]
    BY DEF AckedAreCached
  <2>1. store'[j] = IF j = i THEN s ELSE store[j] BY DEF ChangeInv, ChangeTypeOK
  <2>2. acknowledged'[j] = IF j = i THEN acknowledged[j] \cap DOMAIN Kept(table) ELSE acknowledged[j]
    BY <1>6 DEF ChangeInv, ChangeTypeOK
  <2> QED BY <2>1, <2>2, <1>3 DEF ChangeInv, AckedAreCached
<1> QED BY <1>8, <1>9, <1>10 DEF ChangeInv

LEMMA LoadSinceKeeps ==
  ASSUME ChangeInv, NEW i \in ChangeHosts, LoadSince(i)
  PROVE  ChangeInv'
<1>1. IsRecord(table) /\ IsRecord(Kept(table)) /\ DOMAIN Kept(table) \subseteq DOMAIN table
  BY KeptIsRecord DEF ChangeInv, ChangeTypeOK
<1>2. CASE store' = [store EXCEPT ![i] = "pg"] /\ cache' = [cache EXCEPT ![i] = Kept(table)]
  BY <1>1, <1>2, LoadedKeeps
<1>3. ASSUME store' = [store EXCEPT ![i] = "memory"], NEW read \in SUBSET DOMAIN Kept(table),
             cache' = [cache EXCEPT ![i] = Restrict(table, read)]
      PROVE  ChangeInv'
  <2>1. IsRecord(Restrict(table, read)) BY <1>1, RecordsArePruned
  <2> QED BY <1>3, <2>1, LoadedKeeps
<1> QED BY <1>2, <1>3 DEF LoadSince

LEMMA HostDiesKeeps ==
  ASSUME ChangeInv, NEW i \in ChangeHosts, HostDies(i)
  PROVE  ChangeInv'
<1>1. /\ store' = [store EXCEPT ![i] = "down"]
      /\ cache' = [cache EXCEPT ![i] = Nil]
      /\ byNode' = [byNode EXCEPT ![i] = NoIds]
      /\ persisting' = [persisting EXCEPT ![i] = {}]
      /\ UNCHANGED <<changeClock, table, acknowledged>>
  BY DEF HostDies
<1>2. /\ DOMAIN cache' = ChangeHosts
      /\ \A j \in ChangeHosts : cache'[j] = IF j = i THEN Nil ELSE cache[j]
      /\ \A j \in ChangeHosts : IsRecord(cache'[j])
  BY <1>1, NilIsRecord, CacheStep
<1>3. changeFaults' \in 0..MaxChangeFaults
  BY ChangeFaultIsCounted DEF HostDies, ChangeInv, ChangeTypeOK
<1>4. NoIds \in [ChangeNodes -> SUBSET ChangeIds] /\ IdsByNode(Nil) = NoIds
  BY NilIsRecord DEF NoIds, IdsByNode
<1>5. ChangeTypeOK' /\ CachesOK'
  BY <1>1, <1>2, <1>3, <1>4 DEF ChangeInv, ChangeTypeOK, CachesOK
<1>6. IndexesOK'
  <2> SUFFICES ASSUME NEW j \in ChangeHosts PROVE byNode'[j] = IdsByNode(cache'[j])
    BY DEF IndexesOK, IdsByNode
  <2>1. byNode[j] = IdsByNode(cache[j]) BY DEF ChangeInv, IndexesOK
  <2> QED BY <2>1, <1>1, <1>2, <1>4 DEF ChangeInv, ChangeTypeOK
<1>7. AckedAreCached'
  BY <1>1, <1>2 DEF ChangeInv, ChangeTypeOK, AckedAreCached
<1> QED BY <1>5, <1>6, <1>7 DEF ChangeInv

LEMMA ChangeInvPreserved == ChangeInv /\ [ChangeNext]_changeVars => ChangeInv'
<1> SUFFICES ASSUME ChangeInv, [ChangeNext]_changeVars PROVE ChangeInv'
  OBVIOUS
<1>1. CASE TimeGoesOn
  <2>1. changeClock' \in 0..MaxChangeTime
    <3>1. changeClock \in 0..MaxChangeTime /\ MaxChangeTime \in Nat
      BY ChangeAssumption DEF ChangeInv, ChangeTypeOK
    <3> QED BY <1>1, <3>1 DEF TimeGoesOn
  <2>2. UNCHANGED <<store, cache, byNode, persisting, table, acknowledged, changeFaults>>
    BY <1>1 DEF TimeGoesOn
  <2> QED BY <2>1, <2>2 DEF ChangeInv, ChangeTypeOK, CachesOK, IndexesOK, IdsByNode, AckedAreCached
<1>2. CASE UNCHANGED changeVars
  BY <1>2 DEF changeVars, ChangeInv, ChangeTypeOK, CachesOK, IndexesOK, IdsByNode, AckedAreCached
<1> QED
  BY <1>1, <1>2, RecordKeeps, PersistKeeps, RecordAgainKeeps, PruneBeforeKeeps, LoadSinceKeeps,
     HostDiesKeeps
  DEF ChangeNext

(* Type correctness of the record of changes.                              *)
THEOREM ChangeTypeCorrect == ChangeSpec => []ChangeTypeOK
<1>1. ChangeInv => ChangeTypeOK BY DEF ChangeInv
<1> QED BY <1>1, ChangeInvInit, ChangeInvPreserved, PTL DEF ChangeSpec

(* The index of a cache is exact, and an acknowledged change that has its  *)
(* row is found, for any number of instances, changes, failures and        *)
(* restarts.                                                               *)
THEOREM ChangesStayFound == ChangeSpec => []ChangesAreFound
<1>1. ChangeInv => ChangesAreFound
  BY DEF ChangeInv, IndexesOK, AckedAreCached, ChangesAreFound
<1> QED BY <1>1, ChangeInvInit, ChangeInvPreserved, PTL DEF ChangeSpec

------------------------------------------------------------------------------
(* SchemaUpgrade                                                           *)

(* The greatest of some versions is one of them.                           *)
LEMMA GreatestVersion ==
  ASSUME NEW T, T \subseteq 0..Latest, T # {}
  PROVE  Max(T) \in T /\ \A v \in T : v <= Max(T)
<1>1. \E n \in T : \A m \in T : m <= n
  <2>1. Latest \in Nat /\ T \subseteq Nat /\ \A n \in T : n <= Latest
    BY SchemaAssumption
  <2> QED BY <2>1, LargestNumber
<1>2. \E n \in T : \A m \in T : n >= m
  BY <1>1, SchemaAssumption
<1> QED BY <1>2, SchemaAssumption DEF Max

LEMMA MaxOfTwo ==
  ASSUME NEW a \in Nat, NEW b \in Nat
  PROVE  Max({a, b}) = IF a >= b THEN a ELSE b
<1> DEFINE m == IF a >= b THEN a ELSE b
<1>1. m \in {a, b} /\ \A x \in {a, b} : m >= x OBVIOUS
<1>2. \A y \in {a, b} : (\A x \in {a, b} : y >= x) => y = m OBVIOUS
<1> HIDE DEF m
<1> QED BY <1>1, <1>2 DEF Max, m

(* The version read is that of a row, or 0.                                *)
LEMMA VersionRead ==
  SchemaTypeOK => /\ SchemaVersion \in versionRows \cup {0}
                  /\ SchemaVersion \in 0..Latest
                  /\ \A v \in versionRows : v <= SchemaVersion
<1> SUFFICES ASSUME SchemaTypeOK
             PROVE  /\ SchemaVersion \in versionRows \cup {0}
                    /\ SchemaVersion \in 0..Latest
                    /\ \A v \in versionRows : v <= SchemaVersion
  OBVIOUS
<1> DEFINE T == versionRows \cup {0}
<1>1. T \subseteq 0..Latest /\ T # {}
  <2>1. versionRows \subseteq 1..Latest /\ Latest \in Nat
    BY SchemaAssumption DEF SchemaTypeOK, Migrations
  <2> QED BY <2>1
<1> HIDE DEF T
<1>2. Max(T) \in T /\ \A v \in T : v <= Max(T)
  BY <1>1, GreatestVersion
<1> QED BY <1>1, <1>2 DEF T, SchemaVersion

(* All migrations up to v have all their statements, but for the halfway.  *)
CompleteUpTo(v) == \A w \in 1..v : Complete(w) \/ w \in halfway

(* Every row of the ledger is backed, ...                                  *)
RowsAreBacked == \A v \in versionRows : CompleteUpTo(v)

(* ... what a run has in hand comes right after complete migrations, and   *)
(* the statements it has done are done, ...                                *)
RunsAreInOrder ==
  \A u \in Upgraders : upgrade[u].at # "idle" =>
    /\ upgrade[u].version \in Migrations
    /\ CompleteUpTo(upgrade[u].version - 1)
    /\ upgrade[u].done <= applied[upgrade[u].version]

(* ... golang-migrate's run likewise, ...                                  *)
GolangIsInOrder ==
  golang.at # "idle" =>
    /\ golang.version \in Migrations
    /\ CompleteUpTo(golang.version - 1)
    /\ golang.done <= applied[golang.version]

(* ... and a server let pass in silence has its schema.                    *)
SilenceIsBacked == \A b \in Binaries : gate[b] = "silent" => CompleteUpTo(b)

(* A run that applies statements has its ledger.                           *)
LedgerIsThere == \A u \in Upgraders : upgrade[u].at = "applying" => shape # "absent"

SchemaInv ==
  SchemaTypeOK /\ LedgerIsThere /\ RowsAreBacked /\ RunsAreInOrder /\ GolangIsInOrder /\ SilenceIsBacked

(* Nothing undoes a statement, and only a complete version is no longer    *)
(* halfway.                                                                *)
Grows ==
  /\ \A v \in Migrations : applied[v] <= applied'[v] /\ applied'[v] <= Statements
  /\ \A v \in halfway : v \in halfway' \/ Complete(v)'

LEMMA CompleteStays ==
  ASSUME SchemaTypeOK, SchemaTypeOK', Grows, NEW v \in 0..Latest, CompleteUpTo(v)
  PROVE  CompleteUpTo(v)'
<1> SUFFICES ASSUME NEW w \in 1..v PROVE Complete(w)' \/ w \in halfway'
  BY DEF CompleteUpTo
<1>1. w \in Migrations /\ (applied[w] = Statements \/ w \in halfway) /\ Statements \in Nat
  BY SchemaAssumption DEF Migrations, CompleteUpTo, Complete
<1>2. applied'[w] \in 0..Statements
  BY <1>1 DEF SchemaTypeOK
<1> QED BY <1>1, <1>2 DEF Grows, Complete

(* A step under which no statement is undone keeps what it does not touch. *)
LEMMA GrowingKeeps ==
  ASSUME SchemaInv, SchemaTypeOK', Grows
  PROVE  /\ versionRows' = versionRows => RowsAreBacked'
         /\ gate' = gate => SilenceIsBacked'
         /\ \A u \in Upgraders : upgrade'[u] = upgrade[u] /\ upgrade[u].at # "idle" =>
              /\ upgrade'[u].version \in Migrations
              /\ CompleteUpTo(upgrade[u].version - 1)'
              /\ upgrade'[u].done <= applied'[upgrade'[u].version]
         /\ golang' = golang => GolangIsInOrder'
<1> USE SchemaAssumption DEF SchemaInv, Migrations
<1>1. versionRows \subseteq 0..Latest /\ Binaries \subseteq 0..Latest
  <2>1. versionRows \subseteq 1..Latest BY DEF SchemaTypeOK
  <2> QED BY <2>1
<1>2. versionRows' = versionRows => RowsAreBacked'
  BY <1>1, CompleteStays DEF RowsAreBacked
<1>3. gate' = gate => SilenceIsBacked'
  BY <1>1, CompleteStays DEF SilenceIsBacked
<1>4. ASSUME NEW u \in Upgraders, upgrade'[u] = upgrade[u], upgrade[u].at # "idle"
      PROVE  /\ upgrade'[u].version \in Migrations
             /\ CompleteUpTo(upgrade[u].version - 1)'
             /\ upgrade'[u].done <= applied'[upgrade'[u].version]
  <2> DEFINE v == upgrade[u].version
  <2>1. v \in Migrations /\ CompleteUpTo(v - 1) /\ upgrade[u].done <= applied[v]
    BY <1>4 DEF RunsAreInOrder
  <2>2. v - 1 \in 0..Latest
    BY <2>1
  <2>3. CompleteUpTo(upgrade[u].version - 1)'
    <3>1. PICK n \in 0..Latest : n = upgrade[u].version - 1 BY <2>2
    <3>2. CompleteUpTo(n)' BY <2>1, <3>1, CompleteStays
    <3>3. upgrade'[u].version - 1 = n BY <1>4, <3>1
    <3> QED BY <3>2, <3>3 DEF CompleteUpTo, Complete
  <2>4. upgrade[u].done \in Nat /\ applied[v] \in Nat /\ applied'[v] \in Nat
    <3>1. upgrade[u].done \in 0..Statements
      BY DEF SchemaTypeOK
    <3>2. applied[v] \in 0..Statements /\ applied'[v] \in 0..Statements
      BY <2>1 DEF SchemaTypeOK
    <3> QED BY <3>1, <3>2
  <2>5. applied[v] <= applied'[v]
    BY <2>1 DEF Grows
  <2>6. upgrade[u].done <= applied'[v]
    BY <2>1, <2>4, <2>5
  <2> QED BY <1>4, <2>1, <2>3, <2>6
<1>5. ASSUME golang' = golang, golang.at # "idle"
      PROVE  /\ golang'.version \in Migrations
             /\ CompleteUpTo(golang.version - 1)'
             /\ golang'.done <= applied'[golang'.version]
  <2> DEFINE v == golang.version
  <2>1. v \in Migrations /\ CompleteUpTo(v - 1) /\ golang.done <= applied[v]
    BY <1>5 DEF GolangIsInOrder
  <2>2. v - 1 \in 0..Latest
    BY <2>1
  <2>3. CompleteUpTo(golang.version - 1)'
    <3>1. PICK n \in 0..Latest : n = golang.version - 1 BY <2>2
    <3>2. CompleteUpTo(n)' BY <2>1, <3>1, CompleteStays
    <3>3. golang'.version - 1 = n BY <1>5, <3>1
    <3> QED BY <3>2, <3>3 DEF CompleteUpTo, Complete
  <2>4. golang.done \in Nat /\ applied[v] \in Nat /\ applied'[v] \in Nat
    <3>1. golang.done \in 0..Statements
      BY DEF SchemaTypeOK
    <3>2. applied[v] \in 0..Statements /\ applied'[v] \in 0..Statements
      BY <2>1 DEF SchemaTypeOK
    <3> QED BY <3>1, <3>2
  <2>5. applied[v] <= applied'[v]
    BY <2>1 DEF Grows
  <2>6. golang.done <= applied'[v]
    BY <2>1, <2>4, <2>5
  <2> QED BY <1>5, <2>1, <2>3, <2>6
<1>6. golang' = golang => GolangIsInOrder'
  BY <1>5 DEF GolangIsInOrder, CompleteUpTo, Complete
<1> QED BY <1>2, <1>3, <1>4, <1>6

LEMMA SchemaInvInit == SchemaInit => SchemaInv
<1> SUFFICES ASSUME SchemaInit PROVE SchemaInv
  OBVIOUS
<1>1. SchemaTypeOK
  <2>1. 0 \in 0..Latest /\ 0 \in 0..Statements /\ 0 \in 0..MaxUpgradeFaults
    BY SchemaAssumption
  <2>2. upgradeFaults = 0 /\ versionRows = {}
    BY DEF SchemaInit
  <2>3. UpgradeAbsent \in [at : {"idle", "read", "backed up", "applying"},
                          version : 0..Latest, done : 0..Statements]
    BY <2>1 DEF UpgradeAbsent
  <2>4. UpgradeAbsent \in [at : {"idle", "next", "applying"}, version : 0..Latest, done : 0..Statements]
        /\ UpgradeAbsent.at = "idle"
    BY <2>1 DEF UpgradeAbsent
  <2> QED BY <2>1, <2>2, <2>3, <2>4 DEF SchemaInit, SchemaTypeOK
<1>2. LedgerIsThere /\ RowsAreBacked /\ RunsAreInOrder /\ GolangIsInOrder /\ SilenceIsBacked
  BY DEF SchemaInit, LedgerIsThere, RowsAreBacked, RunsAreInOrder, GolangIsInOrder,
         SilenceIsBacked, UpgradeAbsent
<1> QED BY <1>1, <1>2 DEF SchemaInv

UpgradeStates == [at : {"idle", "read", "backed up", "applying"}, version : 0..Latest, done : 0..Statements]
GolangStates == [at : {"idle", "next", "applying"}, version : 0..Latest, done : 0..Statements]

(* A step of run u that leaves ledger, schema and gate as they are.        *)
LEMMA RunMovesOn ==
  ASSUME SchemaInv, NEW u \in Upgraders, NEW run \in UpgradeStates,
         upgrade' = [upgrade EXCEPT ![u] = run],
         run.at # "idle" => /\ run.version \in Migrations
                            /\ CompleteUpTo(run.version - 1)
                            /\ run.done <= applied[run.version],
         shape' \in {"absent", "own", "golang", "bare"},
         shape # "absent" => shape' = shape,
         run.at = "applying" => shape' # "absent",
         upgradeFaults' \in 0..MaxUpgradeFaults,
         UNCHANGED <<applied, versionRows, golangVars, gate>>
  PROVE  SchemaInv'
<1> USE DEF golangVars
<1>1. SchemaTypeOK'
  BY DEF SchemaInv, SchemaTypeOK, UpgradeStates
<1>2. RowsAreBacked' /\ SilenceIsBacked' /\ GolangIsInOrder'
  BY DEF SchemaInv, RowsAreBacked, SilenceIsBacked, GolangIsInOrder, CompleteUpTo, Complete
<1>3. RunsAreInOrder'
  <2> SUFFICES ASSUME NEW w \in Upgraders, upgrade'[w].at # "idle"
               PROVE  /\ upgrade'[w].version \in Migrations
                      /\ \A v \in 1..upgrade'[w].version - 1 : applied[v] = Statements \/ v \in halfway
                      /\ upgrade'[w].done <= applied[upgrade'[w].version]
    BY DEF RunsAreInOrder, CompleteUpTo, Complete
  <2>1. upgrade'[w] = IF w = u THEN run ELSE upgrade[w]
    BY DEF SchemaInv, SchemaTypeOK
  <2> QED BY <2>1 DEF SchemaInv, RunsAreInOrder, CompleteUpTo, Complete
<1>4. LedgerIsThere'
  BY DEF SchemaInv, LedgerIsThere, SchemaTypeOK
<1> QED BY <1>1, <1>2, <1>3, <1>4 DEF SchemaInv

LEMMA FaultIsCounted ==
  SchemaTypeOK /\ SchemaFault => upgradeFaults' \in 0..MaxUpgradeFaults
<1> SUFFICES ASSUME SchemaTypeOK, SchemaFault PROVE upgradeFaults' \in 0..MaxUpgradeFaults
  OBVIOUS
<1>1. upgradeFaults \in 0..MaxUpgradeFaults /\ MaxUpgradeFaults \in Nat
  BY SchemaAssumption DEF SchemaTypeOK
<1> QED BY <1>1 DEF SchemaFault

LEMMA AbsentRun == UpgradeAbsent \in UpgradeStates /\ UpgradeAbsent.at = "idle"
BY SchemaAssumption DEF UpgradeAbsent, UpgradeStates

LEMMA ReadVersionKeeps ==
  ASSUME SchemaInv, NEW u \in Upgraders, ReadVersion(u) PROVE SchemaInv'
<1> DEFINE n == SchemaVersion + 1
           run == [at |-> "read", version |-> n, done |-> 0]
<1>1. SchemaVersion \in versionRows \cup {0} /\ SchemaVersion \in 0..Latest
  BY VersionRead DEF SchemaInv
<1>2. n \in Migrations /\ n - 1 = SchemaVersion
  BY <1>1, SchemaAssumption DEF ReadVersion, Migrations
<1>3. CompleteUpTo(n - 1)
  BY <1>1, <1>2 DEF SchemaInv, RowsAreBacked, CompleteUpTo
<1>4. applied[n] \in 0..Statements
  BY <1>2 DEF SchemaInv, SchemaTypeOK
<1>5. upgrade' = [upgrade EXCEPT ![u] = run] /\ UNCHANGED <<applied, shape, versionRows, golangVars, gate, upgradeFaults>>
  BY DEF ReadVersion, ledgerVars
<1>6. run \in UpgradeStates
  BY <1>2, SchemaAssumption DEF UpgradeStates, Migrations
<1>7. shape \in {"absent", "own", "golang", "bare"} /\ upgradeFaults \in 0..MaxUpgradeFaults
  BY DEF SchemaInv, SchemaTypeOK
<1>8. 0 <= applied[n] BY <1>4
<1>9. run.version = n /\ run.done = 0 /\ run.at = "read" OBVIOUS
<1> HIDE DEF n, run
<1> QED BY <1>2, <1>3, <1>5, <1>6, <1>7, <1>8, <1>9, RunMovesOn

LEMMA BackUpKeeps ==
  ASSUME SchemaInv, NEW u \in Upgraders, BackUp(u) PROVE SchemaInv'
<1> DEFINE run == [upgrade[u] EXCEPT !.at = "backed up"]
<1>1. upgrade[u] \in UpgradeStates /\ shape \in {"absent", "own", "golang", "bare"}
      /\ upgradeFaults \in 0..MaxUpgradeFaults
  BY DEF SchemaInv, SchemaTypeOK, UpgradeStates
<1>2. run \in UpgradeStates /\ run.at = "backed up"
      /\ run.version = upgrade[u].version /\ run.done = upgrade[u].done
  BY <1>1 DEF UpgradeStates
<1>3. /\ upgrade[u].version \in Migrations
      /\ CompleteUpTo(upgrade[u].version - 1)
      /\ upgrade[u].done <= applied[upgrade[u].version]
  BY DEF SchemaInv, RunsAreInOrder, BackUp
<1>4. CASE upgrade' = [upgrade EXCEPT ![u].at = "backed up"] /\ UNCHANGED upgradeFaults
  <2>1. upgrade' = [upgrade EXCEPT ![u] = run] BY <1>4
  <2> HIDE DEF run
  <2> QED BY <2>1, <1>1, <1>2, <1>3, <1>4, RunMovesOn DEF BackUp, ledgerVars
<1>5. CASE upgrade' = [upgrade EXCEPT ![u] = UpgradeAbsent] /\ SchemaFault
  <2>1. upgradeFaults' \in 0..MaxUpgradeFaults BY <1>5, FaultIsCounted DEF SchemaInv
  <2> QED BY <2>1, <1>1, <1>5, AbsentRun, RunMovesOn DEF BackUp, ledgerVars
<1> QED BY <1>4, <1>5 DEF BackUp

LEMMA EnsureLedgerKeeps ==
  ASSUME SchemaInv, NEW u \in Upgraders, EnsureLedger(u) PROVE SchemaInv'
<1> DEFINE run == [upgrade[u] EXCEPT !.at = "applying"]
<1>1. upgrade[u] \in UpgradeStates /\ shape \in {"absent", "own", "golang", "bare"}
      /\ upgradeFaults \in 0..MaxUpgradeFaults
  BY DEF SchemaInv, SchemaTypeOK, UpgradeStates
<1>2. run \in UpgradeStates /\ run.version = upgrade[u].version /\ run.done = upgrade[u].done
  BY <1>1 DEF UpgradeStates
<1>3. /\ upgrade[u].version \in Migrations
      /\ CompleteUpTo(upgrade[u].version - 1)
      /\ upgrade[u].done <= applied[upgrade[u].version]
  BY DEF SchemaInv, RunsAreInOrder, EnsureLedger
<1>4. upgrade' = [upgrade EXCEPT ![u] = run] /\ UNCHANGED <<applied, versionRows, golangVars, gate, upgradeFaults>>
  BY DEF EnsureLedger
<1>5. shape' \in {"absent", "own", "golang", "bare"} /\ shape' # "absent" /\ (shape # "absent" => shape' = shape)
  BY <1>1 DEF EnsureLedger
<1> HIDE DEF run
<1> QED BY <1>1, <1>2, <1>3, <1>4, <1>5, RunMovesOn

LEMMA UpgradeBreaksKeeps ==
  ASSUME SchemaInv, NEW u \in Upgraders, UpgradeBreaks(u) PROVE SchemaInv'
<1>1. shape \in {"absent", "own", "golang", "bare"} /\ upgradeFaults' \in 0..MaxUpgradeFaults
  BY FaultIsCounted DEF SchemaInv, SchemaTypeOK, UpgradeBreaks
<1> QED BY <1>1, AbsentRun, RunMovesOn DEF UpgradeBreaks, ledgerVars

LEMMA ApplyStatementKeeps ==
  ASSUME SchemaInv, NEW u \in Upgraders, ApplyStatement(u) PROVE SchemaInv'
<1> DEFINE v == upgrade[u].version
           n == upgrade[u].done + 1
           m == IF applied[v] >= n THEN applied[v] ELSE n
<1>1. v \in Migrations /\ CompleteUpTo(v - 1)
  BY DEF SchemaInv, RunsAreInOrder, ApplyStatement
<1>2. applied[v] \in 0..Statements /\ upgrade[u] \in UpgradeStates
  BY <1>1 DEF SchemaInv, SchemaTypeOK, UpgradeStates
<1>3. n \in 0..Statements
  <2>1. upgrade[u].done \in 0..Statements BY <1>2 DEF UpgradeStates
  <2>2. n <= Statements BY DEF ApplyStatement
  <2> QED BY <2>1, <2>2, SchemaAssumption
<1>4. Max({applied[v], n}) = m
  <2>1. applied[v] \in Nat /\ n \in Nat BY <1>2, <1>3
  <2> HIDE DEF n, v
  <2> QED BY <2>1, MaxOfTwo DEF m
<1>5. m \in 0..Statements /\ applied[v] <= m /\ n <= m
  BY <1>2, <1>3
<1>6. /\ applied' = [applied EXCEPT ![v] = m]
      /\ upgrade' = [upgrade EXCEPT ![u].done = n]
      /\ UNCHANGED <<shape, versionRows, dirty, golang, halfway, gate, upgradeFaults>>
  BY <1>4 DEF ApplyStatement, ledgerVars, golangVars
<1>7. [upgrade[u] EXCEPT !.done = n] \in UpgradeStates
  BY <1>2, <1>3 DEF UpgradeStates
<1> HIDE DEF m, n
<1>8. SchemaTypeOK'
  BY <1>1, <1>5, <1>6, <1>7 DEF SchemaInv, SchemaTypeOK, UpgradeStates
<1>9. Grows
  <2> SUFFICES ASSUME NEW w \in Migrations PROVE applied[w] <= applied'[w] /\ applied'[w] <= Statements
    BY <1>6 DEF Grows
  <2>1. applied[w] \in 0..Statements BY DEF SchemaInv, SchemaTypeOK
  <2>2. applied'[w] = IF w = v THEN m ELSE applied[w] BY <1>6 DEF SchemaInv, SchemaTypeOK
  <2> QED BY <2>1, <2>2, <1>5
<1>10. RunsAreInOrder'
  <2> SUFFICES ASSUME NEW w \in Upgraders, upgrade'[w].at # "idle"
               PROVE  /\ upgrade'[w].version \in Migrations
                      /\ CompleteUpTo(upgrade[w].version - 1)'
                      /\ upgrade'[w].version = upgrade[w].version
                      /\ upgrade'[w].done <= applied'[upgrade'[w].version]
    BY DEF RunsAreInOrder, CompleteUpTo, Complete
  <2>1. CASE w # u
    <3>1. upgrade'[w] = upgrade[w] BY <2>1, <1>6 DEF SchemaInv, SchemaTypeOK
    <3> QED BY <3>1, <1>8, <1>9, GrowingKeeps
  <2>2. CASE w = u
    <3>1. upgrade'[u].version = v /\ upgrade'[u].done = n
      BY <1>6 DEF SchemaInv, SchemaTypeOK
    <3>2. PICK j \in 0..Latest : j = upgrade[u].version - 1
      BY <1>1, SchemaAssumption DEF Migrations
    <3>3. CompleteUpTo(j)'
      BY <1>1, <1>8, <1>9, <3>2, CompleteStays DEF SchemaInv
    <3>4. upgrade'[u].version - 1 = j
      BY <3>1, <3>2
    <3>5. applied'[v] = m
      BY <1>1, <1>6 DEF SchemaInv, SchemaTypeOK
    <3>6. CompleteUpTo(upgrade[u].version - 1)'
      BY <3>1, <3>3, <3>4 DEF CompleteUpTo, Complete
    <3> QED BY <2>2, <1>1, <1>5, <3>1, <3>5, <3>6
  <2> QED BY <2>1, <2>2
<1>11. LedgerIsThere'
  BY <1>6 DEF SchemaInv, LedgerIsThere, SchemaTypeOK
<1> QED BY <1>6, <1>8, <1>9, <1>10, <1>11, GrowingKeeps DEF SchemaInv

LEMMA RegisterVersionKeeps ==
  ASSUME SchemaInv, NEW u \in Upgraders, RegisterVersion(u) PROVE SchemaInv'
<1> DEFINE v == upgrade[u].version
           run == IF v = Latest THEN UpgradeAbsent
                  ELSE [upgrade[u] EXCEPT !.version = v + 1, !.done = 0]
<1>1. v \in Migrations /\ CompleteUpTo(v - 1) /\ Statements <= applied[v]
  BY DEF SchemaInv, RunsAreInOrder, RegisterVersion
<1>2. applied[v] = Statements
  <2>1. applied[v] \in 0..Statements BY <1>1 DEF SchemaInv, SchemaTypeOK
  <2> QED BY <1>1, <2>1, SchemaAssumption
<1>3. CompleteUpTo(v)
  <2> SUFFICES ASSUME NEW w \in 1..v PROVE Complete(w) \/ w \in halfway BY DEF CompleteUpTo
  <2>1. w \in 1..v - 1 \/ w = v BY <1>1 DEF Migrations
  <2> QED BY <2>1, <1>1, <1>2 DEF CompleteUpTo, Complete
<1>4. /\ run \in UpgradeStates
      /\ run.at # "idle" => run.version = v + 1 /\ v + 1 \in Migrations /\ run.done = 0
  <2>1. CASE v = Latest BY <2>1, AbsentRun
  <2>2. CASE v # Latest
    <3>1. v + 1 \in 0..Latest /\ v + 1 \in Migrations
      BY <1>1, <2>2, SchemaAssumption DEF Migrations
    <3>2. upgrade[u] \in UpgradeStates
      BY DEF SchemaInv, SchemaTypeOK, UpgradeStates
    <3>4. 0 \in 0..Statements
      BY SchemaAssumption
    <3>3. run = [upgrade[u] EXCEPT !.version = v + 1, !.done = 0] BY <2>2
    <3> QED BY <3>1, <3>2, <3>3, <3>4 DEF UpgradeStates
  <2> QED BY <2>1, <2>2
<1>5. versionRows' \subseteq versionRows \cup {v} 
  BY DEF RegisterVersion, Registered
<1>6. /\ upgrade' = [upgrade EXCEPT ![u] = run]
      /\ dirty' \in BOOLEAN /\ (dirty' => dirty)
      /\ UNCHANGED <<applied, shape, golang, halfway, gate, upgradeFaults>>
  BY DEF RegisterVersion, SchemaInv, SchemaTypeOK
<1>7. shape # "absent"
  BY DEF RegisterVersion, SchemaInv, LedgerIsThere
<1> HIDE DEF run, v
<1>8. SchemaTypeOK'
  BY <1>1, <1>4, <1>5, <1>6, <1>7 DEF SchemaInv, SchemaTypeOK, UpgradeStates
<1>9. RowsAreBacked' /\ SilenceIsBacked' /\ GolangIsInOrder'
  BY <1>3, <1>5, <1>6 DEF SchemaInv, RowsAreBacked, SilenceIsBacked, GolangIsInOrder, CompleteUpTo, Complete
<1>10. RunsAreInOrder'
  <2> SUFFICES ASSUME NEW w \in Upgraders, upgrade'[w].at # "idle"
               PROVE  /\ upgrade'[w].version \in Migrations
                      /\ \A m \in 1..upgrade'[w].version - 1 : applied[m] = Statements \/ m \in halfway
                      /\ upgrade'[w].done <= applied[upgrade'[w].version]
    BY <1>6 DEF RunsAreInOrder, CompleteUpTo, Complete
  <2>1. upgrade'[w] = IF w = u THEN run ELSE upgrade[w]
    BY <1>6 DEF SchemaInv, SchemaTypeOK
  <2>2. CASE w # u
    BY <2>1, <2>2 DEF SchemaInv, RunsAreInOrder, CompleteUpTo, Complete
  <2>3. CASE w = u
    <3>1. upgrade'[w].version = v + 1 /\ v + 1 \in Migrations /\ upgrade'[w].done = 0
      BY <1>4, <2>1, <2>3
    <3>2. applied[v + 1] \in 0..Statements BY <3>1 DEF SchemaInv, SchemaTypeOK
    <3>3. upgrade'[w].version - 1 = v BY <1>1, <3>1 DEF Migrations
    <3>4. 0 <= applied[v + 1] BY <3>2
    <3> QED BY <1>3, <3>1, <3>3, <3>4 DEF CompleteUpTo, Complete
  <2> QED BY <2>2, <2>3
<1>11. LedgerIsThere'
  BY <1>6, <1>7 DEF LedgerIsThere
<1> QED BY <1>8, <1>9, <1>10, <1>11 DEF SchemaInv

LEMMA MigrateAllKeeps == ASSUME SchemaInv, MigrateAll PROVE SchemaInv'
<1>1. PICK v \in Migrations, n \in 0..Statements :
        applied' = [w \in Migrations |-> IF w < v THEN Statements
                                         ELSE IF w = v THEN Max({n, applied[w]}) ELSE applied[w]]
  BY DEF MigrateAll
<1>2. UNCHANGED <<shape, versionRows, dirty, golang, halfway, upgrade, gate, upgradeFaults>>
  BY DEF MigrateAll, ledgerVars, golangVars
<1>3. ASSUME NEW w \in Migrations
      PROVE  /\ applied'[w] \in 0..Statements
             /\ applied[w] <= applied'[w]
  <2>1. applied[w] \in 0..Statements BY DEF SchemaInv, SchemaTypeOK
  <2>2. Max({n, applied[w]}) = IF n >= applied[w] THEN n ELSE applied[w]
    <3>1. n \in Nat /\ applied[w] \in Nat BY <2>1
    <3> QED BY <3>1, MaxOfTwo
  <2>3. applied'[w] = IF w < v THEN Statements
                      ELSE IF w = v THEN IF n >= applied[w] THEN n ELSE applied[w]
                      ELSE applied[w]
    BY <1>1, <2>2
  <2> QED BY <2>1, <2>3, SchemaAssumption
<1>4. SchemaTypeOK'
  <2>1. applied' \in [Migrations -> 0..Statements]
    BY <1>1, <1>3
  <2> QED BY <1>2, <2>1 DEF SchemaInv, SchemaTypeOK
<1>5. Grows
  <2>1. \A w \in Migrations : applied'[w] <= Statements BY <1>3
  <2> QED BY <1>2, <1>3, <2>1 DEF Grows
<1>6. RowsAreBacked' /\ SilenceIsBacked' /\ GolangIsInOrder' /\ LedgerIsThere'
  BY <1>2, <1>4, <1>5, GrowingKeeps DEF SchemaInv, LedgerIsThere
<1>7. RunsAreInOrder'
  <2> SUFFICES ASSUME NEW u \in Upgraders, upgrade[u].at # "idle"
               PROVE  /\ upgrade'[u].version \in Migrations
                      /\ CompleteUpTo(upgrade[u].version - 1)'
                      /\ upgrade'[u].done <= applied'[upgrade'[u].version]
    BY <1>2 DEF RunsAreInOrder, CompleteUpTo, Complete
  <2> QED BY <1>2, <1>4, <1>5, GrowingKeeps
<1> QED BY <1>4, <1>6, <1>7 DEF SchemaInv

(* golang-migrate's run moves on: it undoes no statement, and what it has  *)
(* in hand and the row it writes stay in order.                            *)
LEMMA GolangMovesOn ==
  ASSUME SchemaInv, Grows,
         applied' \in [Migrations -> 0..Statements],
         golang' \in GolangStates, dirty' \in BOOLEAN, halfway' \subseteq Migrations,
         versionRows' \subseteq Migrations, shape' = "golang",
         upgradeFaults' \in 0..MaxUpgradeFaults,
         UNCHANGED <<upgrade, gate>>,
         RowsAreBacked', GolangIsInOrder'
  PROVE  SchemaInv'
<1>1. SchemaTypeOK'
  BY DEF SchemaInv, SchemaTypeOK, GolangStates
<1>2. SilenceIsBacked' /\ LedgerIsThere'
  BY <1>1, GrowingKeeps DEF LedgerIsThere
<1>3. RunsAreInOrder'
  <2> SUFFICES ASSUME NEW u \in Upgraders, upgrade[u].at # "idle"
               PROVE  /\ upgrade'[u].version \in Migrations
                      /\ CompleteUpTo(upgrade[u].version - 1)'
                      /\ upgrade'[u].done <= applied'[upgrade'[u].version]
    BY DEF RunsAreInOrder, CompleteUpTo, Complete
  <2> QED BY <1>1, GrowingKeeps
<1> QED BY <1>1, <1>2, <1>3 DEF SchemaInv

(* What golang-migrate's run has in hand.                                  *)
LEMMA GolangHolds ==
  ASSUME SchemaInv, golang.at # "idle"
  PROVE  /\ golang.version \in Migrations /\ golang.version \in 1..Latest
         /\ golang \in GolangStates /\ shape = "golang"
         /\ CompleteUpTo(golang.version - 1)
         /\ golang.done \in 0..Statements /\ applied[golang.version] \in 0..Statements
         /\ golang.done <= applied[golang.version]
         /\ upgradeFaults \in 0..MaxUpgradeFaults
<1>1. golang.version \in Migrations /\ CompleteUpTo(golang.version - 1)
      /\ golang.done <= applied[golang.version]
  BY DEF SchemaInv, GolangIsInOrder
<1> QED BY <1>1 DEF SchemaInv, SchemaTypeOK, GolangStates, Migrations

LEMMA GolangReadsKeeps == ASSUME SchemaInv, GolangReads PROVE SchemaInv'
<1> DEFINE n == SchemaVersion + 1
<1>1. SchemaVersion \in versionRows \cup {0} /\ SchemaVersion \in 0..Latest
  BY VersionRead DEF SchemaInv
<1>2. n \in Migrations /\ n - 1 = SchemaVersion /\ n \in 0..Latest
  BY <1>1, SchemaAssumption DEF GolangReads, Migrations
<1>3. CompleteUpTo(n - 1)
  BY <1>1, <1>2 DEF SchemaInv, RowsAreBacked, CompleteUpTo
<1>4. /\ golang' = [at |-> "next", version |-> n, done |-> 0] /\ shape' = "golang"
      /\ UNCHANGED <<applied, versionRows, dirty, halfway, upgrade, gate, upgradeFaults>>
  BY DEF GolangReads
<1> HIDE DEF n
<1>5. applied[n] \in 0..Statements /\ 0 \in 0..Statements
  <2>1. applied[n] \in 0..Statements BY <1>2 DEF SchemaInv, SchemaTypeOK
  <2>2. 0 \in 0..Statements BY SchemaAssumption
  <2> QED BY <2>1, <2>2
<1>6. golang' \in GolangStates
  BY <1>2, <1>4, <1>5 DEF GolangStates
<1>7. golang'.version = n /\ golang'.done = 0 /\ 0 <= applied[n]
  BY <1>4, <1>5
<1>8. GolangIsInOrder'
  BY <1>2, <1>3, <1>4, <1>7 DEF GolangIsInOrder, CompleteUpTo, Complete
<1>9. RowsAreBacked'
  BY <1>4 DEF SchemaInv, RowsAreBacked, CompleteUpTo, Complete
<1>10. Grows
  <2>1. \A v \in Migrations : applied[v] \in 0..Statements BY DEF SchemaInv, SchemaTypeOK
  <2> QED BY <1>4, <2>1, SchemaAssumption DEF Grows
<1>11. /\ applied \in [Migrations -> 0..Statements] /\ dirty \in BOOLEAN
       /\ halfway \subseteq Migrations /\ versionRows \subseteq Migrations
       /\ upgradeFaults \in 0..MaxUpgradeFaults
  BY DEF SchemaInv, SchemaTypeOK
<1> QED BY <1>4, <1>6, <1>8, <1>9, <1>10, <1>11, GolangMovesOn

LEMMA GolangMarksKeeps == ASSUME SchemaInv, GolangMarks PROVE SchemaInv'
<1> DEFINE v == golang.version
<1>1. /\ v \in Migrations /\ v \in 1..Latest /\ golang \in GolangStates /\ shape = "golang"
      /\ CompleteUpTo(v - 1) /\ golang.done <= applied[v]
      /\ upgradeFaults \in 0..MaxUpgradeFaults
  BY GolangHolds DEF GolangMarks
<1>2. /\ golang' = [golang EXCEPT !.at = "applying"]
      /\ versionRows' = {v} /\ dirty' = TRUE /\ halfway' = halfway \cup {v}
      /\ UNCHANGED <<applied, shape, upgrade, gate, upgradeFaults>>
  BY DEF GolangMarks
<1>3. golang' \in GolangStates /\ golang'.version = v /\ golang'.done = golang.done
  BY <1>1, <1>2 DEF GolangStates
<1> HIDE DEF v
<1>4. applied \in [Migrations -> 0..Statements] /\ halfway \subseteq Migrations
  BY DEF SchemaInv, SchemaTypeOK
<1>5. Grows
  <2>1. \A w \in Migrations : applied[w] \in 0..Statements BY <1>4
  <2> QED BY <1>2, <2>1, SchemaAssumption DEF Grows
<1>6. RowsAreBacked'
  <2>1. \A w \in 1..v : w = v \/ w \in 1..v - 1 BY <1>1
  <2> QED BY <1>1, <1>2, <2>1 DEF RowsAreBacked, CompleteUpTo, Complete
<1>7. GolangIsInOrder'
  BY <1>1, <1>2, <1>3 DEF GolangIsInOrder, CompleteUpTo, Complete
<1> QED BY <1>1, <1>2, <1>3, <1>4, <1>5, <1>6, <1>7, GolangMovesOn

LEMMA GolangAppliesKeeps == ASSUME SchemaInv, GolangApplies PROVE SchemaInv'
<1> DEFINE v == golang.version
           n == golang.done + 1
           m == IF applied[v] >= n THEN applied[v] ELSE n
<1>1. /\ v \in Migrations /\ v \in 1..Latest /\ golang \in GolangStates /\ shape = "golang"
      /\ CompleteUpTo(v - 1)
      /\ golang.done \in 0..Statements /\ applied[v] \in 0..Statements
      /\ upgradeFaults \in 0..MaxUpgradeFaults
  BY GolangHolds DEF GolangApplies
<1>2. n \in 0..Statements
  <2>1. n <= Statements BY DEF GolangApplies
  <2> QED BY <1>1, <2>1, SchemaAssumption
<1>3. Max({applied[v], n}) = m
  <2>1. applied[v] \in Nat /\ n \in Nat BY <1>1, <1>2
  <2> HIDE DEF n, v
  <2> QED BY <2>1, MaxOfTwo DEF m
<1>4. m \in 0..Statements /\ applied[v] <= m /\ n <= m
  BY <1>1, <1>2
<1>5. /\ applied' = [applied EXCEPT ![v] = m]
      /\ golang' = [golang EXCEPT !.done = n]
      /\ UNCHANGED <<shape, versionRows, dirty, halfway, upgrade, gate, upgradeFaults>>
  BY <1>3 DEF GolangApplies
<1>6. golang' \in GolangStates /\ golang'.version = v /\ golang'.done = n
  BY <1>1, <1>2, <1>5 DEF GolangStates
<1> HIDE DEF m, n, v
<1>7. /\ applied \in [Migrations -> 0..Statements] /\ dirty \in BOOLEAN
      /\ halfway \subseteq Migrations /\ versionRows \subseteq Migrations
  BY DEF SchemaInv, SchemaTypeOK
<1>8. applied' \in [Migrations -> 0..Statements] /\ applied'[v] = m
  BY <1>1, <1>4, <1>5, <1>7
<1>9. Grows
  <2> SUFFICES ASSUME NEW w \in Migrations PROVE applied[w] <= applied'[w] /\ applied'[w] <= Statements
    BY <1>5 DEF Grows
  <2>1. applied[w] \in 0..Statements BY <1>7
  <2>2. applied'[w] = IF w = v THEN m ELSE applied[w] BY <1>5, <1>7
  <2> QED BY <2>1, <2>2, <1>4
<1>10. SchemaTypeOK'
  BY <1>1, <1>5, <1>6, <1>8 DEF SchemaInv, SchemaTypeOK, GolangStates
<1>11. RowsAreBacked'
  BY <1>5, <1>9, <1>10, GrowingKeeps
<1>12. GolangIsInOrder'
  <2>1. PICK j \in 0..Latest : j = v - 1
    BY <1>1, SchemaAssumption
  <2>2. CompleteUpTo(j)'
    BY <1>1, <1>9, <1>10, <2>1, CompleteStays DEF SchemaInv
  <2> QED BY <1>1, <1>4, <1>6, <1>8, <2>1, <2>2 DEF GolangIsInOrder, CompleteUpTo, Complete
<1> QED BY <1>1, <1>5, <1>6, <1>7, <1>8, <1>9, <1>11, <1>12, GolangMovesOn

LEMMA GolangRegistersKeeps == ASSUME SchemaInv, GolangRegisters PROVE SchemaInv'
<1> DEFINE v == golang.version
<1>1. /\ v \in Migrations /\ v \in 1..Latest /\ golang \in GolangStates /\ shape = "golang"
      /\ CompleteUpTo(v - 1) /\ golang.done <= applied[v] /\ applied[v] \in 0..Statements
      /\ upgradeFaults \in 0..MaxUpgradeFaults
  BY GolangHolds DEF GolangRegisters
<1>2. /\ golang' = IF v = Latest THEN UpgradeAbsent ELSE [at |-> "next", version |-> v + 1, done |-> 0]
      /\ versionRows' = {v} /\ dirty' = FALSE /\ halfway' = halfway \ {v}
      /\ UNCHANGED <<applied, shape, upgrade, gate, upgradeFaults>>
  BY DEF GolangRegisters
<1>3. applied[v] = Statements
  <2>1. golang.done = Statements BY DEF GolangRegisters
  <2> QED BY <1>1, <2>1, SchemaAssumption
<1> HIDE DEF v
<1>4. applied \in [Migrations -> 0..Statements] /\ halfway \subseteq Migrations
  BY DEF SchemaInv, SchemaTypeOK
<1>5. Grows
  <2>1. \A w \in Migrations : applied[w] \in 0..Statements BY <1>4
  <2> QED BY <1>2, <1>3, <2>1, SchemaAssumption DEF Grows, Complete
<1>6. \A w \in 1..v : applied[w] = Statements \/ (w \in halfway /\ w # v)
  <2>1. \A w \in 1..v : w = v \/ (w \in 1..v - 1 /\ w # v) BY <1>1
  <2> QED BY <1>1, <1>3, <2>1 DEF CompleteUpTo, Complete
<1>7. RowsAreBacked'
  BY <1>2, <1>6 DEF RowsAreBacked, CompleteUpTo, Complete
<1>8. golang' \in GolangStates /\ GolangIsInOrder'
  <2>1. CASE v = Latest
    <3>1. UpgradeAbsent \in GolangStates /\ UpgradeAbsent.at = "idle"
      BY SchemaAssumption DEF UpgradeAbsent, GolangStates
    <3> QED BY <1>2, <2>1, <3>1 DEF GolangIsInOrder
  <2>2. CASE v # Latest
    <3>1. v + 1 \in Migrations /\ v + 1 \in 0..Latest /\ v + 1 - 1 = v
      BY <1>1, <2>2, SchemaAssumption DEF Migrations
    <3>2. applied[v + 1] \in 0..Statements /\ 0 \in 0..Statements
      BY <1>4, <3>1, SchemaAssumption
    <3>3. golang' = [at |-> "next", version |-> v + 1, done |-> 0]
      BY <1>2, <2>2
    <3>4. golang' \in GolangStates
      BY <3>1, <3>2, <3>3 DEF GolangStates
    <3>5. golang'.version = v + 1 /\ golang'.done = 0 /\ golang'.version - 1 = v /\ 0 <= applied[v + 1]
      <4>1. golang'.version = v + 1 /\ golang'.done = 0 BY <3>3
      <4>2. 0 <= applied[v + 1] BY <3>2
      <4>3. v \in Int BY <1>1, SchemaAssumption
      <4>4. golang'.version - 1 = v BY <4>1, <4>3
      <4> QED BY <4>1, <4>2, <4>4
    <3>6. CompleteUpTo(golang.version - 1)'
      BY <1>2, <1>6, <3>5 DEF CompleteUpTo, Complete
    <3>7. GolangIsInOrder'
      BY <1>2, <3>1, <3>5, <3>6 DEF GolangIsInOrder
    <3> QED BY <3>4, <3>7
  <2> QED BY <2>1, <2>2
<1>9. halfway' \subseteq Migrations /\ versionRows' \subseteq Migrations
  BY <1>1, <1>2, <1>4
<1> QED BY <1>1, <1>2, <1>4, <1>5, <1>7, <1>8, <1>9, GolangMovesOn

LEMMA GolangBreaksKeeps == ASSUME SchemaInv, GolangBreaks PROVE SchemaInv'
<1>1. golang' = UpgradeAbsent /\ shape = "golang" /\ upgradeFaults' \in 0..MaxUpgradeFaults
      /\ UNCHANGED <<applied, shape, versionRows, dirty, halfway, upgrade, gate>>
  BY GolangHolds, FaultIsCounted DEF GolangBreaks, SchemaInv
<1>2. UpgradeAbsent \in GolangStates /\ UpgradeAbsent.at = "idle"
  BY SchemaAssumption DEF UpgradeAbsent, GolangStates
<1>3. /\ applied \in [Migrations -> 0..Statements] /\ dirty \in BOOLEAN
      /\ halfway \subseteq Migrations /\ versionRows \subseteq Migrations
  BY DEF SchemaInv, SchemaTypeOK
<1>4. Grows
  <2>1. \A w \in Migrations : applied[w] \in 0..Statements BY <1>3
  <2> QED BY <1>1, <2>1, SchemaAssumption DEF Grows
<1>5. RowsAreBacked'
  BY <1>1 DEF SchemaInv, RowsAreBacked, CompleteUpTo, Complete
<1>6. GolangIsInOrder'
  BY <1>1, <1>2 DEF GolangIsInOrder
<1> QED BY <1>1, <1>2, <1>3, <1>4, <1>5, <1>6, GolangMovesOn

LEMMA StartupSchemaGateKeeps ==
  ASSUME SchemaInv, NEW b \in Binaries, StartupSchemaGate(b) PROVE SchemaInv'
<1>1. PICK a \in {GateAnswer(b), "warned"} : gate' = [gate EXCEPT ![b] = a]
  BY DEF StartupSchemaGate
<1>2. GateAnswer(b) \in {"silent", "warned", "refused"}
  BY DEF GateAnswer
<1>3. GateAnswer(b) = "silent" => SchemaVersion = b
  BY DEF GateAnswer
<1>4. UNCHANGED <<applied, shape, versionRows, dirty, golang, halfway, upgrade, upgradeFaults>>
  BY DEF StartupSchemaGate, ledgerVars, golangVars
<1>5. SchemaVersion = b => CompleteUpTo(b)
  <2>1. b # 0 BY SchemaAssumption
  <2> QED BY <2>1, VersionRead DEF SchemaInv, RowsAreBacked
<1>6. SchemaTypeOK'
  BY <1>1, <1>2, <1>4 DEF SchemaInv, SchemaTypeOK
<1>7. SilenceIsBacked'
  <2> SUFFICES ASSUME NEW c \in Binaries, gate'[c] = "silent" PROVE \A w \in 1..c : applied[w] = Statements \/ w \in halfway
    BY <1>4 DEF SilenceIsBacked, CompleteUpTo, Complete
  <2>1. gate'[c] = IF c = b THEN a ELSE gate[c] BY <1>1 DEF SchemaInv, SchemaTypeOK
  <2>2. CompleteUpTo(c) BY <1>1, <1>3, <1>5, <2>1 DEF SchemaInv, SilenceIsBacked
  <2> QED BY <2>2 DEF CompleteUpTo, Complete
<1>8. RowsAreBacked' /\ RunsAreInOrder' /\ GolangIsInOrder' /\ LedgerIsThere'
  BY <1>4 DEF SchemaInv, RowsAreBacked, RunsAreInOrder, GolangIsInOrder, CompleteUpTo, Complete, LedgerIsThere
<1> QED BY <1>6, <1>7, <1>8 DEF SchemaInv

LEMMA SchemaInvPreserved == SchemaInv /\ [SchemaNext]_schemaVars => SchemaInv'
<1> SUFFICES ASSUME SchemaInv, [SchemaNext]_schemaVars PROVE SchemaInv'
  OBVIOUS
<1>1. CASE UNCHANGED schemaVars
  BY <1>1 DEF schemaVars, ledgerVars, golangVars, SchemaInv, SchemaTypeOK, RowsAreBacked,
              RunsAreInOrder, GolangIsInOrder, CompleteUpTo, Complete, SilenceIsBacked, LedgerIsThere
<1> QED
  BY <1>1, MigrateAllKeeps, GolangReadsKeeps, GolangMarksKeeps, GolangAppliesKeeps,
     GolangRegistersKeeps, GolangBreaksKeeps, ReadVersionKeeps, BackUpKeeps,
     EnsureLedgerKeeps, ApplyStatementKeeps, RegisterVersionKeeps, UpgradeBreaksKeeps,
     StartupSchemaGateKeeps
  DEF SchemaNext

(* Type correctness of the schema's ledger: its rows, the runs and the     *)
(* statements stay within the migrations.                                  *)
THEOREM SchemaTypeCorrect == SchemaSpec => []SchemaTypeOK
<1>1. SchemaInv => SchemaTypeOK BY DEF SchemaInv
<1> QED BY <1>1, SchemaInvInit, SchemaInvPreserved, PTL DEF SchemaSpec

(* The version the gate and the upgrade read (schema_gate.go:70) is backed *)
(* by complete migrations, and so is a silent gate, but for the versions   *)
(* golang-migrate marked dirty and did not get done: for any number of     *)
(* migrations, statements, runs and binaries.                              *)
THEOREM LedgerStaysBacked == SchemaSpec => []LedgerIsBacked
<1>1. SchemaInv => LedgerIsBacked
  <2> SUFFICES ASSUME SchemaInv PROVE LedgerIsBacked
    OBVIOUS
  <2>1. SchemaVersion \in versionRows \cup {0} BY VersionRead DEF SchemaInv
  <2>2. SchemaVersion # 0 => CompleteUpTo(SchemaVersion)
    BY <2>1 DEF SchemaInv, RowsAreBacked
  <2>3. \A v \in 1..SchemaVersion : Complete(v) \/ v \in halfway
    BY <2>1, <2>2 DEF CompleteUpTo
  <2> QED BY <2>3 DEF SchemaInv, SilenceIsBacked, CompleteUpTo, LedgerIsBacked
<1> QED BY <1>1, SchemaInvInit, SchemaInvPreserved, PTL DEF SchemaSpec

------------------------------------------------------------------------------
(* TopologyGraph                                                           *)

(* What is known of some of keys.                                          *)
Knows(known, keys) ==
  /\ DOMAIN known \subseteq keys
  /\ known \in [DOMAIN known -> Evidence]

Pairs == NodeKeys \X NodeKeys

Ends(e) == {e[1], e[2]}

TopologyInv ==
  /\ Knows(nodes, NodeKeys)
  /\ Knows(edges, Pairs)
  /\ \A e \in DOMAIN edges : Ends(e) \subseteq DOMAIN nodes
  /\ pendingEdges \subseteq StaticEdges /\ pendingEdges \cap DOMAIN edges = {}
  /\ guards \in [nodes : NodeLimits, edges : EdgeLimits]
  /\ Excess(nodes, guards.nodes) = 0 /\ Excess(edges, guards.edges) = 0
  /\ rounds \in 0..MaxRounds

LEMMA TopologyInvIsTyped == TopologyInv => TopologyTypeOK
<1>1. ASSUME NEW known, NEW keys, Knows(known, keys)
      PROVE  Range(known) \subseteq Evidence
  BY <1>1 DEF Knows, Range
<1>2. QED
  BY <1>1 DEF TopologyInv, TopologyTypeOK, Knows, Pairs

(* Every cut of a graph whose edges have their ends has that too: an edge  *)
(* that would hang is cut off.                                             *)
LEMMA TopologyInvIsSound == TopologyInv => GraphIsSound
<1> SUFFICES ASSUME TopologyInv PROVE GraphIsSound
  OBVIOUS
<1>1. ASSUME NEW ns \in SUBSET DOMAIN nodes, NEW es \in SUBSET DOMAIN edges
      PROVE  NoneHangs(CutEdges(ns, es))
  BY DEF TopologyInv, NoneHangs, CutEdges, Hanging, Ends
<1>2. ASSUME NEW t \in ObservedTimes
      PROVE  NoneHangs(AsOf(t))
  <2> DEFINE ns == {k \in DOMAIN nodes : nodes[k].from <= t}
             es == {e \in DOMAIN edges : edges[e].from <= t}
  <2>1. ns \in SUBSET DOMAIN nodes /\ es \in SUBSET DOMAIN edges
    OBVIOUS
  <2>2. AsOf(t) = CutEdges(ns, es)
    BY DEF AsOf
  <2> HIDE DEF ns, es
  <2>3. QED
    BY <1>1, <2>1, <2>2
<1>3. \A graph, k, d : NoneHangs(Neighborhood(graph, k, d))
  BY DEF NoneHangs, Neighborhood
<1>4. NoneHangs([nodes |-> DOMAIN nodes, edges |-> DOMAIN edges])
  BY DEF TopologyInv, NoneHangs, Ends
<1>5. QED
  BY <1>2, <1>3, <1>4 DEF TopologyInv, GraphIsSound

------------------------------------------------------------------------------
(* Merging keeps what is known typed.                                      *)
LEMMA Observes ==
  ASSUME NEW keys, NEW known, Knows(known, keys), NEW more, more \subseteq keys,
         NEW conf \in Confidences, NEW at \in ObservedTimes
  PROVE  /\ Knows(Observe(known, more, conf, at), keys)
         /\ DOMAIN Observe(known, more, conf, at) = DOMAIN known \cup more
<1> DEFINE now == Observe(known, more, conf, at)
<1>1. DOMAIN now = DOMAIN known \cup more
  BY DEF Observe
<1>2. ASSUME NEW a \in Nat, NEW b \in Nat
      PROVE  Max({a, b}) \in {a, b} /\ Min({a, b}) \in {a, b}
  <2>1. \E x \in {a, b} : \A y \in {a, b} : x >= y
    OBVIOUS
  <2>2. \E x \in {a, b} : \A y \in {a, b} : x =< y
    OBVIOUS
  <2>3. Max({a, b}) \in {a, b}
    BY <2>1 DEF Max
  <2>4. Min({a, b}) \in {a, b}
    BY <2>2 DEF Min
  <2>5. QED
    BY <2>3, <2>4
<1>3. ASSUME NEW k \in DOMAIN known \cup more
      PROVE  now[k] \in Evidence
  <2>1. CASE k \notin more
    BY <2>1 DEF Observe, Knows
  <2>2. CASE k \in more /\ k \notin DOMAIN known
    BY <2>2 DEF Observe, Evidence
  <2>3. CASE k \in more /\ k \in DOMAIN known
    <3>1. known[k] \in Evidence
      BY <2>3 DEF Knows
    <3>2. /\ known[k].conf \in Confidences /\ known[k].from \in ObservedTimes
          /\ Confidences \subseteq Nat /\ ObservedTimes \subseteq Nat
      BY <3>1, TopologyAssumption DEF Evidence, Confidences
    <3>3. Max({known[k].conf, conf}) \in Confidences
      BY <1>2, <3>2
    <3>4. Min({known[k].from, at}) \in ObservedTimes
      BY <1>2, <3>2
    <3>5. now[k] = [conf |-> Max({known[k].conf, conf}),
                    from |-> Min({known[k].from, at}), seen |-> at]
      BY <2>3 DEF Observe
    <3>6. QED
      BY <3>3, <3>4, <3>5 DEF Evidence
  <2>4. QED
    BY <2>1, <2>2, <2>3
<1>4. now = [k \in DOMAIN known \cup more |-> now[k]]
  BY DEF Observe
<1> HIDE DEF now
<1>5. Knows(now, keys)
  BY <1>1, <1>3, <1>4 DEF Knows
<1>6. QED
  BY <1>1, <1>5 DEF now

LEMMA Discovers ==
  ASSUME NEW known, Knows(known, NodeKeys), NEW batch, batch \subseteq NodeKeys,
         NEW at \in ObservedTimes
  PROVE  /\ Knows(Observe(known, batch, 3, at), NodeKeys)
         /\ DOMAIN Observe(known, batch, 3, at) = DOMAIN known \cup batch
<1>1. PICK high \in Confidences : high = 3
  BY DEF Confidences
<1>2. Knows(Observe(known, batch, high, at), NodeKeys)
  BY Observes
<1>3. DOMAIN Observe(known, batch, high, at) = DOMAIN known \cup batch
  BY DEF Observe
<1>4. QED
  BY <1>1, <1>2, <1>3

LEMMA Draws ==
  ASSUME NEW known, Knows(known, Pairs),
         NEW placed, placed \subseteq Pairs, ObservedTimes # {}
  PROVE  /\ Knows(Observe(known, placed, 2, Min(ObservedTimes)), Pairs)
         /\ DOMAIN Observe(known, placed, 2, Min(ObservedTimes)) = DOMAIN known \cup placed
<1>1. PICK medium \in Confidences : medium = 2
  BY DEF Confidences
<1>2. PICK start \in ObservedTimes : start = Min(ObservedTimes)
  <2>1. PICK n \in ObservedTimes : \A m \in ObservedTimes : n <= m
    BY TopologyAssumption, SmallestNumber
  <2>2. QED
    BY <2>1 DEF Min
<1>3. /\ Knows(Observe(known, placed, medium, start), Pairs)
      /\ DOMAIN Observe(known, placed, medium, start) = DOMAIN known \cup placed
  BY Observes
<1>4. QED
  BY <1>1, <1>2, <1>3

LEMMA Restricts ==
  ASSUME NEW keys, NEW known, Knows(known, keys), NEW rest \in SUBSET DOMAIN known
  PROVE  Knows(Restrict(known, rest), keys) /\ DOMAIN Restrict(known, rest) = rest
BY DEF Knows, Restrict

------------------------------------------------------------------------------
(* The guards                                                              *)

(* With n of them gone, one for each in excess, none is in excess.         *)
LEMMA ExcessIsGone ==
  ASSUME NEW known, IsFiniteSet(DOMAIN known), NEW limit \in Nat,
         NEW gone \in SUBSET DOMAIN known, Cardinality(gone) = Excess(known, limit)
  PROVE  Excess(Restrict(known, DOMAIN known \ gone), limit) = 0
<1> DEFINE D == DOMAIN known
<1>1. Cardinality(D) \in Nat
  BY FS_CardinalityType
<1>2. Cardinality(D \ gone) = Cardinality(D) - Cardinality(gone)
  <2>1. D \cap gone = gone
    OBVIOUS
  <2>2. IsFiniteSet(D \ gone) /\ Cardinality(D \ gone) = Cardinality(D) - Cardinality(D \cap gone)
    BY FS_Difference
  <2>3. QED
    BY <2>1, <2>2
<1>3. DOMAIN Restrict(known, D \ gone) = D \ gone
  BY DEF Restrict
<1> HIDE DEF D
<1>4. CASE limit > 0 /\ Cardinality(D) > limit
  BY <1>1, <1>2, <1>3, <1>4 DEF Excess, D
<1>5. CASE ~(limit > 0 /\ Cardinality(D) > limit)
  BY <1>1, <1>2, <1>3, <1>5 DEF Excess, D
<1>6. QED
  BY <1>4, <1>5

LEMMA ExcessIsNumber ==
  ASSUME NEW known, IsFiniteSet(DOMAIN known), NEW limit \in Nat
  PROVE  Excess(known, limit) \in Nat /\ Excess(known, limit) <= Cardinality(DOMAIN known)
BY FS_CardinalityType DEF Excess

(* As many nodes are evicted as asked for: being seen earlier, or at the   *)
(* same time and with the lower key, is a strict order.                    *)
LEMMA StaleNodesAreCounted ==
  ASSUME NEW known, Knows(known, NodeKeys), NEW n \in Nat, n <= Cardinality(DOMAIN known)
  PROVE  /\ StaleNodes(known, n) \in SUBSET DOMAIN known
         /\ Cardinality(StaleNodes(known, n)) = n
<1> DEFINE D == DOMAIN known
           Older(j, k) == \/ known[j].seen < known[k].seen
                          \/ known[j].seen = known[k].seen /\ j < k
           before == {p \in D \X D : Older(p[1], p[2])}
<1>1. D \subseteq Nat /\ IsFiniteSet(D) /\ \A k \in D : known[k].seen \in Nat
  BY TopologyAssumption, FS_Subset DEF Knows, Evidence
<1>2. \A j, k \in D : <<j, k>> \in before <=> Older(j, k)
  OBVIOUS
<1> HIDE DEF D, before
<1>3. StrictOrder(before, D)
  <2>1. ASSUME NEW a \in D
        PROVE  ~Older(a, a)
    <3>1. a \in Nat /\ known[a].seen \in Nat
      BY <1>1
    <3>2. QED
      BY <3>1
  <2>2. ASSUME NEW a \in D, NEW b \in D, NEW c \in D, Older(a, b), Older(b, c)
        PROVE  Older(a, c)
    <3>1. /\ a \in Nat /\ b \in Nat /\ c \in Nat
          /\ known[a].seen \in Nat /\ known[b].seen \in Nat /\ known[c].seen \in Nat
      BY <1>1
    <3>2. QED
      BY <2>2, <3>1
  <2>3. ASSUME NEW a \in D, NEW b \in D, a # b
        PROVE  Older(a, b) \/ Older(b, a)
    <3>1. /\ a \in Nat /\ b \in Nat
          /\ known[a].seen \in Nat /\ known[b].seen \in Nat
      BY <1>1
    <3>2. a < b \/ b < a
      BY <2>3, <3>1
    <3>3. \/ known[a].seen < known[b].seen
          \/ known[a].seen = known[b].seen
          \/ known[b].seen < known[a].seen
      BY <3>1
    <3>4. QED
      BY <3>2, <3>3
  <2> HIDE DEF Older
  <2>4. QED
    BY <1>2, <2>1, <2>2, <2>3 DEF StrictOrder
<1> DEFINE first == {e \in D : Cardinality({f \in D : <<f, e>> \in before}) < n}
<1>4. Cardinality(first) = n
  BY <1>1, <1>3, FirstAreCounted DEF D
<1>5. StaleNodes(known, n) = first
  <2>1. ASSUME NEW e \in D
        PROVE  {f \in D : <<f, e>> \in before} = {f \in D : Older(f, e)}
    BY <1>2
  <2>2. StaleNodes(known, n) = {e \in D : Cardinality({f \in D : Older(f, e)}) < n}
    BY DEF StaleNodes, D
  <2> HIDE DEF Older
  <2>3. QED
    BY <2>1, <2>2
<1>6. first \in SUBSET D
  OBVIOUS
<1> HIDE DEF first
<1>7. QED
  BY <1>4, <1>5, <1>6 DEF D

(* enforceLimitsLocked leaves no edge without its ends and both guards     *)
(* satisfied.                                                              *)
LEMMA LimitedIsSound ==
  ASSUME NEW ns, Knows(ns, NodeKeys), NEW es, Knows(es, Pairs),
         \A e \in DOMAIN es : Ends(e) \subseteq DOMAIN ns,
         guards \in [nodes : NodeLimits, edges : EdgeLimits],
         NEW g \in Limited(ns, es)
  PROVE  /\ Knows(g[1], NodeKeys) /\ DOMAIN g[1] \subseteq DOMAIN ns
         /\ Knows(g[2], Pairs) /\ DOMAIN g[2] \subseteq DOMAIN es
         /\ \A e \in DOMAIN g[2] : Ends(e) \subseteq DOMAIN g[1]
         /\ Excess(g[1], guards.nodes) = 0 /\ Excess(g[2], guards.edges) = 0
<1> DEFINE gone == StaleNodes(ns, Excess(ns, guards.nodes))
           left == DOMAIN es \ Hanging(es, gone)
           kept == Restrict(es, left)
<1>1. PICK out \in StaleEdges(kept, Excess(kept, guards.edges)) :
        g = <<Restrict(ns, DOMAIN ns \ gone), Restrict(kept, DOMAIN kept \ out)>>
  BY DEF Limited
<1>2. g[1] = Restrict(ns, DOMAIN ns \ gone) /\ g[2] = Restrict(kept, DOMAIN kept \ out)
  BY <1>1
<1>3. guards.nodes \in Nat /\ guards.edges \in Nat
  BY TopologyAssumption
<1>4. IsFiniteSet(DOMAIN ns) /\ IsFiniteSet(DOMAIN es)
  BY TopologyAssumption, FS_Subset, FS_Product DEF Knows, Pairs
<1>5. gone \in SUBSET DOMAIN ns /\ Cardinality(gone) = Excess(ns, guards.nodes)
  BY <1>3, <1>4, ExcessIsNumber, StaleNodesAreCounted
<1>6. \A e \in left : Ends(e) \subseteq DOMAIN ns \ gone
  BY DEF Hanging, Ends
<1>7. left \in SUBSET DOMAIN es
  OBVIOUS
<1> HIDE DEF gone, left
<1>8. Knows(kept, Pairs) /\ DOMAIN kept = left
  BY <1>7, Restricts
<1> HIDE DEF kept
<1>9. out \in SUBSET DOMAIN kept /\ Cardinality(out) = Excess(kept, guards.edges)
  BY DEF StaleEdges, kSubset
<1>10. IsFiniteSet(DOMAIN kept)
  BY <1>4, <1>7, <1>8, FS_Subset
<1>11. Excess(g[1], guards.nodes) = 0
  BY <1>2, <1>3, <1>4, <1>5, ExcessIsGone
<1>12. Excess(g[2], guards.edges) = 0
  BY <1>2, <1>3, <1>9, <1>10, ExcessIsGone
<1>13. Knows(g[1], NodeKeys) /\ DOMAIN g[1] = DOMAIN ns \ gone
  BY <1>2, <1>5, Restricts
<1>14. Knows(g[2], Pairs) /\ DOMAIN g[2] = left \ out
  BY <1>2, <1>8, <1>9, Restricts
<1>15. QED
  BY <1>6, <1>7, <1>11, <1>12, <1>13, <1>14

------------------------------------------------------------------------------
LEMMA IngestDiscoverTopologyInv ==
  ASSUME TopologyInv, NEW batch \in SUBSET NodeKeys, NEW at \in ObservedTimes,
         IngestDiscover(batch, at)
  PROVE  TopologyInv'
<1> USE DEF TopologyInv
<1> DEFINE seen == Observe(nodes, batch, 3, at)
<1>1. PICK g \in Limited(seen, edges) :
        \E full \in Limited(g[1], Observe(g[2], Placeable(g[1]), 2, Min(ObservedTimes))) :
          /\ nodes' = full[1] /\ edges' = full[2]
          /\ pendingEdges' = pendingEdges \ Placeable(g[1])
  BY DEF IngestDiscover
<1> DEFINE placed == Placeable(g[1])
           drawn == Observe(g[2], placed, 2, Min(ObservedTimes))
<1>2. PICK full \in Limited(g[1], drawn) :
        nodes' = full[1] /\ edges' = full[2] /\ pendingEdges' = pendingEdges \ placed
  BY <1>1
<1>4. Knows(seen, NodeKeys) /\ DOMAIN seen = DOMAIN nodes \cup batch
  BY Discovers
<1> HIDE DEF seen
<1>5. /\ Knows(g[1], NodeKeys)
      /\ Knows(g[2], Pairs) /\ DOMAIN g[2] \subseteq DOMAIN edges
      /\ \A e \in DOMAIN g[2] : Ends(e) \subseteq DOMAIN g[1]
  <2>1. \A e \in DOMAIN edges : Ends(e) \subseteq DOMAIN seen
    BY <1>4
  <2>2. QED
    BY <1>4, <2>1, LimitedIsSound
<1>6. placed \subseteq pendingEdges /\ \A e \in placed : Ends(e) \subseteq DOMAIN g[1]
  BY DEF Placeable, Ends
<1>7. placed \subseteq Pairs
  BY <1>6, TopologyAssumption DEF Pairs
<1> HIDE DEF placed
<1>8. Knows(drawn, Pairs) /\ DOMAIN drawn = DOMAIN g[2] \cup placed
  BY <1>5, <1>7, Draws
<1> HIDE DEF drawn
<1>9. /\ Knows(full[1], NodeKeys)
      /\ Knows(full[2], Pairs) /\ DOMAIN full[2] \subseteq DOMAIN drawn
      /\ \A e \in DOMAIN full[2] : Ends(e) \subseteq DOMAIN full[1]
      /\ Excess(full[1], guards.nodes) = 0 /\ Excess(full[2], guards.edges) = 0
  <2>1. \A e \in DOMAIN drawn : Ends(e) \subseteq DOMAIN g[1]
    BY <1>5, <1>6, <1>8
  <2>2. QED
    BY <1>5, <1>8, <2>1, LimitedIsSound
<1>10. guards' = guards /\ rounds' \in 0..MaxRounds
  BY TopologyAssumption DEF IngestDiscover
<1>11. pendingEdges' \subseteq StaticEdges /\ pendingEdges' \cap DOMAIN edges' = {}
  BY <1>2, <1>5, <1>8, <1>9
<1>12. Excess(nodes', guards.nodes) = 0 /\ Excess(edges', guards.edges) = 0
  BY <1>2, <1>9
<1>13. QED
  BY <1>2, <1>9, <1>10, <1>11, <1>12 DEF Excess

LEMMA TopologyInvHolds == TopologySpec => []TopologyInv
<1>1. TopologyInit => TopologyInv
  <2> SUFFICES ASSUME TopologyInit PROVE TopologyInv
    OBVIOUS
  <2>1. DOMAIN nodes = {} /\ DOMAIN edges = {}
    BY DEF TopologyInit
  <2>2. Knows(nodes, NodeKeys) /\ Knows(edges, Pairs)
    BY DEF TopologyInit, Knows
  <2>3. Excess(nodes, guards.nodes) = 0 /\ Excess(edges, guards.edges) = 0
    <3>1. guards.nodes \in Nat /\ guards.edges \in Nat
      BY TopologyAssumption DEF TopologyInit
    <3>2. QED
      BY <2>1, <3>1, FS_EmptySet DEF Excess
  <2>4. QED
    BY <2>1, <2>2, <2>3, TopologyAssumption DEF TopologyInit, TopologyInv
<1>2. TopologyInv /\ [TopologyNext]_topologyVars => TopologyInv'
  <2> SUFFICES ASSUME TopologyInv, [TopologyNext]_topologyVars PROVE TopologyInv'
    OBVIOUS
  <2>1. CASE TopologyNext
    BY <2>1, IngestDiscoverTopologyInv DEF TopologyNext
  <2>2. CASE UNCHANGED topologyVars
    BY <2>2 DEF topologyVars, TopologyInv, Knows, Excess
  <2>3. QED
    BY <2>1, <2>2
<1>3. QED
  BY <1>1, <1>2, PTL DEF TopologySpec

(* What is known of a node or an edge keeps its type, and the edges held   *)
(* back are those of the configuration.                                    *)
THEOREM TopologyTypeCorrect == TopologySpec => []TopologyTypeOK
BY TopologyInvHolds, TopologyInvIsTyped, PTL

(* No edge ever hangs, in the graph or in a cut of it, both guards hold    *)
(* after every call, and a placed edge is never held back.                 *)
THEOREM GraphStaysSound == TopologySpec => []GraphIsSound
BY TopologyInvHolds, TopologyInvIsSound, PTL

------------------------------------------------------------------------------
(* AuditPaging: what was returned is newer than what is left, in the order *)
(* of the pages, while the two readings of the clock agree                 *)

Filtered == [state : {"first", "end"}, filter : AuditFilters]
Cursors == [state : {"more"}, filter : AuditFilters, last : AuditEntries]

NewestFirst(q) == \A i, j \in 1..Len(q) : i < j => Newer(q[i], q[j])

TrailOK ==
  /\ entries \in Seq(AuditEntries) /\ seq \in 0..MaxEntries /\ auditLimit \in AuditLimits
  /\ trail \in {"mem", "pg"} /\ setBack \in BOOLEAN
  /\ \A i \in 1..Len(entries) : entries[i].seq = seq - Len(entries) + i
  /\ auditLimit > 0 => Len(entries) <= auditLimit

(* In memory, the wall clock of the entries goes with their numbers.       *)
ClockOK ==
  /\ \A e \in ToSet(got) : e.seq <= seq
  /\ trail = "mem" /\ ~setBack =>
       \A e, f \in ToSet(entries) \cup ToSet(got) : e.seq < f.seq => e.at <= f.at

(* All that is due has been returned or comes after the cursor.            *)
WalkOK ==
  /\ walk \in {NoWalk} \cup Filtered \cup Cursors
  /\ got \in Seq(AuditEntries) /\ (~setBack => NewestFirst(got))
  /\ due \subseteq ToSet(entries)
  /\ walk.state # "none" => \A e \in ToSet(got) \cup due : Matches(walk.filter, e)
  /\ walk.state = "first" => got = <<>>
  /\ walk.state = "more" =>
       /\ got # <<>> /\ walk.last = got[Len(got)]
       /\ ~setBack => \A e \in due : e \in ToSet(got) \/ AfterCursor(e, walk.last)
  /\ walk.state = "end" /\ ~setBack => due \subseteq ToSet(got)

AuditInv == TrailOK /\ ClockOK /\ WalkOK

LEMMA InTrail == \A q \in Seq(AuditEntries) : \A e :
                   e \in ToSet(q) <=> \E i \in 1..Len(q) : e = q[i]
BY DEF ToSet

LEMMA NumbersSoFar ==
  ASSUME TrailOK PROVE \A e \in ToSet(entries) : e.seq <= seq
<1>1. entries \in Seq(AuditEntries) /\ Len(entries) \in Nat /\ seq \in Int
  BY AuditAssumption DEF TrailOK
<1> SUFFICES ASSUME NEW i \in 1..Len(entries) PROVE entries[i].seq <= seq
  BY <1>1, InTrail
<1>2. entries[i].seq = seq - Len(entries) + i
  BY DEF TrailOK
<1>3. QED
  BY <1>1, <1>2

LEMMA WalkStates ==
  ASSUME walk \in {NoWalk} \cup Filtered \cup Cursors
  PROVE  /\ walk.state \in {"none", "first", "more", "end"}
         /\ walk.state \in {"first", "end"} => walk \in Filtered
         /\ walk.state = "more" => walk \in Cursors
BY DEF NoWalk, Filtered, Cursors

LEMMA AuditInvIsTyped == AuditInv => AuditTypeOK
<1> SUFFICES ASSUME AuditInv PROVE AuditTypeOK
  OBVIOUS
<1>1. entries \in Seq(AuditEntries) /\ seq \in Int /\ Len(entries) \in Nat
  BY AuditAssumption DEF AuditInv, TrailOK
<1>2. ASSUME NEW i \in 1..Len(entries) - 1
      PROVE  entries[i].seq + 1 = entries[i + 1].seq
  <2>1. i \in 1..Len(entries) /\ i + 1 \in 1..Len(entries)
    BY <1>1
  <2>2. /\ entries[i].seq = seq - Len(entries) + i
        /\ entries[i + 1].seq = seq - Len(entries) + (i + 1)
    BY <2>1 DEF AuditInv, TrailOK
  <2>3. QED
    BY <1>1, <2>2
<1>3. entries # <<>> => Last(entries).seq = seq
  <2> SUFFICES ASSUME entries # <<>> PROVE entries[Len(entries)].seq = seq
    BY DEF Last
  <2>1. Len(entries) \in 1..Len(entries)
    BY <1>1
  <2>2. entries[Len(entries)].seq = seq - Len(entries) + Len(entries)
    BY <2>1 DEF AuditInv, TrailOK
  <2>3. QED
    BY <1>1, <2>2
<1>4. due \subseteq AuditEntries
  BY InTrail DEF AuditInv, TrailOK, WalkOK
<1>5. QED
  BY <1>2, <1>3, <1>4, WalkStates DEF AuditInv, TrailOK, WalkOK, AuditTypeOK

LEMMA AuditInvIsExact == AuditInv => WalksAreExact
BY DEF AuditInv, WalkOK, WalksAreExact, NewestFirst

------------------------------------------------------------------------------
(* The order of the pages                                                  *)

LEMMA EntriesAreNumbers == \A e \in AuditEntries : e.at \in Nat /\ e.seq \in Nat
<1>1. \A e \in AuditEntries : e.at \in AuditTimes /\ e.seq \in 1..MaxEntries
  BY DEF AuditEntries
<1>2. AuditTimes \subseteq Nat /\ 1..MaxEntries \subseteq Nat
  BY AuditAssumption
<1> HIDE DEF AuditEntries
<1>3. QED
  BY <1>1, <1>2, Zenon

LEMMA NewerIsOrder ==
  ASSUME NEW a \in AuditEntries, NEW b \in AuditEntries, NEW c \in AuditEntries
  PROVE  /\ ~Newer(a, a)
         /\ Newer(a, b) /\ Newer(b, c) => Newer(a, c)
         /\ a.seq # b.seq => Newer(a, b) \/ Newer(b, a)
<1>1. /\ a.at \in Nat /\ b.at \in Nat /\ c.at \in Nat
      /\ a.seq \in Nat /\ b.seq \in Nat /\ c.seq \in Nat
  BY EntriesAreNumbers
<1>2. a.at < b.at \/ a.at = b.at \/ a.at > b.at
  BY <1>1
<1>3. a.seq # b.seq => a.seq < b.seq \/ a.seq > b.seq
  BY <1>1
<1>4. ~Newer(a, a)
  BY <1>1 DEF Newer
<1>5. Newer(a, b) /\ Newer(b, c) => Newer(a, c)
  BY <1>1 DEF Newer
<1>6. a.seq # b.seq => Newer(a, b) \/ Newer(b, a)
  BY <1>2, <1>3 DEF Newer
<1>7. QED
  BY <1>4, <1>5, <1>6

LEMMA ListedIsOrder ==
  ASSUME NEW a \in AuditEntries, NEW b \in AuditEntries, NEW c \in AuditEntries
  PROVE  /\ ~Listed(a, a)
         /\ Listed(a, b) /\ Listed(b, c) => Listed(a, c)
         /\ a.seq # b.seq => Listed(a, b) \/ Listed(b, a)
<1>1. /\ a.at \in Nat /\ b.at \in Nat /\ c.at \in Nat
      /\ a.seq \in Nat /\ b.seq \in Nat /\ c.seq \in Nat
  BY EntriesAreNumbers
<1>2. CASE trail = "mem"
  BY <1>1, <1>2 DEF Listed
<1>3. CASE trail # "mem"
  BY <1>3, NewerIsOrder DEF Listed
<1>4. QED
  BY <1>2, <1>3

(* The matching entries after the cursor.                                  *)
Left == {e \in ToSet(entries) :
           /\ Matches(walk.filter, e)
           /\ walk.state = "more" => AfterCursor(e, walk.last)}

LEMMA RestIsOrdered ==
  ASSUME TrailOK, ClockOK
  PROVE  /\ Rest \in Seq(AuditEntries) /\ ToSet(Rest) = Left
         /\ ~setBack => NewestFirst(Rest)
<1> DEFINE before == {p \in Left \X Left : Listed(p[1], p[2])}
<1>1. entries \in Seq(AuditEntries) /\ Len(entries) \in Nat /\ seq \in Int
  BY AuditAssumption DEF TrailOK
<1>2. Left \subseteq AuditEntries /\ \A e \in Left : \E i \in 1..Len(entries) : e = entries[i]
  BY <1>1, InTrail DEF Left
<1>3. IsFiniteSet(Left)
  <2>1. IsFiniteSet(ToSet(entries))
    BY <1>1, MembersAreFinite
  <2>2. Left \in SUBSET ToSet(entries)
    BY DEF Left
  <2>3. QED
    BY <2>1, <2>2, FS_Subset
<1>4. \A a, b \in Left : <<a, b>> \in before <=> Listed(a, b)
  OBVIOUS
<1> HIDE DEF before
<1>5. ASSUME NEW a \in Left, NEW b \in Left, a # b
      PROVE  a.seq # b.seq
  <2>1. PICK i \in 1..Len(entries), j \in 1..Len(entries) : a = entries[i] /\ b = entries[j]
    BY <1>2
  <2>2. a.seq = seq - Len(entries) + i /\ b.seq = seq - Len(entries) + j /\ i # j
    BY <1>5, <2>1 DEF TrailOK
  <2>3. QED
    BY <1>1, <2>2
<1>6. StrictOrder(before, Left)
  <2>1. \A a \in Left : <<a, a>> \notin before
    BY <1>2, <1>4, ListedIsOrder
  <2>2. \A a, b, c \in Left : <<a, b>> \in before /\ <<b, c>> \in before => <<a, c>> \in before
    BY <1>2, <1>4, ListedIsOrder
  <2>3. \A a, b \in Left : a # b => <<a, b>> \in before \/ <<b, a>> \in before
    BY <1>2, <1>4, <1>5, ListedIsOrder
  <2>4. QED
    BY <2>1, <2>2, <2>3 DEF StrictOrder
<1>7. /\ Rest \in [1..Cardinality(Left) -> Left]
      /\ \A k \in 1..Cardinality(Left) :
           Cardinality({f \in Left : <<f, Rest[k]>> \in before}) = k - 1
  <2>1. \A e \in Left : {f \in Left : Listed(f, e)} = {f \in Left : <<f, e>> \in before}
    BY <1>4
  <2>2. Rest = [k \in 1..Cardinality(Left) |->
                  CHOOSE e \in Left : Cardinality({f \in Left : Listed(f, e)}) = k - 1]
    BY DEF Rest, Sorted, Left
  <2>3. ASSUME NEW k \in 1..Cardinality(Left)
        PROVE  Rest[k] \in Left /\ Cardinality({f \in Left : Listed(f, Rest[k])}) = k - 1
    <3>1. \E e \in Left : Cardinality({f \in Left : Listed(f, e)}) = k - 1
      <4>1. \E e \in Left : Cardinality({f \in Left : <<f, e>> \in before}) = k - 1
        BY <1>3, <1>6, PlacesAreTaken
      <4>2. QED
        BY <2>1, <4>1
    <3>2. Rest[k] = CHOOSE e \in Left : Cardinality({f \in Left : Listed(f, e)}) = k - 1
      BY <2>2
    <3>3. QED
      BY <3>1, <3>2
  <2>4. QED
    BY <2>1, <2>2, <2>3
<1>8. /\ Rest \in Seq(Left) /\ ToSet(Rest) = Left
      /\ \A i, j \in 1..Len(Rest) : i < j => <<Rest[i], Rest[j]>> \in before
  BY <1>3, <1>6, <1>7, SortingSorts
<1>9. ASSUME ~setBack
      PROVE  NewestFirst(Rest)
  <2> SUFFICES ASSUME NEW i \in 1..Len(Rest), NEW j \in 1..Len(Rest), i < j
               PROVE  Newer(Rest[i], Rest[j])
    BY DEF NewestFirst
  <2>1. Rest[i] \in Left /\ Rest[j] \in Left /\ Listed(Rest[i], Rest[j])
    <3>1. Rest[i] \in Left /\ Rest[j] \in Left
      BY <1>8
    <3>2. <<Rest[i], Rest[j]>> \in before
      BY <1>8
    <3> QED
      BY <1>4, <3>1, <3>2, Zenon
  <2>2. CASE trail # "mem"
    BY <2>1, <2>2 DEF Listed
  <2>3. CASE trail = "mem"
    <3>1. Rest[j].seq < Rest[i].seq /\ Rest[i] \in ToSet(entries) /\ Rest[j] \in ToSet(entries)
      <4>1. Rest[i].seq \in Nat /\ Rest[j].seq \in Nat
        BY <1>2, <2>1, EntriesAreNumbers
      <4>2. QED
        BY <2>1, <2>3, <4>1 DEF Listed, Left
    <3>2. Rest[j].at <= Rest[i].at
      BY <1>9, <2>3, <3>1 DEF ClockOK
    <3>3. Rest[j].at \in Nat /\ Rest[i].at \in Nat
      BY <1>2, <2>1, EntriesAreNumbers
    <3>4. QED
      BY <3>1, <3>2, <3>3 DEF Newer
  <2>4. QED
    BY <2>2, <2>3
<1>10. Rest \in Seq(AuditEntries)
  BY <1>2, <1>8
<1>11. QED
  BY <1>8, <1>9, <1>10

------------------------------------------------------------------------------
(* The steps                                                               *)

LEMMA BeginWalkAuditInv ==
  ASSUME AuditInv, NEW filter \in AuditFilters, BeginWalk(filter)
  PROVE  AuditInv'
<1> USE DEF AuditInv
<1>1. /\ walk' = [state |-> "first", filter |-> filter] /\ got' = <<>>
      /\ due' = {e \in ToSet(entries) : Matches(filter, e)}
      /\ setBack' = (trail = "mem" /\ \E e, f \in ToSet(entries) : e.seq < f.seq /\ f.at < e.at)
      /\ UNCHANGED <<entries, seq, trail, auditLimit>>
  BY DEF BeginWalk
<1>2. TrailOK'
  BY <1>1 DEF TrailOK
<1>3. walk' \in Filtered /\ walk'.state = "first" /\ walk'.filter = filter
  BY <1>1 DEF Filtered
<1>4. ToSet(<<>>) = {} /\ NewestFirst(<<>>) /\ <<>> \in Seq(AuditEntries)
  BY DEF ToSet, NewestFirst
<1>5. WalkOK'
  BY <1>1, <1>3, <1>4 DEF WalkOK
<1>6. ClockOK'
  <2>1. \A e \in ToSet(entries) : e.at \in Nat
    BY InTrail, EntriesAreNumbers DEF TrailOK
  <2>2. ASSUME trail = "mem", ~setBack', NEW e \in ToSet(entries), NEW f \in ToSet(entries), e.seq < f.seq
        PROVE  e.at <= f.at
    <3>1. ~(f.at < e.at)
      BY <1>1, <2>2
    <3>2. QED
      BY <2>1, <3>1
  <2>3. ToSet(got') = {} /\ entries' = entries /\ trail' = trail
    BY <1>1, <1>4
  <2>4. QED
    BY <2>2, <2>3 DEF ClockOK
<1>7. QED
  BY <1>2, <1>5, <1>6

(* Pages that continue what was returned: sorted, and older than all of it. *)
LEMMA PageContinues ==
  ASSUME NEW q \in Seq(AuditEntries), NEW p \in Seq(AuditEntries),
         NEW ordered,
         ordered => /\ NewestFirst(q) /\ NewestFirst(p)
                    /\ \A e \in ToSet(q), f \in ToSet(p) : Newer(e, f)
  PROVE  /\ q \o p \in Seq(AuditEntries) /\ (ordered => NewestFirst(q \o p))
         /\ ToSet(q \o p) = ToSet(q) \cup ToSet(p)
         /\ p # <<>> => q \o p # <<>> /\ (q \o p)[Len(q \o p)] = p[Len(p)]
<1> DEFINE c == q \o p
<1>1. c \in Seq(AuditEntries) /\ Joins(c, q, p)
  BY Concatenated
<1> HIDE DEF c
<1>2. Len(q) \in Nat /\ Len(p) \in Nat
  OBVIOUS
<1>3. \A i \in 1..Len(q) : i \in 1..Len(c) /\ c[i] = q[i] /\ q[i] \in ToSet(q)
  BY <1>1 DEF Joins
<1>4. \A i \in 1..Len(p) :
        Len(q) + i \in 1..Len(c) /\ c[Len(q) + i] = p[i] /\ p[i] \in ToSet(p)
  BY <1>1 DEF Joins
<1>5. \A i \in 1..Len(c) : i \in 1..Len(q) \/ \E k \in 1..Len(p) : i = Len(q) + k
  BY <1>1 DEF Joins
<1>6. c \in Seq(AuditEntries) /\ Len(c) = Len(q) + Len(p)
  BY <1>1 DEF Joins
<1>7. ToSet(c) = ToSet(q) \cup ToSet(p)
  BY <1>1 DEF Joins
<1>8. ASSUME ordered PROVE NewestFirst(c)
  <2> SUFFICES ASSUME NEW i \in 1..Len(c), NEW j \in 1..Len(c), i < j
               PROVE  Newer(c[i], c[j])
    BY DEF NewestFirst
  <2>1. CASE j \in 1..Len(q)
    <3>1. i \in 1..Len(q)
      BY <1>2, <2>1
    <3>2. QED
      BY <1>3, <1>8, <2>1, <3>1 DEF NewestFirst
  <2>2. CASE i \in 1..Len(q) /\ j \notin 1..Len(q)
    <3>1. PICK k \in 1..Len(p) : j = Len(q) + k
      BY <1>5, <2>2
    <3>2. c[i] \in ToSet(q) /\ c[j] \in ToSet(p)
      BY <1>3, <1>4, <2>2, <3>1
    <3>3. QED
      BY <1>8, <3>2
  <2>3. CASE i \notin 1..Len(q) /\ j \notin 1..Len(q)
    <3>1. PICK k \in 1..Len(p), l \in 1..Len(p) : i = Len(q) + k /\ j = Len(q) + l
      BY <1>5, <2>3
    <3>2. k < l
      BY <1>2, <3>1
    <3>3. c[i] = p[k] /\ c[j] = p[l]
      BY <1>4, <3>1
    <3>4. QED
      BY <1>8, <3>2, <3>3 DEF NewestFirst
  <2>4. QED
    BY <2>1, <2>2, <2>3
<1>9. ASSUME p # <<>>
      PROVE  c # <<>> /\ c[Len(c)] = p[Len(p)]
  <2>1. Len(p) \in 1..Len(p)
    BY <1>2, <1>9
  <2>2. c[Len(q) + Len(p)] = p[Len(p)]
    BY <1>4, <2>1
  <2>3. QED
    BY <1>2, <1>6, <2>1, <2>2
<1>10. QED
  BY <1>6, <1>7, <1>8, <1>9 DEF c

(* What is left is sorted and older than what was returned, so a page is   *)
(* cut off its front.                                                      *)
LEMMA ListPageAuditInv ==
  ASSUME AuditInv, ListPage
  PROVE  AuditInv'
<1> USE DEF AuditInv
<1>1. /\ walk.state \in {"first", "more"}
      /\ UNCHANGED <<entries, seq, trail, auditLimit, due, setBack>>
  BY DEF ListPage
<1>2. TrailOK'
  BY <1>1 DEF TrailOK
<1>3. Rest \in Seq(AuditEntries) /\ ToSet(Rest) = Left /\ (~setBack => NewestFirst(Rest))
  BY RestIsOrdered
<1>4. /\ got \in Seq(AuditEntries) /\ (~setBack => NewestFirst(got))
      /\ walk \in {NoWalk} \cup Filtered \cup Cursors /\ walk.filter \in AuditFilters
      /\ \A e \in ToSet(got) \cup due : Matches(walk.filter, e)
      /\ due \subseteq ToSet(entries)
  BY <1>1, WalkStates DEF WalkOK, Filtered, Cursors
<1>5. ~setBack => \A e \in due : e \in ToSet(got) \/ e \in Left
  BY <1>1, <1>4 DEF WalkOK, Left
<1>6. ASSUME ~setBack, NEW e \in ToSet(got), NEW f \in Left
      PROVE  Newer(e, f)
  <2>1. PICK i \in 1..Len(got) : e = got[i]
    BY <1>4, InTrail
  <2>2. walk.state = "more" /\ walk.last = got[Len(got)] /\ Newer(got[Len(got)], f)
    BY <1>1, <1>4, <2>1 DEF WalkOK, Left, AfterCursor
  <2>3. Len(got) \in 1..Len(got) /\ i <= Len(got)
    BY <1>4, <2>1
  <2>4. e \in AuditEntries /\ f \in AuditEntries /\ got[Len(got)] \in AuditEntries
    <3>1. f \in ToSet(Rest)
      BY <1>3
    <3>2. \E k \in 1..Len(Rest) : f = Rest[k]
      BY <1>3, <3>1, InTrail
    <3>3. QED
      BY <1>3, <1>4, <2>1, <2>3, <3>2
  <2>5. i = Len(got) \/ Newer(e, got[Len(got)])
    BY <1>4, <1>6, <2>1, <2>3 DEF NewestFirst
  <2>6. QED
    BY <2>1, <2>2, <2>4, <2>5, NewerIsOrder
<1>7. \A f \in Left : Matches(walk.filter, f)
  BY DEF Left
<1>a. \A e \in Left : e \in ToSet(entries)
  BY DEF Left
<1>8. CASE Len(Rest) > PageSize
  <2> DEFINE page == SubSeq(Rest, 1, PageSize)
  <2>1. /\ got' = got \o page
        /\ walk' = [state |-> "more", filter |-> walk.filter, last |-> Rest[PageSize]]
    BY <1>8 DEF ListPage
  <2>2. PageSize \in 1..Len(Rest) /\ Len(Rest) \in Nat
    BY <1>3, <1>8, AuditAssumption
  <2>3. /\ page \in Seq(AuditEntries) /\ Len(page) = PageSize
        /\ \A i \in 1..Len(page) : page[i] = Rest[i] /\ i \in 1..Len(Rest)
    BY <1>3, <2>2
  <2> HIDE DEF page
  <2>4. ~setBack => NewestFirst(page)
    BY <1>3, <2>3 DEF NewestFirst
  <2>5. ToSet(page) \subseteq Left
    <3>1. \A e \in ToSet(page) : \E i \in 1..Len(Rest) : e = Rest[i]
      BY <2>3, InTrail
    <3>2. QED
      BY <1>3, <3>1, InTrail
  <2>6. page # <<>> /\ page[Len(page)] = Rest[PageSize]
    BY <2>2, <2>3
  <2>7. /\ got' \in Seq(AuditEntries) /\ (~setBack => NewestFirst(got'))
        /\ ToSet(got') = ToSet(got) \cup ToSet(page)
        /\ got' # <<>> /\ got'[Len(got')] = Rest[PageSize]
    <3>1. ~setBack => \A e \in ToSet(got), f \in ToSet(page) : Newer(e, f)
      BY <1>6, <2>5
    <3>2. /\ got \o page \in Seq(AuditEntries) /\ (~setBack => NewestFirst(got \o page))
          /\ ToSet(got \o page) = ToSet(got) \cup ToSet(page)
          /\ got \o page # <<>> /\ (got \o page)[Len(got \o page)] = page[Len(page)]
      BY <1>4, <2>3, <2>4, <2>6, <3>1, PageContinues
    <3>3. QED
      BY <2>1, <2>6, <3>2
  <2>8. /\ walk'.state = "more" /\ walk'.filter = walk.filter /\ walk'.last = Rest[PageSize]
        /\ walk' \in Cursors
    BY <1>3, <1>4, <2>1, <2>2 DEF Cursors
  <2>9. ASSUME ~setBack, NEW e \in Left
        PROVE  e \in ToSet(page) \/ AfterCursor(e, Rest[PageSize])
    <3>1. PICK i \in 1..Len(Rest) : e = Rest[i]
      BY <1>3, InTrail
    <3>2. CASE i <= PageSize
      <4>1. i \in 1..Len(page) /\ e = page[i]
        BY <2>2, <2>3, <3>1, <3>2
      <4>2. QED
        BY <2>3, <4>1, InTrail
    <3>3. CASE i > PageSize
      BY <1>3, <2>2, <2>9, <3>1, <3>3 DEF NewestFirst, AfterCursor
    <3>4. QED
      BY <2>2, <3>2, <3>3
  <2>10. WalkOK'
    BY <1>1, <1>4, <1>5, <1>7, <2>5, <2>7, <2>8, <2>9 DEF WalkOK
  <2>11. ClockOK'
    BY <1>1, <1>a, <2>5, <2>7, NumbersSoFar DEF ClockOK
  <2>12. QED
    BY <1>2, <2>10, <2>11
<1>9. CASE ~(Len(Rest) > PageSize)
  <2>1. got' = got \o Rest /\ walk' = [state |-> "end", filter |-> walk.filter]
    BY <1>9 DEF ListPage
  <2>2. /\ got' \in Seq(AuditEntries) /\ (~setBack => NewestFirst(got'))
        /\ ToSet(got') = ToSet(got) \cup Left
    <3>1. ~setBack => \A e \in ToSet(got), f \in ToSet(Rest) : Newer(e, f)
      BY <1>3, <1>6
    <3>2. /\ got \o Rest \in Seq(AuditEntries) /\ (~setBack => NewestFirst(got \o Rest))
          /\ ToSet(got \o Rest) = ToSet(got) \cup ToSet(Rest)
      BY <1>3, <1>4, <3>1, PageContinues
    <3>3. QED
      BY <1>3, <2>1, <3>2
  <2>3. walk'.state = "end" /\ walk'.filter = walk.filter /\ walk' \in Filtered
    BY <1>4, <2>1 DEF Filtered
  <2>4. WalkOK'
    BY <1>1, <1>4, <1>5, <1>7, <2>2, <2>3 DEF WalkOK
  <2>5. ClockOK'
    BY <1>1, <1>a, <2>2, NumbersSoFar DEF ClockOK
  <2>6. QED
    BY <1>2, <2>4, <2>5
<1>10. QED
  BY <1>8, <1>9

LEMMA AppendEntryAuditInv ==
  ASSUME AuditInv, NEW at \in AuditTimes, NEW kind \in AuditKinds, AppendEntry(at, kind)
  PROVE  AuditInv'
<1> USE DEF AuditInv
<1> DEFINE new == [at |-> at, kind |-> kind, seq |-> seq + 1]
           all == Append(entries, new)
           excess == IF auditLimit > 0 /\ Len(all) > auditLimit THEN Len(all) - auditLimit ELSE 0
<1>1. /\ seq < MaxEntries /\ seq' = seq + 1
      /\ entries' = SubSeq(all, excess + 1, Len(all))
      /\ due' = due \ ToSet(SubSeq(all, 1, excess))
      /\ setBack' = (setBack \/ (trail = "mem" /\ \E e \in ToSet(entries) \cup ToSet(got) : at < e.at))
      /\ UNCHANGED <<trail, auditLimit, walk, got>>
  BY DEF AppendEntry
<1>2. /\ seq \in 0..MaxEntries /\ MaxEntries \in Nat /\ auditLimit \in Nat
      /\ entries \in Seq(AuditEntries) /\ Len(entries) \in Nat
  BY AuditAssumption DEF TrailOK
<1>3. new \in AuditEntries /\ new.seq = seq + 1 /\ new.at = at
  BY <1>1, <1>2 DEF AuditEntries
<1> HIDE DEF new
<1>4. /\ all \in Seq(AuditEntries) /\ Len(all) = Len(entries) + 1
      /\ \A i \in 1..Len(entries) : all[i] = entries[i]
      /\ all[Len(entries) + 1] = new
  BY <1>2, <1>3
<1> HIDE DEF all
<1>5. \A i \in 1..Len(all) : all[i].seq = seq + 1 - Len(all) + i
  <2> SUFFICES ASSUME NEW i \in 1..Len(all)
               PROVE  all[i].seq = seq - Len(entries) + i
    BY <1>2, <1>4
  <2>1. CASE i \in 1..Len(entries)
    BY <1>4, <2>1 DEF TrailOK
  <2>2. CASE i = Len(entries) + 1
    BY <1>2, <1>3, <1>4, <2>2
  <2>3. QED
    BY <1>2, <1>4, <2>1, <2>2
<1>6. /\ excess \in Nat /\ excess <= Len(all)
      /\ auditLimit > 0 => Len(all) - excess <= auditLimit
  BY <1>2, <1>4
<1> HIDE DEF excess
<1> DEFINE kept == SubSeq(all, excess + 1, Len(all))
           dropped == SubSeq(all, 1, excess)
<1>7. /\ kept \in Seq(AuditEntries) /\ Len(kept) = Len(all) - excess
      /\ \A i \in 1..Len(kept) : excess + i \in 1..Len(all) /\ kept[i] = all[excess + i]
  BY <1>4, <1>6
<1>8. /\ dropped \in Seq(AuditEntries) /\ Len(dropped) = excess
      /\ \A i \in 1..Len(dropped) : dropped[i] = all[i]
  BY <1>4, <1>6
<1> HIDE DEF kept, dropped
<1>9. TrailOK'
  <2>1. ASSUME NEW i \in 1..Len(kept)
        PROVE  kept[i].seq = (seq + 1) - Len(kept) + i
    <3>1. kept[i].seq = seq + 1 - Len(all) + (excess + i)
      BY <1>5, <1>7
    <3>2. QED
      BY <1>2, <1>4, <1>6, <1>7, <3>1
  <2>2. entries' = kept
    BY <1>1 DEF kept
  <2>3. auditLimit > 0 => Len(kept) <= auditLimit
    BY <1>6, <1>7
  <2>4. seq' \in 0..MaxEntries
    BY <1>1, <1>2
  <2>5. auditLimit' = auditLimit /\ auditLimit \in AuditLimits /\ seq' = seq + 1
    BY <1>1 DEF TrailOK
  <2>a. trail' \in {"mem", "pg"} /\ setBack' \in BOOLEAN
    BY <1>1 DEF TrailOK
  <2>6. entries' \in Seq(AuditEntries)
    BY <1>7, <2>2
  <2>7. ASSUME NEW i \in 1..Len(entries')
        PROVE  entries'[i].seq = seq' - Len(entries') + i
    BY <2>1, <2>2, <2>5
  <2>8. auditLimit' > 0 => Len(entries') <= auditLimit'
    BY <2>2, <2>3, <2>5
  <2>9. QED
    BY <2>4, <2>5, <2>a, <2>6, <2>7, <2>8 DEF TrailOK
<1>10. due' \subseteq ToSet(entries') /\ due' \subseteq due
  <2> SUFFICES ASSUME NEW e \in due, e \notin ToSet(dropped)
               PROVE  e \in ToSet(kept)
    BY <1>1 DEF kept, dropped
  <2>1. PICK i \in 1..Len(entries) : e = entries[i]
    BY <1>2, InTrail DEF WalkOK
  <2>2. i \in 1..Len(all) /\ e = all[i]
    BY <1>2, <1>4, <2>1
  <2>3. ~(i <= excess)
    <3>1. i \in 1..Len(dropped) => e \in ToSet(dropped)
      BY <1>8, <2>2, InTrail
    <3>2. QED
      BY <1>6, <1>8, <2>1, <3>1
  <2>4. i - excess \in 1..Len(kept) /\ excess + (i - excess) = i
    BY <1>4, <1>6, <1>7, <2>2, <2>3
  <2>5. kept[i - excess] = e
    BY <1>7, <2>2, <2>4
  <2>6. QED
    BY <1>7, <2>4, <2>5, InTrail
<1>11. WalkOK'
  BY <1>1, <1>10 DEF WalkOK
<1>12. ClockOK'
  <2>a. \A e \in ToSet(got') : e.seq <= seq'
    <3>1. \A e \in ToSet(got) : e.seq <= seq /\ e.seq \in Nat
      BY InTrail, EntriesAreNumbers DEF ClockOK, WalkOK
    <3>2. QED
      BY <1>1, <1>2, <3>1
  <2> SUFFICES ASSUME trail = "mem", ~setBack,
                      \A e \in ToSet(entries) \cup ToSet(got) : ~(at < e.at),
                      NEW e \in ToSet(kept) \cup ToSet(got), NEW f \in ToSet(kept) \cup ToSet(got),
                      e.seq < f.seq
               PROVE  e.at <= f.at
    BY <1>1, <2>a DEF ClockOK, kept
  <2>1. ASSUME NEW g \in ToSet(kept) \cup ToSet(got)
        PROVE  g = new \/ g \in ToSet(entries) \cup ToSet(got)
    <3>1. CASE g \in ToSet(kept)
      <4>1. PICK i \in 1..Len(kept) : g = kept[i]
        BY <1>7, <3>1, InTrail
      <4>2. excess + i \in 1..Len(entries) \/ excess + i = Len(entries) + 1
        BY <1>2, <1>4, <1>6, <1>7
      <4>3. g = all[excess + i]
        BY <1>7, <4>1
      <4>4. QED
        BY <1>2, <1>4, <4>2, <4>3, InTrail
    <3>2. QED
      BY <2>1, <3>1
  <2>2. \A g \in ToSet(entries) \cup ToSet(got) : g \in AuditEntries /\ g.seq \in Nat /\ g.at \in Nat
    BY <1>2, InTrail, EntriesAreNumbers DEF WalkOK
  <2>3. new.seq \in Nat /\ new.at \in Nat /\ at \in Nat
    BY <1>3, EntriesAreNumbers
  <2>4. CASE f = new
    BY <1>3, <2>1, <2>2, <2>3, <2>4
  <2>5. CASE f # new /\ e = new
    <3>1. f \in ToSet(entries) \/ f \in ToSet(got)
      BY <2>1, <2>5
    <3>2. f.seq <= seq
      BY <3>1, NumbersSoFar DEF ClockOK
    <3>3. QED
      BY <1>2, <1>3, <2>2, <2>5, <3>1, <3>2
  <2>6. CASE f # new /\ e # new
    BY <2>1, <2>6 DEF ClockOK
  <2>7. QED
    BY <2>4, <2>5, <2>6
<1>13. QED
  BY <1>9, <1>11, <1>12

LEMMA AuditInvHolds == AuditSpec => []AuditInv
<1>1. AuditInit => AuditInv
  <2> SUFFICES ASSUME AuditInit PROVE AuditInv
    OBVIOUS
  <2>1. TrailOK
    <3>1. trail \in {"mem", "pg"} /\ auditLimit \in AuditLimits /\ auditLimit \in Nat
      BY AuditAssumption, Zenon DEF AuditInit
    <3>2. entries = <<>> /\ seq = 0 /\ setBack = FALSE /\ MaxEntries \in Nat
      BY AuditAssumption DEF AuditInit
    <3>3. <<>> \in Seq(AuditEntries) /\ Len(<<>>) = 0 /\ 1..0 = {}
      OBVIOUS
    <3>4. 0 \in 0..MaxEntries /\ FALSE \in BOOLEAN
      BY <3>2
    <3>5. entries \in Seq(AuditEntries) /\ seq \in 0..MaxEntries /\ setBack \in BOOLEAN
      BY <3>2, <3>3, <3>4
    <3>6. Len(entries) = 0
      BY <3>2, <3>3
    <3>7. /\ \A i \in 1..Len(entries) : entries[i].seq = seq - Len(entries) + i
          /\ auditLimit > 0 => Len(entries) <= auditLimit
      BY <3>1, <3>3, <3>6
    <3> QED
      BY <3>1, <3>5, <3>7 DEF TrailOK
  <2>2. ToSet(<<>>) = {} /\ NewestFirst(<<>>) /\ <<>> \in Seq(AuditEntries)
    BY DEF ToSet, NewestFirst
  <2>3. WalkOK
    BY <2>2 DEF AuditInit, WalkOK, NoWalk
  <2>4. ClockOK
    BY <2>2 DEF AuditInit, ClockOK
  <2>5. QED
    BY <2>1, <2>3, <2>4 DEF AuditInv
<1>2. AuditInv /\ [AuditNext]_auditVars => AuditInv'
  <2> SUFFICES ASSUME AuditInv, [AuditNext]_auditVars PROVE AuditInv'
    OBVIOUS
  <2>1. CASE AuditNext
    BY <2>1, AppendEntryAuditInv, BeginWalkAuditInv, ListPageAuditInv DEF AuditNext
  <2>2. CASE UNCHANGED auditVars
    BY <2>2 DEF auditVars, AuditInv, TrailOK, ClockOK, WalkOK
  <2>3. QED
    BY <2>1, <2>2
<1>3. QED
  BY <1>1, <1>2, PTL DEF AuditSpec

(* The numbers of the trail have no gap, also where its start was dropped, *)
(* and its limit holds.                                                    *)
THEOREM AuditTypeCorrect == AuditSpec => []AuditTypeOK
BY AuditInvHolds, AuditInvIsTyped, PTL

(* A walk over the pages returns in order, never twice, and every matching *)
(* entry that was there all the time; in memory only while the clock is    *)
(* not set back.                                                           *)
THEOREM WalksStayExact == AuditSpec => []WalksAreExact
BY AuditInvHolds, AuditInvIsExact, PTL

------------------------------------------------------------------------------
(* RcaPipeline: what each step yields is what the last step is judged by   *)

(* What a step yielded.                                                    *)
Yield(step) == {f \in ToSet(findings) : f.step = step}

(* The changes that findings are about; NoChange is the Ref of the others. *)
Refs(S) == {f.ref : f \in S}

Named(step) == Refs(Yield(step))

(* The findings that are about a change.                                   *)
About(S) == {f \in S : f.ref # NoChange}

Ids(C) == {c.id : c \in C}

(* What verification leaves of the changes handed over.                    *)
Suspects ==
  {c \in Gathered :
     /\ T0 - RcaWindow <= c.at /\ c.at <= T0
     /\ c.node \in evidence.alerted \cap DOMAIN evidence.nodes
     /\ c.conf \in {"medium", "high"} /\ evidence.nodes[c.node] \in {"medium", "high"}}

NoMoreSuspect(c, d) ==
  \/ c.conf = "medium" /\ d.conf = "high"
  \/ c.conf = d.conf /\ c.at < d.at
  \/ c.conf = d.conf /\ c.at = d.at /\ c.id >= d.id

(* The suspects that no other is more suspect than.                        *)
MostSuspect == {d \in Suspects : \A e \in Suspects : NoMoreSuspect(e, d)}

Recommended == IF Suspects = {} THEN {NoChange} ELSE Ids(MostSuspect)

Attributed ==
  IF Suspects = {} THEN {[step |-> "attribution", conf |-> "low", ref |-> NoChange]}
  ELSE {[step |-> "attribution", conf |-> c.conf, ref |-> c.id] : c \in Suspects}

RcaVerdicts == {[step |-> "verify", conf |-> VerdictConf(c), ref |-> c.id] : c \in Related}

(* What is attributed comes in the order of suspicion.                     *)
SuspectsInOrder ==
  \A j, k \in 1..Len(findings) :
    j < k /\ findings[j].step = "attribution" /\ findings[k].step = "attribution" =>
      \A c, d \in Suspects :
        c.id = findings[j].ref /\ d.id = findings[k].ref => NoMoreSuspect(d, c)

(* What the steps that ran have yielded.                                   *)
ChainOK ==
  /\ \A i \in rcaStep..6 : Yield(StepNames[i]) = {}
  /\ rcaStep > 2 => Refs(About(Yield("hypothesize"))) = Ids(Related)
  /\ rcaStep > 3 => About(Yield("verify")) = RcaVerdicts
  /\ rcaStep > 4 => Yield("attribution") = Attributed
  /\ SuspectsInOrder
  /\ rcaStep > 5 => (Yield("conclude") # {}) = (summarizer = "answers")
  /\ rcaStep > 6 => Named("recommend") = Recommended

(* A report says what was attributed and cuts what is least confident.     *)
ReportOK ==
  /\ ToSet(report.kept) \subseteq ToSet(findings) /\ report.truncated \in Nat
  /\ outcome = "reported" =>
       /\ rcaStep = 7
       /\ report.roots = {f.ref : f \in {g \in Yield("attribution") : g.conf = "high"}}
       /\ \A g \in ToSet(findings) \ ToSet(report.kept), f \in ToSet(report.kept) :
            ConfRank(g.conf) <= ConfRank(f.conf)

(* The analysis keeps to its types, each step has yielded what the later   *)
(* steps build on, and a report says what was found.                       *)
RcaInv ==
  /\ evidence \in RcaInputs /\ summarizer \in {"none", "answers", "fails"}
  /\ rcaStep \in 1..7 /\ outcome \in {"running", "reported", "abandoned"}
  /\ findings \in Seq(Finding)
  /\ ChainOK /\ ReportOK

------------------------------------------------------------------------------
(* Findings at some places                                                 *)

ByPlace(P) == {p \in P \X P : p[1] < p[2]}

LEMMA PlacesAreOrdered ==
  ASSUME NEW P, \A j \in P : j \in Nat
  PROVE  /\ StrictOrder(ByPlace(P), P)
         /\ \A j, k \in P : <<j, k>> \in ByPlace(P) <=> j < k
<1>1. \A j, k \in P : <<j, k>> \in ByPlace(P) <=> j < k
  BY DEF ByPlace
<1>2. \A j \in P : j \in Nat
  OBVIOUS
<1>3. \A j \in P : ~(j < j)
  BY <1>2
<1>4. \A j, k, l \in P : j < k /\ k < l => j < l
  BY <1>2
<1>5. \A j, k \in P : j # k => j < k \/ k < j
  BY <1>2
<1>6. QED
  BY <1>1, <1>3, <1>4, <1>5 DEF StrictOrder

LEMMA NumbersAreSorted ==
  ASSUME NEW P, IsFiniteSet(P), \A j \in P : j \in Nat,
         NEW s \in [1..Cardinality(P) -> P],
         \A k \in 1..Cardinality(P) : Cardinality({f \in P : f < s[k]}) = k - 1
  PROVE  /\ s \in Seq(P) /\ Len(s) = Cardinality(P) /\ ToSet(s) = P
         /\ \A i, j \in 1..Len(s) : i < j => s[i] < s[j]
<1> DEFINE before == ByPlace(P)
<1>1. StrictOrder(before, P)
  BY PlacesAreOrdered
<1>2. \A j, k \in P : <<j, k>> \in before <=> j < k
  BY PlacesAreOrdered
<1> HIDE DEF before
<1>3. \A e \in P : {f \in P : f < e} = {f \in P : <<f, e>> \in before}
  BY <1>2
<1>4. \A k \in 1..Cardinality(P) : Cardinality({f \in P : <<f, s[k]>> \in before}) = k - 1
  BY <1>3
<1>5. /\ s \in Seq(P) /\ Len(s) = Cardinality(P) /\ ToSet(s) = P /\ IsInjective(s)
      /\ \A i, j \in 1..Len(s) : i < j => <<s[i], s[j]>> \in before
  BY <1>1, <1>4, SortingSorts
<1>6. \A i \in 1..Len(s) : s[i] \in P
  BY <1>5
<1>7. QED
  BY <1>2, <1>5, <1>6

LEMMA NumbersHavePlaces ==
  ASSUME NEW P, IsFiniteSet(P), \A j \in P : j \in Nat, NEW k \in 1..Cardinality(P)
  PROVE  \E e \in P : Cardinality({f \in P : f < e}) = k - 1
<1> DEFINE before == ByPlace(P)
<1>1. StrictOrder(before, P)
  BY PlacesAreOrdered
<1>2. \A j, l \in P : <<j, l>> \in before <=> j < l
  BY PlacesAreOrdered
<1> HIDE DEF before
<1>3. \A e \in P : {f \in P : f < e} = {f \in P : <<f, e>> \in before}
  BY <1>2
<1>4. \E e \in P : Cardinality({f \in P : <<f, e>> \in before}) = k - 1
  BY <1>1, PlacesAreTaken
<1>5. QED
  BY <1>3, <1>4

(* The findings at some places, in their order.                            *)
LEMMA PlacesAreSorted ==
  ASSUME NEW P, IsFiniteSet(P), \A j \in P : j \in Nat
  PROVE  \A s : s = Sorted(P, Earlier) =>
           /\ s \in Seq(P) /\ Len(s) = Cardinality(P) /\ ToSet(s) = P
           /\ \A i, j \in 1..Len(s) : i < j => s[i] < s[j]
<1> DEFINE s == Sorted(P, Earlier)
<1>1. s = [k \in 1..Cardinality(P) |->
             CHOOSE e \in P : Cardinality({f \in P : f < e}) = k - 1]
  BY DEF Sorted, Earlier
<1> HIDE DEF s
<1>2. ASSUME NEW k \in 1..Cardinality(P)
      PROVE  s[k] \in P /\ Cardinality({f \in P : f < s[k]}) = k - 1
  <2>1. \E e \in P : Cardinality({f \in P : f < e}) = k - 1
    BY NumbersHavePlaces
  <2>2. s[k] = CHOOSE e \in P : Cardinality({f \in P : f < e}) = k - 1
    BY <1>1
  <2>3. QED
    BY <2>1, <2>2
<1>3. s \in [1..Cardinality(P) -> P]
  BY <1>1, <1>2
<1>4. \A k \in 1..Cardinality(P) : Cardinality({f \in P : f < s[k]}) = k - 1
  BY <1>2
<1>5. /\ s \in Seq(P) /\ Len(s) = Cardinality(P) /\ ToSet(s) = P
      /\ \A i, j \in 1..Len(s) : i < j => s[i] < s[j]
  BY <1>3, <1>4, NumbersAreSorted
<1>6. QED
  BY <1>5 DEF s

(* The findings at some places: these findings, the earliest first.        *)
LEMMA FindingsArePicked ==
  ASSUME findings \in Seq(Finding), NEW P, \A k \in P : k \in 1..Len(findings)
  PROVE  \A q : q = Picked(P) =>
           /\ q \in Seq(Finding) /\ Len(q) = Cardinality(P)
           /\ Cardinality(P) \in Nat /\ Cardinality(P) <= Len(findings)
           /\ \A e : e \in ToSet(q) <=> \E k \in P : e = findings[k]
           /\ q # <<>> => \E k \in P : q[1] = findings[k] /\ \A j \in P : k <= j
<1> SUFFICES ASSUME NEW q, q = Picked(P)
             PROVE  /\ q \in Seq(Finding) /\ Len(q) = Cardinality(P)
                    /\ Cardinality(P) \in Nat /\ Cardinality(P) <= Len(findings)
                    /\ \A e : e \in ToSet(q) <=> \E k \in P : e = findings[k]
                    /\ q # <<>> => \E k \in P : q[1] = findings[k] /\ \A j \in P : k <= j
  OBVIOUS
<1>1. Len(findings) \in Nat /\ \A k \in P : k \in 1..Len(findings) /\ findings[k] \in Finding
  OBVIOUS
<1>2. IsFiniteSet(P) /\ Cardinality(P) \in Nat /\ Cardinality(P) <= Len(findings)
  <2>1. IsFiniteSet(1..Len(findings)) /\ Cardinality(1..Len(findings)) = Len(findings)
    BY <1>1, UpTo
  <2>2. P \in SUBSET (1..Len(findings))
    OBVIOUS
  <2>3. IsFiniteSet(P) /\ Cardinality(P) <= Cardinality(1..Len(findings))
    BY <2>1, <2>2, FS_Subset
  <2>4. QED
    BY <2>1, <2>3, FS_CardinalityType
<1> DEFINE s == Sorted(P, Earlier)
<1>3. /\ s \in Seq(P) /\ Len(s) = Cardinality(P) /\ ToSet(s) = P
      /\ \A i, j \in 1..Len(s) : i < j => s[i] < s[j]
  <2>1. \A j \in P : j \in Nat
    BY <1>1
  <2>2. QED
    BY <1>2, <2>1, PlacesAreSorted
<1>4. q = [k \in DOMAIN s |-> findings[s[k]]]
  BY DEF Picked
<1> HIDE DEF s
<1>5. q = [k \in 1..Cardinality(P) |-> findings[s[k]]] /\ \A k \in 1..Cardinality(P) : s[k] \in P
  BY <1>2, <1>3, <1>4
<1>6. q \in Seq(Finding) /\ Len(q) = Cardinality(P)
  <2>1. PICK n \in Nat : n = Cardinality(P)
    BY <1>2
  <2>2. q = [k \in 1..n |-> findings[s[k]]] /\ \A k \in 1..n : findings[s[k]] \in Finding
    BY <1>1, <1>5, <2>1
  <2>3. q \in Seq(Finding) /\ Len(q) = n
    BY <2>2
  <2>4. QED
    BY <2>1, <2>3
<1>7. \A k : k \in P <=> \E i \in 1..Cardinality(P) : k = s[i]
  BY <1>3, Members
<1>8. ASSUME NEW e
      PROVE  e \in ToSet(q) <=> \E k \in P : e = findings[k]
  <2>1. e \in ToSet(q) <=> \E i \in 1..Cardinality(P) : e = q[i]
    BY <1>6, Members
  <2>2. \A i \in 1..Cardinality(P) : q[i] = findings[s[i]]
    BY <1>5
  <2>3. ASSUME e \in ToSet(q)
        PROVE  \E k \in P : e = findings[k]
    <3>1. PICK i \in 1..Cardinality(P) : e = q[i]
      BY <2>1, <2>3
    <3>2. s[i] \in P /\ e = findings[s[i]]
      BY <1>5, <2>2, <3>1
    <3>3. QED
      BY <3>2
  <2>4. ASSUME NEW k \in P, e = findings[k]
        PROVE  e \in ToSet(q)
    <3>1. PICK i \in 1..Cardinality(P) : k = s[i]
      BY <1>7
    <3>2. QED
      BY <2>1, <2>2, <2>4, <3>1
  <2>5. QED
    BY <2>3, <2>4
<1>9. ASSUME q # <<>>
      PROVE  \E k \in P : q[1] = findings[k] /\ \A j \in P : k <= j
  <2>1. 1 \in 1..Cardinality(P)
    BY <1>2, <1>6, <1>9
  <2>2. s[1] \in P /\ q[1] = findings[s[1]]
    BY <1>5, <2>1
  <2>3. ASSUME NEW j \in P
        PROVE  s[1] <= j
    <3>1. PICK i \in 1..Cardinality(P) : j = s[i]
      BY <1>7
    <3>2. CASE i = 1
      BY <1>1, <2>2, <3>1, <3>2
    <3>3. CASE i > 1
      <4>1. s[1] < s[i]
        BY <1>3, <2>1, <3>1, <3>3
      <4>2. QED
        BY <1>1, <2>2, <3>1, <4>1
    <3>4. QED
      BY <1>2, <3>2, <3>3
  <2>4. QED
    BY <2>2, <2>3
<1>10. QED
  BY <1>2, <1>6, <1>8, <1>9

------------------------------------------------------------------------------
(* The evidence                                                            *)

LEMMA ConfRanks ==
  /\ \A c : ConfRank(c) \in 1..3
  /\ ConfRank("high") = 3 /\ ConfRank("medium") = 2 /\ ConfRank("low") = 1
  /\ \A c : ConfRank(c) > 1 => c \in {"high", "medium"}
BY DEF ConfRank

(* Times lose the fraction of a second.                                    *)
LEMMA SecondsAreWhole ==
  ASSUME NEW at \in Int
  PROVE  WholeSecond(at) \in Int /\ WholeSecond(at) <= at
<1>1. TicksPerSecond \in Nat \ {0}
  BY RcaAssumption
<1>2. at % TicksPerSecond \in 0..TicksPerSecond - 1
  BY <1>1
<1>3. QED
  BY <1>1, <1>2 DEF WholeSecond

(* A change as it is handed over.                                          *)
Handed(c) == [id |-> c.id, node |-> c.node, at |-> WholeSecond(c.at), conf |-> c.conf]

InWindow == {d \in evidence.changes : T0 - RcaWindow <= d.at /\ d.at <= T0}

LEMMA GatheredAreHanded == Gathered = {Handed(c) : c \in InWindow}
BY DEF Gathered, Handed, InWindow

LEMMA EvidenceOK ==
  ASSUME evidence \in RcaInputs
  PROVE  /\ IsFiniteSet(Gathered)
         /\ \A c \in Gathered : c.id \in Nat /\ c.id # NoChange /\ c.at \in Int
         /\ \A c, d \in Gathered : c.id = d.id => c = d
         /\ \A c \in Gathered : Change(c.id) = c
<1>1. /\ IsFiniteSet(evidence.changes)
      /\ \A c \in evidence.changes : c.id \in Nat /\ c.id # NoChange /\ c.at \in Int
      /\ \A c, d \in evidence.changes : c.id = d.id => c = d
  BY RcaAssumption
<1>2. IsFiniteSet(Gathered)
  <2>1. IsFiniteSet(InWindow) /\ InWindow \subseteq evidence.changes
    BY <1>1, FS_Subset DEF InWindow
  <2>2. [c \in InWindow |-> Handed(c)] \in Surjection(InWindow, Gathered)
    BY GatheredAreHanded DEF Surjection
  <2>3. QED
    BY <2>1, <2>2, FS_Surjection
<1>3. \A c \in Gathered : \E d \in evidence.changes :
        c = Handed(d) /\ c.id = d.id /\ c.at = WholeSecond(d.at)
  BY GatheredAreHanded DEF Handed, InWindow
<1>4. \A c \in Gathered : c.id \in Nat /\ c.id # NoChange /\ c.at \in Int
  BY <1>1, <1>3, SecondsAreWhole
<1>5. \A c, d \in Gathered : c.id = d.id => c = d
  BY <1>1, <1>3
<1>6. ASSUME NEW c \in Gathered
      PROVE  Change(c.id) = c
  <2>1. \E d \in Gathered : d.id = c.id
    OBVIOUS
  <2>2. Change(c.id) \in Gathered /\ Change(c.id).id = c.id
    BY <2>1 DEF Change
  <2>3. QED
    BY <1>5, <2>2
<1>7. QED
  BY <1>2, <1>4, <1>5, <1>6

(* What the verification leaves are the suspects, with the confidence of   *)
(* their change.                                                           *)
LEMMA SuspectsAreVerified ==
  ASSUME NEW c \in Gathered
  PROVE  /\ c \in Suspects <=> c \in Related /\ VerdictConf(c) # "low"
         /\ c \in Suspects => VerdictConf(c) = c.conf /\ c.conf \in {"medium", "high"}
<1>1. WithinWindow(c.at) <=> T0 - RcaWindow <= c.at /\ c.at <= T0
  BY RcaAssumption DEF WithinWindow
<1>2. ConfRank(c.conf) > 1 <=> c.conf \in {"medium", "high"}
  BY ConfRanks
<1>3. ConfRank(ConfOf(c.node)) > 1 <=>
        c.node \in DOMAIN evidence.nodes /\ evidence.nodes[c.node] \in {"medium", "high"}
  BY ConfRanks DEF ConfOf
<1>4. c \in Suspects <=>
        /\ WithinWindow(c.at) /\ InDomain(c.node)
        /\ ConfRank(c.conf) > 1 /\ ConfRank(ConfOf(c.node)) > 1
  BY <1>1, <1>2, <1>3 DEF Suspects, InDomain
<1>5. QED
  BY <1>2, <1>4 DEF Related, VerdictConf

LEMMA EvidenceStays ==
  ASSUME UNCHANGED evidence
  PROVE  /\ Related' = Related /\ RcaVerdicts' = RcaVerdicts
         /\ Suspects' = Suspects /\ Attributed' = Attributed
<1>0. Gathered' = Gathered
  BY DEF Gathered
<1>1. Suspects' = Suspects
  BY <1>0 DEF Suspects
<1>2. Attributed' = Attributed
  BY <1>1 DEF Attributed
<1>3. \A c : ConfOf(c.node)' = ConfOf(c.node)
  BY DEF ConfOf
<1>4. \A c : InDomain(c.node)' = InDomain(c.node)
  BY DEF InDomain
<1>5. \A c : NeighborOf(c.node)' = NeighborOf(c.node)
  BY DEF NeighborOf
<1>6. \A c : HypothesisConf(c)' = HypothesisConf(c)
  BY <1>3, <1>4 DEF HypothesisConf
<1>7. \A c : VerdictConf(c)' = VerdictConf(c)
  BY <1>3, <1>4 DEF VerdictConf
<1>8. Related' = Related
  BY <1>0, <1>4, <1>5, <1>6 DEF Related
<1>9. RcaVerdicts' = RcaVerdicts
  BY <1>7, <1>8 DEF RcaVerdicts
<1>10. QED
  BY <1>1, <1>2, <1>8, <1>9

------------------------------------------------------------------------------
(* The steps                                                               *)

LEMMA YieldIsAppended ==
  ASSUME findings \in Seq(Finding), NEW r \in Seq(Finding), findings' = findings \o r,
         NEW s, \A f \in ToSet(r) : f.step = s, Yield(s) = {}
  PROVE  /\ findings' \in Seq(Finding) /\ ToSet(findings') = ToSet(findings) \cup ToSet(r)
         /\ Yield(s)' = ToSet(r) /\ \A t : t # s => Yield(t)' = Yield(t)
<1>1. findings' \in Seq(Finding) /\ Joins(findings', findings, r)
  BY Concatenated
<1>2. ToSet(findings') = ToSet(findings) \cup ToSet(r)
  BY <1>1 DEF Joins
<1>3. Yield(s)' = ToSet(r)
  BY <1>2 DEF Yield
<1>4. \A t : t # s => Yield(t)' = Yield(t)
  BY <1>2 DEF Yield
<1>5. QED
  BY <1>1, <1>2, <1>3, <1>4

(* Another step than the attribution leaves the order of what is           *)
(* attributed.                                                             *)
LEMMA OrderStays ==
  ASSUME findings \in Seq(Finding), NEW r \in Seq(Finding), findings' = findings \o r,
         UNCHANGED evidence, SuspectsInOrder,
         \A f \in ToSet(r) : f.step # "attribution"
  PROVE  SuspectsInOrder'
<1>1. Joins(findings', findings, r)
  BY Concatenated
<1> SUFFICES ASSUME NEW j \in 1..Len(findings'), NEW k \in 1..Len(findings'), j < k,
                    findings'[j].step = "attribution", findings'[k].step = "attribution",
                    NEW c \in Suspects', NEW d \in Suspects',
                    c.id = findings'[j].ref, d.id = findings'[k].ref
             PROVE  NoMoreSuspect(d, c)
  BY DEF SuspectsInOrder
<1>2. \A i \in 1..Len(findings') :
        findings'[i].step = "attribution" => i \in 1..Len(findings) /\ findings'[i] = findings[i]
  <2>1. \A i \in 1..Len(r) : findings'[Len(findings) + i].step # "attribution"
    BY <1>1 DEF Joins
  <2>2. QED
    BY <1>1, <2>1 DEF Joins
<1>3. /\ j \in 1..Len(findings) /\ findings'[j] = findings[j]
      /\ k \in 1..Len(findings) /\ findings'[k] = findings[k]
  BY <1>2
<1>4. c \in Suspects /\ d \in Suspects
  BY EvidenceStays
<1>5. QED
  BY <1>3, <1>4 DEF SuspectsInOrder

LEMMA PlainYields ==
  ASSUME NEW s \in ToSet(StepNames), NEW conf \in RcaConfidences
  PROVE  /\ Plain(s, conf) \in Seq(Finding)
         /\ ToSet(Plain(s, conf)) = {[step |-> s, conf |-> conf, ref |-> NoChange]}
<1>1. [step |-> s, conf |-> conf, ref |-> NoChange] \in Finding
  BY RcaAssumption DEF Finding
<1>2. QED
  BY <1>1 DEF Plain, ToSet

LEMMA ConfsAreTyped ==
  /\ \A c : HypothesisConf(c) \in RcaConfidences /\ VerdictConf(c) \in RcaConfidences
  /\ {"collect", "hypothesize", "verify", "attribution", "conclude", "recommend"} = ToSet(StepNames)
  /\ {"high", "medium", "low"} = RcaConfidences
<1>1. \A c : HypothesisConf(c) \in RcaConfidences
  BY DEF HypothesisConf, Downgrade, MinConf, NormalizeConf, RcaConfidences
<1>2. \A c : VerdictConf(c) \in RcaConfidences
  BY DEF VerdictConf, RcaConfidences
<1>3. ToSet(StepNames) = {"collect", "hypothesize", "verify", "attribution", "conclude", "recommend"}
  <2>1. DOMAIN StepNames = 1..6
    BY DEF StepNames
  <2>2. \A i \in 1..6 : i = 1 \/ i = 2 \/ i = 3 \/ i = 4 \/ i = 5 \/ i = 6
    OBVIOUS
  <2>3. QED
    BY <2>1, <2>2 DEF ToSet, StepNames
<1>4. QED
  BY <1>1, <1>2, <1>3 DEF RcaConfidences

LEMMA RanksDiffer ==
  \A a, b \in RcaConfidences : a # b => ConfRank(a) > ConfRank(b) \/ ConfRank(b) > ConfRank(a)
BY ConfRanks DEF RcaConfidences

LEMMA RelatedAreFound ==
  ASSUME evidence \in RcaInputs
  PROVE  /\ Related \subseteq Gathered /\ IsFiniteSet(Related)
         /\ Suspects \subseteq Gathered /\ IsFiniteSet(Suspects)
<1>1. Related \in SUBSET Gathered /\ Suspects \in SUBSET Gathered
  BY DEF Related, Suspects
<1>2. IsFiniteSet(Gathered)
  BY EvidenceOK
<1>3. QED
  BY <1>1, <1>2, FS_Subset

LEMMA HypothesizeYields ==
  ASSUME evidence \in RcaInputs
  PROVE  /\ Hypothesize \in Seq(Finding)
         /\ \A f \in ToSet(Hypothesize) : f.step = "hypothesize"
         /\ Refs(About(ToSet(Hypothesize))) = Ids(Related)
<1>1. CASE Related = {}
  <2>1. Hypothesize = Plain("hypothesize", "low")
    BY <1>1 DEF Hypothesize
  <2>2. /\ Hypothesize \in Seq(Finding)
        /\ ToSet(Hypothesize) = {[step |-> "hypothesize", conf |-> "low", ref |-> NoChange]}
    BY <2>1, PlainYields, ConfsAreTyped
  <2>3. About(ToSet(Hypothesize)) = {} /\ Refs({}) = {} /\ Ids(Related) = {}
    BY <1>1, <2>2 DEF Refs, About, Ids
  <2>4. \A f \in ToSet(Hypothesize) : f.step = "hypothesize"
    BY <2>2
  <2>5. QED
    BY <2>2, <2>3, <2>4
<1>2. CASE Related # {}
  <2> DEFINE hyp(c) == [step |-> "hypothesize", conf |-> HypothesisConf(c), ref |-> c.id]
             S == {hyp(c) : c \in Related}
             Before(f, g) == \/ ConfRank(f.conf) > ConfRank(g.conf)
                             \/ f.conf = g.conf /\ f.ref < g.ref
             before == {p \in S \X S : Before(p[1], p[2])}
  <2>1. /\ \A a \in S : /\ a.step = "hypothesize" /\ a \in Finding
                        /\ ConfRank(a.conf) \in 1..3 /\ a.ref \in Nat /\ a.ref # NoChange
        /\ \A a, b \in S : a.ref = b.ref => a = b
    <3>1. \A c \in Related : c.id \in Nat /\ c.id # NoChange
      BY EvidenceOK, RelatedAreFound
    <3>2. \A c, d \in Related : c.id = d.id => c = d
      BY EvidenceOK, RelatedAreFound
    <3>3. \A c \in Related : hyp(c) \in Finding
      BY <3>1, ConfsAreTyped DEF Finding
    <3>4. QED
      BY <3>1, <3>2, <3>3, ConfRanks
  <2>2. IsFiniteSet(S)
    <3> DEFINE h == [c \in Related |-> hyp(c)]
    <3>1. h \in Surjection(Related, S)
      BY DEF Surjection
    <3> HIDE DEF h, S
    <3>2. QED
      BY <3>1, RelatedAreFound, FS_Surjection
  <2>3. S # {} /\ Refs(About(S)) = Ids(Related)
    <3>1. About(S) = S
      BY <2>1 DEF About
    <3>2. \A c \in Related : hyp(c) \in S /\ hyp(c).ref = c.id
      OBVIOUS
    <3>3. \A f \in S : \E c \in Related : f.ref = c.id
      OBVIOUS
    <3> HIDE DEF S, hyp
    <3>4. Refs(S) = Ids(Related)
      BY <3>2, <3>3 DEF Refs, Ids
    <3>5. QED
      BY <1>2, <3>1, <3>2, <3>4
  <2>4. \A a, b \in S : <<a, b>> \in before <=> Before(a, b)
    OBVIOUS
  <2>5. Hypothesize = [k \in 1..Cardinality(S) |->
                         CHOOSE e \in S : Cardinality({f \in S : Before(f, e)}) = k - 1]
    BY <1>2 DEF Hypothesize, Sorted
  <2> HIDE DEF S, before
  <2>6. StrictOrder(before, S)
    <3>1. \A a \in S : ~Before(a, a)
      BY <2>1
    <3>2. ASSUME NEW a \in S, NEW b \in S, NEW c \in S, Before(a, b), Before(b, c)
          PROVE  Before(a, c)
      <4>1. /\ ConfRank(a.conf) \in 1..3 /\ ConfRank(b.conf) \in 1..3 /\ ConfRank(c.conf) \in 1..3
            /\ a.ref \in Nat /\ b.ref \in Nat /\ c.ref \in Nat
        BY <2>1
      <4>2. QED
        BY <3>2, <4>1
    <3>3. ASSUME NEW a \in S, NEW b \in S, a # b
          PROVE  Before(a, b) \/ Before(b, a)
      <4>1. a.ref \in Nat /\ b.ref \in Nat /\ a.ref # b.ref
        BY <2>1, <3>3
      <4>2. a.conf = b.conf \/ ConfRank(a.conf) > ConfRank(b.conf) \/ ConfRank(b.conf) > ConfRank(a.conf)
        BY <2>1, RanksDiffer DEF Finding
      <4>3. a.ref < b.ref \/ b.ref < a.ref
        BY <4>1
      <4>4. QED
        BY <4>2, <4>3
    <3> HIDE DEF Before
    <3>4. QED
      BY <2>4, <3>1, <3>2, <3>3 DEF StrictOrder
  <2> HIDE DEF Before
  <2>7. Hypothesize \in Seq(S) /\ ToSet(Hypothesize) = S
    <3>1. \A e \in S : {f \in S : Before(f, e)} = {f \in S : <<f, e>> \in before}
      BY <2>4
    <3>2. ASSUME NEW k \in 1..Cardinality(S)
          PROVE  /\ Hypothesize[k] \in S
                 /\ Cardinality({f \in S : Before(f, Hypothesize[k])}) = k - 1
      <4>1. \E e \in S : Cardinality({f \in S : <<f, e>> \in before}) = k - 1
        BY <2>2, <2>6, PlacesAreTaken
      <4>2. \E e \in S : Cardinality({f \in S : Before(f, e)}) = k - 1
        BY <3>1, <4>1
      <4>3. Hypothesize[k] = CHOOSE e \in S : Cardinality({f \in S : Before(f, e)}) = k - 1
        BY <2>5
      <4>4. QED
        BY <4>2, <4>3
    <3>3. PICK s : s = Hypothesize
      OBVIOUS
    <3>4. s \in [1..Cardinality(S) -> S]
      BY <2>5, <3>2, <3>3
    <3>5. \A k \in 1..Cardinality(S) : Cardinality({f \in S : <<f, s[k]>> \in before}) = k - 1
      BY <3>1, <3>2, <3>3
    <3>6. /\ s \in Seq(S) /\ Len(s) = Cardinality(S) /\ ToSet(s) = S /\ IsInjective(s)
          /\ \A i, j \in 1..Len(s) : i < j => <<s[i], s[j]>> \in before
      BY <2>2, <2>6, <3>4, <3>5, SortingSorts
    <3>7. QED
      BY <3>3, <3>6
  <2>8. Hypothesize \in Seq(Finding) /\ ToSet(Hypothesize) = S
    BY <2>1, <2>7
  <2>9. QED
    BY <2>1, <2>3, <2>8
<1>3. QED
  BY <1>1, <1>2

(* What a step found out about changes, its earliest finding first.        *)
LEMMA OfIsYielded ==
  ASSUME findings \in Seq(Finding), NEW s
  PROVE  \A q : q = Of(s) =>
           /\ q \in Seq(Finding)
           /\ \A e : e \in ToSet(q) <=> e \in Yield(s) /\ e.ref # NoChange
           /\ q # <<>> =>
                \E k \in 1..Len(findings) :
                  /\ q[1] = findings[k] /\ findings[k].step = s
                  /\ \A j \in 1..Len(findings) :
                       findings[j].step = s /\ findings[j].ref # NoChange => k <= j
<1> DEFINE P == {k \in DOMAIN findings : findings[k].step = s /\ findings[k].ref # NoChange}
<1>1. \A k : k \in P <=>
        k \in 1..Len(findings) /\ findings[k].step = s /\ findings[k].ref # NoChange
  OBVIOUS
<1>2. Of(s) = Picked(P)
  BY DEF Of
<1> HIDE DEF P
<1> SUFFICES ASSUME NEW q, q = Picked(P)
             PROVE  /\ q \in Seq(Finding)
                    /\ \A e : e \in ToSet(q) <=> e \in Yield(s) /\ e.ref # NoChange
                    /\ q # <<>> =>
                         \E k \in 1..Len(findings) :
                           /\ q[1] = findings[k] /\ findings[k].step = s
                           /\ \A j \in 1..Len(findings) :
                                findings[j].step = s /\ findings[j].ref # NoChange => k <= j
  BY <1>2
<1>3. /\ q \in Seq(Finding)
      /\ \A e : e \in ToSet(q) <=> \E k \in P : e = findings[k]
      /\ q # <<>> => \E k \in P : q[1] = findings[k] /\ \A j \in P : k <= j
  BY <1>1, FindingsArePicked
<1>4. \A e : e \in ToSet(findings) <=> \E k \in 1..Len(findings) : e = findings[k]
  BY Members
<1>5. ASSUME NEW e
      PROVE  (\E k \in P : e = findings[k]) <=> e \in Yield(s) /\ e.ref # NoChange
  BY <1>1, <1>4 DEF Yield
<1>6. QED
  BY <1>1, <1>3, <1>5

LEMMA VerifyYields ==
  ASSUME evidence \in RcaInputs, findings \in Seq(Finding),
         Refs(About(Yield("hypothesize"))) = Ids(Related)
  PROVE  /\ Verify \in Seq(Finding)
         /\ \A f \in ToSet(Verify) : f.step = "verify"
         /\ About(ToSet(Verify)) = RcaVerdicts
<1>1. PICK q : q = Of("hypothesize")
  OBVIOUS
<1>2. /\ q \in Seq(Finding)
      /\ \A e : e \in ToSet(q) <=> e \in Yield("hypothesize") /\ e.ref # NoChange
  BY <1>1, OfIsYielded
<1>3. /\ \A f \in ToSet(q) : \E c \in Related : f.ref = c.id
      /\ \A c \in Related : \E f \in ToSet(q) : f.ref = c.id
  <2>1. \A f : f \in ToSet(q) <=> f \in About(Yield("hypothesize"))
    BY <1>2 DEF About
  <2>2. /\ \A f \in About(Yield("hypothesize")) : f.ref \in Ids(Related)
        /\ \A i \in Ids(Related) : \E f \in About(Yield("hypothesize")) : f.ref = i
    BY DEF Refs
  <2>3. QED
    BY <2>1, <2>2 DEF Ids
<1>4. /\ \A c \in Related : c.id \in Nat /\ c.id # NoChange /\ Change(c.id) = c
  BY EvidenceOK, RelatedAreFound
<1>5. CASE q = <<>>
  <2>1. Verify = Plain("verify", "low")
    BY <1>1, <1>5 DEF Verify
  <2>2. /\ Verify \in Seq(Finding)
        /\ ToSet(Verify) = {[step |-> "verify", conf |-> "low", ref |-> NoChange]}
    BY <2>1, PlainYields, ConfsAreTyped
  <2>3. Related = {}
    <3>1. ToSet(q) = {}
      BY <1>5 DEF ToSet
    <3>2. QED
      BY <1>3, <3>1
  <2>4. RcaVerdicts = {}
    BY <2>3 DEF RcaVerdicts
  <2>5. QED
    BY <2>2, <2>4 DEF About
<1>6. CASE q # <<>>
  <2> DEFINE Verdict(f) == [step |-> "verify", ref |-> f.ref, conf |-> VerdictConf(Change(f.ref))]
             of(c) == [step |-> "verify", conf |-> VerdictConf(c), ref |-> c.id]
  <2>1. PICK v : v = Verify
    OBVIOUS
  <2>2. v = [k \in 1..Len(q) |-> Verdict(q[k])]
    <3>1. v = [k \in DOMAIN q |-> Verdict(q[k])]
      BY <1>1, <1>6, <2>1 DEF Verify
    <3>2. DOMAIN q = 1..Len(q)
      BY <1>2
    <3>3. QED
      BY <3>1, <3>2
  <2>3. \A c \in Related : of(c) \in Finding
    BY <1>4, ConfsAreTyped DEF Finding
  <2>4. \A f \in ToSet(q) : \E c \in Related : Verdict(f) = of(c)
    BY <1>3, <1>4
  <2>5. \A c \in Related : \E f \in ToSet(q) : Verdict(f) = of(c)
    BY <1>3, <1>4
  <2>6. RcaVerdicts = {of(c) : c \in Related}
    BY DEF RcaVerdicts
  <2>7. \A c \in Related : of(c).step = "verify" /\ of(c).ref # NoChange
    BY <1>4
  <2> HIDE DEF Verdict, of
  <2>8. Len(q) \in Nat /\ \A e : e \in ToSet(q) <=> \E i \in 1..Len(q) : e = q[i]
    BY <1>2, Members
  <2>9. \A i \in 1..Len(q) : Verdict(q[i]) \in Finding
    BY <2>3, <2>4, <2>8
  <2>10. v \in Seq(Finding) /\ Len(v) = Len(q)
    BY <2>2, <2>8, <2>9
  <2>11. \A e : e \in ToSet(v) <=> \E i \in 1..Len(q) : e = Verdict(q[i])
    <3>1. \A e : e \in ToSet(v) <=> \E i \in 1..Len(v) : e = v[i]
      BY <2>10, Members
    <3>2. QED
      BY <2>2, <2>10, <3>1
  <2>12. \A e : e \in ToSet(v) <=> e \in RcaVerdicts
    BY <2>4, <2>5, <2>6, <2>8, <2>11
  <2>13. ToSet(v) = RcaVerdicts /\ About(ToSet(v)) = ToSet(v)
    BY <2>6, <2>7, <2>12 DEF About
  <2>14. \A f \in ToSet(v) : f.step = "verify"
    BY <2>6, <2>7, <2>13
  <2>15. QED
    BY <2>1, <2>10, <2>13, <2>14
<1>7. QED
  BY <1>5, <1>6

(* The candidate made of a suspect.                                        *)
Candidate(c) == [step |-> "attribution", conf |-> c.conf, ref |-> c.id]

LEMMA CandidatesAreTyped ==
  ASSUME evidence \in RcaInputs
  PROVE  /\ \A c \in Suspects : /\ Candidate(c) \in Finding /\ Candidate(c).step = "attribution"
                                /\ Candidate(c).conf = c.conf /\ c.conf \in {"medium", "high"}
                                /\ Candidate(c).ref = c.id /\ c.id \in Nat /\ c.id # NoChange
                                /\ Change(c.id) = c /\ c.at \in Int
         /\ \A c, d \in Suspects : c.id = d.id => c = d
<1>1. \A c \in Suspects : c \in Gathered
  BY RelatedAreFound
<1>2. /\ \A c \in Suspects : /\ c.id \in Nat /\ c.id # NoChange
                             /\ Change(c.id) = c /\ c.at \in Int
      /\ \A c, d \in Suspects : c.id = d.id => c = d
  BY <1>1, EvidenceOK
<1>3. \A c \in Suspects : c.conf \in {"medium", "high"}
  BY <1>1, SuspectsAreVerified
<1>4. \A c \in Suspects : Candidate(c) \in Finding
  BY <1>2, <1>3, ConfsAreTyped DEF Candidate, Finding
<1>5. QED
  BY <1>2, <1>3, <1>4 DEF Candidate

LEMMA SuspicionIsOrder ==
  ASSUME evidence \in RcaInputs,
         NEW a \in Suspects, NEW b \in Suspects, NEW c \in Suspects
  PROVE  /\ ~MoreSuspect(Candidate(a), Candidate(a))
         /\ MoreSuspect(Candidate(a), Candidate(b)) /\ MoreSuspect(Candidate(b), Candidate(c))
              => MoreSuspect(Candidate(a), Candidate(c))
         /\ a # b => MoreSuspect(Candidate(a), Candidate(b)) \/ MoreSuspect(Candidate(b), Candidate(a))
         /\ MoreSuspect(Candidate(a), Candidate(b)) => NoMoreSuspect(b, a)
<1> DEFINE More(x, y) == \/ x.conf = "high" /\ y.conf = "medium"
                         \/ x.conf = y.conf /\ x.at > y.at
                         \/ x.conf = y.conf /\ x.at = y.at /\ x.id < y.id
<1>1. \A x, y \in Suspects : MoreSuspect(Candidate(x), Candidate(y)) <=> More(x, y)
  <2>1. ASSUME NEW x \in Suspects, NEW y \in Suspects
        PROVE  ConfRank(x.conf) > ConfRank(y.conf) <=> x.conf = "high" /\ y.conf = "medium"
    BY ConfRanks, CandidatesAreTyped
  <2>2. QED
    BY <2>1, CandidatesAreTyped DEF MoreSuspect
<1>2. /\ a.at \in Int /\ b.at \in Int /\ c.at \in Int
      /\ a.id \in Nat /\ b.id \in Nat /\ c.id \in Nat
      /\ a.conf \in {"medium", "high"} /\ b.conf \in {"medium", "high"} /\ c.conf \in {"medium", "high"}
      /\ a # b => a.id # b.id
  BY CandidatesAreTyped
<1>3. /\ ~More(a, a) /\ (More(a, b) /\ More(b, c) => More(a, c))
      /\ a # b => More(a, b) \/ More(b, a)
      /\ More(a, b) => NoMoreSuspect(b, a)
  BY <1>2 DEF NoMoreSuspect
<1> HIDE DEF More
<1>4. QED
  BY <1>1, <1>3

(* The attribution names the suspects, the most suspect first.             *)
LEMMA AttributeYields ==
  ASSUME evidence \in RcaInputs, findings \in Seq(Finding),
         About(Yield("verify")) = RcaVerdicts
  PROVE  /\ Attribute \in Seq(Finding) /\ ToSet(Attribute) = Attributed
         /\ \A j, k \in 1..Len(Attribute) : j < k =>
              \A c, d \in Suspects :
                c.id = Attribute[j].ref /\ d.id = Attribute[k].ref => NoMoreSuspect(d, c)
<1> DEFINE S == {Candidate(c) : c \in Suspects}
           cands == {[f EXCEPT !.step = "attribution"] :
                       f \in {g \in ToSet(Of("verify")) : g.conf # "low"}}
<1>1. \A f : f \in ToSet(Of("verify")) <=> f \in RcaVerdicts
  BY OfIsYielded DEF About
<1>2. cands = S
  <2> DEFINE of(c) == [step |-> "verify", conf |-> VerdictConf(c), ref |-> c.id]
  <2>1. RcaVerdicts = {of(c) : c \in Related}
    BY DEF RcaVerdicts
  <2>2. ASSUME NEW c \in Related
        PROVE  /\ of(c).conf # "low" <=> c \in Suspects
               /\ c \in Suspects => [of(c) EXCEPT !.step = "attribution"] = Candidate(c)
    <3>1. c \in Gathered
      BY RelatedAreFound
    <3>2. QED
      BY <3>1, SuspectsAreVerified DEF Candidate
  <2>3. \A c \in Suspects : c \in Related
    BY SuspectsAreVerified, RelatedAreFound
  <2> HIDE DEF of
  <2>4. \A f : f \in ToSet(Of("verify")) <=> \E c \in Related : f = of(c)
    BY <1>1, <2>1
  <2>5. \A e : e \in cands <=>
          \E c \in Related : of(c).conf # "low" /\ e = [of(c) EXCEPT !.step = "attribution"]
    BY <2>4
  <2> HIDE DEF cands
  <2>6. \A e : e \in cands <=> \E c \in Suspects : e = Candidate(c)
    BY <2>2, <2>3, <2>5
  <2>7. QED
    BY <2>6
<1>3. Attribute = IF S = {} THEN Plain("attribution", "low") ELSE Sorted(S, MoreSuspect)
  BY <1>2 DEF Attribute
<1> HIDE DEF cands
<1>4. CASE Suspects = {}
  <2>1. Attribute = Plain("attribution", "low")
    BY <1>3, <1>4
  <2>2. /\ Attribute \in Seq(Finding)
        /\ ToSet(Attribute) = {[step |-> "attribution", conf |-> "low", ref |-> NoChange]}
    BY <2>1, PlainYields, ConfsAreTyped
  <2>3. QED
    BY <1>4, <2>2 DEF Attributed
<1>5. CASE Suspects # {}
  <2> DEFINE before == {p \in S \X S : MoreSuspect(p[1], p[2])}
  <2>1. \A a, b \in S : <<a, b>> \in before <=> MoreSuspect(a, b)
    OBVIOUS
  <2>2. Attribute = [k \in 1..Cardinality(S) |->
                       CHOOSE e \in S : Cardinality({f \in S : MoreSuspect(f, e)}) = k - 1]
    BY <1>3, <1>5 DEF Sorted
  <2>3. IsFiniteSet(S)
    <3> DEFINE h == [c \in Suspects |-> Candidate(c)]
    <3>1. h \in Surjection(Suspects, S)
      BY DEF Surjection
    <3> HIDE DEF h, S
    <3>2. QED
      BY <3>1, RelatedAreFound, FS_Surjection
  <2>4. \A a \in S : a \in Finding /\ \E c \in Suspects : a = Candidate(c)
    BY CandidatesAreTyped
  <2>5. S = Attributed
    BY <1>5 DEF Attributed, Candidate
  <2> HIDE DEF S, before
  <2>6. StrictOrder(before, S)
    <3>1. \A a \in S : ~MoreSuspect(a, a)
      BY <2>4, SuspicionIsOrder
    <3>2. \A a, b, c \in S : MoreSuspect(a, b) /\ MoreSuspect(b, c) => MoreSuspect(a, c)
      BY <2>4, SuspicionIsOrder
    <3>3. \A a, b \in S : a # b => MoreSuspect(a, b) \/ MoreSuspect(b, a)
      BY <2>4, SuspicionIsOrder
    <3>4. QED
      BY <2>1, <3>1, <3>2, <3>3 DEF StrictOrder
  <2>7. PICK s : s = Attribute
    OBVIOUS
  <2>8. \A e \in S : {f \in S : MoreSuspect(f, e)} = {f \in S : <<f, e>> \in before}
    BY <2>1
  <2>9. ASSUME NEW k \in 1..Cardinality(S)
        PROVE  s[k] \in S /\ Cardinality({f \in S : MoreSuspect(f, s[k])}) = k - 1
    <3>1. \E e \in S : Cardinality({f \in S : <<f, e>> \in before}) = k - 1
      <4>1. PICK T, b : T = S /\ b = before
        OBVIOUS
      <4>2. IsFiniteSet(T) /\ StrictOrder(b, T) /\ k \in 1..Cardinality(T)
        BY <2>3, <2>6, <4>1
      <4>3. \E e \in T : Cardinality({f \in T : <<f, e>> \in b}) = k - 1
        BY <4>2, PlacesAreTaken
      <4>4. QED
        BY <4>1, <4>3
    <3>2. \E e \in S : Cardinality({f \in S : MoreSuspect(f, e)}) = k - 1
      BY <2>8, <3>1
    <3>3. s[k] = CHOOSE e \in S : Cardinality({f \in S : MoreSuspect(f, e)}) = k - 1
      BY <2>2, <2>7
    <3>4. QED
      BY <3>2, <3>3
  <2>10. s \in [1..Cardinality(S) -> S]
    BY <2>2, <2>7, <2>9
  <2>11. \A k \in 1..Cardinality(S) : Cardinality({f \in S : <<f, s[k]>> \in before}) = k - 1
    BY <2>8, <2>9
  <2>12. /\ s \in Seq(S) /\ Len(s) = Cardinality(S) /\ ToSet(s) = S /\ IsInjective(s)
         /\ \A i, j \in 1..Len(s) : i < j => <<s[i], s[j]>> \in before
    BY <2>3, <2>6, <2>10, <2>11, SortingSorts
  <2>13. ASSUME NEW j \in 1..Len(s), NEW k \in 1..Len(s), j < k,
                NEW c \in Suspects, NEW d \in Suspects, c.id = s[j].ref, d.id = s[k].ref
         PROVE  NoMoreSuspect(d, c)
    <3>1. s[j] \in S /\ s[k] \in S /\ MoreSuspect(s[j], s[k])
      <4>1. \A i \in 1..Len(s) : s[i] \in S
        BY <2>12
      <4>2. <<s[j], s[k]>> \in before
        BY <2>12, <2>13
      <4>3. QED
        BY <2>1, <4>1, <4>2
    <3>2. PICK x \in Suspects, y \in Suspects : s[j] = Candidate(x) /\ s[k] = Candidate(y)
      BY <2>4, <3>1
    <3>3. x = c /\ y = d
      <4>1. x.id = s[j].ref /\ y.id = s[k].ref
        BY <3>2, CandidatesAreTyped
      <4>2. QED
        BY <2>13, <4>1, CandidatesAreTyped
    <3>4. QED
      BY <3>1, <3>2, <3>3, SuspicionIsOrder
  <2>14. s \in Seq(Finding) /\ ToSet(s) = Attributed
    BY <2>4, <2>5, <2>12
  <2>15. QED
    BY <2>7, <2>13, <2>14
<1>6. QED
  BY <1>4, <1>5

(* The conclusion says something of its own.                               *)
LEMMA PlainStepsYield ==
  /\ Collect \in Seq(Finding) /\ \A f \in ToSet(Collect) : f.step = "collect"
  /\ Conclude \in Seq(Finding) /\ \A f \in ToSet(Conclude) : f.step = "conclude"
  /\ ToSet(Conclude) # {}
<1>1. PICK a \in RcaConfidences : Collect = Plain("collect", a)
  BY ConfsAreTyped DEF Collect
<1>2. PICK b \in RcaConfidences : Conclude = Plain("conclude", b)
  BY ConfsAreTyped DEF Conclude
<1>3. ASSUME NEW s \in ToSet(StepNames), NEW c \in RcaConfidences
      PROVE  /\ Plain(s, c) \in Seq(Finding) /\ ToSet(Plain(s, c)) # {}
             /\ \A f \in ToSet(Plain(s, c)) : f.step = s
  <2> DEFINE f == [step |-> s, conf |-> c, ref |-> NoChange]
  <2>1. Plain(s, c) \in Seq(Finding) /\ ToSet(Plain(s, c)) = {f}
    BY PlainYields
  <2>2. f.step = s
    OBVIOUS
  <2> HIDE DEF f
  <2>3. QED
    BY <2>1, <2>2
<1>4. "collect" \in ToSet(StepNames) /\ "conclude" \in ToSet(StepNames)
  BY ConfsAreTyped
<1>5. Collect \in Seq(Finding) /\ \A f \in ToSet(Collect) : f.step = "collect"
  BY <1>1, <1>3, <1>4
<1>6. /\ Conclude \in Seq(Finding) /\ ToSet(Conclude) # {}
      /\ \A f \in ToSet(Conclude) : f.step = "conclude"
  BY <1>2, <1>3, <1>4
<1>7. QED
  BY <1>5, <1>6

(* Two suspects that are each as suspect as the other are the same.        *)
LEMMA MostSuspectIsOne ==
  ASSUME evidence \in RcaInputs, NEW c \in Suspects, NEW d \in Suspects
  PROVE  /\ NoMoreSuspect(c, c)
         /\ NoMoreSuspect(c, d) /\ NoMoreSuspect(d, c) => c = d
<1>1. /\ c.at \in Int /\ d.at \in Int /\ c.id \in Nat /\ d.id \in Nat
      /\ c.id = d.id => c = d
  BY CandidatesAreTyped
<1>2. QED
  BY <1>1 DEF NoMoreSuspect

(* The recommendation names the most suspect change.                       *)
LEMMA RecommendYields ==
  ASSUME evidence \in RcaInputs, findings \in Seq(Finding),
         Yield("attribution") = Attributed, SuspectsInOrder
  PROVE  /\ Recommend \in Seq(Finding)
         /\ \A f \in ToSet(Recommend) : f.step = "recommend"
         /\ Refs(ToSet(Recommend)) = Recommended
<1>1. PICK q : q = Of("attribution")
  OBVIOUS
<1>2. /\ q \in Seq(Finding)
      /\ \A e : e \in ToSet(q) <=> e \in Attributed /\ e.ref # NoChange
      /\ q # <<>> =>
           \E k \in 1..Len(findings) :
             /\ q[1] = findings[k] /\ findings[k].step = "attribution"
             /\ \A j \in 1..Len(findings) :
                  findings[j].step = "attribution" /\ findings[j].ref # NoChange => k <= j
  BY <1>1, OfIsYielded
<1>3. \A e : e \in ToSet(q) <=> \E i \in 1..Len(q) : e = q[i]
  BY <1>2, Members
<1>4. CASE Suspects = {}
  <2>1. ToSet(q) = {}
    BY <1>2, <1>4 DEF Attributed
  <2>2. q = <<>>
    <3>1. q \in Seq(Finding) /\ Len(q) \in Nat
      BY <1>2
    <3>2. \A i \in 1..Len(q) : FALSE
      BY <1>3, <2>1
    <3>3. Len(q) = 0
      BY <3>1, <3>2
    <3>4. QED
      BY <3>1, <3>3
  <2>3. Recommend = Plain("recommend", "low")
    BY <1>1, <2>2 DEF Recommend
  <2>4. /\ Recommend \in Seq(Finding)
        /\ ToSet(Recommend) = {[step |-> "recommend", conf |-> "low", ref |-> NoChange]}
    BY <2>3, PlainYields, ConfsAreTyped
  <2>5. QED
    BY <1>4, <2>4 DEF Refs, Recommended
<1>5. CASE Suspects # {}
  <2>1. Attributed = {Candidate(c) : c \in Suspects}
    BY <1>5 DEF Attributed, Candidate
  <2>2. \A c \in Suspects : Candidate(c) \in ToSet(q)
    BY <1>2, <2>1, CandidatesAreTyped
  <2>3. q # <<>> /\ 1 \in 1..Len(q)
    <3>1. PICK c \in Suspects : TRUE
      BY <1>5
    <3>2. Len(q) \in Nat /\ Len(q) # 0
      BY <1>2, <1>3, <2>2, <3>1
    <3>3. QED
      BY <1>2, <3>2
  <2>4. PICK k \in 1..Len(findings) :
          /\ q[1] = findings[k] /\ findings[k].step = "attribution"
          /\ \A j \in 1..Len(findings) :
               findings[j].step = "attribution" /\ findings[j].ref # NoChange => k <= j
    BY <1>2, <2>3
  <2>5. PICK c0 \in Suspects : q[1] = Candidate(c0)
    BY <1>2, <1>3, <2>1, <2>3
  <2>6. ASSUME NEW d \in Suspects
        PROVE  NoMoreSuspect(d, c0)
    <3>1. Candidate(d) \in Yield("attribution")
      BY <2>1
    <3>2. PICK j \in 1..Len(findings) : Candidate(d) = findings[j]
      BY <3>1, Members DEF Yield
    <3>3. findings[j].step = "attribution" /\ findings[j].ref = d.id /\ d.id # NoChange
      BY <3>2, CandidatesAreTyped
    <3>4. k <= j
      BY <2>4, <3>3
    <3>5. findings[k].ref = c0.id
      BY <2>4, <2>5, CandidatesAreTyped
    <3>6. CASE j = k
      <4>1. d = c0
        BY <3>3, <3>5, <3>6, CandidatesAreTyped
      <4>2. QED
        BY <4>1, MostSuspectIsOne
    <3>7. CASE k < j
      BY <2>4, <3>3, <3>5, <3>7 DEF SuspectsInOrder
    <3>8. QED
      BY <3>4, <3>6, <3>7
  <2>7. Recommended = {c0.id}
    <3>1. MostSuspect = {c0}
      BY <2>6, MostSuspectIsOne DEF MostSuspect
    <3>2. QED
      BY <1>5, <3>1 DEF Recommended, Ids
  <2>8. Recommend = <<[Candidate(c0) EXCEPT !.step = "recommend"]>>
    <3>1. Recommend = <<[Head(q) EXCEPT !.step = "recommend"]>>
      BY <1>1, <2>3 DEF Recommend
    <3>2. Head(q) = q[1]
      BY <1>2, <2>3
    <3>3. QED
      BY <2>5, <3>1, <3>2
  <2>9. PICK f : f = [Candidate(c0) EXCEPT !.step = "recommend"]
    OBVIOUS
  <2>10. f \in Finding /\ f.step = "recommend" /\ f.ref = c0.id
    BY <2>9, CandidatesAreTyped, ConfsAreTyped DEF Candidate, Finding
  <2>11. Recommend \in Seq(Finding) /\ ToSet(Recommend) = {f}
    BY <2>8, <2>9, <2>10 DEF ToSet
  <2>12. QED
    BY <2>7, <2>10, <2>11 DEF Refs
<1>6. QED
  BY <1>4, <1>5

(* The attribution puts what it names in the order of suspicion.           *)
LEMMA OrderBegins ==
  ASSUME findings \in Seq(Finding), NEW r \in Seq(Finding), findings' = findings \o r,
         UNCHANGED evidence, Yield("attribution") = {},
         \A j, k \in 1..Len(r) : j < k =>
           \A c, d \in Suspects : c.id = r[j].ref /\ d.id = r[k].ref => NoMoreSuspect(d, c)
  PROVE  SuspectsInOrder'
<1>1. Joins(findings', findings, r)
  BY Concatenated
<1>2. \A i \in 1..Len(findings) : findings[i].step # "attribution"
  BY Members DEF Yield
<1> SUFFICES ASSUME NEW j \in 1..Len(findings'), NEW k \in 1..Len(findings'), j < k,
                    findings'[j].step = "attribution", findings'[k].step = "attribution",
                    NEW c \in Suspects', NEW d \in Suspects',
                    c.id = findings'[j].ref, d.id = findings'[k].ref
             PROVE  NoMoreSuspect(d, c)
  BY DEF SuspectsInOrder
<1>3. \A i \in 1..Len(findings') :
        findings'[i].step = "attribution" =>
          \E p \in 1..Len(r) : i = Len(findings) + p /\ findings'[i] = r[p]
  BY <1>1, <1>2 DEF Joins
<1>4. PICK p \in 1..Len(r) : j = Len(findings) + p /\ findings'[j] = r[p]
  BY <1>3
<1>5. PICK q \in 1..Len(r) : k = Len(findings) + q /\ findings'[k] = r[q]
  BY <1>3
<1>6. p < q
  BY <1>4, <1>5
<1>7. c \in Suspects /\ d \in Suspects
  BY EvidenceStays
<1>8. QED
  BY <1>4, <1>5, <1>6, <1>7

------------------------------------------------------------------------------
(* The invariant                                                           *)

LEMMA RcaInitInv == RcaInit => RcaInv
<1> SUFFICES ASSUME RcaInit PROVE RcaInv
  OBVIOUS
<1>1. findings = <<>> /\ findings \in Seq(Finding) /\ ToSet(findings) = {} /\ Len(findings) = 0
  BY DEF RcaInit, ToSet
<1>2. \A s : Yield(s) = {}
  BY <1>1 DEF Yield
<1>3. SuspectsInOrder
  BY <1>1 DEF SuspectsInOrder
<1>4. report = NoReport /\ ToSet(report.kept) = {} /\ report.truncated \in Nat
  BY DEF RcaInit, NoReport, ToSet
<1>5. ChainOK
  BY <1>2, <1>3 DEF RcaInit, ChainOK
<1>6. ReportOK
  BY <1>1, <1>4 DEF RcaInit, ReportOK
<1>7. QED
  BY <1>1, <1>5, <1>6 DEF RcaInit, RcaInv

(* A step that runs adds what it yields.                                   *)
LEMMA StepYields ==
  ASSUME RcaInv, rcaStep \in 1..6
  PROVE  /\ StepResult(rcaStep) \in Seq(Finding)
         /\ \A f \in ToSet(StepResult(rcaStep)) : f.step = StepNames[rcaStep]
         /\ rcaStep = 2 => Refs(About(ToSet(StepResult(rcaStep)))) = Ids(Related)
         /\ rcaStep = 3 => About(ToSet(StepResult(rcaStep))) = RcaVerdicts
         /\ rcaStep = 4 =>
              /\ ToSet(StepResult(rcaStep)) = Attributed
              /\ \A j, k \in 1..Len(StepResult(rcaStep)) : j < k =>
                   \A c, d \in Suspects :
                     c.id = StepResult(rcaStep)[j].ref /\ d.id = StepResult(rcaStep)[k].ref
                       => NoMoreSuspect(d, c)
         /\ rcaStep = 5 => ToSet(StepResult(rcaStep)) # {}
         /\ rcaStep = 6 => Refs(ToSet(StepResult(rcaStep))) = Recommended
<1>0. evidence \in RcaInputs /\ findings \in Seq(Finding) /\ ChainOK
  BY DEF RcaInv
<1>1. CASE rcaStep = 1
  <2>1. StepResult(rcaStep) = Collect /\ StepNames[rcaStep] = "collect"
    BY <1>1 DEF StepResult, StepNames
  <2>2. QED
    BY <1>1, <2>1, PlainStepsYield
<1>2. CASE rcaStep = 2
  <2>1. StepResult(rcaStep) = Hypothesize /\ StepNames[rcaStep] = "hypothesize"
    BY <1>2 DEF StepResult, StepNames
  <2>2. QED
    BY <1>0, <1>2, <2>1, HypothesizeYields
<1>3. CASE rcaStep = 3
  <2>1. StepResult(rcaStep) = Verify /\ StepNames[rcaStep] = "verify"
    BY <1>3 DEF StepResult, StepNames
  <2>2. Refs(About(Yield("hypothesize"))) = Ids(Related)
    BY <1>0, <1>3 DEF ChainOK
  <2>3. QED
    BY <1>0, <1>3, <2>1, <2>2, VerifyYields
<1>4. CASE rcaStep = 4
  <2>1. StepResult(rcaStep) = Attribute /\ StepNames[rcaStep] = "attribution"
    BY <1>4 DEF StepResult, StepNames
  <2>2. About(Yield("verify")) = RcaVerdicts
    BY <1>0, <1>4 DEF ChainOK
  <2>3. /\ Attribute \in Seq(Finding) /\ ToSet(Attribute) = Attributed
        /\ \A j, k \in 1..Len(Attribute) : j < k =>
             \A c, d \in Suspects :
               c.id = Attribute[j].ref /\ d.id = Attribute[k].ref => NoMoreSuspect(d, c)
    BY <1>0, <2>2, AttributeYields
  <2>4. \A f \in Attributed : f.step = "attribution"
    BY DEF Attributed
  <2>5. QED
    BY <1>4, <2>1, <2>3, <2>4
<1>5. CASE rcaStep = 5
  <2>1. StepResult(rcaStep) = Conclude /\ StepNames[rcaStep] = "conclude"
    BY <1>5 DEF StepResult, StepNames
  <2>2. QED
    BY <1>5, <2>1, PlainStepsYield
<1>6. CASE rcaStep = 6
  <2>1. StepResult(rcaStep) = Recommend /\ StepNames[rcaStep] = "recommend"
    BY <1>6 DEF StepResult, StepNames
  <2>2. Yield("attribution") = Attributed /\ SuspectsInOrder
    BY <1>0, <1>6 DEF ChainOK
  <2>3. QED
    BY <1>0, <1>6, <2>1, <2>2, RecommendYields
<1>7. QED
  BY <1>1, <1>2, <1>3, <1>4, <1>5, <1>6

(* The chain depends on the evidence, the model, the step and the findings.*)
LEMMA ChainStays ==
  ASSUME ChainOK, UNCHANGED <<evidence, summarizer, rcaStep, findings>>
  PROVE  ChainOK'
<1>1. \A s : Yield(s)' = Yield(s)
  BY DEF Yield
<1>2. SuspectsInOrder'
  BY EvidenceStays DEF SuspectsInOrder, ChainOK
<1>3. Related' = Related /\ RcaVerdicts' = RcaVerdicts /\ Attributed' = Attributed /\ Recommended' = Recommended
  BY EvidenceStays DEF Recommended, MostSuspect
<1>4. QED
  BY <1>1, <1>2, <1>3 DEF ChainOK, Named

LEMMA StepNamesDiffer ==
  \A i, j \in 1..6 : i # j => StepNames[i] # StepNames[j]
BY DEF StepNames

LEMMA RunStepRcaInv == RcaInv /\ RunStep => RcaInv'
<1> SUFFICES ASSUME RcaInv, RunStep PROVE RcaInv'
  OBVIOUS
<1>1. /\ evidence \in RcaInputs /\ summarizer \in {"none", "answers", "fails"}
      /\ findings \in Seq(Finding) /\ ChainOK /\ ReportOK
      /\ evidence' = evidence /\ summarizer' = summarizer /\ report' = report
      /\ rcaStep \in 1..6 /\ outcome = "running"
  BY DEF RcaInv, RunStep
<1>2. StepNames[rcaStep] = "conclude" <=> rcaStep = 5
  <2>1. StepNames[5] = "conclude"
    BY DEF StepNames
  <2>2. QED
    BY <1>1, <2>1, StepNamesDiffer
<1>3. Related' = Related /\ RcaVerdicts' = RcaVerdicts /\ Attributed' = Attributed /\ Recommended' = Recommended
  BY <1>1, EvidenceStays DEF Recommended, MostSuspect
<1>5. CASE /\ rcaStep = 5 /\ summarizer # "answers" /\ rcaStep' = 6
           /\ findings' = findings /\ outcome' = outcome
  <2>1. \A s : Yield(s)' = Yield(s)
    BY <1>5 DEF Yield
  <2>2. SuspectsInOrder'
    BY <1>1, <1>5, EvidenceStays DEF SuspectsInOrder, ChainOK
  <2>3. Yield("conclude") = {}
    <3>1. StepNames[5] = "conclude"
      BY DEF StepNames
    <3>2. QED
      BY <1>1, <1>5, <3>1 DEF ChainOK
  <2>4. ChainOK'
    BY <1>1, <1>3, <1>5, <2>1, <2>2, <2>3 DEF ChainOK
  <2>5. ReportOK'
    BY <1>1, <1>5 DEF ReportOK
  <2>6. QED
    BY <1>1, <1>5, <2>4, <2>5 DEF RcaInv
<1>6. CASE /\ rcaStep = 5 => summarizer = "answers"
           /\ rcaStep' = rcaStep + 1 /\ outcome' = outcome
           /\ findings' = findings \o StepResult(rcaStep)
  <2>1. PICK r, s : r = StepResult(rcaStep) /\ s = StepNames[rcaStep]
    OBVIOUS
  <2>2. /\ r \in Seq(Finding) /\ \A f \in ToSet(r) : f.step = s
        /\ rcaStep = 2 => Refs(About(ToSet(r))) = Ids(Related)
        /\ rcaStep = 3 => About(ToSet(r)) = RcaVerdicts
        /\ rcaStep = 4 =>
             /\ ToSet(r) = Attributed
             /\ \A j, k \in 1..Len(r) : j < k =>
                  \A c, d \in Suspects : c.id = r[j].ref /\ d.id = r[k].ref => NoMoreSuspect(d, c)
        /\ rcaStep = 5 => ToSet(r) # {}
        /\ rcaStep = 6 => Refs(ToSet(r)) = Recommended
    BY <1>1, <2>1, StepYields
  <2>3. findings' = findings \o r
    BY <1>6, <2>1
  <2>4. \A i \in rcaStep..6 : Yield(StepNames[i]) = {}
    BY <1>1 DEF ChainOK
  <2>5. Yield(s) = {}
    BY <1>1, <2>1, <2>4
  <2>6. /\ findings' \in Seq(Finding) /\ ToSet(findings') = ToSet(findings) \cup ToSet(r)
        /\ Yield(s)' = ToSet(r) /\ \A t : t # s => Yield(t)' = Yield(t)
    BY <1>1, <2>2, <2>3, <2>5, YieldIsAppended
  <2>7. \A i \in 1..6 : i # rcaStep => Yield(StepNames[i])' = Yield(StepNames[i])
    BY <1>1, <2>1, <2>6, StepNamesDiffer
  <2>8. /\ StepNames[2] = "hypothesize" /\ StepNames[3] = "verify" /\ StepNames[4] = "attribution"
        /\ StepNames[5] = "conclude" /\ StepNames[6] = "recommend"
    BY DEF StepNames
  <2>9. /\ \A i \in rcaStep'..6 : Yield(StepNames[i])' = {}
        /\ \A i \in 1..6 : i = rcaStep => Yield(StepNames[i])' = ToSet(r)
    <3>1. ASSUME NEW i \in rcaStep'..6
          PROVE  Yield(StepNames[i])' = {}
      <4>1. i \in 1..6 /\ i # rcaStep /\ i \in rcaStep..6
        BY <1>1, <1>6
      <4>2. QED
        BY <2>4, <2>7, <4>1
    <3>2. \A i \in 1..6 : i = rcaStep => Yield(StepNames[i])' = ToSet(r)
      BY <2>1, <2>6
    <3>3. QED
      BY <3>1, <3>2
  <2>10. SuspectsInOrder'
    <3>1. CASE rcaStep = 4
      <4>1. Yield("attribution") = {}
        BY <2>1, <2>5, <2>8, <3>1
      <4>2. QED
        BY <1>1, <2>2, <2>3, <3>1, <4>1, OrderBegins
    <3>2. CASE rcaStep # 4
      <4>1. s # "attribution"
        BY <1>1, <2>1, <2>8, <3>2, StepNamesDiffer
      <4>2. SuspectsInOrder /\ \A f \in ToSet(r) : f.step # "attribution"
        BY <1>1, <2>2, <4>1 DEF ChainOK
      <4>3. QED
        BY <1>1, <2>2, <2>3, <4>2, OrderStays
    <3>3. QED
      BY <3>1, <3>2
  <2>11. rcaStep' > 2 => Refs(About(Yield("hypothesize")'))  = Ids(Related)
    BY <1>1, <1>6, <2>2, <2>7, <2>8, <2>9 DEF ChainOK
  <2>12. rcaStep' > 3 => About(Yield("verify")') = RcaVerdicts
    BY <1>1, <1>6, <2>2, <2>7, <2>8, <2>9 DEF ChainOK
  <2>13. rcaStep' > 4 => Yield("attribution")' = Attributed
    BY <1>1, <1>6, <2>2, <2>7, <2>8, <2>9 DEF ChainOK
  <2>14. rcaStep' > 5 => (Yield("conclude")' # {}) = (summarizer = "answers")
    BY <1>1, <1>6, <2>2, <2>7, <2>8, <2>9 DEF ChainOK
  <2>15. rcaStep' > 6 => Refs(Yield("recommend")') = Recommended
    BY <1>1, <1>6, <2>2, <2>8, <2>9
  <2>16. ChainOK'
    BY <1>1, <1>3, <2>9, <2>10, <2>11, <2>12, <2>13, <2>14, <2>15 DEF ChainOK, Named
  <2>17. ReportOK'
    BY <1>1, <1>6, <2>6 DEF ReportOK
  <2>18. QED
    BY <1>1, <1>6, <2>6, <2>16, <2>17 DEF RcaInv
<1>7. QED
  BY <1>1, <1>2, <1>5, <1>6 DEF RunStep

LEMMA AnalysisTimesOutRcaInv == RcaInv /\ AnalysisTimesOut => RcaInv'
<1> SUFFICES ASSUME RcaInv, AnalysisTimesOut PROVE RcaInv'
  OBVIOUS
<1>1. ChainOK' /\ ReportOK'
  BY ChainStays DEF RcaInv, AnalysisTimesOut, ReportOK
<1>2. QED
  BY <1>1 DEF RcaInv, AnalysisTimesOut

(* What is cut is not more confident than what is kept.                    *)
LEMMA ReportRcaInv == RcaInv /\ Report => RcaInv'
<1> SUFFICES ASSUME RcaInv, Report PROVE RcaInv'
  OBVIOUS
<1>1. /\ findings \in Seq(Finding) /\ Len(findings) \in Nat /\ ChainOK /\ rcaStep = 7
      /\ outcome' = "reported" /\ UNCHANGED <<evidence, summarizer, rcaStep, findings>>
  BY DEF RcaInv, Report
<1>2. PICK q : q = Picked(TruncatedPlaces)
  OBVIOUS
<1>3. /\ report'.kept = q /\ report'.truncated = Len(findings) - Len(q)
      /\ report'.roots = {f.ref : f \in {g \in ToSet(findings) : g.step = "attribution" /\ g.conf = "high"}}
  BY <1>2 DEF Report
<1>4. \A k : k \in TruncatedPlaces <=>
        /\ k \in 1..Len(findings)
        /\ MaxFindings > 0 =>
             Cardinality({j \in DOMAIN findings : Better(j, k)}) < MaxFindings
  BY <1>1 DEF TruncatedPlaces
<1>5. /\ Len(q) = Cardinality(TruncatedPlaces)
      /\ Cardinality(TruncatedPlaces) \in Nat /\ Cardinality(TruncatedPlaces) <= Len(findings)
      /\ \A e : e \in ToSet(q) <=> \E k \in TruncatedPlaces : e = findings[k]
  <2>1. PICK P : P = TruncatedPlaces
    OBVIOUS
  <2>2. \A k \in P : k \in 1..Len(findings)
    BY <1>4, <2>1
  <2>3. q = Picked(P)
    BY <1>2, <2>1
  <2>4. /\ Len(q) = Cardinality(P)
        /\ Cardinality(P) \in Nat /\ Cardinality(P) <= Len(findings)
        /\ \A e : e \in ToSet(q) <=> \E k \in P : e = findings[k]
    BY <1>1, <2>2, <2>3, FindingsArePicked
  <2>5. QED
    BY <2>1, <2>4
<1>6. \A e : e \in ToSet(findings) <=> \E k \in 1..Len(findings) : e = findings[k]
  BY <1>1, Members
<1>7. ToSet(q) \subseteq ToSet(findings)
  BY <1>4, <1>5, <1>6
<1>8. Len(findings) - Len(q) \in Nat
  BY <1>1, <1>5
<1>9. ASSUME NEW g \in ToSet(findings) \ ToSet(q), NEW f \in ToSet(q)
      PROVE  ConfRank(g.conf) <= ConfRank(f.conf)
  <2>1. PICK k \in 1..Len(findings) : g = findings[k] /\ k \notin TruncatedPlaces
    BY <1>5, <1>6
  <2>2. PICK j \in TruncatedPlaces : f = findings[j]
    BY <1>5
  <2> DEFINE above(i) == {p \in DOMAIN findings : Better(p, i)}
  <2>3. MaxFindings \in Nat /\ MaxFindings > 0 /\ Cardinality(above(j)) < MaxFindings
          /\ ~(Cardinality(above(k)) < MaxFindings)
    BY <1>4, <2>1, <2>2, RcaAssumption
  <2>4. ConfRank(g.conf) \in Nat /\ ConfRank(f.conf) \in Nat
    BY ConfRanks
  <2> SUFFICES ASSUME ConfRank(g.conf) > ConfRank(f.conf)
               PROVE  FALSE
    BY <2>4
  <2>5. ASSUME NEW p \in DOMAIN findings, Better(p, k)
        PROVE  Better(p, j)
    <3>1. ConfRank(findings[p].conf) \in Nat
      BY ConfRanks
    <3>2. QED
      BY <2>1, <2>2, <2>4, <2>5, <3>1 DEF Better
  <2>6. above(k) \in SUBSET above(j)
    BY <2>5
  <2>7. above(j) \in SUBSET (1..Len(findings)) /\ IsFiniteSet(1..Len(findings))
    BY <1>1, UpTo
  <2> HIDE DEF above
  <2>8. IsFiniteSet(above(j))
    BY <2>7, FS_Subset
  <2>9. Cardinality(above(k)) <= Cardinality(above(j)) /\ IsFiniteSet(above(k))
    BY <2>6, <2>8, FS_Subset
  <2>10. Cardinality(above(k)) \in Nat /\ Cardinality(above(j)) \in Nat
    BY <2>8, <2>9, FS_CardinalityType
  <2>11. QED
    BY <2>3, <2>9, <2>10
<1>10. report'.roots = {f.ref : f \in {g \in Yield("attribution") : g.conf = "high"}}
  <2>1. {g \in ToSet(findings) : g.step = "attribution" /\ g.conf = "high"} =
          {g \in Yield("attribution") : g.conf = "high"}
    BY DEF Yield
  <2>2. QED
    BY <1>3, <2>1
<1>11. Yield("attribution")' = Yield("attribution")
  BY <1>1 DEF Yield
<1>12. ReportOK'
  BY <1>1, <1>3, <1>7, <1>8, <1>9, <1>10, <1>11 DEF ReportOK
<1>13. ChainOK'
  BY <1>1, ChainStays
<1>14. QED
  BY <1>1, <1>12, <1>13 DEF RcaInv

LEMMA RcaStutterInv == RcaInv /\ UNCHANGED rcaVars => RcaInv'
<1> SUFFICES ASSUME RcaInv, UNCHANGED rcaVars PROVE RcaInv'
  OBVIOUS
<1>1. ChainOK'
  BY ChainStays DEF RcaInv, rcaVars
<1>2. Yield("attribution")' = Yield("attribution")
  BY DEF Yield, rcaVars
<1>3. ReportOK'
  BY <1>2 DEF RcaInv, rcaVars, ReportOK
<1>4. QED
  BY <1>1, <1>3 DEF RcaInv, rcaVars

LEMMA RcaInvHolds == RcaSpec => []RcaInv
<1>1. RcaInv /\ [RcaNext]_rcaVars => RcaInv'
  BY RunStepRcaInv, AnalysisTimesOutRcaInv, ReportRcaInv, RcaStutterInv DEF RcaNext
<1>2. QED
  BY RcaInitInv, <1>1, PTL DEF RcaSpec

(* The analysis keeps to its types: findings are findings of its steps and *)
(* a report holds none that was not found.                                 *)
THEOREM RcaTypeCorrect == RcaSpec => []RcaTypeOK
<1>1. RcaInv => RcaTypeOK
  <2> SUFFICES ASSUME RcaInv PROVE RcaTypeOK
    OBVIOUS
  <2>1. ToSet(findings) \subseteq Finding
    BY Members DEF RcaInv
  <2>2. QED
    BY <2>1 DEF RcaInv, ReportOK, RcaTypeOK
<1>2. QED
  BY RcaInvHolds, <1>1, PTL

(* What is handed over of the eligible changes are the suspects.           *)
LEMMA EligibleAreSuspects ==
  ASSUME evidence \in RcaInputs
  PROVE  /\ \A c \in Eligible({"medium", "high"}) : Handed(c) \in Suspects
         /\ \A d \in Suspects : \E c \in Eligible({"medium", "high"}) : d = Handed(c)
         /\ \A c : Handed(c).id = c.id /\ Handed(c).conf = c.conf
         /\ \A c, d : LessSuspect(c, d) <=> NoMoreSuspect(Handed(c), Handed(d))
<1>1. \A c : /\ Handed(c).id = c.id /\ Handed(c).conf = c.conf
             /\ Handed(c).node = c.node /\ Handed(c).at = WholeSecond(c.at)
  BY DEF Handed
<1>2. \A c \in evidence.changes :
        c.at \in Int /\ WholeSecond(c.at) \in Int /\ WholeSecond(c.at) <= c.at
  BY RcaAssumption, SecondsAreWhole
<1>3. T0 \in Int /\ T0 - RcaWindow \in Int
  BY RcaAssumption
<1>4. ASSUME NEW c \in evidence.changes
      PROVE  c \in Eligible({"medium", "high"}) <=> c \in InWindow /\ Handed(c) \in Suspects
  <2>1. T0 - RcaWindow <= WholeSecond(c.at) /\ c.at <= T0 =>
          T0 - RcaWindow <= c.at /\ WholeSecond(c.at) <= T0
    BY <1>2, <1>3
  <2>2. c \in InWindow => Handed(c) \in Gathered
    BY GatheredAreHanded
  <2>3. c \in InWindow <=> T0 - RcaWindow <= c.at /\ c.at <= T0
    BY DEF InWindow
  <2>4. QED
    BY <1>1, <2>1, <2>2, <2>3 DEF Suspects, Eligible
<1>5. \A c \in Eligible({"medium", "high"}) : c \in evidence.changes
  BY DEF Eligible
<1>6. \A d \in Suspects : \E c \in InWindow : d = Handed(c)
  BY GatheredAreHanded DEF Suspects
<1>7. InWindow \subseteq evidence.changes
  BY DEF InWindow
<1>8. \A c, d : LessSuspect(c, d) <=> NoMoreSuspect(Handed(c), Handed(d))
  BY <1>1 DEF LessSuspect, NoMoreSuspect
<1>9. QED
  BY <1>1, <1>4, <1>5, <1>6, <1>7, <1>8

(* The root causes of a report are exactly the changes of a known alerted  *)
(* node, in the window as the steps see it in whole seconds (steps.go:237),*)
(* whose confidence is high; what is recommended is the most suspect       *)
(* change; there is a conclusion just when the model answered; and no      *)
(* finding is cut for a less confident one.                                *)
THEOREM RootCausesStayBacked == RcaSpec => []RootCausesAreBacked
<1>1. RcaInv => RootCausesAreBacked
  <2> SUFFICES ASSUME RcaInv, outcome = "reported" PROVE RootCausesAreBacked
    BY DEF RootCausesAreBacked
  <2> DEFINE E == Eligible({"medium", "high"})
  <2>1. ChainOK /\ ReportOK /\ rcaStep = 7 /\ evidence \in RcaInputs
    BY DEF RcaInv, ReportOK
  <2>2. Yield("attribution") = Attributed
    BY <2>1 DEF ChainOK
  <2>3. /\ \A c \in E : Handed(c) \in Suspects
        /\ \A d \in Suspects : \E c \in E : d = Handed(c)
        /\ \A c : Handed(c).id = c.id /\ Handed(c).conf = c.conf
        /\ \A c, d : LessSuspect(c, d) <=> NoMoreSuspect(Handed(c), Handed(d))
    BY <2>1, EligibleAreSuspects
  <2>4. \A c : c \in Eligible({"high"}) <=> c \in E /\ c.conf = "high"
    BY DEF Eligible
  <2> HIDE DEF E
  <2>5. report.roots = {c.id : c \in Eligible({"high"})}
    <3>1. \A i : i \in report.roots <=> \E f \in Attributed : f.conf = "high" /\ i = f.ref
      BY <2>1, <2>2 DEF ReportOK
    <3>2. \A i : (\E f \in Attributed : f.conf = "high" /\ i = f.ref) <=>
                   \E c \in Suspects : c.conf = "high" /\ i = c.id
      <4>1. CASE Suspects = {}
        <5>1. \A f \in Attributed : f.conf = "low"
          BY <4>1 DEF Attributed
        <5>2. QED
          BY <4>1, <5>1
      <4>2. CASE Suspects # {}
        <5>1. Attributed = {Candidate(c) : c \in Suspects}
          BY <4>2 DEF Attributed, Candidate
        <5>2. \A c : Candidate(c).conf = c.conf /\ Candidate(c).ref = c.id
          BY DEF Candidate
        <5>3. QED
          BY <5>1, <5>2
      <4>3. QED
        BY <4>1, <4>2
    <3>3. \A i : (\E c \in Suspects : c.conf = "high" /\ i = c.id) <=>
                   \E c \in E : c.conf = "high" /\ i = c.id
      BY <2>3
    <3>4. \A i : i \in report.roots <=> \E c \in Eligible({"high"}) : i = c.id
      BY <2>4, <3>1, <3>2, <3>3
    <3>5. report.roots = {f.ref : f \in {g \in Yield("attribution") : g.conf = "high"}}
      BY <2>1 DEF ReportOK
    <3>6. QED
      BY <3>4, <3>5
  <2>6. {f.ref : f \in {g \in ToSet(findings) : g.step = "recommend"}} =
          IF E = {} THEN {NoChange}
          ELSE {c.id : c \in {d \in E : \A e \in E : LessSuspect(e, d)}}
    <3>1. {f.ref : f \in {g \in ToSet(findings) : g.step = "recommend"}} = Recommended
      BY <2>1 DEF ChainOK, Named, Yield, Refs
    <3>2. E = {} <=> Suspects = {}
      BY <2>3
    <3>3. \A d \in E : (\A e \in E : LessSuspect(e, d)) <=> Handed(d) \in MostSuspect
      BY <2>3 DEF MostSuspect
    <3>4. \A d \in MostSuspect : \E c \in E : d = Handed(c)
      BY <2>3 DEF MostSuspect
    <3>5. Ids(MostSuspect) = {c.id : c \in {d \in E : \A e \in E : LessSuspect(e, d)}}
      BY <2>3, <3>3, <3>4 DEF Ids
    <3>6. QED
      BY <3>1, <3>2, <3>5 DEF Recommended
  <2>7. ({f.ref : f \in {g \in ToSet(findings) : g.step = "conclude"}} # {}) = (summarizer = "answers")
    <3>1. (Yield("conclude") # {}) = (summarizer = "answers")
      BY <2>1 DEF ChainOK
    <3>2. QED
      BY <3>1 DEF Yield
  <2>8. \A g \in ToSet(findings) \ ToSet(report.kept), f \in ToSet(report.kept) :
          ConfRank(g.conf) <= ConfRank(f.conf)
    BY <2>1 DEF ReportOK
  <2>9. QED
    BY <2>5, <2>6, <2>7, <2>8 DEF RootCausesAreBacked, E
<1>2. QED
  BY RcaInvHolds, <1>1, PTL

------------------------------------------------------------------------------
(* TimelinePaging: a page is computed from what the sources hold when it   *)
(* is asked for. Its cursor may skip rows (the run timeline_pages), but    *)
(* whatever it returns was written.                                        *)

(* Rows are told apart by their ids, which count upwards.                  *)
RowsDiffer ==
  /\ IsFiniteSet(written)
  /\ \A i \in written : i.id < Cardinality(written)
  /\ \A i, j \in written : i.id = j.id => i = j

Readings ==
  [offset : Nat, pages : {"none", "more", "end"}, read : Seq(written), first : SUBSET written,
   partial : BOOLEAN, domains : SUBSET SUBSET TimelineClusters]

TimelineInv ==
  /\ timelineNow \in Nat /\ written \subseteq Item
  /\ attached \subseteq TimelineClusters /\ inMemory \subseteq TimelineClusters
  /\ reading \in Readings
  /\ RowsDiffer

LEMMA TimelineInvIsTyped == TimelineInv => TimelineTypeOK
<1> SUFFICES ASSUME TimelineInv PROVE TimelineTypeOK
  OBVIOUS
<1>1. reading \in Readings
  BY DEF TimelineInv
<1>2. ToSet(reading.read) \subseteq written
  BY <1>1, Members DEF Readings
<1>3. QED
  BY <1>1, <1>2 DEF TimelineInv, TimelineTypeOK, Readings

(* The rows of a source are rows that were written.                        *)
LEMMA SourcesAreWritten == \A s : Rows(s) \subseteq written
BY DEF Rows, AlertRows, ChangeRows, ActionRows

(* The merged list has all its rows, since no two are equal in the order.  *)
LEMMA MergedIsWritten ==
  ASSUME TimelineInv, NEW S \in SUBSET written
  PROVE  \A s : s = Sorted(S, TimelineLess) => s \in Seq(written)
<1> DEFINE before == {p \in S \X S : TimelineLess(p[1], p[2])}
           n == Cardinality(S)
<1>1. IsFiniteSet(S) /\ n \in Nat
  BY FS_Subset, FS_CardinalityType DEF TimelineInv, RowsDiffer
<1>2. \A i \in S : i.ts \in Nat /\ i.id \in Nat /\ Rank(i.kind) \in Nat
  BY DEF TimelineInv, Item, Kinds, Rank
<1>3. \A i, j \in S : i.id = j.id => i = j
  BY DEF TimelineInv, RowsDiffer
<1>4. StrictOrder(before, S)
  <2>1. \A a \in S : ~TimelineLess(a, a)
    BY <1>2 DEF TimelineLess
  <2>2. \A a, b, c \in S : TimelineLess(a, b) /\ TimelineLess(b, c) => TimelineLess(a, c)
    BY <1>2 DEF TimelineLess
  <2>3. \A a, b \in S : a # b => TimelineLess(a, b) \/ TimelineLess(b, a)
    BY <1>2, <1>3 DEF TimelineLess
  <2>4. \A a, b \in S : <<a, b>> \in before <=> TimelineLess(a, b)
    OBVIOUS
  <2> HIDE DEF before
  <2>5. QED
    BY <2>1, <2>2, <2>3, <2>4 DEF StrictOrder
<1> HIDE DEF before
<1>5. ASSUME NEW k \in 1..Cardinality(S)
      PROVE  \E e \in S : Cardinality({f \in S : TimelineLess(f, e)}) = k - 1
  <2>1. PICK e \in S : Cardinality({f \in S : <<f, e>> \in before}) = k - 1
    BY <1>1, <1>4, PlacesAreTaken, Z3
  <2>2. {f \in S : <<f, e>> \in before} = {f \in S : TimelineLess(f, e)}
    BY DEF before
  <2>3. QED
    BY <2>1, <2>2
<1>6. SUFFICES ASSUME NEW s, s = Sorted(S, TimelineLess)
               PROVE  s \in Seq(written)
  OBVIOUS
<1>7. s = [k \in 1..n |-> CHOOSE e \in S : Cardinality({f \in S : TimelineLess(f, e)}) = k - 1]
  BY <1>6 DEF Sorted
<1>8. s \in [1..n -> written]
  BY <1>5, <1>7
<1>9. QED
  BY <1>1, <1>8

LEMMA TimelineInvInit == TimelineInit => TimelineInv
<1> SUFFICES ASSUME TimelineInit PROVE TimelineInv
  OBVIOUS
<1>1. RowsDiffer
  BY FS_EmptySet DEF TimelineInit, RowsDiffer
<1>2. QED
  BY <1>1 DEF TimelineInit, TimelineInv, NoReading, Readings

(* One more row, with the next id.                                         *)
LEMMA RowIsAdded ==
  ASSUME TimelineInv, NEW i \in Item, i.id = NextId, written' = written \cup {i}
  PROVE  /\ written' \subseteq Item /\ RowsDiffer' /\ written \subseteq written'
<1>1. i \notin written /\ Cardinality(written) \in Nat
  BY FS_CardinalityType DEF TimelineInv, RowsDiffer, NextId
<1>2. IsFiniteSet(written') /\ Cardinality(written') = Cardinality(written) + 1
  BY <1>1, FS_AddElement DEF TimelineInv, RowsDiffer
<1>3. \A j \in written : j.id \in Nat /\ j.id < NextId
  BY DEF TimelineInv, RowsDiffer, NextId, Item
<1>4. RowsDiffer'
  <2>1. \A j \in written' : j.id < Cardinality(written')
    BY <1>1, <1>2, <1>3 DEF NextId
  <2>2. \A j, k \in written' : j.id = k.id => j = k
    BY <1>1, <1>3 DEF TimelineInv, RowsDiffer, NextId
  <2>3. QED
    BY <1>2, <2>1, <2>2 DEF RowsDiffer
<1>5. QED
  BY <1>4 DEF TimelineInv

LEMMA ReadingStays ==
  ASSUME TimelineInv, written \subseteq written', UNCHANGED reading
  PROVE  reading' \in Readings'
<1>1. Seq(written) \subseteq Seq(written')
  OBVIOUS
<1>2. QED
  BY <1>1 DEF TimelineInv, Readings

LEMMA PageIsRead ==
  ASSUME TimelineInv, NEW failing \in SUBSET Sources, ReadPage(failing)
  PROVE  reading' \in Readings'
<1> DEFINE S == UNION {Rows(s) : s \in Sources \ failing}
           page == AssembleTimeline(failing, reading.offset)
           full == Sorted(S, TimelineLess)
<1>1. reading \in Readings /\ UNCHANGED written
  BY DEF TimelineInv, ReadPage
<1>2. full \in Seq(written)
  BY SourcesAreWritten, MergedIsWritten
<1>3. /\ page.items \in Seq(written) /\ page.next \in Nat /\ page.more \in BOOLEAN
      /\ page.partial \in BOOLEAN
  <2> DEFINE from == IF reading.offset > Len(full) THEN Len(full) ELSE reading.offset
             upto == IF from + TimelineLimit > Len(full) THEN Len(full) ELSE from + TimelineLimit
  <2>1. Len(full) \in Nat /\ reading.offset \in Nat
    BY <1>1, <1>2 DEF Readings
  <2>2. from \in Nat /\ upto \in Nat /\ upto <= Len(full)
    BY <2>1, TimelineAssumption
  <2>3. page.items = SubSeq(full, from + 1, upto) /\ page.next = upto
        /\ page.more = (upto < Len(full))
        /\ page.partial = (failing # {} \/ ("alert" \notin failing /\ Truncated))
    BY DEF AssembleTimeline
  <2> HIDE DEF full, from, upto
  <2>4. SubSeq(full, from + 1, upto) \in Seq(written)
    BY <1>2, <2>2
  <2> HIDE DEF page
  <2>5. QED
    BY <2>2, <2>3, <2>4
<1>4. /\ reading' = [offset |-> page.next,
                pages |-> IF page.more THEN "more" ELSE "end",
                read |-> reading.read \o page.items,
                first |-> IF reading.pages = "none" THEN UNION {Rows(s) : s \in Sources}
                          ELSE reading.first,
                partial |-> reading.partial \/ page.partial,
                domains |-> reading.domains \cup {attached \cap inMemory}]
  BY DEF ReadPage
<1>5. UNION {Rows(s) : s \in Sources} \subseteq written
  BY SourcesAreWritten
<1>6. reading.domains \cup {attached \cap inMemory} \in SUBSET SUBSET TimelineClusters
  BY <1>1 DEF TimelineInv, Readings
<1> HIDE DEF page
<1>7. reading.read \o page.items \in Seq(written)
  BY <1>1, <1>3 DEF Readings
<1>8. QED
  BY <1>1, <1>3, <1>4, <1>5, <1>6, <1>7 DEF Readings

LEMMA TimelineInvPreserved == TimelineInv /\ [TimelineNext]_timelineVars => TimelineInv'
<1> SUFFICES ASSUME TimelineInv, [TimelineNext]_timelineVars PROVE TimelineInv'
  OBVIOUS
<1>1. CASE TimePasses
  BY <1>1 DEF TimePasses, TimelineInv, RowsDiffer, Readings
<1>2. ASSUME NEW kind \in Kinds, NEW ts \in 0..MaxTimelineClock, NEW c \in TimelineClusters,
             RowIsWritten(kind, ts, c)
      PROVE  TimelineInv'
  <2> DEFINE i == [ts |-> ts, kind |-> kind, of |-> c, id |-> NextId]
  <2>1. i \in Item /\ i.id = NextId /\ written' = written \cup {i}
    BY <1>2, FS_CardinalityType, TimelineAssumption DEF RowIsWritten, Item, NextId, TimelineInv, RowsDiffer
  <2>2. written' \subseteq Item /\ RowsDiffer' /\ written \subseteq written'
    BY <2>1, RowIsAdded
  <2>3. QED
    BY <1>2, <2>2, ReadingStays DEF RowIsWritten, TimelineInv
<1>3. ASSUME NEW c \in TimelineClusters, ActionIsAudited(c)
      PROVE  TimelineInv'
  <2> DEFINE i == [ts |-> timelineNow, kind |-> "action", of |-> c, id |-> NextId]
  <2>1. i \in Item /\ i.id = NextId /\ written' = written \cup {i}
    BY <1>3, FS_CardinalityType DEF ActionIsAudited, Item, NextId, TimelineInv, RowsDiffer, Kinds
  <2>2. written' \subseteq Item /\ RowsDiffer' /\ written \subseteq written'
    BY <2>1, RowIsAdded
  <2>3. QED
    BY <1>3, <2>2, ReadingStays DEF ActionIsAudited, TimelineInv
<1>4. ASSUME NEW c \in TimelineClusters, MemoryChanges(c)
      PROVE  TimelineInv'
  BY <1>4 DEF MemoryChanges, TimelineInv, RowsDiffer, Readings
<1>5. ASSUME NEW failing \in SUBSET Sources, ReadPage(failing)
      PROVE  TimelineInv'
  BY <1>5, PageIsRead DEF ReadPage, TimelineInv, RowsDiffer
<1>6. CASE UNCHANGED timelineVars
  BY <1>6 DEF timelineVars, TimelineInv, RowsDiffer, Readings
<1>7. QED
  BY <1>1, <1>2, <1>3, <1>4, <1>5, <1>6 DEF TimelineNext

(* Type correctness of the timeline and its reader: a page holds only rows *)
(* that were written.                                                      *)
THEOREM TimelineTypeCorrect == TimelineSpec => []TimelineTypeOK
BY TimelineInvInit, TimelineInvPreserved, TimelineInvIsTyped, PTL DEF TimelineSpec
===============================================================================
