------------------------- MODULE IngestPipelineProofs -------------------------
(***************************************************************************)
(* Proofs about link A, for any number of rows, owners, attempts, series   *)
(* and generations: first the import queue by itself, the invariants the   *)
(* runs check and that it implements AtLeastOnce, then the pipeline of     *)
(* queue, handler and store.                                               *)
(*                                                                         *)
(* QInv is the inductive invariant of the queue: the checked invariants    *)
(* together with what they rest on, the locals of the workers.  Every step *)
(* of the pipeline is a step of the queue and a step of the store, or      *)
(* leaves them alone, so what is proved for the two holds here; PInv adds  *)
(* what ties the queue, the handler and the store together.                *)
(***************************************************************************)
EXTENDS IngestPipeline, TLAPS

------------------------------------------------------------------------------
(* IngestQueue                                                             *)

(* A worker's locals match the point of processBatch it is at.             *)
LocalsOK ==
  \A w \in Owners :
    /\ step[w] \in {"idle", "next", "down"} => cur[w] = NoRow
    /\ step[w] \in {"idle", "down"} => todo[w] = {}
    /\ step[w] \in {"processing", "ok", "failed"} =>
         cur[w] \in Rows /\ cur[w] \notin todo[w]

(* Rows are claimed only once inserted and only below the attempt limit.   *)
HeldOK ==
  \A w \in Owners : \A r \in Held(w) :
    status[r] # "absent" /\ seen[w][r] < MaxAttempts

FreshOK == \A r \in Rows : status[r] = "absent" => attempts[r] = 0

(* What a worker is about to write back, it has already done or reported.  *)
OutcomeOK ==
  \A w \in Owners :
    /\ step[w] = "ok" => handled[cur[w]]
    /\ step[w] = "failed" /\ DeadLetter(seen[w][cur[w]]) => report[cur[w]] # "none"

QInv ==
  /\ TypeOK
  /\ LocalsOK
  /\ HeldOK
  /\ FreshOK
  /\ OutcomeOK
  /\ HeldItemIsCurrent
  /\ UnstalledOwnerKeepsRows
  /\ DeadLettersReported

------------------------------------------------------------------------------
(* Arithmetic of the two durations: whatever the configuration, the lease  *)
(* exceeds the deadline of the batch by at least 30 seconds, and the       *)
(* deadline itself lies between 30 seconds and 10 minutes.                 *)
THEOREM LeaseOutlivesBatch ==
  ASSUME NEW batch \in Nat, NEW perItem \in Nat, NEW configured \in Nat
  PROVE  /\ BatchTimeoutFor(batch, perItem) \in 30..600
         /\ LeaseFor(configured, batch, perItem) >= BatchTimeoutFor(batch, perItem) + 30
         /\ LeaseFor(configured, batch, perItem) >= configured
<1> DEFINE d == batch * perItem
<1>1. d \in Nat
  OBVIOUS
<1> HIDE DEF d
<1>2. (IF d < 30 THEN 30 ELSE IF d > 600 THEN 600 ELSE d) \in 30..600
  BY <1>1
<1>3. QED
  BY <1>2 DEF BatchTimeoutFor, LeaseFor, d

------------------------------------------------------------------------------
LEMMA InitQInv == Init => QInv
<1> SUFFICES ASSUME Init PROVE QInv
  OBVIOUS
<1> USE QueueAssumption DEF Init, Held, NoRow, Rows, Unread
<1>1. TypeOK
  BY DEF TypeOK, Steps
<1>2. LocalsOK /\ HeldOK /\ FreshOK
  BY DEF LocalsOK, HeldOK, FreshOK
<1>3. OutcomeOK /\ HeldItemIsCurrent /\ UnstalledOwnerKeepsRows
  BY DEF OutcomeOK, HeldItemIsCurrent, UnstalledOwnerKeepsRows
<1>4. DeadLettersReported
  BY DEF DeadLettersReported
<1>5. QED
  BY <1>1, <1>2, <1>3, <1>4 DEF QInv
------------------------------------------------------------------------------
(* Each action preserves QInv.  Every lemma has one step per conjunct.     *)

LEMMA EnqueueQInv ==
  ASSUME QInv, NEW r \in Rows, NEW f \in Refs, Enqueue(r, f)
  PROVE  QInv'
<1> USE DEF QInv, Enqueue, table, workers, Held
<1>1. TypeOK'
  BY DEF TypeOK
<1>2. LocalsOK' /\ HeldOK' /\ FreshOK'
  BY DEF TypeOK, LocalsOK, HeldOK, FreshOK
<1>3. OutcomeOK' /\ DeadLettersReported' /\ UnstalledOwnerKeepsRows'
  BY DEF OutcomeOK, DeadLettersReported, UnstalledOwnerKeepsRows
<1>4. HeldItemIsCurrent'
  BY DEF TypeOK, HeldItemIsCurrent
<1>5. QED
  BY <1>1, <1>2, <1>3, <1>4

LEMMA ClaimQInv ==
  ASSUME QInv, NEW w \in Owners, Claim(w)
  PROVE  QInv'
<1> DEFINE S == Oldest(Claimable)
<1>1. /\ S \subseteq Rows
      /\ \A r \in S : /\ status[r] = "pending"
                      /\ attempts[r] < MaxAttempts
                      /\ lease[r] # "live"
  BY DEF Oldest, Claimable
<1>2. /\ step[w] = "idle"
      /\ lockedBy' = [r \in Rows |-> IF r \in S THEN w ELSE lockedBy[r]]
      /\ lease' = [r \in Rows |-> IF r \in S THEN "live" ELSE lease[r]]
      /\ todo' = [todo EXCEPT ![w] = S]
      /\ seen' = [seen EXCEPT ![w] = [r \in Rows |-> IF r \in S THEN attempts[r] ELSE 0]]
      /\ step' = [step EXCEPT ![w] = "next"]
      /\ UNCHANGED <<status, ref, attempts, cur, stalled, report, handled, faults>>
  BY DEF Claim, TakeLease
<1> HIDE DEF S
<1> USE DEF QInv
<1>3. TypeOK'
  BY <1>1, <1>2, QueueAssumption DEF TypeOK, Steps
<1>4. cur[w] = NoRow
  BY <1>2 DEF LocalsOK
<1>5. /\ \A v \in Owners \ {w} : Held(v)' = Held(v) /\ seen'[v] = seen[v]
      /\ Held(w)' = S
      /\ \A r \in S : seen'[w][r] = attempts[r]
  BY <1>1, <1>2, <1>4 DEF Held, TypeOK
<1>6. LocalsOK'
  BY <1>1, <1>2, <1>4 DEF LocalsOK, TypeOK
<1>7. HeldOK' /\ FreshOK'
  BY <1>1, <1>2, <1>5 DEF HeldOK, FreshOK, TypeOK
<1>8. OutcomeOK' /\ DeadLettersReported'
  BY <1>2 DEF OutcomeOK, DeadLettersReported, TypeOK
<1>9. \A v \in Owners : Held(v) \subseteq Rows
  BY DEF Held, TypeOK
<1>10. HeldItemIsCurrent'
  <2> SUFFICES ASSUME NEW v \in Owners, NEW r \in Held(v)', lockedBy'[r] = v
               PROVE  status'[r] = "pending" /\ seen'[v][r] = attempts'[r]
    BY DEF HeldItemIsCurrent
  <2>1. CASE v = w
    BY <2>1, <1>1, <1>2, <1>5
  <2>2. CASE v # w
    <3>1. r \in Held(v) /\ r \in Rows
      BY <2>2, <1>5, <1>9
    <3>2. r \notin S /\ lockedBy[r] = v
      BY <2>2, <3>1, <1>2
    <3>3. QED
      BY <2>2, <3>1, <3>2, <1>2, <1>5 DEF HeldItemIsCurrent
  <2>3. QED
    BY <2>1, <2>2
<1>11. UnstalledOwnerKeepsRows'
  <2> SUFFICES ASSUME NEW v \in Owners, ~stalled[v], NEW r \in Held(v)'
               PROVE  lockedBy'[r] = v /\ lease'[r] = "live"
    BY <1>2 DEF UnstalledOwnerKeepsRows
  <2>1. CASE v = w
    BY <2>1, <1>1, <1>2, <1>5
  <2>2. CASE v # w
    <3>1. r \in Held(v) /\ r \in Rows
      BY <2>2, <1>5, <1>9
    <3>2. r \notin S
      BY <3>1, <1>1 DEF UnstalledOwnerKeepsRows
    <3>3. QED
      BY <3>1, <3>2, <1>2 DEF UnstalledOwnerKeepsRows
  <2>3. QED
    BY <2>1, <2>2
<1>12. QED
  BY <1>3, <1>6, <1>7, <1>8, <1>10, <1>11

LEMMA ClaimLostQInv ==
  ASSUME QInv, NEW w \in Owners, ClaimLost(w)
  PROVE  QInv'
<1> DEFINE S == Oldest(Claimable)
<1>1. /\ S \subseteq Rows
      /\ \A r \in S : lease[r] # "live"
  BY DEF Oldest, Claimable
<1>2. /\ step[w] = "idle"
      /\ lockedBy' = [r \in Rows |-> IF r \in S THEN w ELSE lockedBy[r]]
      /\ lease' = [r \in Rows |-> IF r \in S THEN "live" ELSE lease[r]]
      /\ faults < MaxFaults /\ faults' = faults + 1
      /\ UNCHANGED <<status, ref, attempts, report, handled, workers>>
  BY DEF ClaimLost, TakeLease, Fault
<1> HIDE DEF S
<1> USE DEF QInv, workers
<1>3. TypeOK'
  BY <1>1, <1>2, QueueAssumption DEF TypeOK, Steps
<1>4. LocalsOK' /\ FreshOK' /\ OutcomeOK' /\ DeadLettersReported'
  BY <1>2 DEF LocalsOK, FreshOK, OutcomeOK, DeadLettersReported
<1>5. /\ Held(w) = {}
      /\ \A v \in Owners : Held(v)' = Held(v) /\ Held(v) \subseteq Rows
  BY <1>2 DEF Held, LocalsOK, TypeOK
<1>6. HeldOK'
  BY <1>2, <1>5 DEF HeldOK
<1>7. HeldItemIsCurrent'
  <2> SUFFICES ASSUME NEW v \in Owners, NEW r \in Held(v), lockedBy'[r] = v
               PROVE  status[r] = "pending" /\ seen[v][r] = attempts[r]
    BY <1>2, <1>5 DEF HeldItemIsCurrent
  <2>1. v # w /\ r \in Rows
    BY <1>5
  <2>2. lockedBy[r] = v
    BY <2>1, <1>2
  <2>3. QED
    BY <2>2 DEF HeldItemIsCurrent
<1>8. UnstalledOwnerKeepsRows'
  <2> SUFFICES ASSUME NEW v \in Owners, ~stalled[v], NEW r \in Held(v)
               PROVE  lockedBy'[r] = v /\ lease'[r] = "live"
    BY <1>2, <1>5 DEF UnstalledOwnerKeepsRows
  <2>1. r \in Rows /\ r \notin S
    BY <1>1, <1>5 DEF UnstalledOwnerKeepsRows
  <2>2. QED
    BY <2>1, <1>2 DEF UnstalledOwnerKeepsRows
<1>9. QED
  BY <1>3, <1>4, <1>6, <1>7, <1>8

LEMMA LeaseExpiresQInv ==
  ASSUME QInv, NEW r \in Rows, LeaseExpires(r)
  PROVE  QInv'
<1> USE DEF QInv, LeaseExpires, workers
<1>1. TypeOK'
  BY DEF TypeOK
<1>2. /\ LocalsOK' /\ HeldOK' /\ FreshOK' /\ OutcomeOK' /\ DeadLettersReported'
      /\ HeldItemIsCurrent'
  BY DEF LocalsOK, HeldOK, FreshOK, OutcomeOK, DeadLettersReported, HeldItemIsCurrent, Held
<1>3. UnstalledOwnerKeepsRows'
  BY DEF TypeOK, UnstalledOwnerKeepsRows, Held
<1>4. QED
  BY <1>1, <1>2, <1>3

LEMMA BeginQInv ==
  ASSUME QInv, NEW w \in Owners, NEW r \in Rows, Begin(w, r)
  PROVE  QInv'
<1> USE DEF QInv, Begin, table
<1>1. TypeOK'
  BY DEF TypeOK, Steps
<1>2. LocalsOK'
  BY DEF LocalsOK, TypeOK, NoRow, Rows
<1>3. \A v \in Owners : Held(v)' = Held(v)
  BY DEF Held, LocalsOK, TypeOK, NoRow, Rows
<1>4. HeldOK' /\ HeldItemIsCurrent' /\ UnstalledOwnerKeepsRows'
  BY <1>3 DEF HeldOK, HeldItemIsCurrent, UnstalledOwnerKeepsRows
<1>5. FreshOK' /\ OutcomeOK' /\ DeadLettersReported'
  BY DEF FreshOK, OutcomeOK, DeadLettersReported, TypeOK
<1>6. QED
  BY <1>1, <1>2, <1>4, <1>5

LEMMA SucceedQInv ==
  ASSUME QInv, NEW w \in Owners, Succeed(w)
  PROVE  QInv'
<1> USE DEF QInv, Succeed, table
<1>1. cur[w] \in Rows
  BY DEF LocalsOK
<1>2. TypeOK'
  BY <1>1 DEF TypeOK, Steps
<1>3. LocalsOK'
  BY DEF LocalsOK, TypeOK
<1>4. HeldOK' /\ HeldItemIsCurrent' /\ UnstalledOwnerKeepsRows'
  BY DEF Held, HeldOK, HeldItemIsCurrent, UnstalledOwnerKeepsRows
<1>5. FreshOK' /\ DeadLettersReported'
  BY DEF FreshOK, DeadLettersReported
<1>6. OutcomeOK'
  BY <1>1 DEF OutcomeOK, TypeOK
<1>7. QED
  BY <1>2, <1>3, <1>4, <1>5, <1>6

LEMMA FailQInv ==
  ASSUME QInv, NEW w \in Owners, Fail(w)
  PROVE  QInv'
<1> USE DEF QInv, Fail, table
<1>1. cur[w] \in Rows
  BY DEF LocalsOK
<1>2. /\ report' \in [Rows -> {"none", "lost", "stored"}]
      /\ \A r \in Rows : report[r] # "none" => report'[r] # "none"
      /\ DeadLetter(seen[w][cur[w]]) => report'[cur[w]] # "none"
  <2>1. CASE DeadLetter(seen[w][cur[w]])
    <3>1. /\ report \in [Rows -> {"none", "lost", "stored"}]
          /\ \/ report' = [report EXCEPT ![cur[w]] = "stored"]
             \/ report' = [report EXCEPT ![cur[w]] = IF @ = "stored" THEN @ ELSE "lost"]
      BY <2>1 DEF Append, TypeOK
    <3> QED BY <1>1, <3>1
  <2>2. CASE ~DeadLetter(seen[w][cur[w]])
    BY <2>2 DEF TypeOK
  <2> QED BY <2>1, <2>2
<1>3. faults' \in 0..MaxFaults
  <2>1. faults \in 0..MaxFaults /\ MaxFaults \in Nat
    BY QueueAssumption DEF TypeOK
  <2>2. faults' = faults \/ Fault
    BY DEF Append
  <2> QED BY <2>1, <2>2 DEF Fault
<1>4. TypeOK'
  BY <1>1, <1>2, <1>3 DEF TypeOK, Steps
<1>5. LocalsOK'
  BY DEF LocalsOK, TypeOK
<1>6. HeldOK' /\ HeldItemIsCurrent' /\ UnstalledOwnerKeepsRows'
  BY DEF Held, HeldOK, HeldItemIsCurrent, UnstalledOwnerKeepsRows
<1>7. FreshOK' /\ DeadLettersReported'
  BY <1>2 DEF FreshOK, DeadLettersReported, TypeOK
<1>8. OutcomeOK'
  <2>1. ASSUME NEW v \in Owners, step'[v] = "ok" PROVE handled'[cur'[v]]
    BY <2>1 DEF OutcomeOK, TypeOK
  <2>2. ASSUME NEW v \in Owners, step'[v] = "failed", DeadLetter(seen'[v][cur'[v]])
        PROVE  report'[cur'[v]] # "none"
    <3>1. CASE v = w BY <1>2, <2>2, <3>1
    <3>2. CASE v # w
      <4>1. step[v] = "failed" BY <2>2, <3>2 DEF TypeOK
      <4>2. cur[v] \in Rows /\ report[cur[v]] # "none"
        BY <2>2, <4>1 DEF OutcomeOK, LocalsOK
      <4> QED BY <1>2, <4>2
    <3> QED BY <3>1, <3>2
  <2> QED BY <2>1, <2>2 DEF OutcomeOK
<1>9. QED
  BY <1>4, <1>5, <1>6, <1>7, <1>8

------------------------------------------------------------------------------
(* A write-back either leaves the table as it is, or settles one row that  *)
(* is pending, with the attempt count the worker was handed.               *)

Outcome(w, r) ==
  \/ /\ step[w] = "ok"
     /\ status' = [status EXCEPT ![r] = "done"]
     /\ attempts' = attempts
  \/ /\ step[w] = "failed"
     /\ status' = status
     /\ attempts' = [attempts EXCEPT ![r] = @ + 1]

LEMMA WriteOutcomeEffect ==
  ASSUME QInv, NEW w \in Owners, WriteOutcome(w), ~UNCHANGED table
  PROVE  /\ cur[w] \in Rows
         /\ lockedBy[cur[w]] = w
         /\ status[cur[w]] = "pending"
         /\ attempts[cur[w]] = seen[w][cur[w]]
         /\ attempts[cur[w]] < MaxAttempts
         /\ Outcome(w, cur[w])
         /\ Unlock(cur[w])
         /\ ref' = ref
<1>1. /\ step[w] \in {"ok", "failed"}
      /\ lockedBy[cur[w]] = w
      /\ Outcome(w, cur[w])
      /\ Unlock(cur[w])
      /\ ref' = ref
  BY DEF WriteOutcome, WriteDone, WriteFailure, Owns, Outcome
<1>2. cur[w] \in Rows /\ cur[w] \in Held(w)
  BY <1>1 DEF QInv, LocalsOK, Held, NoRow, Rows
<1>3. QED
  BY <1>1, <1>2 DEF QInv, HeldItemIsCurrent, HeldOK

(* What a write-back leaves true of the table and of the other workers,    *)
(* whichever way the batch goes on.                                        *)
LEMMA WriteOutcomeTable ==
  ASSUME QInv, NEW w \in Owners, WriteOutcome(w) \/ UNCHANGED table,
         UNCHANGED <<report, handled>>, seen' \in [Owners -> [Rows -> 0..MaxAttempts]],
         step[w] \in {"ok", "failed"},
         NEW v \in Owners, NEW r \in Rows
  PROVE  /\ /\ status' \in [Rows -> {"absent", "pending", "done", "purged"}]
            /\ ref' \in [Rows -> Refs \cup {NoRef}]
            /\ attempts' \in [Rows -> 0..MaxAttempts]
            /\ lockedBy' \in [Rows -> Owners \cup {NoOwner}]
            /\ lease' \in [Rows -> {"none", "live", "expired"}]
         /\ status[r] # "absent" => status'[r] # "absent"
         /\ status'[r] = "absent" => attempts'[r] = 0
         /\ attempts'[r] = MaxAttempts => report'[r] # "none"
         /\ lockedBy'[r] = v =>
              lockedBy[r] = v /\ status'[r] = status[r] /\ attempts'[r] = attempts[r]
         /\ lockedBy[r] = v /\ (v # w \/ r # cur[w]) =>
              lockedBy'[r] = v /\ lease'[r] = lease[r]
<1>1. CASE UNCHANGED table
  BY <1>1 DEF QInv, TypeOK, FreshOK, DeadLettersReported, table
<1>2. CASE ~UNCHANGED table
  <2> DEFINE c == cur[w]
  <2>1. /\ c \in Rows
        /\ lockedBy[c] = w
        /\ status[c] = "pending"
        /\ attempts[c] = seen[w][c]
        /\ attempts[c] < MaxAttempts
        /\ Outcome(w, c)
        /\ lockedBy' = [lockedBy EXCEPT ![c] = NoOwner]
        /\ lease' = [lease EXCEPT ![c] = "none"]
        /\ ref' = ref
    BY <1>2, WriteOutcomeEffect DEF Unlock
  <2>2. step[w] = "failed" /\ attempts[c] + 1 >= MaxAttempts => report[c] # "none"
    BY <2>1 DEF QInv, OutcomeOK, DeadLetter
  <2> HIDE DEF c
  <2>3. NoOwner \notin Owners /\ MaxAttempts \in Nat
    BY QueueAssumption
  <2>4. CASE step[w] = "ok"
    BY <2>1, <2>3, <2>4 DEF QInv, TypeOK, FreshOK, DeadLettersReported, Outcome, c
  <2>5. CASE step[w] = "failed"
    <3>1. /\ status' = status
          /\ attempts' = [attempts EXCEPT ![c] = @ + 1]
      BY <2>1, <2>5 DEF Outcome
    <3>2. attempts' \in [Rows -> 0..MaxAttempts]
      BY <2>1, <2>3, <3>1 DEF QInv, TypeOK
    <3>3. attempts'[r] = MaxAttempts => report'[r] # "none"
      BY <2>1, <2>2, <2>3, <2>5, <3>1 DEF QInv, TypeOK, DeadLettersReported
    <3>4. QED
      BY <2>1, <2>3, <3>1, <3>2, <3>3 DEF QInv, TypeOK, FreshOK, c
  <2>6. QED
    BY <2>4, <2>5
<1>3. QED
  BY <1>1, <1>2

(* Locals after the worker moves on to its next item or gives up its batch.*)
LEMMA ReturnLocals ==
  ASSUME QInv, NEW w \in Owners, NEW to \in {"idle", "down"}, Return(w, to)
  PROVE  /\ step' \in [Owners -> Steps]
         /\ cur' \in [Owners -> Rows \cup {NoRow}]
         /\ todo' \in [Owners -> SUBSET Rows]
         /\ seen' \in [Owners -> [Rows -> 0..MaxAttempts]]
         /\ stalled' \in [Owners -> BOOLEAN]
         /\ LocalsOK'
         /\ Held(w)' = {}
         /\ \A v \in Owners \ {w} :
              /\ Held(v)' = Held(v) /\ seen'[v] = seen[v] /\ stalled'[v] = stalled[v]
              /\ step'[v] = step[v] /\ cur'[v] = cur[v]
<1> USE QueueAssumption DEF QInv, Return, Unread, NoRow, Rows
<1>1. /\ step' \in [Owners -> Steps] /\ cur' \in [Owners -> Rows \cup {NoRow}]
      /\ todo' \in [Owners -> SUBSET Rows] /\ stalled' \in [Owners -> BOOLEAN]
      /\ seen' \in [Owners -> [Rows -> 0..MaxAttempts]]
  BY DEF TypeOK, Steps
<1>2. LocalsOK'
  BY DEF LocalsOK, TypeOK
<1>3. /\ Held(w)' = {}
      /\ \A v \in Owners \ {w} :
              /\ Held(v)' = Held(v) /\ seen'[v] = seen[v] /\ stalled'[v] = stalled[v]
              /\ step'[v] = step[v] /\ cur'[v] = cur[v]
  BY DEF TypeOK, Held
<1>4. QED
  BY <1>1, <1>2, <1>3

LEMMA NextItemLocals ==
  ASSUME QInv, NEW w \in Owners, NextItem(w), step[w] \in {"ok", "failed"}
  PROVE  /\ step' \in [Owners -> Steps]
         /\ cur' \in [Owners -> Rows \cup {NoRow}]
         /\ todo' \in [Owners -> SUBSET Rows]
         /\ seen' \in [Owners -> [Rows -> 0..MaxAttempts]]
         /\ stalled' \in [Owners -> BOOLEAN]
         /\ LocalsOK'
         /\ step'[w] \notin {"ok", "failed"}
         /\ \A r \in Held(w)' : /\ r \in Held(w) /\ r # cur[w] /\ seen'[w] = seen[w]
                                /\ stalled'[w] = stalled[w]
         /\ \A v \in Owners \ {w} :
              /\ Held(v)' = Held(v) /\ seen'[v] = seen[v] /\ stalled'[v] = stalled[v]
              /\ step'[v] = step[v] /\ cur'[v] = cur[v]
<1>1. CASE todo[w] = {}
  <2>1. Return(w, "idle") /\ step'[w] = "idle"
    BY <1>1 DEF NextItem, Return, QInv, TypeOK
  <2>2. QED
    BY <2>1, ReturnLocals
<1>2. CASE todo[w] # {}
  <2> USE DEF QInv, NoRow, Rows
  <2>1. /\ step' = [step EXCEPT ![w] = "next"]
        /\ cur' = [cur EXCEPT ![w] = NoRow]
        /\ UNCHANGED <<todo, seen, stalled>>
    BY <1>2 DEF NextItem
  <2>2. /\ step' \in [Owners -> Steps] /\ cur' \in [Owners -> Rows \cup {NoRow}]
        /\ todo' \in [Owners -> SUBSET Rows] /\ stalled' \in [Owners -> BOOLEAN]
        /\ seen' \in [Owners -> [Rows -> 0..MaxAttempts]]
    BY <2>1 DEF TypeOK, Steps
  <2>3. LocalsOK'
    BY <2>1 DEF LocalsOK, TypeOK
  <2>4. /\ step'[w] \notin {"ok", "failed"}
        /\ \A r \in Held(w)' : /\ r \in Held(w) /\ r # cur[w] /\ seen'[w] = seen[w]
                               /\ stalled'[w] = stalled[w]
    BY <2>1 DEF TypeOK, LocalsOK, Held
  <2>5. \A v \in Owners \ {w} :
              /\ Held(v)' = Held(v) /\ seen'[v] = seen[v] /\ stalled'[v] = stalled[v]
              /\ step'[v] = step[v] /\ cur'[v] = cur[v]
    BY <2>1 DEF TypeOK, Held
  <2>6. QED
    BY <2>2, <2>3, <2>4, <2>5
<1>3. QED
  BY <1>1, <1>2

(* Both ways of ending an item preserve the invariant.                     *)
LEMMA EndItemQInv ==
  ASSUME QInv, NEW w \in Owners, step[w] \in {"ok", "failed"},
         WriteOutcome(w) \/ UNCHANGED table,
         NextItem(w) \/ Return(w, "idle"),
         UNCHANGED <<report, handled>>, faults' \in 0..MaxFaults
  PROVE  QInv'
<1>1. /\ step' \in [Owners -> Steps]
      /\ cur' \in [Owners -> Rows \cup {NoRow}]
      /\ todo' \in [Owners -> SUBSET Rows]
      /\ seen' \in [Owners -> [Rows -> 0..MaxAttempts]]
      /\ stalled' \in [Owners -> BOOLEAN]
      /\ LocalsOK'
      /\ step'[w] \notin {"ok", "failed"}
      /\ \A r \in Held(w)' : /\ r \in Held(w) /\ r # cur[w] /\ seen'[w] = seen[w]
                             /\ stalled'[w] = stalled[w]
      /\ \A v \in Owners \ {w} :
            /\ Held(v)' = Held(v) /\ seen'[v] = seen[v] /\ stalled'[v] = stalled[v]
            /\ step'[v] = step[v] /\ cur'[v] = cur[v]
  <2>1. CASE NextItem(w)
    BY <2>1, NextItemLocals
  <2>2. CASE Return(w, "idle")
    <3>1. step'[w] = "idle"
      BY <2>2 DEF Return, QInv, TypeOK
    <3>2. QED
      BY <2>2, <3>1, ReturnLocals
  <2>3. QED
    BY <2>1, <2>2
<1>2. \A v \in Owners, r \in Rows :
         /\ /\ status' \in [Rows -> {"absent", "pending", "done", "purged"}]
            /\ ref' \in [Rows -> Refs \cup {NoRef}]
            /\ attempts' \in [Rows -> 0..MaxAttempts]
            /\ lockedBy' \in [Rows -> Owners \cup {NoOwner}]
            /\ lease' \in [Rows -> {"none", "live", "expired"}]
         /\ status[r] # "absent" => status'[r] # "absent"
         /\ status'[r] = "absent" => attempts'[r] = 0
         /\ attempts'[r] = MaxAttempts => report'[r] # "none"
         /\ lockedBy'[r] = v =>
              lockedBy[r] = v /\ status'[r] = status[r] /\ attempts'[r] = attempts[r]
         /\ lockedBy[r] = v /\ (v # w \/ r # cur[w]) =>
              lockedBy'[r] = v /\ lease'[r] = lease[r]
  BY <1>1, WriteOutcomeTable
<1>3. \A v \in Owners : \A r \in Held(v)' :
         /\ r \in Rows /\ r \in Held(v) /\ seen'[v] = seen[v] /\ stalled'[v] = stalled[v]
         /\ v # w \/ r # cur[w]
  BY <1>1 DEF Held, QInv, TypeOK
<1>4. TypeOK'
  <2>1. CASE Rows = {}
    <3>1. cur[w] \in Rows
      BY DEF QInv, LocalsOK
    <3>2. QED
      BY <2>1, <3>1
  <2>2. CASE Rows # {}
    BY <2>2, <1>1, <1>2 DEF QInv, TypeOK
  <2>3. QED
    BY <2>1, <2>2
<1>5. HeldOK' /\ FreshOK' /\ DeadLettersReported'
  BY <1>2, <1>3 DEF QInv, HeldOK, FreshOK, DeadLettersReported
<1>6. OutcomeOK'
  BY <1>1 DEF QInv, OutcomeOK
<1>7. HeldItemIsCurrent'
  BY <1>2, <1>3 DEF QInv, HeldItemIsCurrent
<1>8. UnstalledOwnerKeepsRows'
  BY <1>2, <1>3 DEF QInv, UnstalledOwnerKeepsRows
<1>9. QED
  BY <1>1, <1>4, <1>5, <1>6, <1>7, <1>8 DEF QInv

LEMMA WriteBackQInv ==
  ASSUME QInv, NEW w \in Owners, WriteBack(w) \/ WriteBackError(w)
  PROVE  QInv'
<1>1. /\ step[w] \in {"ok", "failed"}
      /\ WriteOutcome(w) \/ UNCHANGED table
      /\ NextItem(w) \/ Return(w, "idle")
      /\ UNCHANGED <<report, handled>>
  BY DEF WriteBack, WriteBackError, WriteOutcome
<1>2. faults' \in 0..MaxFaults
  BY QueueAssumption DEF WriteBack, WriteBackError, Fault, QInv, TypeOK
<1>3. QED
  BY <1>1, <1>2, EndItemQInv

LEMMA StallQInv ==
  ASSUME QInv, NEW w \in Owners, Stall(w)
  PROVE  QInv'
<1> USE DEF QInv, Stall, table
<1>1. TypeOK'
  BY QueueAssumption DEF TypeOK, Fault
<1>2. /\ LocalsOK' /\ HeldOK' /\ FreshOK' /\ OutcomeOK' /\ DeadLettersReported'
      /\ HeldItemIsCurrent'
  BY DEF LocalsOK, HeldOK, FreshOK, OutcomeOK, DeadLettersReported, HeldItemIsCurrent, Held
<1>3. UnstalledOwnerKeepsRows'
  BY DEF TypeOK, UnstalledOwnerKeepsRows, Held
<1>4. QED
  BY <1>1, <1>2, <1>3

LEMMA CrashQInv ==
  ASSUME QInv, NEW w \in Owners, Crash(w)
  PROVE  QInv'
<1>1. Return(w, "down") /\ UNCHANGED <<table, report, handled, faults>>
  BY DEF Crash
<1>2. /\ step' \in [Owners -> Steps]
      /\ cur' \in [Owners -> Rows \cup {NoRow}]
      /\ todo' \in [Owners -> SUBSET Rows]
      /\ seen' \in [Owners -> [Rows -> 0..MaxAttempts]]
      /\ stalled' \in [Owners -> BOOLEAN]
      /\ LocalsOK'
      /\ Held(w)' = {}
      /\ \A v \in Owners \ {w} :
            /\ Held(v)' = Held(v) /\ seen'[v] = seen[v] /\ stalled'[v] = stalled[v]
            /\ step'[v] = step[v] /\ cur'[v] = cur[v]
  BY <1>1, ReturnLocals
<1>3. step'[w] = "down"
  BY <1>1 DEF Return, QInv, TypeOK
<1>4. TypeOK' /\ FreshOK' /\ DeadLettersReported'
  BY <1>1, <1>2 DEF QInv, TypeOK, FreshOK, DeadLettersReported, table
<1>5. HeldOK' /\ HeldItemIsCurrent' /\ UnstalledOwnerKeepsRows'
  BY <1>1, <1>2 DEF QInv, HeldOK, HeldItemIsCurrent, UnstalledOwnerKeepsRows, table
<1>6. OutcomeOK'
  BY <1>1, <1>2, <1>3 DEF QInv, OutcomeOK
<1>7. QED
  BY <1>2, <1>4, <1>5, <1>6 DEF QInv

LEMMA SweepDeadLetterQInv ==
  ASSUME QInv, NEW r \in Rows, SweepDeadLetter(r)
  PROVE  QInv'
<1> USE DEF QInv, SweepDeadLetter, Unlock, workers
<1>1. TypeOK'
  BY DEF TypeOK
<1>2. LocalsOK' /\ FreshOK' /\ OutcomeOK' /\ DeadLettersReported'
  BY DEF LocalsOK, FreshOK, OutcomeOK, DeadLettersReported, TypeOK
<1>3. \A v \in Owners : Held(v)' = Held(v) /\ Held(v) \subseteq Rows
  BY DEF Held, TypeOK
<1>4. HeldOK'
  BY <1>3 DEF HeldOK, TypeOK
<1>5. HeldItemIsCurrent'
  BY <1>3, QueueAssumption DEF HeldItemIsCurrent, TypeOK
<1>6. UnstalledOwnerKeepsRows'
  <2>1. \A v \in Owners : ~stalled[v] => r \notin Held(v)
    BY QueueAssumption
       DEF UnstalledOwnerKeepsRows, HeldItemIsCurrent, HeldOK, TypeOK
  <2>2. QED
    BY <1>3, <2>1 DEF UnstalledOwnerKeepsRows, TypeOK
<1>7. QED
  BY <1>1, <1>2, <1>4, <1>5, <1>6

LEMMA NextQInv == QInv /\ [Next]_qvars => QInv'
<1> SUFFICES ASSUME QInv, [Next]_qvars PROVE QInv'
  OBVIOUS
<1>1. CASE Next
  BY <1>1, EnqueueQInv, BeginQInv, ClaimQInv, ClaimLostQInv, SucceedQInv, FailQInv,
     WriteBackQInv, StallQInv, CrashQInv, LeaseExpiresQInv, SweepDeadLetterQInv DEF Next
<1>2. CASE UNCHANGED qvars
  BY <1>2 DEF qvars, table, workers, QInv, TypeOK, LocalsOK, HeldOK, FreshOK, OutcomeOK,
     HeldItemIsCurrent, UnstalledOwnerKeepsRows, DeadLettersReported, Held
<1>3. QED
  BY <1>1, <1>2

------------------------------------------------------------------------------
(* The queue's invariant, for every instance of the constants.             *)
LEMMA QueueInvariant == Spec => []QInv
<1>1. QED
  BY InitQInv, NextQInv, PTL DEF Spec

(* Type correctness of the table and of the workers' locals.               *)
THEOREM TypeCorrect == Spec => []TypeOK
<1>1. QInv => TypeOK
  BY DEF QInv
<1>2. QED
  BY <1>1, QueueInvariant, PTL

(* No lost update on a row: whenever a write-back lands, the row is as its *)
(* worker claimed it (ingest_queue.go, the locked_by condition).           *)
THEOREM HeldItemsAreCurrent == Spec => []HeldItemIsCurrent
<1>1. QInv => HeldItemIsCurrent
  BY DEF QInv
<1>2. QED
  BY <1>1, QueueInvariant, PTL

(* The lease does its work: no row of a worker that was not held up beyond *)
(* its lease is ever taken over.                                           *)
THEOREM UnstalledOwnersKeepTheirRows == Spec => []UnstalledOwnerKeepsRows
<1>1. QInv => UnstalledOwnerKeepsRows
  BY DEF QInv
<1>2. QED
  BY <1>1, QueueInvariant, PTL

(* No message is given up without being reported to the audit.             *)
THEOREM DeadLettersAreReported == Spec => []DeadLettersReported
<1>1. QInv => DeadLettersReported
  BY DEF QInv
<1>2. QED
  BY <1>1, QueueInvariant, PTL

------------------------------------------------------------------------------
(* Refinement: each step is a step of AtLeastOnce or leaves it alone.      *)

(* The refinement mapping of the abstract variable phase.                  *)
absphase == [r \in Rows |-> Phase(r)]

LEMMA InitRefines == Init => Abstract!Init
BY QueueAssumption DEF Init, Abstract!Init, Phase

LEMMA EnqueueRefines ==
  ASSUME QInv, NEW r \in Rows, NEW f \in Refs, Enqueue(r, f)
  PROVE  Abstract!Accept(r)
<1>1. attempts[r] = 0 /\ MaxAttempts \in Nat \ {0} /\ Phase(r) = "absent"
  BY QueueAssumption DEF QInv, FreshOK, Enqueue, Phase
<1>2. \A q \in Rows : Phase(q)' = IF q = r THEN "pending" ELSE Phase(q)
  BY <1>1 DEF QInv, TypeOK, Enqueue, Phase
<1>3. QED
  BY <1>1, <1>2 DEF Abstract!Accept, Abstract!Move, Enqueue, absphase

LEMMA SucceedRefines ==
  ASSUME QInv, NEW w \in Owners, Succeed(w)
  PROVE  Abstract!Next
<1>1. cur[w] \in Rows /\ cur[w] \in Held(w)
  BY DEF QInv, LocalsOK, Held, Succeed, NoRow, Rows
<1>2. Phase(cur[w]) # "absent" /\ absphase' = absphase
  BY <1>1 DEF QInv, HeldOK, Phase, absphase, Succeed, table
<1>3. Abstract!Handle(cur[w])
  BY <1>1, <1>2 DEF Abstract!Handle, Succeed, absphase
<1>4. QED
  BY <1>1, <1>3 DEF Abstract!Next

LEMMA WriteOutcomeRefines ==
  ASSUME QInv, NEW w \in Owners, WriteOutcome(w) \/ UNCHANGED table, handled' = handled
  PROVE  Abstract!Next \/ UNCHANGED <<absphase, handled>>
<1>1. CASE UNCHANGED table
  BY <1>1 DEF table, absphase, Phase
<1>2. CASE ~UNCHANGED table
  <2>1. PICK c \in Rows : /\ c = cur[w]
                         /\ status[c] = "pending"
                         /\ attempts[c] < MaxAttempts
                         /\ Outcome(w, c)
    BY <1>2, WriteOutcomeEffect
  <2>2. step[w] = "ok" => handled[c]
    BY <2>1 DEF QInv, OutcomeOK
  <2>3. Phase(c) = "pending" /\ MaxAttempts \in Nat \ {0}
    BY <2>1, QueueAssumption DEF Phase, QInv, TypeOK
  <2>4. CASE step[w] = "ok"
    <3>1. \A q \in Rows : Phase(q)' = IF q = c THEN "done" ELSE Phase(q)
      BY <2>1, <2>4 DEF QInv, TypeOK, Outcome, Phase
    <3>2. Abstract!Settle(c)
      BY <2>1, <2>2, <2>3, <2>4, <3>1 DEF Abstract!Settle, Abstract!Move, absphase
    <3>3. QED
      BY <2>1, <3>2 DEF Abstract!Next
  <2>5. CASE step[w] = "failed"
    <3>1. status' = status /\ attempts' = [attempts EXCEPT ![c] = @ + 1]
      BY <2>1, <2>5 DEF Outcome
    <3>2. \A r \in Rows \ {c} : Phase(r)' = Phase(r)
      BY <3>1 DEF Phase, QInv, TypeOK
    <3>3. CASE Phase(c)' = "pending"
      <4>1. \A r \in Rows : Phase(r)' = Phase(r)
        BY <2>3, <3>2, <3>3
      <4>2. QED
        BY <4>1 DEF absphase
    <3>4. CASE Phase(c)' = "dead"
      <4>1. absphase' = [absphase EXCEPT ![c] = "dead"]
        BY <2>1, <3>2, <3>4 DEF absphase
      <4>2. Abstract!Bury(c)
        BY <2>1, <2>3, <4>1 DEF Abstract!Bury, Abstract!Move, absphase
      <4>3. QED
        BY <2>1, <4>2 DEF Abstract!Next
    <3>5. Phase(c)' \in {"pending", "dead"}
      BY <2>1, <3>1 DEF Phase
    <3>6. QED
      BY <3>3, <3>4, <3>5
  <2>6. QED
    BY <2>1, <2>4, <2>5 DEF Outcome
<1>3. QED
  BY <1>1, <1>2

LEMMA SweepRefines ==
  ASSUME QInv, NEW r \in Rows, SweepDeadLetter(r)
  PROVE  Abstract!Purge(r)
<1>1. Phase(r) = "dead"
  BY DEF SweepDeadLetter, Phase
<1>2. absphase' = [absphase EXCEPT ![r] = "purged"]
  BY <1>1 DEF QInv, TypeOK, SweepDeadLetter, Unlock, Phase, absphase
<1>3. QED
  BY <1>1, <1>2 DEF Abstract!Purge, Abstract!Move, SweepDeadLetter, absphase

LEMMA StepRefines ==
  QInv /\ [Next]_qvars => [Abstract!Next]_(Abstract!avars)
<1> SUFFICES ASSUME QInv, [Next]_qvars
             PROVE  Abstract!Next \/ UNCHANGED <<absphase, handled>>
  BY DEF Abstract!avars, absphase
<1>1. ASSUME NEW r \in Rows, NEW f \in Refs, Enqueue(r, f) PROVE Abstract!Next
  BY <1>1, EnqueueRefines DEF Abstract!Next
<1>2. ASSUME NEW w \in Owners, Succeed(w) PROVE Abstract!Next
  BY <1>2, SucceedRefines
<1>3. ASSUME NEW w \in Owners, WriteBack(w) \/ WriteBackError(w)
      PROVE  Abstract!Next \/ UNCHANGED <<absphase, handled>>
  BY <1>3, WriteOutcomeRefines DEF WriteBack, WriteBackError
<1>4. ASSUME NEW r \in Rows, SweepDeadLetter(r) PROVE Abstract!Next
  BY <1>4, SweepRefines DEF Abstract!Next
<1>5. ASSUME NEW w \in Owners, NEW r \in Rows,
             \/ Begin(w, r) \/ Claim(w) \/ ClaimLost(w) \/ Fail(w)
             \/ Stall(w) \/ Crash(w) \/ LeaseExpires(r)
      PROVE  UNCHANGED <<status, attempts, handled>>
  BY <1>5 DEF Begin, Claim, ClaimLost, Fail, Stall, Crash, LeaseExpires, TakeLease,
              table, workers
<1>6. UNCHANGED <<status, attempts, handled>> => UNCHANGED <<absphase, handled>>
  BY DEF absphase, Phase
<1>7. ASSUME NEW w \in Owners, Claim(w) \/ ClaimLost(w) \/ Fail(w) \/ Stall(w) \/ Crash(w)
      PROVE  UNCHANGED <<status, attempts, handled>>
  BY <1>7 DEF Claim, ClaimLost, Fail, Stall, Crash, TakeLease, table, workers
<1>8. ASSUME NEW r \in Rows, LeaseExpires(r)
      PROVE  UNCHANGED <<status, attempts, handled>>
  BY <1>8 DEF LeaseExpires, table
<1>9. UNCHANGED qvars => UNCHANGED <<status, attempts, handled>>
  BY DEF qvars, table
<1>10. QED
  BY <1>1, <1>2, <1>3, <1>4, <1>5, <1>6, <1>7, <1>8, <1>9 DEF Next

(* The queue keeps the promise of AtLeastOnce: whatever workers crash,     *)
(* stall or lose, a message is confirmed only after a complete run of its  *)
(* handler, and a dead letter never returns (processBatch).                *)
THEOREM QueueImplementsAtLeastOnce == Spec => AtLeastOnceSpec
<1>1. QInv /\ [Next]_qvars => [Abstract!Next]_(Abstract!avars)
  BY StepRefines
<1>2. QED
  BY <1>1, InitRefines, QueueInvariant, PTL DEF Spec, AtLeastOnceSpec, Abstract!Spec

------------------------------------------------------------------------------
(* IngestPipeline                                                          *)

StoreP == INSTANCE IncidentStoreProofs WITH Clusters <- {}

------------------------------------------------------------------------------
(* The store's theorems, under the assumptions of the pipeline             *)

LEMMA StoreConstants == StoreP!StoreAssumption
BY PipelineAssumption DEF StoreP!StoreAssumption, StoreP!Ids, StoreP!Generations

LEMMA SameStore ==
  /\ StoreP!Ids = Store!Ids /\ StoreP!Generations = Store!Generations
  /\ StoreP!svars = svars
  /\ StoreP!Init <=> Store!Init
  /\ StoreP!TypeOK <=> Store!TypeOK
  /\ StoreP!OnlyNewestActive <=> Store!OnlyNewestActive
BY DEF StoreP!Ids, Store!Ids, StoreP!Generations, Store!Generations, StoreP!svars, svars,
  StoreP!Init, Store!Init, StoreP!Absent, Store!Absent, StoreP!Fresh, Store!Fresh,
  StoreP!TypeOK, Store!TypeOK, StoreP!Incident, Store!Incident,
  StoreP!States, Store!States, StoreP!Actors, Store!Actors,
  StoreP!OnlyNewestActive, Store!OnlyNewestActive, StoreP!Gens, Store!Gens,
  StoreP!Newest, Store!Newest, StoreP!Exists, Store!Exists,
  StoreP!Unresolved, Store!Unresolved

LEMMA SameCalls ==
  ASSUME NEW s, NEW i, NEW t, NEW to, NEW actor
  PROVE  /\ Store!Create(i) <=> StoreP!Create(i)
         /\ Store!Archive(i) <=> StoreP!Archive(i)
         /\ Store!Transition(i, to, actor) <=> StoreP!Transition(i, to, actor)
         /\ Store!MergeInto(i, t) <=> StoreP!MergeInto(i, t)
         /\ Store!UpsertExternal(s, i) <=> StoreP!UpsertExternal(s, i)
         /\ Store!CanTransition(inc[i].state, to) <=> StoreP!CanTransition(inc[i].state, to)
<1> USE DEF StoreP!Ids, Store!Ids, StoreP!Generations, Store!Generations,
  StoreP!Exists, Store!Exists, StoreP!Fresh, Store!Fresh
<1>1. /\ Store!Create(i) <=> StoreP!Create(i)
      /\ Store!Archive(i) <=> StoreP!Archive(i)
      /\ Store!MergeInto(i, t) <=> StoreP!MergeInto(i, t)
  BY DEF StoreP!Create, Store!Create, StoreP!Nameable, Store!Nameable,
    StoreP!Archive, Store!Archive, StoreP!Absent, Store!Absent,
    StoreP!MergeInto, Store!MergeInto, StoreP!MoveClusters, Store!MoveClusters
<1>2. Store!CanTransition(inc[i].state, to) <=> StoreP!CanTransition(inc[i].state, to)
  BY DEF StoreP!CanTransition, Store!CanTransition, StoreP!transitions, Store!transitions
<1>3. Store!Transition(i, to, actor) <=> StoreP!Transition(i, to, actor)
  BY <1>2 DEF StoreP!Transition, Store!Transition, StoreP!Apply, Store!Apply
<1>4. Store!UpsertExternal(s, i) <=> StoreP!UpsertExternal(s, i)
  BY DEF StoreP!UpsertExternal, Store!UpsertExternal, StoreP!Refresh, Store!Refresh,
    StoreP!Recur, Store!Recur, StoreP!Newest, Store!Newest, StoreP!Gens, Store!Gens,
    StoreP!Unresolved, Store!Unresolved, StoreP!svars, Store!svars
<1>5. QED
  BY <1>1, <1>2, <1>3, <1>4

------------------------------------------------------------------------------
(* The rows of the queue                                                   *)

(* Rows fill up in order and keep their alert; a pending row is the newest *)
(* of its alert, for the unique index admits no newer one while it is      *)
(* unprocessed.                                                            *)
RowsOK ==
  \A r \in Rows :
    /\ status[r] = "absent" => ref[r] = NoRef
    /\ status[r] # "absent" => ref[r] \in Refs
    /\ \A q \in Rows : q > r =>
         /\ status[r] = "absent" => status[q] = "absent"
         /\ status[r] = "pending" => ref[q] # ref[r]

(* All a step of the queue may do to the rows but inserting one.           *)
RowsSettle ==
  /\ ref' = ref
  /\ \A r \in Rows :
       /\ status'[r] = "absent" <=> status[r] = "absent"
       /\ status'[r] = "pending" => status[r] = "pending"
       /\ status'[r] = "done" =>
            status[r] = "done" \/ \E w \in Owners : step[w] = "ok" /\ cur[w] = r

LEMMA QueueStepOnRows ==
  ASSUME QInv, [Next]_qvars
  PROVE  RowsSettle \/ \E r \in Rows, f \in Refs : Enqueue(r, f)
<1> USE DEF QInv, TypeOK, RowsSettle
<1>1. CASE UNCHANGED <<status, ref>>
  BY <1>1
<1>2. CASE \E w \in Owners : WriteBack(w) \/ WriteBackError(w)
  <2>1. PICK w \in Owners : /\ step[w] \in {"ok", "failed"}
                            /\ WriteOutcome(w) \/ UNCHANGED table
    BY <1>2 DEF WriteBack, WriteBackError, WriteOutcome
  <2>2. CASE UNCHANGED table
    BY <1>1, <2>2 DEF table
  <2>3. CASE WriteOutcome(w) /\ ~UNCHANGED table
    <3>1. cur[w] \in Rows /\ status[cur[w]] = "pending" /\ Outcome(w, cur[w]) /\ ref' = ref
      BY <2>3, WriteOutcomeEffect
    <3>2. QED
      BY <3>1 DEF Outcome
  <2>4. QED
    BY <2>1, <2>2, <2>3
<1>3. CASE \E r \in Rows : SweepDeadLetter(r)
  BY <1>3 DEF SweepDeadLetter
<1>4. CASE \E r \in Rows, f \in Refs : Enqueue(r, f)
  BY <1>4
<1>5. QED
  BY <1>1, <1>2, <1>3, <1>4
     DEF Next, qvars, table, workers, Claim, ClaimLost, TakeLease, Begin, Succeed, Fail,
         Stall, Crash, LeaseExpires

LEMMA InitRowsOK == Init => RowsOK
BY DEF Init, RowsOK

LEMMA NextRowsOK ==
  ASSUME QInv, RowsOK, [Next]_qvars
  PROVE  RowsOK'
<1> USE QueueAssumption DEF QInv, TypeOK, Rows
<1>1. CASE RowsSettle
  BY <1>1 DEF RowsOK, RowsSettle
<1>2. CASE \E r \in Rows, f \in Refs : Enqueue(r, f)
  <2>1. PICK r \in Rows, f \in Refs : Enqueue(r, f)
    BY <1>2
  <2>2. /\ status' = [status EXCEPT ![r] = "pending"]
        /\ ref' = [ref EXCEPT ![r] = f]
        /\ status[r] = "absent"
        /\ \A q \in Rows : q < r => status[q] # "absent"
        /\ \A q \in Rows : status[q] = "pending" => ref[q] # f
    BY <2>1 DEF Enqueue, HasUnprocessed
  <2>3. \A q \in Rows : q > r => status[q] = "absent" /\ ref[q] # f
    BY <2>2 DEF RowsOK
  <2>4. QED
    BY <2>2, <2>3 DEF RowsOK
<1>3. QED
  BY <1>1, <1>2, QueueStepOnRows

(* Two workers at work within their leases hold rows of different alerts.  *)
LEMMA HeldAlertsDiffer ==
  ASSUME QInv, RowsOK,
         NEW v \in Owners, NEW w \in Owners, v # w, ~stalled[v], ~stalled[w],
         NEW q \in Held(v), NEW r \in Held(w)
  PROVE  ref[q] # ref[r]
<1>1. q \in Rows /\ r \in Rows /\ Rows \subseteq Nat
  BY DEF Held, QInv, TypeOK, Rows
<1>2. lockedBy[q] = v /\ lockedBy[r] = w
  BY DEF QInv, UnstalledOwnerKeepsRows
<1>3. status[q] = "pending" /\ status[r] = "pending"
  BY <1>2 DEF QInv, HeldItemIsCurrent
<1>4. q < r \/ r < q
  BY <1>1, <1>2
<1>5. QED
  BY <1>1, <1>3, <1>4 DEF RowsOK

(* Of the queue's variables a failing ExternalActive query touches only    *)
(* the count of faults.                                                    *)
LEMMA FaultQInv ==
  ASSUME QInv, Fault, UNCHANGED <<table, report, handled, workers>>
  PROVE  QInv'
<1> USE QueueAssumption DEF QInv, Fault, table, workers, Held
<1>1. TypeOK'
  BY DEF TypeOK
<1>2. QED
  BY <1>1 DEF LocalsOK, HeldOK, FreshOK, OutcomeOK, HeldItemIsCurrent,
    UnstalledOwnerKeepsRows, DeadLettersReported

------------------------------------------------------------------------------
(* The handler's own variables                                             *)

HandlerTypeOK ==
  /\ kind \in [Rows -> {"firing", "resolved"}]
  /\ stage \in [Owners -> Stages]
  /\ \A w \in Owners : stage[w] # "none" <=> step[w] = "processing"
  /\ target \in [Owners -> Series \cup {NoRef}]
  /\ got \in [Owners -> Store!Ids \cup {NoIncident}]
  /\ window \in Windows
  /\ curBucket \in [Owners -> Windows]
  /\ created \in [Owners -> 0..(RateLimit + 1)]
  /\ desk \in 0..MaxDesk
  /\ blind \in SUBSET Rows
  /\ strayed \in BOOLEAN

(* A handler works on its alert's own series or on a burst series, and     *)
(* only a recovery gets as far as closing.                                 *)
TargetOK ==
  \A w \in Owners :
    /\ stage[w] \in {"upsert", "close"} =>
         target[w] = AlertOf(w) \/ \E b \in Windows : target[w] = BurstOf(b)
    /\ stage[w] = "close" => got[w] \in Store!Ids /\ kind[cur[w]] = "resolved"

StallsOK == \A w \in Owners : stalled[w] => strayed

HandlerInv ==
  /\ QInv
  /\ RowsOK
  /\ HandlerTypeOK
  /\ TargetOK
  /\ StallsOK

LEMMA CurrentRow ==
  ASSUME QInv, RowsOK, NEW w \in Owners, step[w] \in {"processing", "ok", "failed"}
  PROVE  /\ cur[w] \in Rows
         /\ cur[w] \in Held(w)
         /\ status[cur[w]] # "absent"
         /\ AlertOf(w) \in Refs
<1>1. cur[w] \in Rows /\ cur[w] \in Held(w)
  BY DEF QInv, LocalsOK, Held, NoRow, Rows
<1>2. QED
  BY <1>1 DEF QInv, HeldOK, RowsOK, AlertOf

LEMMA PushHandlerInv ==
  ASSUME HandlerInv, NEW r \in Rows, NEW f \in Refs, NEW k \in {"firing", "resolved"},
         Push(r, f, k)
  PROVE  HandlerTypeOK' /\ TargetOK' /\ StallsOK'
<1> USE DEF HandlerInv
<1>1. /\ status[r] = "absent"
      /\ ref' = [ref EXCEPT ![r] = f]
      /\ kind' = [kind EXCEPT ![r] = k]
      /\ UNCHANGED <<workers, svars, handler, limiter, desk, blind, strayed>>
  BY DEF Push, Enqueue
<1> USE <1>1 DEF workers, handler, limiter, svars
<1>2. HandlerTypeOK' /\ StallsOK'
  BY DEF HandlerTypeOK, StallsOK
<1>3. TargetOK'
  <2> SUFFICES ASSUME NEW w \in Owners, stage[w] \in {"upsert", "close"}
               PROVE  AlertOf(w)' = AlertOf(w) /\ kind'[cur[w]] = kind[cur[w]]
    BY DEF TargetOK
  <2>1. cur[w] # r /\ cur[w] \in Rows
    BY CurrentRow DEF HandlerTypeOK
  <2>2. QED
    BY <2>1 DEF AlertOf, QInv, TypeOK, HandlerTypeOK
<1>4. QED
  BY <1>2, <1>3

LEMMA ReceiveHandlerInv ==
  ASSUME HandlerInv, NEW w \in Owners, NEW r \in Rows, Receive(w, r)
  PROVE  HandlerTypeOK' /\ TargetOK' /\ StallsOK'
<1> USE DEF HandlerInv, Receive, Begin, Goto, table, limiter, svars
<1>1. HandlerTypeOK'
  BY DEF HandlerTypeOK, QInv, TypeOK, Stages
<1>2. TargetOK' /\ StallsOK'
  BY DEF TargetOK, StallsOK, HandlerTypeOK, AlertOf, QInv, TypeOK
<1>3. QED
  BY <1>1, <1>2

LEMMA CheckHandlerInv ==
  ASSUME HandlerInv, NEW w \in Owners, Check(w)
  PROVE  HandlerTypeOK' /\ TargetOK' /\ StallsOK'
<1> USE DEF HandlerInv
<1>1. /\ stage[w] = "check"
      /\ UNCHANGED <<table, report, handled, workers, svars, kind, window, desk, strayed>>
      /\ blind' = blind \/ blind' = blind \cup {cur[w]}
  BY DEF Check
<1>2. PICK c \in BOOLEAN : ApplyRateLimit(w, c)
  BY DEF Check
<1>3. PICK t : /\ Goto(w, "upsert", t, NoIncident)
               /\ t = AlertOf(w) \/ t = BurstOf(window)
  BY <1>2 DEF ApplyRateLimit
<1>4. cur[w] \in Rows /\ AlertOf(w) \in Refs /\ t \in Series
  BY <1>1, <1>3, CurrentRow DEF HandlerTypeOK, Series
<1>5. /\ curBucket' \in [Owners -> Windows]
      /\ created' \in [Owners -> 0..(RateLimit + 1)]
  BY <1>2, PipelineAssumption DEF ApplyRateLimit, Count, HandlerTypeOK
<1>6. HandlerTypeOK'
  BY <1>1, <1>3, <1>4, <1>5 DEF HandlerTypeOK, Goto, Stages, workers
<1>7. TargetOK' /\ StallsOK'
  BY <1>1, <1>3 DEF TargetOK, StallsOK, HandlerTypeOK, Goto, AlertOf, workers, table
<1>8. QED
  BY <1>6, <1>7

(* Leaving the handler with an outcome.                                    *)
LEMMA LeaveHandlerInv ==
  ASSUME HandlerInv, NEW w \in Owners, LeaveHandler(w), Succeed(w) \/ Fail(w),
         UNCHANGED <<kind, limiter, desk, blind, strayed>>
  PROVE  HandlerTypeOK' /\ TargetOK' /\ StallsOK'
<1> USE DEF HandlerInv, LeaveHandler, Goto, limiter
<1>1. /\ step[w] = "processing"
      /\ step' = [step EXCEPT ![w] = "ok"] \/ step' = [step EXCEPT ![w] = "failed"]
      /\ UNCHANGED <<ref, cur, stalled>>
  BY DEF Succeed, Fail, table
<1>2. HandlerTypeOK'
  BY <1>1 DEF HandlerTypeOK, Stages, QInv, TypeOK
<1>3. TargetOK' /\ StallsOK'
  BY <1>1 DEF TargetOK, StallsOK, HandlerTypeOK, AlertOf
<1>4. QED
  BY <1>2, <1>3

LEMMA UpsertHandlerInv ==
  ASSUME HandlerInv, NEW w \in Owners, Upsert(w)
  PROVE  HandlerTypeOK' /\ TargetOK' /\ StallsOK'
<1> USE DEF HandlerInv
<1>1. PICK i \in Store!Ids :
        /\ StoreAlert(w, i)
        /\ IF MustClose(w, i)
           THEN Goto(w, "close", target[w], i) /\ UNCHANGED qvars
           ELSE LeaveHandler(w) /\ Succeed(w)
  BY DEF Upsert
<1>2. /\ stage[w] = "upsert"
      /\ UNCHANGED <<kind, limiter, desk, blind, strayed>>
  BY <1>1 DEF Upsert, StoreAlert
<1>3. CASE MustClose(w, i)
  <2>1. Goto(w, "close", target[w], i) /\ UNCHANGED qvars /\ kind[cur[w]] = "resolved"
    BY <1>1, <1>3 DEF MustClose
  <2>2. HandlerTypeOK'
    BY <1>2, <2>1 DEF HandlerTypeOK, Goto, Stages, qvars, workers, limiter
  <2>3. TargetOK' /\ StallsOK'
    BY <1>2, <2>1 DEF TargetOK, StallsOK, HandlerTypeOK, Goto, AlertOf, qvars, workers, table
  <2>4. QED
    BY <2>2, <2>3
<1>4. CASE ~MustClose(w, i)
  BY <1>1, <1>2, <1>4, LeaveHandlerInv
<1>5. QED
  BY <1>3, <1>4

LEMMA CloseHandlerInv ==
  ASSUME HandlerInv, NEW w \in Owners, Close(w) \/ Fails(w)
  PROVE  HandlerTypeOK' /\ TargetOK' /\ StallsOK'
BY LeaveHandlerInv DEF Close, Fails

LEMMA QueueStepHandlerInv ==
  ASSUME HandlerInv, NEW w \in Owners, QueueStep(w)
  PROVE  HandlerTypeOK' /\ TargetOK' /\ StallsOK'
<1> USE DEF HandlerInv
<1>1. UNCHANGED <<svars, hvars>>
  BY DEF QueueStep
<1>2. step[w] # "processing"
  BY DEF QueueStep, Claim, ClaimLost, WriteBack, WriteOutcome, WriteBackError
<1>3. /\ step'[w] # "processing"
      /\ \A v \in Owners : stalled'[v] => stalled[v]
      /\ \A v \in Owners \ {w} : step'[v] = step[v] /\ cur'[v] = cur[v]
  BY DEF QueueStep, Claim, ClaimLost, WriteBack, WriteBackError, NextItem, Return,
     workers, QInv, TypeOK
<1>4. ref' = ref
  BY DEF QueueStep, Claim, ClaimLost, TakeLease, WriteBack, WriteBackError, WriteOutcome,
     WriteDone, WriteFailure, table
<1>5. HandlerTypeOK'
  BY <1>1, <1>2, <1>3 DEF HandlerTypeOK, hvars, handler, limiter
<1>6. TargetOK' /\ StallsOK'
  BY <1>1, <1>2, <1>3, <1>4
     DEF TargetOK, StallsOK, HandlerTypeOK, AlertOf, hvars, handler, limiter
<1>7. QED
  BY <1>5, <1>6

LEMMA WorkerLifeHandlerInv ==
  ASSUME HandlerInv, NEW w \in Owners, HeldUp(w) \/ Dies(w)
  PROVE  HandlerTypeOK' /\ TargetOK' /\ StallsOK'
<1> USE DEF HandlerInv
<1>1. CASE HeldUp(w)
  BY <1>1 DEF HeldUp, Stall, HandlerTypeOK, TargetOK, StallsOK, AlertOf, handler, limiter,
     table, QInv, TypeOK
<1>2. CASE Dies(w)
  <2> USE <1>2 DEF Dies, Crash, Return, LeaveHandler, Goto
  <2>1. 0 \in Windows /\ 0 \in 0..(RateLimit + 1)
    BY PipelineAssumption DEF Windows
  <2>2. HandlerTypeOK'
    BY <2>1 DEF HandlerTypeOK, Stages, QInv, TypeOK
  <2>3. TargetOK' /\ StallsOK'
    BY DEF HandlerTypeOK, TargetOK, StallsOK, AlertOf, table, QInv, TypeOK
  <2>4. QED
    BY <2>2, <2>3
<1>3. QED
  BY <1>1, <1>2

LEMMA SurroundingsHandlerInv ==
  ASSUME HandlerInv, NextWindow \/ Desk \/ (\E r \in Rows : RowStep(r)) \/ UNCHANGED pvars
  PROVE  HandlerTypeOK' /\ TargetOK' /\ StallsOK'
<1> USE DEF HandlerInv
<1>1. /\ UNCHANGED <<kind, handler, workers, ref, curBucket, created, blind, strayed>>
      /\ window' = window \/ NextWindow
      /\ desk' = desk \/ Desk
  BY DEF NextWindow, Desk, RowStep, LeaseExpires, SweepDeadLetter, hvars, limiter, qvars,
     table, pvars
<1>2. window' \in Windows /\ desk' \in 0..MaxDesk
  BY <1>1, PipelineAssumption DEF NextWindow, Desk, Windows, HandlerTypeOK
<1>3. HandlerTypeOK'
  BY <1>1, <1>2 DEF HandlerTypeOK, handler, workers
<1>4. TargetOK' /\ StallsOK'
  BY <1>1 DEF TargetOK, StallsOK, AlertOf, handler, workers
<1>5. QED
  BY <1>3, <1>4

------------------------------------------------------------------------------
(* Every step of the pipeline seen from the queue                          *)

LEMMA PipelineStepOnQueue ==
  ASSUME [PipelineNext]_pvars
  PROVE  [Next]_qvars \/ (Fault /\ UNCHANGED <<table, report, handled, workers>>)
<1>1. CASE \E r \in Rows, f \in Refs, k \in {"firing", "resolved"} : Push(r, f, k)
  BY <1>1 DEF Push, Next
<1>2. CASE \E w \in Owners, r \in Rows : Receive(w, r)
  BY <1>2 DEF Receive, Next
<1>3. CASE \E w \in Owners : Check(w)
  BY <1>3 DEF Check, qvars
<1>4. CASE \E w \in Owners : Upsert(w) \/ Close(w) \/ Fails(w)
  BY <1>4 DEF Upsert, Close, Fails, Next
<1>5. CASE \E w \in Owners : QueueStep(w) \/ HeldUp(w) \/ Dies(w)
  BY <1>5 DEF QueueStep, HeldUp, Dies, Next
<1>6. CASE \E r \in Rows : RowStep(r)
  BY <1>6 DEF RowStep, Next
<1>7. CASE NextWindow \/ Desk \/ UNCHANGED pvars
  BY <1>7 DEF NextWindow, Desk, pvars
<1>8. QED
  BY <1>1, <1>2, <1>3, <1>4, <1>5, <1>6, <1>7 DEF PipelineNext

LEMMA NextHandlerInv ==
  ASSUME HandlerInv, [PipelineNext]_pvars
  PROVE  HandlerInv'
<1>1. QInv'
  BY PipelineStepOnQueue, NextQInv, FaultQInv DEF HandlerInv
<1>2. RowsOK'
  <2>1. CASE [Next]_qvars
    BY <2>1, NextRowsOK DEF HandlerInv
  <2>2. CASE UNCHANGED table
    BY <2>2 DEF HandlerInv, RowsOK, table
  <2>3. QED
    BY <2>1, <2>2, PipelineStepOnQueue
<1>3. HandlerTypeOK' /\ TargetOK' /\ StallsOK'
  BY PushHandlerInv, ReceiveHandlerInv, CheckHandlerInv, UpsertHandlerInv, CloseHandlerInv,
     QueueStepHandlerInv, WorkerLifeHandlerInv, SurroundingsHandlerInv DEF PipelineNext
<1>4. QED
  BY <1>1, <1>2, <1>3 DEF HandlerInv

LEMMA InitHandlerInv == PipelineInit => HandlerInv
<1> SUFFICES ASSUME PipelineInit PROVE HandlerInv
  OBVIOUS
<1>1. QInv /\ RowsOK
  BY InitQInv, InitRowsOK DEF PipelineInit
<1>2. HandlerTypeOK
  <2>1. 0 \in Windows /\ 0 \in 0..(RateLimit + 1) /\ 0 \in 0..MaxDesk
    BY PipelineAssumption DEF Windows
  <2>2. \A w \in Owners : stage[w] = "none" /\ step[w] = "idle"
    BY DEF PipelineInit, Init
  <2>3. QED
    BY <2>1, <2>2 DEF PipelineInit, HandlerTypeOK, Stages
<1>3. TargetOK /\ StallsOK
  BY DEF PipelineInit, Init, TargetOK, StallsOK
<1>4. QED
  BY <1>1, <1>2, <1>3 DEF HandlerInv

------------------------------------------------------------------------------
(* Every step of the pipeline seen from the store                          *)

LEMMA PipelineStepOnStore ==
  ASSUME HandlerTypeOK, [PipelineNext]_pvars
  PROVE  \/ \E w \in Owners, i \in Store!Ids : StoreAlert(w, i) /\ stage'[w] # "upsert"
         \/ \E w \in Owners : stage[w] = "close" /\ TryResolve(got[w])
         \/ Desk
         \/ UNCHANGED svars
<1>1. CASE \E w \in Owners : Upsert(w)
  <2>1. PICK w \in Owners, i \in Store!Ids :
          StoreAlert(w, i) /\ \E st \in {"close", "none"} : \E t, g : Goto(w, st, t, g)
    BY <1>1 DEF Upsert, LeaveHandler
  <2>2. stage'[w] # "upsert"
    BY <2>1 DEF Goto, StoreAlert, HandlerTypeOK
  <2>3. QED
    BY <2>1, <2>2
<1>2. CASE \E w \in Owners : Fails(w)
  <2>1. PICK w \in Owners : Fails(w)
    BY <1>2
  <2>2. stage[w] = "upsert" => stage'[w] # "upsert"
    BY <2>1 DEF Fails, LeaveHandler, Goto, HandlerTypeOK
  <2>3. QED
    BY <2>1, <2>2 DEF Fails, StoreAlert
<1>3. CASE \E w \in Owners : Close(w)
  BY <1>3 DEF Close
<1>4. QED
  BY <1>1, <1>2, <1>3 DEF PipelineNext, Push, Receive, Check, QueueStep, HeldUp, Dies,
     RowStep, NextWindow, pvars, svars

(* What the handler upserts is a series, and what it closes an incident.   *)
LEMMA TargetInSeries ==
  ASSUME HandlerInv, NEW w \in Owners, stage[w] \in {"upsert", "close"}
  PROVE  /\ AlertOf(w) \in Refs
         /\ target[w] \in Series
         /\ target[w] = AlertOf(w) \/ target[w] \notin Refs
         /\ stage[w] = "close" => got[w] \in Store!Ids
<1>1. AlertOf(w) \in Refs
  BY CurrentRow DEF HandlerInv, HandlerTypeOK
<1>2. target[w] = AlertOf(w) \/ \E b \in Windows : target[w] = BurstOf(b)
  BY DEF HandlerInv, TargetOK
<1>3. QED
  BY <1>1, <1>2, PipelineAssumption DEF HandlerInv, TargetOK, Series

LEMMA NextStorePart ==
  ASSUME HandlerInv, StoreP!StoreInv, [PipelineNext]_pvars
  PROVE  /\ StoreP!StoreInv'
         /\ \A j \in Store!Ids : StoreP!LeftToSystem(j)' =>
              \/ StoreP!LeftToSystem(j)
              \/ \E w \in Owners, g \in Store!Generations :
                   j = <<target[w], g>> /\ stage[w] = "upsert" /\ stage'[w] # "upsert"
<1> USE StoreConstants, SameStore DEF HandlerInv, svars, StoreP!svars
<1>1. CASE \E w \in Owners, i \in Store!Ids : StoreAlert(w, i) /\ stage'[w] # "upsert"
  <2>1. PICK w \in Owners, i \in Store!Ids : StoreAlert(w, i) /\ stage'[w] # "upsert"
    BY <1>1
  <2>2. /\ stage[w] = "upsert"
        /\ target[w] \in Series
        /\ StoreP!UpsertExternal(target[w], i)
    BY <2>1, TargetInSeries, SameCalls DEF StoreAlert
  <2>3. [StoreP!Next]_(StoreP!svars)
    BY <2>2 DEF StoreP!Next
  <2>4. StoreP!StoreInv'
    BY <2>3, StoreP!NextStoreInv
  <2>5. /\ \E g \in Store!Generations : i = <<target[w], g>>
        /\ \A j \in Store!Ids :
             StoreP!LeftToSystem(j)' => StoreP!LeftToSystem(j) \/ j = i
    BY <2>2, StoreP!UpsertReturnsTheActive
  <2>6. QED
    BY <2>1, <2>2, <2>4, <2>5
<1>2. CASE \E w \in Owners : stage[w] = "close" /\ TryResolve(got[w])
  <2>1. PICK w \in Owners : stage[w] = "close" /\ TryResolve(got[w])
    BY <1>2
  <2>2. got[w] \in Store!Ids
    BY <2>1, TargetInSeries
  <2>3. StoreP!Transition(got[w], "resolved", "system") \/ UNCHANGED svars
    BY <2>1, SameCalls DEF TryResolve
  <2>4. [StoreP!Next]_(StoreP!svars)
    BY <2>2, <2>3 DEF StoreP!Next
  <2>5. StoreP!StoreInv'
    BY <2>4, StoreP!NextStoreInv
  <2>6. \A j \in Store!Ids : StoreP!LeftToSystem(j)' => StoreP!LeftToSystem(j)
    BY <2>2, <2>3, StoreP!OtherCallsLeaveNoMore DEF StoreP!States, StoreP!Actors
  <2>7. QED
    BY <2>5, <2>6
<1>3. CASE Desk
  <2>1. \/ \E i \in Store!Ids : StoreP!Create(i) \/ StoreP!Archive(i)
        \/ \E i \in Store!Ids, to \in {"acked", "mitigated", "resolved"} :
             StoreP!Transition(i, to, "human")
        \/ \E i, t \in Store!Ids : StoreP!MergeInto(i, t)
    BY <1>3, SameCalls DEF Desk
  <2>2. [StoreP!Next]_(StoreP!svars)
    BY <2>1 DEF StoreP!Next, StoreP!States
  <2>3. StoreP!StoreInv'
    BY <2>2, StoreP!NextStoreInv
  <2>4. \A j \in Store!Ids : StoreP!LeftToSystem(j)' => StoreP!LeftToSystem(j)
    BY <2>1, StoreP!OtherCallsLeaveNoMore DEF StoreP!States, StoreP!Actors
  <2>5. QED
    BY <2>3, <2>4
<1>4. CASE UNCHANGED svars
  <2>1. [StoreP!Next]_(StoreP!svars)
    BY <1>4
  <2>2. StoreP!StoreInv'
    BY <2>1, StoreP!NextStoreInv
  <2>3. \A j \in Store!Ids : StoreP!LeftToSystem(j)' => StoreP!LeftToSystem(j)
    BY <1>4, StoreP!OtherCallsLeaveNoMore
  <2>4. QED
    BY <2>2, <2>3
<1>5. QED
  BY <1>1, <1>2, <1>3, <1>4, PipelineStepOnStore

------------------------------------------------------------------------------
(* Recoveries on their way                                                 *)

NoneLeft(s) == \A g \in Store!Generations : ~StoreP!LeftToSystem(<<s, g>>)

(* A recovery is being handled, or is handled and not yet confirmed, and   *)
(* all its queries were answered.                                          *)
Recovering(w) ==
  /\ step[w] \in {"processing", "ok"}
  /\ kind[cur[w]] = "resolved"
  /\ cur[w] \notin blind

(* How far the handler has got: it turns to the burst series only if       *)
(* nothing of the alert is left, then the incident it got is the only one, *)
(* and in the end there is none.                                           *)
Lands(w) ==
  /\ stage[w] = "upsert" => target[w] = AlertOf(w) \/ NoneLeft(AlertOf(w))
  /\ stage[w] = "close" =>
       \A g \in Store!Generations :
         StoreP!LeftToSystem(<<AlertOf(w), g>>) => got[w] = <<AlertOf(w), g>>
  /\ step[w] = "ok" => NoneLeft(AlertOf(w))

Landing == ~strayed => \A w \in Owners : Recovering(w) => Lands(w)

Landed ==
  ~strayed =>
    \A r \in Rows \ blind :
      status[r] = "done" /\ kind[r] = "resolved" /\ IsLatest(r) => NoneLeft(ref[r])

PInv ==
  /\ HandlerInv
  /\ StoreP!StoreInv
  /\ Landing
  /\ Landed

(* Without a stall, no other worker touches the series of an alert that is *)
(* held, and none the series of an alert whose last message is settled.    *)
LEMMA HeldAlertIsLeftAlone ==
  ASSUME HandlerInv, StoreP!StoreInv, ~strayed, [PipelineNext]_pvars,
         NEW w \in Owners, step[w] \in {"processing", "ok"},
         stage[w] # "upsert" \/ stage'[w] = "upsert",
         NEW s, s = AlertOf(w), NEW g \in Store!Generations, StoreP!LeftToSystem(<<s, g>>)'
  PROVE  StoreP!LeftToSystem(<<s, g>>)
<1>1. s \in Refs /\ cur[w] \in Held(w)
  BY CurrentRow DEF HandlerInv
<1>2. <<s, g>> \in Store!Ids
  BY <1>1 DEF Store!Ids, Series
<1>3. ASSUME NEW v \in Owners, target[v] = s,
             stage[v] = "upsert", stage'[v] # "upsert"
      PROVE  FALSE
  <2>1. v # w
    BY <1>3
  <2>2. AlertOf(v) = AlertOf(w)
    BY <1>1, <1>3, TargetInSeries
  <2>3. cur[v] \in Held(v)
    BY <1>3, CurrentRow DEF HandlerInv, HandlerTypeOK
  <2>4. ~stalled[v] /\ ~stalled[w]
    BY DEF HandlerInv, StallsOK
  <2>5. QED
    BY <1>1, <2>1, <2>2, <2>3, <2>4, HeldAlertsDiffer DEF HandlerInv, AlertOf
<1>4. QED
  BY <1>2, <1>3, NextStorePart

LEMMA SettledAlertIsLeftAlone ==
  ASSUME HandlerInv, StoreP!StoreInv, ~strayed, [PipelineNext]_pvars,
         NEW r \in Rows, status[r] = "done", IsLatest(r),
         NEW s, s = ref[r], NEW g \in Store!Generations, StoreP!LeftToSystem(<<s, g>>)'
  PROVE  StoreP!LeftToSystem(<<s, g>>)
<1>1. s \in Refs
  BY DEF HandlerInv, RowsOK
<1>2. <<s, g>> \in Store!Ids
  BY <1>1 DEF Store!Ids, Series
<1>3. ASSUME NEW v \in Owners, target[v] = s, stage[v] = "upsert"
      PROVE  FALSE
  <2>1. AlertOf(v) = ref[r]
    BY <1>1, <1>3, TargetInSeries
  <2>2. cur[v] \in Held(v) /\ cur[v] \in Rows /\ ~stalled[v]
    BY <1>3, CurrentRow DEF HandlerInv, HandlerTypeOK, StallsOK
  <2>3. status[cur[v]] = "pending"
    BY <2>2 DEF HandlerInv, QInv, UnstalledOwnerKeepsRows, HeldItemIsCurrent
  <2>4. cur[v] < r \/ r < cur[v]
    BY <1>3, <2>2, <2>3 DEF Rows
  <2>5. QED
    BY <2>1, <2>2, <2>3, <2>4 DEF HandlerInv, RowsOK, IsLatest, AlertOf
<1>4. QED
  BY <1>2, <1>3, NextStorePart

(* The rows in the table keep their alert and their message.               *)
LEMMA RowsKeepMessage ==
  ASSUME HandlerInv, [PipelineNext]_pvars, NEW r \in Rows, status[r] # "absent"
  PROVE  ref'[r] = ref[r] /\ kind'[r] = kind[r] /\ (r \notin blind' => r \notin blind)
<1> USE DEF HandlerInv
<1>1. ref'[r] = ref[r]
  <2>1. CASE [Next]_qvars
    BY <2>1, QueueStepOnRows DEF RowsSettle, Enqueue, QInv, TypeOK
  <2>2. CASE UNCHANGED table
    BY <2>2 DEF table
  <2>3. QED
    BY <2>1, <2>2, PipelineStepOnQueue
<1>2. CASE \E q \in Rows, f \in Refs, k \in {"firing", "resolved"} : Push(q, f, k)
  BY <1>1, <1>2 DEF Push, Enqueue, HandlerTypeOK
<1>3. CASE kind' = kind /\ (blind' = blind \/ \E w \in Owners : Check(w))
  BY <1>1, <1>3 DEF Check
<1>4. \/ kind' = kind /\ (blind' = blind \/ \E w \in Owners : Check(w))
      \/ \E q \in Rows, f \in Refs, k \in {"firing", "resolved"} : Push(q, f, k)
  BY DEF PipelineNext, Receive, Check, Upsert, Close, Fails, QueueStep, HeldUp, Dies,
     RowStep, NextWindow, Desk, hvars, pvars
<1>5. QED
  BY <1>2, <1>3, <1>4

(* What a step can be for one worker.                                      *)
LEMMA WorkerStep ==
  ASSUME HandlerInv, [PipelineNext]_pvars, NEW w \in Owners, ~strayed'
  PROVE  \/ /\ cur'[w] = cur[w] /\ step'[w] = step[w]
            /\ stage'[w] = stage[w] /\ target'[w] = target[w] /\ got'[w] = got[w]
         \/ step'[w] \notin {"processing", "ok"}
         \/ \E r \in Rows : Receive(w, r)
         \/ Check(w) \/ Upsert(w) \/ Close(w)
<1> USE DEF HandlerInv, HandlerTypeOK, QInv, TypeOK
<1>1. CASE \E r \in Rows, f \in Refs, k \in {"firing", "resolved"} : Push(r, f, k)
  BY <1>1 DEF Push, Enqueue, workers, handler
<1>2. CASE \E v \in Owners, r \in Rows : Receive(v, r)
  <2>1. PICK v \in Owners, r \in Rows : Receive(v, r)
    BY <1>2
  <2>2. CASE v # w
    BY <2>1, <2>2 DEF Receive, Begin, Goto
  <2>3. QED
    BY <2>1, <2>2
<1>3. CASE \E v \in Owners : Check(v)
  <2>1. PICK v \in Owners : Check(v)
    BY <1>3
  <2>2. UNCHANGED workers /\ \E t : Goto(v, "upsert", t, NoIncident)
    BY <2>1 DEF Check, ApplyRateLimit
  <2>3. CASE v # w
    BY <2>2, <2>3 DEF Goto, workers
  <2>4. QED
    BY <2>1, <2>3
<1>4. CASE \E v \in Owners : Upsert(v)
  <2>1. PICK v \in Owners : Upsert(v)
    BY <1>4
  <2>2. CASE v # w
    BY <2>1, <2>2 DEF Upsert, LeaveHandler, Goto, Succeed, qvars, workers
  <2>3. QED
    BY <2>1, <2>2
<1>5. CASE \E v \in Owners : Close(v)
  <2>1. PICK v \in Owners : Close(v)
    BY <1>5
  <2>2. CASE v # w
    BY <2>1, <2>2 DEF Close, LeaveHandler, Goto, Succeed
  <2>3. QED
    BY <2>1, <2>2
<1>6. CASE \E v \in Owners : Fails(v)
  <2>1. PICK v \in Owners : LeaveHandler(v) /\ Fail(v)
    BY <1>6 DEF Fails
  <2>2. QED
    BY <2>1 DEF LeaveHandler, Goto, Fail
<1>7. CASE \E v \in Owners : QueueStep(v)
  <2>1. UNCHANGED <<stage, target, got>>
    BY <1>7 DEF QueueStep, hvars, handler
  <2>2. PICK v \in Owners : QueueStep(v)
    BY <1>7
  <2>3. /\ \A u \in Owners \ {v} : step'[u] = step[u] /\ cur'[u] = cur[u]
        /\ UNCHANGED <<step, cur>> \/ step'[v] \notin {"processing", "ok"}
    BY <2>2 DEF QueueStep, Claim, ClaimLost, WriteBack, WriteBackError, NextItem, Return,
       workers
  <2>4. QED
    BY <2>1, <2>3
<1>8. CASE \E v \in Owners : HeldUp(v)
  BY <1>8 DEF HeldUp
<1>9. CASE \E v \in Owners : Dies(v)
  BY <1>9 DEF Dies, LeaveHandler, Goto, Crash, Return
<1>10. CASE NextWindow \/ Desk \/ (\E r \in Rows : RowStep(r)) \/ UNCHANGED pvars
  BY <1>10 DEF NextWindow, Desk, RowStep, LeaseExpires, SweepDeadLetter, hvars, handler,
     qvars, workers, pvars
<1>11. QED
  BY <1>1, <1>2, <1>3, <1>4, <1>5, <1>6, <1>7, <1>8, <1>9, <1>10 DEF PipelineNext

------------------------------------------------------------------------------
(* The handler lands a recovery: one lemma per step of its worker.         *)

LEMMA UntouchedLands ==
  ASSUME HandlerInv, StoreP!StoreInv, ~strayed, [PipelineNext]_pvars,
         NEW w \in Owners, Recovering(w), Lands(w),
         cur'[w] = cur[w], step'[w] = step[w],
         stage'[w] = stage[w], target'[w] = target[w], got'[w] = got[w]
  PROVE  Lands(w)'
<1>1. PICK s : s = AlertOf(w)
  OBVIOUS
<1>2. AlertOf(w)' = s
  BY <1>1, CurrentRow, RowsKeepMessage DEF HandlerInv, Recovering, AlertOf
<1>3. \A g \in Store!Generations :
        StoreP!LeftToSystem(<<s, g>>)' => StoreP!LeftToSystem(<<s, g>>)
  BY <1>1, HeldAlertIsLeftAlone DEF Recovering
<1>4. QED
  BY <1>1, <1>2, <1>3 DEF Lands, NoneLeft

LEMMA CheckLands ==
  ASSUME HandlerInv, StoreP!StoreInv, NEW w \in Owners, Check(w), Recovering(w)'
  PROVE  Lands(w)'
<1> USE DEF HandlerInv
<1>1. /\ stage[w] = "check"
      /\ UNCHANGED <<cur, step, ref, inc>>
      /\ ApplyRateLimit(w, ~Store!ExternalActive(AlertOf(w)))
  BY DEF Check, Recovering, workers, table, svars
<1>2. /\ stage' = [stage EXCEPT ![w] = "upsert"]
      /\ \E t : /\ target' = [target EXCEPT ![w] = t]
                /\ t = AlertOf(w) \/ ~Store!ExternalActive(AlertOf(w))
  BY <1>1 DEF ApplyRateLimit, Goto
<1>3. ~Store!ExternalActive(AlertOf(w)) => NoneLeft(AlertOf(w))
  BY SameStore DEF NoneLeft, Store!ExternalActive, Store!Gens, Store!Exists, Store!Unresolved,
     StoreP!LeftToSystem, StoreP!Unresolved
<1>4. step[w] = "processing"
  BY <1>1 DEF HandlerTypeOK
<1>5. AlertOf(w)' = AlertOf(w) /\ (NoneLeft(AlertOf(w)) => NoneLeft(AlertOf(w))')
  BY <1>1 DEF AlertOf, NoneLeft, StoreP!LeftToSystem, StoreP!Unresolved
<1>6. QED
  BY <1>1, <1>2, <1>3, <1>4, <1>5 DEF Lands, HandlerTypeOK

LEMMA UpsertLands ==
  ASSUME HandlerInv, StoreP!StoreInv, NEW w \in Owners, Upsert(w),
         Recovering(w), Lands(w)
  PROVE  Lands(w)'
<1> USE DEF HandlerInv
<1>1. PICK i \in Store!Ids :
        /\ StoreAlert(w, i)
        /\ IF MustClose(w, i)
           THEN Goto(w, "close", target[w], i) /\ UNCHANGED qvars
           ELSE LeaveHandler(w) /\ Succeed(w)
  BY DEF Upsert
<1>2. PICK s, u : s = AlertOf(w) /\ u = target[w]
  OBVIOUS
<1>3. /\ stage[w] = "upsert" /\ s \in Refs /\ u \in Series
      /\ step[w] = "processing"
  BY <1>1, <1>2, TargetInSeries DEF StoreAlert, HandlerTypeOK
<1>4. AlertOf(w)' = s
  BY <1>1, <1>2 DEF AlertOf, Succeed, qvars, workers, table
<1>5. /\ \A j \in Store!Ids : StoreP!LeftToSystem(j)' => StoreP!LeftToSystem(j) \/ j = i
      /\ \A g \in Store!Generations :
           StoreP!LeftToSystem(<<u, g>>)' => i = <<u, g>>
  BY <1>1, <1>2, <1>3, SameCalls, SameStore, StoreConstants, StoreP!UpsertReturnsTheActive
     DEF StoreAlert
<1>6. \A g \in Store!Generations : StoreP!LeftToSystem(<<s, g>>)' => i = <<s, g>>
  <2>1. CASE u = s
    BY <1>5, <2>1
  <2>2. CASE NoneLeft(s)
    BY <1>3, <1>5, <2>2 DEF NoneLeft, Store!Ids, Series
  <2>3. QED
    BY <1>2, <1>3, <2>1, <2>2 DEF Lands
<1>7. CASE MustClose(w, i)
  <2>1. stage'[w] = "close" /\ got'[w] = i /\ step'[w] = "processing"
    BY <1>1, <1>3, <1>7 DEF Goto, HandlerTypeOK, qvars, workers
  <2>2. QED
    BY <1>4, <1>6, <2>1 DEF Lands
<1>8. CASE ~MustClose(w, i)
  <2>1. stage'[w] = "none"
    BY <1>1, <1>8 DEF LeaveHandler, Goto, HandlerTypeOK
  <2>2. ~StoreP!LeftToSystem(i)'
    BY <1>8 DEF MustClose, Recovering, StoreP!LeftToSystem
  <2>3. NoneLeft(s)'
    BY <1>6, <2>2 DEF NoneLeft
  <2>4. QED
    BY <1>4, <2>1, <2>3 DEF Lands
<1>9. QED
  BY <1>7, <1>8

LEMMA CloseLands ==
  ASSUME HandlerInv, StoreP!StoreInv, NEW w \in Owners, Close(w),
         Recovering(w), Lands(w)
  PROVE  Lands(w)'
<1> USE DEF HandlerInv
<1>1. /\ stage[w] = "close" /\ TryResolve(got[w])
      /\ LeaveHandler(w) /\ Succeed(w)
  BY DEF Close
<1>2. PICK s, i : s = AlertOf(w) /\ i = got[w]
  OBVIOUS
<1>3. i \in Store!Ids /\ s \in Refs
  BY <1>1, <1>2, TargetInSeries
<1>4. AlertOf(w)' = s /\ stage'[w] = "none"
  BY <1>1, <1>2 DEF AlertOf, Succeed, LeaveHandler, Goto, table, HandlerTypeOK
<1>5. \/ StoreP!Transition(i, "resolved", "system")
      \/ ~StoreP!CanTransition(inc[i].state, "resolved") /\ UNCHANGED StoreP!svars
  BY <1>1, <1>2, SameCalls DEF TryResolve, svars, StoreP!svars
<1>6. ~StoreP!LeftToSystem(i)'
  BY <1>3, <1>5, SameStore, StoreConstants, StoreP!ResolvedIsNotLeft
<1>7. \A j \in Store!Ids : StoreP!LeftToSystem(j)' => StoreP!LeftToSystem(j)
  BY <1>3, <1>5, SameStore, StoreConstants, StoreP!OtherCallsLeaveNoMore
     DEF StoreP!States, StoreP!Actors
<1>8. NoneLeft(s)'
  BY <1>1, <1>2, <1>3, <1>6, <1>7 DEF Lands, NoneLeft, Store!Ids, Series
<1>9. QED
  BY <1>4, <1>8 DEF Lands

------------------------------------------------------------------------------
LEMMA NextLanding ==
  ASSUME PInv, [PipelineNext]_pvars
  PROVE  Landing'
<1> USE DEF PInv
<1> SUFFICES ASSUME ~strayed', NEW w \in Owners, Recovering(w)'
             PROVE  Lands(w)'
  BY DEF Landing
<1>1. ~strayed
  BY DEF PipelineNext, Push, Receive, Check, Upsert, Close, Fails, QueueStep, HeldUp, Dies,
     RowStep, NextWindow, Desk, hvars, pvars
<1>2. ASSUME cur'[w] = cur[w], step[w] \in {"processing", "ok"}
      PROVE  Recovering(w) /\ Lands(w)
  <2>1. Recovering(w)
    BY <1>2, CurrentRow, RowsKeepMessage DEF Recovering, HandlerInv
  <2>2. QED
    BY <1>1, <2>1 DEF Landing
<1>3. CASE /\ cur'[w] = cur[w] /\ step'[w] = step[w]
           /\ stage'[w] = stage[w] /\ target'[w] = target[w] /\ got'[w] = got[w]
  BY <1>1, <1>2, <1>3, UntouchedLands DEF Recovering
<1>4. CASE \E r \in Rows : Receive(w, r)
  <2>1. stage'[w] = "check" /\ step'[w] = "processing"
    BY <1>4 DEF Receive, Begin, Goto, HandlerInv, HandlerTypeOK, QInv, TypeOK
  <2>2. QED
    BY <2>1 DEF Lands
<1>5. CASE Check(w)
  BY <1>5, CheckLands
<1>6. CASE Upsert(w)
  <2>1. cur' = cur /\ step[w] = "processing"
    BY <1>6 DEF Upsert, StoreAlert, Succeed, qvars, workers, HandlerInv, HandlerTypeOK
  <2>2. QED
    BY <1>2, <1>6, <2>1, UpsertLands
<1>7. CASE Close(w)
  <2>1. cur' = cur /\ step[w] = "processing"
    BY <1>7 DEF Close, Succeed
  <2>2. QED
    BY <1>2, <1>7, <2>1, CloseLands
<1>8. QED
  BY <1>3, <1>4, <1>5, <1>6, <1>7, WorkerStep DEF Recovering

LEMMA NextLanded ==
  ASSUME PInv, [PipelineNext]_pvars
  PROVE  Landed'
<1> USE DEF PInv
<1> SUFFICES ASSUME ~strayed', NEW r \in Rows, r \notin blind',
                    status'[r] = "done", kind'[r] = "resolved", IsLatest(r)'
             PROVE  NoneLeft(ref[r])'
  BY DEF Landed
<1>1. ~strayed
  BY DEF PipelineNext, Push, Receive, Check, Upsert, Close, Fails, QueueStep, HeldUp, Dies,
     RowStep, NextWindow, Desk, hvars, pvars
<1>2. RowsSettle \/ \E q \in Rows, f \in Refs : Enqueue(q, f)
  BY PipelineStepOnQueue, QueueStepOnRows DEF HandlerInv, RowsSettle, table
<1>3. status[r] = "done" \/ \E w \in Owners : step[w] = "ok" /\ cur[w] = r
  BY <1>2 DEF RowsSettle, Enqueue, HandlerInv, QInv, TypeOK
<1>4. status[r] # "absent"
  BY <1>3, CurrentRow DEF HandlerInv
<1>5. PICK s : s = ref[r] /\ s \in Refs
  BY <1>4 DEF HandlerInv, RowsOK
<1>6. ref'[r] = s /\ kind[r] = "resolved" /\ r \notin blind
  BY <1>4, <1>5, RowsKeepMessage
<1>7. CASE status[r] = "done"
  <2>1. IsLatest(r)
    <3> SUFFICES ASSUME NEW q \in Rows, q > r PROVE ref[q] # ref[r]
      BY <1>4 DEF IsLatest
    <3>1. CASE status[q] = "absent"
      BY <3>1, <1>5, QueueAssumption DEF HandlerInv, RowsOK
    <3>2. CASE status[q] # "absent"
      BY <3>2, <1>5, <1>6, RowsKeepMessage DEF IsLatest
    <3>3. QED
      BY <3>1, <3>2
  <2>2. NoneLeft(s)
    BY <1>1, <1>5, <1>6, <1>7, <2>1 DEF Landed
  <2>3. QED
    BY <1>1, <1>5, <1>6, <1>7, <2>1, <2>2, SettledAlertIsLeftAlone DEF NoneLeft
<1>8. CASE \E w \in Owners : step[w] = "ok" /\ cur[w] = r
  <2>1. PICK w \in Owners : step[w] = "ok" /\ cur[w] = r
    BY <1>8
  <2>2. stage[w] = "none" /\ AlertOf(w) = s
    BY <1>5, <2>1 DEF HandlerInv, HandlerTypeOK, AlertOf
  <2>3. NoneLeft(s)
    BY <1>1, <1>6, <2>1, <2>2 DEF Landing, Recovering, Lands
  <2>4. QED
    BY <1>1, <1>6, <2>1, <2>2, <2>3, HeldAlertIsLeftAlone DEF NoneLeft
<1>9. QED
  BY <1>3, <1>7, <1>8

LEMMA InitPInv == PipelineInit => PInv
<1> SUFFICES ASSUME PipelineInit PROVE PInv
  OBVIOUS
<1>1. HandlerInv
  BY InitHandlerInv
<1>2. StoreP!StoreInv
  BY StoreConstants, SameStore, StoreP!InitStoreInv DEF PipelineInit
<1>3. Landing /\ Landed
  BY DEF PipelineInit, Init, Landing, Landed, Recovering
<1>4. QED
  BY <1>1, <1>2, <1>3 DEF PInv

LEMMA NextPInv == PInv /\ [PipelineNext]_pvars => PInv'
BY NextHandlerInv, NextStorePart, NextLanding, NextLanded DEF PInv

LEMMA PipelineInvariant == PipelineSpec => []PInv
BY InitPInv, NextPInv, PTL DEF PipelineSpec

------------------------------------------------------------------------------
(* The pipeline's variables keep their types, and a worker is inside the   *)
(* handler exactly while it processes an item.                             *)
THEOREM PipelineTypeCorrect == PipelineSpec => []PipelineTypeOK
<1>1. PInv => PipelineTypeOK
  BY SameStore DEF PInv, HandlerInv, HandlerTypeOK, QInv, PipelineTypeOK, StoreP!StoreInv
<1>2. QED
  BY <1>1, PipelineInvariant, PTL

(* The pending index and the lease serialise an alert across instances.    *)
THEOREM AlertsAreSerialised == PipelineSpec => []AlertsSerialised
<1>1. PInv => AlertsSerialised
  <2> SUFFICES ASSUME HandlerInv, NEW v \in Owners, NEW w \in Owners, v # w,
                      stage[v] # "none", stage[w] # "none",
                      ~stalled[v], ~stalled[w]
               PROVE  AlertOf(v) # AlertOf(w)
    BY DEF PInv, AlertsSerialised
  <2>1. cur[v] \in Held(v) /\ cur[w] \in Held(w)
    BY CurrentRow DEF HandlerInv, HandlerTypeOK
  <2>2. QED
    BY <2>1, HeldAlertsDiffer DEF HandlerInv, AlertOf
<1>2. QED
  BY <1>1, PipelineInvariant, PTL

(* Nothing is lost on the way: a confirmed last recovery leaves no         *)
(* incident of its alert active but those people took over.                *)
THEOREM RecoveriesLand == PipelineSpec => []RecoveryLands
<1>1. PInv => RecoveryLands
  <2> SUFFICES ASSUME PInv, ~strayed, NEW r \in Rows, r \notin blind,
                      status[r] = "done", kind[r] = "resolved", IsLatest(r),
                      NEW g \in Store!Gens(ref[r]), Store!Unresolved(<<ref[r], g>>)
               PROVE  inc[<<ref[r], g>>].policy = "manual_only"
    BY DEF RecoveryLands
  <2>1. NoneLeft(ref[r]) /\ ref[r] \in Refs
    BY DEF PInv, Landed, HandlerInv, RowsOK
  <2>2. /\ g \in Store!Generations
        /\ inc[<<ref[r], g>>].origin = "external"
        /\ <<ref[r], g>> \in Store!Ids
    BY <2>1 DEF Store!Gens, Store!Ids, Series
  <2>3. inc[<<ref[r], g>>] \in Store!Incident
    BY <2>2, SameStore DEF PInv, StoreP!StoreInv, Store!TypeOK
  <2>4. inc[<<ref[r], g>>].policy # "auto"
    BY <2>1, <2>2 DEF NoneLeft, StoreP!LeftToSystem, StoreP!Unresolved, Store!Unresolved
  <2>5. QED
    BY <2>3, <2>4 DEF Store!Incident
<1>2. QED
  BY <1>1, PipelineInvariant, PTL

(* The formula of SystemCloseIsCurrent, for one step.                      *)
CloseStep ==
  \A w \in Owners :
    /\ stage[w] = "close" /\ stage'[w] = "none"
    /\ inc'[got[w]].state # inc[got[w]].state
    /\ ~stalled[w]
    => IsLatest(cur[w])

(* The system closes an incident only on the last word of its alert.       *)
THEOREM SystemClosesOnLastWord == PipelineSpec => SystemCloseIsCurrent
<1>1. PInv /\ [PipelineNext]_pvars => [CloseStep]_pvars
  <2> SUFFICES ASSUME HandlerInv, NEW w \in Owners, stage[w] = "close", ~stalled[w]
               PROVE  IsLatest(cur[w])
    BY DEF PInv, CloseStep
  <2>1. cur[w] \in Held(w) /\ cur[w] \in Rows
    BY CurrentRow DEF HandlerInv, HandlerTypeOK
  <2>2. status[cur[w]] = "pending"
    BY <2>1 DEF HandlerInv, QInv, UnstalledOwnerKeepsRows, HeldItemIsCurrent
  <2>3. QED
    BY <2>1, <2>2 DEF HandlerInv, RowsOK, IsLatest
<1>2. SystemCloseIsCurrent <=> [][CloseStep]_pvars
  BY PTL DEF SystemCloseIsCurrent, CloseStep
<1>3. QED
  BY <1>1, <1>2, PipelineInvariant, PTL DEF PipelineSpec
===============================================================================
