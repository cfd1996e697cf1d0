----------------------------- MODULE IngestQueue -----------------------------
(***************************************************************************)
(* The import queue of link A (cmd/opscopilot/ingest_queue.go): the table  *)
(* ingest_queue and the workers of every instance that consume it.  A      *)
(* worker claims a batch by writing its owner id and a lease on the rows,  *)
(* handles the items outside any transaction, and writes back the outcome  *)
(* of each item under the condition that it still owns the row.            *)
(*                                                                         *)
(* Rows are numbered in the order of received_at.  What the handler does   *)
(* to the incident store is left out here and is the subject of            *)
(* IngestPipeline, which refines Begin .. Succeed/Fail.                    *)
(*                                                                         *)
(* Time is abstract: a lease is live until LeaseExpires.  processBatch     *)
(* gives its batch a deadline and leases the rows for longer than that     *)
(* (LeaseFor), so a lease outlives the batch that took it unless the       *)
(* process is held up for longer than the lease; that is the action Stall. *)
(***************************************************************************)
EXTENDS Naturals, FiniteSets

CONSTANTS
  MaxRows,      \* bound: rows ever inserted
  Refs,         \* the (origin, source_ref) pairs alerts come under
  NoRef,        \* the ref of a row not inserted yet
  Owners,       \* owner ids: one for each start of a process (host:pid:random)
  NoOwner,      \* locked_by = ''
  MaxAttempts,  \* maxIngestAttempts
  Batch,        \* OPS_INGEST_BATCH, the LIMIT of a claim
  AutoCreate,   \* OPS_INCIDENT_AUTOCREATE: off means the worker never consumes
  MaxFaults     \* bound: database errors and stalls in a behaviour

Rows == 1..MaxRows
NoRow == 0

ASSUME QueueAssumption ==
  /\ MaxRows \in Nat
  /\ NoOwner \notin Owners
  /\ NoRef \notin Refs
  /\ MaxAttempts \in Nat \ {0}
  /\ Batch \in Nat \ {0}
  /\ AutoCreate \in BOOLEAN
  /\ MaxFaults \in Nat

VARIABLES
  status,       \* "absent", "pending" (processed_at IS NULL), "done", "purged"
  ref,          \* the row's (origin, source_ref)
  attempts,     \* failed runs recorded
  lockedBy,     \* locked_by
  lease,        \* locked_until: "none" (NULL), "live" (> now()), "expired"
  report,       \* the AuditIngestFailed entry of the row: "none" was asked
                \* for, it is "stored", or its insert failed and is "lost"
  handled,      \* history: some run of the handler completed without error
  step,         \* where each owner's worker is in processBatch
  cur,          \* the item it is handling
  todo,         \* the claimed items it has not come to yet
  seen,         \* Item.Attempts of the claimed items, as RETURNING gave it
  stalled,      \* history: held up beyond its lease during the current batch
  faults        \* database errors and stalls so far

table   == <<status, ref, attempts, lockedBy, lease>>
workers == <<step, cur, todo, seen, stalled>>
qvars   == <<table, report, handled, workers, faults>>

Steps == {"idle", "next", "processing", "ok", "failed", "down"}

(* The items a worker has claimed and not yet finished with.               *)
Held(w) == todo[w] \cup ({cur[w]} \ {NoRow})

TypeOK ==
  /\ status \in [Rows -> {"absent", "pending", "done", "purged"}]
  /\ ref \in [Rows -> Refs \cup {NoRef}]
  /\ attempts \in [Rows -> 0..MaxAttempts]
  /\ lockedBy \in [Rows -> Owners \cup {NoOwner}]
  /\ lease \in [Rows -> {"none", "live", "expired"}]
  /\ report \in [Rows -> {"none", "lost", "stored"}]
  /\ handled \in [Rows -> BOOLEAN]
  /\ step \in [Owners -> Steps]
  /\ cur \in [Owners -> Rows \cup {NoRow}]
  /\ todo \in [Owners -> SUBSET Rows]
  /\ seen \in [Owners -> [Rows -> 0..MaxAttempts]]
  /\ stalled \in [Owners -> BOOLEAN]
  /\ faults \in 0..MaxFaults

------------------------------------------------------------------------------
(* Durations, in seconds: the deadline of a batch and the lease it takes.  *)

BatchTimeoutFor(batch, perItem) ==
  LET d == batch * perItem
  IN  IF d < 30 THEN 30 ELSE IF d > 600 THEN 600 ELSE d

LeaseFor(configured, batch, perItem) ==
  LET worst == BatchTimeoutFor(batch, perItem) + 30
  IN  IF worst > configured THEN worst ELSE configured

------------------------------------------------------------------------------
Unread == [r \in Rows |-> 0]

Init ==
  /\ status = [r \in Rows |-> "absent"]
  /\ ref = [r \in Rows |-> NoRef]
  /\ attempts = [r \in Rows |-> 0]
  /\ lockedBy = [r \in Rows |-> NoOwner]
  /\ lease = [r \in Rows |-> "none"]
  /\ report = [r \in Rows |-> "none"]
  /\ handled = [r \in Rows |-> FALSE]
  /\ step = [w \in Owners |-> "idle"]
  /\ cur = [w \in Owners |-> NoRow]
  /\ todo = [w \in Owners |-> {}]
  /\ seen = [w \in Owners |-> Unread]
  /\ stalled = [w \in Owners |-> FALSE]
  /\ faults = 0

Fault == faults < MaxFaults /\ faults' = faults + 1

------------------------------------------------------------------------------
(* Producers                                                               *)

(* Mutant of HasUnprocessed: a claimed row no longer holds the slot.       *)
HasUnprocessedUnclaimed(f) ==
  \E r \in Rows : status[r] = "pending" /\ ref[r] = f /\ lockedBy[r] = NoOwner

(* The partial unique index idx_ingest_pending_idem: dead letters have     *)
(* processed_at NULL too and keep their slot until they are purged.        *)
HasUnprocessed(f) == \E r \in Rows : status[r] = "pending" /\ ref[r] = f

(* A conflicting push inserts nothing and reports queued=false: no step.   *)
Enqueue(r, f) ==
  /\ status[r] = "absent"
  /\ \A q \in Rows : q < r => status[q] # "absent"
  /\ ~HasUnprocessed(f)
  /\ status' = [status EXCEPT ![r] = "pending"]
  /\ ref' = [ref EXCEPT ![r] = f]
  /\ UNCHANGED <<attempts, lockedBy, lease, report, handled, workers, faults>>

------------------------------------------------------------------------------
(* Claiming                                                                *)

(* Mutants of Claimable: dead letters are claimed again; expired leases    *)
(* are not taken over; live leases are.                                    *)
ClaimableNoCap == {r \in Rows : status[r] = "pending" /\ lease[r] # "live"}
ClaimableNeverReclaimed ==
  {r \in Rows : status[r] = "pending" /\ attempts[r] < MaxAttempts /\ lease[r] = "none"}
ClaimableLeased == {r \in Rows : status[r] = "pending" /\ attempts[r] < MaxAttempts}

Claimable ==
  {r \in Rows : /\ status[r] = "pending"
                /\ attempts[r] < MaxAttempts
                /\ lease[r] # "live"}

(* ORDER BY received_at LIMIT Batch                                        *)
Oldest(S) == {r \in S : Cardinality({q \in S : q < r}) < Batch}

TakeLease(w, S) ==
  /\ lockedBy' = [r \in Rows |-> IF r \in S THEN w ELSE lockedBy[r]]
  /\ lease' = [r \in Rows |-> IF r \in S THEN "live" ELSE lease[r]]
  /\ UNCHANGED <<status, ref, attempts>>

Claim(w) ==
  /\ AutoCreate
  /\ step[w] = "idle"
  /\ Claimable # {}
  /\ LET S == Oldest(Claimable)
     IN  /\ TakeLease(w, S)
         /\ todo' = [todo EXCEPT ![w] = S]
         /\ seen' = [seen EXCEPT ![w] =
                       [r \in Rows |-> IF r \in S THEN attempts[r] ELSE 0]]
  /\ step' = [step EXCEPT ![w] = "next"]
  /\ UNCHANGED <<cur, stalled, report, handled, faults>>

(* The claim commits but its answer does not reach the worker: the rows    *)
(* are leased to an owner that does not know it.                           *)
ClaimLost(w) ==
  /\ AutoCreate
  /\ step[w] = "idle"
  /\ Claimable # {}
  /\ TakeLease(w, Oldest(Claimable))
  /\ Fault
  /\ UNCHANGED <<report, handled, workers>>

(* Mutant of LeaseExpires: the lease is fixed and shorter than the batch.  *)
LeaseExpiresFixed(r) ==
  /\ lease[r] = "live"
  /\ lease' = [lease EXCEPT ![r] = "expired"]
  /\ UNCHANGED <<status, ref, attempts, lockedBy, report, handled, workers, faults>>

(* locked_until passes.  LeaseFor keeps the lease of a worker at work      *)
(* alive, unless that worker stalled.                                      *)
LeaseExpires(r) ==
  /\ lease[r] = "live"
  /\ \A w \in Owners : lockedBy[r] = w /\ r \in Held(w) => stalled[w]
  /\ lease' = [lease EXCEPT ![r] = "expired"]
  /\ UNCHANGED <<status, ref, attempts, lockedBy, report, handled, workers, faults>>

------------------------------------------------------------------------------
(* Handling one item                                                       *)

Begin(w, r) ==
  /\ step[w] = "next"
  /\ r \in todo[w]
  /\ cur' = [cur EXCEPT ![w] = r]
  /\ todo' = [todo EXCEPT ![w] = @ \ {r}]
  /\ step' = [step EXCEPT ![w] = "processing"]
  /\ UNCHANGED <<table, report, handled, seen, stalled, faults>>

Succeed(w) ==
  /\ step[w] = "processing"
  /\ step' = [step EXCEPT ![w] = "ok"]
  /\ handled' = [handled EXCEPT ![cur[w]] = TRUE]
  /\ UNCHANGED <<table, report, cur, todo, seen, stalled, faults>>

(* Mutant of DeadLetter: compares before counting this failure.            *)
DeadLetterLate(n) == n >= MaxAttempts

(* The last allowed failure of the attempt count the worker was handed is  *)
(* reported as a dead letter, before anything is written to the row.       *)
DeadLetter(n) == n + 1 >= MaxAttempts

(* auditAppend: Append returns nothing, a failed insert is only logged.    *)
Append(r) ==
  \/ /\ report' = [report EXCEPT ![r] = "stored"]
     /\ UNCHANGED faults
  \/ /\ report' = [report EXCEPT ![r] = IF @ = "stored" THEN @ ELSE "lost"]
     /\ Fault

Fail(w) ==
  /\ step[w] = "processing"
  /\ step' = [step EXCEPT ![w] = "failed"]
  /\ IF DeadLetter(seen[w][cur[w]])
     THEN Append(cur[w]) ELSE UNCHANGED <<report, faults>>
  /\ UNCHANGED <<table, handled, cur, todo, seen, stalled>>

------------------------------------------------------------------------------
(* Writing back                                                            *)

(* Mutant of Owns: the write-back has no owner condition.                  *)
OwnsUnchecked(w, r) == TRUE

(* ... WHERE id = item AND locked_by = owner                               *)
Owns(w, r) == lockedBy[r] = w

Unlock(r) ==
  /\ lockedBy' = [lockedBy EXCEPT ![r] = NoOwner]
  /\ lease' = [lease EXCEPT ![r] = "none"]

(* Mutant of WriteDone: the statement from before there were leases,       *)
(* ... SET processed_at = now() WHERE id = item.                           *)
WriteDoneById(w) ==
  /\ status' = [status EXCEPT ![cur[w]] = "done"]
  /\ UNCHANGED <<ref, attempts, lockedBy, lease>>

WriteDone(w) ==
  IF Owns(w, cur[w])
  THEN /\ status' = [status EXCEPT ![cur[w]] = "done"]
       /\ Unlock(cur[w])
       /\ UNCHANGED <<ref, attempts>>
  ELSE UNCHANGED table

WriteFailure(w) ==
  IF Owns(w, cur[w])
  THEN /\ attempts' = [attempts EXCEPT ![cur[w]] = @ + 1]
       /\ Unlock(cur[w])
       /\ UNCHANGED <<ref, status>>
  ELSE UNCHANGED table

WriteOutcome(w) ==
  \/ step[w] = "ok" /\ WriteDone(w)
  \/ step[w] = "failed" /\ WriteFailure(w)

(* processBatch returns: its locals are gone.                              *)
Return(w, to) ==
  /\ step' = [step EXCEPT ![w] = to]
  /\ cur' = [cur EXCEPT ![w] = NoRow]
  /\ todo' = [todo EXCEPT ![w] = {}]
  /\ seen' = [seen EXCEPT ![w] = Unread]
  /\ stalled' = [stalled EXCEPT ![w] = FALSE]

NextItem(w) ==
  IF todo[w] = {}
  THEN Return(w, "idle")
  ELSE /\ step' = [step EXCEPT ![w] = "next"]
       /\ cur' = [cur EXCEPT ![w] = NoRow]
       /\ UNCHANGED <<todo, seen, stalled>>

WriteBack(w) ==
  /\ WriteOutcome(w)
  /\ NextItem(w)
  /\ UNCHANGED <<report, handled, faults>>

(* A database error or the deadline of the batch: the batch is abandoned,  *)
(* the items not come to stay leased.  The statement may have taken effect *)
(* all the same.                                                           *)
WriteBackError(w) ==
  /\ step[w] \in {"ok", "failed"}
  /\ WriteOutcome(w) \/ UNCHANGED table
  /\ Return(w, "idle")
  /\ Fault
  /\ UNCHANGED <<report, handled>>

------------------------------------------------------------------------------
(* The environment and retention                                           *)

Stall(w) ==
  /\ step[w] \in {"next", "processing", "ok", "failed"}
  /\ ~stalled[w]
  /\ stalled' = [stalled EXCEPT ![w] = TRUE]
  /\ Fault
  /\ UNCHANGED <<table, report, handled, step, cur, todo, seen>>

(* The process dies; a restarted one has a new owner id.                   *)
Crash(w) ==
  /\ step[w] # "down"
  /\ Return(w, "down")
  /\ UNCHANGED <<table, report, handled, faults>>

(* sweepDeadLetters, once the row is old enough.                           *)
SweepDeadLetter(r) ==
  /\ status[r] = "pending"
  /\ attempts[r] >= MaxAttempts
  /\ status' = [status EXCEPT ![r] = "purged"]
  /\ Unlock(r)
  /\ UNCHANGED <<ref, attempts, report, handled, workers, faults>>

------------------------------------------------------------------------------
Next ==
  \/ \E r \in Rows, f \in Refs : Enqueue(r, f)
  \/ \E w \in Owners, r \in Rows : Begin(w, r)
  \/ \E w \in Owners : \/ Claim(w) \/ ClaimLost(w) \/ Succeed(w) \/ Fail(w)
                       \/ WriteBack(w) \/ WriteBackError(w)
                       \/ Stall(w) \/ Crash(w)
  \/ \E r \in Rows : LeaseExpires(r) \/ SweepDeadLetter(r)

Spec == Init /\ [][Next]_qvars

(* A running worker keeps going (its ticker fires for as long as the       *)
(* process lives) and time passes.  Pushes, crashes, errors and stalls are *)
(* never owed.                                                             *)
Fairness ==
  /\ \A w \in Owners :
       /\ WF_qvars(Claim(w))
       /\ WF_qvars(\E r \in Rows : Begin(w, r))
       /\ WF_qvars(Succeed(w) \/ Fail(w))
       /\ WF_qvars(WriteBack(w) \/ WriteBackError(w))
  /\ \A r \in Rows : WF_qvars(LeaseExpires(r))

FairSpec == Spec /\ Fairness

------------------------------------------------------------------------------
(* Properties                                                              *)

(* The write-back of a worker that still owns the row finds the row as the *)
(* worker claimed it: unprocessed, with the attempt count it was handed.   *)
(* So attempts+1 counts this failure once, and the dead-letter report,     *)
(* computed from the claimed count, is right whenever the write lands.     *)
HeldItemIsCurrent ==
  \A w \in Owners : \A r \in Held(w) :
    lockedBy[r] = w => status[r] = "pending" /\ seen[w][r] = attempts[r]

(* A worker that was never held up beyond its lease still owns all it      *)
(* holds: its write-backs land, and no other worker handles its items      *)
(* (the lease scaled with the batch, P2-A4).                               *)
UnstalledOwnerKeepsRows ==
  \A w \in Owners : ~stalled[w] =>
    \A r \in Held(w) : lockedBy[r] = w /\ lease[r] = "live"

(* Every message that stopped being retried has been reported to the audit *)
(* as a dead letter, whatever became of the worker that gave it up: there  *)
(* is no path by which a row leaves the queue unreported.  That the entry  *)
(* is stored is more than the code promises: Append has no error to        *)
(* return, and a lost insert is never made good.                           *)
DeadLettersReported ==
  \A r \in Rows : attempts[r] = MaxAttempts => report[r] # "none"

Phase(r) == IF status[r] = "pending" /\ attempts[r] >= MaxAttempts
            THEN "dead" ELSE status[r]

(* The queue implements the abstract at-least-once queue: a message is     *)
(* marked processed only after its handler completed, a dead letter never  *)
(* comes back, and a stale worker's write-back changes neither.            *)
Abstract == INSTANCE AtLeastOnce WITH phase <- [r \in Rows |-> Phase(r)]

AtLeastOnceSpec == Abstract!Spec

(* Every accepted message is settled, processed or dead, as long as one    *)
(* worker stays up: a lost answer, an abandoned batch, a crash or a        *)
(* message that always fails holds nobody up for ever.                     *)
EventuallySettled ==
  \A r \in Rows :
    Phase(r) = "pending" ~> (Phase(r) # "pending" \/ \A w \in Owners : step[w] = "down")
==============================================================================
