---------------------------- MODULE IngestPipeline ----------------------------
(***************************************************************************)
(* Link A end to end: alerts pushed into the import queue, workers of      *)
(* several instances turning them into incidents, people working on the    *)
(* same incidents and the sweeper archiving them                           *)
(* (cmd/opscopilot/ingest_queue.go: IngestWorker).                         *)
(*                                                                         *)
(* IngestQueue is extended: its workers run here with the handler's own    *)
(* steps between Begin and Succeed/Fail.  IncidentStore is instantiated:   *)
(* every call of the handler to the store is one atomic method, and other  *)
(* processes act between two calls.                                        *)
(***************************************************************************)
EXTENDS IngestQueue

CONSTANTS
  MaxGen,       \* bound: generations of a series
  ManualIds,    \* ids of incidents created by hand
  NoIncident,
  Limiting,     \* OPS_INGEST_RATE_WINDOW is at least a second
  RateLimit,    \* OPS_INGEST_RATE_LIMIT
  MaxWindow,    \* bound: rate windows that begin
  MaxDesk       \* bound: acts of people and of the sweeper

Windows == 0..MaxWindow
BurstOf(b) == <<"burst", b>>
Series == Refs \cup {BurstOf(b) : b \in Windows}

(* A burst series is named burst:<start of the window> and holds no alert  *)
(* of its own.                                                             *)
ASSUME PipelineAssumption ==
  /\ MaxGen \in Nat
  /\ ManualIds \cap (Series \X (1..MaxGen)) = {}
  /\ NoIncident \notin ManualIds \cup (Series \X (1..MaxGen))
  /\ Limiting \in BOOLEAN
  /\ RateLimit \in Nat
  /\ MaxWindow \in Nat
  /\ MaxDesk \in Nat
  /\ \A b \in Windows : BurstOf(b) \notin Refs

VARIABLES
  inc, cluster, \* the incident store
  kind,         \* what the payload of a row says: "firing" or "resolved"
  stage,        \* the next call of the handler each worker is running
  target,       \* the series it upserts: the alert's own or the burst series
  got,          \* the incident the upsert returned
  window,       \* the current rate window
  curBucket,    \* the limiter of each process: its window
  created,      \* ... and the incidents counted in it, saturated above RateLimit
  desk,         \* acts of people and of the sweeper so far
  blind,        \* history: rows whose ExternalActive query failed once
  strayed       \* history: some worker was held up beyond its lease

Store == INSTANCE IncidentStore WITH Clusters <- {}

svars   == <<inc, cluster>>
limiter == <<window, curBucket, created>>
handler == <<stage, target, got>>
hvars   == <<kind, handler, limiter, desk, blind, strayed>>
pvars   == <<qvars, svars, hvars>>

Stages == {"none", "check", "upsert", "close"}

PipelineTypeOK ==
  /\ TypeOK
  /\ Store!TypeOK
  /\ kind \in [Rows -> {"firing", "resolved"}]
  /\ stage \in [Owners -> Stages]
  /\ \A w \in Owners : stage[w] # "none" <=> step[w] = "processing"
  /\ target \in [Owners -> Series \cup {NoRef}]
  /\ got \in [Owners -> Store!Ids \cup {NoIncident}]
  /\ window \in Windows
  /\ curBucket \in [Owners -> Windows]
  /\ created \in [Owners -> 0..(RateLimit + 1)]
  /\ desk \in 0..MaxDesk
  /\ blind \in SUBSET Rows
  /\ strayed \in BOOLEAN

PipelineInit ==
  /\ Init
  /\ Store!Init
  /\ kind = [r \in Rows |-> "firing"]
  /\ stage = [w \in Owners |-> "none"]
  /\ target = [w \in Owners |-> NoRef]
  /\ got = [w \in Owners |-> NoIncident]
  /\ window = 0
  /\ curBucket = [w \in Owners |-> 0]
  /\ created = [w \in Owners |-> 0]
  /\ desk = 0
  /\ blind = {}
  /\ strayed = FALSE

------------------------------------------------------------------------------
(* Producers                                                               *)

(* AlertmanagerWebhook.handle: whatever does not enter the queue, because  *)
(* an older message of the alert is unprocessed, is dropped.               *)
Push(r, f, k) ==
  /\ Enqueue(r, f)
  /\ kind' = [kind EXCEPT ![r] = k]
  /\ UNCHANGED <<svars, handler, limiter, desk, blind, strayed>>

------------------------------------------------------------------------------
(* The handler                                                             *)

AlertOf(w) == ref[cur[w]]

Goto(w, st, t, i) ==
  /\ stage' = [stage EXCEPT ![w] = st]
  /\ target' = [target EXCEPT ![w] = t]
  /\ got' = [got EXCEPT ![w] = i]

LeaveHandler(w) == Goto(w, "none", NoRef, NoIncident)

Receive(w, r) ==
  /\ Begin(w, r)
  /\ Goto(w, "check", NoRef, NoIncident)
  /\ UNCHANGED <<svars, kind, limiter, desk, blind, strayed>>

(* The count of the window after one more message, saturated.              *)
Count(w, willCreate) ==
  LET n == IF curBucket[w] = window THEN created[w] ELSE 0
  IN  IF willCreate /\ n <= RateLimit THEN n + 1 ELSE n

(* applyRateLimit: only a message that will open an incident counts, and   *)
(* beyond the limit it goes to the burst series of the window.             *)
ApplyRateLimit(w, willCreate) ==
  IF Limiting
  THEN /\ curBucket' = [curBucket EXCEPT ![w] = window]
       /\ created' = [created EXCEPT ![w] = Count(w, willCreate)]
       /\ Goto(w, "upsert",
               IF willCreate /\ Count(w, willCreate) > RateLimit
               THEN BurstOf(window) ELSE AlertOf(w), NoIncident)
  ELSE /\ UNCHANGED <<curBucket, created>>
       /\ Goto(w, "upsert", AlertOf(w), NoIncident)

(* ExternalActive, and a failing query counts as "will create".            *)
Check(w) ==
  /\ stage[w] = "check"
  /\ \/ /\ ApplyRateLimit(w, ~Store!ExternalActive(AlertOf(w)))
        /\ UNCHANGED <<faults, blind>>
     \/ /\ ApplyRateLimit(w, TRUE)
        /\ Fault
        /\ blind' = blind \cup {cur[w]}
  /\ UNCHANGED <<table, report, handled, workers, svars, kind, window, desk, strayed>>

(* Mutant of MustClose: recoveries are not acted on.                       *)
MustCloseNever(w, i) == FALSE

(* The recovery is acted on if the incident the upsert returned was not    *)
(* taken over by a person.                                                 *)
MustClose(w, i) == kind[cur[w]] = "resolved" /\ inc'[i].policy = "auto"

StoreAlert(w, i) ==
  /\ stage[w] = "upsert"
  /\ Store!UpsertExternal(target[w], i)

Upsert(w) ==
  /\ \E i \in Store!Ids :
       /\ StoreAlert(w, i)
       /\ IF MustClose(w, i)
          THEN Goto(w, "close", target[w], i) /\ UNCHANGED qvars
          ELSE LeaveHandler(w) /\ Succeed(w)
  /\ UNCHANGED <<kind, limiter, desk, blind, strayed>>

(* Transition to resolved, by the system; the errors "invalid transition"  *)
(* and "not found" are taken for a repeated recovery.                      *)
TryResolve(i) ==
  \/ Store!Transition(i, "resolved", "system")
  \/ ~Store!CanTransition(inc[i].state, "resolved") /\ UNCHANGED svars

Close(w) ==
  /\ stage[w] = "close"
  /\ TryResolve(got[w])
  /\ LeaveHandler(w)
  /\ Succeed(w)
  /\ UNCHANGED <<kind, limiter, desk, blind, strayed>>

(* Any call to the store may fail, with or without having taken effect, a  *)
(* payload may not decode, the handler may panic.                          *)
Fails(w) ==
  /\ \/ stage[w] # "none" /\ UNCHANGED svars
     \/ \E i \in Store!Ids : StoreAlert(w, i)
     \/ stage[w] = "close" /\ TryResolve(got[w])
  /\ LeaveHandler(w)
  /\ Fail(w)
  /\ UNCHANGED <<kind, limiter, desk, blind, strayed>>

------------------------------------------------------------------------------
(* The rest of the worker's life                                           *)

QueueStep(w) ==
  /\ Claim(w) \/ ClaimLost(w) \/ WriteBack(w) \/ WriteBackError(w)
  /\ UNCHANGED <<svars, hvars>>

HeldUp(w) ==
  /\ Stall(w)
  /\ strayed' = TRUE
  /\ UNCHANGED <<svars, kind, handler, limiter, desk, blind>>

(* The process dies, and its limiter with it.                              *)
Dies(w) ==
  /\ Crash(w)
  /\ LeaveHandler(w)
  /\ curBucket' = [curBucket EXCEPT ![w] = 0]
  /\ created' = [created EXCEPT ![w] = 0]
  /\ UNCHANGED <<svars, kind, window, desk, blind, strayed>>

RowStep(r) ==
  /\ LeaseExpires(r) \/ SweepDeadLetter(r)
  /\ UNCHANGED <<svars, hvars>>

NextWindow ==
  /\ Limiting
  /\ window < MaxWindow
  /\ window' = window + 1
  /\ UNCHANGED <<qvars, svars, kind, handler, curBucket, created, desk, blind, strayed>>

------------------------------------------------------------------------------
(* People and the sweeper                                                  *)

Desk ==
  /\ desk < MaxDesk
  /\ desk' = desk + 1
  /\ \/ \E i \in Store!Ids : Store!Create(i) \/ Store!Archive(i)
     \/ \E i \in Store!Ids, to \in {"acked", "mitigated", "resolved"} :
          Store!Transition(i, to, "human")
     \/ \E i, t \in Store!Ids : Store!MergeInto(i, t)
  /\ UNCHANGED <<qvars, kind, handler, limiter, blind, strayed>>

PipelineNext ==
  \/ \E r \in Rows, f \in Refs, k \in {"firing", "resolved"} : Push(r, f, k)
  \/ \E w \in Owners, r \in Rows : Receive(w, r)
  \/ \E w \in Owners : \/ Check(w) \/ Upsert(w) \/ Close(w) \/ Fails(w)
                       \/ QueueStep(w) \/ HeldUp(w) \/ Dies(w)
  \/ \E r \in Rows : RowStep(r)
  \/ NextWindow
  \/ Desk

PipelineSpec == PipelineInit /\ [][PipelineNext]_pvars

------------------------------------------------------------------------------
(* Properties                                                              *)

(* The row is the newest message of its alert that was ever accepted.      *)
IsLatest(r) ==
  /\ status[r] # "absent"
  /\ \A q \in Rows : q > r => ref[q] # ref[r]

(* Two workers never handle messages of the same alert at the same time,   *)
(* unless one was held up beyond its lease: the pending index and the      *)
(* lease together serialise an alert across instances.                     *)
AlertsSerialised ==
  \A v, w \in Owners :
    v # w /\ stage[v] # "none" /\ stage[w] # "none" /\ AlertOf(v) = AlertOf(w)
      => stalled[v] \/ stalled[w]

(* The system closes an incident only on the last word of its alert: a     *)
(* worker that was not held up never lets an older recovery close the      *)
(* incident of an alert that has fired again since.                        *)
SystemCloseIsCurrent ==
  [][\A w \in Owners :
       /\ stage[w] = "close" /\ stage'[w] = "none"
       /\ inc'[got[w]].state # inc[got[w]].state
       /\ ~stalled[w]
       => IsLatest(cur[w])]_pvars

(* Nothing is lost on the way: once the newest message of an alert is a    *)
(* recovery and is confirmed, no incident of the alert is left active but  *)
(* those people took over, through all crashes, retries and replays.       *)
(* Exempt are a worker that was held up, and a failed ExternalActive query *)
(* (which may send a recovery to the burst incident instead).              *)
RecoveryLands ==
  ~strayed =>
    \A r \in Rows \ blind :
      status[r] = "done" /\ kind[r] = "resolved" /\ IsLatest(r) =>
        \A g \in Store!Gens(ref[r]) :
          Store!Unresolved(<<ref[r], g>>) => inc[<<ref[r], g>>].policy = "manual_only"

(* Handling a message again after it was handled completely opens nothing  *)
(* (ingest_queue.go:11, ADR-012: a reclaimed message does not open a       *)
(* second incident).                                                       *)
ReplayOpensNothing ==
  [][\A w \in Owners :
       stage[w] = "upsert" /\ stage'[w] # "upsert" /\ handled[cur[w]]
         => \A i \in Store!Ids : Store!Exists(i)' => Store!Exists(i)]_pvars

(* An incident a person acked is never closed by the system                *)
(* (statemachine.go:18, R2).                                               *)
AckedNeverClosedBySystem ==
  \A i \in Store!Ids : inc[i].acked => inc[i].ackBy # "system"
==============================================================================
