------------------------------ MODULE RunbookLog ------------------------------
(***************************************************************************)
(* Runbooks: manuals mounted on incidents and the log of what people did   *)
(* with them (internal/runbook/store.go, cmd/opscopilot/rest_runbook.go,   *)
(* migration 000020).  Each call checks the incident first and then runs   *)
(* one statement, or for an execution a transaction that locks the mount.  *)
(***************************************************************************)
EXTENDS Integers, FiniteSets

CONSTANTS
  RunbookCalls,      \* requests in progress
  Manuals,
  RunbookIncidents,
  MaxExecutions      \* bound on the identity column of the log

ASSUME RunbookAssumption == MaxExecutions \in Nat

VARIABLES
  manuals,      \* rows of runbook
  incidents,    \* the incidents that exist
  mounts,       \* rows of incident_runbook
  executions,   \* per mount: the seqs of its committed rows
  nextSeq,      \* the identity column
  call          \* per request: [at |-> step, op, mount, seq, locks]

runbookVars == <<manuals, incidents, mounts, executions, nextSeq, call>>

Mounts == RunbookIncidents \X Manuals

Seqs == 0..MaxExecutions

CallStates ==
  [at : {"free", "checked", "locked", "inserted"}, op : {"none", "mount", "unmount", "append"},
   mount : Mounts \cup {<<>>}, seq : Seqs, locks : SUBSET Mounts]

NoCall == [at |-> "free", op |-> "none", mount |-> <<>>, seq |-> 0, locks |-> {}]

RunbookTypeOK ==
  /\ manuals \subseteq Manuals /\ incidents \subseteq RunbookIncidents /\ mounts \subseteq Mounts
  /\ \A m \in mounts : m[2] \in manuals        \* the foreign key
  /\ executions \in [Mounts -> SUBSET Seqs] /\ nextSeq \in Seqs
  /\ call \in [RunbookCalls -> CallStates]

RunbookInit ==
  /\ manuals = {} /\ incidents = RunbookIncidents /\ mounts = {}
  /\ executions = [m \in Mounts |-> {}]
  /\ nextSeq = 0
  /\ call = [q \in RunbookCalls |-> NoCall]

Unlocked(m) == \A q \in RunbookCalls : m \notin call[q].locks

------------------------------------------------------------------------------

(* Create: a second manual of the same id is a conflict.  There is no way  *)
(* to delete one.                                                          *)
CreateManual(rb) ==
  /\ rb \notin manuals /\ manuals' = manuals \cup {rb}
  /\ UNCHANGED <<incidents, mounts, executions, nextSeq, call>>

(* runbookEnsureIncident; an unknown incident is answered 404.             *)
EnsureIncident(q, op, m) ==
  /\ call[q].at = "free" /\ m[1] \in incidents
  /\ call' = [call EXCEPT ![q] =
                [at |-> "checked", op |-> op, mount |-> m, seq |-> 0, locks |-> {}]]
  /\ UNCHANGED <<manuals, incidents, mounts, executions, nextSeq>>

(* The retention sweeper deletes an incident; no foreign key stops it.     *)
ArchiveIncident(i) ==
  /\ i \in incidents /\ incidents' = incidents \ {i}
  /\ UNCHANGED <<manuals, mounts, executions, nextSeq, call>>

(* Mount: idempotent, refused by the foreign key without its manual.       *)
Mount(q) ==
  /\ call[q].at = "checked" /\ call[q].op = "mount"
  /\ mounts' = mounts \cup {m \in {call[q].mount} : m[2] \in manuals}
  /\ call' = [call EXCEPT ![q] = NoCall]
  /\ UNCHANGED <<manuals, incidents, executions, nextSeq>>

(* Unmount: the delete waits for the lock of an execution being written.   *)
Unmount(q) ==
  /\ call[q].at = "checked" /\ call[q].op = "unmount" /\ Unlocked(call[q].mount)
  /\ mounts' = mounts \ {call[q].mount}
  /\ call' = [call EXCEPT ![q] = NoCall]
  /\ UNCHANGED <<manuals, incidents, executions, nextSeq>>

(* Mutant of SelectForUpdate: the row is read without its lock.            *)
SelectOnly(q) ==
  /\ call[q].at = "checked" /\ call[q].op = "append"
  /\ call' = [call EXCEPT ![q] = IF @.mount \in mounts THEN [@ EXCEPT !.at = "locked"] ELSE NoCall]
  /\ UNCHANGED <<manuals, incidents, mounts, executions, nextSeq>>

(* AppendExecution: SELECT .. FOR UPDATE of the mount, 404 without it.     *)
SelectForUpdate(q) ==
  LET m == call[q].mount IN
  /\ call[q].at = "checked" /\ call[q].op = "append" /\ Unlocked(m)
  /\ call' = [call EXCEPT ![q] = IF m \in mounts THEN [@ EXCEPT !.at = "locked", !.locks = {m}]
                                 ELSE NoCall]
  /\ UNCHANGED <<manuals, incidents, mounts, executions, nextSeq>>

(* The insert takes a seq, which a rollback does not give back.            *)
InsertExecution(q) ==
  /\ call[q].at = "locked" /\ nextSeq < MaxExecutions
  /\ nextSeq' = nextSeq + 1
  /\ call' = [call EXCEPT ![q].at = "inserted", ![q].seq = nextSeq']
  /\ UNCHANGED <<manuals, incidents, mounts, executions>>

CommitExecution(q) ==
  /\ call[q].at = "inserted"
  /\ executions' = [executions EXCEPT ![call[q].mount] = @ \cup {call[q].seq}]
  /\ call' = [call EXCEPT ![q] = NoCall]
  /\ UNCHANGED <<manuals, incidents, mounts, nextSeq>>

(* Any request may fail or time out; its transaction is rolled back.       *)
CallFails(q) ==
  /\ call[q].at # "free"
  /\ call' = [call EXCEPT ![q] = NoCall]
  /\ UNCHANGED <<manuals, incidents, mounts, executions, nextSeq>>

RunbookNext ==
  \/ \E rb \in Manuals : CreateManual(rb)
  \/ \E i \in RunbookIncidents : ArchiveIncident(i)
  \/ \E q \in RunbookCalls :
       \/ \E m \in Mounts, op \in {"mount", "unmount", "append"} : EnsureIncident(q, op, m)
       \/ Mount(q) \/ Unmount(q) \/ SelectForUpdate(q) \/ InsertExecution(q)
       \/ CommitExecution(q) \/ CallFails(q)

RunbookSpec == RunbookInit /\ [][RunbookNext]_runbookVars

------------------------------------------------------------------------------
(* Properties                                                              *)

(* The list of the executions of a mount only grows at its end, though the *)
(* seqs come from a column shared by all mounts and unmounting and mounting *)
(* go on meanwhile, and only while the manual is mounted (store.go:239     *)
(* "挂载内严格递增", 241-243 no row written during an unmount).                   *)
HistoryGrowsAtItsEnd ==
  [][\A m \in Mounts :
       /\ executions[m] \subseteq executions'[m]
       /\ \A s \in executions'[m] \ executions[m] :
            m \in mounts /\ \A t \in executions[m] : t < s]_runbookVars
===============================================================================
