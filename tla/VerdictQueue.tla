------------------------------ MODULE VerdictQueue ------------------------------
(***************************************************************************)
(* The queue between the verdicts of the noise engine and their storage    *)
(* (cmd/opscopilot/noise_writequeue.go): callers push without ever         *)
(* blocking, one writer gathers batches and saves them, stopping drains    *)
(* what is queued for a limited time, and every verdict that is given up   *)
(* is counted.                                                             *)
(*                                                                         *)
(* Verdicts are all alike, so the channel and the writer's batch are their *)
(* lengths.  A push holds the read lock from its look at the stopped flag  *)
(* to its send; stop takes the write lock to set the flag.                 *)
(***************************************************************************)
EXTENDS Integers

CONSTANTS
  Pushers,          \* callers of ProcessAlerts
  QueueSize, BatchSize,
  MaxVerdicts       \* bound on the verdicts pushed

ASSUME VerdictAssumption ==
  /\ QueueSize \in Nat \ {0} /\ BatchSize \in 1..QueueSize
  /\ MaxVerdicts \in Nat

VARIABLES
  pushing,          \* per caller: "idle", or "sending" with the read lock
  channel,          \* verdicts in q.ch
  gathered,         \* verdicts in the writer's batch
  writer,           \* "loop", "flush", "drain", "finished"
  flag,             \* "open", "stopped", and "done" once q.done is closed
  stopping,         \* StopVerdictWriter: "no", "waiting", "returned", "exited"
  sink,             \* "attached" or "detached"
  pushed, saved,    \* verdicts so far
  drops, failures,  \* the two counters of losses
  residue           \* how many of the drops the timeout of stop counted

queueVars == <<pushing, channel, gathered, writer, flag>>
countVars == <<pushed, saved, drops, failures, residue>>
verdictVars == <<queueVars, stopping, sink, countVars>>

VerdictTypeOK ==
  /\ pushing \in [Pushers -> {"idle", "sending"}]
  /\ channel \in 0..QueueSize
  /\ gathered \in 0..BatchSize
  /\ writer \in {"loop", "flush", "drain", "drainflush", "finished"}
  /\ flag \in {"open", "stopped", "done"}
  /\ stopping \in {"no", "waiting", "returned", "exited"}
  /\ sink \in {"attached", "detached"}
  /\ pushed \in Nat /\ saved \in Nat /\ drops \in Nat /\ failures \in Nat /\ residue \in Nat

VerdictInit ==
  /\ pushing = [p \in Pushers |-> "idle"]
  /\ channel = 0 /\ gathered = 0 /\ writer = "loop" /\ flag = "open"
  /\ stopping = "no" /\ sink \in {"attached", "detached"}
  /\ pushed = 0 /\ saved = 0 /\ drops = 0 /\ failures = 0 /\ residue = 0

Alive == stopping # "exited"

------------------------------------------------------------------------------
(* push and enqueueVerdicts                                                *)

(* The read lock and the look at the flag: once stopped, the verdict is    *)
(* counted as a drop.                                                      *)
BeginPush(p) ==
  /\ Alive /\ pushed < MaxVerdicts
  /\ pushing[p] = "idle"
  /\ pushed' = pushed + 1
  /\ IF flag = "open"
       THEN pushing' = [pushing EXCEPT ![p] = "sending"] /\ UNCHANGED drops
       ELSE drops' = drops + 1 /\ UNCHANGED pushing
  /\ UNCHANGED <<channel, gathered, writer, flag, stopping, sink, saved, failures, residue>>

(* The send that does not wait, a drop if the channel is full.             *)
SendVerdict(p) ==
  /\ Alive
  /\ pushing[p] = "sending"
  /\ pushing' = [pushing EXCEPT ![p] = "idle"]
  /\ IF channel < QueueSize
       THEN channel' = channel + 1 /\ UNCHANGED drops
       ELSE drops' = drops + 1 /\ UNCHANGED channel
  /\ UNCHANGED <<gathered, writer, flag, stopping, sink, pushed, saved, failures, residue>>

------------------------------------------------------------------------------
(* run                                                                     *)

WriterGoes(to) ==
  /\ writer' = to
  /\ UNCHANGED <<pushing, flag, stopping, sink, pushed, saved, drops, failures, residue>>

(* One verdict is received, and with it whatever else fits into the batch  *)
(* and is there already; a full batch is flushed.                          *)
Gather ==
  /\ Alive
  /\ writer = "loop" /\ channel > 0
  /\ \E n \in 1..channel :
       /\ gathered + n <= BatchSize
       /\ n = channel \/ gathered + n = BatchSize
       /\ channel' = channel - n
       /\ gathered' = gathered + n
       /\ WriterGoes(IF gathered + n = BatchSize THEN "flush" ELSE "loop")

Tick ==
  /\ Alive
  /\ writer = "loop" /\ gathered > 0
  /\ WriterGoes("flush")
  /\ UNCHANGED <<channel, gathered>>

NoticeDone ==
  /\ Alive
  /\ writer = "loop" /\ flag = "done"
  /\ WriterGoes("drain")
  /\ UNCHANGED <<channel, gathered>>

(* Mutant of Drain: what is gathered when the channel is empty is left.    *)
DrainForgets ==
  /\ Alive
  /\ writer = "drain"
  /\ IF channel > 0
       THEN /\ channel' = channel - 1
            /\ gathered' = gathered + 1
            /\ WriterGoes(IF gathered + 1 = BatchSize THEN "drainflush" ELSE "drain")
       ELSE /\ WriterGoes("finished")
            /\ UNCHANGED <<channel, gathered>>

Drain ==
  /\ Alive
  /\ writer = "drain"
  /\ IF channel > 0
       THEN /\ channel' = channel - 1
            /\ gathered' = gathered + 1
            /\ WriterGoes(IF gathered + 1 = BatchSize THEN "drainflush" ELSE "drain")
       ELSE /\ WriterGoes(IF gathered > 0 THEN "drainflush" ELSE "finished")
            /\ UNCHANGED <<channel, gathered>>

(* flushVerdictBatch: one verdict after the other, saved or counted as a   *)
(* failure; without a sink the batch is counted as dropped.                *)
Flush ==
  /\ Alive
  /\ writer \in {"flush", "drainflush"}
  /\ \/ /\ sink = "attached"
        /\ gathered' = gathered - 1
        /\ \/ saved' = saved + 1 /\ UNCHANGED failures
           \/ failures' = failures + 1 /\ UNCHANGED saved
        /\ UNCHANGED drops
     \/ /\ sink = "detached"
        /\ gathered' = 0
        /\ drops' = drops + gathered
        /\ UNCHANGED <<saved, failures>>
  /\ writer' = IF gathered' > 0 THEN writer ELSE IF writer = "flush" THEN "loop" ELSE "drain"
  /\ UNCHANGED <<pushing, channel, flag, stopping, sink, pushed, residue>>

------------------------------------------------------------------------------
(* stop and StopVerdictWriter                                              *)

(* The write lock: no push is between its look at the flag and its send.   *)
SetStopped ==
  /\ Alive
  /\ flag = "open"
  /\ \A p \in Pushers : pushing[p] = "idle"
  /\ flag' = "stopped"
  /\ UNCHANGED <<pushing, channel, gathered, writer, stopping, sink, countVars>>

CloseDone ==
  /\ flag = "stopped"
  /\ flag' = "done"
  /\ stopping' = "waiting"
  /\ UNCHANGED <<pushing, channel, gathered, writer, sink, countVars>>

(* The writer has finished, or the time is up and what is in the channel   *)
(* is counted, once.                                                       *)
StopReturns ==
  /\ stopping = "waiting"
  /\ stopping' = "returned"
  /\ IF writer = "finished" THEN UNCHANGED <<drops, residue>>
     ELSE IF residue # 0 THEN UNCHANGED <<drops, residue>>
     ELSE drops' = drops + channel /\ residue' = channel
  /\ UNCHANGED <<queueVars, sink, pushed, saved, failures>>

(* The shutdown sequence stops the writer twice.                           *)
StopAgain ==
  /\ stopping = "returned"
  /\ stopping' = "waiting"
  /\ UNCHANGED <<queueVars, sink, countVars>>

(* The process ends; a writer still at work ends with it.                  *)
ProcessExits ==
  /\ stopping = "returned"
  /\ stopping' = "exited"
  /\ UNCHANGED <<queueVars, sink, countVars>>

Reattach ==
  /\ Alive /\ writer \in {"loop", "drain"}
  /\ sink' = IF sink = "attached" THEN "detached" ELSE "attached"
  /\ UNCHANGED <<queueVars, stopping, countVars>>

VerdictNext ==
  \/ \E p \in Pushers : BeginPush(p) \/ SendVerdict(p)
  \/ Gather \/ Tick \/ NoticeDone \/ Drain \/ Flush
  \/ SetStopped \/ CloseDone \/ StopReturns \/ StopAgain \/ ProcessExits \/ Reattach

VerdictSpec == VerdictInit /\ [][VerdictNext]_verdictVars

------------------------------------------------------------------------------
(* Properties                                                              *)

Sending == {p \in Pushers : pushing[p] = "sending"}

(* The drain is complete (the invariant at noise_writequeue.go:68): when   *)
(* the writer has finished, no verdict is left in the channel or the       *)
(* batch, and no push under way can put one there any more.                *)
NothingStranded ==
  writer = "finished" => channel = 0 /\ gathered = 0 /\ Sending = {}
===============================================================================
