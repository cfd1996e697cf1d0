------------------------------ MODULE Escalation ------------------------------
(***************************************************************************)
(* Escalation of incidents nobody acknowledged (cmd/opscopilot/            *)
(* escalation.go) and the automatic analysis it triggers (rca_auto.go,     *)
(* RCAOrchestrator.Analyze).  Every instance scans; an incident belongs to *)
(* the one that claims it in the ledger: the table incident_escalation, or *)
(* without a database a bounded map of the only instance.                  *)
(*                                                                         *)
(* The scan works on a snapshot; claiming, every Send of a dispatch,       *)
(* releasing, pushing to the analysis queue and noting the id as seen are  *)
(* separate steps, between which people acknowledge, channels are reloaded *)
(* (NotifyChannels), other instances scan, and processes die.              *)
(***************************************************************************)
EXTENDS NotifyChannels, Sequences, SequencesExt

CONSTANTS
  Incidents,
  Severity,             \* incident -> rank: 3 critical, 2 warning, 1 info
  NoIncident,
  MaxClaims,            \* OPS_MEMLIMIT of the ledger in memory
  TriggerQueue,         \* capacity of RCATrigger.queue
  MaxSeen,              \* maxRCATriggerSeen
  MaxTroubles           \* bound on errors and crashes

ASSUME EscalationAssumption ==
  /\ Gateways # {}
  /\ NoIncident \notin Incidents
  /\ Severity \in [Incidents -> 1..3]
  /\ MaxClaims \in Nat \ {0}
  /\ TriggerQueue \in Nat \ {0}
  /\ MaxSeen \in Nat
  /\ MaxTroubles \in Nat

VARIABLES
  stage,        \* incident -> "young", "overdue" (both open) or "acked"
  ledger,       \* "pg" or "mem"
  claims,       \* the claimed incidents, the oldest claim first
  escPoller,       \* per instance: where pollOnce is, with its locals
  told,         \* [incident, channel] pairs a Send has succeeded for
  toldAgain,    \* those for which another has
  dispatched,   \* incident -> dispatches without an error, counted up to 2
  refused,      \* incidents a channel refused, or no channel took
  struck,       \* incidents whose claim an error or a crash left behind
  trigger,      \* per instance: RCATrigger.queue, seen, and the worker's id
  audited,      \* incidents with an audit entry rca of the actor auto
  troubles

escalationVars == <<stage, ledger, claims, escPoller, told, toldAgain, dispatched,
                    refused, struck, troubles>>
triggerVars == <<trigger, audited>>
dutyVars == <<channelVars, escalationVars, triggerVars>>

(* Without a database there is one instance.                               *)
Solo == CHOOSE g \in Gateways : TRUE
EscPollers == IF ledger = "pg" THEN Gateways ELSE {Solo}

EscAtRest == [at |-> "idle", todo |-> {}, inc |-> NoIncident, left |-> {}, failed |-> FALSE]
NoTrigger == [queue |-> <<>>, seen |-> {}, work |-> NoIncident]

DutyTypeOK ==
  /\ ChannelTypeOK
  /\ stage \in [Incidents -> {"young", "overdue", "acked"}]
  /\ ledger \in {"pg", "mem"}
  /\ ToSet(claims) \subseteq Incidents
  /\ escPoller \in [Gateways ->
       [at : {"idle", "next", "send", "release", "escalated", "mark"},
        todo : SUBSET Incidents, inc : Incidents \cup {NoIncident},
        left : SUBSET (Channels \cup {Console}), failed : BOOLEAN]]
  /\ toldAgain \subseteq told
  /\ told \subseteq Incidents \X (Channels \cup {Console})
  /\ dispatched \in [Incidents -> 0..2]
  /\ refused \cup struck \cup audited \subseteq Incidents
  /\ \A g \in Gateways :
       /\ Len(trigger[g].queue) <= TriggerQueue
       /\ ToSet(trigger[g].queue) \cup trigger[g].seen \subseteq Incidents
       /\ Cardinality(trigger[g].seen) <= MaxSeen
       /\ trigger[g].work \in Incidents \cup {NoIncident}
  /\ troubles \in 0..MaxTroubles

DutyInit ==
  /\ ChannelInit
  /\ ledger \in {"pg", "mem"}
  /\ ledger = "mem" => rows = {}
  /\ stage \in [Incidents -> {"young", "acked"}]
  /\ claims = <<>>
  /\ escPoller = [g \in Gateways |-> EscAtRest]
  /\ told = {} /\ toldAgain = {} /\ refused = {} /\ struck = {} /\ audited = {}
  /\ dispatched = [i \in Incidents |-> 0]
  /\ trigger = [g \in Gateways |-> NoTrigger]
  /\ troubles = 0

Trouble == troubles < MaxTroubles /\ troubles' = troubles + 1

Goes(g, state) == escPoller' = [escPoller EXCEPT ![g] = state]

------------------------------------------------------------------------------
(* The ledger                                                              *)

(* Mutant of Claimed: the conflict is not noticed.                         *)
ClaimedNever(i) == FALSE

Claimed(i) == i \in ToSet(claims)

(* Claim: an INSERT that does nothing on a conflict; the map drops its     *)
(* oldest entry beyond the limit.                                          *)
WithClaim(i) ==
  LET c == Append(claims, i)
  IN  IF ledger = "mem" /\ Len(c) > MaxClaims THEN Tail(c) ELSE c

WithoutClaim(i) == RemoveFirst(claims, i)

------------------------------------------------------------------------------
(* pollOnce                                                                *)

Scan(g) ==
  /\ escPoller[g].at = "idle"
  /\ LET due == {i \in Incidents : stage[i] = "overdue"}
     IN  due # {} /\ Goes(g, [EscAtRest EXCEPT !.at = "next", !.todo = due])
  /\ UNCHANGED <<stage, ledger, claims, told, toldAgain, dispatched, refused, struck,
                 troubles, channelVars, triggerVars>>

(* The claim is made: the channels are looked up and the sending starts.   *)
Claim(g, i) ==
  /\ escPoller[g].at = "next"
  /\ i \in escPoller[g].todo
  /\ ~Claimed(i)
  /\ claims' = WithClaim(i)
  /\ LET chs == ChannelsFor(g, Severity[i])
     IN  /\ Goes(g, [escPoller[g] EXCEPT !.todo = @ \ {i}, !.inc = i, !.left = chs,
                                      !.at = "send", !.failed = (chs = {})])
         /\ refused' = IF chs = {} THEN refused \cup {i} ELSE refused
  /\ UNCHANGED <<stage, ledger, told, toldAgain, dispatched, struck,
                 troubles, channelVars, triggerVars>>

(* The incident is somebody else's already, or the ledger cannot be        *)
(* reached; an INSERT whose answer is lost leaves a claim nobody acts on.  *)
Pass(g, i) ==
  /\ escPoller[g].at = "next"
  /\ i \in escPoller[g].todo
  /\ \/ Claimed(i) /\ UNCHANGED <<claims, struck, troubles>>
     \/ ledger = "pg" /\ Trouble /\ UNCHANGED <<claims, struck>>
     \/ /\ ledger = "pg" /\ ~Claimed(i) /\ Trouble
        /\ claims' = WithClaim(i)
        /\ struck' = struck \cup {i}
  /\ Goes(g, [escPoller[g] EXCEPT !.todo = @ \ {i}])
  /\ UNCHANGED <<stage, ledger, told, toldAgain, dispatched, refused,
                 channelVars, triggerVars>>

ScanEnds(g) ==
  /\ escPoller[g].at = "next"
  /\ escPoller[g].todo = {}
  /\ Goes(g, EscAtRest)
  /\ UNCHANGED <<stage, ledger, claims, told, toldAgain, dispatched, refused, struck,
                 troubles, channelVars, triggerVars>>

(* dispatchTo: one channel after the other, whatever the others did.       *)
SendToChannel(g, c) ==
  LET i == escPoller[g].inc
  IN
  /\ escPoller[g].at = "send"
  /\ c \in escPoller[g].left
  /\ \/ /\ told' = told \cup {<<i, c>>}
        /\ toldAgain' = toldAgain \cup ({<<i, c>>} \cap told)
        /\ Goes(g, [escPoller[g] EXCEPT !.left = @ \ {c}])
        /\ UNCHANGED <<refused, troubles>>
     \/ /\ c # Console
        /\ Trouble
        /\ refused' = refused \cup {i}
        /\ Goes(g, [escPoller[g] EXCEPT !.left = @ \ {c}, !.failed = TRUE])
        /\ UNCHANGED <<told, toldAgain>>
  /\ UNCHANGED <<stage, ledger, claims, dispatched, struck, channelVars, triggerVars>>

(* dispatchTo reports an error if any channel failed, or there was none.   *)
Failed(g) == escPoller[g].failed

DispatchEnds(g) ==
  LET i == escPoller[g].inc
  IN
  /\ escPoller[g].at = "send"
  /\ escPoller[g].left = {}
  /\ IF Failed(g)
       THEN Goes(g, [escPoller[g] EXCEPT !.at = "release"]) /\ UNCHANGED dispatched
       ELSE /\ Goes(g, [escPoller[g] EXCEPT !.at = "escalated"])
            /\ dispatched' = [dispatched EXCEPT ![i] = IF @ < 2 THEN @ + 1 ELSE 2]
  /\ UNCHANGED <<stage, ledger, claims, told, toldAgain, refused, struck, troubles,
                 channelVars, triggerVars>>

(* Mutant of ReleaseClaim: a failed dispatch keeps its claim.              *)
ReleaseNothing(g) ==
  /\ escPoller[g].at = "release"
  /\ Goes(g, [EscAtRest EXCEPT !.at = "next", !.todo = escPoller[g].todo])
  /\ UNCHANGED <<stage, ledger, claims, told, toldAgain, dispatched, refused, struck,
                 troubles, channelVars, triggerVars>>

(* The claim is given back for the next round, or stays if that fails.     *)
ReleaseClaim(g) ==
  LET i == escPoller[g].inc
  IN
  /\ escPoller[g].at = "release"
  /\ \/ claims' = WithoutClaim(i) /\ UNCHANGED <<struck, troubles>>
     \/ ledger = "pg" /\ Trouble /\ struck' = struck \cup {i} /\ UNCHANGED claims
  /\ Goes(g, [EscAtRest EXCEPT !.at = "next", !.todo = escPoller[g].todo])
  /\ UNCHANGED <<stage, ledger, told, toldAgain, dispatched, refused, channelVars, triggerVars>>

------------------------------------------------------------------------------
(* The trigger of the analysis and its worker                              *)

(* Trigger: critical incidents not seen before, unless the queue is full.  *)
OnEscalate(g) ==
  LET i == escPoller[g].inc
      t == trigger[g]
      done == [EscAtRest EXCEPT !.at = "next", !.todo = escPoller[g].todo]
  IN
  /\ escPoller[g].at = "escalated"
  /\ IF Severity[i] = 3 /\ i \notin t.seen /\ Len(t.queue) < TriggerQueue
       THEN /\ trigger' = [trigger EXCEPT ![g].queue = Append(@, i)]
            /\ Goes(g, [escPoller[g] EXCEPT !.at = "mark"])
       ELSE Goes(g, done) /\ UNCHANGED trigger
  /\ UNCHANGED <<stage, ledger, claims, told, toldAgain, dispatched, refused, struck,
                 troubles, channelVars, audited>>

(* The id is noted after the push; a set beyond its limit is emptied.      *)
MarkSeen(g) ==
  LET seen == trigger[g].seen \cup {escPoller[g].inc}
  IN
  /\ escPoller[g].at = "mark"
  /\ trigger' = [trigger EXCEPT ![g].seen = IF Cardinality(seen) > MaxSeen THEN {} ELSE seen]
  /\ Goes(g, [EscAtRest EXCEPT !.at = "next", !.todo = escPoller[g].todo])
  /\ UNCHANGED <<stage, ledger, claims, told, toldAgain, dispatched, refused, struck,
                 troubles, channelVars, audited>>

AlreadyAnalysed(i) == i \in audited

(* process up to the read of the audit, which skips the id if it fails.    *)
TakeTriggered(g) ==
  /\ trigger[g].work = NoIncident
  /\ trigger[g].queue # <<>>
  /\ LET i == Head(trigger[g].queue)
     IN  \/ /\ trigger' = [trigger EXCEPT ![g].queue = Tail(@),
                             ![g].work = IF AlreadyAnalysed(i) THEN NoIncident ELSE i]
            /\ UNCHANGED troubles
         \/ trigger' = [trigger EXCEPT ![g].queue = Tail(@)] /\ Trouble
  /\ UNCHANGED <<stage, ledger, claims, escPoller, told, toldAgain, dispatched, refused, struck,
                 channelVars, audited>>

(* Analyze: fails, or succeeds and is audited, or its audit is lost.       *)
Analyse(g) ==
  LET i == trigger[g].work
  IN
  /\ i # NoIncident
  /\ \/ audited' = audited \cup {i} /\ UNCHANGED troubles
     \/ Trouble /\ UNCHANGED audited
  /\ trigger' = [trigger EXCEPT ![g].work = NoIncident]
  /\ UNCHANGED <<stage, ledger, claims, escPoller, told, toldAgain, dispatched, refused, struck,
                 channelVars>>

------------------------------------------------------------------------------
(* The environment                                                         *)

Age(i) ==
  /\ stage[i] = "young"
  /\ stage' = [stage EXCEPT ![i] = "overdue"]
  /\ UNCHANGED <<ledger, claims, escPoller, told, toldAgain, dispatched, refused, struck,
                 troubles, channelVars, triggerVars>>

Acknowledge(i) ==
  /\ stage[i] # "acked"
  /\ stage' = [stage EXCEPT ![i] = "acked"]
  /\ UNCHANGED <<ledger, claims, escPoller, told, toldAgain, dispatched, refused, struck,
                 troubles, channelVars, triggerVars>>

(* A process dies and comes back: its locals are gone, its claims are not, *)
(* and the registry is loaded before anything is scanned.                  *)
ProcessDies(g) ==
  /\ ledger = "pg"
  /\ Trouble
  /\ escPoller' = [escPoller EXCEPT ![g] = EscAtRest]
  /\ trigger' = [trigger EXCEPT ![g] = NoTrigger]
  /\ struck' = IF escPoller[g].at \in {"send", "release"} THEN struck \cup {escPoller[g].inc} ELSE struck
  /\ registry' = [registry EXCEPT ![g] = rows \cup {Console}]
  /\ editing' = [r \in Requests |->
                   IF editing[r].on = g THEN [editing[r] EXCEPT !.at = "none", !.read = {}]
                                        ELSE editing[r]]
  /\ UNCHANGED <<stage, ledger, claims, told, toldAgain, dispatched, refused, rows, edits,
                 audited>>

Poll(g) ==
  \/ Scan(g) \/ ScanEnds(g) \/ DispatchEnds(g) \/ ReleaseClaim(g) \/ OnEscalate(g) \/ MarkSeen(g)
  \/ \E i \in Incidents : Claim(g, i) \/ Pass(g, i)
  \/ \E c \in Channels \cup {Console} : SendToChannel(g, c)

Work(g) == TakeTriggered(g) \/ Analyse(g)

DutyNext ==
  \/ \E g \in EscPollers : Poll(g) \/ Work(g) \/ ProcessDies(g)
  \/ \E i \in Incidents : Age(i) \/ Acknowledge(i)
  \/ \E r \in Requests : ledger = "pg" /\ (Edit(r) \/ ReloadStep(r))
                        /\ UNCHANGED <<escalationVars, triggerVars>>

DutySpec == DutyInit /\ [][DutyNext]_dutyVars

(* The scan comes round on every instance, and requests come to an end.    *)
DutyFairness ==
  /\ \A g \in Gateways : WF_dutyVars(g \in EscPollers /\ Poll(g))
  /\ \A r \in Requests : WF_dutyVars(ReloadStep(r) /\ UNCHANGED <<escalationVars, triggerVars>>)

------------------------------------------------------------------------------
(* Properties                                                              *)

Handles(g, i) == escPoller[g].inc = i /\ escPoller[g].at \in {"send", "release"}

(* escalation.go:10, only once: over all instances, retries, crashes and   *)
(* lost answers, an incident has at most one dispatch without an error.    *)
EscalatedOnce == ledger = "pg" => \A i \in Incidents : dispatched[i] <= 1

(* A claim that nobody is acting on was earned by a dispatch that reached  *)
(* some channel, or an error or a crash took the incident (the rollback in *)
(* pollOnce, escalation.go:252).                                           *)
ClaimsAreBacked ==
  \A i \in Incidents :
    Claimed(i) =>
      \/ dispatched[i] > 0 /\ \E c \in Channels \cup {Console} : <<i, c>> \in told
      \/ \E g \in Gateways : Handles(g, i)
      \/ i \in struck

(* A channel hears of an incident a second time only if some channel had   *)
(* refused it (a dispatch counts as failed as a whole).                    *)
ToldAgainOnlyIfRefused ==
  ledger = "pg" => \A t \in toldAgain : t[1] \in refused

(* At most one dispatch without error, no claim without a dispatch, an     *)
(* error or somebody at work on it, and no channel told again without a    *)
(* refusal (escalation.go:10, 219-270).                                    *)
EscalationIsExact == EscalatedOnce /\ ClaimsAreBacked /\ ToldAgainOnlyIfRefused

(* An overdue incident is escalated in the end, unless somebody takes it   *)
(* over or an error cost it its claim.                                     *)
EscalatedInTheEnd(i) ==
  stage[i] = "overdue" ~> (dispatched[i] > 0 \/ stage[i] = "acked" \/ i \in struck)
===============================================================================
