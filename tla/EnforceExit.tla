------------------------------ MODULE EnforceExit ------------------------------
(***************************************************************************)
(* What the noise engine does with its verdicts when it is switched to     *)
(* enforce (cmd/opscopilot/noise_process.go): after the locked part of     *)
(* ProcessAlerts every verdict passes the notification gate                *)
(* (internal/notify/notify.go), whose counts are saved once per batch      *)
(* (notify_gate.go), and every cluster the batch opened is attached to the *)
(* incident of its alert (autoAttachClusters).                             *)
(*                                                                         *)
(* The incident store is instantiated: each of its methods is atomic, and  *)
(* between the two calls of an attachment people, link A and the sweeper   *)
(* act on the same incidents.  A cluster is named after the alert and the  *)
(* window it started in, and may be opened again: after an eviction, by    *)
(* another instance, after a restart.                                      *)
(***************************************************************************)
EXTENDS Integers, Sequences, FiniteSets, SequencesExt

CONSTANTS
  Enforcers,        \* instances
  Alerts,           \* alerts: the series of their incidents
  AlertWindows,     \* the windows a cluster may start in
  HandMade,         \* ids of manual incidents
  Unattached,       \* of a cluster without an incident
  MaxGenerations,   \* bounds: generations of an alert's incidents,
  MaxJudged,        \* verdicts,
  MaxActs,          \* acts of people, of link A and of the sweeper,
  MaxExitFaults     \* calls that fail and processes that die

ASSUME ExitAssumption ==
  /\ MaxGenerations \in Nat /\ MaxJudged \in Nat
  /\ MaxActs \in Nat /\ MaxExitFaults \in Nat
  /\ HandMade \cap (Alerts \X (1..MaxGenerations)) = {}
  /\ Unattached \notin HandMade \cup (Alerts \X (1..MaxGenerations))

VARIABLES
  exitInc,          \* the incidents
  owner,            \* incident_cluster: the incident of each cluster
  gateCounts,             \* per instance: what its gate suppressed and dispatched
  gateRow,          \* notify_gate_stats
  exit,             \* per instance: the rest of its batch
  passed,           \* history: the verdicts really suppressed and dispatched,
  countedBy,        \* ... by which instances,
  intact,           \* ... and whether none was lost with a process
  handled,          \* history: incidents the exit was to attach a cluster to
  givenUp,          \* history: those whose attachment was counted as failed, or died
  judged, acts, exitFaults

exitStoreVars == <<exitInc, owner>>
gateVars == <<gateCounts, gateRow, passed, countedBy, intact>>
exitVars == <<exitStoreVars, gateVars, exit, handled, givenUp, judged, acts, exitFaults>>

Opened == Alerts \X AlertWindows     \* clusters

Domain == INSTANCE IncidentStore WITH
  Series <- Alerts, MaxGen <- MaxGenerations, ManualIds <- HandMade,
  Clusters <- Opened, NoIncident <- Unattached, inc <- exitInc, cluster <- owner

(* A verdict: the cluster it opened, or Repeat for a duplicate and for an  *)
(* alert merged into a cluster.                                            *)
Repeat == <<"repeat">>
Verdicts == Opened \cup {Repeat}

Counts == [suppressed : 0..MaxJudged, dispatched : 0..MaxJudged]
Zero == [suppressed |-> 0, dispatched |-> 0]
NoBatchLeft == [at |-> "idle", pending |-> <<>>, requests |-> <<>>, on |-> Unattached]

ExitTypeOK ==
  /\ Domain!TypeOK
  /\ gateCounts \in [Enforcers -> Counts] /\ gateRow \in Counts
  /\ passed \in Counts /\ countedBy \subseteq Enforcers /\ intact \in BOOLEAN
  /\ \A e \in Enforcers :
       /\ exit[e].at \in {"idle", "admit", "create", "attach"}
       /\ ToSet(exit[e].pending) \subseteq Verdicts /\ ToSet(exit[e].requests) \subseteq Opened
       /\ exit[e].on \in Domain!Ids \cup {Unattached}
       /\ exit[e].at = "attach" <=> exit[e].on # Unattached
       /\ exit[e].at = "attach" => exit[e].requests # <<>>
  /\ handled \subseteq Domain!Ids /\ givenUp \subseteq Domain!Ids
  /\ judged \in 0..MaxJudged /\ acts \in 0..MaxActs /\ exitFaults \in 0..MaxExitFaults

ExitInit ==
  /\ Domain!Init
  /\ gateCounts = [e \in Enforcers |-> Zero] /\ gateRow = Zero
  /\ passed = Zero /\ countedBy = {} /\ intact = TRUE
  /\ exit = [e \in Enforcers |-> NoBatchLeft]
  /\ handled = {} /\ givenUp = {} /\ judged = 0 /\ acts = 0 /\ exitFaults = 0

ExitFault == exitFaults < MaxExitFaults /\ exitFaults' = exitFaults + 1

------------------------------------------------------------------------------
(* The locked part, one alert of a batch of two at most: its verdict is    *)
(* kept, and one that opened a cluster is noted for attachment.            *)
CollectDecisions(e) ==
  /\ exit[e].at = "idle" /\ Len(exit[e].pending) < 2
  /\ judged < MaxJudged /\ judged' = judged + 1
  /\ \E v \in Verdicts :
       exit' = [exit EXCEPT ![e].pending = Append(@, v),
                            ![e].requests = IF v = Repeat THEN @ ELSE Append(@, v)]
  /\ UNCHANGED <<exitStoreVars, gateVars, handled, givenUp, acts, exitFaults>>

------------------------------------------------------------------------------
(* The gate                                                                *)

ShouldNotify(v) == v # Repeat

Plus(counts, field) == [counts EXCEPT ![field] = @ + 1]

(* A repeat is suppressed, the others go to the channels; a dispatch that  *)
(* fails counts as neither.                                                *)
Admit(e) ==
  /\ exit[e].at \in {"idle", "admit"} /\ exit[e].pending # <<>>
  /\ \/ \E field \in {"suppressed", "dispatched"} :
          /\ (field = "dispatched") = ShouldNotify(Head(exit[e].pending))
          /\ gateCounts' = [gateCounts EXCEPT ![e] = Plus(@, field)]
          /\ passed' = Plus(passed, field)
          /\ countedBy' = countedBy \cup {e}
          /\ UNCHANGED exitFaults
     \/ /\ ShouldNotify(Head(exit[e].pending)) /\ ExitFault
        /\ UNCHANGED <<gateCounts, passed, countedBy>>
  /\ exit' = [exit EXCEPT ![e].at = "admit", ![e].pending = Tail(@)]
  /\ UNCHANGED <<exitStoreVars, gateRow, intact, handled, givenUp, judged, acts>>

(* After the batch the counts overwrite the row; a failure is only counted. *)
SaveGateStats(e) ==
  /\ exit[e].at = "admit" /\ exit[e].pending = <<>>
  /\ \/ gateRow' = gateCounts[e] /\ UNCHANGED exitFaults
     \/ ExitFault /\ UNCHANGED gateRow
  /\ exit' = [exit EXCEPT ![e].at = "create"]
  /\ UNCHANGED <<exitStoreVars, gateCounts, passed, countedBy, intact, handled, givenUp, judged, acts>>

------------------------------------------------------------------------------
(* autoAttachClusters                                                      *)

NextRequest(e) == [exit EXCEPT ![e].at = "create", ![e].on = Unattached, ![e].requests = Tail(@)]

(* A manual incident may have taken the bare id of the alert.              *)
Refused(alert) == Domain!Gens(alert) = {} /\ Domain!Exists(<<alert, 1>>)

(* UpsertExternal for the alert of the request: its active incident or a   *)
(* new one; refused or failed, the request is skipped.                     *)
UpsertIncident(e) ==
  LET alert == Head(exit[e].requests)[1]
  IN
  /\ exit[e].at = "create" /\ exit[e].requests # <<>>
  /\ \/ \E i \in Domain!Ids :
          /\ Domain!UpsertExternal(alert, i)
          /\ handled' = handled \cup {i}
          /\ givenUp' = IF Domain!Exists(i) THEN givenUp ELSE givenUp \ {i}
          /\ exit' = [exit EXCEPT ![e].at = "attach", ![e].on = i]
          /\ UNCHANGED exitFaults
     \/ /\ (Refused(alert) /\ UNCHANGED exitFaults) \/ ExitFault
        /\ exit' = NextRequest(e)
        /\ UNCHANGED <<exitStoreVars, handled, givenUp>>
  /\ UNCHANGED <<gateVars, judged, acts>>

(* Mutant of Taken: a cluster is taken over from its incident.             *)
TakenNever(k, i) == FALSE

Taken(k, i) == owner[k] \notin {Unattached, i}

(* AttachCluster, the same incident again included.  A cluster of another  *)
(* incident stays there: counted as a conflict, or as skipped if the       *)
(* incident is gone or the call fails, before or after its commit.         *)
Attach(e) ==
  LET i == exit[e].on
      k == Head(exit[e].requests)
      attached == [owner EXCEPT ![k] = i]
  IN
  /\ exit[e].at = "attach"
  /\ IF Domain!Exists(i) /\ ~Taken(k, i)
     THEN \/ owner' = attached /\ UNCHANGED <<givenUp, exitFaults>>
          \/ owner' \in {owner, attached} /\ givenUp' = givenUp \cup {i} /\ ExitFault
     ELSE givenUp' = givenUp \cup {i} /\ UNCHANGED <<owner, exitFaults>>
  /\ exit' = NextRequest(e)
  /\ UNCHANGED <<exitInc, gateVars, handled, judged, acts>>

BatchDone(e) ==
  /\ exit[e].at = "create" /\ exit[e].requests = <<>>
  /\ exit' = [exit EXCEPT ![e] = NoBatchLeft]
  /\ UNCHANGED <<exitStoreVars, gateVars, handled, givenUp, judged, acts, exitFaults>>

------------------------------------------------------------------------------
(* The others                                                              *)

(* The process dies and starts again: SetGate restores the counts from the *)
(* row, or starts from zero if it cannot be read.                          *)
EnforcerRestarts(e) ==
  /\ ExitFault
  /\ gateCounts' \in {[gateCounts EXCEPT ![e] = gateRow], [gateCounts EXCEPT ![e] = Zero]}
  /\ intact' = (intact /\ gateCounts[e] = gateRow /\ gateCounts'[e] = gateRow)
  /\ exit' = [exit EXCEPT ![e] = NoBatchLeft]
  /\ givenUp' = givenUp \cup ({exit[e].on} \ {Unattached})
  /\ UNCHANGED <<exitStoreVars, gateRow, passed, countedBy, handled, judged, acts>>

(* People, the worker of link A and the sweeper, on the same incidents.    *)
OthersAct ==
  /\ acts < MaxActs /\ acts' = acts + 1
  /\ \/ \E i \in Domain!Ids : Domain!Create(i) \/ Domain!Archive(i)
     \/ \E i \in Domain!Ids : Domain!Transition(i, "resolved", "human")
     \/ \E i, t \in Domain!Ids : Domain!MergeInto(i, t)
     \/ \E alert \in Alerts, i \in Domain!Ids : Domain!UpsertExternal(alert, i)
  /\ handled' = {i \in handled : Domain!Exists(i)'}
  /\ UNCHANGED <<gateVars, exit, givenUp, judged, exitFaults>>

ExitNext ==
  \/ \E e \in Enforcers :
       \/ CollectDecisions(e) \/ Admit(e) \/ SaveGateStats(e)
       \/ UpsertIncident(e) \/ Attach(e) \/ BatchDone(e) \/ EnforcerRestarts(e)
  \/ OthersAct

ExitSpec == ExitInit /\ [][ExitNext]_exitVars

------------------------------------------------------------------------------
(* Properties                                                              *)

(* Neither the memory nor the row ever counts a verdict that did not pass, *)
(* and while one instance counts and restarts between two batches, saves   *)
(* that failed included, nothing is missing (noise.go:198-200).            *)
CountsAreTrue ==
  /\ \A field \in {"suppressed", "dispatched"} :
       /\ gateRow[field] <= passed[field]
       /\ \A e \in Enforcers : gateCounts[e][field] <= passed[field]
  /\ \A e \in Enforcers : countedBy = {e} /\ intact => gateCounts[e] = passed

(* An active incident the exit worked on has a cluster, whatever people,   *)
(* link A, the sweeper and other instances did between its creation and    *)
(* the attachment, and ever since; otherwise the failure was counted or    *)
(* the process died (noise_process.go:222-230).                            *)
DomainIsKept ==
  \A i \in handled \ givenUp : Domain!Unresolved(i) =>
    \/ \E k \in Opened : owner[k] = i
    \/ \E e \in Enforcers : exit[e].on = i

VerdictsAreAccounted == CountsAreTrue /\ DomainIsKept
===============================================================================
