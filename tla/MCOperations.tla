---------------------------- MODULE MCOperations ----------------------------
(***************************************************************************)
(* The components beside link A, checked in one run: a behaviour is one of *)
(* the component named by part, the others stay as they start.  The        *)
(* components share no variables, so the states are the sum of theirs, and *)
(* what holds here of a part holds of its component.                       *)
(***************************************************************************)
EXTENDS
  LeaderElection, Escalation, NoiseClusters, ClusterPersistence, VerdictQueue,
  SessionFlow, AlertPoller, EventStream, AuditPaging, TopologyGraph,
  ChangeRecords, ConnectorHost, SchemaUpgrade, RunbookLog, RcaPipeline,
  TimelinePaging, EnforceExit

CONSTANTS alert1, alert2      \* the incidents of the escalation

VARIABLE part

ownerVars == <<leaderVars, dutyVars, clusterVars, clusterStoreVars>>
noiseSideVars == <<verdictVars, sessionVars, pollerVars, streamVars>>
evidenceVars == <<auditVars, topologyVars, changeVars, hostVars>>
reportVars == <<schemaVars, runbookVars, rcaVars, timelineVars, exitVars>>
opsVars == <<part, ownerVars, noiseSideVars, evidenceVars, reportVars>>

NotLeader == <<part, dutyVars, clusterVars, clusterStoreVars, noiseSideVars, evidenceVars, reportVars>>
NotDuty == <<part, leaderVars, clusterVars, clusterStoreVars, noiseSideVars, evidenceVars, reportVars>>
NotNoise == <<part, leaderVars, dutyVars, clusterStoreVars, noiseSideVars, evidenceVars, reportVars>>
NotClusters == <<part, leaderVars, dutyVars, clusterVars, noiseSideVars, evidenceVars, reportVars>>
NotVerdicts == <<part, sessionVars, pollerVars, streamVars, ownerVars, evidenceVars, reportVars>>
NotSession == <<part, verdictVars, pollerVars, streamVars, ownerVars, evidenceVars, reportVars>>
NotPoller == <<part, verdictVars, sessionVars, streamVars, ownerVars, evidenceVars, reportVars>>
NotStream == <<part, verdictVars, sessionVars, pollerVars, ownerVars, evidenceVars, reportVars>>
NotAudit == <<part, topologyVars, changeVars, hostVars, ownerVars, noiseSideVars, reportVars>>
NotTopology == <<part, auditVars, changeVars, hostVars, ownerVars, noiseSideVars, reportVars>>
NotChanges == <<part, auditVars, topologyVars, hostVars, ownerVars, noiseSideVars, reportVars>>
NotConnectors == <<part, auditVars, topologyVars, changeVars, ownerVars, noiseSideVars, reportVars>>
NotSchema == <<part, runbookVars, rcaVars, timelineVars, exitVars, ownerVars, noiseSideVars, evidenceVars>>
NotRunbook == <<part, schemaVars, rcaVars, timelineVars, exitVars, ownerVars, noiseSideVars, evidenceVars>>
NotRca == <<part, schemaVars, runbookVars, timelineVars, exitVars, ownerVars, noiseSideVars, evidenceVars>>
NotTimeline == <<part, schemaVars, runbookVars, rcaVars, exitVars, ownerVars, noiseSideVars, evidenceVars>>
NotExit == <<part, schemaVars, runbookVars, rcaVars, timelineVars, ownerVars, noiseSideVars, evidenceVars>>

------------------------------------------------------------------------------
(* Small inputs                                                            *)

MinSeverities == [c \in Channels |-> 2]
Severities == [i \in Incidents |-> 3]
SavedRecords == [l \in ClusterLimits |-> IF l = 1 THEN 2 ELSE 1]
Declared == {<<1, 2>>, <<2, 3>>}

(* Evidence about an alerted node "d" with a neighbour "n": the window is  *)
(* 1..3 and a second two ticks, so the first change may be lost at 1, tie  *)
(* at 2 with the second, or come too late.                                 *)
RcaEvidence ==
  {[alerted |-> A, nodes |-> [x \in N |-> IF x = "d" THEN q ELSE "high"],
    edges |-> {{"d", "n"}},
    changes |-> {[id |-> 1, node |-> n, at |-> t, conf |-> "high"],
                 [id |-> 2, node |-> "d", at |-> u, conf |-> k]}] :
     A \in {{}, {"d"}}, N \in {{"n"}, {"d", "n"}}, q \in {"low", "high"},
     n \in {"d", "n"}, t \in {1, 2, 4}, u \in {0, 3}, k \in {"unknown", "low", "medium", "high"}}

------------------------------------------------------------------------------

Parts == {"leader", "duty", "noise", "clusters", "verdicts", "session", "poller", "stream",
          "audit", "topology", "changes", "connectors", "schema", "runbook", "rca", "timeline", "exit"}

(* Inputs of a component count only where the component runs.              *)
OpsInit ==
  /\ part \in Parts
  /\ LeaderInit
  /\ DutyInit
  /\ ledger = "pg" => stage[alert2] = "acked"
  /\ \A r \in Requests : editing[r].on = Solo       \* the instances are alike
  /\ part # "duty" => ledger = "mem" /\ stage[alert1] = "acked" /\ stage[alert2] = "acked"
  /\ NoiseInit /\ (part # "noise" => clusterLimit = CHOOSE n \in ClusterLimits : TRUE)
  /\ StoreInit
  /\ VerdictInit /\ (part # "verdicts" => sink = "detached")
  /\ SessionInit /\ (part # "session" => model = "none")
  /\ PollerInit /\ StreamInit
  /\ AuditInit /\ (part # "audit" => auditLimit = 0 /\ trail = "pg")
  /\ TopologyInit /\ (part # "topology" => guards.nodes + guards.edges = 0)
  /\ ChangeInit
  /\ HostInit /\ (part # "connectors" => TRUE \notin Range(up))
  /\ SchemaInit /\ (part # "schema" => shape = "bare")
  /\ RunbookInit
  /\ RcaInit
  /\ part # "rca" => summarizer = "none" /\ evidence = CHOOSE e \in RcaEvidence : TRUE
  /\ TimelineInit /\ (part # "timeline" => attached = {})
  /\ ExitInit

OpsNext ==
  \/ part = "leader" /\ LeaderNext /\ UNCHANGED NotLeader
  \/ part = "duty" /\ DutyNext /\ UNCHANGED NotDuty
  \/ part = "noise" /\ NoiseNext /\ UNCHANGED NotNoise
  \/ part = "clusters" /\ StoreNext /\ UNCHANGED NotClusters
  \/ part = "verdicts" /\ VerdictNext /\ UNCHANGED NotVerdicts
  \/ part = "session" /\ SessionNext /\ UNCHANGED NotSession
  \/ part = "poller" /\ PollerNext /\ UNCHANGED NotPoller
  \/ part = "stream" /\ StreamNext /\ UNCHANGED NotStream
  \/ part = "audit" /\ AuditNext /\ UNCHANGED NotAudit
  \/ part = "topology" /\ TopologyNext /\ UNCHANGED NotTopology
  \/ part = "changes" /\ ChangeNext /\ UNCHANGED NotChanges
  \/ part = "connectors" /\ HostNext /\ UNCHANGED NotConnectors
  \/ part = "schema" /\ SchemaNext /\ UNCHANGED NotSchema
  \/ part = "runbook" /\ RunbookNext /\ UNCHANGED NotRunbook
  \/ part = "rca" /\ RcaNext /\ UNCHANGED NotRca
  \/ part = "timeline" /\ TimelineNext /\ UNCHANGED NotTimeline
  \/ part = "exit" /\ ExitNext /\ UNCHANGED NotExit

(* The fairness of the two components with liveness: LeaderFairness and    *)
(* DutyFairness, each where its component runs.                            *)
Leads(A) == part = "leader" /\ A
Escalates(A) == part = "duty" /\ A

OpsFairness ==
  /\ \A i \in Instances : WF_leaderVars(Leads(Elect(i))) /\ WF_leaderVars(Leads(Gate(i)))
  /\ WF_leaderVars(Leads(Reap))
  /\ \A g \in Gateways : WF_dutyVars(Escalates(g \in EscPollers /\ Poll(g)))
  /\ \A r \in Requests :
       WF_dutyVars(Escalates(ReloadStep(r) /\ UNCHANGED <<escalationVars, triggerVars>>))

OpsSpec == OpsInit /\ [][OpsNext]_opsVars /\ OpsFairness

------------------------------------------------------------------------------

(* The type invariants of all components, with the bounds of their guards  *)
(* and the consistency of their locals.                                    *)
OpsTypeOK ==
  /\ part = "leader" => LeaderTypeOK
  /\ part = "duty" => DutyTypeOK
  /\ part = "noise" => NoiseTypeOK
  /\ part = "clusters" => StoreTypeOK
  /\ part = "verdicts" => VerdictTypeOK
  /\ part = "session" => SessionTypeOK
  /\ part = "poller" => PollerTypeOK
  /\ part = "stream" => StreamTypeOK
  /\ part = "audit" => AuditTypeOK
  /\ part = "topology" => TopologyTypeOK
  /\ part = "changes" => ChangeTypeOK
  /\ part = "connectors" => HostTypeOK
  /\ part = "schema" => SchemaTypeOK
  /\ part = "runbook" => RunbookTypeOK
  /\ part = "rca" => RcaTypeOK
  /\ part = "timeline" => TimelineTypeOK
  /\ part = "exit" => ExitTypeOK

(* LeadershipSettles of LeaderElection, where it runs: leadership is handed *)
(* over whatever sessions and processes were lost (leader.go:150-255).     *)
ElectionSettles == part = "leader" => LeadershipSettles

(* EscalatedInTheEnd of Escalation, for one incident: the incidents are    *)
(* alike (escalation.go:219-270).                                          *)
AlertIsEscalated == EscalatedInTheEnd(alert1)
=============================================================================
