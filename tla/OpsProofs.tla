------------------------------- MODULE OpsProofs -------------------------------
(***************************************************************************)
(* The run of the components beside link A: a behaviour of OpsSpec is one  *)
(* of every component, of the one named by part with its steps, of the     *)
(* others standing still.  So what is proved of a component, for any       *)
(* values of its constants, holds where the run checks it.                 *)
(***************************************************************************)
EXTENDS MCOperations, ServiceProofs, NoiseProofs, RecordsProofs

(* A step of the run is one of the component or leaves it alone.           *)
LEMMA StepsAreTheirs ==
  ASSUME [OpsNext]_opsVars
  PROVE
    /\ [LeaderNext]_leaderVars
    /\ [DutyNext]_dutyVars
    /\ [NoiseNext]_clusterVars
    /\ [StoreNext]_clusterStoreVars
    /\ [VerdictNext]_verdictVars
    /\ [SessionNext]_sessionVars
    /\ [PollerNext]_pollerVars
    /\ [StreamNext]_streamVars
    /\ [AuditNext]_auditVars
    /\ [TopologyNext]_topologyVars
    /\ [ChangeNext]_changeVars
    /\ [HostNext]_hostVars
    /\ [SchemaNext]_schemaVars
    /\ [RunbookNext]_runbookVars
    /\ [RcaNext]_rcaVars
    /\ [TimelineNext]_timelineVars
    /\ [ExitNext]_exitVars
<1> USE DEF OpsNext, opsVars, ownerVars, noiseSideVars, evidenceVars, reportVars,
            NotLeader, NotDuty, NotNoise, NotClusters, NotVerdicts, NotSession,
            NotPoller, NotStream, NotAudit, NotTopology, NotChanges, NotConnectors,
            NotSchema, NotRunbook, NotRca, NotTimeline, NotExit
<1>1. [LeaderNext]_leaderVars OBVIOUS
<1>2. [DutyNext]_dutyVars OBVIOUS
<1>3. [NoiseNext]_clusterVars OBVIOUS
<1>4. [StoreNext]_clusterStoreVars OBVIOUS
<1>5. [VerdictNext]_verdictVars OBVIOUS
<1>6. [SessionNext]_sessionVars OBVIOUS
<1>7. [PollerNext]_pollerVars OBVIOUS
<1>8. [StreamNext]_streamVars OBVIOUS
<1>9. [AuditNext]_auditVars OBVIOUS
<1>10. [TopologyNext]_topologyVars OBVIOUS
<1>11. [ChangeNext]_changeVars OBVIOUS
<1>12. [HostNext]_hostVars OBVIOUS
<1>13. [SchemaNext]_schemaVars OBVIOUS
<1>14. [RunbookNext]_runbookVars OBVIOUS
<1>15. [RcaNext]_rcaVars OBVIOUS
<1>16. [TimelineNext]_timelineVars OBVIOUS
<1>17. [ExitNext]_exitVars OBVIOUS
<1> QED BY <1>1, <1>2, <1>3, <1>4, <1>5, <1>6, <1>7, <1>8, <1>9,
           <1>10, <1>11, <1>12, <1>13, <1>14, <1>15, <1>16, <1>17

(* Every component behaves as specified.                                   *)
LEMMA ComponentsBehave ==
  OpsSpec =>
    /\ LeaderSpec
    /\ DutySpec
    /\ NoiseSpec
    /\ StoreSpec
    /\ VerdictSpec
    /\ SessionSpec
    /\ PollerSpec
    /\ StreamSpec
    /\ AuditSpec
    /\ TopologySpec
    /\ ChangeSpec
    /\ HostSpec
    /\ SchemaSpec
    /\ RunbookSpec
    /\ RcaSpec
    /\ TimelineSpec
    /\ ExitSpec
<1> DEFINE Starts ==
             /\ LeaderInit
             /\ DutyInit
             /\ NoiseInit
             /\ StoreInit
             /\ VerdictInit
             /\ SessionInit
             /\ PollerInit
             /\ StreamInit
             /\ AuditInit
             /\ TopologyInit
             /\ ChangeInit
             /\ HostInit
             /\ SchemaInit
             /\ RunbookInit
             /\ RcaInit
             /\ TimelineInit
             /\ ExitInit
           Moves ==
             /\ [LeaderNext]_leaderVars
             /\ [DutyNext]_dutyVars
             /\ [NoiseNext]_clusterVars
             /\ [StoreNext]_clusterStoreVars
             /\ [VerdictNext]_verdictVars
             /\ [SessionNext]_sessionVars
             /\ [PollerNext]_pollerVars
             /\ [StreamNext]_streamVars
             /\ [AuditNext]_auditVars
             /\ [TopologyNext]_topologyVars
             /\ [ChangeNext]_changeVars
             /\ [HostNext]_hostVars
             /\ [SchemaNext]_schemaVars
             /\ [RunbookNext]_runbookVars
             /\ [RcaNext]_rcaVars
             /\ [TimelineNext]_timelineVars
             /\ [ExitNext]_exitVars
<1>1. OpsInit => Starts BY DEF OpsInit
<1>2. [OpsNext]_opsVars => Moves BY StepsAreTheirs
<1>3. OpsSpec => OpsInit /\ [][OpsNext]_opsVars BY PTL DEF OpsSpec
<1>4. OpsSpec => LeaderSpec BY <1>1, <1>2, <1>3, PTL DEF LeaderSpec
<1>5. OpsSpec => DutySpec BY <1>1, <1>2, <1>3, PTL DEF DutySpec
<1>6. OpsSpec => NoiseSpec BY <1>1, <1>2, <1>3, PTL DEF NoiseSpec
<1>7. OpsSpec => StoreSpec BY <1>1, <1>2, <1>3, PTL DEF StoreSpec
<1>8. OpsSpec => VerdictSpec BY <1>1, <1>2, <1>3, PTL DEF VerdictSpec
<1>9. OpsSpec => SessionSpec BY <1>1, <1>2, <1>3, PTL DEF SessionSpec
<1>10. OpsSpec => PollerSpec BY <1>1, <1>2, <1>3, PTL DEF PollerSpec
<1>11. OpsSpec => StreamSpec BY <1>1, <1>2, <1>3, PTL DEF StreamSpec
<1>12. OpsSpec => AuditSpec BY <1>1, <1>2, <1>3, PTL DEF AuditSpec
<1>13. OpsSpec => TopologySpec BY <1>1, <1>2, <1>3, PTL DEF TopologySpec
<1>14. OpsSpec => ChangeSpec BY <1>1, <1>2, <1>3, PTL DEF ChangeSpec
<1>15. OpsSpec => HostSpec BY <1>1, <1>2, <1>3, PTL DEF HostSpec
<1>16. OpsSpec => SchemaSpec BY <1>1, <1>2, <1>3, PTL DEF SchemaSpec
<1>17. OpsSpec => RunbookSpec BY <1>1, <1>2, <1>3, PTL DEF RunbookSpec
<1>18. OpsSpec => RcaSpec BY <1>1, <1>2, <1>3, PTL DEF RcaSpec
<1>19. OpsSpec => TimelineSpec BY <1>1, <1>2, <1>3, PTL DEF TimelineSpec
<1>20. OpsSpec => ExitSpec BY <1>1, <1>2, <1>3, PTL DEF ExitSpec
<1> QED BY <1>4, <1>5, <1>6, <1>7, <1>8, <1>9, <1>10, <1>11, <1>12,
           <1>13, <1>14, <1>15, <1>16, <1>17, <1>18, <1>19, <1>20

(* Type correctness of the components beside link A, each where it runs:   *)
(* the locals of all calls fit together, and no buffer, memory limit or    *)
(* history exceeds its bound.                                              *)
THEOREM OpsTypeCorrect == OpsSpec => []OpsTypeOK
<1> DEFINE Typed ==
             /\ LeaderTypeOK
             /\ DutyTypeOK
             /\ NoiseTypeOK
             /\ StoreTypeOK
             /\ VerdictTypeOK
             /\ SessionTypeOK
             /\ PollerTypeOK
             /\ StreamTypeOK
             /\ AuditTypeOK
             /\ TopologyTypeOK
             /\ ChangeTypeOK
             /\ HostTypeOK
             /\ SchemaTypeOK
             /\ RunbookTypeOK
             /\ RcaTypeOK
             /\ TimelineTypeOK
             /\ ExitTypeOK
<1>1. Typed => OpsTypeOK BY DEF OpsTypeOK
<1>2. OpsSpec => []Typed
  BY ComponentsBehave, PTL, LeaderTypeCorrect, DutyTypeCorrect, NoiseTypeCorrect, ClusterStoreTypeCorrect,
     VerdictTypeCorrect, SessionTypeCorrect, PollerTypeCorrect, StreamTypeCorrect,
     AuditTypeCorrect, TopologyTypeCorrect, ChangeTypeCorrect, HostTypeCorrect,
     SchemaTypeCorrect, RunbookTypeCorrect, RcaTypeCorrect, TimelineTypeCorrect, ExitTypeCorrect
<1> QED BY <1>1, <1>2, PTL
================================================================================
