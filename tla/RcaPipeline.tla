------------------------------ MODULE RcaPipeline ------------------------------
(***************************************************************************)
(* The analysis of an incident: six rules over the evidence gathered for   *)
(* the time of the failure (internal/rca/rca.go, steps.go), run by the     *)
(* orchestrator within a time limit (cmd/opscopilot/rca_orchestrator.go).  *)
(* Summaries are left out; a finding is its step, confidence and change.   *)
(* Times are in ticks, finer than the seconds a change is handed over in.  *)
(***************************************************************************)
EXTENDS Integers, Sequences, FiniteSets, SequencesExt, Orders

CONSTANTS
  RcaInputs,        \* what is known: alerted, confidence of nodes, edges, changes
  T0,               \* time of the failure
  RcaWindow,        \* OPS_RCA_WINDOW, or its default
  TicksPerSecond,
  MaxFindings,      \* OPS_RCA_MAX_FINDINGS, or its default
  NoChange          \* Ref of a finding about no change; changes are numbered

(* The id of a change is its idempotency key.                              *)
ASSUME RcaAssumption ==
  /\ T0 \in Nat /\ RcaWindow \in Nat \ {0} /\ TicksPerSecond \in Nat \ {0}
  /\ MaxFindings \in Nat \ {0} /\ NoChange \in Nat
  /\ \A in \in RcaInputs :
       /\ IsFiniteSet(in.changes)
       /\ \A c \in in.changes : c.id \in Nat \ {NoChange} /\ c.at \in Int
       /\ \A c, d \in in.changes : c.id = d.id => c = d

VARIABLES
  evidence,     \* what is known when this analysis begins
  summarizer,   \* the language model: "none", "answers" or "fails"
  rcaStep,      \* the step to run next; 7 when all have run
  outcome,      \* "running", "reported" or "abandoned"
  findings,     \* of the steps so far
  report        \* what the orchestrator returns and audits

rcaVars == <<evidence, summarizer, rcaStep, outcome, findings, report>>

StepNames == <<"collect", "hypothesize", "verify", "attribution", "conclude", "recommend">>

RcaConfidences == {"high", "medium", "low"}

Finding == [step : ToSet(StepNames), conf : RcaConfidences, ref : Nat]

NoReport == [roots |-> {}, kept |-> <<>>, truncated |-> 0]

RcaTypeOK ==
  /\ evidence \in RcaInputs
  /\ summarizer \in {"none", "answers", "fails"}
  /\ rcaStep \in 1..7 /\ outcome \in {"running", "reported", "abandoned"}
  /\ ToSet(findings) \subseteq Finding /\ ToSet(report.kept) \subseteq ToSet(findings)
  /\ report.truncated \in Nat

RcaInit ==
  /\ evidence \in RcaInputs
  /\ summarizer \in {"none", "answers", "fails"}
  /\ rcaStep = 1 /\ outcome = "running" /\ findings = <<>> /\ report = NoReport

------------------------------------------------------------------------------
(* The evidence of the steps                                               *)

(* A change is handed over with its time in whole seconds.                 *)
WholeSecond(at) == at - (at % TicksPerSecond)

(* The changes of the window, picked by their time and handed over.        *)
Gathered ==
  {[id |-> c.id, node |-> c.node, at |-> WholeSecond(c.at), conf |-> c.conf] :
     c \in {d \in evidence.changes : T0 - RcaWindow <= d.at /\ d.at <= T0}}

------------------------------------------------------------------------------
(* Helpers of the steps                                                    *)

(* An unknown confidence counts as low.                                    *)
ConfRank(c) == CASE c = "high" -> 3 [] c = "medium" -> 2 [] OTHER -> 1

NormalizeConf(c) == IF c \in RcaConfidences THEN c ELSE "low"

MinConf(a, b) == NormalizeConf(IF ConfRank(a) <= ConfRank(b) THEN a ELSE b)

Downgrade(c) == IF c = "high" THEN "medium" ELSE "low"

(* A node that is not in the evidence has the least confidence.            *)
ConfOf(node) == IF node \in DOMAIN evidence.nodes THEN evidence.nodes[node] ELSE "low"

InDomain(node) == node \in evidence.alerted

NeighborOf(node) ==
  \E e \in evidence.edges : node \in e /\ (e \ {node}) \cap evidence.alerted # {}

WithinWindow(at) == at <= T0 /\ (RcaWindow > 0 => at >= T0 - RcaWindow)

Change(ref) == CHOOSE c \in Gathered : c.id = ref

(* The findings at some places, in their order.                            *)
Earlier(j, k) == j < k

Picked(places) ==
  LET sorted == Sorted(places, Earlier) IN [k \in DOMAIN sorted |-> findings[sorted[k]]]

Of(step) ==
  Picked({k \in DOMAIN findings : findings[k].step = step /\ findings[k].ref # NoChange})

Plain(step, conf) == <<[step |-> step, conf |-> conf, ref |-> NoChange]>>

------------------------------------------------------------------------------
(* The steps                                                               *)

(* How complete the evidence is for the alerted nodes.                     *)
Collect ==
  Plain("collect",
        IF evidence.alerted = {} THEN "low"
        ELSE IF \E n \in evidence.alerted : ConfRank(ConfOf(n)) = 1 THEN "medium" ELSE "high")

HypothesisConf(c) ==
  LET conf == MinConf(c.conf, ConfOf(c.node)) IN
  IF InDomain(c.node) THEN conf ELSE Downgrade(conf)

(* The changes that touch the domain or a neighbour.  The step looks at    *)
(* the window again, so a change in the part of a second it begins in is   *)
(* lost.                                                                   *)
Related ==
  {c \in Gathered :
     /\ WithinWindow(c.at)
     /\ InDomain(c.node) \/ (NeighborOf(c.node) /\ HypothesisConf(c) # "low")}

Hypothesize ==
  LET Before(f, g) == \/ ConfRank(f.conf) > ConfRank(g.conf)
                      \/ f.conf = g.conf /\ f.ref < g.ref IN
  IF Related = {} THEN Plain("hypothesize", "low")
  ELSE Sorted({[step |-> "hypothesize", conf |-> HypothesisConf(c), ref |-> c.id] :
                 c \in Related}, Before)

VerdictConf(c) ==
  LET gated == ConfRank(c.conf) > 1 /\ ConfRank(ConfOf(c.node)) > 1 IN
  IF ~WithinWindow(c.at) \/ ~gated \/ ~InDomain(c.node) THEN "low"
  ELSE IF c.conf = "high" THEN "high" ELSE "medium"

(* Mutant of Verify: the gate on low confidence is left out.               *)
VerifyUngated ==
  LET Verdict(f) == [step |-> "verify", ref |-> f.ref,
                     conf |-> IF InDomain(Change(f.ref).node) THEN Change(f.ref).conf ELSE "low"] IN
  IF Of("hypothesize") = <<>> THEN Plain("verify", "low")
  ELSE [k \in DOMAIN Of("hypothesize") |-> Verdict(Of("hypothesize")[k])]

Verify ==
  LET Verdict(f) == [step |-> "verify", ref |-> f.ref, conf |-> VerdictConf(Change(f.ref))] IN
  IF Of("hypothesize") = <<>> THEN Plain("verify", "low")
  ELSE [k \in DOMAIN Of("hypothesize") |-> Verdict(Of("hypothesize")[k])]

(* The candidates by confidence, then nearness to the failure.             *)
MoreSuspect(f, g) ==
  LET c == Change(f.ref)
      d == Change(g.ref) IN
  \/ ConfRank(f.conf) > ConfRank(g.conf)
  \/ f.conf = g.conf /\ c.at > d.at
  \/ f.conf = g.conf /\ c.at = d.at /\ c.id < d.id

Attribute ==
  LET cands == {[f EXCEPT !.step = "attribution"] :
                  f \in {g \in ToSet(Of("verify")) : g.conf # "low"}} IN
  IF cands = {} THEN Plain("attribution", "low") ELSE Sorted(cands, MoreSuspect)

Conclude ==
  Plain("conclude", IF \E f \in ToSet(Of("attribution")) : f.conf = "high" THEN "high" ELSE "medium")

Recommend ==
  IF Of("attribution") = <<>> THEN Plain("recommend", "low")
  ELSE <<[Head(Of("attribution")) EXCEPT !.step = "recommend"]>>

StepResult(k) ==
  CASE k = 1 -> Collect [] k = 2 -> Hypothesize [] k = 3 -> Verify
    [] k = 4 -> Attribute [] k = 5 -> Conclude [] k = 6 -> Recommend

------------------------------------------------------------------------------

(* One step of the pipeline.  Without a model, and when the model fails    *)
(* (llm_summarizer.go:14), the conclusion is pending and the analysis goes *)
(* on.                                                                     *)
RunStep ==
  /\ outcome = "running" /\ rcaStep <= 6
  /\ rcaStep' = rcaStep + 1
  /\ findings' = IF StepNames[rcaStep] = "conclude" /\ summarizer # "answers" THEN findings
                 ELSE findings \o StepResult(rcaStep)
  /\ UNCHANGED <<evidence, summarizer, outcome, report>>

(* The evidence cannot be had, or the time limit ends the analysis for the *)
(* caller; what the pipeline does after that is dropped.                   *)
AnalysisTimesOut ==
  /\ outcome = "running"
  /\ outcome' = "abandoned"
  /\ UNCHANGED <<evidence, summarizer, rcaStep, findings, report>>

(* The places of the findings that are kept: the most confident, then the  *)
(* earliest.                                                               *)
Better(j, k) ==
  \/ ConfRank(findings[j].conf) > ConfRank(findings[k].conf)
  \/ findings[j].conf = findings[k].conf /\ j < k

TruncatedPlaces ==
  {k \in DOMAIN findings :
     MaxFindings > 0 => Cardinality({j \in DOMAIN findings : Better(j, k)}) < MaxFindings}

(* The report, and its audit entry: the root causes of all findings, the   *)
(* findings cut to the limit in the order of the steps.                    *)
Report ==
  /\ outcome = "running" /\ rcaStep = 7
  /\ outcome' = "reported"
  /\ LET kept == Picked(TruncatedPlaces) IN
       report' = [roots |-> {f.ref : f \in {g \in ToSet(findings) :
                                              g.step = "attribution" /\ g.conf = "high"}},
                  kept |-> kept,
                  truncated |-> Len(findings) - Len(kept)]
  /\ UNCHANGED <<evidence, summarizer, rcaStep, findings>>

RcaNext == RunStep \/ AnalysisTimesOut \/ Report

RcaSpec == RcaInit /\ [][RcaNext]_rcaVars

------------------------------------------------------------------------------
(* Properties                                                              *)

(* Through the chain of steps, the root causes of a report are exactly the *)
(* changes that hit an alerted node in the window with high confidence and *)
(* a node that is not low (rca.go:131 "宁缺毋滥"); the recommendation names    *)
(* the most suspect candidate; there is a conclusion only if the model     *)
(* answered (steps.go:9); and no finding that was cut is more confident    *)
(* than one that was kept.  In the window is a change recorded in it, but  *)
(* one whose second began before the window is not; nearest to the failure *)
(* goes by whole seconds, and changes of one second by their ids.          *)
Eligible(conf) ==
  {c \in evidence.changes :
     /\ T0 - RcaWindow <= WholeSecond(c.at) /\ c.at <= T0
     /\ c.node \in evidence.alerted \cap DOMAIN evidence.nodes
     /\ c.conf \in conf /\ evidence.nodes[c.node] \in {"medium", "high"}}

LessSuspect(c, d) ==
  \/ c.conf = "medium" /\ d.conf = "high"
  \/ c.conf = d.conf /\ WholeSecond(c.at) < WholeSecond(d.at)
  \/ c.conf = d.conf /\ WholeSecond(c.at) = WholeSecond(d.at) /\ c.id >= d.id

RootCausesAreBacked ==
  outcome = "reported" =>
    LET Named(step) == {f.ref : f \in {g \in ToSet(findings) : g.step = step}}
        suspects == Eligible({"medium", "high"}) IN
    /\ report.roots = {c.id : c \in Eligible({"high"})}
    /\ Named("recommend") =
         IF suspects = {} THEN {NoChange}
         ELSE {c.id : c \in {d \in suspects : \A e \in suspects : LessSuspect(e, d)}}
    /\ (Named("conclude") # {}) = (summarizer = "answers")
    /\ \A g \in ToSet(findings) \ ToSet(report.kept), f \in ToSet(report.kept) :
         ConfRank(g.conf) <= ConfRank(f.conf)
===============================================================================
