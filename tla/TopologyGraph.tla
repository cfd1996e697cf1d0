----------------------------- MODULE TopologyGraph -----------------------------
(***************************************************************************)
(* The topology of the plant: the builder that merges what connectors      *)
(* discover (internal/topology/builder.go), the sink that feeds it under   *)
(* one lock and holds back static edges until their ends are there         *)
(* (cmd/opscopilot/topology_sink.go), and the cuts of the graph that are   *)
(* read: as of a time, causal, and around a node (as_of.go, causal.go,     *)
(* neighborhood.go).                                                       *)
(***************************************************************************)
EXTENDS Integers, FiniteSets, FiniteSetsExt, Functions

CONSTANTS
  NodeKeys,       \* keys, numbers in their lexicographic order
  StaticEdges,    \* edges declared in the configuration
  ObservedTimes,
  NodeLimits,     \* capacities of the two memory guards; 0: none
  EdgeLimits,
  MaxRounds       \* bound on the rounds of discovery

ASSUME TopologyAssumption ==
  /\ NodeKeys \subseteq Nat /\ IsFiniteSet(NodeKeys) /\ ObservedTimes \subseteq Nat
  /\ StaticEdges \subseteq NodeKeys \X NodeKeys
  /\ NodeLimits \subseteq Nat /\ EdgeLimits \subseteq Nat /\ MaxRounds \in Nat

VARIABLES
  nodes,           \* key -> node: [conf, from, seen]
  edges,           \* <<source, target>> -> edge: [conf, from, seen]
  pendingEdges,    \* static edges not in the graph yet
  guards,          \* the capacities: [nodes, edges]
  rounds

topologyVars == <<nodes, edges, pendingEdges, guards, rounds>>

Confidences == 1..3     \* low, medium, high: rank

Evidence == [conf : Confidences, from : ObservedTimes, seen : ObservedTimes]

TopologyTypeOK ==
  /\ DOMAIN nodes \subseteq NodeKeys /\ Range(nodes) \subseteq Evidence
  /\ DOMAIN edges \subseteq NodeKeys \X NodeKeys /\ Range(edges) \subseteq Evidence
  /\ pendingEdges \subseteq StaticEdges
  /\ guards \in [nodes : NodeLimits, edges : EdgeLimits]
  /\ rounds \in 0..MaxRounds

TopologyInit ==
  /\ nodes = [k \in {} |-> {}] /\ edges = [e \in {} |-> {}]
  /\ pendingEdges = StaticEdges
  /\ guards \in [nodes : NodeLimits, edges : EdgeLimits]
  /\ rounds = 0

------------------------------------------------------------------------------
(* Merging                                                                 *)

(* One more observation of some keys: the higher confidence and the        *)
(* earlier start stay, and the time last seen is that of the call, also if *)
(* it is older.                                                            *)
Observe(known, keys, conf, at) ==
  [k \in DOMAIN known \cup keys |->
     IF k \notin keys THEN known[k]
     ELSE IF k \notin DOMAIN known THEN [conf |-> conf, from |-> at, seen |-> at]
     ELSE [conf |-> Max({known[k].conf, conf}), from |-> Min({known[k].from, at}), seen |-> at]]

------------------------------------------------------------------------------
(* The guards                                                              *)

(* Mutant of Hanging: an edge is dropped with its source only.             *)
HangingSource(known, gone) == {e \in DOMAIN known : e[1] \in gone}

Hanging(known, gone) == {e \in DOMAIN known : e[1] \in gone \/ e[2] \in gone}

(* How many are beyond the limit.                                          *)
Excess(known, limit) ==
  IF limit > 0 /\ Cardinality(DOMAIN known) > limit THEN Cardinality(DOMAIN known) - limit ELSE 0

(* evictNodesLocked: those last seen longest ago, of two the lower key.    *)
StaleNodes(known, n) ==
  LET before(k) == {j \in DOMAIN known : known[j].seen < known[k].seen
                                         \/ (known[j].seen = known[k].seen /\ j < k)}
  IN  {k \in DOMAIN known : Cardinality(before(k)) < n}

(* evictEdgesLocked: those last seen longest ago, of two the one that was  *)
(* added first, which is either here.                                      *)
StaleEdges(known, n) ==
  {out \in kSubset(n, DOMAIN known) :
     \A e \in out, f \in DOMAIN known \ out : known[e].seen <= known[f].seen}

(* enforceLimitsLocked, at the end of every call: nodes first, with their  *)
(* edges, then edges.                                                      *)
Limited(ns, es) ==
  LET gone == StaleNodes(ns, Excess(ns, guards.nodes))
      kept == Restrict(es, DOMAIN es \ Hanging(es, gone))
  IN  {<<Restrict(ns, DOMAIN ns \ gone), Restrict(kept, DOMAIN kept \ out)>> :
         out \in StaleEdges(kept, Excess(kept, guards.edges))}

------------------------------------------------------------------------------
(* IngestDiscover, and the gates on what is read                           *)

(* AddEdge refuses an edge with an end missing.                            *)
Placeable(known) == {e \in pendingEdges : {e[1], e[2]} \subseteq DOMAIN known}

(* AddDiscovery of a batch of nodes; then AddEdge of the static edges held *)
(* back, which carry the time of the start: a refused one is tried again   *)
(* with the next batch, one that is placed is off the list for good,       *)
(* whatever the guards do to it.                                           *)
IngestDiscover(batch, at) ==
  /\ rounds < MaxRounds /\ rounds' = rounds + 1
  /\ \E g \in Limited(Observe(nodes, batch, 3, at), edges) :
       LET placed == Placeable(g[1])
       IN  \E full \in Limited(g[1], Observe(g[2], placed, 2, Min(ObservedTimes))) :
             /\ nodes' = full[1] /\ edges' = full[2]
             /\ pendingEdges' = pendingEdges \ placed
  /\ UNCHANGED guards

TopologyNext ==
  \E batch \in SUBSET NodeKeys, at \in ObservedTimes : IngestDiscover(batch, at)

TopologySpec == TopologyInit /\ [][TopologyNext]_topologyVars

(* The part of a graph on some nodes and edges, without hanging edges.     *)
CutEdges(ns, es) == [nodes |-> ns, edges |-> es \ Hanging(edges, DOMAIN nodes \ ns)]

AsOf(t) == CutEdges({k \in DOMAIN nodes : nodes[k].from <= t}, {e \in DOMAIN edges : edges[e].from <= t})

CausalSubgraph ==
  CutEdges({k \in DOMAIN nodes : nodes[k].conf > 1}, {e \in DOMAIN edges : edges[e].conf > 1})

(* Breadth first, both ways along the edges, a level per hop.              *)
Neighborhood(graph, root, depth) ==
  LET adjacent(j, k) == <<j, k>> \in graph.edges \/ <<k, j>> \in graph.edges
      keep[d \in 0..depth] ==
        IF d = 0 THEN {root}
        ELSE keep[d - 1] \cup {k \in graph.nodes : \E j \in keep[d - 1] : adjacent(j, k)}
  IN  [nodes |-> keep[depth], edges |-> {e \in graph.edges : {e[1], e[2]} \subseteq keep[depth]}]

------------------------------------------------------------------------------
(* Properties                                                              *)

NoneHangs(graph) == \A e \in graph.edges : {e[1], e[2]} \subseteq graph.nodes

(* Whatever the guards evict and whenever, no edge is left without its     *)
(* ends (builder.go:200, ADR-007): neither in the graph nor in any cut of  *)
(* it; both guards hold after every call; and a static edge is held back   *)
(* or has been placed, never both.                                         *)
GraphIsSound ==
  /\ NoneHangs([nodes |-> DOMAIN nodes, edges |-> DOMAIN edges])
  /\ \A t \in ObservedTimes, k \in DOMAIN nodes :
       /\ NoneHangs(AsOf(t))
       /\ \A d \in 0..2 : NoneHangs(Neighborhood(CausalSubgraph, k, d))
  /\ Excess(nodes, guards.nodes) = 0 /\ Excess(edges, guards.edges) = 0
  /\ pendingEdges \cap DOMAIN edges = {}
===============================================================================
