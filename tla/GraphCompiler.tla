---------------------------- MODULE GraphCompiler ----------------------------
(***************************************************************************)
(* The DSL of a team, schemas/dsl.py, and the errors that                  *)
(* services/graph_compiler.validate_dsl finds in one.  Warnings reject     *)
(* nothing and are left out, and of a node only its key and role are kept. *)
(***************************************************************************)
EXTENDS Naturals, Sequences, FiniteSets

CONSTANT Keys   \* node keys a document may use

NodeTypes == {"orchestrator", "specialist", "critic", "researcher", "developer", "verifier", "synthesizer"}

Channels == {"subtask_dispatch", "dialectical_review", "peer_collaboration", "escalation", "synthesis"}

Edge == [source : Keys, target : Keys, channel : Channels, bidirectional : BOOLEAN]

(* GraphDSL as pydantic lets it in: at least one node, no edge from a node   *)
(* to itself; keys may repeat, and edges may name what is not there.        *)
Documents ==
    {d \in [orchestrator : Keys,
            nodes : Seq([key : Keys, node_type : NodeTypes]),
            edges : Seq(Edge)] :
        d.nodes # <<>> /\ \A i \in DOMAIN d.edges : d.edges[i].source # d.edges[i].target}

NodeKeys(d) == {d.nodes[i].key : i \in DOMAIN d.nodes}

Orchestrators(d) == {i \in DOMAIN d.nodes : d.nodes[i].node_type = "orchestrator"}

(* GraphDSL.reviewers_for, in any order. *)
reviewers_for(d, key) ==
    LET reviews == {i \in DOMAIN d.edges : d.edges[i].channel = "dialectical_review"}
    IN {d.edges[i].target : i \in {j \in reviews : d.edges[j].source = key}}
       \cup {d.edges[i].source : i \in {j \in reviews : d.edges[j].bidirectional /\ d.edges[j].target = key}}
-----------------------------------------------------------------------------
(* validate_dsl *)

UnknownEndpoint(d) ==
    \E i \in DOMAIN d.edges : {d.edges[i].source, d.edges[i].target} \ NodeKeys(d) # {}

(* No edge leads out of S. *)
Closed(d, S) ==
    \A i \in DOMAIN d.edges :
        /\ d.edges[i].source \in S => d.edges[i].target \in S
        /\ d.edges[i].bidirectional /\ d.edges[i].target \in S => d.edges[i].source \in S

(* What the stack of the orphan search has visited when it is empty. *)
Reachable(d, root) ==
    {k \in NodeKeys(d) : \A S \in SUBSET NodeKeys(d) : root \in S /\ Closed(d, S) => k \in S}

(* The first node that is an orchestrator. *)
Root(d) == CHOOSE i \in Orchestrators(d) : \A j \in Orchestrators(d) : i <= j

ErrorCodes == {"duplicate_node_key", "orchestrator_count", "orchestrator_key_mismatch",
               "unknown_edge_endpoint", "duplicate_dispatch_edge", "orphan_node"}

(* Mutant: the endpoints of edges are not looked up. *)
HasError_AnyEndpoint(d, code) ==
    CASE code = "duplicate_node_key" ->
            \E i, j \in DOMAIN d.nodes : i # j /\ d.nodes[i].key = d.nodes[j].key
      [] code = "orchestrator_count" ->
            Cardinality(Orchestrators(d)) # 1
      [] code = "orchestrator_key_mismatch" ->
            \E i \in Orchestrators(d) : Orchestrators(d) = {i} /\ d.nodes[i].key # d.orchestrator
      [] code = "unknown_edge_endpoint" ->
            FALSE
      [] code = "duplicate_dispatch_edge" ->
            \E i, j \in DOMAIN d.edges :
                /\ i # j /\ d.edges[i].channel = "subtask_dispatch" /\ d.edges[j].channel = "subtask_dispatch"
                /\ d.edges[i].source = d.edges[j].source /\ d.edges[i].target = d.edges[j].target
      [] code = "orphan_node" ->
            Orchestrators(d) # {} /\ Reachable(d, d.nodes[Root(d)].key) # NodeKeys(d)

(* The search for orphans follows edges of every channel. *)
HasError(d, code) ==
    CASE code = "duplicate_node_key" ->
            \E i, j \in DOMAIN d.nodes : i # j /\ d.nodes[i].key = d.nodes[j].key
      [] code = "orchestrator_count" ->
            Cardinality(Orchestrators(d)) # 1
      [] code = "orchestrator_key_mismatch" ->
            \E i \in Orchestrators(d) : Orchestrators(d) = {i} /\ d.nodes[i].key # d.orchestrator
      [] code = "unknown_edge_endpoint" ->
            UnknownEndpoint(d)
      [] code = "duplicate_dispatch_edge" ->
            \E i, j \in DOMAIN d.edges :
                /\ i # j /\ d.edges[i].channel = "subtask_dispatch" /\ d.edges[j].channel = "subtask_dispatch"
                /\ d.edges[i].source = d.edges[j].source /\ d.edges[i].target = d.edges[j].target
      [] code = "orphan_node" ->
            /\ Orchestrators(d) # {} /\ ~UnknownEndpoint(d)
            /\ Reachable(d, d.nodes[Root(d)].key) # NodeKeys(d)

validate_dsl(d) == {code \in ErrorCodes : HasError(d, code)}
-----------------------------------------------------------------------------
(* What DualLedger and NativeOrchestrator assume of the team they are given: *)
(* its orchestrator is one of its nodes, a node is reviewed by other nodes   *)
(* of the team, and there is no part of it that no edge leads to.           *)
IsTeam(d) ==
    /\ d.orchestrator \in NodeKeys(d)
    /\ \A k \in NodeKeys(d) : reviewers_for(d, k) \subseteq NodeKeys(d) \ {k}
    /\ \A S \in SUBSET NodeKeys(d) : d.orchestrator \in S /\ Closed(d, S) => S = NodeKeys(d)
=============================================================================
