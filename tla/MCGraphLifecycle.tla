-------------------------- MODULE MCGraphLifecycle --------------------------
(* GraphLifecycle with two teams that share their lead and a canvas that    *)
(* does not validate, three requests and two loads.                         *)
EXTENDS GraphLifecycle, TLC

CONSTANTS lead, writer, coder, q1, q2, q3, l1, l2

MCKeys == {lead, writer, coder}

Node(key, node_type) == [key |-> key, node_type |-> node_type]

Leads(key, channel) ==
    [source |-> lead, target |-> key, channel |-> channel, bidirectional |-> FALSE]

Writers ==
    [orchestrator |-> lead,
     nodes |-> <<Node(lead, "orchestrator"), Node(writer, "specialist")>>,
     edges |-> <<Leads(writer, "subtask_dispatch")>>]

(* The orphan search is content with a node that only reviews. *)
Coders ==
    [orchestrator |-> lead,
     nodes |-> <<Node(lead, "orchestrator"), Node(coder, "critic")>>,
     edges |-> <<Leads(coder, "dialectical_review")>>]

(* The lead is to be reviewed by a node that the canvas does not have. *)
Broken ==
    [orchestrator |-> lead,
     nodes |-> <<Node(lead, "orchestrator")>>,
     edges |-> <<Leads(coder, "dialectical_review")>>]

MCCanvases == {Writers, Coders, Broken}

MCRequests == {q1, q2, q3}

MCLoads == {l1, l2}

(* Requests have the same choices, and so have loads. *)
Interchangeable == Permutations(MCRequests) \cup Permutations(MCLoads)
=============================================================================
