----------------------------- MODULE BoundedRun -----------------------------
(***************************************************************************)
(* What one run of a compiled team promises the rest of the platform, with *)
(* the ledgers, the reviewers and the plan left out: a run plans, performs *)
(* rounds of work under a budget, goes back to planning a bounded number   *)
(* of times, synthesises one answer and stops, or fails.  DualLedger is    *)
(* shown to implement this specification.                                  *)
(***************************************************************************)
EXTENDS Naturals

CONSTANTS
    Budget,      \* rounds of work a run may perform in all
    MaxReplans   \* times a run may go back to planning

VARIABLES
    phase,       \* what the run is doing
    rounds,      \* rounds of work performed so far
    replans      \* returns to planning so far

vars == <<phase, rounds, replans>>

Phases == {"planning", "working", "synthesis", "done", "failed"}

Running == {"planning", "working", "synthesis"}

TypeOK == /\ phase \in Phases
          /\ rounds \in 0..Budget
          /\ replans \in 0..MaxReplans

Init == phase = "planning" /\ rounds = 0 /\ replans = 0

(* A plan leads to work, or straight to the answer when nothing is left. *)
Plan == /\ phase = "planning"
        /\ phase' \in {"working", "synthesis"}
        /\ UNCHANGED <<rounds, replans>>

(* One more round; with nobody to do it the run goes to the answer. *)
Round == /\ phase = "working"
         /\ rounds < Budget
         /\ rounds' = rounds + 1
         /\ phase' \in {"working", "synthesis"}
         /\ UNCHANGED replans

Replan == /\ phase = "working"
          /\ replans < MaxReplans
          /\ replans' = replans + 1
          /\ phase' = "planning"
          /\ UNCHANGED rounds

StopWorking == /\ phase = "working"
               /\ phase' = "synthesis"
               /\ UNCHANGED <<rounds, replans>>

Answer == /\ phase = "synthesis"
          /\ phase' = "done"
          /\ UNCHANGED <<rounds, replans>>

Fail == /\ phase \in Running
        /\ phase' = "failed"
        /\ UNCHANGED <<rounds, replans>>

Next == Plan \/ Round \/ Replan \/ StopWorking \/ Answer \/ Fail

Safety == Init /\ [][Next]_vars

(* A run that has started is driven until it is done or has failed. *)
Ends == <>(phase \in {"done", "failed"})

Spec == Safety /\ Ends
=============================================================================
