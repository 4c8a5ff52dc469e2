----------------------------- MODULE DualLedger -----------------------------
(***************************************************************************)
(* The dual-ledger engine of src/app/engine: one invocation of the         *)
(* StateGraph that factory.build_state_graph wires from a team's DSL.      *)
(* Every action is one node function of nodes.py followed by the           *)
(* conditional edge of routers.py that leaves it, which is what LangGraph  *)
(* executes and checkpoints as one superstep.                              *)
(*                                                                         *)
(* The language model is the environment: what a plan contains and what a  *)
(* reviewer says is chosen freely among what _normalise_plan and the       *)
(* verdict parsing let through.  The text of an artifact is abstracted to  *)
(* the number of the round (step_count) that produced it, 0 for no         *)
(* artifact, and that of a critique to the round it criticises, so that a  *)
(* property can tell which attempt a stored artifact comes from.           *)
(***************************************************************************)
EXTENDS Integers, Sequences, FiniteSets, Sublists

CONSTANTS
    Specialists,     \* node keys of the team, without the orchestrator
    Orchestrator,    \* the orchestrator's node key
    Reviewers,       \* DSL.reviewers_for: the reviewers of each node, in edge order
    MilestoneIds,    \* ids the planning model may give to milestones
    None,            \* Python's None, where an id is expected
    MaxSteps,        \* orchestrator.max_steps
    MaxMilestones,   \* orchestrator.max_milestones
    MaxReviews,      \* orchestrator.max_review_iterations
    StallLimit,      \* orchestrator.stall_limit
    RecursionLimits  \* values settings.LANGGRAPH_RECURSION_LIMIT may be deployed with

(* A plan without specialists names the orchestrator (_normalise_plan). *)
Assignable == IF Specialists = {} THEN {Orchestrator} ELSE Specialists

Nodes == Specialists \cup {Orchestrator}

(* The bounds of OrchestratorSpec, and DSLEdge's ban on self loops. *)
ASSUME DSLAssumption ==
    /\ Orchestrator \notin Specialists
    /\ None \notin MilestoneIds
    /\ MaxSteps \in 1..200
    /\ MaxMilestones \in Nat \ {0}
    /\ MaxReviews \in Nat
    /\ StallLimit \in Nat \ {0}
    /\ RecursionLimits \subseteq Nat
    /\ Reviewers \in [Nodes -> Seq(Nodes)]
    /\ \A k \in Nodes : \A n \in DOMAIN Reviewers[k] : Reviewers[k][n] # k

MaxReplans == 2      \* the literal of routers.route_review

VARIABLES
    pc,               \* the node LangGraph runs next, or how the run ended
    task_ledger,      \* outer loop: milestones, stall_count, replan_count
    progress_ledger,  \* inner loop: the milestone being worked on
    step_count,       \* rounds dispatched so far
    recursion_limit,  \* the deployed limit, fixed for the invocation
    supersteps,       \* supersteps LangGraph has run in this invocation
    endorsed,         \* history: rounds whose artifact a review accepted
    objectors         \* history: who rejected the current milestone since its first attempt

vars == <<pc, task_ledger, progress_ledger, step_count, recursion_limit,
          supersteps, endorsed, objectors>>

Statuses == {"pending", "in_progress", "verified", "rejected", "failed", "skipped"}

Resolved == {"verified", "skipped"}

Milestone == [id : MilestoneIds, assigned_node : Assignable, status : Statuses,
              artifact : Nat, review_note : {"", "reservations"}]

TaskLedger == [milestones : Seq(Milestone), stall_count : Nat, replan_count : Nat]

ProgressLedger == [current : MilestoneIds \cup {None}, assigned_node : Assignable \cup {None},
                   artifact : Nat, review_status : {"awaiting_execution", "in_review", "accepted", "rejected"},
                   critique : Nat, attempt : Nat,
                   completed : SUBSET MilestoneIds, failed : SUBSET MilestoneIds]

Ended == {"END", "failed", "out_of_steps"}

TypeOK ==
    /\ pc \in {"orchestrator_planner", "dispatch_subtask", "person", "dialectical_review",
               "advance_milestone", "stall_recovery", "orchestrator_synthesizer"} \cup Ended
    /\ task_ledger \in TaskLedger
    /\ progress_ledger \in ProgressLedger
    /\ step_count \in Nat
    /\ recursion_limit \in RecursionLimits
    /\ supersteps \in Nat
    /\ endorsed \subseteq Nat
    /\ objectors \subseteq Nodes
-----------------------------------------------------------------------------
(* state.py *)

new_task_ledger == [milestones |-> <<>>, stall_count |-> 0, replan_count |-> 0]

new_progress_ledger ==
    [current |-> None, assigned_node |-> None, artifact |-> 0,
     review_status |-> "awaiting_execution", critique |-> 0, attempt |-> 0,
     completed |-> {}, failed |-> {}]

(* Position of the first milestone that still needs work: at most one. *)
next_pending_milestone(ms) ==
    {i \in DOMAIN ms : /\ ms[i].status \notin Resolved
                       /\ \A j \in 1..(i - 1) : ms[j].status \in Resolved}

all_milestones_resolved(ms) == \A i \in DOMAIN ms : ms[i].status \in Resolved

(* Every milestone that carries the id is rewritten, not only the first. *)
MarkAll(ms, id, status) ==
    [i \in DOMAIN ms |-> IF ms[i].id = id THEN [ms[i] EXCEPT !.status = status] ELSE ms[i]]
-----------------------------------------------------------------------------
(* nodes._normalise_plan and the part of the old ledger a replan keeps *)

(* What _normalise_plan lets through: between one and MaxMilestones pending *)
(* milestones, each given to a specialist.  Nothing makes ids distinct, from *)
(* each other or from those of milestones that are kept.                   *)
NewMilestone(id, node) ==
    [id |-> id, assigned_node |-> node, status |-> "pending", artifact |-> 0, review_note |-> ""]

NormalisedPlans ==
    UNION {{[i \in 1..n |-> NewMilestone(ids[i], nodes[i])] :
               ids \in [1..n -> MilestoneIds], nodes \in [1..n -> Assignable]} :
           n \in 1..MaxMilestones}

(* Mutant: the replan forgets what was verified. *)
KeptPositions_Forgotten(ms) == {}

KeptPositions(ms) == {i \in DOMAIN ms : ms[i].status = "verified"}

-----------------------------------------------------------------------------
(* routers.py *)

(* Mutant: any() instead of all(), so one verified milestone ends the work. *)
route_plan_AnyResolved(ms, steps) ==
    IF (\E i \in DOMAIN ms : ms[i].status \in Resolved) \/ steps >= MaxSteps
    THEN "orchestrator_synthesizer"
    ELSE "dispatch_subtask"

(* Mutant: the budget is compared with > and lets one more round start. *)
route_plan_OffByOne(ms, steps) ==
    IF all_milestones_resolved(ms) \/ steps > MaxSteps
    THEN "orchestrator_synthesizer"
    ELSE "dispatch_subtask"

route_plan(ms, steps) ==
    IF \/ all_milestones_resolved(ms)
       \/ steps >= MaxSteps
       \/ next_pending_milestone(ms) = {}
    THEN "orchestrator_synthesizer"
    ELSE "dispatch_subtask"

(* Mutant: a label the conditional edge does not know. *)
route_dispatch_Unmapped == "synthesize"

(* The assigned specialist, else another one, else nobody. *)
route_dispatch == IF Specialists = {} THEN "orchestrator_synthesizer" ELSE "person"

(* Mutant: one replan too many. *)
route_review_ThirdReplan(status, attempt, replan_count) ==
    IF status = "accepted" THEN "advance_milestone"
    ELSE IF attempt <= MaxReviews THEN "dispatch_subtask"
    ELSE IF replan_count <= MaxReplans /\ attempt >= StallLimit THEN "stall_recovery"
    ELSE "advance_milestone"

route_review(status, attempt, replan_count) ==
    IF status = "accepted" THEN "advance_milestone"
    ELSE IF attempt <= MaxReviews THEN "dispatch_subtask"
    ELSE IF replan_count < MaxReplans /\ attempt >= StallLimit THEN "stall_recovery"
    ELSE "advance_milestone"
-----------------------------------------------------------------------------
Init ==
    /\ pc = "orchestrator_planner"
    /\ task_ledger = new_task_ledger
    /\ progress_ledger = new_progress_ledger
    /\ step_count = 0
    /\ recursion_limit \in RecursionLimits
    /\ supersteps = 0
    /\ endorsed = {}
    /\ objectors = {}

(* LangGraph runs node n if the invocation has supersteps left. *)
Superstep(n) ==
    /\ pc = n
    /\ supersteps < recursion_limit
    /\ supersteps' = supersteps + 1
    /\ UNCHANGED recursion_limit

OrchestratorPlanner ==
    /\ Superstep("orchestrator_planner")
    /\ LET ms == task_ledger.milestones
           is_replan == ms # <<>>
       IN \E e \in InOrder(KeptPositions(ms)), plan \in NormalisedPlans :
             LET milestones == IF is_replan THEN Sublist(ms, e) \o plan ELSE plan
             IN /\ task_ledger' = [task_ledger EXCEPT
                                     !.milestones = milestones,
                                     !.replan_count = IF is_replan THEN @ + 1 ELSE 0]
                /\ pc' = route_plan(milestones, step_count)
    /\ progress_ledger' = new_progress_ledger
    /\ UNCHANGED <<step_count, endorsed, objectors>>

(* Mutant: every dispatch is a first attempt. *)
NextAttempt_AlwaysFirst(id) == 1

NextAttempt(id) ==
    IF progress_ledger.current = id THEN progress_ledger.attempt + 1 ELSE 1

DispatchSubtask ==
    /\ Superstep("dispatch_subtask")
    /\ pc' = route_dispatch
    /\ LET ms == task_ledger.milestones
       IN IF next_pending_milestone(ms) = {}
          THEN /\ progress_ledger' = [progress_ledger EXCEPT !.current = None]
               /\ UNCHANGED <<task_ledger, step_count, objectors>>
          ELSE \E i \in next_pending_milestone(ms) :
                 LET attempt == NextAttempt(ms[i].id)
                 IN /\ task_ledger' = [task_ledger EXCEPT
                                         !.milestones = MarkAll(ms, ms[i].id, "in_progress")]
                    /\ progress_ledger' = [progress_ledger EXCEPT
                                             !.current = ms[i].id,
                                             !.assigned_node = ms[i].assigned_node,
                                             !.review_status = "awaiting_execution",
                                             !.attempt = attempt]
                    /\ step_count' = step_count + 1
                    /\ objectors' = IF attempt = 1 THEN {} ELSE objectors
    /\ UNCHANGED endorsed

(* The specialist answers; its artifact is named by the round's number. *)
PersonNode ==
    /\ Superstep("person")
    /\ progress_ledger' = [progress_ledger EXCEPT !.artifact = step_count,
                                                  !.review_status = "in_review"]
    /\ pc' = "dialectical_review"
    /\ UNCHANGED <<task_ledger, step_count, endorsed, objectors>>

(* The milestone under review is no longer in the ledger (milestone_by_id). *)
MilestoneMissing ==
    \A i \in DOMAIN task_ledger.milestones :
        task_ledger.milestones[i].id # progress_ledger.current

(* Mutant: the first reviewer of the list takes every turn. *)
ReviewerOf_First(producer, attempt) == Reviewers[producer][1]

(* Reviewers take turns by attempt. *)
ReviewerOf(producer, attempt) ==
    Reviewers[producer][((attempt - 1) % Len(Reviewers[producer])) + 1]

(* What a review does once it has decided: record it and follow its route. *)
Decide(progress) ==
    /\ progress_ledger' = progress
    /\ pc' = route_review(progress.review_status, progress.attempt, task_ledger.replan_count)
    /\ endorsed' = IF progress.review_status = "accepted"
                   THEN endorsed \cup {progress.artifact} ELSE endorsed
    /\ UNCHANGED <<task_ledger, step_count>>

(* Nobody reviews this producer: the artifact is accepted as it is. *)
ReviewWaived ==
    /\ Superstep("dialectical_review")
    /\ Reviewers[progress_ledger.assigned_node] = <<>> \/ MilestoneMissing
    /\ Decide([progress_ledger EXCEPT !.review_status = "accepted", !.critique = 0])
    /\ UNCHANGED objectors

(* The reviewer's row is gone from the database: accepted, the rest kept. *)
ReviewerRowMissing ==
    /\ Superstep("dialectical_review")
    /\ Reviewers[progress_ledger.assigned_node] # <<>> /\ ~MilestoneMissing
    /\ Decide([progress_ledger EXCEPT !.review_status = "accepted"])
    /\ UNCHANGED objectors

(* Mutant: a review without critique leaves the previous one in place. *)
CritiqueLeft_Stale(critique) ==
    IF critique # 0 THEN critique ELSE progress_ledger.critique

(* What the progress ledger holds after a verdict: this critique or None. *)
CritiqueLeft(critique) == critique

(* A verdict, with or without a critique; an unreadable one is an approval. *)
DialecticalReview ==
    /\ Superstep("dialectical_review")
    /\ Reviewers[progress_ledger.assigned_node] # <<>> /\ ~MilestoneMissing
    /\ \E status \in {"accepted", "rejected"}, critique \in {0, progress_ledger.artifact} :
          /\ Decide([progress_ledger EXCEPT !.review_status = status, !.critique = CritiqueLeft(critique)])
          /\ objectors' =
               IF status = "rejected"
               THEN objectors \cup {ReviewerOf(progress_ledger.assigned_node, progress_ledger.attempt)}
               ELSE objectors

(* Mutant: the note of a forced acceptance is lost. *)
Resolve_NoteLost(m) ==
    [m EXCEPT !.status = "verified", !.artifact = progress_ledger.artifact]

(* Mutant: a milestone whose retries are exhausted is left rejected. *)
Resolve_LeftRejected(m) ==
    [m EXCEPT !.status = IF progress_ledger.review_status = "accepted" THEN "verified" ELSE "rejected",
              !.artifact = progress_ledger.artifact]

(* Accepted, or accepted with a note once the retries are exhausted. *)
Resolve(m) ==
    LET accepted == progress_ledger.review_status = "accepted"
        exhausted == progress_ledger.attempt > MaxReviews
    IN [m EXCEPT !.status = IF accepted \/ exhausted THEN "verified" ELSE "rejected",
                 !.artifact = progress_ledger.artifact,
                 !.review_note = IF accepted THEN @ ELSE IF exhausted THEN "reservations" ELSE ""]

AdvanceMilestone ==
    /\ Superstep("advance_milestone")
    /\ LET ms == task_ledger.milestones
           id == progress_ledger.current
           accepted == progress_ledger.review_status = "accepted"
           exhausted == progress_ledger.attempt > MaxReviews
           milestones == [i \in DOMAIN ms |-> IF ms[i].id = id THEN Resolve(ms[i]) ELSE ms[i]]
       IN /\ task_ledger' = [task_ledger EXCEPT !.milestones = milestones]
          /\ progress_ledger' = [progress_ledger EXCEPT
                                   !.completed = IF id # None /\ (accepted \/ exhausted)
                                                 THEN @ \cup {id} ELSE @,
                                   !.critique = 0,
                                   !.artifact = 0,
                                   !.review_status = "awaiting_execution",
                                   !.attempt = 0]
          /\ pc' = route_plan(milestones, step_count)
    /\ UNCHANGED <<step_count, endorsed, objectors>>

StallRecovery ==
    /\ Superstep("stall_recovery")
    /\ task_ledger' = [task_ledger EXCEPT
                         !.milestones = MarkAll(@, progress_ledger.current, "failed"),
                         !.stall_count = @ + 1]
    /\ progress_ledger' = [progress_ledger EXCEPT
                             !.failed = IF progress_ledger.current # None
                                        THEN @ \cup {progress_ledger.current} ELSE @,
                             !.attempt = 0,
                             !.critique = 0]
    /\ pc' = "orchestrator_planner"
    /\ UNCHANGED <<step_count, endorsed, objectors>>

OrchestratorSynthesizer ==
    /\ Superstep("orchestrator_synthesizer")
    /\ pc' = "END"
    /\ UNCHANGED <<task_ledger, progress_ledger, step_count, endorsed, objectors>>

(* A node row is missing or a model call raised: the invocation ends with *)
(* the exception and the state stays that of the last checkpoint.         *)
NodeRaises ==
    /\ pc \in {"orchestrator_planner", "person", "dialectical_review", "orchestrator_synthesizer"}
    /\ pc' = "failed"
    /\ UNCHANGED <<task_ledger, progress_ledger, step_count, recursion_limit, supersteps,
                   endorsed, objectors>>

(* LangGraph raises GraphRecursionError: work is left and no superstep is. *)
RecursionLimitReached ==
    /\ pc \notin Ended
    /\ supersteps >= recursion_limit
    /\ pc' = "out_of_steps"
    /\ UNCHANGED <<task_ledger, progress_ledger, step_count, recursion_limit, supersteps,
                   endorsed, objectors>>

Next ==
    \/ OrchestratorPlanner
    \/ DispatchSubtask
    \/ PersonNode
    \/ ReviewWaived
    \/ ReviewerRowMissing
    \/ DialecticalReview
    \/ AdvanceMilestone
    \/ StallRecovery
    \/ OrchestratorSynthesizer
    \/ NodeRaises
    \/ RecursionLimitReached

(* The runner's task iterates the graph's event stream to its end, and every *)
(* model call is bounded by the gateway's timeout, so a step that can be     *)
(* taken is.                                                                 *)
Spec == Init /\ [][Next]_vars /\ WF_vars(Next)
-----------------------------------------------------------------------------
(* Properties *)

(* max_steps is tested only when a milestone begins (route_plan); a review  *)
(* that keeps asking for revisions may then add MaxReviews rounds, no more. *)
(* The DSL's description of max_steps says less ("Hard limit on inner-loop  *)
(* iterations", schemas/dsl.py:162), which the code does not hold to.       *)
StepBudget == step_count <= MaxSteps + MaxReviews

(* A run goes back to the planner at most twice, and every stall but the    *)
(* one now being handled has been answered by a replan.                     *)
ReplanBudget ==
    /\ task_ledger.stall_count <= MaxReplans
    /\ task_ledger.stall_count - task_ledger.replan_count \in {0, 1}
    /\ task_ledger.stall_count > task_ledger.replan_count =>
         pc \in {"orchestrator_planner", "failed", "out_of_steps"}

(* The answer is written only when the whole plan is resolved, when the     *)
(* round budget is spent, or when there is nobody to work.                  *)
SynthesisIsEarned ==
    pc \in {"orchestrator_synthesizer", "END"} =>
        \/ all_milestones_resolved(task_ledger.milestones)
        \/ step_count >= MaxSteps
        \/ Specialists = {}

(* The synthesis prompt lists the artifacts found in the ledger under       *)
(* "VERIFIED MILESTONE ARTIFACTS": whatever path led there, no artifact of  *)
(* a failed, rejected or unfinished milestone is among them.                *)
OnlyVerifiedArtifacts ==
    pc \in {"orchestrator_synthesizer", "END"} =>
        \A i \in DOMAIN task_ledger.milestones :
            task_ledger.milestones[i].artifact # 0 =>
                task_ledger.milestones[i].status = "verified"

Verified(ms) == {i \in DOMAIN ms : ms[i].status = "verified"}

(* A milestone verified without a note carries the very artifact a review   *)
(* accepted: never an earlier attempt's, never one only criticised.         *)
VerifiedWasEndorsed ==
    \A i \in Verified(task_ledger.milestones) :
        LET m == task_ledger.milestones[i] IN m.review_note = "" => m.artifact \in endorsed

(* The milestone under work has had another producer, or may yet get one:    *)
(* the ledger holds a namesake of it that is assigned to somebody else.      *)
ChangesHands ==
    \E i \in DOMAIN task_ledger.milestones :
        /\ task_ledger.milestones[i].id = progress_ledger.current
        /\ task_ledger.milestones[i].assigned_node # progress_ledger.assigned_node

(* Every reviewer whose turn came within so many attempts has objected.      *)
HaveObjected(attempts) ==
    LET rs == Reviewers[progress_ledger.assigned_node]
    IN \A n \in DOMAIN rs : n <= attempts => rs[n] \in objectors

(* Before a milestone stalls or is accepted with reservations, as many      *)
(* different reviewers as the attempts allow have objected: the rotation    *)
(* skips nobody, whatever replans and retries came before.  It does skip    *)
(* some when a retry goes to a namesake's producer, whose own reviewers     *)
(* then begin at the turn of the attempt (nodes.py 541).                    *)
RotationIsFair ==
    /\ pc \in {"advance_milestone", "stall_recovery"}
    /\ progress_ledger.review_status = "rejected"
    /\ ~ChangesHands
    => HaveObjected(progress_ledger.attempt)

(* The critique that a directive quotes is about the attempt that it        *)
(* quotes, and a first attempt is given no critique at all.                 *)
CritiqueMatchesAttempt ==
    pc = "dispatch_subtask" =>
        /\ progress_ledger.critique \in {0, progress_ledger.artifact}
        /\ progress_ledger.attempt = 0 => progress_ledger.critique = 0

(* With this many supersteps allowed the engine's own bookkeeping can never *)
(* exhaust LangGraph's recursion limit: four per round, one per replan, and  *)
(* those of the first plan and of the answer.                               *)
EnoughSupersteps == recursion_limit >= 4 * (MaxSteps + MaxReviews) + 4

LimitSuffices == EnoughSupersteps => pc # "out_of_steps"

StillThere(m) ==
    \E j \in DOMAIN task_ledger'.milestones :
        /\ task_ledger'.milestones[j].id = m.id
        /\ task_ledger'.milestones[j].status = "verified"
        /\ task_ledger'.milestones[j].artifact = m.artifact

HasOpenNamesake(m) ==
    \E j \in DOMAIN task_ledger.milestones :
        /\ task_ledger.milestones[j].id = m.id
        /\ task_ledger.milestones[j].status \notin Resolved

(* Dispatching, reviewing, stalling and replanning leave a verified         *)
(* milestone and its artifact alone, unless the ledger also holds an open   *)
(* milestone with the same id.                                              *)
VerifiedStays ==
    [][\A i \in Verified(task_ledger.milestones) :
          LET m == task_ledger.milestones[i] IN HasOpenNamesake(m) \/ StillThere(m)]_vars

(* "Verified milestones are never redone" (documents/05-orchestration-      *)
(* engine.md:83), without the exception.  Ids come from the model, so it    *)
(* does not hold: a revised plan may reuse the id of a verified milestone.  *)
VerifiedNeverRedone ==
    [][\A i \in Verified(task_ledger.milestones) :
          StillThere(task_ledger.milestones[i])]_vars

(* What the node that runs next means for the run as a whole. *)
PhaseOf(node) ==
    CASE node = "orchestrator_planner" -> "planning"
      [] node = "orchestrator_synthesizer" -> "synthesis"
      [] node = "END" -> "done"
      [] node \in {"failed", "out_of_steps"} -> "failed"
      [] OTHER -> "working"

Abstract == INSTANCE BoundedRun WITH
    Budget <- MaxSteps + MaxReviews,
    phase <- PhaseOf(pc),
    rounds <- step_count,
    replans <- task_ledger.stall_count

(* The engine implements the bounded run the rest of the platform relies on. *)
ImplementsBoundedRun == Abstract!Spec
-----------------------------------------------------------------------------
(* The inductive invariant of DualLedgerProofs *)

InLoop == {"dispatch_subtask", "person", "dialectical_review"}

Executing == {"person", "dialectical_review", "advance_milestone", "stall_recovery"}

(* A round is dispatched only for a milestone that needs work, and once it  *)
(* has been tried, that milestone stays the first one that needs work.      *)
HasWork ==
    pc \in InLoop =>
        /\ next_pending_milestone(task_ledger.milestones) # {}
        /\ progress_ledger.attempt > 0 =>
             \A i \in next_pending_milestone(task_ledger.milestones) :
                 task_ledger.milestones[i].id = progress_ledger.current

(* Attempts are counted from 1 while a milestone is executed, and a retry   *)
(* is dispatched only within max_review_iterations.                         *)
AttemptBound ==
    /\ progress_ledger.attempt <= MaxReviews + 1
    /\ pc = "dispatch_subtask" => progress_ledger.attempt <= MaxReviews
    /\ pc = "orchestrator_planner" => progress_ledger.attempt = 0
    /\ pc \in Executing => /\ progress_ledger.attempt > 0
                          /\ progress_ledger.current \in MilestoneIds
                          /\ progress_ledger.assigned_node \in Assignable

(* The first attempt of the current milestone began within max_steps.       *)
BeganInBudget ==
    pc \in InLoop \cup Executing => step_count - progress_ledger.attempt < MaxSteps

(* Supersteps charged to rounds and replans, node by node.                  *)
SuperstepBudget ==
    supersteps <= 4 * step_count + task_ledger.stall_count +
        (CASE pc = "orchestrator_planner" -> 0
           [] pc = "person" -> -2
           [] pc = "dialectical_review" -> -1
           [] pc \in {"advance_milestone", "stall_recovery"} -> 0
           [] pc \in {"dispatch_subtask", "orchestrator_synthesizer"} -> 1
           [] OTHER -> 2)

(* Stalls and replans alternate, and only a planned ledger stalls.          *)
ReplanBookkeeping ==
    LET ms == task_ledger.milestones
        stalls == task_ledger.stall_count
        replans == task_ledger.replan_count
    IN /\ pc = "orchestrator_planner" =>
            IF ms = <<>> THEN stalls = 0 /\ replans = 0 ELSE stalls = replans + 1
       /\ pc \in InLoop \cup Executing => ms # <<>> /\ stalls = replans
       /\ pc = "stall_recovery" => replans < MaxReplans

IInv ==
    /\ TypeOK
    /\ HasWork
    /\ AttemptBound
    /\ BeganInBudget
    /\ StepBudget
    /\ ReplanBudget
    /\ ReplanBookkeeping
    /\ SuperstepBudget
    /\ LimitSuffices
-----------------------------------------------------------------------------
(* What DualLedgerProofs shows of artifacts and reviews besides *)

(* A milestone has been dispatched and is not settled yet.                  *)
UnderWork == pc \in Executing \/ (pc = "dispatch_subtask" /\ progress_ledger.attempt > 0)

(* It and its namesakes are in progress, and one of them is assigned to     *)
(* whoever works on it.                                                     *)
CurrentInProgress ==
    LET ms == task_ledger.milestones IN
    UnderWork =>
        /\ \A i \in DOMAIN ms : ms[i].id = progress_ledger.current => ms[i].status = "in_progress"
        /\ \E i \in DOMAIN ms : /\ ms[i].id = progress_ledger.current
                                /\ ms[i].assigned_node = progress_ledger.assigned_node

(* An artifact belongs to a verified milestone, or to one reopened with the *)
(* milestone under work, until the planner or a failure drops it.           *)
ArtifactsAccountedFor ==
    LET ms == task_ledger.milestones IN
    /\ Specialists = {} => pc \notin Executing /\ \A i \in DOMAIN ms : ms[i].artifact = 0
    /\ \A i \in DOMAIN ms :
          (ms[i].artifact # 0 /\ ms[i].status # "verified") =>
              \/ UnderWork /\ ms[i].id = progress_ledger.current
              \/ pc \in {"orchestrator_planner", "failed", "out_of_steps"}

(* Only a milestone that is accepted, or out of retries, is advanced; an     *)
(* acceptance endorsed its artifact.                                         *)
AdvanceIsDecided ==
    /\ pc = "advance_milestone" =>
         progress_ledger.review_status = "accepted" \/ progress_ledger.attempt > MaxReviews
    /\ (pc = "advance_milestone" /\ progress_ledger.review_status = "accepted") =>
         progress_ledger.artifact \in endorsed

(* The reviewers have objected turn by turn.                                *)
ObjectionsKept ==
    ~ChangesHands =>
        /\ pc \in {"person", "dialectical_review"} => HaveObjected(progress_ledger.attempt - 1)
        /\ pc = "dispatch_subtask" /\ UnderWork => HaveObjected(progress_ledger.attempt)

ArtifactInv ==
    /\ SynthesisIsEarned
    /\ VerifiedWasEndorsed
    /\ RotationIsFair
    /\ CritiqueMatchesAttempt
    /\ CurrentInProgress
    /\ ArtifactsAccountedFor
    /\ AdvanceIsDecided
    /\ ObjectionsKept
=============================================================================
