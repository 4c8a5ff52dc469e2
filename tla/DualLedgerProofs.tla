-------------------------- MODULE DualLedgerProofs --------------------------
(***************************************************************************)
(* Theorems about DualLedger, for every team, every budget and every       *)
(* recursion limit.                                                        *)
(***************************************************************************)
EXTENDS DualLedger, TLAPS, SequenceTheorems, FiniteSetTheorems, WellFoundedInduction

-----------------------------------------------------------------------------
(* Positions in a list *)

(* A non-empty set of naturals has a least element. *)
LEMMA LeastNatural ==
    ASSUME NEW T, T \subseteq Nat, T # {}
    PROVE  \E x \in T : \A y \in T : ~(y < x)
<1>1. PICK x \in T : \A y \in T : ~(<<y, x>> \in OpToRel(<, Nat))
  BY NatLessThanWellFounded, WFMin
<1> QED
  BY <1>1 DEF OpToRel

(* A list with an unresolved milestone has a first one, which             *)
(* next_pending_milestone returns.                                        *)
LEMMA SomePending ==
    ASSUME NEW ms \in Seq(Milestone), NEW k \in DOMAIN ms, ms[k].status \notin Resolved
    PROVE  \E i \in next_pending_milestone(ms) : i <= k
<1> DEFINE T == {i \in DOMAIN ms : ms[i].status \notin Resolved}
<1>1. DOMAIN ms = 1..Len(ms) /\ Len(ms) \in Nat
  BY LenProperties
<1>2. T \subseteq Nat /\ k \in T
  BY <1>1
<1>3. PICK i \in T : \A j \in T : ~(j < i)
  BY <1>2, LeastNatural
<1>4. \A j \in 1..(i - 1) : j \in DOMAIN ms /\ j < i
  BY <1>1, <1>3
<1>5. \A j \in 1..(i - 1) : ms[j].status \in Resolved
  BY <1>3, <1>4
<1>6. i \in next_pending_milestone(ms)
  BY <1>3, <1>5 DEF next_pending_milestone
<1> QED
  BY <1>1, <1>2, <1>3, <1>6

-----------------------------------------------------------------------------
(* Lists of milestones *)

(* A milestone for every position of a list of milestones is such a list. *)
LEMMA PointwiseList ==
    ASSUME NEW ms \in Seq(Milestone), NEW f \in [DOMAIN ms -> Milestone]
    PROVE  f \in Seq(Milestone)
<1>1. Len(ms) \in Nat /\ DOMAIN ms = 1..Len(ms)
  BY LenProperties
<1> QED
  BY <1>1, SeqDef

(* A list is not empty exactly if it has a first position. *)
LEMMA NonEmptyList ==
    ASSUME NEW ms \in Seq(Milestone)
    PROVE  ms # <<>> <=> 1 \in DOMAIN ms
<1>1. Len(ms) \in Nat /\ DOMAIN ms = 1..Len(ms)
  BY LenProperties
<1>2. ms # <<>> => Len(ms) \in Nat \ {0}
  BY EmptySeq
<1>3. ms = <<>> => Len(ms) = 0
  BY EmptySeq
<1> QED
  BY <1>1, <1>2, <1>3

(* Changing the status of the milestones with an id gives a list of milestones. *)
LEMMA MarkAllType ==
    ASSUME NEW ms \in Seq(Milestone), NEW id, NEW status \in Statuses
    PROVE  MarkAll(ms, id, status) \in Seq(Milestone)
<1>1. \A i \in DOMAIN ms : ms[i] \in Milestone
  BY LenProperties, ElementOfSeq
<1>2. MarkAll(ms, id, status) \in [DOMAIN ms -> Milestone]
  BY <1>1 DEF MarkAll, Milestone
<1> QED
  BY <1>2, PointwiseList

(* A resolved milestone is a milestone. *)
LEMMA ResolveType ==
    ASSUME NEW m \in Milestone, progress_ledger \in ProgressLedger
    PROVE  Resolve(m) \in Milestone
BY DEF Resolve, Milestone, ProgressLedger, Statuses

(* Marking keeps the positions of a list and the ids at them. *)
LEMMA MarkAllShape ==
    ASSUME NEW ms \in Seq(Milestone), NEW id, NEW status
    PROVE  /\ DOMAIN MarkAll(ms, id, status) = DOMAIN ms
           /\ \A j \in DOMAIN ms : /\ MarkAll(ms, id, status)[j].id = ms[j].id
                                   /\ ms[j].id # id => MarkAll(ms, id, status)[j] = ms[j]
                                   /\ ms[j].id = id => MarkAll(ms, id, status)[j].status = status
           /\ ms # <<>> => MarkAll(ms, id, status) # <<>>
<1>1. \A i \in DOMAIN ms : ms[i] \in Milestone
  BY LenProperties, ElementOfSeq
<1>2. DOMAIN MarkAll(ms, id, status) = DOMAIN ms
  BY DEF MarkAll
<1>3. \A j \in DOMAIN ms : /\ MarkAll(ms, id, status)[j].id = ms[j].id
                           /\ ms[j].id # id => MarkAll(ms, id, status)[j] = ms[j]
                           /\ ms[j].id = id => MarkAll(ms, id, status)[j].status = status
  BY <1>1 DEF MarkAll, Milestone
<1>4. MarkAll(ms, id, status) = <<>> => DOMAIN ms = {}
  BY <1>2
<1>5. ms # <<>> => DOMAIN ms # {}
  BY NonEmptyList
<1> QED
  BY <1>2, <1>3, <1>4, <1>5

(* After a dispatch the first milestone that needs work is one that carries *)
(* the dispatched id: itself, or an earlier namesake reopened with it.      *)
LEMMA DispatchedStaysFirst ==
    ASSUME NEW ms \in Seq(Milestone), NEW i \in next_pending_milestone(ms)
    PROVE  LET marked == MarkAll(ms, ms[i].id, "in_progress")
           IN /\ next_pending_milestone(marked) # {}
              /\ \A j \in next_pending_milestone(marked) : marked[j].id = ms[i].id
<1> DEFINE marked == MarkAll(ms, ms[i].id, "in_progress")
<1>1. i \in DOMAIN ms /\ \A j \in 1..(i - 1) : ms[j].status \in Resolved
  BY DEF next_pending_milestone
<1>2. /\ DOMAIN marked = DOMAIN ms
      /\ \A j \in DOMAIN ms : marked[j].id = ms[j].id
      /\ \A j \in DOMAIN ms : ms[j].id # ms[i].id => marked[j] = ms[j]
      /\ marked[i].status = "in_progress"
  BY <1>1, MarkAllShape
<1>3. marked \in Seq(Milestone)
  BY MarkAllType DEF Statuses
<1>4. DOMAIN ms = 1..Len(ms) /\ Len(ms) \in Nat
  BY LenProperties
<1> HIDE DEF marked
<1>5. marked[i].status \notin Resolved
  BY <1>2 DEF Resolved
<1>6. next_pending_milestone(marked) # {}
  BY <1>1, <1>2, <1>3, <1>5, SomePending
<1>7. ASSUME NEW j \in next_pending_milestone(marked)
      PROVE  marked[j].id = ms[i].id
  <2>1. /\ j \in DOMAIN ms /\ marked[j].status \notin Resolved
        /\ \A k \in 1..(j - 1) : marked[k].status \in Resolved
    BY <1>2, <1>7 DEF next_pending_milestone
  <2>2. ~(i \in 1..(j - 1))
    BY <1>5, <2>1
  <2>3. j = i \/ j \in 1..(i - 1)
    BY <1>1, <1>4, <2>1, <2>2
  <2>4. CASE j = i
    BY <1>1, <1>2, <2>4
  <2>5. CASE j \in 1..(i - 1)
    <3>1. ms[j].status \in Resolved
      BY <1>1, <2>5
    <3>2. marked[j] # ms[j]
      BY <2>1, <3>1
    <3> QED
      BY <1>2, <2>1, <3>2
  <2> QED
    BY <2>3, <2>4, <2>5
<1> QED
  BY <1>6, <1>7 DEF marked

(* The planning edge dispatches only within the budget and with work left. *)
LEMMA RoutePlan ==
    ASSUME NEW ms, NEW steps \in Nat
    PROVE  /\ route_plan(ms, steps) \in {"dispatch_subtask", "orchestrator_synthesizer"}
           /\ route_plan(ms, steps) = "dispatch_subtask" =>
                steps < MaxSteps /\ next_pending_milestone(ms) # {}
BY DSLAssumption DEF route_plan

(* What a replan keeps is a list of milestones. *)
LEMMA SublistType ==
    ASSUME NEW ms \in Seq(Milestone), NEW e \in InOrder(KeptPositions(ms))
    PROVE  Sublist(ms, e) \in Seq(Milestone)
<1> DEFINE S == KeptPositions(ms)
<1>1. DOMAIN ms = 1..Len(ms) /\ Len(ms) \in Nat
  BY LenProperties
<1>2. IsFiniteSet(S) /\ Cardinality(S) \in Nat
  <2>1. IsFiniteSet(DOMAIN ms)
    BY <1>1, FS_Interval
  <2>2. S \subseteq DOMAIN ms
    BY DEF KeptPositions
  <2> QED
    BY <2>1, <2>2, FS_Subset, FS_CardinalityType
<1>3. e \in [1..Cardinality(S) -> S]
  BY DEF InOrder
<1>4. \A i \in S : ms[i] \in Milestone
  BY <1>1, ElementOfSeq DEF KeptPositions
<1>5. Sublist(ms, e) \in [1..Cardinality(S) -> Milestone]
  BY <1>3, <1>4 DEF Sublist
<1> QED
  BY <1>2, <1>5, SeqDef

(* A normalised plan is a non-empty list of pending milestones. *)
LEMMA PlanType ==
    ASSUME NEW plan \in NormalisedPlans
    PROVE  /\ plan \in Seq(Milestone)
           /\ 1 \in DOMAIN plan
           /\ \A i \in DOMAIN plan : plan[i].status = "pending"
<1>1. PICK n \in 1..MaxMilestones :
        plan \in {[i \in 1..n |-> NewMilestone(ids[i], nodes[i])] :
                    ids \in [1..n -> MilestoneIds], nodes \in [1..n -> Assignable]}
  BY DEF NormalisedPlans
<1>2. PICK ids \in [1..n -> MilestoneIds], nodes \in [1..n -> Assignable] :
        plan = [i \in 1..n |-> NewMilestone(ids[i], nodes[i])]
  BY <1>1
<1>3. n \in Nat /\ 1 \in 1..n
  BY DSLAssumption
<1>4. plan \in [1..n -> Milestone]
  BY <1>2 DEF NewMilestone, Milestone, Statuses
<1>5. plan \in Seq(Milestone)
  BY <1>3, <1>4, SeqDef
<1>6. \A i \in DOMAIN plan : plan[i].status = "pending"
  BY <1>2 DEF NewMilestone
<1>7. 1 \in DOMAIN plan
  BY <1>2, <1>3
<1> QED
  BY <1>5, <1>6, <1>7
-----------------------------------------------------------------------------
(* The inductive invariant, action by action *)

(* The types of the fields that the steps read. *)
LEMMA TypeFacts ==
    ASSUME TypeOK
    PROVE  /\ task_ledger \in TaskLedger /\ progress_ledger \in ProgressLedger
           /\ task_ledger.milestones \in Seq(Milestone)
           /\ \A i \in DOMAIN task_ledger.milestones : task_ledger.milestones[i] \in Milestone
           /\ task_ledger.stall_count \in Nat /\ task_ledger.replan_count \in Nat
           /\ progress_ledger.current \in MilestoneIds \cup {None}
           /\ progress_ledger.attempt \in Nat /\ progress_ledger.artifact \in Nat
           /\ progress_ledger.critique \in Nat
           /\ step_count \in Nat /\ supersteps \in Nat /\ recursion_limit \in Nat
<1>1. task_ledger \in TaskLedger /\ progress_ledger \in ProgressLedger
  BY DEF TypeOK
<1>2. /\ task_ledger.milestones \in Seq(Milestone)
      /\ task_ledger.stall_count \in Nat /\ task_ledger.replan_count \in Nat
  BY <1>1 DEF TaskLedger
<1>3. \A i \in DOMAIN task_ledger.milestones : task_ledger.milestones[i] \in Milestone
  BY <1>2, LenProperties, ElementOfSeq
<1>4. /\ progress_ledger.current \in MilestoneIds \cup {None}
      /\ progress_ledger.attempt \in Nat /\ progress_ledger.artifact \in Nat
      /\ progress_ledger.critique \in Nat
  BY <1>1 DEF ProgressLedger
<1>5. step_count \in Nat /\ supersteps \in Nat /\ recursion_limit \in Nat
  BY DSLAssumption DEF TypeOK
<1> QED
  BY <1>1, <1>2, <1>3, <1>4, <1>5

(* The budgets, where constants and counters are numbers. *)
LEMMA ConstantTypes ==
    MaxSteps \in Nat /\ MaxSteps > 0 /\ MaxReviews \in Nat /\ StallLimit \in Nat
BY DSLAssumption

(* A run starts in the invariant. *)
LEMMA InitEstablishes == Init => IInv
<1> SUFFICES ASSUME Init PROVE IInv
  OBVIOUS
<1>1. task_ledger \in TaskLedger
  BY EmptySeq DEF Init, new_task_ledger, TaskLedger
<1>2. progress_ledger \in ProgressLedger
  BY DEF Init, new_progress_ledger, ProgressLedger
<1>3. TypeOK
  BY <1>1, <1>2 DEF Init, TypeOK
<1>4. /\ pc = "orchestrator_planner" /\ step_count = 0 /\ supersteps = 0
      /\ task_ledger.milestones = <<>>
      /\ task_ledger.stall_count = 0 /\ task_ledger.replan_count = 0
      /\ progress_ledger.attempt = 0
  BY DEF Init, new_task_ledger, new_progress_ledger
<1>5. HasWork /\ AttemptBound /\ BeganInBudget /\ StepBudget
  BY <1>4, ConstantTypes
  DEF HasWork, AttemptBound, BeganInBudget, StepBudget, InLoop, Executing
<1>6. ReplanBudget /\ ReplanBookkeeping
  BY <1>4 DEF ReplanBudget, ReplanBookkeeping, InLoop, Executing, MaxReplans
<1>7. SuperstepBudget /\ LimitSuffices
  BY <1>4 DEF SuperstepBudget, LimitSuffices
<1> QED
  BY <1>3, <1>5, <1>6, <1>7 DEF IInv

(* Planning and replanning preserve it: the new list has a pending milestone. *)
LEMMA PlannerStep ==
    ASSUME IInv, OrchestratorPlanner
    PROVE  IInv'
<1> DEFINE ms == task_ledger.milestones
<1>0. /\ TypeOK /\ HasWork /\ AttemptBound /\ BeganInBudget /\ StepBudget
      /\ ReplanBudget /\ ReplanBookkeeping /\ SuperstepBudget /\ LimitSuffices
  BY DEF IInv
<1>1. ms \in Seq(Milestone)
  BY <1>0, TypeFacts
<1>2. PICK e \in InOrder(KeptPositions(ms)), plan \in NormalisedPlans :
        LET milestones == IF ms # <<>> THEN Sublist(ms, e) \o plan ELSE plan
        IN /\ task_ledger' = [task_ledger EXCEPT !.milestones = milestones,
                                 !.replan_count = IF ms # <<>> THEN @ + 1 ELSE 0]
           /\ pc' = route_plan(milestones, step_count)
  BY DEF OrchestratorPlanner
<1> DEFINE new == IF ms # <<>> THEN Sublist(ms, e) \o plan ELSE plan
<1>3. new \in Seq(Milestone) /\ new # <<>>
  <2>1. plan \in Seq(Milestone) /\ Len(plan) > 0
    BY PlanType, LenProperties
  <2>2. CASE ms = <<>>
    BY <2>1, <2>2, EmptySeq
  <2>3. CASE ms # <<>>
    <3>1. Sublist(ms, e) \in Seq(Milestone)
      BY <1>1, SublistType
    <3>2. /\ Sublist(ms, e) \o plan \in Seq(Milestone)
          /\ Len(Sublist(ms, e) \o plan) = Len(Sublist(ms, e)) + Len(plan)
      BY <2>1, <3>1, ConcatProperties
    <3>3. Len(Sublist(ms, e)) \in Nat
      BY <3>1, LenProperties
    <3> QED
      BY <2>1, <2>3, <3>2, <3>3, EmptySeq, LenProperties
  <2> QED
    BY <2>2, <2>3
<1> HIDE DEF new
<1>4. /\ task_ledger' = [task_ledger EXCEPT !.milestones = new,
                            !.replan_count = IF ms # <<>> THEN @ + 1 ELSE 0]
      /\ pc' = route_plan(new, step_count)
  BY <1>2 DEF new
<1>5. /\ pc' \in {"dispatch_subtask", "orchestrator_synthesizer"}
      /\ pc' = "dispatch_subtask" => step_count < MaxSteps /\ next_pending_milestone(new) # {}
  BY <1>0, <1>4, RoutePlan, TypeFacts
<1>6. /\ progress_ledger' = new_progress_ledger
      /\ pc = "orchestrator_planner"
      /\ supersteps' = supersteps + 1
      /\ UNCHANGED <<step_count, recursion_limit, endorsed, objectors>>
  BY DEF OrchestratorPlanner, Superstep
<1>7. TypeOK'
  <2>1. task_ledger' \in TaskLedger
    <3> DEFINE replans == IF ms # <<>> THEN task_ledger.replan_count + 1 ELSE 0
    <3>1. task_ledger \in TaskLedger /\ replans \in Nat
      BY <1>0, TypeFacts
    <3>2. task_ledger' = [task_ledger EXCEPT !.milestones = new, !.replan_count = replans]
      BY <1>4
    <3> HIDE DEF replans
    <3> QED
      BY <1>3, <3>1, <3>2 DEF TaskLedger
  <2>2. progress_ledger' \in ProgressLedger
    BY <1>6 DEF new_progress_ledger, ProgressLedger
  <2> QED
    BY <1>0, <1>5, <1>6, <2>1, <2>2 DEF TypeOK
<1>8. /\ task_ledger'.milestones = new
      /\ task_ledger'.stall_count = task_ledger.stall_count
      /\ task_ledger'.replan_count = IF ms # <<>> THEN task_ledger.replan_count + 1 ELSE 0
      /\ progress_ledger'.attempt = 0
  BY <1>0, <1>4, <1>6, TypeFacts DEF TaskLedger, new_progress_ledger
<1>9. /\ task_ledger.stall_count \in Nat /\ task_ledger.replan_count \in Nat
      /\ step_count \in Nat /\ supersteps \in Nat
  BY <1>0, TypeFacts
<1>10. HasWork'
  BY <1>5, <1>8 DEF HasWork, InLoop
<1>11. AttemptBound' /\ BeganInBudget' /\ StepBudget'
  BY <1>0, <1>5, <1>6, <1>8, <1>9, ConstantTypes
  DEF AttemptBound, BeganInBudget, StepBudget, InLoop, Executing
<1>12. ReplanBudget' /\ ReplanBookkeeping'
  BY <1>0, <1>3, <1>5, <1>6, <1>8, <1>9
  DEF ReplanBudget, ReplanBookkeeping, InLoop, Executing, MaxReplans
<1>13. SuperstepBudget' /\ LimitSuffices'
  BY <1>0, <1>5, <1>6, <1>8, <1>9 DEF SuperstepBudget, LimitSuffices
<1> QED
  BY <1>7, <1>10, <1>11, <1>12, <1>13 DEF IInv

(* Dispatching does: the round is charged to the budget it began in. *)
LEMMA DispatchStep ==
    ASSUME IInv, DispatchSubtask
    PROVE  IInv'
<1> DEFINE ms == task_ledger.milestones
<1>0. /\ TypeOK /\ HasWork /\ AttemptBound /\ BeganInBudget /\ StepBudget
      /\ ReplanBudget /\ ReplanBookkeeping /\ SuperstepBudget /\ LimitSuffices
  BY DEF IInv
<1>1. /\ ms \in Seq(Milestone)
      /\ \A i \in DOMAIN ms : ms[i] \in Milestone
  BY <1>0, TypeFacts
<1>2. next_pending_milestone(ms) # {} /\ pc = "dispatch_subtask"
  BY <1>0 DEF DispatchSubtask, Superstep, HasWork, InLoop
<1>3. PICK i \in next_pending_milestone(ms) :
        /\ task_ledger' = [task_ledger EXCEPT !.milestones = MarkAll(ms, ms[i].id, "in_progress")]
        /\ progress_ledger' = [progress_ledger EXCEPT
                                 !.current = ms[i].id,
                                 !.assigned_node = ms[i].assigned_node,
                                 !.review_status = "awaiting_execution",
                                 !.attempt = NextAttempt(ms[i].id)]
        /\ step_count' = step_count + 1
        /\ objectors' = IF NextAttempt(ms[i].id) = 1 THEN {} ELSE objectors
  BY <1>2 DEF DispatchSubtask
<1> DEFINE new == MarkAll(ms, ms[i].id, "in_progress")
<1>4. ms[i] \in Milestone
  BY <1>1 DEF next_pending_milestone
<1>5. /\ new \in Seq(Milestone)
      /\ ms # <<>> => new # <<>>
      /\ next_pending_milestone(new) # {}
      /\ \A j \in next_pending_milestone(new) : new[j].id = ms[i].id
  <2>1. new \in Seq(Milestone)
    BY <1>1, MarkAllType DEF Statuses
  <2>2. ms # <<>> => new # <<>>
    BY <1>1, MarkAllShape
  <2>3. /\ next_pending_milestone(new) # {}
        /\ \A j \in next_pending_milestone(new) : new[j].id = ms[i].id
    BY <1>1, DispatchedStaysFirst
  <2> QED
    BY <2>1, <2>2, <2>3
<1> HIDE DEF new
<1>6. NextAttempt(ms[i].id) = progress_ledger.attempt + 1
  <2>1. progress_ledger.attempt \in Nat
    BY <1>0, TypeFacts
  <2>2. progress_ledger.attempt > 0 => progress_ledger.current = ms[i].id
    BY <1>0, <1>2, <1>3 DEF HasWork, InLoop
  <2> QED
    BY <2>1, <2>2 DEF NextAttempt
<1>7. /\ task_ledger' = [task_ledger EXCEPT !.milestones = new]
      /\ pc' \in {"orchestrator_synthesizer", "person"}
      /\ supersteps' = supersteps + 1
      /\ UNCHANGED <<recursion_limit, endorsed>>
  BY <1>3 DEF DispatchSubtask, Superstep, route_dispatch, new
<1>8. TypeOK'
  <2>1. task_ledger' \in TaskLedger
    BY <1>0, <1>5, <1>7, TypeFacts DEF TaskLedger
  <2>2. progress_ledger' \in ProgressLedger
    <3>1. /\ progress_ledger \in ProgressLedger
          /\ progress_ledger.attempt + 1 \in Nat
          /\ ms[i].id \in MilestoneIds
          /\ ms[i].assigned_node \in Assignable
      <4>1. progress_ledger \in ProgressLedger /\ progress_ledger.attempt + 1 \in Nat
        BY <1>0, TypeFacts
      <4>2. ms[i].id \in MilestoneIds /\ ms[i].assigned_node \in Assignable
        BY <1>4 DEF Milestone
      <4> QED
        BY <4>1, <4>2
    <3> QED
      BY <1>3, <1>6, <3>1 DEF ProgressLedger
  <2> QED
    BY <1>0, <1>3, <1>7, <2>1, <2>2 DEF TypeOK
<1>9. /\ task_ledger'.milestones = new
      /\ task_ledger'.stall_count = task_ledger.stall_count
      /\ task_ledger'.replan_count = task_ledger.replan_count
      /\ progress_ledger'.attempt = progress_ledger.attempt + 1
      /\ progress_ledger'.current = ms[i].id
      /\ progress_ledger'.assigned_node = ms[i].assigned_node
      /\ step_count' = step_count + 1
  BY <1>0, <1>3, <1>6, <1>7, TypeFacts DEF TaskLedger, ProgressLedger
<1>10. /\ task_ledger.stall_count \in Nat /\ task_ledger.replan_count \in Nat
       /\ step_count \in Nat /\ supersteps \in Nat /\ progress_ledger.attempt \in Nat
       /\ ms[i].id \in MilestoneIds /\ ms[i].assigned_node \in Assignable
  <2>1. ms[i].id \in MilestoneIds /\ ms[i].assigned_node \in Assignable
    BY <1>4 DEF Milestone
  <2> QED
    BY <1>0, <2>1, TypeFacts
<1>11. HasWork'
  BY <1>5, <1>9 DEF HasWork
<1>12. AttemptBound' /\ BeganInBudget' /\ StepBudget'
  <2>1. /\ progress_ledger.attempt <= MaxReviews
        /\ step_count - progress_ledger.attempt < MaxSteps
        /\ MaxReviews \in Nat /\ MaxSteps \in Nat
    BY <1>0, <1>2, ConstantTypes DEF AttemptBound, BeganInBudget, InLoop
  <2>2. AttemptBound'
    BY <1>7, <1>9, <1>10, <2>1 DEF AttemptBound
  <2>3. BeganInBudget'
    BY <1>9, <1>10, <2>1 DEF BeganInBudget
  <2>4. StepBudget'
    BY <1>9, <1>10, <2>1 DEF StepBudget
  <2> QED
    BY <2>2, <2>3, <2>4
<1>13. ReplanBudget' /\ ReplanBookkeeping'
  BY <1>0, <1>2, <1>5, <1>7, <1>9, <1>10
  DEF ReplanBudget, ReplanBookkeeping, InLoop, Executing, MaxReplans
<1>14. SuperstepBudget' /\ LimitSuffices'
  BY <1>0, <1>2, <1>3, <1>7, <1>9, <1>10 DEF SuperstepBudget, LimitSuffices
<1> QED
  BY <1>8, <1>11, <1>12, <1>13, <1>14 DEF IInv

(* A specialist's answer moves the run on within the same round. *)
LEMMA PersonStep ==
    ASSUME IInv, PersonNode
    PROVE  IInv'
<1>0. /\ TypeOK /\ HasWork /\ AttemptBound /\ BeganInBudget /\ StepBudget
      /\ ReplanBudget /\ ReplanBookkeeping /\ SuperstepBudget /\ LimitSuffices
  BY DEF IInv
<1>1. /\ progress_ledger' = [progress_ledger EXCEPT !.artifact = step_count,
                                                   !.review_status = "in_review"]
      /\ pc = "person" /\ pc' = "dialectical_review"
      /\ supersteps' = supersteps + 1
      /\ UNCHANGED <<task_ledger, step_count, recursion_limit, endorsed, objectors>>
  BY DEF PersonNode, Superstep
<1>2. progress_ledger' \in ProgressLedger
  BY <1>0, <1>1, TypeFacts DEF ProgressLedger
<1>3. TypeOK'
  BY <1>0, <1>1, <1>2 DEF TypeOK
<1>4. /\ progress_ledger'.attempt = progress_ledger.attempt
      /\ progress_ledger'.current = progress_ledger.current
      /\ progress_ledger'.assigned_node = progress_ledger.assigned_node
  BY <1>0, <1>1, TypeFacts DEF ProgressLedger
<1>5. HasWork' /\ AttemptBound' /\ BeganInBudget' /\ StepBudget'
  BY <1>0, <1>1, <1>4
  DEF HasWork, AttemptBound, BeganInBudget, StepBudget, InLoop, Executing
<1>6. ReplanBudget' /\ ReplanBookkeeping'
  BY <1>0, <1>1 DEF ReplanBudget, ReplanBookkeeping, InLoop, Executing
<1>7. SuperstepBudget' /\ LimitSuffices'
  BY <1>0, <1>1, TypeFacts DEF SuperstepBudget, LimitSuffices
<1> QED
  BY <1>3, <1>5, <1>6, <1>7 DEF IInv

(* What the three outcomes of a review have in common. *)
LEMMA ReviewStep ==
    ASSUME IInv, Superstep("dialectical_review"),
           NEW status \in {"accepted", "rejected"}, NEW critique \in Nat,
           Decide([progress_ledger EXCEPT !.review_status = status, !.critique = critique]),
           objectors' \subseteq Nodes
    PROVE  IInv'
<1>0. /\ TypeOK /\ HasWork /\ AttemptBound /\ BeganInBudget /\ StepBudget
      /\ ReplanBudget /\ ReplanBookkeeping /\ SuperstepBudget /\ LimitSuffices
  BY DEF IInv
<1> DEFINE progress == [progress_ledger EXCEPT !.review_status = status, !.critique = critique]
<1>1. /\ progress \in ProgressLedger
      /\ progress.review_status = status
      /\ progress.attempt = progress_ledger.attempt
      /\ progress.current = progress_ledger.current
      /\ progress.assigned_node = progress_ledger.assigned_node
      /\ progress.artifact \in Nat
  BY <1>0, TypeFacts DEF ProgressLedger
<1> HIDE DEF progress
<1>2. /\ progress_ledger' = progress
      /\ pc' = route_review(status, progress_ledger.attempt, task_ledger.replan_count)
      /\ endorsed' = IF status = "accepted" THEN endorsed \cup {progress.artifact} ELSE endorsed
      /\ UNCHANGED <<task_ledger, step_count, recursion_limit>>
      /\ pc = "dialectical_review"
      /\ supersteps' = supersteps + 1
  BY <1>1 DEF Decide, Superstep, progress
<1>3. /\ pc' \in {"advance_milestone", "stall_recovery", "dispatch_subtask"}
      /\ pc' = "dispatch_subtask" => progress_ledger.attempt <= MaxReviews
      /\ pc' = "stall_recovery" => task_ledger.replan_count < MaxReplans
  BY <1>2 DEF route_review
<1>4. TypeOK'
  <2>1. endorsed' \subseteq Nat
    BY <1>0, <1>1, <1>2 DEF TypeOK
  <2> QED
    BY <1>0, <1>1, <1>2, <1>3, <2>1 DEF TypeOK
<1>5. HasWork' /\ AttemptBound' /\ BeganInBudget' /\ StepBudget'
  BY <1>0, <1>1, <1>2, <1>3
  DEF HasWork, AttemptBound, BeganInBudget, StepBudget, InLoop, Executing
<1>6. ReplanBudget' /\ ReplanBookkeeping'
  BY <1>0, <1>2, <1>3 DEF ReplanBudget, ReplanBookkeeping, InLoop, Executing
<1>7. SuperstepBudget' /\ LimitSuffices'
  BY <1>0, <1>2, <1>3, TypeFacts DEF SuperstepBudget, LimitSuffices
<1> QED
  BY <1>4, <1>5, <1>6, <1>7 DEF IInv

(* The remainder of a division by n lies below n. *)
LEMMA Remainder ==
    \A a \in Int, n \in Nat \ {0} : a % n \in 0..(n - 1)
OBVIOUS

(* The reviewer whose turn it is is a node of the team. *)
LEMMA ReviewerIsNode ==
    ASSUME NEW producer \in Assignable, NEW attempt \in Nat, attempt > 0,
           Reviewers[producer] # <<>>
    PROVE  ReviewerOf(producer, attempt) \in Nodes
<1>1. producer \in Nodes
  BY DEF Assignable, Nodes
<1>2. Reviewers[producer] \in Seq(Nodes)
  BY <1>1, DSLAssumption
<1> DEFINE n == Len(Reviewers[producer])
           k == (attempt - 1) % n
<1>3. n \in Nat \ {0} /\ attempt - 1 \in Int
  BY <1>2, EmptySeq
<1> HIDE DEF n
<1>4. k \in 0..(n - 1)
  BY <1>3, Remainder
<1> HIDE DEF k
<1>5. k + 1 \in 1..n
  BY <1>3, <1>4
<1>6. Reviewers[producer][k + 1] \in Nodes
  BY <1>2, <1>5, ElementOfSeq DEF n
<1> QED
  BY <1>6 DEF ReviewerOf, k, n

(* A waived review accepts the artifact. *)
LEMMA WaivedStep ==
    ASSUME IInv, ReviewWaived
    PROVE  IInv'
<1>1. objectors' \subseteq Nodes
  BY DEF ReviewWaived, IInv, TypeOK
<1> QED
  BY <1>1, ReviewStep DEF ReviewWaived

(* So does a review whose reviewer has left the database. *)
LEMMA RowMissingStep ==
    ASSUME IInv, ReviewerRowMissing
    PROVE  IInv'
<1>1. objectors' \subseteq Nodes
  BY DEF ReviewerRowMissing, IInv, TypeOK
<1>2. progress_ledger \in ProgressLedger /\ progress_ledger.critique \in Nat
  BY TypeFacts DEF IInv
<1>3. [progress_ledger EXCEPT !.review_status = "accepted"] =
      [progress_ledger EXCEPT !.review_status = "accepted", !.critique = progress_ledger.critique]
  BY <1>2 DEF ProgressLedger
<1> QED
  BY <1>1, <1>2, <1>3, ReviewStep DEF ReviewerRowMissing

(* A verdict accepts, retries within the reviews allowed, or stalls. *)
LEMMA VerdictStep ==
    ASSUME IInv, DialecticalReview
    PROVE  IInv'
<1>0. TypeOK /\ AttemptBound
  BY DEF IInv
<1>1. PICK status \in {"accepted", "rejected"}, critique \in {0, progress_ledger.artifact} :
        /\ Decide([progress_ledger EXCEPT !.review_status = status, !.critique = critique])
        /\ objectors' = IF status = "rejected"
                         THEN objectors \cup {ReviewerOf(progress_ledger.assigned_node,
                                                          progress_ledger.attempt)}
                         ELSE objectors
  BY DEF DialecticalReview, CritiqueLeft
<1>2. critique \in Nat
  BY <1>0, TypeFacts
<1>3. ReviewerOf(progress_ledger.assigned_node, progress_ledger.attempt) \in Nodes
  <2>1. /\ progress_ledger.assigned_node \in Assignable
        /\ progress_ledger.attempt > 0 /\ progress_ledger.attempt \in Nat
        /\ Reviewers[progress_ledger.assigned_node] # <<>>
    BY <1>0, TypeFacts DEF DialecticalReview, Superstep, AttemptBound, Executing
  <2> QED
    BY <2>1, ReviewerIsNode
<1>4. objectors' \subseteq Nodes
  BY <1>0, <1>1, <1>3 DEF TypeOK
<1> QED
  BY <1>1, <1>2, <1>4, ReviewStep DEF DialecticalReview

(* Advancing resolves the milestone and forgets its attempts. *)
LEMMA AdvanceStep ==
    ASSUME IInv, AdvanceMilestone
    PROVE  IInv'
<1>0. /\ TypeOK /\ HasWork /\ AttemptBound /\ BeganInBudget /\ StepBudget
      /\ ReplanBudget /\ ReplanBookkeeping /\ SuperstepBudget /\ LimitSuffices
  BY DEF IInv
<1> DEFINE ms == task_ledger.milestones
           new == [i \in DOMAIN ms |-> IF ms[i].id = progress_ledger.current
                                      THEN Resolve(ms[i]) ELSE ms[i]]
<1>1. /\ new \in Seq(Milestone)
      /\ ms # <<>> => new # <<>>
  <2>1. new \in [DOMAIN ms -> Milestone]
    BY <1>0, TypeFacts, ResolveType
  <2>2. new \in Seq(Milestone)
    BY <1>0, <2>1, TypeFacts, PointwiseList
  <2>3. DOMAIN new = DOMAIN ms
    OBVIOUS
  <2> HIDE DEF new
  <2> QED
    BY <1>0, <2>2, <2>3, TypeFacts, NonEmptyList
<1> HIDE DEF new
<1>2. /\ task_ledger' = [task_ledger EXCEPT !.milestones = new]
      /\ pc' = route_plan(new, step_count)
      /\ pc = "advance_milestone"
      /\ supersteps' = supersteps + 1
      /\ UNCHANGED <<step_count, recursion_limit, endorsed, objectors>>
  BY DEF AdvanceMilestone, Superstep, new
<1>3. /\ pc' \in {"dispatch_subtask", "orchestrator_synthesizer"}
      /\ pc' = "dispatch_subtask" => step_count < MaxSteps /\ next_pending_milestone(new) # {}
  BY <1>0, <1>2, RoutePlan, TypeFacts
<1>4. progress_ledger' \in ProgressLedger /\ progress_ledger'.attempt = 0
  BY <1>0, TypeFacts DEF AdvanceMilestone, ProgressLedger
<1>5. /\ task_ledger' \in TaskLedger
      /\ task_ledger'.milestones = new
      /\ task_ledger'.stall_count = task_ledger.stall_count
      /\ task_ledger'.replan_count = task_ledger.replan_count
  BY <1>0, <1>1, <1>2, TypeFacts DEF TaskLedger
<1>6. TypeOK'
  BY <1>0, <1>2, <1>3, <1>4, <1>5 DEF TypeOK
<1>7. HasWork' /\ AttemptBound' /\ BeganInBudget' /\ StepBudget'
  BY <1>0, <1>2, <1>3, <1>4, <1>5, ConstantTypes, TypeFacts
  DEF HasWork, AttemptBound, BeganInBudget, StepBudget, InLoop, Executing
<1>8. ReplanBudget' /\ ReplanBookkeeping'
  BY <1>0, <1>1, <1>2, <1>3, <1>5 DEF ReplanBudget, ReplanBookkeeping, InLoop, Executing
<1>9. SuperstepBudget' /\ LimitSuffices'
  BY <1>0, <1>2, <1>3, <1>5, TypeFacts DEF SuperstepBudget, LimitSuffices
<1> QED
  BY <1>6, <1>7, <1>8, <1>9 DEF IInv

(* A stall is counted, and only the planner answers it. *)
LEMMA StallStep ==
    ASSUME IInv, StallRecovery
    PROVE  IInv'
<1>0. /\ TypeOK /\ HasWork /\ AttemptBound /\ BeganInBudget /\ StepBudget
      /\ ReplanBudget /\ ReplanBookkeeping /\ SuperstepBudget /\ LimitSuffices
  BY DEF IInv
<1> DEFINE ms == task_ledger.milestones
           new == MarkAll(ms, progress_ledger.current, "failed")
<1>1. new \in Seq(Milestone) /\ (ms # <<>> => new # <<>>)
  BY <1>0, TypeFacts, MarkAllType, MarkAllShape DEF Statuses
<1> HIDE DEF new
<1>2. /\ task_ledger' = [task_ledger EXCEPT !.milestones = new,
                                            !.stall_count = task_ledger.stall_count + 1]
      /\ pc = "stall_recovery" /\ pc' = "orchestrator_planner"
      /\ supersteps' = supersteps + 1
      /\ UNCHANGED <<step_count, recursion_limit, endorsed, objectors>>
  BY DEF StallRecovery, Superstep, new
<1>3. progress_ledger' \in ProgressLedger /\ progress_ledger'.attempt = 0
  BY <1>0, TypeFacts DEF StallRecovery, ProgressLedger
<1>4. /\ task_ledger' \in TaskLedger
      /\ task_ledger'.milestones = new
      /\ task_ledger'.stall_count = task_ledger.stall_count + 1
      /\ task_ledger'.replan_count = task_ledger.replan_count
  <2>1. task_ledger \in TaskLedger /\ task_ledger.stall_count + 1 \in Nat
    BY <1>0, TypeFacts
  <2> QED
    BY <1>1, <1>2, <2>1 DEF TaskLedger
<1>5. TypeOK'
  BY <1>0, <1>2, <1>3, <1>4 DEF TypeOK
<1>6. HasWork' /\ AttemptBound' /\ BeganInBudget' /\ StepBudget'
  BY <1>0, <1>2, <1>3, ConstantTypes
  DEF HasWork, AttemptBound, BeganInBudget, StepBudget, InLoop, Executing
<1>7. /\ ms # <<>> /\ task_ledger.stall_count = task_ledger.replan_count
      /\ task_ledger.replan_count < MaxReplans
  BY <1>0, <1>2 DEF ReplanBookkeeping, Executing
<1>8. ReplanBudget' /\ ReplanBookkeeping'
  BY <1>0, <1>1, <1>2, <1>4, <1>7, TypeFacts
  DEF ReplanBudget, ReplanBookkeeping, InLoop, Executing, MaxReplans
<1>9. SuperstepBudget' /\ LimitSuffices'
  BY <1>0, <1>2, <1>4, TypeFacts DEF SuperstepBudget, LimitSuffices
<1> QED
  BY <1>5, <1>6, <1>8, <1>9 DEF IInv

(* The steps that end the run, and those that do nothing. *)
LEMMA EndStep ==
    ASSUME IInv, OrchestratorSynthesizer \/ NodeRaises \/ RecursionLimitReached
    PROVE  IInv'
<1>0. /\ TypeOK /\ HasWork /\ AttemptBound /\ BeganInBudget /\ StepBudget
      /\ ReplanBudget /\ ReplanBookkeeping /\ SuperstepBudget /\ LimitSuffices
  BY DEF IInv
<1>1. /\ pc' \in Ended
      /\ supersteps' \in Nat
      /\ UNCHANGED <<task_ledger, progress_ledger, step_count, recursion_limit, endorsed, objectors>>
  BY <1>0, TypeFacts
  DEF OrchestratorSynthesizer, NodeRaises, RecursionLimitReached, Superstep, Ended
<1>2. TypeOK'
  BY <1>0, <1>1 DEF TypeOK
<1>3. HasWork' /\ AttemptBound' /\ BeganInBudget' /\ StepBudget'
  BY <1>0, <1>1
  DEF HasWork, AttemptBound, BeganInBudget, StepBudget, InLoop, Executing, Ended
<1>4. ReplanBudget'
  <2>1. task_ledger.stall_count > task_ledger.replan_count => pc' \in {"failed", "out_of_steps"}
    BY <1>0, TypeFacts
    DEF ReplanBudget, OrchestratorSynthesizer, NodeRaises, RecursionLimitReached, Superstep, Ended
  <2> QED
    BY <1>0, <1>1, <2>1 DEF ReplanBudget
<1>5. ReplanBookkeeping'
  BY <1>1 DEF ReplanBookkeeping, InLoop, Executing, Ended
<1>6. SuperstepBudget'
  <2> DEFINE used == 4 * step_count + task_ledger.stall_count
  <2>1. CASE OrchestratorSynthesizer
    <3>1. supersteps <= used + 1 /\ supersteps' = supersteps + 1 /\ pc' = "END"
      BY <1>0, <2>1 DEF OrchestratorSynthesizer, Superstep, SuperstepBudget
    <3> QED
      BY <1>1, <3>1, TypeFacts, <1>0 DEF SuperstepBudget
  <2>2. CASE NodeRaises \/ RecursionLimitReached
    <3>1. supersteps <= used + 2
      BY <1>0, TypeFacts DEF SuperstepBudget
    <3>2. supersteps' = supersteps /\ pc' \in {"failed", "out_of_steps"}
      BY <2>2 DEF NodeRaises, RecursionLimitReached
    <3> QED
      BY <1>0, <1>1, <3>1, <3>2, TypeFacts DEF SuperstepBudget
  <2> QED
    BY <2>1, <2>2
<1>7. LimitSuffices'
  <2>1. CASE RecursionLimitReached
    <3>1. /\ pc \notin Ended /\ supersteps >= recursion_limit
          /\ UNCHANGED recursion_limit
      BY <2>1 DEF RecursionLimitReached
    <3>2. supersteps <= 4 * step_count + task_ledger.stall_count + 1
      BY <1>0, <3>1, TypeFacts DEF SuperstepBudget, TypeOK, Ended
    <3>3. /\ step_count <= MaxSteps + MaxReviews
          /\ task_ledger.stall_count <= 2
      BY <1>0 DEF StepBudget, ReplanBudget, MaxReplans
    <3>4. ~EnoughSupersteps
      BY <1>0, <3>1, <3>2, <3>3, TypeFacts, ConstantTypes DEF EnoughSupersteps
    <3> QED
      BY <3>1, <3>4 DEF LimitSuffices, EnoughSupersteps
  <2>2. CASE OrchestratorSynthesizer \/ NodeRaises
    BY <2>2 DEF OrchestratorSynthesizer, NodeRaises, LimitSuffices
  <2> QED
    BY <2>1, <2>2
<1> QED
  BY <1>2, <1>3, <1>4, <1>5, <1>6, <1>7 DEF IInv

(* Nothing in the invariant depends on more than the variables. *)
LEMMA Stutter ==
    ASSUME IInv, UNCHANGED vars
    PROVE  IInv'
BY DEF vars, IInv, TypeOK, HasWork, AttemptBound, BeganInBudget, StepBudget, ReplanBudget,
       ReplanBookkeeping, SuperstepBudget, LimitSuffices, EnoughSupersteps

-----------------------------------------------------------------------------
(* The theorems *)

(* The bookkeeping of the engine is inductive: it holds initially and every *)
(* node, whatever the models answer, preserves it.                          *)
THEOREM Inductive == Spec => []IInv
<1>1. IInv /\ [Next]_vars => IInv'
  BY PlannerStep, DispatchStep, PersonStep, WaivedStep, RowMissingStep, VerdictStep,
     AdvanceStep, StallStep, EndStep, Stutter DEF Next
<1> QED
  BY <1>1, InitEstablishes, PTL DEF Spec

(* Both ledgers stay well typed. *)
THEOREM TypeCorrect == Spec => []TypeOK
<1>1. IInv => TypeOK
  BY DEF IInv
<1> QED
  BY <1>1, Inductive, PTL

(* For every team and every behaviour of its models, a run dispatches at    *)
(* most max_steps + max_review_iterations rounds of work.                   *)
THEOREM StepsBounded == Spec => []StepBudget
<1>1. IInv => StepBudget
  BY DEF IInv
<1> QED
  BY <1>1, Inductive, PTL

(* A run goes back to its planner at most twice, and stalls and replans     *)
(* are counted in step.                                                     *)
THEOREM ReplansBounded == Spec => []ReplanBudget
<1>1. IInv => ReplanBudget
  BY DEF IInv
<1> QED
  BY <1>1, Inductive, PTL

(* A recursion limit of 4 * (max_steps + max_review_iterations) + 4 is      *)
(* never reached, so a run under such a limit ends by an answer or by an    *)
(* exception of a node.                                                     *)
THEOREM RecursionLimitSuffices == Spec => []LimitSuffices
<1>1. IInv => LimitSuffices
  BY DEF IInv
<1> QED
  BY <1>1, Inductive, PTL
-----------------------------------------------------------------------------
(* Artifacts and reviews: the operators *)

(* The planning edge ends the work only when it is done or the budget is spent. *)
LEMMA RouteToAnswer ==
    ASSUME NEW ms \in Seq(Milestone), NEW steps \in Nat,
           route_plan(ms, steps) = "orchestrator_synthesizer"
    PROVE  all_milestones_resolved(ms) \/ steps >= MaxSteps
<1>1. next_pending_milestone(ms) = {} => all_milestones_resolved(ms)
  BY SomePending DEF all_milestones_resolved
<1> QED
  BY <1>1 DEF route_plan

(* Marking changes nothing but the status. *)
LEMMA MarkAllKeeps ==
    ASSUME NEW ms \in Seq(Milestone), NEW id, NEW status
    PROVE  \A j \in DOMAIN ms : /\ MarkAll(ms, id, status)[j].artifact = ms[j].artifact
                                /\ MarkAll(ms, id, status)[j].assigned_node = ms[j].assigned_node
<1>1. \A i \in DOMAIN ms : ms[i] \in Milestone
  BY LenProperties, ElementOfSeq
<1> QED
  BY <1>1 DEF MarkAll, Milestone

(* A new plan has no artifacts. *)
LEMMA PlanIsFresh ==
    ASSUME NEW plan \in NormalisedPlans
    PROVE  \A i \in DOMAIN plan : plan[i].artifact = 0 /\ plan[i].status = "pending"
<1>1. PICK n \in 1..MaxMilestones :
        plan \in {[i \in 1..n |-> NewMilestone(ids[i], nodes[i])] :
                    ids \in [1..n -> MilestoneIds], nodes \in [1..n -> Assignable]}
  BY DEF NormalisedPlans
<1>2. PICK ids \in [1..n -> MilestoneIds], nodes \in [1..n -> Assignable] :
        plan = [i \in 1..n |-> NewMilestone(ids[i], nodes[i])]
  BY <1>1
<1> QED
  BY <1>2 DEF NewMilestone

(* An increasing enumeration of a finite set of positions leaves none out. *)
LEMMA NoneLeftOut ==
    ASSUME NEW S \in SUBSET Nat, IsFiniteSet(S), NEW e \in InOrder(S), NEW i \in S
    PROVE  \E k \in DOMAIN e : e[k] = i
<1> DEFINE n == Cardinality(S)
<1>1. n \in Nat
  BY FS_CardinalityType
<1>2. e \in [1..n -> S] /\ \A j, k \in 1..n : j < k => e[j] < e[k]
  BY DEF InOrder
<1>3. Cardinality(1..n) = n /\ IsFiniteSet(1..n)
  BY <1>1, FS_Interval
<1>4. \A j, k \in 1..n : e[j] = e[k] => j = k
  <2> SUFFICES ASSUME NEW j \in 1..n, NEW k \in 1..n, e[j] = e[k], j # k
               PROVE  FALSE
    OBVIOUS
  <2>1. j \in Nat /\ k \in Nat /\ e[j] \in Nat /\ e[k] \in Nat
    <3>1. e[j] \in S /\ e[k] \in S
      BY <1>2
    <3>2. j \in Nat /\ k \in Nat
      BY <1>1
    <3>3. e[j] \in Nat /\ e[k] \in Nat
      BY <3>1
    <3> QED
      BY <3>2, <3>3
  <2>2. j < k \/ k < j
    BY <2>1
  <2> QED
    BY <1>2, <2>1, <2>2
<1>5. e \in Injection(1..n, S)
  BY <1>2, <1>4 DEF Injection, IsInjective
<1>6. e \in Surjection(1..n, S)
  BY <1>3, <1>5, FS_Injection
<1> QED
  BY <1>2, <1>6 DEF Surjection

(* A replan keeps the verified milestones, all of them and no other. *)
LEMMA Replanned ==
    ASSUME NEW ms \in Seq(Milestone), NEW e \in InOrder(KeptPositions(ms)), NEW plan \in NormalisedPlans
    PROVE  LET new == IF ms # <<>> THEN Sublist(ms, e) \o plan ELSE plan
           IN /\ new \in Seq(Milestone)
              /\ \A k \in DOMAIN new :
                    \/ new[k].artifact = 0 /\ new[k].status = "pending"
                    \/ \E i \in DOMAIN ms : ms[i].status = "verified" /\ new[k] = ms[i]
              /\ \A i \in DOMAIN ms : ms[i].status = "verified" => \E k \in DOMAIN new : new[k] = ms[i]
<1> DEFINE kept == Sublist(ms, e)
           S == KeptPositions(ms)
           new == IF ms # <<>> THEN kept \o plan ELSE plan
<1>1. plan \in Seq(Milestone) /\ \A k \in DOMAIN plan : plan[k].artifact = 0 /\ plan[k].status = "pending"
  BY PlanType, PlanIsFresh
<1>2. CASE ms = <<>>
  <2>1. \A i : i \notin DOMAIN ms
    BY <1>2
  <2>2. new = plan
    BY <1>2
  <2> QED
    BY <1>1, <2>1, <2>2
<1>3. CASE ms # <<>>
  <2>1. S \in SUBSET Nat /\ IsFiniteSet(S) /\ S \subseteq DOMAIN ms
    <3>1. DOMAIN ms = 1..Len(ms) /\ Len(ms) \in Nat
      BY LenProperties
    <3>2. IsFiniteSet(DOMAIN ms)
      BY <3>1, FS_Interval
    <3> QED
      BY <3>1, <3>2, FS_Subset DEF KeptPositions
  <2>2. kept \in Seq(Milestone) /\ DOMAIN kept = 1..Len(kept) /\ Len(kept) \in Nat
    BY SublistType, LenProperties
  <2>3. DOMAIN kept = DOMAIN e /\ \A k \in DOMAIN e : e[k] \in S /\ kept[k] = ms[e[k]]
    BY DEF Sublist, InOrder
  <2>4. /\ kept \o plan \in Seq(Milestone)
        /\ Len(kept \o plan) = Len(kept) + Len(plan)
        /\ \A k \in 1..(Len(kept) + Len(plan)) :
              (kept \o plan)[k] = IF k <= Len(kept) THEN kept[k] ELSE plan[k - Len(kept)]
    BY <1>1, <2>2, ConcatProperties
  <2>5. DOMAIN (kept \o plan) = 1..(Len(kept) + Len(plan)) /\ Len(plan) \in Nat
        /\ DOMAIN plan = 1..Len(plan)
    BY <1>1, <2>4, LenProperties
  <2> HIDE DEF kept
  <2>6. ASSUME NEW k \in DOMAIN (kept \o plan)
        PROVE  \/ (kept \o plan)[k].artifact = 0 /\ (kept \o plan)[k].status = "pending"
               \/ \E i \in DOMAIN ms : ms[i].status = "verified" /\ (kept \o plan)[k] = ms[i]
    <3>1. CASE k <= Len(kept)
      <4>1. k \in DOMAIN e /\ (kept \o plan)[k] = ms[e[k]]
        BY <2>2, <2>3, <2>4, <2>5, <3>1
      <4> QED
        BY <2>1, <2>3, <4>1 DEF KeptPositions
    <3>2. CASE ~(k <= Len(kept))
      <4>1. k - Len(kept) \in DOMAIN plan /\ (kept \o plan)[k] = plan[k - Len(kept)]
        BY <2>2, <2>4, <2>5, <3>2
      <4> QED
        BY <1>1, <4>1
    <3> QED
      BY <3>1, <3>2
  <2>7. ASSUME NEW i \in DOMAIN ms, ms[i].status = "verified"
        PROVE  \E k \in DOMAIN (kept \o plan) : (kept \o plan)[k] = ms[i]
    <3>1. i \in S
      BY <2>7 DEF KeptPositions
    <3>2. PICK k \in DOMAIN e : e[k] = i
      BY <2>1, <3>1, NoneLeftOut
    <3>3. k \in 1..Len(kept) /\ k \in DOMAIN (kept \o plan)
      BY <2>2, <2>3, <2>5
    <3> QED
      BY <2>2, <2>3, <2>4, <2>5, <3>2, <3>3
  <2>8. new = kept \o plan
    BY <1>3
  <2> HIDE DEF new
  <2>9. /\ new \in Seq(Milestone)
        /\ \A k \in DOMAIN new :
              \/ new[k].artifact = 0 /\ new[k].status = "pending"
              \/ \E i \in DOMAIN ms : ms[i].status = "verified" /\ new[k] = ms[i]
        /\ \A i \in DOMAIN ms : ms[i].status = "verified" => \E k \in DOMAIN new : new[k] = ms[i]
    BY <2>4, <2>6, <2>7, <2>8
  <2> QED
    BY <2>9 DEF new, kept
<1> QED
  BY <1>2, <1>3

(* A turn that comes within the first round of the rotation falls to the    *)
(* reviewer of that number.                                                 *)
LEMMA FirstTurns ==
    ASSUME NEW producer \in Assignable, NEW attempt \in DOMAIN Reviewers[producer]
    PROVE  ReviewerOf(producer, attempt) = Reviewers[producer][attempt]
<1> DEFINE n == Len(Reviewers[producer])
<1>1. Reviewers[producer] \in Seq(Nodes)
  BY DSLAssumption DEF Assignable, Nodes
<1>2. n \in Nat /\ attempt \in 1..n
  BY <1>1, LenProperties
<1> HIDE DEF n
<1>3. (attempt - 1) % n = attempt - 1
  BY <1>2
<1>4. ((attempt - 1) % n) + 1 = attempt
  BY <1>2, <1>3
<1> QED
  BY <1>4 DEF ReviewerOf, n

-----------------------------------------------------------------------------
(* Artifacts and reviews, action by action *)

(* What a replan leaves of the ledger. *)
LEMMA PlannerFacts ==
    ASSUME IInv, OrchestratorPlanner
    PROVE  /\ task_ledger'.milestones \in Seq(Milestone)
           /\ \A k \in DOMAIN task_ledger'.milestones :
                 \/ /\ task_ledger'.milestones[k].artifact = 0
                    /\ task_ledger'.milestones[k].status = "pending"
                 \/ \E i \in DOMAIN task_ledger.milestones :
                       /\ task_ledger.milestones[i].status = "verified"
                       /\ task_ledger'.milestones[k] = task_ledger.milestones[i]
           /\ \A i \in DOMAIN task_ledger.milestones :
                 task_ledger.milestones[i].status = "verified" =>
                    \E k \in DOMAIN task_ledger'.milestones :
                       task_ledger'.milestones[k] = task_ledger.milestones[i]
           /\ pc' = route_plan(task_ledger'.milestones, step_count)
           /\ pc' \in {"dispatch_subtask", "orchestrator_synthesizer"}
           /\ progress_ledger'.attempt = 0 /\ progress_ledger'.critique = 0
           /\ pc = "orchestrator_planner" /\ UNCHANGED <<step_count, endorsed>>
<1> DEFINE ms == task_ledger.milestones
<1>1. ms \in Seq(Milestone) /\ task_ledger \in TaskLedger /\ step_count \in Nat
  BY TypeFacts DEF IInv
<1>2. PICK e \in InOrder(KeptPositions(ms)), plan \in NormalisedPlans :
        LET milestones == IF ms # <<>> THEN Sublist(ms, e) \o plan ELSE plan
        IN /\ task_ledger' = [task_ledger EXCEPT !.milestones = milestones,
                                 !.replan_count = IF ms # <<>> THEN @ + 1 ELSE 0]
           /\ pc' = route_plan(milestones, step_count)
  BY DEF OrchestratorPlanner
<1> DEFINE new == IF ms # <<>> THEN Sublist(ms, e) \o plan ELSE plan
<1>3. /\ new \in Seq(Milestone)
      /\ \A k \in DOMAIN new :
            \/ new[k].artifact = 0 /\ new[k].status = "pending"
            \/ \E i \in DOMAIN ms : ms[i].status = "verified" /\ new[k] = ms[i]
      /\ \A i \in DOMAIN ms : ms[i].status = "verified" => \E k \in DOMAIN new : new[k] = ms[i]
  BY <1>1, Replanned
<1> HIDE DEF new
<1>4. /\ task_ledger' = [task_ledger EXCEPT !.milestones = new,
                            !.replan_count = IF ms # <<>> THEN @ + 1 ELSE 0]
      /\ pc' = route_plan(new, step_count)
  BY <1>2 DEF new
<1>5. task_ledger'.milestones = new
  BY <1>1, <1>4 DEF TaskLedger
<1>6. pc' \in {"dispatch_subtask", "orchestrator_synthesizer"}
  BY <1>1, <1>4, RoutePlan
<1>7. /\ progress_ledger'.attempt = 0 /\ progress_ledger'.critique = 0
      /\ pc = "orchestrator_planner" /\ UNCHANGED <<step_count, endorsed>>
  BY DEF OrchestratorPlanner, Superstep, new_progress_ledger
<1> QED
  BY <1>3, <1>4, <1>5, <1>6, <1>7

(* What a dispatch changes. *)
LEMMA DispatchFacts ==
    ASSUME IInv, DispatchSubtask
    PROVE  \E i \in DOMAIN task_ledger.milestones :
              LET m == task_ledger.milestones[i]
              IN /\ m.status \notin Resolved
                 /\ progress_ledger.attempt > 0 => m.id = progress_ledger.current
                 /\ task_ledger'.milestones = MarkAll(task_ledger.milestones, m.id, "in_progress")
                 /\ progress_ledger'.current = m.id
                 /\ progress_ledger'.assigned_node = m.assigned_node
                 /\ m.assigned_node \in Assignable
                 /\ progress_ledger'.attempt = progress_ledger.attempt + 1
                 /\ progress_ledger.attempt > 0 => objectors' = objectors
                 /\ pc = "dispatch_subtask" /\ UNCHANGED endorsed
                 /\ pc' = IF Specialists = {} THEN "orchestrator_synthesizer" ELSE "person"
<1> DEFINE ms == task_ledger.milestones
<1>0. TypeOK /\ HasWork
  BY DEF IInv
<1>1. next_pending_milestone(ms) # {} /\ pc = "dispatch_subtask"
  BY <1>0 DEF DispatchSubtask, Superstep, HasWork, InLoop
<1>2. PICK i \in next_pending_milestone(ms) :
        /\ task_ledger' = [task_ledger EXCEPT !.milestones = MarkAll(ms, ms[i].id, "in_progress")]
        /\ progress_ledger' = [progress_ledger EXCEPT
                                 !.current = ms[i].id,
                                 !.assigned_node = ms[i].assigned_node,
                                 !.review_status = "awaiting_execution",
                                 !.attempt = NextAttempt(ms[i].id)]
        /\ objectors' = IF NextAttempt(ms[i].id) = 1 THEN {} ELSE objectors
  BY <1>1 DEF DispatchSubtask
<1>3. i \in DOMAIN ms /\ ms[i].status \notin Resolved
  BY DEF next_pending_milestone
<1>4. ms[i].assigned_node \in Assignable
  BY <1>0, <1>3, TypeFacts DEF Milestone
<1>5. progress_ledger.attempt > 0 => ms[i].id = progress_ledger.current
  BY <1>0, <1>1 DEF HasWork, InLoop
<1>6. /\ NextAttempt(ms[i].id) = progress_ledger.attempt + 1
      /\ progress_ledger.attempt > 0 => NextAttempt(ms[i].id) # 1
  <2>1. progress_ledger.attempt \in Nat
    BY <1>0, TypeFacts
  <2> QED
    BY <1>5, <2>1 DEF NextAttempt
<1>7. /\ task_ledger'.milestones = MarkAll(ms, ms[i].id, "in_progress")
      /\ progress_ledger'.current = ms[i].id
      /\ progress_ledger'.assigned_node = ms[i].assigned_node
      /\ progress_ledger'.attempt = progress_ledger.attempt + 1
  BY <1>0, <1>2, <1>6, TypeFacts DEF TaskLedger, ProgressLedger
<1>8. /\ pc' = IF Specialists = {} THEN "orchestrator_synthesizer" ELSE "person"
      /\ UNCHANGED endorsed
  BY DEF DispatchSubtask, route_dispatch
<1> QED
  BY <1>1, <1>2, <1>3, <1>4, <1>5, <1>6, <1>7, <1>8

(* The planner drops every artifact that is not verified. *)
LEMMA PlannerArtifacts ==
    ASSUME IInv, ArtifactInv, OrchestratorPlanner
    PROVE  ArtifactInv'
<1> DEFINE ms == task_ledger.milestones
           new == task_ledger'.milestones
<1>1. /\ new \in Seq(Milestone)
      /\ \A k \in DOMAIN new : \/ new[k].artifact = 0 /\ new[k].status = "pending"
                               \/ \E i \in DOMAIN ms : ms[i].status = "verified" /\ new[k] = ms[i]
      /\ pc' = route_plan(new, step_count)
      /\ pc' \in {"dispatch_subtask", "orchestrator_synthesizer"}
      /\ progress_ledger'.attempt = 0 /\ progress_ledger'.critique = 0
      /\ UNCHANGED <<step_count, endorsed>>
  BY PlannerFacts
<1>2. step_count \in Nat
  BY TypeFacts DEF IInv
<1>3. SynthesisIsEarned'
  BY <1>1, <1>2, RouteToAnswer DEF SynthesisIsEarned
<1>4. VerifiedWasEndorsed'
  BY <1>1 DEF ArtifactInv, VerifiedWasEndorsed, Verified
<1>5. ~UnderWork' /\ pc' \notin Executing
  BY <1>1 DEF UnderWork, Executing
<1>6. ArtifactsAccountedFor'
  BY <1>1, <1>5 DEF ArtifactInv, ArtifactsAccountedFor
<1>7. RotationIsFair' /\ CritiqueMatchesAttempt' /\ CurrentInProgress' /\ AdvanceIsDecided' /\ ObjectionsKept'
  BY <1>1, <1>5
  DEF RotationIsFair, CritiqueMatchesAttempt, CurrentInProgress, AdvanceIsDecided, ObjectionsKept
<1> QED
  BY <1>3, <1>4, <1>6, <1>7 DEF ArtifactInv

(* A dispatch reopens the namesakes of its milestone, and a retry goes to   *)
(* the producer that the earlier attempts had, unless a namesake's.         *)
LEMMA DispatchArtifacts ==
    ASSUME IInv, ArtifactInv, DispatchSubtask
    PROVE  ArtifactInv'
<1> DEFINE ms == task_ledger.milestones
           new == task_ledger'.milestones
<1>1. PICK i \in DOMAIN ms :
          /\ ms[i].status \notin Resolved
          /\ progress_ledger.attempt > 0 => ms[i].id = progress_ledger.current
          /\ new = MarkAll(ms, ms[i].id, "in_progress")
          /\ progress_ledger'.current = ms[i].id
          /\ progress_ledger'.assigned_node = ms[i].assigned_node
          /\ ms[i].assigned_node \in Assignable
          /\ progress_ledger'.attempt = progress_ledger.attempt + 1
          /\ progress_ledger.attempt > 0 => objectors' = objectors
          /\ pc = "dispatch_subtask" /\ UNCHANGED endorsed
          /\ pc' = IF Specialists = {} THEN "orchestrator_synthesizer" ELSE "person"
  BY DispatchFacts
<1>2. ms \in Seq(Milestone) /\ progress_ledger.attempt \in Nat
  BY TypeFacts DEF IInv
<1>3. /\ DOMAIN new = DOMAIN ms
      /\ \A j \in DOMAIN ms : /\ new[j].id = ms[j].id
                              /\ ms[j].id # ms[i].id => new[j] = ms[j]
                              /\ ms[j].id = ms[i].id => new[j].status = "in_progress"
                              /\ new[j].artifact = ms[j].artifact
                              /\ new[j].assigned_node = ms[j].assigned_node
  BY <1>1, <1>2, MarkAllShape, MarkAllKeeps
<1> HIDE DEF new
<1>4. SynthesisIsEarned'
  BY <1>1 DEF SynthesisIsEarned
<1>5. VerifiedWasEndorsed'
  <2>1. \A j \in DOMAIN new : new[j].status = "verified" => new[j] = ms[j] /\ ms[j].status = "verified"
    BY <1>3
  <2> QED
    BY <1>1, <1>3, <2>1 DEF ArtifactInv, VerifiedWasEndorsed, Verified, new
<1>6. CurrentInProgress'
  BY <1>1, <1>3 DEF CurrentInProgress, new
<1>7. ArtifactsAccountedFor'
  <2>1. Specialists = {} => pc' \notin Executing /\ \A j \in DOMAIN new : new[j].artifact = 0
    BY <1>1, <1>3 DEF ArtifactInv, ArtifactsAccountedFor, Executing
  <2>2. ASSUME NEW j \in DOMAIN new, new[j].artifact # 0, new[j].status # "verified"
        PROVE  UnderWork' /\ new[j].id = progress_ledger'.current
    <3>1. Specialists # {} /\ UnderWork'
      BY <1>1, <2>1, <2>2 DEF UnderWork, Executing
    <3>2. ASSUME ms[j].id # ms[i].id
          PROVE  FALSE
      <4>1. ms[j].artifact # 0 /\ ms[j].status # "verified" /\ j \in DOMAIN ms
        BY <1>3, <2>2, <3>2
      <4>2. UnderWork /\ ms[j].id = progress_ledger.current
        BY <1>1, <4>1 DEF ArtifactInv, ArtifactsAccountedFor
      <4>3. progress_ledger.attempt > 0
        BY <1>1, <4>2 DEF UnderWork, Executing
      <4> QED
        BY <1>1, <3>2, <4>2, <4>3
    <3> QED
      BY <1>1, <1>3, <2>2, <3>1, <3>2
  <2> QED
    BY <2>1, <2>2 DEF ArtifactsAccountedFor, new
<1>8. ObjectionsKept'
  <2> DEFINE rs == Reviewers[ms[i].assigned_node]
  <2>1. ASSUME ~ChangesHands', NEW n \in DOMAIN rs, n <= progress_ledger.attempt
        PROVE  rs[n] \in objectors'
    <3>1. n > 0
      <4>1. rs \in Seq(Nodes)
        BY <1>1, DSLAssumption DEF Assignable, Nodes
      <4>2. n \in 1..Len(rs) /\ Len(rs) \in Nat
        BY <4>1, LenProperties
      <4> QED
        BY <4>2
    <3>2. progress_ledger.attempt > 0 /\ UnderWork
      <4>1. n \in Nat
        BY <1>1, DSLAssumption, LenProperties DEF Assignable, Nodes
      <4> QED
        BY <1>1, <1>2, <2>1, <3>1, <4>1 DEF UnderWork
    <3>3. PICK j \in DOMAIN ms : /\ ms[j].id = progress_ledger.current
                                 /\ ms[j].assigned_node = progress_ledger.assigned_node
      BY <3>2 DEF ArtifactInv, CurrentInProgress
    <3>4. \A k \in DOMAIN ms : ms[k].id = progress_ledger.current => ms[k].assigned_node = ms[i].assigned_node
      <4>1. \A k \in DOMAIN new : new[k].id = progress_ledger'.current =>
                                     new[k].assigned_node = progress_ledger'.assigned_node
        BY <2>1 DEF ChangesHands, new
      <4> QED
        BY <1>1, <1>3, <3>2, <4>1
    <3>5. progress_ledger.assigned_node = ms[i].assigned_node /\ ~ChangesHands
      BY <3>3, <3>4 DEF ChangesHands
    <3>6. HaveObjected(progress_ledger.attempt)
      BY <1>1, <3>2, <3>5 DEF ArtifactInv, ObjectionsKept
    <3> QED
      BY <1>1, <2>1, <3>2, <3>5, <3>6 DEF HaveObjected
  <2>2. ~ChangesHands' => HaveObjected(progress_ledger.attempt - 1)'
    <3>1. progress_ledger'.attempt - 1 = progress_ledger.attempt
      BY <1>1, <1>2
    <3> QED
      BY <1>1, <2>1, <3>1 DEF HaveObjected
  <2>3. pc' \in {"person", "orchestrator_synthesizer"}
    BY <1>1
  <2> QED
    BY <2>2, <2>3 DEF ObjectionsKept
<1>9. RotationIsFair' /\ CritiqueMatchesAttempt' /\ AdvanceIsDecided'
  <2>1. pc' \in {"person", "orchestrator_synthesizer"}
    BY <1>1
  <2> QED
    BY <2>1 DEF RotationIsFair, CritiqueMatchesAttempt, AdvanceIsDecided
<1> QED
  BY <1>4, <1>5, <1>6, <1>7, <1>8, <1>9 DEF ArtifactInv

(* Work goes on within the attempt. *)
LEMMA PersonArtifacts ==
    ASSUME IInv, ArtifactInv, PersonNode
    PROVE  ArtifactInv'
<1>1. /\ progress_ledger' = [progress_ledger EXCEPT !.artifact = step_count,
                                                   !.review_status = "in_review"]
      /\ pc = "person" /\ pc' = "dialectical_review"
      /\ UNCHANGED <<task_ledger, endorsed, objectors>>
  BY DEF PersonNode, Superstep
<1>2. /\ progress_ledger'.attempt = progress_ledger.attempt
      /\ progress_ledger'.current = progress_ledger.current
      /\ progress_ledger'.assigned_node = progress_ledger.assigned_node
  BY <1>1, TypeFacts DEF IInv, ProgressLedger
<1>3. UnderWork /\ UnderWork'
  BY <1>1 DEF UnderWork, Executing
<1>4. CurrentInProgress' /\ ArtifactsAccountedFor' /\ VerifiedWasEndorsed'
  BY <1>1, <1>2, <1>3
  DEF ArtifactInv, CurrentInProgress, ArtifactsAccountedFor, VerifiedWasEndorsed, Verified, Executing
<1>5. ObjectionsKept'
  BY <1>1, <1>2 DEF ArtifactInv, ObjectionsKept, ChangesHands, HaveObjected
<1>6. SynthesisIsEarned' /\ RotationIsFair' /\ CritiqueMatchesAttempt' /\ AdvanceIsDecided'
  BY <1>1 DEF SynthesisIsEarned, RotationIsFair, CritiqueMatchesAttempt, AdvanceIsDecided
<1> QED
  BY <1>4, <1>5, <1>6 DEF ArtifactInv

(* A rejection adds the objection of the reviewer whose turn it was, an     *)
(* acceptance endorses the artifact under review.                           *)
LEMMA ReviewArtifacts ==
    ASSUME IInv, ArtifactInv, Superstep("dialectical_review"),
           NEW status \in {"accepted", "rejected"}, NEW critique,
           Decide([progress_ledger EXCEPT !.review_status = status, !.critique = critique]),
           objectors \subseteq objectors',
           status = "rejected" =>
              /\ critique \in {0, progress_ledger.artifact}
              /\ ReviewerOf(progress_ledger.assigned_node, progress_ledger.attempt) \in objectors'
    PROVE  ArtifactInv'
<1> DEFINE progress == [progress_ledger EXCEPT !.review_status = status, !.critique = critique]
<1>1. progress_ledger \in ProgressLedger /\ progress_ledger.attempt \in Nat
  BY TypeFacts DEF IInv
<1>2. /\ progress.review_status = status /\ progress.critique = critique
      /\ progress.attempt = progress_ledger.attempt
      /\ progress.current = progress_ledger.current
      /\ progress.assigned_node = progress_ledger.assigned_node
      /\ progress.artifact = progress_ledger.artifact
  BY <1>1 DEF ProgressLedger
<1> HIDE DEF progress
<1>3. /\ progress_ledger' = progress
      /\ pc' = route_review(status, progress_ledger.attempt, task_ledger.replan_count)
      /\ endorsed' = IF status = "accepted" THEN endorsed \cup {progress.artifact} ELSE endorsed
      /\ UNCHANGED task_ledger
      /\ pc = "dialectical_review"
  BY <1>2 DEF Decide, Superstep, progress
<1>4. /\ pc' \in {"advance_milestone", "stall_recovery", "dispatch_subtask"}
      /\ pc' # "advance_milestone" => status = "rejected"
      /\ pc' = "advance_milestone" => status = "accepted" \/ progress_ledger.attempt > MaxReviews
  BY <1>1, <1>3, ConstantTypes DEF route_review
<1>5. progress_ledger.attempt > 0 /\ progress_ledger.assigned_node \in Assignable
  BY <1>3 DEF IInv, AttemptBound, Executing
<1>6. UnderWork /\ UnderWork'
  BY <1>2, <1>3, <1>4, <1>5 DEF UnderWork, Executing
<1>7. CurrentInProgress'
  BY <1>2, <1>3, <1>6 DEF ArtifactInv, CurrentInProgress
<1>8. ArtifactsAccountedFor'
  <2>1. Specialists # {}
    BY <1>3 DEF ArtifactInv, ArtifactsAccountedFor, Executing
  <2> QED
    BY <1>2, <1>3, <1>6, <2>1 DEF ArtifactInv, ArtifactsAccountedFor
<1>9. VerifiedWasEndorsed'
  BY <1>3 DEF ArtifactInv, VerifiedWasEndorsed, Verified
<1>10. AdvanceIsDecided'
  BY <1>2, <1>3, <1>4 DEF AdvanceIsDecided
<1>11. CritiqueMatchesAttempt'
  BY <1>2, <1>3, <1>4, <1>5 DEF CritiqueMatchesAttempt
<1>12. (status = "rejected" /\ ~ChangesHands') => HaveObjected(progress_ledger.attempt)'
  <2> DEFINE rs == Reviewers[progress_ledger.assigned_node]
  <2> SUFFICES ASSUME status = "rejected", ~ChangesHands',
                      NEW n \in DOMAIN rs, n <= progress_ledger.attempt
               PROVE  rs[n] \in objectors'
    BY <1>2, <1>3 DEF HaveObjected
  <2>1. ~ChangesHands
    BY <1>2, <1>3 DEF ChangesHands
  <2>2. HaveObjected(progress_ledger.attempt - 1)
    BY <1>3, <2>1 DEF ArtifactInv, ObjectionsKept
  <2>3. n \in Nat
    BY <1>5, DSLAssumption, LenProperties DEF Assignable, Nodes
  <2>4. CASE n <= progress_ledger.attempt - 1
    BY <2>2, <2>4 DEF HaveObjected
  <2>5. CASE n = progress_ledger.attempt
    BY <1>5, <2>5, FirstTurns
  <2> QED
    BY <1>1, <2>3, <2>4, <2>5
<1>13. RotationIsFair'
  BY <1>2, <1>3, <1>12 DEF RotationIsFair, HaveObjected
<1>14. ObjectionsKept'
  BY <1>2, <1>3, <1>4, <1>12 DEF ObjectionsKept, HaveObjected
<1>15. SynthesisIsEarned'
  BY <1>4 DEF SynthesisIsEarned
<1> QED
  BY <1>7, <1>8, <1>9, <1>10, <1>11, <1>13, <1>14, <1>15 DEF ArtifactInv

(* The three outcomes of a review. *)
LEMMA ReviewsArtifacts ==
    ASSUME IInv, ArtifactInv, ReviewWaived \/ ReviewerRowMissing \/ DialecticalReview
    PROVE  ArtifactInv'
<1>1. CASE ReviewWaived
  BY <1>1, ReviewArtifacts DEF ReviewWaived
<1>2. CASE ReviewerRowMissing
  <2>1. progress_ledger \in ProgressLedger
    BY TypeFacts DEF IInv
  <2>2. [progress_ledger EXCEPT !.review_status = "accepted"] =
        [progress_ledger EXCEPT !.review_status = "accepted", !.critique = progress_ledger.critique]
    BY <2>1 DEF ProgressLedger
  <2> QED
    BY <1>2, <2>2, ReviewArtifacts DEF ReviewerRowMissing
<1>3. CASE DialecticalReview
  <2>1. PICK status \in {"accepted", "rejected"}, critique \in {0, progress_ledger.artifact} :
          /\ Decide([progress_ledger EXCEPT !.review_status = status, !.critique = critique])
          /\ objectors' = IF status = "rejected"
                           THEN objectors \cup {ReviewerOf(progress_ledger.assigned_node,
                                                            progress_ledger.attempt)}
                           ELSE objectors
    BY <1>3 DEF DialecticalReview, CritiqueLeft
  <2> QED
    BY <1>3, <2>1, ReviewArtifacts DEF DialecticalReview
<1> QED
  BY <1>1, <1>2, <1>3

(* What advancing changes. *)
LEMMA AdvanceFacts ==
    ASSUME IInv, AdvanceMilestone
    PROVE  /\ DOMAIN task_ledger'.milestones = DOMAIN task_ledger.milestones
           /\ \A j \in DOMAIN task_ledger.milestones :
                 task_ledger'.milestones[j] = IF task_ledger.milestones[j].id = progress_ledger.current
                                              THEN Resolve(task_ledger.milestones[j])
                                              ELSE task_ledger.milestones[j]
           /\ task_ledger'.milestones \in Seq(Milestone)
           /\ pc' = route_plan(task_ledger'.milestones, step_count)
           /\ pc' \in {"dispatch_subtask", "orchestrator_synthesizer"}
           /\ progress_ledger'.attempt = 0 /\ progress_ledger'.critique = 0
           /\ pc = "advance_milestone" /\ UNCHANGED <<step_count, endorsed>>
<1> DEFINE ms == task_ledger.milestones
           new == [i \in DOMAIN ms |-> IF ms[i].id = progress_ledger.current
                                      THEN Resolve(ms[i]) ELSE ms[i]]
<1>1. /\ task_ledger \in TaskLedger /\ progress_ledger \in ProgressLedger
      /\ step_count \in Nat /\ ms \in Seq(Milestone)
      /\ \A i \in DOMAIN ms : ms[i] \in Milestone
  BY TypeFacts DEF IInv
<1>2. /\ DOMAIN new = DOMAIN ms
      /\ \A j \in DOMAIN ms : new[j] = IF ms[j].id = progress_ledger.current THEN Resolve(ms[j]) ELSE ms[j]
  OBVIOUS
<1>3. new \in Seq(Milestone)
  <2>1. new \in [DOMAIN ms -> Milestone]
    BY <1>1, ResolveType
  <2> QED
    BY <1>1, <2>1, PointwiseList
<1> HIDE DEF new
<1>4. task_ledger' = [task_ledger EXCEPT !.milestones = new] /\ pc' = route_plan(new, step_count)
  BY DEF AdvanceMilestone, new
<1>5. task_ledger'.milestones = new
  BY <1>1, <1>4 DEF TaskLedger
<1>6. /\ progress_ledger'.attempt = 0 /\ progress_ledger'.critique = 0
      /\ pc = "advance_milestone" /\ UNCHANGED <<step_count, endorsed>>
  BY <1>1 DEF AdvanceMilestone, Superstep, ProgressLedger
<1> QED
  BY <1>1, <1>2, <1>3, <1>4, <1>5, <1>6, RoutePlan

(* Whatever is advanced is verified, with the artifact a review accepted or *)
(* with a note.                                                             *)
LEMMA AdvanceArtifacts ==
    ASSUME IInv, ArtifactInv, AdvanceMilestone
    PROVE  ArtifactInv'
<1> DEFINE ms == task_ledger.milestones
           new == task_ledger'.milestones
<1>1. /\ DOMAIN new = DOMAIN ms
      /\ \A j \in DOMAIN ms : new[j] = IF ms[j].id = progress_ledger.current THEN Resolve(ms[j]) ELSE ms[j]
      /\ new \in Seq(Milestone) /\ pc' = route_plan(new, step_count)
      /\ pc' \in {"dispatch_subtask", "orchestrator_synthesizer"}
      /\ progress_ledger'.attempt = 0 /\ progress_ledger'.critique = 0
      /\ pc = "advance_milestone" /\ UNCHANGED <<step_count, endorsed>>
  BY AdvanceFacts
<1>2. step_count \in Nat /\ \A j \in DOMAIN ms : ms[j] \in Milestone
  BY TypeFacts DEF IInv
<1>3. progress_ledger.review_status = "accepted" \/ progress_ledger.attempt > MaxReviews
  BY <1>1 DEF ArtifactInv, AdvanceIsDecided
<1>4. ASSUME NEW j \in DOMAIN ms, ms[j].id = progress_ledger.current
      PROVE  /\ new[j].status = "verified" /\ new[j].artifact = progress_ledger.artifact
             /\ new[j].review_note = "" => progress_ledger.review_status = "accepted"
  <2>1. new[j] = Resolve(ms[j]) /\ ms[j] \in Milestone
    BY <1>1, <1>2, <1>4
  <2> QED
    BY <1>3, <2>1 DEF Resolve, Milestone
<1>5. \A j \in DOMAIN ms : ms[j].id # progress_ledger.current => new[j] = ms[j]
  BY <1>1
<1> HIDE DEF new
<1>6. SynthesisIsEarned'
  BY <1>1, <1>2, RouteToAnswer DEF SynthesisIsEarned, new
<1>7. VerifiedWasEndorsed'
  <2>1. progress_ledger.review_status = "accepted" => progress_ledger.artifact \in endorsed
    BY <1>1 DEF ArtifactInv, AdvanceIsDecided
  <2>2. ASSUME NEW j \in DOMAIN new, new[j].status = "verified", new[j].review_note = ""
        PROVE  new[j].artifact \in endorsed
    <3>1. CASE ms[j].id = progress_ledger.current
      BY <1>1, <1>4, <2>1, <2>2, <3>1
    <3>2. CASE ms[j].id # progress_ledger.current
      BY <1>1, <1>5, <2>2, <3>2 DEF ArtifactInv, VerifiedWasEndorsed, Verified
    <3> QED
      BY <3>1, <3>2
  <2> QED
    BY <1>1, <2>2 DEF VerifiedWasEndorsed, Verified, new
<1>8. ~UnderWork' /\ pc' \notin Executing
  BY <1>1 DEF UnderWork, Executing
<1>9. ArtifactsAccountedFor'
  <2>1. Specialists # {}
    BY <1>1 DEF ArtifactInv, ArtifactsAccountedFor, Executing
  <2>2. ASSUME NEW j \in DOMAIN new, new[j].artifact # 0, new[j].status # "verified"
        PROVE  FALSE
    <3>1. ms[j].id # progress_ledger.current /\ new[j] = ms[j] /\ j \in DOMAIN ms
      BY <1>1, <1>4, <1>5, <2>2
    <3> QED
      BY <1>1, <2>2, <3>1 DEF ArtifactInv, ArtifactsAccountedFor
  <2> QED
    BY <2>1, <2>2 DEF ArtifactsAccountedFor, new
<1>10. RotationIsFair' /\ CritiqueMatchesAttempt' /\ CurrentInProgress' /\ AdvanceIsDecided' /\ ObjectionsKept'
  BY <1>1, <1>8
  DEF RotationIsFair, CritiqueMatchesAttempt, CurrentInProgress, AdvanceIsDecided, ObjectionsKept
<1> QED
  BY <1>6, <1>7, <1>9, <1>10 DEF ArtifactInv

(* What a stall changes. *)
LEMMA StallFacts ==
    ASSUME IInv, StallRecovery
    PROVE  /\ task_ledger'.milestones =
                 MarkAll(task_ledger.milestones, progress_ledger.current, "failed")
           /\ task_ledger.milestones \in Seq(Milestone)
           /\ pc = "stall_recovery" /\ pc' = "orchestrator_planner" /\ UNCHANGED endorsed
<1>1. task_ledger \in TaskLedger /\ task_ledger.milestones \in Seq(Milestone)
  BY TypeFacts DEF IInv
<1>2. task_ledger' = [task_ledger EXCEPT
                        !.milestones = MarkAll(task_ledger.milestones, progress_ledger.current, "failed"),
                        !.stall_count = task_ledger.stall_count + 1]
  BY DEF StallRecovery
<1>3. task_ledger'.milestones = MarkAll(task_ledger.milestones, progress_ledger.current, "failed")
  BY <1>1, <1>2 DEF TaskLedger
<1> QED
  BY <1>1, <1>3 DEF StallRecovery, Superstep

(* A stall leaves artifacts that the planner will drop. *)
LEMMA StallArtifacts ==
    ASSUME IInv, ArtifactInv, StallRecovery
    PROVE  ArtifactInv'
<1> DEFINE ms == task_ledger.milestones
           new == task_ledger'.milestones
<1>1. /\ new = MarkAll(ms, progress_ledger.current, "failed") /\ ms \in Seq(Milestone)
      /\ pc = "stall_recovery" /\ pc' = "orchestrator_planner" /\ UNCHANGED endorsed
  BY StallFacts
<1>2. /\ DOMAIN new = DOMAIN ms
      /\ \A j \in DOMAIN ms : /\ ms[j].id # progress_ledger.current => new[j] = ms[j]
                              /\ ms[j].id = progress_ledger.current => new[j].status = "failed"
  BY <1>1, MarkAllShape
<1> HIDE DEF new
<1>3. VerifiedWasEndorsed'
  <2>1. \A j \in DOMAIN new : new[j].status = "verified" => new[j] = ms[j]
    BY <1>2
  <2> QED
    BY <1>1, <1>2, <2>1 DEF ArtifactInv, VerifiedWasEndorsed, Verified, new
<1>4. ArtifactsAccountedFor'
  <2>1. Specialists # {}
    BY <1>1 DEF ArtifactInv, ArtifactsAccountedFor, Executing
  <2> QED
    BY <1>1, <2>1 DEF ArtifactsAccountedFor
<1>5. /\ SynthesisIsEarned' /\ RotationIsFair' /\ CritiqueMatchesAttempt' /\ CurrentInProgress'
      /\ AdvanceIsDecided' /\ ObjectionsKept'
  BY <1>1
  DEF SynthesisIsEarned, RotationIsFair, CritiqueMatchesAttempt, CurrentInProgress, AdvanceIsDecided,
      ObjectionsKept, UnderWork, Executing
<1> QED
  BY <1>3, <1>4, <1>5 DEF ArtifactInv

(* The end of a run changes neither ledger. *)
LEMMA EndArtifacts ==
    ASSUME IInv, ArtifactInv, OrchestratorSynthesizer \/ NodeRaises \/ RecursionLimitReached
    PROVE  ArtifactInv'
<1>1. /\ pc' \in Ended /\ UNCHANGED <<task_ledger, progress_ledger, step_count, endorsed, objectors>>
      /\ pc' = "END" => pc = "orchestrator_synthesizer"
  BY DEF OrchestratorSynthesizer, NodeRaises, RecursionLimitReached, Superstep, Ended
<1>2. SynthesisIsEarned' /\ VerifiedWasEndorsed'
  BY <1>1 DEF ArtifactInv, SynthesisIsEarned, VerifiedWasEndorsed, Verified, Ended
<1>3. ArtifactsAccountedFor'
  BY <1>1 DEF ArtifactInv, ArtifactsAccountedFor, UnderWork, Executing, Ended
<1>4. /\ RotationIsFair' /\ CritiqueMatchesAttempt' /\ CurrentInProgress' /\ AdvanceIsDecided'
      /\ ObjectionsKept'
  BY <1>1
  DEF RotationIsFair, CritiqueMatchesAttempt, CurrentInProgress, AdvanceIsDecided, ObjectionsKept,
      UnderWork, Executing, Ended
<1> QED
  BY <1>2, <1>3, <1>4 DEF ArtifactInv

(* At first there are no milestones. *)
LEMMA InitArtifacts ==
    ASSUME Init
    PROVE  ArtifactInv
<1>1. pc = "orchestrator_planner" /\ task_ledger.milestones = <<>>
  BY DEF Init, new_task_ledger
<1>2. \A i : i \notin DOMAIN task_ledger.milestones
  BY <1>1
<1> QED
  BY <1>1, <1>2
  DEF ArtifactInv, SynthesisIsEarned, VerifiedWasEndorsed, Verified, RotationIsFair, CritiqueMatchesAttempt,
      CurrentInProgress, ArtifactsAccountedFor, AdvanceIsDecided, ObjectionsKept, UnderWork, Executing

(* Together with the bookkeeping, what is said of artifacts and reviews is  *)
(* inductive.                                                               *)
THEOREM ArtifactsInductive == Spec => []ArtifactInv
<1>1. ASSUME IInv, ArtifactInv, [Next]_vars
      PROVE  ArtifactInv'
  <2>1. CASE UNCHANGED vars
    BY <1>1, <2>1
    DEF vars, ArtifactInv, SynthesisIsEarned, VerifiedWasEndorsed, Verified, RotationIsFair,
        CritiqueMatchesAttempt, CurrentInProgress, ArtifactsAccountedFor, AdvanceIsDecided, ObjectionsKept,
        UnderWork, ChangesHands, HaveObjected
  <2> QED
    BY <1>1, <2>1, PlannerArtifacts, DispatchArtifacts, PersonArtifacts, ReviewsArtifacts,
       AdvanceArtifacts, StallArtifacts, EndArtifacts DEF Next
<1>2. Init => ArtifactInv
  BY InitArtifacts
<1> QED
  BY <1>1, <1>2, Inductive, PTL DEF Spec

(* The answer is written only once the plan is resolved or the budget spent. *)
THEOREM AnswerIsEarned == Spec => []SynthesisIsEarned
<1>1. ArtifactInv => SynthesisIsEarned
  BY DEF ArtifactInv
<1> QED
  BY <1>1, ArtifactsInductive, PTL

(* Whatever ids the plans reuse, the answer is given no artifact of a       *)
(* milestone that is not verified.                                          *)
THEOREM AnswerFromVerified == Spec => []OnlyVerifiedArtifacts
<1>1. ArtifactInv => OnlyVerifiedArtifacts
  BY DEF ArtifactInv, ArtifactsAccountedFor, OnlyVerifiedArtifacts, UnderWork, Executing
<1> QED
  BY <1>1, ArtifactsInductive, PTL

(* A milestone verified without a note carries an artifact that a review    *)
(* accepted.                                                                *)
THEOREM VerifiedAreEndorsed == Spec => []VerifiedWasEndorsed
<1>1. ArtifactInv => VerifiedWasEndorsed
  BY DEF ArtifactInv
<1> QED
  BY <1>1, ArtifactsInductive, PTL

(* For every list of reviewers and every number of attempts, the rotation   *)
(* skips nobody while the milestone stays with its producer.                *)
THEOREM RotationSkipsNobody == Spec => []RotationIsFair
<1>1. ArtifactInv => RotationIsFair
  BY DEF ArtifactInv
<1> QED
  BY <1>1, ArtifactsInductive, PTL

(* The critique a directive quotes is about the attempt it quotes. *)
THEOREM CritiqueIsCurrent == Spec => []CritiqueMatchesAttempt
<1>1. ArtifactInv => CritiqueMatchesAttempt
  BY DEF ArtifactInv
<1> QED
  BY <1>1, ArtifactsInductive, PTL

(* Only a dispatch touches a verified milestone, and only if the ledger also *)
(* holds an open one of the same id.                                         *)
THEOREM VerifiedKept == Spec => VerifiedStays
<1>1. ASSUME IInv, ArtifactInv, [Next]_vars,
             NEW i \in Verified(task_ledger.milestones)
      PROVE  HasOpenNamesake(task_ledger.milestones[i]) \/ StillThere(task_ledger.milestones[i])
  <2> DEFINE ms == task_ledger.milestones
  <2>1. i \in DOMAIN ms /\ ms[i].status = "verified" /\ ms \in Seq(Milestone)
    BY <1>1, TypeFacts DEF Verified, IInv
  <2>2. CASE UNCHANGED task_ledger
    BY <2>1, <2>2 DEF StillThere
  <2>3. CASE OrchestratorPlanner
    BY <1>1, <2>1, <2>3, PlannerFacts DEF StillThere
  <2>4. CASE DispatchSubtask
    <3>1. PICK k \in DOMAIN ms :
             ms[k].status \notin Resolved /\ task_ledger'.milestones = MarkAll(ms, ms[k].id, "in_progress")
      BY <1>1, <2>4, DispatchFacts
    <3>2. CASE ms[k].id = ms[i].id
      BY <3>1, <3>2 DEF HasOpenNamesake
    <3>3. CASE ms[k].id # ms[i].id
      BY <2>1, <3>1, <3>3, MarkAllShape DEF StillThere
    <3> QED
      BY <3>2, <3>3
  <2>5. ASSUME pc \in {"advance_milestone", "stall_recovery"}
        PROVE  ms[i].id # progress_ledger.current
    BY <1>1, <2>1, <2>5 DEF ArtifactInv, CurrentInProgress, UnderWork, Executing
  <2>6. CASE AdvanceMilestone
    BY <1>1, <2>1, <2>5, <2>6, AdvanceFacts DEF StillThere
  <2>7. CASE StallRecovery
    BY <1>1, <2>1, <2>5, <2>7, StallFacts, MarkAllShape DEF StillThere
  <2> QED
    BY <1>1, <2>2, <2>3, <2>4, <2>6, <2>7
    DEF Next, vars, PersonNode, ReviewWaived, ReviewerRowMissing, DialecticalReview, Decide,
        OrchestratorSynthesizer, NodeRaises, RecursionLimitReached
<1>2. IInv /\ ArtifactInv /\ [Next]_vars =>
        [\A i \in Verified(task_ledger.milestones) :
            LET m == task_ledger.milestones[i] IN HasOpenNamesake(m) \/ StillThere(m)]_vars
  BY <1>1
<1> QED
  BY <1>2, Inductive, ArtifactsInductive, PTL DEF Spec, VerifiedStays
-----------------------------------------------------------------------------
(* Refinement *)

(* The phase that each node stands for. *)
LEMMA PhaseValues ==
    /\ PhaseOf("orchestrator_planner") = "planning"
    /\ PhaseOf("orchestrator_synthesizer") = "synthesis"
    /\ PhaseOf("END") = "done"
    /\ PhaseOf("failed") = "failed" /\ PhaseOf("out_of_steps") = "failed"
    /\ \A n \in InLoop \cup Executing : PhaseOf(n) = "working"
BY DEF PhaseOf, InLoop, Executing

(* The engine's steps are steps of the bounded run, or leave it unchanged:  *)
(* with the ledgers hidden, all a run does is plan, work within its budget, *)
(* replan at most twice, answer or fail.                                    *)
THEOREM RefinesBoundedRun == Spec => Abstract!Safety
<1>1. Init => Abstract!Init
  BY PhaseValues DEF Init, Abstract!Init, new_task_ledger
<1>2. IInv /\ IInv' /\ [Next]_vars => [Abstract!Next]_Abstract!vars
  <2> SUFFICES ASSUME IInv, IInv', [Next]_vars
               PROVE  [Abstract!Next]_Abstract!vars
    OBVIOUS
  <2>0. /\ TypeOK /\ StepBudget' /\ ReplanBudget'
        /\ step_count \in Nat /\ task_ledger.stall_count \in Nat
        /\ step_count' \in Nat
    BY TypeFacts DEF IInv, TypeOK
  <2>1. CASE OrchestratorPlanner
    <3>1. /\ pc = "orchestrator_planner"
          /\ pc' \in {"dispatch_subtask", "orchestrator_synthesizer"}
          /\ step_count' = step_count
      BY <2>1, <2>0 DEF OrchestratorPlanner, Superstep, route_plan
    <3>2. task_ledger'.stall_count = task_ledger.stall_count
      BY <2>1, <2>0 DEF OrchestratorPlanner, TypeOK, TaskLedger
    <3>3. Abstract!Plan
      BY <3>1, <3>2, PhaseValues DEF Abstract!Plan, InLoop
    <3> QED
      BY <3>3 DEF Abstract!Next
  <2>2. CASE DispatchSubtask
    <3>1. next_pending_milestone(task_ledger.milestones) # {}
      BY <2>2 DEF IInv, HasWork, DispatchSubtask, Superstep, InLoop
    <3>2. /\ pc = "dispatch_subtask"
          /\ pc' \in {"person", "orchestrator_synthesizer"}
          /\ step_count' = step_count + 1
          /\ task_ledger'.stall_count = task_ledger.stall_count
      BY <2>2, <3>1, <2>0 DEF DispatchSubtask, Superstep, route_dispatch, TypeOK, TaskLedger
    <3>3. step_count < MaxSteps + MaxReviews
      BY <3>2, <2>0, ConstantTypes DEF StepBudget
    <3>4. Abstract!Round
      BY <3>2, <3>3, PhaseValues DEF Abstract!Round, InLoop
    <3> QED
      BY <3>4 DEF Abstract!Next
  <2>3. CASE PersonNode
    <3>1. PhaseOf(pc) = "working" /\ PhaseOf(pc') = "working"
      BY <2>3, PhaseValues DEF PersonNode, Superstep, InLoop
    <3> QED
      BY <2>3, <3>1 DEF PersonNode, Abstract!vars
  <2>4. CASE ReviewWaived \/ ReviewerRowMissing \/ DialecticalReview
    <3>1. /\ pc = "dialectical_review"
          /\ pc' \in {"advance_milestone", "dispatch_subtask", "stall_recovery"}
          /\ UNCHANGED <<task_ledger, step_count>>
      BY <2>4 DEF ReviewWaived, ReviewerRowMissing, DialecticalReview, Superstep, Decide,
                  route_review
    <3>2. PhaseOf(pc) = "working" /\ PhaseOf(pc') = "working"
      BY <3>1, PhaseValues DEF InLoop, Executing
    <3> QED
      BY <3>1, <3>2 DEF Abstract!vars
  <2>5. CASE AdvanceMilestone
    <3>1. /\ pc = "advance_milestone"
          /\ pc' \in {"dispatch_subtask", "orchestrator_synthesizer"}
          /\ step_count' = step_count
          /\ task_ledger'.stall_count = task_ledger.stall_count
      BY <2>5, <2>0 DEF AdvanceMilestone, Superstep, route_plan, TypeOK, TaskLedger
    <3>2. CASE pc' = "dispatch_subtask"
      <4>1. PhaseOf(pc) = "working" /\ PhaseOf(pc') = "working"
        BY <3>1, <3>2, PhaseValues DEF InLoop, Executing
      <4> QED
        BY <3>1, <4>1 DEF Abstract!vars
    <3>3. CASE pc' = "orchestrator_synthesizer"
      <4>1. Abstract!StopWorking
        BY <3>1, <3>3, PhaseValues DEF Abstract!StopWorking, Executing
      <4> QED
        BY <4>1 DEF Abstract!Next
    <3> QED
      BY <3>1, <3>2, <3>3
  <2>6. CASE StallRecovery
    <3>1. /\ pc = "stall_recovery" /\ pc' = "orchestrator_planner"
          /\ step_count' = step_count
          /\ task_ledger'.stall_count = task_ledger.stall_count + 1
      BY <2>6, <2>0 DEF StallRecovery, Superstep, TypeOK, TaskLedger
    <3>2. task_ledger.stall_count < 2
      BY <3>1, <2>0 DEF ReplanBudget, MaxReplans
    <3>3. Abstract!Replan
      BY <3>1, <3>2, PhaseValues DEF Abstract!Replan, Executing, MaxReplans
    <3> QED
      BY <3>3 DEF Abstract!Next
  <2>7. CASE OrchestratorSynthesizer
    <3>1. Abstract!Answer
      BY <2>7, PhaseValues DEF OrchestratorSynthesizer, Superstep, Abstract!Answer
    <3> QED
      BY <3>1 DEF Abstract!Next
  <2>8. CASE NodeRaises \/ RecursionLimitReached
    <3>1. /\ pc \notin Ended
          /\ PhaseOf(pc') = "failed"
          /\ UNCHANGED <<task_ledger, step_count>>
      BY <2>8, PhaseValues DEF NodeRaises, RecursionLimitReached, Ended
    <3>2. PhaseOf(pc) \in {"planning", "working", "synthesis"}
      BY <3>1, <2>0, PhaseValues DEF TypeOK, InLoop, Executing
    <3>3. Abstract!Fail
      BY <3>1, <3>2 DEF Abstract!Fail, Abstract!Running
    <3> QED
      BY <3>3 DEF Abstract!Next
  <2>9. CASE UNCHANGED vars
    BY <2>9 DEF vars, Abstract!vars
  <2> QED
    BY <2>1, <2>2, <2>3, <2>4, <2>5, <2>6, <2>7, <2>8, <2>9 DEF Next
<1> QED
  BY <1>1, <1>2, Inductive, PTL DEF Spec, Abstract!Safety
=============================================================================
