---------------------- MODULE NativeOrchestratorProofs ----------------------
(***************************************************************************)
(* Theorems about NativeOrchestrator, for every team, plan and budget, and *)
(* every moment at which a run is cancelled, times out or is lost.  The    *)
(* inductive invariant has two halves that hardly meet: what is known of   *)
(* the plan, and what is known of the run's row and its frames.            *)
(***************************************************************************)
EXTENDS NativeOrchestrator, TLAPS, SequenceTheorems, FiniteSetTheorems

Labels == Timed \cup Over \cup {"created", "timing_out", "committing"}

WorkType ==
    /\ present \in SUBSET Nodes
    /\ milestones \in Seq(Milestone)
    /\ index \in Nat \ {0} /\ attempt \in Nat /\ steps \in Nat
    /\ failures \in Nat /\ replans \in 0..MaxReplans

Drafts == [status : Terminal \cup {"pending", "planning", "executing", "replanning", "synthesizing"},
           answer : BOOLEAN, job : BOOLEAN]

Rows == [status : Terminal \cup {"pending"}, answer : BOOLEAN, job : BOOLEAN]

RecordType ==
    /\ draft \in Drafts
    /\ row \in Rows
    /\ frames \in Seq(Terminal)
    /\ unmet \in BOOLEAN /\ cancelled \in BOOLEAN /\ expired \in BOOLEAN /\ lost \in BOOLEAN
    /\ mark \in {"none", "read", "done"}

WorkInv == WorkType /\ Untouched /\ NothingLeftBehind /\ InBudget

RecordInv == RecordType /\ Tracked /\ RecordedWasAnnounced

(* The halves of the invariant. *)
LEMMA Halves == IInv <=> pc \in Labels /\ WorkInv /\ RecordInv
BY DEF IInv, TypeOK, Labels, WorkInv, WorkType, RecordInv, RecordType, Drafts, Rows

(* The budgets are numbers, and there is at least one of what a run needs. *)
LEMMA ConstantTypes ==
    MaxSteps \in Nat /\ MaxSteps > 0 /\ MaxReviews \in Nat /\ StallLimit \in Nat
    /\ MaxMilestones \in Nat
BY TeamAssumption
-----------------------------------------------------------------------------
(* Lists of milestones *)

(* What a list of milestones has at its positions. *)
LEMMA ListFacts ==
    ASSUME NEW ms \in Seq(Milestone)
    PROVE  /\ Len(ms) \in Nat /\ DOMAIN ms = 1..Len(ms)
           /\ \A i \in DOMAIN ms : ms[i] \in Milestone
BY LenProperties, ElementOfSeq

(* Setting the status of a milestone leaves the others as they were. *)
LEMMA SetStatusFacts ==
    ASSUME milestones \in Seq(Milestone), index \in DOMAIN milestones,
           NEW s, s \in {"pending", "in_progress", "under_review", "verified", "skipped"},
           SetStatus(s)
    PROVE  /\ milestones' \in Seq(Milestone)
           /\ DOMAIN milestones' = DOMAIN milestones /\ Len(milestones') = Len(milestones)
           /\ milestones'[index].status = s
           /\ \A i \in DOMAIN milestones : i # index => milestones'[i] = milestones[i]
<1>1. Len(milestones) \in Nat /\ DOMAIN milestones = 1..Len(milestones)
      /\ \A i \in DOMAIN milestones : milestones[i] \in Milestone
  BY ListFacts
<1>2. /\ milestones' = [milestones EXCEPT ![index] = [@ EXCEPT !.status = s]]
      /\ DOMAIN milestones' = DOMAIN milestones
      /\ \A i \in DOMAIN milestones : i # index => milestones'[i] = milestones[i]
  BY DEF SetStatus
<1>3. milestones'[index] = [milestones[index] EXCEPT !.status = s]
  BY <1>2
<1>4. milestones'[index] \in Milestone /\ milestones'[index].status = s
  BY <1>1, <1>3 DEF Milestone
<1>5. milestones' \in [1..Len(milestones) -> Milestone]
  BY <1>1, <1>2, <1>4
<1>6. milestones' \in Seq(Milestone)
  BY <1>1, <1>5, SeqDef
<1>7. Len(milestones') = Len(milestones)
  BY <1>1, <1>2, <1>6, LenProperties
<1> QED
  BY <1>2, <1>4, <1>6, <1>7

(* A plan is a list of pending milestones. *)
LEMMA PlanFacts ==
    ASSUME NEW plan \in Plans
    PROVE  /\ plan \in Seq(Milestone)
           /\ Len(plan) \in Nat \ {0} /\ DOMAIN plan = 1..Len(plan)
           /\ \A i \in DOMAIN plan : plan[i].status = "pending"
<1>1. PICK n \in 1..MaxMilestones : plan \in [1..n -> [node : Assignable, status : {"pending"}]]
  BY DEF Plans
<1>2. n \in Nat \ {0}
  BY ConstantTypes
<1>3. plan \in [1..n -> Milestone]
  BY <1>1 DEF Milestone
<1>4. plan \in Seq(Milestone)
  BY <1>2, <1>3, SeqDef
<1>5. DOMAIN plan = 1..n /\ Len(plan) = n
  BY <1>2, <1>3, <1>4, LenProperties
<1> QED
  BY <1>1, <1>2, <1>4, <1>5

(* What a revision keeps is a list of verified milestones. *)
LEMMA KeptFacts ==
    ASSUME milestones \in Seq(Milestone), NEW kept \in InOrder(VerifiedPositions)
    PROVE  /\ Sublist(milestones, kept) \in Seq(Milestone)
           /\ Len(Sublist(milestones, kept)) = Cardinality(VerifiedPositions)
           /\ Cardinality(VerifiedPositions) \in Nat
           /\ \A i \in DOMAIN Sublist(milestones, kept) :
                 Sublist(milestones, kept)[i].status = "verified"
<1> DEFINE n == Cardinality(VerifiedPositions)
           list == Sublist(milestones, kept)
<1>1. DOMAIN milestones = 1..Len(milestones) /\ Len(milestones) \in Nat
      /\ \A i \in DOMAIN milestones : milestones[i] \in Milestone
  BY ListFacts
<1>2. n \in Nat
  <2>1. IsFiniteSet(DOMAIN milestones) /\ VerifiedPositions \subseteq DOMAIN milestones
    BY <1>1, FS_Interval DEF VerifiedPositions
  <2> QED
    BY <2>1, FS_Subset, FS_CardinalityType
<1>3. kept \in [1..n -> VerifiedPositions]
  BY DEF InOrder
<1> HIDE DEF n
<1>4. list \in [1..n -> Milestone]
  BY <1>1, <1>3 DEF Sublist, VerifiedPositions
<1>5. list \in Seq(Milestone)
  BY <1>2, <1>4, SeqDef
<1>6. Len(list) = n /\ DOMAIN list = 1..n
  BY <1>2, <1>4, <1>5, LenProperties
<1>7. \A i \in 1..n : list[i].status = "verified"
  BY <1>3 DEF Sublist, VerifiedPositions
<1> QED
  BY <1>2, <1>5, <1>6, <1>7 DEF n
-----------------------------------------------------------------------------
(* The plan, action by action *)

(* Nothing is known of a plan that a step outside the loop could disturb. *)
LEMMA SameWork ==
    ASSUME WorkInv, UNCHANGED work,
           \/ pc' = pc
           \/ pc' \notin Body \cup {"created"}
           \/ pc = "created" /\ pc' = "planning"
           \/ pc = "synthesizing" /\ pc' = "announcing"
    PROVE  WorkInv'
<1>1. WorkType'
  BY DEF WorkInv, WorkType, work
<1>2. Untouched' /\ InBudget'
  BY DEF WorkInv, Untouched, InBudget, work, Body
<1>3. NothingLeftBehind'
  BY DEF WorkInv, WorkType, Untouched, NothingLeftBehind, work, Body
<1> QED
  BY <1>1, <1>2, <1>3 DEF WorkInv

(* The first plan: everything is pending and the work begins with it. *)
LEMMA PlanWork == ASSUME WorkInv, Plan PROVE WorkInv'
<1>1. /\ pc = "planning" /\ pc' = "dispatching" /\ milestones' \in Plans
      /\ UNCHANGED <<present, index, attempt, steps, failures, replans>>
  BY DEF Plan, At
<1>2. /\ milestones' \in Seq(Milestone)
      /\ \A i \in DOMAIN milestones' : milestones'[i].status = "pending"
      /\ DOMAIN milestones' = 1..Len(milestones') /\ Len(milestones') \in Nat
  BY <1>1, PlanFacts
<1>3. WorkType' /\ index' = 1
  BY <1>1, <1>2 DEF WorkInv, WorkType, Untouched
<1>4. Untouched' /\ InBudget'
  BY <1>1, <1>2 DEF Untouched, InBudget
<1>5. NothingLeftBehind'
  BY <1>1, <1>2, <1>3 DEF NothingLeftBehind
<1> QED
  BY <1>3, <1>4, <1>5 DEF WorkInv

(* Past the last milestone everything is settled. *)
LEMMA LeaveLoopWork == ASSUME WorkInv, LeaveLoop PROVE WorkInv'
<1>1. /\ pc = "dispatching" /\ pc' = "synthesizing" /\ UNCHANGED work
      /\ index > Len(milestones) \/ steps >= MaxSteps
  BY DEF LeaveLoop, At
<1>2. WorkType'
  BY <1>1 DEF WorkInv, WorkType, work
<1>3. Untouched' /\ InBudget'
  BY <1>1 DEF WorkInv, Untouched, InBudget, work
<1>4. NothingLeftBehind'
  <2>1. DOMAIN milestones = 1..Len(milestones) /\ Len(milestones) \in Nat
    BY ListFacts DEF WorkInv, WorkType
  <2>2. \A i \in 1..(index - 1) : i \in DOMAIN milestones /\ milestones[i].status \in Settled
    BY <1>1 DEF WorkInv, NothingLeftBehind, Body
  <2>3. steps < MaxSteps => \A i \in DOMAIN milestones : milestones[i].status \in Settled
    BY <1>1, <2>1, <2>2, ConstantTypes DEF WorkInv, WorkType
  <2> QED
    BY <1>1, <2>2, <2>3 DEF WorkInv, NothingLeftBehind, work
<1> QED
  BY <1>2, <1>3, <1>4 DEF WorkInv

(* What every step at a milestone starts from. *)
LEMMA AtMilestone ==
    ASSUME WorkInv,
           (pc = "dispatching" /\ index <= Len(milestones)) \/ pc \in {"producing", "reviewing"}
    PROVE  /\ index \in DOMAIN milestones
           /\ DOMAIN milestones = 1..Len(milestones) /\ Len(milestones) \in Nat
           /\ index \in Nat \ {0}
           /\ \A i \in 1..(index - 1) : milestones[i].status \in Settled
           /\ \A i \in DOMAIN milestones : i > index => milestones[i].status = "pending"
           /\ \A i \in DOMAIN milestones : milestones[i].status = "skipped" => replans = MaxReplans
<1>1. DOMAIN milestones = 1..Len(milestones) /\ Len(milestones) \in Nat /\ index \in Nat \ {0}
  BY ListFacts DEF WorkInv, WorkType
<1>2. index \in DOMAIN milestones
  BY <1>1 DEF WorkInv, Untouched
<1>3. /\ \A i \in 1..(index - 1) : milestones[i].status \in Settled
      /\ \A i \in DOMAIN milestones : milestones[i].status = "skipped" => replans = MaxReplans
  BY DEF WorkInv, NothingLeftBehind, Body
<1>4. \A i \in DOMAIN milestones : i > index => milestones[i].status = "pending"
  BY DEF WorkInv, Untouched
<1> QED
  BY <1>1, <1>2, <1>3, <1>4

(* A step that sets the status of the milestone being worked on and stays  *)
(* at it, or goes on with the next one once it is settled.                 *)
LEMMA StatusStep ==
    ASSUME WorkInv,
           (pc = "dispatching" /\ index <= Len(milestones)) \/ pc \in {"producing", "reviewing"},
           NEW s \in {"in_progress", "under_review", "verified", "skipped"}, SetStatus(s),
           UNCHANGED <<present, replans>>,
           attempt' \in Nat, steps' \in Nat, failures' \in Nat,
           \/ pc' \in {"producing", "reviewing"} /\ index' = index /\ s \notin Settled
           \/ pc' = "dispatching" /\ index' = index + 1 /\ s \in Settled,
           s = "skipped" => replans = MaxReplans
    PROVE  WorkType' /\ Untouched' /\ NothingLeftBehind'
<1>1. /\ index \in DOMAIN milestones
      /\ DOMAIN milestones = 1..Len(milestones) /\ Len(milestones) \in Nat
      /\ index \in Nat \ {0}
      /\ \A i \in 1..(index - 1) : milestones[i].status \in Settled
      /\ \A i \in DOMAIN milestones : i > index => milestones[i].status = "pending"
      /\ \A i \in DOMAIN milestones : milestones[i].status = "skipped" => replans = MaxReplans
  BY AtMilestone
<1>2. milestones \in Seq(Milestone)
  BY DEF WorkInv, WorkType
<1>3. /\ milestones' \in Seq(Milestone)
      /\ DOMAIN milestones' = DOMAIN milestones /\ Len(milestones') = Len(milestones)
      /\ milestones'[index].status = s
      /\ \A i \in DOMAIN milestones : i # index => milestones'[i] = milestones[i]
  <2>1. s \in {"pending", "in_progress", "under_review", "verified", "skipped"}
    OBVIOUS
  <2> QED
    BY <1>1, <1>2, <2>1, SetStatusFacts
<1>4. WorkType'
  BY <1>1, <1>3 DEF WorkInv, WorkType
<1>5. \A i \in DOMAIN milestones' : i > index => milestones'[i].status = "pending"
  BY <1>1, <1>3
<1>6. Untouched'
  BY <1>1, <1>3, <1>5 DEF Untouched
<1>7. \A i \in DOMAIN milestones' : milestones'[i].status = "skipped" => replans' = MaxReplans
  BY <1>1, <1>3
<1>8. \A i \in 1..(index' - 1) : i \in DOMAIN milestones' /\ milestones'[i].status \in Settled
  BY <1>1, <1>3
<1>9. pc' = "dispatching" /\ index' <= Len(milestones') => milestones'[index'].status = "pending"
  BY <1>1, <1>3, <1>5
<1>10. pc' \notin {"synthesizing", "announcing"}
  OBVIOUS
<1>11. NothingLeftBehind'
  BY <1>7, <1>8, <1>9, <1>10 DEF NothingLeftBehind
<1> QED
  BY <1>4, <1>6, <1>11

(* A milestone is dispatched within max_steps. *)
LEMMA DispatchWork == ASSUME WorkInv, Dispatch PROVE WorkInv'
<1>1. /\ pc = "dispatching" /\ index <= Len(milestones) /\ steps < MaxSteps
      /\ SetStatus("in_progress") /\ attempt' = 0 /\ steps' = steps + 1
      /\ pc' = "producing" /\ UNCHANGED <<present, index, failures, replans>>
  BY DEF Dispatch, Open, At
<1>2. steps \in Nat /\ failures \in Nat
  BY DEF WorkInv, WorkType
<1>3. WorkType' /\ Untouched' /\ NothingLeftBehind'
  <2>1. attempt' \in Nat /\ steps' \in Nat /\ failures' \in Nat
    BY <1>1, <1>2
  <2> QED
    BY <1>1, <2>1, StatusStep DEF Settled
<1>4. InBudget'
  BY <1>1, <1>2, ConstantTypes DEF InBudget
<1> QED
  BY <1>3, <1>4 DEF WorkInv

(* An accepted milestone is verified, and the next one is as it was planned. *)
LEMMA AcceptedWork ==
    ASSUME WorkInv, pc \in {"producing", "reviewing"}, Accepted,
           UNCHANGED <<present, attempt, steps, replans>>
    PROVE  WorkInv'
<1>1. /\ SetStatus("verified") /\ index' = index + 1 /\ failures' = 0 /\ pc' = "dispatching"
  BY DEF Accepted
<1>2. WorkType' /\ Untouched' /\ NothingLeftBehind'
  <2>1. attempt' \in Nat /\ steps' \in Nat /\ failures' \in Nat
    BY <1>1 DEF WorkInv, WorkType
  <2> QED
    BY <1>1, <2>1, StatusStep DEF Settled
<1>3. InBudget'
  BY <1>1 DEF InBudget
<1> QED
  BY <1>2, <1>3 DEF WorkInv

(* A review is asked for while some are left. *)
LEMMA AskReviewWork == ASSUME WorkInv, AskReview PROVE WorkInv'
<1>1. /\ pc = "producing" /\ attempt < MaxReviews /\ SetStatus("under_review")
      /\ pc' = "reviewing" /\ UNCHANGED <<present, index, attempt, steps, failures, replans>>
  BY DEF AskReview, At
<1>2. WorkType' /\ Untouched' /\ NothingLeftBehind'
  <2>1. attempt' \in Nat /\ steps' \in Nat /\ failures' \in Nat
    BY <1>1 DEF WorkInv, WorkType
  <2> QED
    BY <1>1, <2>1, StatusStep DEF Settled
<1>3. InBudget'
  BY <1>1 DEF WorkInv, InBudget
<1> QED
  BY <1>2, <1>3 DEF WorkInv

(* A revision counts an attempt and a step together. *)
LEMMA ReviseWork == ASSUME WorkInv, Revise PROVE WorkInv'
<1>1. /\ pc = "reviewing" /\ attempt' = attempt + 1 /\ steps' = steps + 1
      /\ pc' = "producing" /\ UNCHANGED <<present, milestones, index, failures, replans>>
  BY DEF Revise, At
<1>2. WorkType'
  BY <1>1 DEF WorkInv, WorkType
<1>3. Untouched' /\ NothingLeftBehind'
  BY <1>1 DEF WorkInv, Untouched, NothingLeftBehind, Body
<1>4. InBudget'
  BY <1>1, ConstantTypes DEF WorkInv, WorkType, InBudget
<1> QED
  BY <1>2, <1>3, <1>4 DEF WorkInv

(* A milestone without a row is tried again as it is. *)
LEMMA TryAgainWork == ASSUME WorkInv, TryAgain PROVE WorkInv'
<1>1. /\ pc' = pc /\ failures' = failures + 1
      /\ UNCHANGED <<present, milestones, index, attempt, steps, replans>>
  BY DEF TryAgain
<1>2. WorkType'
  BY <1>1 DEF WorkInv, WorkType
<1>3. Untouched' /\ NothingLeftBehind' /\ InBudget'
  BY <1>1 DEF WorkInv, Untouched, NothingLeftBehind, InBudget
<1> QED
  BY <1>2, <1>3 DEF WorkInv

(* Skipping is for a run whose replans are used up. *)
LEMMA SkipWork == ASSUME WorkInv, Skip PROVE WorkInv'
<1>1. /\ pc = "dispatching" /\ pc' = "dispatching" /\ index <= Len(milestones)
      /\ replans >= MaxReplans /\ SetStatus("skipped") /\ index' = index + 1
      /\ failures' = failures + 1 /\ UNCHANGED <<present, attempt, steps, replans>>
  BY DEF Skip, Unserved, Open, At
<1>2. WorkType' /\ Untouched' /\ NothingLeftBehind'
  <2>1. attempt' \in Nat /\ steps' \in Nat /\ failures' \in Nat /\ replans = MaxReplans
    BY <1>1 DEF WorkInv, WorkType, MaxReplans
  <2> QED
    BY <1>1, <2>1, StatusStep DEF Settled
<1>3. InBudget'
  BY <1>1 DEF InBudget
<1> QED
  BY <1>2, <1>3 DEF WorkInv

(* Nothing has been skipped when a run still replans. *)
LEMMA ReplanWork == ASSUME WorkInv, Replan PROVE WorkInv'
<1>1. /\ pc = "dispatching" /\ pc' = "replanning" /\ replans < MaxReplans
      /\ failures' = failures + 1 /\ replans' = replans + 1
      /\ UNCHANGED <<present, milestones, index, attempt, steps>>
  BY DEF Replan, Unserved, Open, At
<1>2. WorkType'
  BY <1>1 DEF WorkInv, WorkType, MaxReplans
<1>3. Untouched' /\ InBudget'
  BY <1>1 DEF Untouched, InBudget
<1>4. replans # MaxReplans
  BY <1>1 DEF WorkInv, WorkType, MaxReplans
<1>5. NothingLeftBehind'
  BY <1>1, <1>4 DEF WorkInv, NothingLeftBehind, Body
<1> QED
  BY <1>2, <1>3, <1>5 DEF WorkInv

(* After a revision the index points just past what was kept, at the first *)
(* milestone of the new plan.                                              *)
LEMMA PlanAgainWork == ASSUME WorkInv, PlanAgain PROVE WorkInv'
<1> DEFINE n == Cardinality(VerifiedPositions)
<1>1. PICK kept \in InOrder(VerifiedPositions), plan \in Plans :
        milestones' = Sublist(milestones, kept) \o plan
  BY DEF PlanAgain
<1>2. /\ pc' = "dispatching" /\ index' = n + 1 /\ failures' = 0
      /\ UNCHANGED <<present, attempt, steps, replans>>
  BY DEF PlanAgain
<1> DEFINE list == Sublist(milestones, kept)
<1>3. /\ list \in Seq(Milestone) /\ Len(list) = n /\ n \in Nat
      /\ \A i \in DOMAIN list : list[i].status = "verified"
  BY KeptFacts DEF WorkInv, WorkType
<1>4. /\ plan \in Seq(Milestone) /\ Len(plan) \in Nat \ {0} /\ DOMAIN plan = 1..Len(plan)
      /\ \A i \in DOMAIN plan : plan[i].status = "pending"
  BY PlanFacts
<1> HIDE DEF n, list
<1>5. milestones' = list \o plan
  BY <1>1 DEF list
<1>6. /\ milestones' \in Seq(Milestone)
      /\ Len(milestones') = n + Len(plan)
      /\ \A i \in 1..(n + Len(plan)) :
            milestones'[i] = IF i <= n THEN list[i] ELSE plan[i - n]
  BY <1>3, <1>4, <1>5, ConcatProperties
<1>7. DOMAIN milestones' = 1..(n + Len(plan)) /\ DOMAIN list = 1..n
  BY <1>3, <1>6, LenProperties
<1>8. \A i \in 1..n : milestones'[i].status = "verified"
  BY <1>3, <1>4, <1>6, <1>7
<1>9. \A i \in DOMAIN milestones' : i > n => milestones'[i].status = "pending"
  <2>1. \A i \in DOMAIN milestones' : i > n => i - n \in DOMAIN plan /\ milestones'[i] = plan[i - n]
    BY <1>3, <1>4, <1>6, <1>7
  <2> QED
    BY <1>4, <2>1
<1>10. WorkType'
  BY <1>2, <1>3, <1>6 DEF WorkInv, WorkType
<1>11. Untouched' /\ InBudget'
  BY <1>2, <1>3, <1>4, <1>7, <1>9 DEF Untouched, InBudget
<1>12. NothingLeftBehind'
  <2>1. \A i \in 1..(index' - 1) : i \in DOMAIN milestones' /\ milestones'[i].status \in Settled
    BY <1>2, <1>3, <1>4, <1>7, <1>8 DEF Settled
  <2>2. \A i \in DOMAIN milestones' : milestones'[i].status # "skipped"
    BY <1>3, <1>7, <1>8, <1>9
  <2>3. milestones'[index'].status = "pending"
    BY <1>2, <1>3, <1>4, <1>7, <1>9
  <2> QED
    BY <1>2, <2>1, <2>2, <2>3 DEF NothingLeftBehind
<1> QED
  BY <1>10, <1>11, <1>12 DEF WorkInv
-----------------------------------------------------------------------------
(* The run's row and its frames, action by action *)

(* Setting the status of the row leaves its answer and its job alone. *)
LEMMA StatusFacts ==
    ASSUME draft \in Drafts, NEW s, Status(s),
           s \in Terminal \cup {"pending", "planning", "executing", "replanning", "synthesizing"}
    PROVE  /\ draft' \in Drafts /\ draft'.status = s
           /\ draft'.job = draft.job /\ draft'.answer = draft.answer
BY DEF Status, Drafts

(* A frame is published after the others and takes none of them back. *)
LEMMA FrameFacts ==
    ASSUME frames \in Seq(Terminal), NEW f \in Terminal, frames' = Append(frames, f)
    PROVE  /\ frames' \in Seq(Terminal) /\ frames' # <<>>
           /\ frames'[Len(frames')] = f
<1>1. /\ frames' \in Seq(Terminal) /\ Len(frames') = Len(frames) + 1
      /\ frames'[Len(frames) + 1] = f
  BY AppendProperties
<1>2. Len(frames) \in Nat
  BY LenProperties
<1> QED
  BY <1>1, <1>2, EmptySeq

(* A step in the run's body shows nothing to anybody. *)
LEMMA BodyStep ==
    ASSUME RecordInv, pc \in Labels, At(pc), pc \notin {"announcing"} \cup Over,
           UNCHANGED <<row, frames, signals, mark, lost>>,
           draft' \in Drafts, draft'.job = draft.job, draft'.answer = draft.answer,
           \/ draft'.status = draft.status /\ pc \in Body
           \/ draft'.status \notin Terminal,
           pc' \in Body \ {"announcing"}
    PROVE  RecordInv'
<1>1. RecordType'
  BY DEF RecordInv, RecordType, signals
<1>2. draft'.status # "completed"
  BY DEF RecordInv, Tracked, Body, Terminal, Over
<1>3. Tracked'
  BY <1>2, Zenon DEF RecordInv, Tracked, signals, Body, Timed, Over
<1>4. RecordedWasAnnounced'
  BY Zenon DEF RecordInv, RecordedWasAnnounced, Body, Timed, Over
<1> QED
  BY <1>1, <1>3, <1>4 DEF RecordInv

(* What a step outside the loop has to establish, with the database and the *)
(* signals untouched: only the commit and the frames are about the end.     *)
LEMMA QuietStep ==
    ASSUME RecordInv, pc \in Labels, At(pc), pc \notin Over, pc' \notin {"returned", "left"},
           UNCHANGED <<row, signals, mark, lost>>,
           draft' \in Drafts, frames' \in Seq(Terminal)
    PROVE  /\ RecordType'
           /\ RecordedWasAnnounced'
           /\ pc' \notin Over => row'.status \in {"pending", "cancelled"} /\ ~row'.job /\ ~row'.answer
           /\ ~unmet'
<1>1. RecordType'
  BY DEF RecordInv, RecordType, signals
<1>2. pc' \notin Over => row'.status \in {"pending", "cancelled"} /\ ~row'.job /\ ~row'.answer
  BY Zenon DEF RecordInv, Tracked
<1>3. ~unmet'
  BY Zenon DEF At, signals
<1>4. /\ pc' \notin Over /\ row'.status \in {"pending", "cancelled"} /\ ~row'.job /\ ~row'.answer
      /\ row'.status = "cancelled" => mark' = "done"
  BY Zenon DEF RecordInv, Tracked, RecordedWasAnnounced, Over
<1>5. RecordedWasAnnounced'
  BY <1>4 DEF RecordedWasAnnounced, Terminal
<1> QED
  BY <1>1, <1>2, <1>3, <1>5

(* execute_run begins, or the loop is left. *)
LEMMA BeginRecord == ASSUME RecordInv, pc \in Labels, Begin \/ LeaveLoop PROVE RecordInv'
<1>1. /\ At(pc) /\ pc \in {"created", "dispatching"} /\ pc' \in {"planning", "synthesizing"}
      /\ UNCHANGED <<row, frames, signals, mark, lost>>
      /\ \E s \in {"planning", "synthesizing"} : Status(s)
  BY DEF Begin, LeaveLoop, At
<1>2. /\ draft' \in Drafts /\ draft'.status \in {"planning", "synthesizing"}
      /\ draft'.job = draft.job /\ draft'.answer = draft.answer
  BY <1>1, StatusFacts DEF RecordInv, RecordType
<1> QED
  BY <1>1, <1>2, BodyStep DEF Body, Over, Terminal

(* The steps of the loop and of planning. *)
LEMMA LoopRecord ==
    ASSUME RecordInv, pc \in Labels,
           Plan \/ Dispatch \/ AcceptUnreviewed \/ AskReview \/ Approve \/ Revise
             \/ TryAgain \/ Skip \/ Replan \/ PlanAgain
    PROVE  RecordInv'
<1>1. /\ At(pc) /\ pc \in Body \ {"announcing"} /\ pc' \in Body \ {"announcing"}
      /\ UNCHANGED <<row, frames, signals, mark, lost>>
      /\ draft' = draft \/ \E s \in {"executing", "replanning"} : Status(s)
  BY DEF Plan, Dispatch, AcceptUnreviewed, AskReview, Approve, Revise, TryAgain, Skip, Replan,
         PlanAgain, Accepted, Unserved, Open, At, Body
<1>2. CASE draft' = draft
  <2>1. draft' \in Drafts
    BY <1>2 DEF RecordInv, RecordType
  <2> QED
    BY <1>1, <1>2, <2>1, BodyStep DEF Body, Over
<1>3. CASE \E s \in {"executing", "replanning"} : Status(s)
  <2>1. /\ draft' \in Drafts /\ draft'.status \in {"executing", "replanning"}
        /\ draft'.job = draft.job /\ draft'.answer = draft.answer
    BY <1>3, StatusFacts DEF RecordInv, RecordType
  <2> QED
    BY <1>1, <2>1, BodyStep DEF Body, Over, Terminal
<1> QED
  BY <1>1, <1>2, <1>3

(* The answer and its job are flushed together. *)
LEMMA SynthesizeRecord == ASSUME RecordInv, pc \in Labels, Synthesize PROVE RecordInv'
<1>1. /\ At(pc) /\ pc = "synthesizing" /\ pc' = "announcing"
      /\ draft' = [status |-> "completed", answer |-> TRUE, job |-> TRUE]
      /\ UNCHANGED <<row, frames, signals, mark, lost>>
  BY DEF Synthesize, At
<1>2. draft' \in Drafts /\ draft'.status = "completed" /\ draft'.job /\ draft'.answer
  BY <1>1 DEF Drafts, Terminal
<1>3. /\ RecordType' /\ RecordedWasAnnounced' /\ ~unmet'
      /\ pc' \notin Over => row'.status \in {"pending", "cancelled"} /\ ~row'.job /\ ~row'.answer
  BY <1>1, <1>2, QuietStep DEF RecordInv, RecordType, Over
<1>4. Tracked'
  BY <1>1, <1>2, <1>3 DEF Tracked
<1> QED
  BY <1>3, <1>4 DEF RecordInv

(* A frame announces what is about to be committed. *)
LEMMA AnnounceRecord ==
    ASSUME RecordInv, pc \in Labels, Announce \/ AnnounceFailure \/ AnnounceTimeout
    PROVE  RecordInv'
<1>1. /\ At(pc) /\ pc \in {"announcing", "failing", "timing_out"} /\ pc' = "committing"
      /\ frames' = Append(frames, draft.status) /\ draft.status \in {"completed", "failed", "timeout"}
      /\ UNCHANGED <<draft, row, signals, mark, lost>>
  BY DEF Announce, AnnounceFailure, AnnounceTimeout, At, RecordInv, Tracked
<1>2. /\ frames' \in Seq(Terminal) /\ frames' # <<>> /\ frames'[Len(frames')] = draft.status
  BY <1>1, FrameFacts DEF RecordInv, RecordType, Terminal
<1>3. /\ RecordType' /\ RecordedWasAnnounced' /\ ~unmet'
      /\ pc' \notin Over => row'.status \in {"pending", "cancelled"} /\ ~row'.job /\ ~row'.answer
  BY <1>1, <1>2, QuietStep DEF RecordInv, RecordType, Over
<1>4. /\ draft'.job <=> draft'.answer
      /\ draft'.status = "completed" => draft'.job
  BY <1>1 DEF RecordInv, Tracked
<1>5. Tracked'
  BY <1>1, <1>2, <1>3, <1>4 DEF Tracked
<1> QED
  BY <1>3, <1>5 DEF RecordInv

(* A step that fails or cancels the run shows its status to nobody yet. *)
LEMMA RaiseRecord == ASSUME RecordInv, pc \in Labels, Raise PROVE RecordInv'
<1>1. /\ At(pc) /\ pc \in Body /\ pc' = "failing" /\ Status("failed")
      /\ UNCHANGED <<row, frames, signals, mark, lost>>
  BY DEF Raise, At, Body
<1>2. /\ draft' \in Drafts /\ draft'.status = "failed"
      /\ draft'.job = draft.job /\ draft'.answer = draft.answer
  BY <1>1, StatusFacts DEF RecordInv, RecordType, Terminal
<1>3. /\ RecordType' /\ RecordedWasAnnounced' /\ ~unmet'
      /\ pc' \notin Over => row'.status \in {"pending", "cancelled"} /\ ~row'.job /\ ~row'.answer
  BY <1>1, <1>2, QuietStep DEF RecordInv, RecordType, Over, Body
<1>4. draft'.job <=> draft'.answer
  BY <1>2 DEF RecordInv, Tracked
<1>5. Tracked'
  BY <1>1, <1>2, <1>3, <1>4 DEF Tracked
<1> QED
  BY <1>3, <1>5 DEF RecordInv

(* An answer of a run that goes on to be cancelled is not a completed one. *)
LEMMA AnnounceCancellationRecord ==
    ASSUME RecordInv, pc \in Labels, AnnounceCancellation
    PROVE  RecordInv'
<1>1. /\ At(pc) /\ pc = "cancelling" /\ frames' = Append(frames, "cancelled") /\ LeaveExecute
      /\ UNCHANGED <<row, signals, mark, lost>>
  BY DEF AnnounceCancellation, At
<1>2. /\ frames' \in Seq(Terminal) /\ frames' # <<>>
  BY <1>1, FrameFacts DEF RecordInv, RecordType, Terminal
<1>3. CASE cancelled /\ pc' = "left" /\ UNCHANGED draft
  <2>1. RecordType'
    BY <1>1, <1>2, <1>3 DEF RecordInv, RecordType, signals
  <2>2. /\ row.status \in {"pending", "cancelled"} /\ ~row.job /\ ~row.answer
        /\ row.status = "cancelled" => mark = "done"
    BY <1>1 DEF RecordInv, Tracked, RecordedWasAnnounced, Over
  <2>3. cancelled'
    BY <1>1, <1>3, Zenon DEF signals
  <2>4. RecordedWasAnnounced'
    BY <1>1, <1>3, <2>2, <2>3 DEF RecordedWasAnnounced, Terminal
  <2>5. draft.status # "completed" /\ (draft.job <=> draft.answer)
    BY <1>1 DEF RecordInv, Tracked, Over
  <2>6. Tracked'
    BY <1>3, <2>5 DEF Tracked, Over
  <2> QED
    BY <2>1, <2>4, <2>6 DEF RecordInv
<1>4. CASE pc' = "timing_out" /\ Status("timeout")
  <2>1. /\ draft' \in Drafts /\ draft'.status = "timeout"
        /\ draft'.job = draft.job /\ draft'.answer = draft.answer
    BY <1>4, StatusFacts DEF RecordInv, RecordType, Terminal
  <2>2. /\ RecordType' /\ RecordedWasAnnounced' /\ ~unmet'
        /\ pc' \notin Over => row'.status \in {"pending", "cancelled"} /\ ~row'.job /\ ~row'.answer
    BY <1>1, <1>2, <1>4, <2>1, QuietStep DEF Over
  <2>3. draft'.job <=> draft'.answer
    BY <2>1 DEF RecordInv, Tracked
  <2>4. Tracked'
    BY <1>4, <2>1, <2>2, <2>3 DEF Tracked
  <2> QED
    BY <2>2, <2>4 DEF RecordInv
<1> QED
  BY <1>1, <1>3, <1>4 DEF LeaveExecute

(* What is committed is what the last frame said. *)
LEMMA CommitRecord == ASSUME RecordInv, pc \in Labels, Commit PROVE RecordInv'
<1>1. /\ At(pc) /\ pc = "committing" /\ pc' = "returned" /\ row' = draft
      /\ UNCHANGED <<draft, frames, signals, mark, lost>>
  BY DEF Commit, At
<1>2. /\ frames # <<>> /\ draft.status = frames[Len(frames)]
      /\ draft.status \in {"completed", "failed", "timeout"}
  BY <1>1 DEF RecordInv, Tracked
<1>3. RecordType'
  BY <1>1, <1>2 DEF RecordInv, RecordType, signals, Drafts, Rows, Terminal
<1>4. /\ draft.job <=> draft.answer
      /\ draft.status = "completed" => draft.job
  BY DEF RecordInv, Tracked
<1>5. Tracked'
  BY <1>1, <1>4 DEF Tracked, Over
<1>6. RecordedWasAnnounced'
  BY <1>1, <1>2, <1>4 DEF RecordedWasAnnounced
<1> QED
  BY <1>3, <1>5, <1>6 DEF RecordInv

(* What a publication that is cut short adds is a terminal frame. *)
LEMMA CutShortFrames ==
    ASSUME frames \in Seq(Terminal), PublishCutShort
    PROVE  frames' \in Seq(Terminal) /\ (pc = "committing" => frames' = frames)
BY FrameFacts DEF PublishCutShort, Terminal

(* The session of a task that leaves has committed everything or nothing. *)
LEMMA LeaveRecord ==
    ASSUME RecordInv, pc \in Labels, pc \notin Over, pc' = "left",
           row' = row \/ (pc = "committing" /\ row' = draft),
           UNCHANGED <<draft, expired, mark>>, PublishCutShort,
           unmet' \in BOOLEAN, cancelled' \in BOOLEAN, lost' \in BOOLEAN, cancelled' \/ lost'
    PROVE  RecordInv'
<1>1. frames' \in Seq(Terminal) /\ (pc = "committing" => frames' = frames)
  BY CutShortFrames DEF RecordInv, RecordType
<1>2. pc = "committing" => /\ frames # <<>> /\ draft.status = frames[Len(frames)]
                           /\ draft.status \in {"completed", "failed", "timeout"}
  BY DEF RecordInv, Tracked
<1>3. RecordType'
  <2>1. row' \in Rows
    BY <1>2 DEF RecordInv, RecordType, Drafts, Rows, Terminal
  <2> QED
    BY <1>1, <2>1 DEF RecordInv, RecordType
<1>4. /\ draft.job <=> draft.answer
      /\ draft.status = "completed" => draft.job
      /\ row.status \in {"pending", "cancelled"} /\ ~row.job /\ ~row.answer
      /\ row.status = "cancelled" => mark = "done"
  BY DEF RecordInv, Tracked, RecordedWasAnnounced, Over
<1>5. Tracked'
  BY <1>4 DEF Tracked, Over
<1>6. RecordedWasAnnounced'
  <2>1. CASE row' = row
    BY <1>4, <2>1 DEF RecordedWasAnnounced, Terminal
  <2>2. CASE pc = "committing" /\ row' = draft
    BY <1>1, <1>2, <1>4, <2>2 DEF RecordedWasAnnounced
  <2> QED
    BY <2>1, <2>2
<1> QED
  BY <1>3, <1>5, <1>6 DEF RecordInv

(* A cancellation is met: in the body the handler begins; elsewhere it ends *)
(* execute(), and outside execute() the task, which only a user can do.    *)
LEMMA MeetRecord == ASSUME RecordInv, pc \in Labels, Meet PROVE RecordInv'
<1>1. /\ unmet /\ pc \notin Over /\ unmet' = FALSE
      /\ PublishCutShort /\ UNCHANGED <<cancelled, expired, mark, lost>>
      /\ frames' \in Seq(Terminal)
  BY CutShortFrames DEF Meet, RecordInv, RecordType
<1>2. /\ cancelled' \in BOOLEAN /\ lost' \in BOOLEAN /\ unmet' \in BOOLEAN
      /\ cancelled' = cancelled /\ lost' = lost
  BY <1>1 DEF RecordInv, RecordType
<1>3. CASE pc \in Timed /\ UNCHANGED row /\ pc' \in {"cancelling", "timing_out"}
             /\ \E s \in {"cancelled", "timeout"} : Status(s) /\ (pc' = "timing_out" => s = "timeout")
  <2>1. /\ draft' \in Drafts /\ draft'.status \in {"cancelled", "timeout"}
        /\ draft'.job = draft.job /\ draft'.answer = draft.answer
        /\ pc' = "timing_out" => draft'.status = "timeout"
    BY <1>3, StatusFacts DEF RecordInv, RecordType, Terminal
  <2>2. RecordType'
    BY <1>1, <1>2, <1>3, <2>1 DEF RecordInv, RecordType
  <2>3. /\ row.status \in {"pending", "cancelled"} /\ ~row.job /\ ~row.answer
        /\ row.status = "cancelled" => mark = "done"
        /\ draft'.job <=> draft'.answer
    BY <1>1, <2>1 DEF RecordInv, Tracked, RecordedWasAnnounced
  <2>4. Tracked'
    BY <1>1, <1>3, <2>1, <2>3 DEF Tracked, Over
  <2>5. RecordedWasAnnounced'
    BY <1>1, <1>3, <2>3 DEF RecordedWasAnnounced, Terminal, Over
  <2> QED
    BY <2>2, <2>4, <2>5 DEF RecordInv
<1>4. CASE /\ pc' = "left" /\ UNCHANGED draft
           /\ row' = row \/ (pc = "committing" /\ row' = draft)
           /\ cancelled
  <2>1. cancelled' \/ lost'
    BY <1>2, <1>4
  <2> QED
    BY <1>1, <1>2, <1>4, <2>1, LeaveRecord
<1>5. pc \notin Timed => cancelled
  BY <1>1 DEF RecordInv, Tracked
<1>6. \/ pc \in Body /\ pc' = "cancelling" /\ Status("cancelled") /\ UNCHANGED row
      \/ pc \in {"cancelling", "failing"} /\ LeaveExecute /\ UNCHANGED row
      \/ pc \in {"created", "timing_out", "committing"} /\ pc' = "left" /\ UNCHANGED <<draft, row>>
      \/ pc = "committing" /\ row' = draft /\ pc' = "left" /\ UNCHANGED draft
  BY DEF Meet
<1>7. CASE pc \in Body /\ pc' = "cancelling" /\ Status("cancelled") /\ UNCHANGED row
  BY <1>3, <1>7 DEF Timed
<1>8. CASE pc \in {"cancelling", "failing"} /\ LeaveExecute /\ UNCHANGED row
  BY <1>3, <1>4, <1>8 DEF LeaveExecute, Timed
<1>9. CASE pc \in {"created", "timing_out", "committing"} /\ pc' = "left" /\ UNCHANGED <<draft, row>>
  BY <1>4, <1>5, <1>9 DEF Timed, Body
<1>10. CASE pc = "committing" /\ row' = draft /\ pc' = "left" /\ UNCHANGED draft
  BY <1>4, <1>5, <1>10 DEF Timed, Body
<1> QED
  BY <1>6, <1>7, <1>8, <1>9, <1>10

(* A user may cancel at any time, a timeout only fires inside wait_for. *)
LEMMA SignalRecord == ASSUME RecordInv, pc \in Labels, CancelHere \/ TimeOut PROVE RecordInv'
<1>1. /\ pc \notin Over /\ pc' = pc /\ unmet' = TRUE /\ cancelled' \in BOOLEAN /\ expired' \in BOOLEAN
      /\ cancelled' \/ pc \in Timed
      /\ UNCHANGED <<draft, row, frames, mark, lost>>
  BY DEF CancelHere, TimeOut, RecordInv, RecordType, Timed, Body, Over
<1>2. RecordType'
  BY <1>1 DEF RecordInv, RecordType
<1>3. Tracked'
  BY <1>1 DEF RecordInv, Tracked
<1>4. RecordedWasAnnounced'
  BY <1>1 DEF RecordInv, RecordedWasAnnounced, Over
<1> QED
  BY <1>2, <1>3, <1>4 DEF RecordInv

(* Another process reads the row, and marks it when the run's lock is gone. *)
LEMMA MarkRecord ==
    ASSUME RecordInv, pc \in Labels, ReadElsewhere \/ MarkElsewhere
    PROVE  RecordInv'
<1>1. /\ UNCHANGED <<pc, draft, frames, signals, lost>>
      /\ mark # "done" /\ mark' \in {"read", "done"}
      /\ \/ row' = row
         \/ row' = [row EXCEPT !.status = "cancelled"] /\ mark' = "done"
  BY DEF ReadElsewhere, MarkElsewhere
<1>2. /\ row' \in Rows /\ row'.status \in {row.status, "cancelled"}
      /\ row'.job = row.job /\ row'.answer = row.answer
      /\ mark' # "done" => row' = row
  BY <1>1 DEF RecordInv, RecordType, Rows, Terminal
<1>3. RecordType'
  BY <1>1, <1>2 DEF RecordInv, RecordType, signals
<1>4. UNCHANGED <<pc, draft, frames, unmet, cancelled, lost>>
  BY <1>1 DEF signals
<1>5. Tracked'
  BY <1>2, <1>4 DEF RecordInv, Tracked
<1>6. RecordedWasAnnounced'
  <2>1. CASE row' = row
    BY <1>1, <1>4, <2>1 DEF RecordInv, RecordedWasAnnounced
  <2>2. CASE row'.status = "cancelled" /\ mark' = "done"
    BY <1>2, <2>2 DEF RecordInv, RecordedWasAnnounced
  <2> QED
    BY <1>1, <1>2, <2>1, <2>2 DEF RecordInv, RecordType, Rows
<1> QED
  BY <1>3, <1>5, <1>6 DEF RecordInv

(* A run that is lost leaves what it had committed. *)
LEMMA LoseRecord == ASSUME RecordInv, pc \in Labels, Lose PROVE RecordInv'
<1>1. /\ pc \notin Over /\ pc' = "left" /\ lost' = TRUE
      /\ row' = row \/ (pc = "committing" /\ row' = draft)
      /\ PublishCutShort /\ UNCHANGED <<draft, signals, mark>>
  BY DEF Lose
<1>2. /\ unmet' \in BOOLEAN /\ cancelled' \in BOOLEAN /\ lost' \in BOOLEAN /\ expired' = expired
      /\ cancelled' \/ lost'
  BY <1>1 DEF RecordInv, RecordType, signals
<1> QED
  BY <1>1, <1>2, LeaveRecord
-----------------------------------------------------------------------------
(* The theorems *)

(* A run starts in the invariant. *)
LEMMA InitEstablishes == Init => IInv
<1> SUFFICES ASSUME Init PROVE IInv
  OBVIOUS
<1>1. milestones \in Seq(Milestone) /\ frames \in Seq(Terminal) /\ DOMAIN milestones = {}
  BY EmptySeq DEF Init
<1>2. WorkInv
  BY <1>1 DEF Init, WorkInv, WorkType, Untouched, NothingLeftBehind, InBudget, Nodes, MaxReplans, Body
<1>3. draft \in Drafts /\ row \in Rows /\ row.status = "pending" /\ draft.status = "pending"
      /\ ~row.job /\ ~row.answer /\ ~draft.job /\ ~draft.answer
  BY DEF Init, Blank, Drafts, Rows, Terminal
<1>4. RecordInv
  BY <1>1, <1>3 DEF Init, RecordInv, RecordType, Tracked, RecordedWasAnnounced, Terminal, Over
<1> QED
  BY <1>2, <1>4, Halves DEF Init, Labels

(* Every step keeps the plan's half. *)
LEMMA WorkStep == ASSUME WorkInv, pc \in Labels, [Next]_vars PROVE WorkInv'
<1>1. CASE Begin
  BY <1>1, SameWork DEF Begin, At
<1>2. CASE Plan
  BY <1>2, PlanWork
<1>3. CASE LeaveLoop
  BY <1>3, LeaveLoopWork
<1>4. CASE Dispatch
  BY <1>4, DispatchWork
<1>5. CASE AcceptUnreviewed \/ Approve
  BY <1>5, AcceptedWork DEF AcceptUnreviewed, Approve, At
<1>6. CASE AskReview
  BY <1>6, AskReviewWork
<1>7. CASE Revise
  BY <1>7, ReviseWork
<1>8. CASE TryAgain
  BY <1>8, TryAgainWork
<1>9. CASE Skip
  BY <1>9, SkipWork
<1>10. CASE Replan
  BY <1>10, ReplanWork
<1>11. CASE PlanAgain
  BY <1>11, PlanAgainWork
<1>12. CASE Synthesize
  BY <1>12, SameWork DEF Synthesize, At
<1>13. CASE Announce \/ Raise \/ AnnounceFailure \/ AnnounceCancellation \/ AnnounceTimeout \/ Commit
  <2>1. pc' \in {"committing", "failing", "left", "timing_out", "returned"} /\ UNCHANGED work
    BY <1>13 DEF Announce, Raise, AnnounceFailure, AnnounceCancellation, AnnounceTimeout, Commit,
                 LeaveExecute
  <2> QED
    BY <2>1, SameWork DEF Body
<1>14. CASE Meet
  <2>1. pc' \in {"cancelling", "left", "timing_out"} /\ UNCHANGED work
    BY <1>14 DEF Meet, LeaveExecute
  <2> QED
    BY <2>1, SameWork DEF Body
<1>15. CASE CancelHere \/ TimeOut \/ ReadElsewhere \/ MarkElsewhere \/ UNCHANGED vars
  <2>1. pc' = pc /\ UNCHANGED work
    BY <1>15 DEF CancelHere, TimeOut, ReadElsewhere, MarkElsewhere, vars
  <2> QED
    BY <2>1, SameWork
<1>16. CASE Lose
  BY <1>16, SameWork DEF Lose, Body
<1> QED
  BY <1>1, <1>2, <1>3, <1>4, <1>5, <1>6, <1>7, <1>8, <1>9, <1>10, <1>11, <1>12, <1>13, <1>14,
     <1>15, <1>16 DEF Next, TaskStep

(* Every step keeps the record's half. *)
LEMMA RecordStep == ASSUME RecordInv, pc \in Labels, [Next]_vars PROVE RecordInv'
<1>1. CASE Begin \/ LeaveLoop
  BY <1>1, BeginRecord
<1>2. CASE Plan \/ Dispatch \/ AcceptUnreviewed \/ AskReview \/ Approve \/ Revise
             \/ TryAgain \/ Skip \/ Replan \/ PlanAgain
  BY <1>2, LoopRecord
<1>3. CASE Synthesize
  BY <1>3, SynthesizeRecord
<1>4. CASE Announce \/ AnnounceFailure \/ AnnounceTimeout
  BY <1>4, AnnounceRecord
<1>5. CASE Raise
  BY <1>5, RaiseRecord
<1>6. CASE AnnounceCancellation
  BY <1>6, AnnounceCancellationRecord
<1>7. CASE Commit
  BY <1>7, CommitRecord
<1>8. CASE Meet
  BY <1>8, MeetRecord
<1>9. CASE CancelHere \/ TimeOut
  BY <1>9, SignalRecord
<1>10. CASE ReadElsewhere \/ MarkElsewhere
  BY <1>10, MarkRecord
<1>11. CASE Lose
  BY <1>11, LoseRecord
<1>12. CASE UNCHANGED vars
  <2>1. UNCHANGED <<pc, draft, row, frames, unmet, cancelled, expired, mark, lost>>
    BY <1>12 DEF vars, signals
  <2>2. RecordType' /\ Tracked'
    BY <2>1 DEF RecordInv, RecordType, Tracked
  <2>3. RecordedWasAnnounced'
    BY <2>1 DEF RecordInv, RecordedWasAnnounced
  <2> QED
    BY <2>2, <2>3 DEF RecordInv
<1> QED
  BY <1>1, <1>2, <1>3, <1>4, <1>5, <1>6, <1>7, <1>8, <1>9, <1>10, <1>11, <1>12 DEF Next, TaskStep

(* The task moves between its labels. *)
LEMMA LabelStep == ASSUME pc \in Labels, [Next]_vars PROVE pc' \in Labels
<1>1. CASE TaskStep
  BY <1>1 DEF TaskStep, Begin, Plan, LeaveLoop, Dispatch, AcceptUnreviewed, AskReview, Approve,
              Revise, Accepted, TryAgain, Skip, Replan, PlanAgain, Synthesize, Announce, Raise,
              AnnounceFailure, AnnounceCancellation, AnnounceTimeout, Commit, Meet, LeaveExecute,
              Labels, Timed, Body, Over
<1>2. CASE CancelHere \/ TimeOut \/ ReadElsewhere \/ MarkElsewhere \/ Lose \/ UNCHANGED vars
  BY <1>2 DEF CancelHere, TimeOut, ReadElsewhere, MarkElsewhere, Lose, vars, Labels, Over
<1> QED
  BY <1>1, <1>2 DEF Next

(* The invariant holds in every reachable state of every run of the classic *)
(* engine.                                                                 *)
THEOREM Inductive == Spec => []IInv
<1>1. IInv /\ [Next]_vars => IInv'
  <2>1. ASSUME IInv, [Next]_vars PROVE pc' \in Labels /\ WorkInv' /\ RecordInv'
    BY <2>1, Halves, LabelStep, WorkStep, RecordStep
  <2>2. ASSUME pc' \in Labels, WorkInv', RecordInv' PROVE IInv'
    BY <2>2 DEF IInv, TypeOK, Labels, WorkInv, WorkType, RecordInv, RecordType, Drafts, Rows
  <2> QED
    BY <2>1, <2>2
<1> QED
  BY InitEstablishes, <1>1, PTL DEF Spec

(* Every value a run of the classic engine writes has its type. *)
THEOREM TypeCorrect == Spec => []TypeOK
<1>1. IInv => TypeOK
  BY DEF IInv
<1> QED
  BY Inductive, <1>1, PTL

(* Whatever the plans and verdicts, the loop leaves no milestone behind. *)
THEOREM NothingIsLeftBehind == Spec => []NothingLeftBehind
<1>1. IInv => NothingLeftBehind
  BY DEF IInv
<1> QED
  BY Inductive, <1>1, PTL

(* Whenever the run is cancelled, times out or is lost, the database holds   *)
(* no outcome that was not announced last, no answer without its job, and no *)
(* cancellation of the run's own; what was announced may be missing from it. *)
THEOREM RecordWasAnnounced == Spec => []RecordedWasAnnounced
<1>1. IInv => RecordedWasAnnounced
  BY DEF IInv
<1> QED
  BY Inductive, <1>1, PTL

(* How the states of the classic engine look to the platform. *)
LEMMA PhaseValues ==
    ASSUME NEW label, NEW status
    PROVE  /\ label \in {"created", "planning", "replanning"} => PhaseOf(label, status) = "planning"
           /\ label \in {"dispatching", "producing", "reviewing"} => PhaseOf(label, status) = "working"
           /\ label \in {"synthesizing", "announcing"} => PhaseOf(label, status) = "synthesis"
           /\ label \in {"cancelling", "failing", "timing_out", "left"} => PhaseOf(label, status) = "failed"
           /\ label = "committing" =>
                 PhaseOf(label, status) = IF status = "completed" THEN "synthesis" ELSE "failed"
           /\ label = "returned" =>
                 PhaseOf(label, status) = IF status = "completed" THEN "done" ELSE "failed"
BY DEF PhaseOf

(* A step that only fails the run, or is of a run that has failed, is the   *)
(* platform's Fail or is not seen.                                         *)
LEMMA FailStep ==
    ASSUME pc \in Labels, pc # "returned", PhaseOf(pc', draft'.status) = "failed", UNCHANGED work
    PROVE  Abstract!Fail \/ UNCHANGED Abstract!vars
<1>1. PhaseOf(pc, draft.status) \in {"planning", "working", "synthesis", "failed"}
  BY PhaseValues DEF Labels, Timed, Body, Over
<1>2. UNCHANGED <<steps, replans>>
  BY DEF work
<1>3. CASE PhaseOf(pc, draft.status) = "failed"
  BY <1>2, <1>3 DEF Abstract!vars
<1>4. CASE PhaseOf(pc, draft.status) # "failed"
  BY <1>1, <1>2, <1>4 DEF Abstract!Fail, Abstract!Running
<1> QED
  BY <1>3, <1>4

(* The classic engine implements the same bounded run as the LangGraph one: *)
(* every step of it is a step of BoundedRun or is not seen by it.          *)
THEOREM RefinesBoundedRun == Spec => Abstract!Safety
<1>1. Init => Abstract!Init
  BY PhaseValues DEF Init, Abstract!Init
<1>2. IInv /\ IInv' /\ [Next]_vars => [Abstract!Next]_Abstract!vars
  <2> SUFFICES ASSUME IInv, IInv', [Next]_vars
               PROVE  [Abstract!Next]_Abstract!vars
    OBVIOUS
  <2>0. /\ pc \in Labels /\ WorkType /\ InBudget /\ Tracked /\ Tracked'
        /\ steps \in Nat /\ replans \in Nat /\ attempt \in Nat
    BY Halves DEF IInv, WorkInv, WorkType, MaxReplans
  <2>1. CASE Plan \/ PlanAgain
    <3>1. pc \in {"planning", "replanning"} /\ pc' = "dispatching" /\ UNCHANGED <<steps, replans>>
      BY <2>1 DEF Plan, PlanAgain, At
    <3>2. PhaseOf(pc, draft.status) = "planning" /\ PhaseOf(pc', draft'.status) = "working"
      BY <3>1, PhaseValues
    <3> QED
      BY <3>1, <3>2 DEF Abstract!Next, Abstract!Plan
  <2>2. CASE LeaveLoop
    <3>1. pc = "dispatching" /\ pc' = "synthesizing" /\ UNCHANGED <<steps, replans>>
      BY <2>2 DEF LeaveLoop, At, work
    <3>2. PhaseOf(pc, draft.status) = "working" /\ PhaseOf(pc', draft'.status) = "synthesis"
      BY <3>1, PhaseValues
    <3> QED
      BY <3>1, <3>2 DEF Abstract!Next, Abstract!StopWorking
  <2>3. CASE Dispatch \/ Revise
    <3>1. /\ pc \in {"dispatching", "reviewing"} /\ pc' = "producing"
          /\ steps' = steps + 1 /\ UNCHANGED replans
      BY <2>3 DEF Dispatch, Open, Revise, At
    <3>2. steps < MaxSteps + MaxReviews
      BY <2>0, <2>3, ConstantTypes DEF Dispatch, Open, Revise, At, InBudget
    <3>3. PhaseOf(pc, draft.status) = "working" /\ PhaseOf(pc', draft'.status) = "working"
      BY <3>1, PhaseValues
    <3> QED
      BY <3>1, <3>2, <3>3 DEF Abstract!Next, Abstract!Round
  <2>4. CASE Replan
    <3>1. /\ pc = "dispatching" /\ pc' = "replanning" /\ replans < MaxReplans
          /\ replans' = replans + 1 /\ UNCHANGED steps
      BY <2>4 DEF Replan, Unserved, Open, At
    <3>2. PhaseOf(pc, draft.status) = "working" /\ PhaseOf(pc', draft'.status) = "planning"
      BY <3>1, PhaseValues
    <3> QED
      BY <3>1, <3>2 DEF Abstract!Next, Abstract!Replan
  <2>5. CASE AcceptUnreviewed \/ AskReview \/ Approve \/ TryAgain \/ Skip
    <3>1. /\ pc \in {"dispatching", "producing", "reviewing"}
          /\ pc' \in {"dispatching", "producing", "reviewing"}
          /\ UNCHANGED <<steps, replans>>
      BY <2>5 DEF AcceptUnreviewed, AskReview, Approve, Accepted, TryAgain, Skip, Unserved, Open, At
    <3>2. PhaseOf(pc, draft.status) = "working" /\ PhaseOf(pc', draft'.status) = "working"
      BY <3>1, PhaseValues
    <3> QED
      BY <3>1, <3>2 DEF Abstract!vars
  <2>6. CASE Begin \/ Synthesize \/ Announce
    <3>1. /\ UNCHANGED <<steps, replans>>
          /\ \/ pc = "created" /\ pc' = "planning"
             \/ pc = "synthesizing" /\ pc' = "announcing"
             \/ /\ pc = "announcing" /\ pc' = "committing"
                /\ draft'.status = "completed"
      BY <2>0, <2>6 DEF Begin, Synthesize, Announce, At, work, Tracked
    <3>2. PhaseOf(pc', draft'.status) = PhaseOf(pc, draft.status)
      BY <3>1, PhaseValues
    <3> QED
      BY <3>1, <3>2 DEF Abstract!vars
  <2>7. CASE Raise \/ AnnounceFailure \/ AnnounceCancellation \/ AnnounceTimeout \/ Meet \/ Lose
    <3>1. /\ pc \notin {"returned"} /\ UNCHANGED work
          /\ \/ pc' \in {"failing", "cancelling", "timing_out", "left"}
             \/ pc' = "committing" /\ draft'.status # "completed"
      BY <2>0, <2>7 DEF Raise, AnnounceFailure, AnnounceCancellation, AnnounceTimeout, Meet, Lose,
                        LeaveExecute, At, Over, Tracked
    <3>2. PhaseOf(pc', draft'.status) = "failed"
      BY <3>1, PhaseValues
    <3> QED
      BY <2>0, <3>1, <3>2, FailStep DEF Abstract!Next
  <2>8. CASE Commit
    <3>1. pc = "committing" /\ pc' = "returned" /\ UNCHANGED <<work, draft>>
      BY <2>8 DEF Commit, At
    <3>2. CASE draft.status = "completed"
      <4>1. PhaseOf(pc, draft.status) = "synthesis" /\ PhaseOf(pc', draft'.status) = "done"
        BY <3>1, <3>2, PhaseValues
      <4> QED
        BY <3>1, <4>1 DEF Abstract!Next, Abstract!Answer, work
    <3>3. CASE draft.status # "completed"
      <4>1. PhaseOf(pc, draft.status) = "failed" /\ PhaseOf(pc', draft'.status) = "failed"
        BY <3>1, <3>3, PhaseValues
      <4> QED
        BY <3>1, <4>1 DEF Abstract!vars, work
    <3> QED
      BY <3>2, <3>3
  <2>9. CASE CancelHere \/ TimeOut \/ ReadElsewhere \/ MarkElsewhere \/ UNCHANGED vars
    <3>1. UNCHANGED <<pc, draft, steps, replans>>
      BY <2>9 DEF CancelHere, TimeOut, ReadElsewhere, MarkElsewhere, vars, work
    <3>2. PhaseOf(pc', draft'.status) = PhaseOf(pc, draft.status)
      BY <3>1
    <3> QED
      BY <3>1, <3>2 DEF Abstract!vars
  <2> QED
    BY <2>1, <2>2, <2>3, <2>4, <2>5, <2>6, <2>7, <2>8, <2>9 DEF Next, TaskStep
<1> QED
  BY <1>1, <1>2, Inductive, PTL DEF Spec, Abstract!Safety
=============================================================================
