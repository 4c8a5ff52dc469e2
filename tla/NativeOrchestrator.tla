------------------------- MODULE NativeOrchestrator -------------------------
(***************************************************************************)
(* The classic engine, services/orchestrator.py: one run executed by one   *)
(* task of an API process, from execute_run to the end of its session.     *)
(*                                                                         *)
(* Everything the task writes to the database is one transaction, opened   *)
(* with the first flush and committed when execute_run ends: draft is the  *)
(* run's row as the session holds it, row what the others see.  Frames go  *)
(* out at once.  The models are the environment: plans and verdicts are    *)
(* free.  A step is what the task does between two awaits at which it can  *)
(* be cancelled or fail.                                                   *)
(***************************************************************************)
EXTENDS Naturals, Sequences, Sublists

CONSTANTS
    Specialists,    \* node keys of the DSL, without the orchestrator
    Orchestrator,   \* the orchestrator's node key
    Reviewers,      \* DSL.reviewers_for: the reviewers of each node
    MaxSteps,       \* min(orchestrator.max_steps, MAX_ORCHESTRATION_STEPS)
    MaxMilestones,  \* orchestrator.max_milestones
    MaxReviews,     \* orchestrator.max_review_iterations
    StallLimit      \* orchestrator.stall_limit

Nodes == Specialists \cup {Orchestrator}

(* A plan without specialists names the orchestrator. *)
Assignable == IF Specialists = {} THEN {Orchestrator} ELSE Specialists

ASSUME TeamAssumption ==
    /\ Orchestrator \notin Specialists
    /\ Reviewers \in [Nodes -> SUBSET Nodes]
    /\ MaxSteps \in Nat \ {0}
    /\ MaxMilestones \in Nat \ {0}
    /\ MaxReviews \in Nat
    /\ StallLimit \in Nat \ {0}

MaxReplans == 2     \* the literal of _execute_inner

VARIABLES
    present,     \* nodes_by_key: the nodes of the DSL that have a row
    pc,          \* where the task is
    milestones,  \* task_ledger["milestones"]
    index,       \* the milestone being worked on, from 1
    attempt,     \* attempt of _execute_milestone, from 0
    steps,       \* _steps
    failures,    \* consecutive_failures
    replans,     \* replan_count
    draft,       \* the run's row in the task's session
    row,         \* the run's row as committed
    frames,      \* terminal frames handed to EventBus.publish; what Redis loses is EventStream's
    unmet,       \* a cancellation that no await has met yet
    cancelled,   \* a user has cancelled the task
    expired,     \* wait_for's timeout has fired
    mark,        \* cancel_run in another process: what it has done
    lost         \* the process died, or the database failed the session

work == <<present, milestones, index, attempt, steps, failures, replans>>

signals == <<unmet, cancelled, expired>>

vars == <<pc, work, draft, row, frames, signals, mark, lost>>

Settled == {"verified", "skipped"}

Milestone == [node : Assignable,
              status : {"pending", "in_progress", "under_review", "verified", "skipped"}]

(* RunStatus.is_terminal *)
Terminal == {"completed", "failed", "cancelled", "timeout"}

(* Where execute() awaits: here a cancellation meets its handler. *)
Body == {"planning", "dispatching", "producing", "reviewing", "replanning", "synthesizing", "announcing"}

(* Inside wait_for: the handlers of _execute_inner await too. *)
Timed == Body \cup {"cancelling", "failing"}

Over == {"returned", "left"}

TypeOK ==
    /\ present \in SUBSET Nodes
    /\ pc \in Timed \cup Over \cup {"created", "timing_out", "committing"}
    /\ milestones \in Seq(Milestone)
    /\ index \in Nat \ {0} /\ attempt \in Nat /\ steps \in Nat
    /\ failures \in Nat /\ replans \in 0..MaxReplans
    /\ draft \in [status : Terminal \cup {"pending", "planning", "executing", "replanning", "synthesizing"},
                  answer : BOOLEAN, job : BOOLEAN]
    /\ row \in [status : Terminal \cup {"pending"}, answer : BOOLEAN, job : BOOLEAN]
    /\ frames \in Seq(Terminal)
    /\ unmet \in BOOLEAN /\ cancelled \in BOOLEAN /\ expired \in BOOLEAN /\ lost \in BOOLEAN
    /\ mark \in {"none", "read", "done"}

Blank == [status |-> "pending", answer |-> FALSE, job |-> FALSE]

(* send_message has committed the row and created the task. *)
Init ==
    /\ present \in {S \cup {Orchestrator} : S \in SUBSET Specialists}
    /\ pc = "created"
    /\ milestones = <<>> /\ index = 1 /\ attempt = 0 /\ steps = 0
    /\ failures = 0 /\ replans = 0
    /\ draft = Blank /\ row = Blank
    /\ frames = <<>>
    /\ unmet = FALSE /\ cancelled = FALSE /\ expired = FALSE /\ lost = FALSE
    /\ mark = "none"

(* The task goes on from label if no cancellation meets it there. *)
At(label) == pc = label /\ ~unmet

Status(s) == draft' = [draft EXCEPT !.status = s]
-----------------------------------------------------------------------------
(* _execute_inner *)

(* execute_run reads the row; PLANNING is flushed, whatever the row says,   *)
(* and the row is locked from here to the end of the transaction.          *)
Begin ==
    /\ At("created")
    /\ pc' = "planning"
    /\ Status("planning")
    /\ UNCHANGED <<work, row, frames, signals, mark, lost>>

(* What _plan lets through: at least one milestone (the fallback), at most  *)
(* MaxMilestones, each given to a node of the DSL.                         *)
Plans == UNION {[1..n -> [node : Assignable, status : {"pending"}]] : n \in 1..MaxMilestones}

Plan ==
    /\ At("planning")
    /\ milestones' \in Plans
    /\ pc' = "dispatching"
    /\ Status("executing")
    /\ UNCHANGED <<present, index, attempt, steps, failures, replans, row, frames, signals, mark, lost>>

(* The loop ends past the last milestone, or when max_steps is used up. *)
LeaveLoop ==
    /\ At("dispatching")
    /\ index > Len(milestones) \/ steps >= MaxSteps
    /\ pc' = "synthesizing"
    /\ Status("synthesizing")
    /\ UNCHANGED <<work, row, frames, signals, mark, lost>>

(* A milestone is to be worked on.  The branch of the loop that passes over *)
(* verified and skipped ones is never taken (NothingLeftBehind).           *)
Open ==
    /\ At("dispatching")
    /\ index <= Len(milestones) /\ steps < MaxSteps

Node == milestones[index].node

SetStatus(s) == milestones' = [milestones EXCEPT ![index].status = s]

(* _execute_milestone begins: the first of its attempts. *)
Dispatch ==
    /\ Open
    /\ Node \in present
    /\ SetStatus("in_progress")
    /\ attempt' = 0 /\ steps' = steps + 1
    /\ pc' = "producing"
    /\ UNCHANGED <<present, index, failures, replans, draft, row, frames, signals, mark, lost>>

Accepted ==
    /\ SetStatus("verified")
    /\ index' = index + 1
    /\ failures' = 0
    /\ pc' = "dispatching"

(* _reviewer_nodes_for: the reviewers that have a row, without the producer. *)
ReviewersPresent == (Reviewers[Node] \cap present) \ {Node}

(* The specialist's artifact is taken as it is: nobody reviews it, or the   *)
(* reviews are used up.                                                    *)
AcceptUnreviewed ==
    /\ At("producing")
    /\ ReviewersPresent = {} \/ attempt >= MaxReviews
    /\ Accepted
    /\ UNCHANGED <<present, attempt, steps, replans, draft, row, frames, signals, mark, lost>>

AskReview ==
    /\ At("producing")
    /\ ReviewersPresent # {} /\ attempt < MaxReviews
    /\ SetStatus("under_review")
    /\ pc' = "reviewing"
    /\ UNCHANGED <<present, index, attempt, steps, failures, replans, draft, row, frames, signals, mark, lost>>

(* _review approves; so does a verdict that cannot be parsed. *)
Approve ==
    /\ At("reviewing")
    /\ Accepted
    /\ UNCHANGED <<present, attempt, steps, replans, draft, row, frames, signals, mark, lost>>

(* A revision is requested: the next attempt, without looking at max_steps. *)
Revise ==
    /\ At("reviewing")
    /\ attempt' = attempt + 1 /\ steps' = steps + 1
    /\ pc' = "producing"
    /\ UNCHANGED <<present, milestones, index, failures, replans, draft, row, frames, signals, mark, lost>>
-----------------------------------------------------------------------------
(* A milestone whose node has no row: the only way a milestone fails. *)

Unserved == Open /\ Node \notin present

(* It is tried again, as pending as before; no step is counted. *)
TryAgain ==
    /\ Unserved
    /\ failures + 1 < StallLimit /\ replans < MaxReplans
    /\ failures' = failures + 1
    /\ UNCHANGED <<pc, present, milestones, index, attempt, steps, replans, draft, row, frames, signals, mark, lost>>

Skip ==
    /\ Unserved
    /\ replans >= MaxReplans
    /\ SetStatus("skipped")
    /\ index' = index + 1
    /\ failures' = failures + 1
    /\ UNCHANGED <<pc, present, attempt, steps, replans, draft, row, frames, signals, mark, lost>>

(* Mutant: the number of replans is not looked at. *)
Replan_Unbounded ==
    /\ Unserved
    /\ failures + 1 >= StallLimit
    /\ failures' = failures + 1
    /\ replans' = replans + 1
    /\ pc' = "replanning"
    /\ Status("replanning")
    /\ UNCHANGED <<present, milestones, index, attempt, steps, row, frames, signals, mark, lost>>

Replan ==
    /\ Unserved
    /\ failures + 1 >= StallLimit /\ replans < MaxReplans
    /\ failures' = failures + 1
    /\ replans' = replans + 1
    /\ pc' = "replanning"
    /\ Status("replanning")
    /\ UNCHANGED <<present, milestones, index, attempt, steps, row, frames, signals, mark, lost>>

VerifiedPositions == {i \in DOMAIN milestones : milestones[i].status = "verified"}

(* Mutant: work is resumed at the last milestone kept, an off-by-one. *)
PlanAgain_OffByOne ==
    /\ At("replanning")
    /\ \E kept \in InOrder(VerifiedPositions), plan \in Plans :
          milestones' = Sublist(milestones, kept) \o plan
    /\ index' = Cardinality(VerifiedPositions)
    /\ failures' = 0
    /\ pc' = "dispatching"
    /\ Status("executing")
    /\ UNCHANGED <<present, attempt, steps, replans, row, frames, signals, mark, lost>>

(* Mutant: the revised plan replaces what was verified as well. *)
PlanAgain_NothingKept ==
    /\ At("replanning")
    /\ milestones' \in Plans
    /\ index' = Cardinality(VerifiedPositions) + 1
    /\ failures' = 0
    /\ pc' = "dispatching"
    /\ Status("executing")
    /\ UNCHANGED <<present, attempt, steps, replans, row, frames, signals, mark, lost>>

(* The verified milestones are kept, the revised plan follows them. *)
PlanAgain ==
    /\ At("replanning")
    /\ \E kept \in InOrder(VerifiedPositions), plan \in Plans :
          milestones' = Sublist(milestones, kept) \o plan
    /\ index' = Cardinality(VerifiedPositions) + 1
    /\ failures' = 0
    /\ pc' = "dispatching"
    /\ Status("executing")
    /\ UNCHANGED <<present, attempt, steps, replans, row, frames, signals, mark, lost>>
-----------------------------------------------------------------------------
(* How the run ends *)

(* The answer is streamed; answer, message, totals and job are flushed. *)
Synthesize ==
    /\ At("synthesizing")
    /\ draft' = [status |-> "completed", answer |-> TRUE, job |-> TRUE]
    /\ pc' = "announcing"
    /\ UNCHANGED <<work, row, frames, signals, mark, lost>>

(* enqueue_post_mortem and RUN_COMPLETED, before anything is committed. *)
Announce ==
    /\ At("announcing")
    /\ frames' = Append(frames, "completed")
    /\ pc' = "committing"
    /\ UNCHANGED <<work, draft, row, signals, mark, lost>>

(* A model call, the load of the graph or a malformed plan raises. *)
Raise ==
    /\ pc \in {"planning", "producing", "reviewing", "replanning", "synthesizing"} /\ ~unmet
    /\ pc' = "failing"
    /\ Status("failed")
    /\ UNCHANGED <<work, row, frames, signals, mark, lost>>

AnnounceFailure ==
    /\ At("failing")
    /\ frames' = Append(frames, "failed")
    /\ pc' = "committing"
    /\ UNCHANGED <<work, draft, row, signals, mark, lost>>

(* Mutant: the timeout's handler leaves the status that the cancellation set. *)
LeaveExecute_KeepsStatus ==
    \/ cancelled /\ pc' = "left" /\ UNCHANGED draft
    \/ ~cancelled /\ pc' = "timing_out" /\ UNCHANGED draft

(* A CancelledError leaves execute(): wait_for makes a timeout of it, unless *)
(* the user has cancelled as well.  Then it leaves execute_run, and the     *)
(* session is closed without a commit.                                     *)
LeaveExecute ==
    \/ cancelled /\ pc' = "left" /\ UNCHANGED draft
    \/ ~cancelled /\ pc' = "timing_out" /\ Status("timeout")

(* The handler's ERROR frame, for users and timeouts alike; then it raises. *)
AnnounceCancellation ==
    /\ At("cancelling")
    /\ frames' = Append(frames, "cancelled")
    /\ LeaveExecute
    /\ UNCHANGED <<work, row, signals, mark, lost>>

(* The second ERROR frame of a run that timed out. *)
AnnounceTimeout ==
    /\ At("timing_out")
    /\ frames' = Append(frames, "timeout")
    /\ pc' = "committing"
    /\ UNCHANGED <<work, draft, row, signals, mark, lost>>

Commit ==
    /\ At("committing")
    /\ row' = draft
    /\ pc' = "returned"
    /\ UNCHANGED <<work, draft, frames, signals, mark, lost>>

(* The task is stopped where it awaits: the frame that it was publishing    *)
(* there has gone out, or has not.                                         *)
PublishCutShort ==
    \/ UNCHANGED frames
    \/ pc = "announcing" /\ frames' = Append(frames, "completed")
    \/ pc = "cancelling" /\ frames' = Append(frames, "cancelled")
    \/ pc = "failing" /\ frames' = Append(frames, "failed")
    \/ pc = "timing_out" /\ frames' = Append(frames, "timeout")

(* A CancelledError is thrown where the task awaits: in the body its        *)
(* handler begins; in a handler of execute() it leaves execute(); before    *)
(* the first step and after execute() it ends the task, and a commit may    *)
(* already have reached the database.                                      *)
Meet ==
    /\ unmet /\ pc \notin Over
    /\ unmet' = FALSE
    /\ \/ pc \in Body /\ pc' = "cancelling" /\ Status("cancelled") /\ UNCHANGED row
       \/ pc \in {"cancelling", "failing"} /\ LeaveExecute /\ UNCHANGED row
       \/ pc \in {"created", "timing_out", "committing"} /\ pc' = "left" /\ UNCHANGED <<draft, row>>
       \/ pc = "committing" /\ row' = draft /\ pc' = "left" /\ UNCHANGED draft
    /\ PublishCutShort
    /\ UNCHANGED <<work, cancelled, expired, mark, lost>>
-----------------------------------------------------------------------------
(* The others *)

(* cancel_run in the run's own process finds the task and cancels it. *)
CancelHere ==
    /\ pc \notin Over
    /\ unmet' = TRUE /\ cancelled' = TRUE
    /\ UNCHANGED <<pc, work, draft, row, frames, expired, mark, lost>>

(* RUN_TIMEOUT_SECONDS have passed. *)
TimeOut ==
    /\ pc \in Timed
    /\ ~expired
    /\ unmet' = TRUE /\ expired' = TRUE
    /\ UNCHANGED <<pc, work, draft, row, frames, cancelled, mark, lost>>

(* cancel_run in another process: until the run has ended the committed row *)
(* is pending, so the request goes on ...                                  *)
ReadElsewhere ==
    /\ mark = "none"
    /\ row.status \notin Terminal
    /\ mark' = "read"
    /\ UNCHANGED <<pc, work, draft, row, frames, signals, lost>>

(* ... to an UPDATE, which waits for the run's transaction to be over. *)
MarkElsewhere ==
    /\ mark = "read"
    /\ pc \in {"created"} \cup Over
    /\ row' = [row EXCEPT !.status = "cancelled"]
    /\ mark' = "done"
    /\ UNCHANGED <<pc, work, draft, frames, signals, lost>>

(* The process dies; or a flush or the commit fails, and then the handler's *)
(* own flush fails too and nobody publishes anything.  A commit under way   *)
(* may have reached the database.                                          *)
Lose ==
    /\ pc \notin Over
    /\ pc' = "left"
    /\ lost' = TRUE
    /\ row' \in IF pc = "committing" THEN {row, draft} ELSE {row}
    /\ PublishCutShort
    /\ UNCHANGED <<work, draft, signals, mark>>
-----------------------------------------------------------------------------
TaskStep ==
    \/ Begin \/ Plan \/ LeaveLoop \/ Dispatch \/ AcceptUnreviewed \/ AskReview \/ Approve \/ Revise
    \/ TryAgain \/ Skip \/ Replan \/ PlanAgain
    \/ Synthesize \/ Announce \/ Raise \/ AnnounceFailure \/ AnnounceCancellation \/ AnnounceTimeout
    \/ Commit \/ Meet

Next == TaskStep \/ CancelHere \/ TimeOut \/ ReadElsewhere \/ MarkElsewhere \/ Lose

(* The event loop runs the task, and every model call has a timeout. *)
Spec == Init /\ [][Next]_vars /\ WF_vars(TaskStep)
-----------------------------------------------------------------------------
(* Properties *)

(* The loop's index leaves no work behind: what it has passed is verified,  *)
(* or was skipped after both replans; what it points at is untouched, so    *)
(* the branch that passes over settled milestones is dead; and an answer is *)
(* written with milestones open only when max_steps is used up             *)
(* (orchestrator.py 491-558).                                              *)
NothingLeftBehind ==
    /\ pc \in Body \ {"replanning"} => \A i \in 1..(index - 1) : i \in DOMAIN milestones /\ milestones[i].status \in Settled
    /\ \A i \in DOMAIN milestones : milestones[i].status = "skipped" => replans = MaxReplans
    /\ pc = "dispatching" /\ index <= Len(milestones) => milestones[index].status = "pending"
    /\ pc \in {"synthesizing", "announcing"} /\ steps < MaxSteps =>
          \A i \in DOMAIN milestones : milestones[i].status \in Settled

(* The database says nothing that clients were not told last: an outcome is  *)
(* committed only after its frame, and with the answer and its learning job  *)
(* as one; a run never records its own cancellation, so a row says cancelled *)
(* only by another process's mark; and a run whose transaction is rolled     *)
(* back (left pending) was cancelled by a user or lost, and leaves neither   *)
(* answer nor job.  The converse fails: frames go out before the commit, and *)
(* such a run may have announced "cancelled" or even "completed" beside the  *)
(* row that stays pending, as a run whose time is up while it announces      *)
(* "completed" announces and records the timeout after it (orchestrator.py   *)
(* 586-662, chat.py 164-178).                                                *)
RecordedWasAnnounced ==
    /\ row.status \in Terminal \ {"cancelled"} => frames # <<>> /\ row.status = frames[Len(frames)]
    /\ row.status = "cancelled" => mark = "done"
    /\ row.job <=> row.answer
    /\ row.status = "completed" => row.job
    /\ row.status = "pending" => ~row.job /\ (pc \in Over => cancelled \/ lost)

(* The run seen from the platform: a run that could not be recorded as      *)
(* completed has failed.                                                   *)
PhaseOf(label, status) ==
    CASE label \in {"created", "planning", "replanning"} -> "planning"
      [] label \in {"dispatching", "producing", "reviewing"} -> "working"
      [] label \in {"synthesizing", "announcing"} -> "synthesis"
      [] label = "committing" /\ status = "completed" -> "synthesis"
      [] label = "returned" /\ status = "completed" -> "done"
      [] OTHER -> "failed"

Abstract == INSTANCE BoundedRun WITH
                phase <- PhaseOf(pc, draft.status), rounds <- steps, replans <- replans,
                Budget <- MaxSteps + MaxReviews, MaxReplans <- MaxReplans

(* The classic engine keeps the same promise as the LangGraph engine: work  *)
(* within a budget (max_steps plus the reviews of the last milestone), two  *)
(* replans, one answer, and an end, whatever the models, the clock and the  *)
(* users do.                                                               *)
ImplementsBoundedRun == Abstract!Spec
-----------------------------------------------------------------------------
(* The inductive invariant of NativeOrchestratorProofs *)

(* The milestone being worked on is one of the plan, and those after it are *)
(* as they were planned.                                                   *)
Untouched ==
    /\ pc \in {"created", "planning"} => index = 1
    /\ pc \in {"producing", "reviewing"} => index \in DOMAIN milestones
    /\ pc \in {"dispatching", "producing", "reviewing"} =>
          \A i \in DOMAIN milestones : i > index => milestones[i].status = "pending"

(* max_steps is tested before the first attempt at a milestone; attempts    *)
(* and steps then grow together, within max_review_iterations.             *)
InBudget ==
    /\ pc \in {"producing", "reviewing"} => attempt <= MaxReviews /\ steps <= MaxSteps + attempt
    /\ pc = "reviewing" => attempt < MaxReviews

(* What the session holds before the commit fits what has been published,  *)
(* nothing of it is visible, and outside execute() only a user cancels.    *)
Tracked ==
    /\ pc = "announcing" => draft.status = "completed"
    /\ pc = "failing" => draft.status = "failed"
    /\ pc = "timing_out" => draft.status = "timeout"
    /\ pc = "committing" => /\ frames # <<>> /\ draft.status = frames[Len(frames)]
                           /\ draft.status \in {"completed", "failed", "timeout"}
    /\ draft.job <=> draft.answer
    /\ draft.status = "completed" => draft.job /\ pc \in {"announcing", "committing"} \cup Over
    /\ pc \notin Over => row.status \in {"pending", "cancelled"} /\ ~row.job /\ ~row.answer
    /\ unmet /\ pc \notin Timed \cup Over => cancelled

IInv ==
    /\ TypeOK
    /\ Untouched /\ NothingLeftBehind
    /\ InBudget
    /\ Tracked /\ RecordedWasAnnounced
=============================================================================
