---------------------------- MODULE RunLifecycle ----------------------------
(***************************************************************************)
(* The life of one orchestration run under the LangGraph engine:           *)
(* engine/runner.py as a task of the API process that accepted the run,    *)
(* and the requests of api/v1/chat.py that reach it from any process:      *)
(* cancellation and the approval that resumes a suspended graph.           *)
(*                                                                         *)
(* Processes share the run's database row, the graph's checkpoints and the *)
(* event bus.  The registry of tasks that a cancellation searches is each  *)
(* process's own.  What the graph does is DualLedger; here driving it is   *)
(* one step with the outcomes that matter to the run: it is finished, it   *)
(* is suspended by an approval gate, or it raises.                         *)
(***************************************************************************)
EXTENDS Naturals, Sequences, FiniteSets

CONSTANTS
    Workers,      \* API processes
    Runner,       \* the task _launch_run creates
    Resumers,     \* tasks resume_run_endpoint may create
    Requests,     \* cancellation requests
    MaxCrashes    \* bound of the model: crashes of API processes

(* The tasks are created by different endpoints. *)
ASSUME RunAssumption == Runner \notin Resumers

Tasks == {Runner} \cup Resumers

VARIABLES
    status,        \* OrchestrationRun.status, as committed
    response,      \* OrchestrationRun.final_response, as committed
    jobs,          \* PostMortemJob rows of the run
    frames,        \* terminal frames handed to EventBus.publish, in order
    checkpoints,   \* whether the deployment has a checkpointer
    graph,         \* the checkpointed thread run-<id>
    pc,            \* what each task does next
    home,          \* the process each task lives in
    cancelled,     \* tasks whose cancel() has been called and not yet met
    verdict,       \* the runner's local view of the outcome
    request,       \* what each cancellation request has read, or where it stands
    crashes        \* crashes so far

row == <<status, response, jobs>>

vars == <<row, frames, checkpoints, graph, pc, home, cancelled, verdict, request, crashes>>

Statuses == {"pending", "planning", "reviewing", "completed", "failed", "cancelled"}

(* RunStatus.is_terminal *)
Terminal == {"completed", "failed", "cancelled"}

(* Points where a task of the runner may be suspended in an await. *)
Interruptible == {"loading", "driving", "fetching", "driven", "persisted"}

Over == {"absent", "ended", "unstarted", "dropped"}

TypeOK ==
    /\ status \in Statuses
    /\ response \in {"none", "answer"}
    /\ jobs \in Nat
    /\ frames \in Seq({"run_completed", "error"})
    /\ checkpoints \in BOOLEAN
    /\ graph \in {"none", "running", "finished", "halted"} \cup (IF checkpoints THEN {"suspended"} ELSE {})
    /\ pc \in [Tasks -> {"created", "marking", "announcing"} \cup Interruptible \cup Over]
    /\ home \in [Tasks -> Workers]
    /\ cancelled \subseteq Tasks
    /\ verdict \in {"none", "answer", "interrupt", "nothing", "failed", "cancelled"}
    /\ request \in [Requests -> [on : Workers, saw : Statuses \cup {"unread", "done"}]]
    /\ crashes \in Nat

(* send_message has committed the run's row and created its task. *)
Init ==
    /\ status = "pending" /\ response = "none" /\ jobs = 0
    /\ frames = <<>>
    /\ checkpoints \in BOOLEAN
    /\ graph = "none"
    /\ pc = [t \in Tasks |-> IF t = Runner THEN "created" ELSE "absent"]
    /\ home \in [Tasks -> Workers]
    /\ cancelled = {}
    /\ verdict = "none"
    /\ \E on \in [Requests -> Workers] : request = [r \in Requests |-> [on |-> on[r], saw |-> "unread"]]
    /\ crashes = 0

Goto(t, label) == pc' = [pc EXCEPT ![t] = label]

(* A task that is not being cancelled goes on from label. *)
At(t, label) == pc[t] = label /\ t \notin cancelled

(* What the thread is once t no longer drives it: another driver goes on. *)
LeftBy(t) ==
    IF graph = "running" /\ \A u \in Tasks \ {t} : pc[u] # "driving" THEN "halted" ELSE graph
-----------------------------------------------------------------------------
(* execute_langgraph_run *)

RunnerBegins ==
    /\ At(Runner, "created")
    /\ Goto(Runner, "loading")
    /\ UNCHANGED <<row, frames, checkpoints, graph, home, cancelled, verdict, request, crashes>>

(* The row is read and PLANNING committed, whatever the status was. *)
Load ==
    /\ At(Runner, "loading")
    /\ status' = "planning"
    /\ graph' = "running"
    /\ Goto(Runner, "driving")
    /\ UNCHANGED <<response, jobs, frames, checkpoints, home, cancelled, verdict, request, crashes>>

(* Mutant: a gate suspends the graph although nothing can keep its state. *)
Drive_NothingKept ==
    /\ At(Runner, "driving")
    /\ graph' \in {"finished", "suspended"}
    /\ Goto(Runner, "fetching")
    /\ UNCHANGED <<row, frames, checkpoints, home, cancelled, verdict, request, crashes>>

(* astream_events comes to its end; only a checkpointed graph is suspended. *)
Drive ==
    /\ At(Runner, "driving")
    /\ \E outcome \in {"finished", "suspended"} :
          /\ outcome = "suspended" => checkpoints
          /\ graph' = outcome
    /\ Goto(Runner, "fetching")
    /\ UNCHANGED <<row, frames, checkpoints, home, cancelled, verdict, request, crashes>>

(* Mutant: a graph without an answer is taken for an interrupted one. *)
Fetched_NoAnswerIsInterrupt ==
    {"interrupt"} \cup (IF checkpoints /\ graph = "finished" THEN {"answer"} ELSE {})

(* aget_state: what the thread holds now, or nothing when there is no       *)
(* checkpointer or reading it fails.                                        *)
Fetched ==
    {"nothing"} \cup
    (IF ~checkpoints THEN {}
     ELSE CASE graph = "finished" -> {"answer"}
            [] graph = "suspended" -> {"interrupt"}
            [] OTHER -> {})

(* Mutant: RUN_COMPLETED is published before the outcome is committed. *)
Fetch_AnnouncesFirst ==
    /\ At(Runner, "fetching")
    /\ verdict' \in Fetched
    /\ frames' = Append(frames, "run_completed")
    /\ Goto(Runner, "driven")
    /\ UNCHANGED <<row, checkpoints, graph, home, cancelled, request, crashes>>

Fetch ==
    /\ At(Runner, "fetching")
    /\ verdict' \in Fetched
    /\ Goto(Runner, "driven")
    /\ UNCHANGED <<row, frames, checkpoints, graph, home, cancelled, request, crashes>>

(* Mutant: a suspended run is queued for learning as well. *)
JobsAfter_Always(outcome) == jobs + 1

JobsAfter(outcome) == IF outcome = "completed" THEN jobs + 1 ELSE jobs

(* The outcome is written over the row, whatever the row says by now. *)
Persist ==
    /\ At(Runner, "driven")
    /\ status' = IF verdict = "interrupt" THEN "reviewing" ELSE "completed"
    /\ response' = IF verdict = "answer" THEN "answer" ELSE "none"
    /\ jobs' = JobsAfter(status')
    /\ Goto(Runner, "persisted")
    /\ UNCHANGED <<frames, checkpoints, graph, home, cancelled, verdict, request, crashes>>

(* After the commit the learning job is queued and RUN_COMPLETED published, *)
(* for a suspended run too; failures of either are swallowed.  A frame that *)
(* Redis refuses has been published as far as the runner can tell; clients  *)
(* do without it (EventStream's lost).                                      *)
AnnounceCompleted ==
    /\ At(Runner, "persisted")
    /\ frames' = Append(frames, "run_completed")
    /\ Goto(Runner, "ended")
    /\ UNCHANGED <<row, checkpoints, graph, home, cancelled, verdict, request, crashes>>

(* Mutant: a failure to queue the learning job is not swallowed. *)
RunnerRaises_QueueToo ==
    /\ pc[Runner] \in {"loading", "driving", "driven", "persisted"} /\ Runner \notin cancelled
    /\ graph' = IF pc[Runner] = "driving" THEN LeftBy(Runner) ELSE graph
    /\ verdict' = "failed"
    /\ Goto(Runner, "marking")
    /\ UNCHANGED <<row, frames, checkpoints, home, cancelled, request, crashes>>

(* Loading, driving or persisting raises. *)
RunnerRaises ==
    /\ pc[Runner] \in {"loading", "driving", "driven"} /\ Runner \notin cancelled
    /\ graph' = IF pc[Runner] = "driving" THEN LeftBy(Runner) ELSE graph
    /\ verdict' = "failed"
    /\ Goto(Runner, "marking")
    /\ UNCHANGED <<row, frames, checkpoints, home, cancelled, request, crashes>>

(* Mutant: only Exception is caught, which CancelledError is not. *)
AfterCancel_Uncaught(label) == "ended"

(* Where CancelledError takes a runner that awaits at label: a task that    *)
(* has not begun runs no code at all, and the handlers do not guard         *)
(* themselves against a second cancellation.                                *)
AfterCancel(label) ==
    CASE label \in Interruptible -> "marking"
      [] label = "created" -> "unstarted"
      [] OTHER -> "dropped"

(* RUN_COMPLETED may have left before the await in publish is cancelled.    *)
RunnerCancelled ==
    /\ Runner \in cancelled /\ pc[Runner] \notin Over
    /\ cancelled' = cancelled \ {Runner}
    /\ Goto(Runner, AfterCancel(pc[Runner]))
    /\ verdict' = IF pc[Runner] \in Interruptible THEN "cancelled" ELSE verdict
    /\ graph' = IF pc[Runner] = "driving" THEN LeftBy(Runner) ELSE graph
    /\ \/ UNCHANGED frames
       \/ pc[Runner] = "persisted" /\ frames' = Append(frames, "run_completed")
    /\ UNCHANGED <<row, checkpoints, home, request, crashes>>

(* _mark_terminal: FAILED or CANCELLED is written over the row, *)
MarkTerminal ==
    /\ At(Runner, "marking")
    /\ status' = verdict
    /\ Goto(Runner, "announcing")
    /\ UNCHANGED <<response, jobs, frames, checkpoints, graph, home, cancelled, verdict, request, crashes>>

(* unless the database fails, and the exception leaves the task, *)
MarkFails ==
    /\ At(Runner, "marking")
    /\ Goto(Runner, "dropped")
    /\ UNCHANGED <<row, frames, checkpoints, graph, home, cancelled, verdict, request, crashes>>

(* and then ERROR is published. *)
AnnounceError ==
    /\ At(Runner, "announcing")
    /\ frames' = Append(frames, "error")
    /\ Goto(Runner, "ended")
    /\ UNCHANGED <<row, checkpoints, graph, home, cancelled, verdict, request, crashes>>
-----------------------------------------------------------------------------
(* resume_run_endpoint and resume_run: neither looks at the run's status.   *)

ResumeRequested(t) ==
    /\ t \in Resumers /\ pc[t] = "absent"
    /\ Goto(t, "created")
    /\ UNCHANGED <<row, frames, checkpoints, graph, home, cancelled, verdict, request, crashes>>

(* Without a checkpointer or a thread the call raises and is logged.  A     *)
(* suspended or halted thread goes on; one that is being driven already has *)
(* a second driver from here.                                               *)
ResumeBegins(t) ==
    /\ t \in Resumers /\ At(t, "created")
    /\ IF checkpoints /\ graph \notin {"none", "finished"}
       THEN graph' = "running" /\ Goto(t, "driving")
       ELSE Goto(t, "ended") /\ UNCHANGED graph
    /\ UNCHANGED <<row, frames, checkpoints, home, cancelled, verdict, request, crashes>>

(* The resumed graph finishes, meets another gate or raises.  Its state is  *)
(* returned to nobody: the row stays as it is and no terminal frame is sent. *)
ResumeEnds(t) ==
    /\ t \in Resumers /\ At(t, "driving")
    /\ graph' \in {"finished", "suspended", LeftBy(t)}
    /\ Goto(t, "ended")
    /\ UNCHANGED <<row, frames, checkpoints, home, cancelled, verdict, request, crashes>>

ResumeCancelled(t) ==
    /\ t \in Resumers \cap cancelled /\ pc[t] \notin Over
    /\ cancelled' = cancelled \ {t}
    /\ graph' = IF pc[t] = "driving" THEN LeftBy(t) ELSE graph
    /\ Goto(t, "ended")
    /\ UNCHANGED <<row, frames, checkpoints, home, verdict, request, crashes>>
-----------------------------------------------------------------------------
(* cancel_run *)

(* The row is read; other awaits follow before it is acted upon. *)
CancelReads(r) ==
    /\ request[r].saw = "unread"
    /\ request' = [request EXCEPT ![r].saw = status]
    /\ UNCHANGED <<row, frames, checkpoints, graph, pc, home, cancelled, verdict, crashes>>

LocalTasks(r) == {t \in Tasks : home[t] = request[r].on /\ pc[t] \notin Over}

(* A task of that name in this process is cancelled: the runner's or, since *)
(* they share the name, one that resumes the run.                           *)
CancelSignals(r) ==
    /\ request[r].saw \in Statuses
    /\ \E t \in LocalTasks(r) : cancelled' = cancelled \cup {t}
    /\ request' = [request EXCEPT ![r].saw = "done"]
    /\ UNCHANGED <<row, frames, checkpoints, graph, pc, home, verdict, crashes>>

(* Mutant: whatever was read, the row is marked. *)
Markable_Any(saw) == TRUE

(* A run that was terminal when it was read is left alone. *)
Markable(saw) == saw \notin Terminal

(* No such task here: the row is marked, on the strength of what was read.  *)
CancelMarks(r) ==
    /\ request[r].saw \in Statuses
    /\ LocalTasks(r) = {}
    /\ status' = IF Markable(request[r].saw) THEN "cancelled" ELSE status
    /\ request' = [request EXCEPT ![r].saw = "done"]
    /\ UNCHANGED <<response, jobs, frames, checkpoints, graph, pc, home, cancelled, verdict, crashes>>
-----------------------------------------------------------------------------
(* A process dies with its tasks and its uncommitted requests; another one  *)
(* takes its place and picks up nothing.                                    *)
Crash(w) ==
    /\ crashes < MaxCrashes
    /\ crashes' = crashes + 1
    /\ LET lost == {t \in Tasks : home[t] = w /\ pc[t] \notin Over}
       IN /\ pc' = [t \in Tasks |-> IF t \in lost THEN "dropped" ELSE pc[t]]
          /\ cancelled' = cancelled \ lost
          /\ graph' = IF graph = "running" /\ \A t \in Tasks \ lost : pc[t] # "driving"
                      THEN "halted" ELSE graph
    /\ request' = [r \in Requests |->
                     IF request[r].on = w /\ request[r].saw \in Statuses
                     THEN [request[r] EXCEPT !.saw = "done"] ELSE request[r]]
    /\ UNCHANGED <<row, frames, checkpoints, home, verdict>>

RunnerStep ==
    \/ RunnerBegins
    \/ Load
    \/ Drive
    \/ Fetch
    \/ Persist
    \/ AnnounceCompleted
    \/ RunnerRaises
    \/ RunnerCancelled
    \/ MarkTerminal
    \/ MarkFails
    \/ AnnounceError

ResumeStep(t) == ResumeBegins(t) \/ ResumeEnds(t) \/ ResumeCancelled(t)

Next ==
    \/ RunnerStep
    \/ \E t \in Resumers : ResumeRequested(t)
    \/ \E t \in Resumers : ResumeBegins(t)
    \/ \E t \in Resumers : ResumeEnds(t)
    \/ \E t \in Resumers : ResumeCancelled(t)
    \/ \E r \in Requests : CancelReads(r)
    \/ \E r \in Requests : CancelSignals(r)
    \/ \E r \in Requests : CancelMarks(r)
    \/ \E w \in Workers : Crash(w)

(* An event loop keeps running the tasks of a live process, and the graph's *)
(* runs end (DualLedger!ImplementsBoundedRun).  Nobody is obliged to cancel *)
(* or to approve.                                                           *)
Spec ==
    /\ Init /\ [][Next]_vars
    /\ WF_vars(RunnerStep)
    /\ \A t \in Resumers : WF_vars(ResumeStep(t))
-----------------------------------------------------------------------------
(* Properties *)

Settled == status \notin {"pending", "planning"}

(* A client told by a terminal frame that the run is over finds an outcome  *)
(* in its row: no frame overtakes the commit it announces; and a runner     *)
(* that ends in order has announced one (runner.py 165-216).                *)
OutcomeAnnounced ==
    /\ frames # <<>> => Settled
    /\ pc[Runner] = "ended" => Settled /\ frames # <<>>

(* A run is queued for learning once if it completes, and not at all if it  *)
(* failed or waits for an approval; a late cancellation does not unqueue it. *)
LearnedOnce ==
    /\ jobs <= 1
    /\ status = "completed" => jobs = 1
    /\ jobs = 1 => status \in {"completed", "cancelled"}

NoneResumed == \A t \in Resumers : pc[t] \in {"absent", "created"}

(* A run shown as awaiting approval is suspended in its checkpoints, and    *)
(* stays so until an approval arrives, whatever crashes.                    *)
ReviewingCanResume ==
    (status = "reviewing" /\ NoneResumed) => graph = "suspended"

(* A run seen completed or failed turns into nothing but a cancelled one.   *)
OutcomeKept ==
    [][(status \in {"completed", "failed"}) => status' \in {status, "cancelled"}]_vars

ActsOnStaleRead(r) ==
    request[r].saw \in Statuses \ Terminal /\ request'[r].saw = "done"

(* A request that finds the run terminal leaves it alone, so only one that  *)
(* read the row before the outcome was committed, or a signal to the        *)
(* runner's own task, cancels a run that has completed or failed.           *)
LateCancelIsARace ==
    [][(status \in {"completed", "failed"} /\ status' = "cancelled") =>
          pc[Runner] = "marking" \/ (\E r \in Requests : ActsOnStaleRead(r))]_vars

(* Every run is settled in the end unless its task never began, died with   *)
(* its process or was disturbed while it recorded the outcome.              *)
RunSettles == <>(Settled \/ pc[Runner] \in {"unstarted", "dropped"})

(* A cancellation that reaches a runner at work is recorded, whichever step *)
(* it meets.                                                                *)
CancellationLands ==
    (Runner \in cancelled /\ pc[Runner] \in Interruptible)
        ~> (status = "cancelled" \/ pc[Runner] = "dropped")

(* "Run marked cancelled" (api/v1/chat.py:177): a run that is reported as   *)
(* cancelled stays so.  Its task, in another process, is not told and       *)
(* writes its own outcome over the mark.                                    *)
CancelledStaysCancelled == [][status = "cancelled" => status' = "cancelled"]_vars
-----------------------------------------------------------------------------
(* The inductive invariant of RunLifecycleProofs *)

Undecided == {"created", "loading", "driving", "fetching", "driven"}

(* Until the runner records an outcome the row has none, except that of a   *)
(* cancellation, and nothing is queued or announced.                        *)
UndecidedIsBlank ==
    pc[Runner] \in Undecided =>
        status \in {"pending", "planning", "cancelled"} /\ jobs = 0 /\ frames = <<>>

(* A runner that has an outcome to announce has recorded it. *)
RecordedFirst == pc[Runner] \in {"persisted", "announcing"} => Settled

(* A runner that gives up knows why, and that it failed only if it had not  *)
(* recorded an outcome.                                                     *)
GivesUpForAReason ==
    pc[Runner] = "marking" => verdict \in {"failed", "cancelled"} /\ (verdict = "failed" => jobs = 0)

(* The interrupt that the runner has fetched is that of the thread, as long *)
(* as nothing resumes it.                                                   *)
InterruptStands ==
    (pc[Runner] = "driven" /\ verdict = "interrupt" /\ NoneResumed) => graph = "suspended"

(* Only what a checkpointer keeps is resumed. *)
ResumedIsKept == \A t \in Resumers : pc[t] = "driving" => checkpoints

IInv ==
    /\ TypeOK
    /\ UndecidedIsBlank
    /\ RecordedFirst
    /\ GivesUpForAReason
    /\ InterruptStands
    /\ ResumedIsKept
    /\ OutcomeAnnounced
    /\ LearnedOnce
    /\ ReviewingCanResume
=============================================================================
