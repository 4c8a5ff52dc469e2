------------------------- MODULE RunLifecycleProofs -------------------------
(***************************************************************************)
(* Theorems about RunLifecycle, for any number of processes, approvals,    *)
(* cancellation requests and crashes.                                      *)
(***************************************************************************)
EXTENDS RunLifecycle, SequenceTheorems, TLAPS

-----------------------------------------------------------------------------
(* Steps of a task *)

Labels == {"created", "marking", "announcing"} \cup Interruptible \cup Over

(* A step that takes a task to a label leaves the others where they are. *)
LEMMA GotoMoves ==
    ASSUME TypeOK, NEW t \in Tasks, NEW label \in Labels, Goto(t, label)
    PROVE  /\ pc' \in [Tasks -> Labels]
           /\ pc'[t] = label
           /\ \A u \in Tasks \ {t} : pc'[u] = pc[u]
BY DEF TypeOK, Goto, Labels

(* The runner is a task, and no resumer. *)
LEMMA TheTasks ==
    /\ Runner \in Tasks /\ Resumers \subseteq Tasks
    /\ \A t \in Resumers : t # Runner
BY RunAssumption DEF Tasks

(* The thread is left running by another driver, or halted. *)
LEMMA LeftByTyped ==
    ASSUME TypeOK, NEW t
    PROVE  /\ LeftBy(t) \in {graph, "halted"}
           /\ graph # "running" => LeftBy(t) = graph
BY DEF LeftBy

(* A terminal frame is appended. *)
LEMMA FramesGrow ==
    ASSUME TypeOK, NEW frame \in {"run_completed", "error"}
    PROVE  /\ Append(frames, frame) \in Seq({"run_completed", "error"})
           /\ Append(frames, frame) # <<>>
BY AppendProperties DEF TypeOK
-----------------------------------------------------------------------------
(* execute_langgraph_run *)

(* The runner begins, reads its row and drives the graph before it has an   *)
(* outcome.                                                                 *)
LEMMA RunnerBeginsKeeps == ASSUME IInv, RunnerBegins PROVE IInv'
<1>1. /\ pc' \in [Tasks -> Labels] /\ pc[Runner] = "created" /\ pc'[Runner] = "loading"
      /\ \A u \in Resumers : pc'[u] = pc[u]
  BY TheTasks, GotoMoves DEF IInv, RunnerBegins, At, Labels, Interruptible
<1>2. UNCHANGED <<status, response, jobs, frames, checkpoints, graph, home, cancelled, verdict,
                  request, crashes>>
  BY DEF RunnerBegins, row
<1>3. TypeOK'
  BY <1>1, <1>2 DEF IInv, TypeOK, Labels
<1> QED
  BY <1>1, <1>2, <1>3
  DEF IInv, UndecidedIsBlank, Undecided, RecordedFirst, GivesUpForAReason, InterruptStands,
      ResumedIsKept, OutcomeAnnounced, LearnedOnce, ReviewingCanResume, Settled, NoneResumed

(* Reading the row replaces no outcome but that of a cancellation. *)
LEMMA LoadKeeps == ASSUME IInv, Load PROVE IInv'
<1>1. /\ pc' \in [Tasks -> Labels] /\ pc[Runner] = "loading" /\ pc'[Runner] = "driving"
      /\ \A u \in Resumers : pc'[u] = pc[u]
  BY TheTasks, GotoMoves DEF IInv, Load, At, Labels, Interruptible
<1>2. /\ UNCHANGED <<response, jobs, frames, checkpoints, home, cancelled, verdict, request, crashes>>
      /\ status' = "planning" /\ graph' = "running"
  BY DEF Load, row
<1>3. TypeOK'
  BY <1>1, <1>2 DEF IInv, TypeOK, Labels, Statuses
<1> QED
  BY <1>1, <1>2, <1>3
  DEF IInv, UndecidedIsBlank, Undecided, RecordedFirst, GivesUpForAReason, InterruptStands,
      ResumedIsKept, OutcomeAnnounced, LearnedOnce, ReviewingCanResume, Settled, NoneResumed

(* A driven graph is suspended only where a checkpointer keeps it. *)
LEMMA DriveKeeps == ASSUME IInv, Drive PROVE IInv'
<1>1. /\ pc' \in [Tasks -> Labels] /\ pc[Runner] = "driving" /\ pc'[Runner] = "fetching"
      /\ \A u \in Resumers : pc'[u] = pc[u]
  BY TheTasks, GotoMoves DEF IInv, Drive, At, Labels, Interruptible
<1>2. /\ UNCHANGED <<status, response, jobs, frames, checkpoints, home, cancelled, verdict, request,
                     crashes>>
      /\ graph' = "finished" \/ (graph' = "suspended" /\ checkpoints)
  BY DEF Drive, row
<1>3. TypeOK'
  BY <1>1, <1>2 DEF IInv, TypeOK, Labels
<1> QED
  BY <1>1, <1>2, <1>3
  DEF IInv, UndecidedIsBlank, Undecided, RecordedFirst, GivesUpForAReason, InterruptStands,
      ResumedIsKept, OutcomeAnnounced, LearnedOnce, ReviewingCanResume, Settled, NoneResumed

(* An interrupt is fetched only of a suspended thread. *)
LEMMA FetchKeeps == ASSUME IInv, Fetch PROVE IInv'
<1>1. /\ pc' \in [Tasks -> Labels] /\ pc[Runner] = "fetching" /\ pc'[Runner] = "driven"
      /\ \A u \in Resumers : pc'[u] = pc[u]
  BY TheTasks, GotoMoves DEF IInv, Fetch, At, Labels, Interruptible
<1>2. UNCHANGED <<status, response, jobs, frames, checkpoints, graph, home, cancelled, request, crashes>>
  BY DEF Fetch, row
<1>3. verdict' \in {"nothing", "answer", "interrupt"} /\ (verdict' = "interrupt" => graph = "suspended")
  BY DEF Fetch, Fetched
<1>4. TypeOK'
  BY <1>1, <1>2, <1>3 DEF IInv, TypeOK, Labels
<1> QED
  BY <1>1, <1>2, <1>3, <1>4
  DEF IInv, UndecidedIsBlank, Undecided, RecordedFirst, GivesUpForAReason, InterruptStands,
      ResumedIsKept, OutcomeAnnounced, LearnedOnce, ReviewingCanResume, Settled, NoneResumed

(* The outcome of an undisturbed runner: one job if the run is completed,   *)
(* a suspended thread if it is to be reviewed.                              *)
LEMMA PersistKeeps == ASSUME IInv, Persist PROVE IInv'
<1>1. /\ pc' \in [Tasks -> Labels] /\ pc[Runner] = "driven" /\ pc'[Runner] = "persisted"
      /\ \A u \in Resumers : pc'[u] = pc[u]
  BY TheTasks, GotoMoves DEF IInv, Persist, At, Labels, Interruptible
<1>2. UNCHANGED <<frames, checkpoints, graph, home, cancelled, verdict, request, crashes>>
  BY DEF Persist
<1>3. /\ status' = IF verdict = "interrupt" THEN "reviewing" ELSE "completed"
      /\ response' \in {"none", "answer"}
      /\ jobs' = IF status' = "completed" THEN jobs + 1 ELSE jobs
  BY DEF Persist, JobsAfter
<1>4. TypeOK'
  BY <1>1, <1>2, <1>3 DEF IInv, TypeOK, Labels, Statuses
<1> QED
  BY <1>1, <1>2, <1>3, <1>4
  DEF IInv, UndecidedIsBlank, Undecided, RecordedFirst, GivesUpForAReason, InterruptStands,
      ResumedIsKept, OutcomeAnnounced, LearnedOnce, ReviewingCanResume, Settled, NoneResumed

(* The frames the runner ends with follow the commit. *)
LEMMA AnnounceCompletedKeeps == ASSUME IInv, AnnounceCompleted PROVE IInv'
<1>1. /\ pc' \in [Tasks -> Labels] /\ pc[Runner] = "persisted" /\ pc'[Runner] = "ended"
      /\ \A u \in Resumers : pc'[u] = pc[u]
  BY TheTasks, GotoMoves DEF IInv, AnnounceCompleted, At, Labels, Over
<1>2. /\ UNCHANGED <<status, response, jobs, checkpoints, graph, home, cancelled, verdict, request,
                     crashes>>
      /\ frames' \in Seq({"run_completed", "error"}) /\ frames' # <<>>
  BY FramesGrow DEF AnnounceCompleted, row, IInv
<1>3. TypeOK'
  BY <1>1, <1>2 DEF IInv, TypeOK, Labels
<1> QED
  BY <1>1, <1>2, <1>3
  DEF IInv, UndecidedIsBlank, Undecided, RecordedFirst, GivesUpForAReason, InterruptStands,
      ResumedIsKept, OutcomeAnnounced, LearnedOnce, ReviewingCanResume, Settled, NoneResumed

(* ERROR follows the commit of what _mark_terminal recorded. *)
LEMMA AnnounceErrorKeeps == ASSUME IInv, AnnounceError PROVE IInv'
<1>1. /\ pc' \in [Tasks -> Labels] /\ pc[Runner] = "announcing" /\ pc'[Runner] = "ended"
      /\ \A u \in Resumers : pc'[u] = pc[u]
  BY TheTasks, GotoMoves DEF IInv, AnnounceError, At, Labels, Over
<1>2. /\ UNCHANGED <<status, response, jobs, checkpoints, graph, home, cancelled, verdict, request,
                     crashes>>
      /\ frames' \in Seq({"run_completed", "error"}) /\ frames' # <<>>
  BY FramesGrow DEF AnnounceError, row, IInv
<1>3. TypeOK'
  BY <1>1, <1>2 DEF IInv, TypeOK, Labels
<1> QED
  BY <1>1, <1>2, <1>3
  DEF IInv, UndecidedIsBlank, Undecided, RecordedFirst, GivesUpForAReason, InterruptStands,
      ResumedIsKept, OutcomeAnnounced, LearnedOnce, ReviewingCanResume, Settled, NoneResumed

(* An exception is met before an outcome has been recorded. *)
LEMMA RunnerRaisesKeeps == ASSUME IInv, RunnerRaises PROVE IInv'
<1>1. /\ pc' \in [Tasks -> Labels] /\ pc[Runner] \in Undecided /\ pc'[Runner] = "marking"
      /\ \A u \in Resumers : pc'[u] = pc[u]
  BY TheTasks, GotoMoves DEF IInv, RunnerRaises, Labels, Undecided
<1>2. /\ UNCHANGED <<status, response, jobs, frames, checkpoints, home, cancelled, request, crashes>>
      /\ verdict' = "failed" /\ graph' \in {graph, "halted"}
  BY LeftByTyped DEF RunnerRaises, row, IInv
<1>3. TypeOK'
  BY <1>1, <1>2 DEF IInv, TypeOK, Labels
<1> QED
  BY <1>1, <1>2, <1>3
  DEF IInv, UndecidedIsBlank, Undecided, RecordedFirst, GivesUpForAReason, InterruptStands,
      ResumedIsKept, OutcomeAnnounced, LearnedOnce, ReviewingCanResume, Settled, NoneResumed

(* A cancellation may be met after the outcome has been recorded, and even  *)
(* announced.                                                               *)
LEMMA RunnerCancelledKeeps == ASSUME IInv, RunnerCancelled PROVE IInv'
<1>1. AfterCancel(pc[Runner]) \in {"marking", "unstarted", "dropped"}
      /\ (AfterCancel(pc[Runner]) = "marking" => pc[Runner] \in Interruptible)
  BY DEF AfterCancel
<1>2. /\ pc' \in [Tasks -> Labels] /\ pc[Runner] \notin Over
      /\ pc'[Runner] = AfterCancel(pc[Runner])
      /\ \A u \in Resumers : pc'[u] = pc[u]
  BY <1>1, TheTasks, GotoMoves DEF IInv, RunnerCancelled, Labels, Over
<1>3. /\ UNCHANGED <<status, response, jobs, checkpoints, home, request, crashes>>
      /\ cancelled' \subseteq cancelled
      /\ verdict' = IF pc[Runner] \in Interruptible THEN "cancelled" ELSE verdict
      /\ graph' \in {graph, "halted"}
      /\ pc[Runner] # "driving" => graph' = graph
  BY LeftByTyped DEF RunnerCancelled, row, IInv
<1>4. /\ frames' \in Seq({"run_completed", "error"})
      /\ frames' = frames \/ pc[Runner] = "persisted"
  BY FramesGrow DEF RunnerCancelled, IInv, TypeOK
<1>5. TypeOK'
  BY <1>2, <1>3, <1>4 DEF IInv, TypeOK, Labels
<1>6. pc[Runner] = "driving" => status # "reviewing"
  BY DEF IInv, UndecidedIsBlank, Undecided
<1> QED
  BY <1>1, <1>2, <1>3, <1>4, <1>5, <1>6
  DEF IInv, UndecidedIsBlank, Undecided, RecordedFirst, GivesUpForAReason, InterruptStands,
      ResumedIsKept, OutcomeAnnounced, LearnedOnce, ReviewingCanResume, Settled, NoneResumed

(* What _mark_terminal records is what the runner met. *)
LEMMA MarkTerminalKeeps == ASSUME IInv, MarkTerminal PROVE IInv'
<1>1. /\ pc' \in [Tasks -> Labels] /\ pc[Runner] = "marking" /\ pc'[Runner] = "announcing"
      /\ \A u \in Resumers : pc'[u] = pc[u]
  BY TheTasks, GotoMoves DEF IInv, MarkTerminal, At, Labels
<1>2. /\ UNCHANGED <<response, jobs, frames, checkpoints, graph, home, cancelled, verdict, request,
                     crashes>>
      /\ status' = verdict
  BY DEF MarkTerminal
<1>3. verdict \in {"failed", "cancelled"} /\ (verdict = "failed" => jobs = 0)
  BY <1>1 DEF IInv, GivesUpForAReason
<1>4. TypeOK'
  BY <1>1, <1>2, <1>3 DEF IInv, TypeOK, Labels, Statuses
<1> QED
  BY <1>1, <1>2, <1>3, <1>4
  DEF IInv, UndecidedIsBlank, Undecided, RecordedFirst, GivesUpForAReason, InterruptStands,
      ResumedIsKept, OutcomeAnnounced, LearnedOnce, ReviewingCanResume, Settled, NoneResumed

(* A runner that cannot record what it met announces nothing. *)
LEMMA MarkFailsKeeps == ASSUME IInv, MarkFails PROVE IInv'
<1>1. /\ pc' \in [Tasks -> Labels] /\ pc[Runner] = "marking" /\ pc'[Runner] = "dropped"
      /\ \A u \in Resumers : pc'[u] = pc[u]
  BY TheTasks, GotoMoves DEF IInv, MarkFails, At, Labels, Over
<1>2. UNCHANGED <<status, response, jobs, frames, checkpoints, graph, home, cancelled, verdict,
                  request, crashes>>
  BY DEF MarkFails, row
<1>3. TypeOK'
  BY <1>1, <1>2 DEF IInv, TypeOK, Labels
<1> QED
  BY <1>1, <1>2, <1>3
  DEF IInv, UndecidedIsBlank, Undecided, RecordedFirst, GivesUpForAReason, InterruptStands,
      ResumedIsKept, OutcomeAnnounced, LearnedOnce, ReviewingCanResume, Settled, NoneResumed
-----------------------------------------------------------------------------
(* resume_run *)

(* What a resumer does leaves the row, the frames and the runner alone. *)
LEMMA ResumerMoves ==
    ASSUME IInv, NEW t \in Resumers, NEW label \in Labels, Goto(t, label),
           UNCHANGED <<row, frames, checkpoints, home, verdict, request, crashes>>,
           cancelled' \subseteq cancelled,
           TypeOK => graph' \in {"none", "running", "finished", "halted"}
                                 \cup (IF checkpoints THEN {"suspended"} ELSE {}),
           label \in {"absent", "created"} => graph' = graph /\ pc[t] \in {"absent", "created"},
           label = "driving" => checkpoints
    PROVE  IInv'
<1>1. /\ pc' \in [Tasks -> Labels] /\ pc'[Runner] = pc[Runner] /\ pc'[t] = label
      /\ \A u \in Resumers \ {t} : pc'[u] = pc[u]
  BY TheTasks, GotoMoves DEF IInv
<1>2. UNCHANGED <<status, response, jobs, frames, checkpoints, home, verdict, request, crashes>>
  BY DEF row
<1>3. TypeOK'
  BY <1>1, <1>2 DEF IInv, TypeOK, Labels
<1>4. UndecidedIsBlank' /\ RecordedFirst' /\ GivesUpForAReason' /\ OutcomeAnnounced' /\ LearnedOnce'
  BY <1>1, <1>2
  DEF IInv, UndecidedIsBlank, Undecided, RecordedFirst, GivesUpForAReason, OutcomeAnnounced,
      LearnedOnce, Settled
<1>5. ResumedIsKept'
  BY <1>1, <1>2 DEF IInv, ResumedIsKept
<1>6. NoneResumed' => NoneResumed /\ graph' = graph
  BY <1>1 DEF NoneResumed
<1>7. InterruptStands' /\ ReviewingCanResume'
  BY <1>1, <1>2, <1>6 DEF IInv, InterruptStands, ReviewingCanResume
<1> QED
  BY <1>3, <1>4, <1>5, <1>7 DEF IInv

(* A resumer that is created has not touched the thread. *)
LEMMA ResumeRequestedKeeps == ASSUME IInv, NEW t \in Resumers, ResumeRequested(t) PROVE IInv'
BY ResumerMoves DEF ResumeRequested, IInv, TypeOK, Labels

(* One that begins drives a thread that is kept, or ends. *)
LEMMA ResumeBeginsKeeps == ASSUME IInv, NEW t \in Resumers, ResumeBegins(t) PROVE IInv'
<1>1. CASE checkpoints /\ graph \notin {"none", "finished"}
  BY <1>1, ResumerMoves DEF ResumeBegins, Labels, Interruptible
<1>2. CASE ~(checkpoints /\ graph \notin {"none", "finished"})
  BY <1>2, ResumerMoves DEF ResumeBegins, Labels, Over, TypeOK
<1> QED
  BY <1>1, <1>2

(* One that ends leaves a kept thread, suspended again perhaps. *)
LEMMA ResumeEndsKeeps == ASSUME IInv, NEW t \in Resumers, ResumeEnds(t) PROVE IInv'
<1>1. checkpoints /\ LeftBy(t) \in {graph, "halted"}
  BY LeftByTyped DEF IInv, ResumedIsKept, ResumeEnds, At
<1> QED
  BY <1>1, ResumerMoves DEF ResumeEnds, Labels, Over, IInv, TypeOK

(* One that is cancelled leaves the thread halted, or to another driver. *)
LEMMA ResumeCancelledKeeps == ASSUME IInv, NEW t \in Resumers, ResumeCancelled(t) PROVE IInv'
<1>1. LeftBy(t) \in {graph, "halted"}
  BY LeftByTyped DEF IInv
<1> QED
  BY <1>1, ResumerMoves DEF ResumeCancelled, Labels, Over, IInv, TypeOK
-----------------------------------------------------------------------------
(* cancel_run, and crashes *)

(* A request is moved by itself alone. *)
LEMMA RequestMoves ==
    ASSUME TypeOK, NEW r \in Requests, NEW saw \in Statuses \cup {"unread", "done"},
           request' = [request EXCEPT ![r].saw = saw]
    PROVE  /\ request' \in [Requests -> [on : Workers, saw : Statuses \cup {"unread", "done"}]]
           /\ request'[r].saw = saw
BY DEF TypeOK

(* Reading the row changes the request alone. *)
LEMMA CancelReadsKeeps == ASSUME IInv, NEW r \in Requests, CancelReads(r) PROVE IInv'
<1>1. UNCHANGED <<status, response, jobs, frames, checkpoints, graph, pc, home, cancelled, verdict,
                  crashes>>
  BY DEF CancelReads, row
<1>2. request' \in [Requests -> [on : Workers, saw : Statuses \cup {"unread", "done"}]]
  BY RequestMoves DEF CancelReads, IInv, TypeOK
<1>3. TypeOK'
  BY <1>1, <1>2 DEF IInv, TypeOK
<1> QED
  BY <1>1, <1>3
  DEF IInv, UndecidedIsBlank, Undecided, RecordedFirst, GivesUpForAReason, InterruptStands,
      ResumedIsKept, OutcomeAnnounced, LearnedOnce, ReviewingCanResume, Settled, NoneResumed

(* A signal waits for the task to meet it. *)
LEMMA CancelSignalsKeeps == ASSUME IInv, NEW r \in Requests, CancelSignals(r) PROVE IInv'
<1>1. UNCHANGED <<status, response, jobs, frames, checkpoints, graph, pc, home, verdict, crashes>>
  BY DEF CancelSignals, row
<1>2. request' \in [Requests -> [on : Workers, saw : Statuses \cup {"unread", "done"}]]
  BY RequestMoves DEF CancelSignals, IInv
<1>3. cancelled' \subseteq Tasks
  BY DEF CancelSignals, LocalTasks, IInv, TypeOK
<1>4. TypeOK'
  BY <1>1, <1>2, <1>3 DEF IInv, TypeOK
<1> QED
  BY <1>1, <1>4
  DEF IInv, UndecidedIsBlank, Undecided, RecordedFirst, GivesUpForAReason, InterruptStands,
      ResumedIsKept, OutcomeAnnounced, LearnedOnce, ReviewingCanResume, Settled, NoneResumed

(* A mark is a settled status that takes no part in learning or reviewing.  *)
LEMMA CancelMarksKeeps == ASSUME IInv, NEW r \in Requests, CancelMarks(r) PROVE IInv'
<1>1. /\ UNCHANGED <<response, jobs, frames, checkpoints, graph, pc, home, cancelled, verdict, crashes>>
      /\ status' \in {status, "cancelled"}
  BY DEF CancelMarks
<1>2. request' \in [Requests -> [on : Workers, saw : Statuses \cup {"unread", "done"}]]
  BY RequestMoves DEF CancelMarks, IInv
<1>3. TypeOK'
  BY <1>1, <1>2 DEF IInv, TypeOK, Statuses
<1> QED
  BY <1>1, <1>3
  DEF IInv, UndecidedIsBlank, Undecided, RecordedFirst, GivesUpForAReason, InterruptStands,
      ResumedIsKept, OutcomeAnnounced, LearnedOnce, ReviewingCanResume, Settled, NoneResumed

(* A crash drops tasks and halts the thread they drove; it undoes nothing   *)
(* that was committed.                                                      *)
LEMMA CrashKeeps == ASSUME IInv, NEW w \in Workers, Crash(w) PROVE IInv'
<1>1. TypeOK /\ Runner \in Tasks /\ Resumers \subseteq Tasks
  BY TheTasks DEF IInv
<1>2. /\ pc' \in [Tasks -> Labels]
      /\ \A t \in Tasks : pc'[t] \in {pc[t], "dropped"}
  <2>1. pc' = [t \in Tasks |-> IF t \in {u \in Tasks : home[u] = w /\ pc[u] \notin Over}
                               THEN "dropped" ELSE pc[t]]
    BY DEF Crash
  <2>2. pc \in [Tasks -> Labels] /\ "dropped" \in Labels
    BY <1>1 DEF TypeOK, Labels, Over
  <2> QED
    BY <2>1, <2>2
<1>3. /\ UNCHANGED <<status, response, jobs, frames, checkpoints, home, verdict>>
      /\ cancelled' \subseteq cancelled
      /\ graph' \in {graph, "halted"} /\ (graph # "running" => graph' = graph)
      /\ crashes' = crashes + 1
  BY DEF Crash, row
<1>4. request' \in [Requests -> [on : Workers, saw : Statuses \cup {"unread", "done"}]]
  <2>1. \A r \in Requests :
           [request[r] EXCEPT !.saw = "done"] \in [on : Workers, saw : Statuses \cup {"unread", "done"}]
    BY <1>1 DEF TypeOK
  <2> QED
    BY <2>1, <1>1 DEF Crash, TypeOK
<1>5. TypeOK'
  BY <1>1, <1>2, <1>3, <1>4 DEF TypeOK, Labels
<1> QED
  BY <1>1, <1>2, <1>3, <1>5
  DEF IInv, UndecidedIsBlank, Undecided, RecordedFirst, GivesUpForAReason, InterruptStands,
      ResumedIsKept, OutcomeAnnounced, LearnedOnce, ReviewingCanResume, Settled, NoneResumed
-----------------------------------------------------------------------------
(* The theorems *)

(* A run that has been created has no outcome. *)
LEMMA InitEstablishes == Init => IInv
<1> SUFFICES ASSUME Init
             PROVE  IInv
  OBVIOUS
<1>1. TypeOK
  BY EmptySeq DEF Init, TypeOK, Statuses, Over
<1>2. pc[Runner] = "created" /\ \A t \in Resumers : pc[t] = "absent"
  BY TheTasks DEF Init
<1> QED
  BY <1>1, <1>2
  DEF Init, IInv, UndecidedIsBlank, Undecided, RecordedFirst, GivesUpForAReason, InterruptStands,
      ResumedIsKept, OutcomeAnnounced, LearnedOnce, ReviewingCanResume, Settled, NoneResumed

(* Every step keeps the inductive invariant. *)
LEMMA StepKeeps == IInv /\ [Next]_vars => IInv'
<1> SUFFICES ASSUME IInv, [Next]_vars
             PROVE  IInv'
  OBVIOUS
<1>1. CASE RunnerStep
  BY <1>1, RunnerBeginsKeeps, LoadKeeps, DriveKeeps, FetchKeeps, PersistKeeps,
     AnnounceCompletedKeeps, RunnerRaisesKeeps, RunnerCancelledKeeps, MarkTerminalKeeps,
     MarkFailsKeeps, AnnounceErrorKeeps
  DEF RunnerStep
<1>2. ASSUME NEW t \in Resumers,
             ResumeRequested(t) \/ ResumeBegins(t) \/ ResumeEnds(t) \/ ResumeCancelled(t)
      PROVE  IInv'
  BY <1>2, ResumeRequestedKeeps, ResumeBeginsKeeps, ResumeEndsKeeps, ResumeCancelledKeeps
<1>3. ASSUME NEW r \in Requests, CancelReads(r) \/ CancelSignals(r) \/ CancelMarks(r)
      PROVE  IInv'
  BY <1>3, CancelReadsKeeps, CancelSignalsKeeps, CancelMarksKeeps
<1>4. ASSUME NEW w \in Workers, Crash(w)
      PROVE  IInv'
  BY <1>4, CrashKeeps
<1>5. CASE UNCHANGED vars
  BY <1>5
  DEF vars, row, IInv, TypeOK, UndecidedIsBlank, RecordedFirst, GivesUpForAReason, InterruptStands,
      ResumedIsKept, OutcomeAnnounced, LearnedOnce, ReviewingCanResume, Settled, NoneResumed
<1> QED
  BY <1>1, <1>2, <1>3, <1>4, <1>5 DEF Next

(* IInv is an inductive invariant of the run's life. *)
THEOREM Inductive == Spec => []IInv
BY InitEstablishes, StepKeeps, PTL DEF Spec

(* The row, the thread, the tasks and the requests keep their types; a      *)
(* thread is suspended only where a checkpointer keeps it (runner.py,       *)
(* chat.py: cancel_run, resume_run_endpoint).                               *)
THEOREM TypeCorrect == Spec => []TypeOK
<1>1. IInv => TypeOK
  BY DEF IInv
<1> QED
  BY <1>1, Inductive, PTL

(* However cancellations, exceptions and crashes fall, no terminal frame    *)
(* overtakes the commit of the outcome it announces, and a runner that ends *)
(* in order has announced one (runner.py: execute_langgraph_run).           *)
THEOREM OutcomeIsAnnounced == Spec => []OutcomeAnnounced
<1>1. IInv => OutcomeAnnounced
  BY DEF IInv
<1> QED
  BY <1>1, Inductive, PTL

(* A run is queued for learning once if it completes and never if it fails  *)
(* or waits (runner.py: execute_langgraph_run, _mark_terminal).             *)
THEOREM QueuedOnce == Spec => []LearnedOnce
<1>1. IInv => LearnedOnce
  BY DEF IInv
<1> QED
  BY <1>1, Inductive, PTL

(* A run that awaits approval is suspended in its checkpoints until one     *)
(* arrives, whatever crashes (runner.py: execute_langgraph_run, resume_run; *)
(* checkpointer.py).                                                        *)
THEOREM ReviewIsResumable == Spec => []ReviewingCanResume
<1>1. IInv => ReviewingCanResume
  BY DEF IInv
<1> QED
  BY <1>1, Inductive, PTL

(* A completed or failed run turns into nothing but a cancelled one: the    *)
(* runner writes an outcome over another only if it is cancelled after it   *)
(* recorded the first (runner.py: execute_langgraph_run, _mark_terminal).   *)
THEOREM OutcomeStays == Spec => OutcomeKept
<1> DEFINE Kept == status \in {"completed", "failed"} => status' \in {status, "cancelled"}
<1>1. ASSUME IInv, [Next]_vars
      PROVE  [Kept]_vars
  <2> SUFFICES ASSUME status \in {"completed", "failed"}
               PROVE  status' \in {status, "cancelled"}
    OBVIOUS
  <2>1. pc[Runner] \notin Undecided
    BY <1>1 DEF IInv, UndecidedIsBlank
  <2>2. CASE RunnerStep
    <3>1. CASE MarkTerminal
      <4>1. pc[Runner] = "marking" /\ status' = verdict
        BY <3>1 DEF MarkTerminal, At
      <4>2. verdict = "cancelled" \/ (verdict = "failed" /\ jobs = 0)
        BY <4>1, <1>1 DEF IInv, GivesUpForAReason
      <4>3. status = "completed" => jobs # 0
        BY <1>1 DEF IInv, LearnedOnce
      <4> QED
        BY <4>1, <4>2, <4>3
    <3>2. CASE RunnerStep /\ ~MarkTerminal
      BY <3>2, <2>1
      DEF RunnerStep, RunnerBegins, Load, Drive, Fetch, Persist, AnnounceCompleted, RunnerRaises,
          RunnerCancelled, MarkFails, AnnounceError, At, Undecided, row
    <3> QED
      BY <3>1, <3>2, <2>2
  <2>3. CASE ~RunnerStep
    BY <2>3, <1>1
    DEF Next, ResumeRequested, ResumeBegins, ResumeEnds, ResumeCancelled, CancelReads, CancelSignals,
        CancelMarks, Crash, row, vars
  <2> QED
    BY <2>2, <2>3
<1> QED
  BY <1>1, Inductive, PTL DEF Spec, OutcomeKept

(* A completed or failed run is cancelled only by the runner's own task or  *)
(* by a request that read the row before the outcome was committed          *)
(* (chat.py: cancel_run).                                                   *)
THEOREM LateCancelNeedsARace == Spec => LateCancelIsARace
<1> DEFINE Raced ==
        (status \in {"completed", "failed"} /\ status' = "cancelled") =>
            pc[Runner] = "marking" \/ \E r \in Requests : ActsOnStaleRead(r)
<1>1. ASSUME IInv, [Next]_vars
      PROVE  [Raced]_vars
  <2> SUFFICES ASSUME status \in {"completed", "failed"}, status' = "cancelled"
               PROVE  pc[Runner] = "marking" \/ \E r \in Requests : ActsOnStaleRead(r)
    OBVIOUS
  <2>1. status' # status
    OBVIOUS
  <2>2. CASE RunnerStep
    BY <2>1, <2>2
    DEF RunnerStep, RunnerBegins, Load, Drive, Fetch, Persist, AnnounceCompleted, RunnerRaises,
        RunnerCancelled, MarkTerminal, MarkFails, AnnounceError, At, row
  <2>3. ASSUME NEW r \in Requests, CancelMarks(r)
        PROVE  ActsOnStaleRead(r)
    <3>1. request[r].saw \in Statuses \ Terminal
      BY <2>1, <2>3 DEF CancelMarks, Markable
    <3>2. request'[r].saw = "done"
      BY <2>3, <1>1, RequestMoves DEF CancelMarks, IInv
    <3> QED
      BY <3>1, <3>2 DEF ActsOnStaleRead
  <2>4. CASE ~RunnerStep /\ ~\E r \in Requests : CancelMarks(r)
    BY <2>1, <2>4, <1>1
    DEF Next, ResumeRequested, ResumeBegins, ResumeEnds, ResumeCancelled, CancelReads, CancelSignals,
        Crash, row, vars
  <2> QED
    BY <2>2, <2>3, <2>4
<1> QED
  BY <1>1, Inductive, PTL DEF Spec, LateCancelIsARace
=============================================================================
