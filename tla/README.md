# Verification of Clever AI Teams in TLA+

This directory holds TLA+ models of the orchestration platform in `src/`, the
TLC configurations that check them on small instances, and proofs that TLAPS
checks for every value of the constants.

    tlc -workers 2 -config MCDualLedger.cfg MCDualLedger     # model-check a run
    tlapm DualLedgerProofs.tla                               # check the proofs

`PROJECT.json` lists the runs, the lines of source every definition stands
for, a mutation of the code for every checked property, the hazards the
properties are for, and the disagreements between documents and code.

## 1. Inventory

A *team* is drawn on a canvas as a graph of nodes (an orchestrator, specialists)
and review edges, and compiled to a DSL. A user message starts a *run*: a plan
of milestones is made, each is given to a specialist, its artifact goes through
reviews, and an answer is synthesised. The run streams its events to browsers
and is afterwards distilled into lessons by a worker.

| Component | State | Operations | Interacts with |
|---|---|---|---|
| Dual-ledger engine, `engine/{nodes,routers,state,factory}.py` | task ledger, progress ledger, `step_count`, LangGraph's position | seven node functions, four routers | models through the gateway; run driver; event bus |
| Run driver and control, `engine/{runner,checkpointer}.py`, `api/v1/chat.py` | run row, checkpoint thread, per-process registry of tasks | launch, drive, persist, fail, cancel, resume | engine, database, event bus, learning |
| Event stream, `services/event_bus.py`, SSE endpoints | Redis list of 500 frames, channel, one generator per client | publish, replay, subscribe, deliver | run driver, chat page |
| Classic orchestrator, `services/orchestrator.py` | the same ledgers, in one transaction | execute, replan, skip, time out | event bus, gateway, learning |
| Canvas lifecycle, `api/v1/graphs.py`, `services/graph_compiler.py` | canvas row, nodes and edges, DSL row, Redis copy | draft save, compile, publish, delete, load | sessions, run driver |
| Post-mortem learning, `worker.py`, `workers/learning.py` | job rows, Redis lock, lessons | enqueue, drain, sweep, retry | run driver, memory |
| Skill library, `services/skills.py` | skill rows, versions, counters | register, execute, promote, quarantine | agent runtime, sandbox |
| Agent runtime, `services/agent_runtime.py`, `persona.py` | conversation of one invocation | skill loop, approval gate, recovery | engine (person node), skills, memory |
| Memory, `services/memory.py` | working window, archival rows | append, compact, search | agent runtime, learning |
| Gateway and embeddings, sandbox and process pool | retries in flight; subprocesses | complete, embed; run | agent runtime, skills |
| Sessions, authentication, rate limiter, health, start and stop | rows, counters | CRUD, checks | everything behind the API |
| Chat page, canvas editor, other pages | React state, event source | load, switch, send; save, compile, publish | the API |

**What is hard here.** Runs are asyncio tasks of whichever API process accepted
them, but requests about a run (cancel, resume, stream) reach any process: the
row, the checkpoints and Redis are shared, the registry of tasks is not. Every
`await` is a point where a cancellation or another request comes in between, and
status tests are made on rows read before such awaits. Nothing looks for runs
whose process died (gunicorn also recycles workers, `max_requests`), so a crash
leaves what the last commit said. Publication to Redis may fail and is
swallowed. Inside a run, retries, stalls and replans are cycles in the graph that
only counters in the ledgers end, and three functions must agree on how
those count.

**What makes each component correct.**

- *Engine*: every run ends; rounds, replans and supersteps are bounded; only
  verified artifacts reach the answer, and each is the one a review accepted;
  reviewers take turns fairly; a retry is told the right critique; a replan does
  not lose verified work.
- *Run control*: an outcome is committed before it is announced; a completed run
  keeps its outcome and is learned from once; a cancellation that reaches a
  working runner is recorded; a suspended run can be resumed after a crash; runs
  settle.
- *Event stream*: frames in order, none twice; what a client misses is accounted
  for; the terminal frame releases the client.
- *Canvas*: a run executes only what was compiled, and with it a team of the shape the
  engines take for granted; what is offered for chat is what was validated, with its own node rows; the Redis copy follows the row;
  conversations disappear only when their deletion was asked for.
- *Learning*: a run's lessons are written once; jobs are retried a bounded number
  of times and never stuck; at most one drainer works on a job.
- *Classic engine*: the same budgets and the same end as the dual-ledger engine; no
  milestone is passed over; what the commit records has been announced, answer and
  learning job as one.
- *Skills and agent runtime*: statistics agree with the audit; promotion is earned and
  retirement lasts; behind the gate nothing unverified runs without an approval, used
  once and for the skill it was given for (the last does not hold, section 3).
- *Chat page*: what is shown belongs to the session selected.

`PROJECT.json` lists these hazards at their lines, with the properties that
cover them, or the reason why none does.

## 2. The modules

| Module | Models |
|---|---|
| `DualLedger` | one invocation of the engine's graph |
| `BoundedRun` | abstract: what any run promises the platform |
| `DualLedgerProofs` | theorems about `DualLedger` |
| `NativeOrchestrator` | one run of the classic engine, with its transaction and whoever cancels it |
| `NativeOrchestratorProofs` | theorems about `NativeOrchestrator` |
| `Sublists` | the part of a list that a filter keeps: milestones at a replan, in both engines, and the queue of jobs a drain reads |
| `EventStream` | the stream of one run and the clients attached to it |
| `EventStreamProofs` | theorems about `EventStream` |
| `RunLifecycle` | one run across API processes: driver, cancellation, resumption, crashes |
| `RunLifecycleProofs` | theorems about `RunLifecycle` |
| `GraphCompiler` | documents of the DSL and the errors `validate_dsl` finds in them |
| `GraphLifecycle` | one canvas: the requests that change it, sessions, the Redis copy, loads |
| `GraphLifecycleProofs` | theorems about `GraphLifecycle` |
| `PostMortem` | learning jobs and everything that drains them |
| `PostMortemProofs` | theorems about `PostMortem` |
| `SkillLibrary` | skill rows, statistics and audit, in database sessions |
| `AgentRuntime` | invocations of a person node, over `SkillLibrary` |
| `AgentRuntimeProofs` | theorems about `AgentRuntime` and the library under it |
| `MC*` | values of the constants for TLC |

### DualLedger

One action is one LangGraph superstep: a node function and the conditional edge
that leaves it, which is also what LangGraph checkpoints.

| Action | Code |
|---|---|
| `OrchestratorPlanner` | `nodes.orchestrator_planner`, `_normalise_plan`, `route_plan` |
| `DispatchSubtask` | `nodes.dispatch_subtask`, `route_dispatch` |
| `PersonNode` | the person node made by `nodes` for each specialist |
| `ReviewWaived`, `ReviewerRowMissing`, `DialecticalReview` | the exits of `nodes.dialectical_review`, `route_review` |
| `AdvanceMilestone`, `StallRecovery`, `OrchestratorSynthesizer` | the functions of those names |
| `NodeRaises` | an exception leaves a node that reads the database or calls a model |
| `RecursionLimitReached` | LangGraph's `GraphRecursionError` |

`task_ledger`, `progress_ledger` and `step_count` are the fields of the engine's
state that control reads. The model is the environment: every plan
`_normalise_plan` lets through is possible, with ids repeated or reused, and every
verdict, with or without a critique. An artifact's text is the number of the
round that produced it; so a property can say *which attempt* a stored artifact
or a quoted critique comes from. Two history variables record the rounds a review
accepted (`endorsed`) and who objected to the current milestone (`objectors`).
Token counts, prompts, memory and the events emitted are left out.

### EventStream

`Publish` is the Redis transaction (channel and list at once, or neither).
A client's generator is `Replay`, `YieldReplayed`, then `ReplayEnds` or `Subscribe`,
then `Deliver`; `Leave` is a disconnection or an exception. A frame is its number
and its event. `run` says who publishes: the runner (`PublishTerminal`,
`PublishLateError`) and, after a `Resume` at any moment, the resumed graph beside it,
which adds progress but no terminal frame. `LogExpires` is the list's TTL
of a day. Heartbeats carry nothing and are left out; the reconnection redis-py
makes of a lost subscription is not modelled.

### RunLifecycle

Each task is a program counter over the awaits of `execute_langgraph_run` and
`resume_run`; each request of `cancel_run` is what it has read. Committed
fields of the row change in one step, which the code justifies: sessions commit
on success, and SQLAlchemy writes only the columns a session changed. `graph`
abstracts the checkpointed thread to *none, running, finished, suspended* and
*halted* (left by whoever drove it). `cancelled` holds the tasks whose `cancel()`
has not yet been met by an await. A crash drops a process's tasks, and nothing
picks them up. What the graph does meanwhile is `DualLedger`; `Drive` keeps only
its outcomes. `frames` is what is handed to `EventBus.publish`; that Redis may refuse a
frame, which the runner does not learn, is `EventStream`'s `lost`.

### GraphCompiler

A document is a list of nodes (key and role), a list of edges and the key of its
orchestrator, as pydantic lets it in: keys may repeat, and edges may name what is
not there. `validate_dsl` gives the codes of the errors; warnings reject nothing and are
left out. `Reachable`, what the stack of the orphan search has visited at
its end, is the least set that no edge leaves, so it needs no recursion. `IsTeam` is what
the engines take for granted and never test again: the orchestrator is a node,
reviewers are other nodes, nothing is cut off.

### GraphLifecycle

Canvases are documents, `Valid` are those `compile_graph` materialises, and `NodesOf` are
the rows it writes for one.

Each request is a database transaction under READ COMMITTED, as `get_db` gives it:

| Action | Code |
|---|---|
| `Begin` | `_get_owned_graph` loads the row; the endpoint's refusals (`Admitted`) are decided on that copy |
| `ReadNodes` | `compile_graph` deletes the edges and reads the nodes |
| `Flush` | the first UPDATE of the row, which locks it (the sessions have `autoflush=False`) |
| `Invalidate` | `CacheService.delete`, before the commit; it may fail |
| `Commit`, `CommitPersona`, `OpenSession`, `Delete` | the commits of `update_graph`, `compile_graph`, `publish_graph`, `unpublish_graph`; `update_persona`; `create_session`; `delete_graph` |
| `RollBack` | an integrity error, a timeout or the process's end |
| `Hit`, `Miss`, `ReadRow`, `Fill` | `load_compiled_dsl`, one action between two awaits |
| `Expire` | the copy's TTL |

A request decides on the row it read and writes over the row it finds, and of
that only the columns it has changed (`Merged`): two requests that overlap can
leave a row that neither wanted. No row is locked when it is read, so the
model has every such overlap. The foreign keys of sessions and nodes, which have
no cascade in the database, are the guard `DeletionHolds`. Four
history variables say what happened on the way: `ready_ever` (DSLs committed as
compiled or published), `compilations`, `raced` (a request wrote over a row that had
changed since it read it) and `leaked` (a deletion of the copy failed, or a fill came
when the row had moved on or a compilation was about to commit). The last two
state the conditions under which a property is promised, and are set by
no more than what the code leaves unprotected.

### NativeOrchestrator

The classic engine is one asyncio task inside `asyncio.wait_for` and one database
transaction. A step is what the task does between two awaits at which it can be
cancelled or fail; `pc` names the awaits.

| Action | Code in `orchestrator.py` |
|---|---|
| `Begin`, `Plan`, `LeaveLoop` | the entry of `_execute_inner`, `_plan`, the loop's two tests |
| `Dispatch`, `AcceptUnreviewed`, `AskReview`, `Approve`, `Revise` | `_execute_milestone`, `_review`, `_reviewer_nodes_for` |
| `TryAgain`, `Skip`, `Replan`, `PlanAgain` | a milestone whose node has no row; the revised plan |
| `Synthesize`, `Announce`, `Commit` | the answer with its job, the frame, the commit of `execute_run`'s session |
| `Raise`, `AnnounceFailure` | an exception in the body, its handler |
| `Meet`, `AnnounceCancellation`, `AnnounceTimeout` | a `CancelledError` at an await, its handlers inside and outside `wait_for` |
| `CancelHere`, `TimeOut` | a user's cancellation in the run's process, the timeout: both set `unmet` |
| `ReadElsewhere`, `MarkElsewhere` | `cancel_run` in another process; its UPDATE waits for the run's row lock |
| `Lose` | the process dies, or the database fails the session |
| `PublishCutShort` | part of `Meet` and `Lose`: the frame under publication has reached Redis, or has not |

`draft` is the row as the task's session holds it, `row` as everybody else reads it;
both carry whether the answer and the learning job are there. `frames` holds the
terminal frames only, named for the outcome they announce. `milestones`, `index`, `steps`, `failures` and `replans`
are the loop's variables; artifacts, prompts and costs are left out. Every node
that a DSL names may have lost its row (`present`).

### PostMortem

A drain is one transaction under READ COMMITTED: `ReadBatch` reads without a lock,
`Process` flushes a job (and then holds its row), `Commit` ends the batch. `mode` is the
deployment's: pollers in the API, an arq worker, or neither. `Poll` is
the embedded loop, with the Redis lock, the deletion of a lock whoever has set it
(`Finish`) and its TTL (`Expire`); `ReadOne` is the arq task of one run, `Sweep` the
cron job or an administrator's call of `/drain`, the only drain where there is neither
poller nor worker. `RollBack` and `Crash` lose the whole
batch. `stale`, `partial` and `leaked` are history: a job processed on a row that had
changed since it was read, a failed attempt that left lessons behind, a lock that was no
protection.

### SkillLibrary and AgentRuntime

A database session of `SkillLibrary` keeps copies of the rows it has loaded (`view`),
counts in them, and flushes the columns that changed (`wrote`), which locks the row until
`Publish` or `Close`; that is SQLAlchemy's identity map, and why two executions of one
skill can lose an update. `Execute` is `SkillService.execute` with the outcomes of
`run_in_sandbox` (the Docker backend fails over to a subprocess). `Register`,
`Deprecate` and the `Call` actions are the endpoints.

`AgentRuntime` is one invocation of a person node in such a session: `Assemble`
(persona and skill search), `Ask`, `AskUnknown`, `RunSkill` and `Answer` (the skill loop),
`Suspend`, `Decide` and `PassGate` (the approval gate: `interrupt()` raises, the node
runs again from its start and its gates take the verdicts in order), `Rewrite` and
`Record` (the constitutional audit, whose failures `AuditFails` counts whether a rewrite or
the final refusal follows, and the commit), `Fail`. What a suspended execution
had flushed is lost with its session. `unverified` is history: the unverified skills that an
execution of the node has run behind its gate, in order, each with the number of gates
passed by then, so that a run can be held against the verdict it rests on. `Completions` and `Audits` are the gateway
as it looks from here.

How they compose: a `load` of `GraphLifecycle` that is *executing* is a run that
`RunLifecycle` drives from then on, with the DSL it has found. `RunLifecycle!Drive` ends
because `DualLedger` implements `BoundedRun`, whose specification says that a run ends;
`NativeOrchestrator` implements the same specification, so what rests on it holds under
either setting of `ORCHESTRATION_ENGINE`. Its outcomes, and those of `RunLifecycle`, are
the jobs that `Arrive` in `PostMortem`. An `AgentRuntime` invocation is one
`DualLedger!PersonNode`, and its `Suspend` is what leaves a thread *suspended* in
`RunLifecycle`. `EventStream`'s publisher emits the sequences of terminal frames that
`RunLifecycle` can produce, with resumptions adding none.

## 3. The runs

| Run | Result | What it shows |
|---|---|---|
| `dual_ledger` | passes | whatever plans and verdicts come, budgets hold, only verified and endorsed artifacts are synthesised, reviewers take turns unless a retry changes hands, the run ends, and `BoundedRun` is implemented |
| `verified_redone` | violated | a replan that reuses the id of a verified milestone reopens it |
| `event_stream` | passes | frames in order and once; the misses are accounted for; the outcome releases |
| `late_join` | violated | a frame published between replay and subscription is lost to the client |
| `run_lifecycle` | passes | outcomes are committed before they are announced, kept, learned from once; runs settle |
| `cancelled_stays` | violated | a run marked cancelled by another process is completed over the mark |
| `graph_lifecycle` | passes | runs execute only what was compiled; unless edits raced or the copy leaked, they execute proper teams, and rows and copy agree with the canvas; conversations go only by force |
| `native_orchestrator` | passes | no milestone is left behind; what is committed was announced last, with answer and job as one (not the converse); `BoundedRun` is implemented, whichever rows are missing and whoever cancels or times out |
| `post_mortem` | passes | every job is settled wherever something drains; lessons are written twice only through causes the code leaves open |
| `agent_runtime` | passes | behind the gate every run of an unverified skill has an approval of its own, perhaps one given for another skill, however often the node is executed again; statistics never exceed the audit; retired skills stay retired but for stale sessions |
| `approval_strays` | violated | an unverified skill runs on the approval of another one |
| `draft_executed` | violated | runs start on a canvas that is a draft again |

**Bounds.** *DualLedger*: three specialists (one with three reviewers, who are the orchestrator
and the two others, one with one, one with none), three ids, plans of one or two
milestones, `MaxSteps` 7, two revisions, a stall limit of 3. That is enough for a
milestone to be accepted, retried, exhausted with and without a stall, replanned twice,
for a retry to go to a namesake's producer, and for the budget to run out in the middle
of each; a third replan would be reached by the mutant that allows it. Three reviewers
for three attempts, because a shorter rotation comes round whatever turn it begins
with. One
recursion limit suffices and one does not, so both branches of `LimitSuffices`
occur. *EventStream*: five publications against a list of three, so the list is
trimmed and every order of replay, subscription, terminal frame, second terminal
frame and resumption, beside the runner or after it, occurs; one client suffices because clients neither read one
another's state nor change the publisher's. *RunLifecycle*: two processes, one
approval (which already gives two drivers of one graph), two cancellations (so
that one may meet the handling of the other) and one crash. *GraphLifecycle*: two
teams of two nodes that share their lead, so that a rebuild keeps, adds and removes rows
(one holds together by a review edge only), and one canvas whose only error is a
reviewer that is no node of it; three requests of any kind, so that a third sees
what the overlap of two has left (a lost update needs two, a publication of it a
third); two loads, so that one fills the copy and the other uses it. Requests
and loads are interchangeable and no liveness is checked there, so symmetry is sound.
*NativeOrchestrator*: a specialist that is reviewed and one that is not, with the rows of
either possibly missing, so milestones are accepted, revised, exhausted, retried, skipped and
replanned twice; `MaxSteps` 3 with two revisions runs out in the middle of a milestone.
Cancellations in the run's process, one elsewhere, one timeout and one loss come at any
moment, in any order. *PostMortem*: two jobs, so that a batch holds more than one, one of
them skipped; two pollers for the lock, a sweep to overlap with the tasks of single runs;
`MaxAttempts` is the code's 3, one transaction fails or crashes. *AgentRuntime*: one
invocation and one request that share two skills, two rounds, two verdicts and two
executions: enough for an execution to be repeated after a verdict, to ask for the other
skill then, and for two sessions to count on one row. Thresholds are 2 instead of 3 and
5, so that promotion and quarantine both happen. Nothing there is about time, and the skills
are interchangeable, so symmetry is sound.

**Deadlock** is not checked: every one of these systems stops.

**Fairness.** `WF(Next)` in `DualLedger`: the runner's task iterates the graph's
stream to its end and model calls have a timeout, so a step that can be taken is;
which step is left to the environment. `EventStream`: the event loop drives a
connected client's generator (`WF(Serve(c))`); nothing is assumed of the
publisher, so a client of a silent run waits. `RunLifecycle`: an event loop runs
the tasks of a live process; nobody is obliged to cancel or approve, and
crashes may always happen, up to the bound. `NativeOrchestrator`: the event loop runs the
task (`WF(TaskStep)`); that a cancellation, a timeout or a loss comes is not assumed.
`PostMortem`: a transaction that has begun goes on, processes poll, the cron job
runs and a key with a TTL expires; nobody has to call `/drain`, so without pollers and
worker nothing is promised to settle; `ReadOne` has no fairness, for the enqueue of a
task may fail: the sweep is what settles its job. `AgentRuntime` has no liveness
property and assumes nothing.

**Violations and what they mean**

- `VerifiedNeverRedone`: ids come from the model, plans are not made distinct, and
  ledger updates rewrite every milestone with the id. Where ids are
  distinct, `VerifiedStays` holds.
- `LateJoinSafe`: `subscribe()` reads the list and then subscribes. If the frame in
  between is the terminal one, the client is given heartbeats without end.
- `CancelledStaysCancelled`: `cancel_run` outside the run's process changes the
  row only; the runner never reads it again.
- `DraftIsNotExecuted`: `update_graph` does not delete the Redis copy and
  `load_compiled_dsl` uses a copy whatever the row says, so sessions of a canvas
  that is a draft again go on starting runs on the DSL compiled before, until the
  copy expires. The comment beside the code calls such a canvas "no longer safe to
  execute until it is recompiled". `OnlyOnceReady` is what does hold.
- `OnlyApprovedSkillsRun`: a suspended person node is executed again from its start, the
  model may ask for something else then, and `interrupt()` hands out verdicts by their
  order. So one skill runs on the approval of another, where the comment beside the gate
  says "unverified (candidate) code must be approved before it reaches the sandbox"
  (`services/agent_runtime.py:190-191`). What does hold is `EachRunHasAnApproval`: no run
  without a verdict that approved, and none of an execution's runs on the same one.

**Where documents say otherwise.** These have no violated run of their own: a property of a
passing run states what the code does instead.

- The DSL calls `max_steps` a "Hard limit on inner-loop iterations" (`schemas/dsl.py:162`).
  `route_review` sends a rejected milestone back without testing it (`routers.py:71`), so the
  bound is `max_steps + max_review_iterations` (`StepBudget`, proved), in the classic engine
  as well.
- Only one drainer is said to be active (`documents/05-orchestration-engine.md:137`,
  `documents/02-architecture.md:57-58`, `workers/learning.py:11-13`). The lock is exclusive
  only while it neither expires under a batch (120 seconds for up to five model calls) nor
  Redis fails, and a drain deletes a lock that is no longer its own. The arq tasks and the
  sweep take no lock. `LearnedTwiceNeedsACause` names what follows from it.
- The rotation of reviewers (`documents/05-orchestration-engine.md:107`) skips some of them
  where a retry changes hands: a revised plan may give an open milestone the id of a verified
  one whose producer is somebody else, the retry is looked up by id and goes to that producer,
  and its reviewers begin at the turn of the attempt, which is not the first. So
  `RotationIsFair` says *unless it `ChangesHands`*. The attempt to prove it without that
  condition is what showed this; a smaller team never did.
- The module's docstring (`graph_compiler.py:6-7`) has specialists reachable by dispatch and
  collaboration edges. The orphan search follows the edges of every channel: a node that only
  reviews is no orphan (`GraphCompiler!Reachable`).

**Other behaviour the models show.** A team that uses its
whole budget needs `4 * (max_steps + max_review_iterations) + 4` supersteps: for the
DSL's defaults (40 and 3) that is 176, more than the default
`LANGGRAPH_RECURSION_LIMIT` of 150. A suspended run publishes `RUN_COMPLETED`, so
whoever re-attaches is disconnected after the replay. A resumed run's
state is returned to nobody: its row stays `reviewing`. A run is committed as
completed without an answer when checkpointing is disabled or reading the final
state fails. A task cancelled before its first step leaves its run `pending`. A publication
that overlaps with a draft save publishes a DSL nobody validated, with the node rows
of the one before, and runs execute it without another look (why `ReadyIsMaterialised`
and `OnlyTeamsExecute` say *unless raced*). Two overlapping
compilations give one version number twice, or a lower one to the later. The copy
is deleted before the compilation commits, so a load in between puts the old DSL
back for the TTL of an hour.

A classic run that times out publishes two ERROR frames, and its row, `timeout`, is committed
with whatever had been flushed before; if the timeout fires while the completion is being
announced, with the answer and the job; an earlier frame may say *completed* then.
A user's cancellation of a classic run, in
the run's process, rolls everything back: the row stays `pending`, whatever the frames
said, which may be *cancelled*, *completed* and then *cancelled* if the cancellation meets that
publication, or *completed* alone if it meets the commit. A database failure leaves a *completed* frame beside a pending row in the same way,
or ends the run without any. The branch of the classic loop that passes over settled
milestones is never taken (`NothingLeftBehind`). With background workers turned off nobody drains the learning
queue but an administrator. A skill's smoke test is given `{}`, so a
distilled skill that passes is registered as verified and never meets the approval gate.
Skill executions before an interrupt are rolled back from audit and statistics and run
again. The execution endpoint does not ask for a skill's status. A stale session's promotion
can write over a deprecation. An execution that fails over from Docker may run the code
twice. A final refusal is counted among `constitution_retries`, which therefore reach one
more than the rewrites allowed. The classic engine gives the agent runtime no gate.

**What the conditions in the properties mean.** Some properties of passing runs name the
failures they do not exclude: *raced*, *leaked*, *lost*, *stale*, *partial*, *dropped*,
*unstarted*, *cancelled*. Such a property says that nothing else can break what it promises;
the failure itself is behaviour of the code and is listed above. `PROJECT.json` says at each
hazard which part of it a property covers.

## 4. The proofs

Every safety invariant and every action property that a passing run checks is also a
theorem, for every value of the constants that satisfies the named assumption of the
module; so is the safety part of the two refinements. Each inductive invariant
was an invariant of the module's run before it was proved. In each
`*Proofs` module the lemmas about data come first, then one lemma per action (or per
conjunct and group of actions), then the theorems, closed by PTL.

### DualLedgerProofs

`DualLedgerProofs` proves for every team, plan, bound and limit that satisfies
`DSLAssumption` (the ranges that the DSL's schema enforces):

| Theorem | States |
|---|---|
| `Inductive` | `Spec => []IInv` |
| `TypeCorrect` | `Spec => []TypeOK` |
| `StepsBounded` | `Spec => []StepBudget` |
| `ReplansBounded` | `Spec => []ReplanBudget` |
| `RecursionLimitSuffices` | `Spec => []LimitSuffices` |
| `RefinesBoundedRun` | `Spec => Abstract!Safety` |
| `ArtifactsInductive` | `Spec => []ArtifactInv` |
| `AnswerIsEarned` | `Spec => []SynthesisIsEarned` |
| `AnswerFromVerified` | `Spec => []OnlyVerifiedArtifacts` |
| `VerifiedAreEndorsed` | `Spec => []VerifiedWasEndorsed` |
| `RotationSkipsNobody` | `Spec => []RotationIsFair` |
| `CritiqueIsCurrent` | `Spec => []CritiqueMatchesAttempt` |
| `VerifiedKept` | `Spec => VerifiedStays` |

`StepBudget` is not inductive: dispatching a retry adds a round whatever
`step_count` says. It follows from how rounds and attempts relate, which is what
`IInv` adds, each conjunct needed by the next:

1. `HasWork`: in the loop some milestone needs work, and once tried it stays the
   first that does, so a dispatch is a retry exactly when the router meant one.
2. `AttemptBound`: a retry is dispatched only at `attempt <= MaxReviews`, and
   planning starts from attempt 0.
3. `BeganInBudget`: `step_count - attempt < MaxSteps` while a milestone is worked on:
   `route_plan` tests the budget when a milestone begins, and rounds and
   attempts then grow together. With 2 this gives `StepBudget`.
4. `ReplanBookkeeping`: stalls and replans alternate, which gives `ReplanBudget`.
5. `SuperstepBudget`: each superstep is charged to a round (four of them) or to a
   replan, node by node. With `StepBudget` and `ReplanBudget` it gives `LimitSuffices`.

The refinement maps `step_count` to rounds and `stall_count`, not `replan_count`, to
replans: the decision to plan again is `StallRecovery`'s, the counter moves a step later.

`ArtifactInv` is inductive on top of `IInv`. What it adds to the four properties of
artifacts and reviews (the fifth, `OnlyVerifiedArtifacts`, follows from
`ArtifactsAccountedFor`) is what makes ids that repeat harmless, or shows where they are not:

1. `CurrentInProgress`: a milestone under work and all its namesakes are *in progress*, and
   one of them is assigned to whoever works on it. So what a review settles is settled
   for all of them, and `VerifiedStays` needs an exception for open namesakes only.
2. `ArtifactsAccountedFor`: an artifact that is not a verified milestone's belongs to a
   namesake reopened by a dispatch; it is verified again or dropped before an answer is written.
3. `AdvanceIsDecided`: a milestone is advanced only if a review accepted the
   artifact at hand, or no attempt is left. This is `VerifiedWasEndorsed`'s step.
4. `ObjectionsKept`: turn by turn, every reviewer whose turn has come has objected, unless
   the milestone `ChangesHands`. Without that condition it is false (section 3).

### GraphLifecycleProofs

`GraphLifecycleProofs` proves for any canvases, requests and loads, under
`CanvasAssumption` (canvases are documents of the DSL, of any size, and `None` is no one):

| Theorem | States |
|---|---|
| `Inductive` | `Spec => []IInv` |
| `TypeCorrect` | `Spec => []TypeOK` |
| `ReadyCanvasesAreMaterialised` | `Spec => []ReadyIsMaterialised` |
| `VersionsCount` | `Spec => []VersionCountsCompilations`, which no run checks |
| `OnlyTeamsAreExecuted` | `Spec => []OnlyTeamsExecute` |
| `RunsExecuteOnceReady` | `Spec => []OnlyOnceReady` |
| `CopiesAreCurrent` | `Spec => []CopyIsCurrent` |
| `HistoryKept` | `Spec => HistoryIsKept` |

What has to be added to these to make them inductive is what requests
under way know:

1. `Drawn`: a drawn canvas is never blank again, and a request that publishes has seen
   a ready one. Without it a merged row could be ready and blank, which would break
   even `TypeOK` for the load that reads it.
2. `OnceReady`: between reading the row and using it a load holds a DSL that was
   ready then; so a late fill writes nothing worse into the copy.
3. `SawInOrder`: without races versions only grow, so a compilation whose version is
   still the latest has read the node rows that are there: what it rebuilds from
   them are exactly its own.
4. `GapIsEmpty`: after a compilation's invalidation there is no copy until it commits,
   unless something leaked; hence `CopyIsCurrent` when it does.
5. `OnlyValidatedReady`: without races only valid documents have ever been ready. With
   `ValidIsTeam` (a document without errors is a team) this is `OnlyTeamsExecute`.

`HistoryKept` rests on an invariant of its own, `DeletionCounted`: a deletion that was not
forced has counted no sessions, and the foreign keys let it delete no others.
`TeamsHaveEdges` says that a valid team of more than one node has edges, which is
why `ReadNodes` takes their lock.

### NativeOrchestratorProofs

`NativeOrchestratorProofs` proves for every team, set of missing rows, plan and budget, under
`TeamAssumption` (the ranges of the DSL's schema; reviewers are nodes), and for
cancellations, timeouts and losses at any moment:

| Theorem | States |
|---|---|
| `Inductive` | `Spec => []IInv` |
| `TypeCorrect` | `Spec => []TypeOK` |
| `NothingIsLeftBehind` | `Spec => []NothingLeftBehind` |
| `RecordWasAnnounced` | `Spec => []RecordedWasAnnounced` |
| `RefinesBoundedRun` | `Spec => Abstract!Safety` |

The invariant has two halves, each inductive with the labels alone, so that no step has
to be looked at twice:

1. The plan. `NothingLeftBehind` needs `Untouched` (a milestone after the current one is as
   it was planned, and the current one exists while it is worked on): when the
   index moves on it meets a pending milestone. A replan puts it just past the
   verified milestones it keeps, whose number is the cardinality of a set; the lemmas
   `KeptFacts` and `PlanFacts` say what the concatenation holds. `InBudget` relates steps
   and attempts; with it a revision stays within `MaxSteps + MaxReviews`.
2. The record. `RecordedWasAnnounced` relates the committed row to the frames, in that direction
   only: what is announced may be lost. `Tracked` says on the way what the
   session holds before each frame, that nothing of it is visible before
   the commit, and that outside `wait_for` only a user's cancellation can be under way.

In the refinement a run is *done* only if it has returned with a completed draft; the
moment it has failed is the handler's first step, and a commit that fails after the
completion was announced is a failed run, whatever its frames said.

### EventStreamProofs

Proved for any clients, any cap of the list and any number of frames
(`StreamAssumption`: the cap is positive):

| Theorem | States |
|---|---|
| `Inductive` | `Spec => []IInv` |
| `TypeCorrect` | `Spec => []TypeOK` |
| `ServedInOrderOnce` | `Spec => []InOrderOnce` |
| `MissedIsTheGap` | `Spec => []OnlyTheGapIsMissed` |
| `LiveUntilTerminal` | `Spec => []LiveStopsAtTerminal` |

The properties speak of what a client has been or will be given (`Stream`). To follow it
from the list to the client one has to know:

1. `LogIsSuffix`: the list holds frames in order and without a gap, save those Redis did not
   take. A trim and the expiry take the oldest, so both keep it.
2. `OnlyPublished`: what has been handed out has been published; a new frame is therefore
   later than all of it, and appending keeps the order.
3. `ReplayIsComplete`: while a client replays it lacks nothing between its first frame
   and the last one that had been published when its replay was read (`snapped`). When it
   subscribes, the gap up to `since` is all it can lack; from then on every frame Redis
   takes is appended, which is `OnlyTheGapIsMissed`.

### RunLifecycleProofs

Proved for any API processes, resumptions, cancellation requests and crashes, with or without
a checkpointer (`RunAssumption`: a runner is no resumption):

| Theorem | States |
|---|---|
| `Inductive` | `Spec => []IInv` |
| `TypeCorrect` | `Spec => []TypeOK` |
| `OutcomeIsAnnounced` | `Spec => []OutcomeAnnounced` |
| `QueuedOnce` | `Spec => []LearnedOnce` |
| `ReviewIsResumable` | `Spec => []ReviewingCanResume` |
| `OutcomeStays` | `Spec => OutcomeKept` |
| `LateCancelNeedsARace` | `Spec => LateCancelIsARace` |

1. `UndecidedIsBlank`: before the runner has recorded an outcome, nothing is queued or
   announced and the row says at most that the run was cancelled.
2. `RecordedFirst` and `GivesUpForAReason`: at the awaits after the commit there is an
   outcome; in `_mark_terminal` the verdict says which, and *failed* only where no job was queued:
   once a completion is committed only a cancellation leads there.
3. `InterruptStands` and `ResumedIsKept`: from reading the interrupt to the commit of
   `reviewing` the thread stays suspended unless somebody resumes it, and only what a
   checkpointer keeps can be. This is `ReviewingCanResume` one step early.

The two action properties follow from the invariant action by action.

### PostMortemProofs

Proved for any jobs, pollers, sweepers, batch size and number of attempts, in either
deployment or none, under `LearningAssumption` (attempts and batches are positive; actors are distinct
from no one):

| Theorem | States |
|---|---|
| `Inductive` | `Spec => []IInv` |
| `TypeCorrect` | `Spec => []TypeOK` |
| `TwiceForACause` | `Spec => []LearnedTwiceNeedsACause` |

1. `AttemptLeft`: what is queued, has been read or will be queued again has an attempt left;
   even the types need it, since a drain that overlaps counts from what it read.
2. `OneWriter`: an open transaction holds the rows it has written. So a row's commit adds the
   lessons of one attempt, and what others have written stays what it was.
3. `ReplacesQueued` and `LessonsComplete`: lessons complete their job, and what is written
   replaces a queued row unless it was stale; hence a second copy of lessons needs a stale
   read or a partial attempt before it.
4. `HolderWorksAlone`: until the lock leaks, only its holder works, and the rows that it has
   read and not yet processed are as it read them. This is the second half of the property.

That a batch is the head of the queue, in order and without repetition, is how `ReadBatch`
is stated with `Sublists!InOrder`; a recursive filter could not be reasoned about.

### AgentRuntimeProofs

Proved for any skills, sessions, invocations, rounds, retries and thresholds, under
`LibraryAssumption` and `RuntimeAssumption` (invocations are sessions, distinct from the
requests that execute skills):

| Theorem | States |
|---|---|
| `Inductive` | `Spec => []IInv` |
| `TypeCorrect` | `Spec => []TypeOK` |
| `StatisticsAreAudited` | `Spec => []CountersTrailAudit` |
| `EachRunIsApproved` | `Spec => []EachRunHasAnApproval` |
| `RevivedOnlyByARace` | `Spec => RetiredStaysRetired` |

`LibraryInv` is about sessions on skill rows, and every action of an invocation is for
it an action of a session; the rest is about the gate.

1. `SessionsInOrder` and `OneWriter`: sessions write rows they hold, one session per row at a
   time. So while a session counts, nobody else's commit touches the row.
2. `CopiesTrailAudit`: a session's copy, with the executions it has not committed yet, obeys
   what `CountersTrailAudit` says of rows. Committing copy and executions together keeps it,
   also over a row that has changed: what is lost then is a count, never an audit record.
3. `FreshWrites`: a row that had not changed when the session first wrote it has not
   changed since, so the commit loses nothing (equality for skills that never raced) and
   takes no retired skill back into use (`RetiredStaysRetired`).
4. `AsksForOffered` and `GateWasPassed`: what waits for a gate or the sandbox was offered; a run
   has passed its gate already; and what is about to run behind a gate has just passed one
   whose verdict approved and on which no earlier run rests. Verdicts are only added, so
   `EachRunHasAnApproval` stays true of the runs there are. `RewritesCounted` is what
   the bound on `constitution_retries` in `TypeOK` needs.

### Only model-checked

Liveness under fairness: the `Ends` conjunct of `BoundedRun!Spec` for both engines,
`OutcomeReleases`, `RunSettles`, `CancellationLands` and `EveryJobSettles`. The
prover does not reason about fairness and `ENABLED`. The five violations are counterexamples,
and those are TLC's. Facts that would need induction over data, and recursive operators, are
beyond the prover as well; none of the modules declares one. Where one would have been needed,
for the part of a list that a filter keeps, the model states the result (`Sublists`); that there
is always exactly one such list is not proved, and no safety theorem depends on it.

## 5. Not modelled, and why

- Prompts, text, costs, token totals, streaming and the payloads of events: no property is
  about them.
- Gateway, embeddings and sandbox beyond their outcomes, authentication: stateless, or
  the operating system's.
- Of the canvas: the warnings of `validate_dsl`, edge rows, layout and metadata, and the deletion of single sessions, which takes no part in what is claimed.
- Memory: the archival search takes row locks as it updates usage counts, in the order
  of relevance, so two searches could wait for each other; the hazard is listed, without a
  model, since everything it depends on is the database's. The working window is
  pushed and trimmed in one Redis transaction.
- Version numbers of skills (nothing else reads them).
- The rate limiter's two commands: a failure between INCRBY and EXPIRE leaves a counter that
  never expires. Two lines of behaviour, too little for a module.
- Chat page and canvas editor: they interleave in the browser only. What the server promises
  them is in `EventStream`, `RunLifecycle` and `GraphLifecycle`.
- Application start, configuration, logging, health, scripts, migrations, styling and
  forms: wiring, read-only queries, generated code.

Redis and PostgreSQL are taken at their contract: transactions are atomic, commits
survive crashes.

## 6. Plan

What is left, the next most important first:

1. Two invocations of `AgentRuntime` at once in a run: the classic engine and two runs of one
   team share skills that way. The instance is too large for a routine run; the request
   that executes a skill stands for the second session. The theorems have no such bound.
2. An abstract run that `RunLifecycle` implements (*pending, under way, waiting, settled*), with
   the proof of its steps, so that `OutcomeAnnounced` and `OutcomeKept` become consequences of one
   specification.
3. Weaker conditions for `LateCancelIsARace` and `CopyIsCurrent`, if the code comes to lock the
   rows it tests.
