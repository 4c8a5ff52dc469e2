----------------------------- MODULE PostMortem -----------------------------
(***************************************************************************)
(* Learning from finished runs: the job rows that worker.py and            *)
(* workers/learning.py process, and whoever processes them.  In embedded   *)
(* mode that is a poller in every API process, with a Redis lock between   *)
(* them; with an arq worker it is one task per run and a sweep every       *)
(* minute; with neither, nobody.  An administrator may drain the queue by  *)
(* hand, without the lock.                                                 *)
(*                                                                         *)
(* A drain is one database transaction under READ COMMITTED: what it has   *)
(* read of a row may be old when it writes, a row it has written is locked *)
(* until it ends, and a failure undoes it from its beginning.              *)
(***************************************************************************)
EXTENDS Naturals, Sequences, FiniteSets, Sublists

CONSTANTS
    NumJobs,      \* runs that end; each has one job, and one arq task
    Reviewable,   \* those whose run is completed or failed and has a trace of agents
    Pollers,      \* API processes in embedded mode
    Sweepers,     \* executions of the cron job or of /drain
    None,         \* no one
    MaxAttempts,  \* 3 in worker.py and learning.py
    BatchSize,    \* 5 in drain_post_mortem_queue
    MaxFaults     \* bound of the model: crashes and failed transactions

(* Jobs are numbered by created_at. *)
Jobs == 1..NumJobs

ASSUME LearningAssumption ==
    /\ NumJobs \in Nat
    /\ Reviewable \subseteq Jobs
    /\ MaxAttempts \in Nat \ {0}
    /\ BatchSize \in Nat \ {0}
    /\ MaxFaults \in Nat
    /\ None \notin Pollers \cup Sweepers \cup Jobs

Actors == Pollers \cup Sweepers \cup Jobs

(* sidecar and external are "arq"; embedded with background workers turned  *)
(* off is "none".                                                           *)
Modes == {"embedded", "arq", "none"}

VARIABLES
    mode,      \* who drains in this deployment
    job,       \* PostMortemJob rows, as committed
    lessons,   \* batches of lessons committed for each run: 2 stands for more
    lock,      \* the Redis lock: None, or who set it
    pc,        \* what each actor does next
    todo,      \* the jobs an actor has read and not yet processed, with their attempts
    done,      \* what its transaction has written
    faults,    \* crashes and failed transactions so far
    stale,     \* history: jobs processed on a row that had changed since it was read
    partial,   \* history: jobs of which a failed attempt has left lessons behind
    leaked     \* history: the lock has expired in its holder's hands, or was passed by

rows == <<job, lessons>>

history == <<stale, partial, leaked>>

vars == <<mode, rows, lock, pc, todo, done, faults, history>>

(* PROCESSING is written and overwritten within one transaction. *)
Row == [status : {"queued", "completed", "skipped", "failed"}, attempts : 0..MaxAttempts]

Unsettled == {"queued", "absent"}

TypeOK ==
    /\ mode \in Modes
    /\ job \in [Jobs -> Row \cup {[status |-> "absent", attempts |-> 0]}]
    /\ lessons \in [Jobs -> 0..2]
    /\ lock \in Pollers \cup {None}
    /\ pc \in [Actors -> {"idle", "working", "over"}]
    /\ todo \in [Actors -> Seq([id : Jobs, attempts : 0..MaxAttempts])]
    /\ done \in [Actors -> SUBSET [id : Jobs, row : Row, lessons : 0..1]]
    /\ faults \in 0..MaxFaults
    /\ stale \subseteq Jobs /\ partial \subseteq Jobs /\ leaked \in BOOLEAN

Init ==
    /\ mode \in Modes
    /\ job = [j \in Jobs |-> [status |-> "absent", attempts |-> 0]]
    /\ lessons = [j \in Jobs |-> 0]
    /\ lock = None
    /\ pc = [a \in Actors |-> "idle"]
    /\ todo = [a \in Actors |-> <<>>]
    /\ done = [a \in Actors |-> {}]
    /\ faults = 0
    /\ stale = {} /\ partial = {} /\ leaked = FALSE

Goto(a, label) == pc' = [pc EXCEPT ![a] = label]

(* Rows an open transaction has written are locked. *)
Locked(a, j) == \E b \in Actors \ {a} : \E w \in done[b] : w.id = j
-----------------------------------------------------------------------------
(* Jobs arrive *)

(* A run is committed as completed, with its job. *)
Arrive(j) ==
    /\ job[j].status = "absent" /\ \A i \in 1..(j - 1) : job[i].status # "absent"
    /\ job' = [job EXCEPT ![j].status = "queued"]
    /\ UNCHANGED <<mode, lessons, lock, pc, todo, done, faults, history>>

(* process_post_mortem_job, once per run (_job_id).  The task is enqueued    *)
(* after the run's commit in the LangGraph engine, before it in the classic *)
(* one, or not at all, if that fails.  It ends at a missing or settled row. *)
ReadOne(j) ==
    /\ mode = "arq"
    /\ pc[j] = "idle"
    /\ \/ /\ job[j].status # "queued"
          /\ Goto(j, "over") /\ UNCHANGED todo
       \/ /\ job[j].status = "queued"
          /\ todo' = [todo EXCEPT ![j] = <<[id |-> j, attempts |-> job[j].attempts]>>]
          /\ Goto(j, "working")
    /\ UNCHANGED <<mode, rows, lock, done, faults, history>>
-----------------------------------------------------------------------------
(* drain_post_mortem_queue *)

Waiting(j) == job[j].status = "queued" /\ job[j].attempts < MaxAttempts

Oldest(queue) == SubSeq(queue, 1, IF Len(queue) < BatchSize THEN Len(queue) ELSE BatchSize)

(* The oldest queued jobs, read without a lock. *)
ReadBatch(a) ==
    \E queue \in InOrder({j \in Jobs : Waiting(j)}) :
       LET batch == Oldest(queue)
       IN /\ batch # <<>>
          /\ todo' = [todo EXCEPT ![a] = [i \in DOMAIN batch |-> [id |-> batch[i], attempts |-> job[batch[i]].attempts]]]
          /\ Goto(a, "working")

(* Mutant: SET without NX. *)
Poll_NotExclusive(p) ==
    /\ mode = "embedded"
    /\ pc[p] = "idle"
    /\ lock' = p /\ UNCHANGED leaked
    /\ ReadBatch(p)
    /\ UNCHANGED <<mode, rows, done, faults, stale, partial>>

(* learning_worker_loop: SET NX EX finds the lock free, or Redis does not   *)
(* answer, and duplicate work is taken to be better than no work; a call of *)
(* /drain does not ask at all.  With an empty queue the lock is given back  *)
(* at once and nothing has changed.                                        *)
Poll(p) ==
    /\ mode = "embedded"
    /\ pc[p] = "idle"
    /\ \/ lock = None /\ lock' = p /\ UNCHANGED leaked
       \/ leaked' = TRUE /\ UNCHANGED lock
    /\ ReadBatch(p)
    /\ UNCHANGED <<mode, rows, done, faults, stale, partial>>

(* The cron job, every minute; or /drain, when an administrator calls it,   *)
(* the only drain of mode "none".                                           *)
Sweep(s) ==
    /\ mode \in {"arq", "none"}
    /\ pc[s] = "idle"
    /\ ReadBatch(s)
    /\ UNCHANGED <<mode, rows, lock, done, faults, history>>

(* 120 seconds have passed, whether the holder is done or not. *)
Expire ==
    /\ lock # None
    /\ lock' = None
    /\ leaked' = (leaked \/ pc[lock] = "working")
    /\ UNCHANGED <<mode, rows, pc, todo, done, faults, stale, partial>>

(* Mutant: a job that keeps failing is put back for ever. *)
Failed_Requeued(attempts) == "queued"

Failed(attempts) == IF attempts < MaxAttempts THEN "queued" ELSE "failed"

(* process_post_mortem: the job's status, and whether lessons were written. *)
(* A run without anything to review is skipped; otherwise all lessons and   *)
(* candidates are written; or the model's call or its answer raises; or a   *)
(* lesson's importance is no number, and those before it stay written.     *)
Outcomes(j, attempts) ==
    IF j \notin Reviewable THEN {<<"skipped", 0>>}
    ELSE {<<"completed", 1>>, <<Failed(attempts), 0>>, <<Failed(attempts), 1>>}

(* PROCESSING and attempts + 1 are flushed, which waits for the row's lock; *)
(* the row may have changed since it was read.                             *)
Process(a) ==
    /\ pc[a] = "working" /\ todo[a] # <<>>
    /\ LET read == Head(todo[a])
           attempts == read.attempts + 1
       IN /\ ~Locked(a, read.id)
          /\ stale' = IF job[read.id] = [status |-> "queued", attempts |-> read.attempts]
                      THEN stale ELSE stale \cup {read.id}
          /\ \E outcome \in Outcomes(read.id, attempts) :
                /\ done' = [done EXCEPT ![a] = @ \cup
                               {[id |-> read.id, row |-> [status |-> outcome[1], attempts |-> attempts], lessons |-> outcome[2]]}]
                /\ partial' = IF outcome = <<Failed(attempts), 1>> THEN partial \cup {read.id} ELSE partial
    /\ todo' = [todo EXCEPT ![a] = Tail(@)]
    /\ UNCHANGED <<mode, rows, lock, pc, faults, leaked>>

AtMostTwo(n) == IF n > 2 THEN 2 ELSE n

(* The transaction is over; an arq task has ended.  A poller deletes the    *)
(* lock, whoever has set it meanwhile, or cannot, if Redis fails.          *)
Finish(a) ==
    /\ Goto(a, IF a \in Jobs THEN "over" ELSE "idle")
    /\ todo' = [todo EXCEPT ![a] = <<>>]
    /\ done' = [done EXCEPT ![a] = {}]
    /\ lock' \in IF a \in Pollers THEN {None, lock} ELSE {lock}

(* One commit for all jobs of the batch. *)
Commit(a) ==
    /\ pc[a] = "working" /\ todo[a] = <<>>
    /\ LET Ids == {w.id : w \in done[a]}
           Of(j) == CHOOSE w \in done[a] : w.id = j
       IN /\ job' = [j \in Jobs |-> IF j \in Ids THEN Of(j).row ELSE job[j]]
          /\ lessons' = [j \in Jobs |-> IF j \in Ids THEN AtMostTwo(lessons[j] + Of(j).lessons) ELSE lessons[j]]
    /\ Finish(a)
    /\ UNCHANGED <<mode, faults, history>>

(* The database refuses a flush (one inside register is swallowed there,    *)
(* but the session is spoilt and the next flush raises) or the commit, the  *)
(* wait for a row's lock exceeds the statement's timeout, or the process    *)
(* shuts down or times the task out: no job of the batch was attempted.    *)
RollBack(a) ==
    /\ pc[a] = "working"
    /\ faults < MaxFaults
    /\ faults' = faults + 1
    /\ Finish(a)
    /\ UNCHANGED <<mode, rows, history>>

(* The process dies and a poller's lock stays; arq runs the task of a dead  *)
(* worker again, pollers start with their process.                         *)
Crash(a) ==
    /\ pc[a] = "working"
    /\ faults < MaxFaults
    /\ faults' = faults + 1
    /\ Goto(a, "idle")
    /\ todo' = [todo EXCEPT ![a] = <<>>]
    /\ done' = [done EXCEPT ![a] = {}]
    /\ UNCHANGED <<mode, rows, lock, history>>
-----------------------------------------------------------------------------
Work(a) == Process(a) \/ Commit(a)

Next ==
    \/ \E j \in Jobs : Arrive(j) \/ ReadOne(j)
    \/ \E p \in Pollers : Poll(p)
    \/ \E s \in Sweepers : Sweep(s)
    \/ \E a \in Actors : Work(a) \/ RollBack(a) \/ Crash(a)
    \/ Expire

(* Transactions that have begun go on; processes poll, the cron job runs,   *)
(* and a key with a TTL expires.  An enqueue may always fail, and nobody    *)
(* has to call /drain.                                                      *)
Fairness ==
    /\ \A a \in Actors : WF_vars(Work(a))
    /\ \A p \in Pollers : WF_vars(Poll(p))
    /\ \A s \in Sweepers : WF_vars(mode = "arq" /\ Sweep(s))
    /\ WF_vars(Expire)

Spec == Init /\ [][Next]_vars /\ Fairness
-----------------------------------------------------------------------------
(* Properties *)

(* A run's lessons are written twice only for a reason the code knows of:   *)
(* an attempt that failed halfway, or two drains that read the row before   *)
(* either had written it; and pollers among themselves never do the latter  *)
(* unless the lock has expired under a drain or Redis failed               *)
(* (learning.py 86-99 and 210-256, worker.py 35-62).                       *)
LearnedTwiceNeedsACause ==
    /\ \A j \in Jobs : lessons[j] > 1 => j \in stale \cup partial
    /\ mode = "embedded" /\ ~leaked => stale = {}

(* Wherever something drains, every job is settled in the end, whatever     *)
(* order the drains overlap in, as long as only finitely many transactions  *)
(* fail (learning.py 210-256).  In mode "none" it may stay queued for ever. *)
EveryJobSettles ==
    \A j \in Jobs : (mode # "none" /\ job[j].status = "queued") ~> job[j].status \notin Unsettled
-----------------------------------------------------------------------------
(* The inductive invariant of PostMortemProofs *)

(* What is queued, has been read or will be queued again has an attempt left. *)
AttemptLeft ==
    /\ \A j \in Jobs : job[j].status = "queued" => job[j].attempts < MaxAttempts
    /\ \A a \in Actors :
          /\ \A i \in DOMAIN todo[a] : todo[a][i].attempts < MaxAttempts
          /\ \A w \in done[a] : w.row.status = "queued" => w.row.attempts < MaxAttempts

(* No two open transactions have written the same row. *)
OneWriter ==
    \A a, b \in Actors : \A v \in done[a], w \in done[b] : v.id = w.id => a = b

(* What a transaction has written replaces a queued row, unless it had      *)
(* changed since it was read.                                               *)
ReplacesQueued == \A a \in Actors : \A w \in done[a] : w.id \in stale \/ job[w.id].status = "queued"

(* Lessons, to be committed or committed, complete their job, unless there  *)
(* is a cause to write them again.                                          *)
LessonsComplete ==
    /\ \A a \in Actors : \A w \in done[a] :
          w.lessons > 0 => w.row.status = "completed" \/ w.id \in partial
    /\ \A j \in Jobs : lessons[j] > 0 => job[j].status = "completed" \/ j \in stale \cup partial

(* As long as the lock has not leaked, its holder alone is at work, and no  *)
(* row it has read and not yet processed has changed.                       *)
HolderWorksAlone ==
    mode = "embedded" /\ ~leaked =>
        \A a \in Actors :
            /\ pc[a] = "working" => a \in Pollers /\ lock = a
            /\ \A i \in DOMAIN todo[a] :
                  /\ pc[a] = "working"
                  /\ job[todo[a][i].id] = [status |-> "queued", attempts |-> todo[a][i].attempts]

IInv ==
    /\ TypeOK
    /\ AttemptLeft
    /\ OneWriter
    /\ ReplacesQueued
    /\ LessonsComplete
    /\ HolderWorksAlone
    /\ LearnedTwiceNeedsACause
=============================================================================
