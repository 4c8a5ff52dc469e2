-------------------------- MODULE PostMortemProofs --------------------------
(***************************************************************************)
(* Theorems about PostMortem, for any number of runs, pollers, sweeps,     *)
(* attempts and faults and any size of a batch.                            *)
(***************************************************************************)
EXTENDS PostMortem, FiniteSetTheorems, SequenceTheorems, TLAPS

-----------------------------------------------------------------------------
(* Batches *)

Read == [id : Jobs, attempts : 0..MaxAttempts]

Write == [id : Jobs, row : Row, lessons : 0..1]

Rows == Row \cup {[status |-> "absent", attempts |-> 0]}

(* The constants have the types the code gives them. *)
LEMMA Constants ==
    /\ NumJobs \in Nat /\ MaxAttempts \in Nat /\ MaxAttempts > 0 /\ MaxFaults \in Nat
    /\ BatchSize \in Nat /\ BatchSize > 0
    /\ None \notin Actors
    /\ Pollers \subseteq Actors /\ Sweepers \subseteq Actors /\ Jobs \subseteq Actors
BY LearningAssumption DEF Actors

(* A row that has been committed. *)
LEMMA RowType ==
    ASSUME TypeOK, NEW j \in Jobs
    PROVE  /\ job[j] \in Rows
           /\ job[j].status \in {"queued", "completed", "skipped", "failed", "absent"}
           /\ job[j].attempts \in 0..MaxAttempts
           /\ job[j] = [status |-> job[j].status, attempts |-> job[j].attempts]
BY Constants DEF TypeOK, Row, Rows

(* A row that has been read. *)
LEMMA ReadType ==
    ASSUME TypeOK, NEW a \in Actors, NEW i \in DOMAIN todo[a]
    PROVE  todo[a][i] \in Read /\ todo[a][i].id \in Jobs
<1>1. todo[a] \in Seq(Read)
  BY DEF TypeOK, Read
<1>2. todo[a][i] \in Read
  BY <1>1, LenProperties, ElementOfSeq
<1> QED
  BY <1>2 DEF Read

(* The batch of a drain is a list of queued jobs that have an attempt left. *)
LEMMA BatchIsWaiting ==
    ASSUME NEW queue \in InOrder({j \in Jobs : Waiting(j)})
    PROVE  /\ Oldest(queue) \in Seq(Jobs)
           /\ \A i \in 1..Len(Oldest(queue)) : Waiting(Oldest(queue)[i])
<1> DEFINE S == {j \in Jobs : Waiting(j)}
           n == Cardinality(S)
           last == IF Len(queue) < BatchSize THEN Len(queue) ELSE BatchSize
<1>1. IsFiniteSet(Jobs) /\ S \subseteq Jobs
  BY Constants, FS_Interval DEF Jobs
<1>2. n \in Nat
  BY <1>1, FS_Subset, FS_CardinalityType
<1>3. queue \in [1..n -> S]
  BY DEF InOrder
<1> HIDE DEF S, n
<1>4. queue \in Seq(S) /\ Len(queue) = n
  BY <1>2, <1>3, SeqDef
<1>5. last \in Nat /\ last <= n
  BY <1>2, <1>4, Constants
<1> HIDE DEF last
<1>6. \A i \in 1..last : queue[i] \in S
  BY <1>2, <1>3, <1>5
<1>7. /\ SubSeq(queue, 1, last) \in Seq(S)
      /\ Len(SubSeq(queue, 1, last)) = IF 1 <= last THEN last - 1 + 1 ELSE 0
      /\ \A i \in 1..last - 1 + 1 : SubSeq(queue, 1, last)[i] = queue[1 + i - 1]
  BY <1>5, <1>6, SubSeqProperties
<1>8. Oldest(queue) = SubSeq(queue, 1, last)
  BY DEF Oldest, last
<1>9. \A i \in 1..Len(Oldest(queue)) : Oldest(queue)[i] \in S
  BY <1>7, <1>8, ElementOfSeq
<1>10. Oldest(queue) \in Seq(Jobs)
  BY <1>1, <1>7, <1>8, SeqMonotonic
<1> QED
  BY <1>9, <1>10 DEF S

(* What an actor has read is a list of rows as they are committed, queued   *)
(* and with an attempt left.                                                *)
LEMMA BatchIsFresh ==
    ASSUME TypeOK, NEW a \in Actors, ReadBatch(a)
    PROVE  /\ todo' \in [Actors -> Seq(Read)]
           /\ \A b \in Actors \ {a} : todo'[b] = todo[b]
           /\ \A i \in DOMAIN todo'[a] :
                 /\ job[todo'[a][i].id] = [status |-> "queued", attempts |-> todo'[a][i].attempts]
                 /\ todo'[a][i].attempts < MaxAttempts
           /\ pc' \in [Actors -> {"idle", "working", "over"}]
           /\ pc'[a] = "working" /\ \A b \in Actors \ {a} : pc'[b] = pc[b]
<1>1. PICK queue \in InOrder({j \in Jobs : Waiting(j)}) :
         /\ todo' = [todo EXCEPT ![a] =
               [i \in DOMAIN Oldest(queue) |->
                  [id |-> Oldest(queue)[i], attempts |-> job[Oldest(queue)[i]].attempts]]]
         /\ pc' = [pc EXCEPT ![a] = "working"]
  BY DEF ReadBatch, Goto
<1> DEFINE batch == Oldest(queue)
           read == [i \in DOMAIN batch |-> [id |-> batch[i], attempts |-> job[batch[i]].attempts]]
<1>2. batch \in Seq(Jobs) /\ \A i \in 1..Len(batch) : Waiting(batch[i])
  BY BatchIsWaiting
<1> HIDE DEF batch
<1>3. /\ Len(batch) \in Nat /\ DOMAIN batch = 1..Len(batch)
      /\ \A i \in 1..Len(batch) : batch[i] \in Jobs
  BY <1>2, LenProperties, ElementOfSeq
<1>4. \A i \in 1..Len(batch) :
         [id |-> batch[i], attempts |-> job[batch[i]].attempts] \in Read
  BY <1>3, RowType DEF Read
<1>5. read \in [1..Len(batch) -> Read] /\ read \in Seq(Read) /\ DOMAIN read = 1..Len(batch)
  BY <1>3, <1>4, SeqDef
<1>6. \A i \in DOMAIN read :
         /\ job[read[i].id] = [status |-> "queued", attempts |-> read[i].attempts]
         /\ read[i].attempts < MaxAttempts
  BY <1>2, <1>3, RowType DEF Waiting
<1>7. todo' = [todo EXCEPT ![a] = read]
  BY <1>1 DEF batch
<1> HIDE DEF read
<1> QED
  BY <1>1, <1>5, <1>6, <1>7 DEF TypeOK, Read
-----------------------------------------------------------------------------
(* Reading jobs *)

(* The rest of the invariant beside the types, for a step that processes,   *)
(* commits and leaks nothing: only what is newly read matters.              *)
LEMMA ReaderKeeps ==
    ASSUME IInv, TypeOK', NEW a \in Actors, UNCHANGED <<mode, job, lessons, done, stale, partial>>,
           leaked => leaked',
           \A i \in DOMAIN todo'[a] :
              /\ job[todo'[a][i].id] = [status |-> "queued", attempts |-> todo'[a][i].attempts]
              /\ todo'[a][i].attempts < MaxAttempts,
           \A b \in Actors \ {a} : todo'[b] = todo[b] /\ pc'[b] = pc[b],
           mode = "embedded" /\ ~leaked' =>
              /\ pc'[a] = "working" /\ a \in Pollers /\ lock' = a
              /\ \A b \in Actors \ {a} : pc[b] # "working"
    PROVE  IInv'
<1>1. AttemptLeft'
  <2> SUFFICES ASSUME NEW b \in Actors, NEW i \in DOMAIN todo'[b]
               PROVE  todo'[b][i].attempts < MaxAttempts
    BY DEF IInv, AttemptLeft
  <2>1. CASE b = a
    BY <2>1
  <2>2. CASE b # a
    BY <2>2 DEF IInv, AttemptLeft
  <2> QED
    BY <2>1, <2>2
<1>2. OneWriter' /\ ReplacesQueued' /\ LessonsComplete'
  BY DEF IInv, OneWriter, ReplacesQueued, LessonsComplete
<1>3. HolderWorksAlone'
  <2> SUFFICES ASSUME mode = "embedded", ~leaked', NEW b \in Actors
               PROVE  /\ pc'[b] = "working" => b \in Pollers /\ lock' = b
                      /\ \A i \in DOMAIN todo'[b] :
                            /\ pc'[b] = "working"
                            /\ job[todo'[b][i].id]
                                  = [status |-> "queued", attempts |-> todo'[b][i].attempts]
    BY DEF HolderWorksAlone
  <2>1. CASE b = a
    BY <2>1
  <2>2. CASE b # a
    BY <2>2 DEF IInv, HolderWorksAlone
  <2> QED
    BY <2>1, <2>2
<1>4. LearnedTwiceNeedsACause'
  BY DEF IInv, LearnedTwiceNeedsACause
<1> QED
  BY <1>1, <1>2, <1>3, <1>4 DEF IInv

(* A job that arrives has been read by nobody. *)
LEMMA ArriveKeeps == ASSUME IInv, NEW j \in Jobs, Arrive(j) PROVE IInv'
<1>1. /\ TypeOK /\ job[j].status = "absent"
      /\ job' = [job EXCEPT ![j].status = "queued"]
      /\ UNCHANGED <<mode, lessons, lock, pc, todo, done, faults, stale, partial, leaked>>
  BY DEF IInv, Arrive, history
<1>2. job[j] = [status |-> "absent", attempts |-> 0]
  BY <1>1 DEF TypeOK, Row
<1>3. /\ job' \in [Jobs -> Rows]
      /\ job'[j] = [status |-> "queued", attempts |-> 0]
      /\ \A i \in Jobs \ {j} : job'[i] = job[i]
  BY <1>1, <1>2, Constants DEF TypeOK, Rows, Row
<1>4. TypeOK'
  BY <1>1, <1>3 DEF TypeOK, Rows
<1>5. AttemptLeft'
  BY <1>1, <1>3, Constants DEF IInv, AttemptLeft
<1>6. OneWriter'
  BY <1>1 DEF IInv, OneWriter
<1>7. ReplacesQueued'
  <2>1. \A a \in Actors : \A w \in done[a] : w.id \in Jobs
    BY <1>1 DEF TypeOK
  <2> QED
    BY <2>1, <1>1, <1>3 DEF IInv, ReplacesQueued
<1>8. LessonsComplete'
  BY <1>1, <1>3 DEF IInv, LessonsComplete
<1>9. HolderWorksAlone'
  <2>1. \A a \in Actors : \A i \in DOMAIN todo[a] : todo[a][i].id \in Jobs
    BY <1>1, ReadType
  <2>2. ASSUME mode = "embedded", ~leaked, NEW a \in Actors, NEW i \in DOMAIN todo[a]
        PROVE  todo[a][i].id # j
    <3>1. job[todo[a][i].id] = [status |-> "queued", attempts |-> todo[a][i].attempts]
      BY <2>2 DEF IInv, HolderWorksAlone
    <3>2. job[todo[a][i].id].status = "queued"
      BY <3>1
    <3> QED
      BY <3>2, <1>1
  <2> QED
    BY <2>1, <2>2, <1>1, <1>3 DEF IInv, HolderWorksAlone
<1>10. LearnedTwiceNeedsACause'
  BY <1>1 DEF IInv, LearnedTwiceNeedsACause
<1> QED
  BY <1>4, <1>5, <1>6, <1>7, <1>8, <1>9, <1>10 DEF IInv

(* A task that finds its row queued has read it as it is. *)
LEMMA ReadOneKeeps == ASSUME IInv, NEW j \in Jobs, ReadOne(j) PROVE IInv'
<1>1. /\ TypeOK /\ j \in Actors /\ mode = "arq"
      /\ UNCHANGED <<mode, job, lessons, lock, done, faults, stale, partial, leaked>>
  BY Constants DEF IInv, ReadOne, rows, history
<1>2. CASE Goto(j, "over") /\ UNCHANGED todo
  <2>1. TypeOK'
    BY <1>1, <1>2 DEF TypeOK, Goto
  <2> QED
    BY <2>1, <1>1, <1>2
    DEF IInv, AttemptLeft, OneWriter, ReplacesQueued, LessonsComplete, HolderWorksAlone,
        LearnedTwiceNeedsACause
<1>3. CASE /\ job[j].status = "queued" /\ Goto(j, "working")
           /\ todo' = [todo EXCEPT ![j] = <<[id |-> j, attempts |-> job[j].attempts]>>]
  <2> DEFINE read == [id |-> j, attempts |-> job[j].attempts]
  <2>1. read \in Read /\ job[j] = [status |-> "queued", attempts |-> read.attempts]
    BY <1>1, <1>3, RowType DEF Read
  <2>2. read.attempts < MaxAttempts
    BY <1>3 DEF IInv, AttemptLeft
  <2>3. todo' = [todo EXCEPT ![j] = <<read>>]
    BY <1>3
  <2>4. read.id = j
    OBVIOUS
  <2> HIDE DEF read
  <2>5. <<read>> \in Seq(Read) /\ DOMAIN <<read>> = 1..1 /\ <<read>>[1] = read
    BY <2>1
  <2>6. TypeOK'
    BY <1>1, <1>3, <2>3, <2>5 DEF TypeOK, Goto, Read
  <2>7. todo'[j] = <<read>> /\ \A b \in Actors \ {j} : todo'[b] = todo[b] /\ pc'[b] = pc[b]
    BY <1>1, <1>3, <2>3 DEF TypeOK, Goto
  <2>8. \A i \in DOMAIN todo'[j] :
           /\ job[todo'[j][i].id] = [status |-> "queued", attempts |-> todo'[j][i].attempts]
           /\ todo'[j][i].attempts < MaxAttempts
    BY <2>1, <2>2, <2>4, <2>5, <2>7
  <2> QED
    BY <2>6, <2>7, <2>8, <1>1, ReaderKeeps
<1> QED
  BY <1>2, <1>3 DEF ReadOne

(* A poller that has the lock works alone; one that passes it by leaks it.  *)
LEMMA PollKeeps == ASSUME IInv, NEW p \in Pollers, Poll(p) PROVE IInv'
<1>1. /\ TypeOK /\ p \in Actors /\ pc[p] = "idle" /\ ReadBatch(p)
      /\ UNCHANGED <<mode, job, lessons, done, faults, stale, partial>>
      /\ (lock = None /\ lock' = p /\ leaked' = leaked) \/ (leaked' = TRUE /\ lock' = lock)
  BY Constants DEF IInv, Poll, rows
<1>2. TypeOK'
  BY <1>1, BatchIsFresh DEF TypeOK, Read
<1>3. ~leaked' => lock = None /\ lock' = p /\ leaked' = leaked
  BY <1>1
<1>4. (mode = "embedded" /\ ~leaked') => \A b \in Actors : pc[b] # "working"
  BY <1>3, Constants DEF IInv, HolderWorksAlone
<1>5. leaked => leaked'
  BY <1>1
<1> QED
  BY <1>1, <1>2, <1>3, <1>4, <1>5, BatchIsFresh, ReaderKeeps

(* Sweeps do without the lock where there are no pollers. *)
LEMMA SweepKeeps == ASSUME IInv, NEW s \in Sweepers, Sweep(s) PROVE IInv'
<1>1. /\ TypeOK /\ s \in Actors /\ mode # "embedded" /\ ReadBatch(s)
      /\ UNCHANGED <<mode, job, lessons, lock, done, faults, stale, partial, leaked>>
  BY Constants DEF IInv, Sweep, rows, history
<1>2. TypeOK'
  BY <1>1, BatchIsFresh DEF TypeOK, Read
<1> QED
  BY <1>1, <1>2, BatchIsFresh, ReaderKeeps

(* A lock that expires under its holder has leaked. *)
LEMMA ExpireKeeps == ASSUME IInv, Expire PROVE IInv'
<1>1. /\ TypeOK /\ lock \in Pollers /\ lock' = None
      /\ leaked' = (leaked \/ pc[lock] = "working")
      /\ UNCHANGED <<mode, job, lessons, pc, todo, done, faults, stale, partial>>
  BY DEF IInv, Expire, TypeOK, rows
<1>2. TypeOK' /\ (~leaked' => ~leaked /\ pc[lock] # "working")
  BY <1>1 DEF TypeOK
<1>3. AttemptLeft' /\ OneWriter' /\ ReplacesQueued' /\ LessonsComplete' /\ LearnedTwiceNeedsACause'
  BY <1>1, <1>2
  DEF IInv, AttemptLeft, OneWriter, ReplacesQueued, LessonsComplete, LearnedTwiceNeedsACause
<1>4. HolderWorksAlone'
  BY <1>1, <1>2 DEF IInv, HolderWorksAlone
<1> QED
  BY <1>2, <1>3, <1>4 DEF IInv
-----------------------------------------------------------------------------
(* Processing *)

(* What process_post_mortem writes of a row it has read. *)
LEMMA OutcomeTypes ==
    ASSUME NEW j \in Jobs, NEW attempts \in 1..MaxAttempts, NEW outcome \in Outcomes(j, attempts)
    PROVE  /\ outcome[1] \in {"queued", "completed", "skipped", "failed"}
           /\ outcome[2] \in 0..1
           /\ outcome[1] = "queued" => attempts < MaxAttempts
           /\ outcome[2] > 0 => outcome[1] = "completed" \/ outcome = <<Failed(attempts), 1>>
<1>1. /\ Failed(attempts) \in {"queued", "failed"}
      /\ Failed(attempts) = "queued" => attempts < MaxAttempts
  BY DEF Failed
<1>2. outcome \in {<<"skipped", 0>>, <<"completed", 1>>, <<Failed(attempts), 0>>, <<Failed(attempts), 1>>}
  BY DEF Outcomes
<1> HIDE DEF Failed
<1> QED
  BY <1>1, <1>2

(* A job is processed by one transaction at a time; one processed on a row  *)
(* that has changed is recorded as such.                                    *)
LEMMA ProcessKeeps == ASSUME IInv, NEW a \in Actors, Process(a) PROVE IInv'
<1> DEFINE read == Head(todo[a])
           attempts == read.attempts + 1
<1>1. /\ TypeOK /\ pc[a] = "working" /\ todo[a] # <<>> /\ ~Locked(a, read.id)
      /\ todo' = [todo EXCEPT ![a] = Tail(todo[a])]
      /\ stale' = IF job[read.id] = [status |-> "queued", attempts |-> read.attempts]
                  THEN stale ELSE stale \cup {read.id}
      /\ UNCHANGED <<mode, job, lessons, lock, pc, faults, leaked>>
  BY DEF IInv, Process, rows
<1>2. todo[a] \in Seq(Read)
  BY <1>1 DEF TypeOK, Read
<1>3. /\ read \in Read /\ read = todo[a][1] /\ 1 \in DOMAIN todo[a]
      /\ Tail(todo[a]) \in Seq(Read)
      /\ \A i \in DOMAIN Tail(todo[a]) : i + 1 \in DOMAIN todo[a] /\ Tail(todo[a])[i] = todo[a][i + 1]
  BY <1>1, <1>2, HeadTailProperties, LenProperties, EmptySeq
<1>4. read.id \in Jobs /\ read.attempts \in 0..MaxAttempts /\ attempts \in 1..MaxAttempts
  <2>1. read.attempts < MaxAttempts
    BY <1>1, <1>3 DEF IInv, AttemptLeft
  <2> QED
    BY <2>1, <1>3, Constants DEF Read
<1>5. PICK outcome \in Outcomes(read.id, attempts) :
         /\ done' = [done EXCEPT ![a] = @ \cup
               {[id |-> read.id, row |-> [status |-> outcome[1], attempts |-> attempts],
                 lessons |-> outcome[2]]}]
         /\ partial' = IF outcome = <<Failed(attempts), 1>> THEN partial \cup {read.id} ELSE partial
  BY DEF Process
<1> DEFINE write == [id |-> read.id, row |-> [status |-> outcome[1], attempts |-> attempts],
                     lessons |-> outcome[2]]
<1>6. /\ write \in Write /\ write.id = read.id
      /\ write.row.status = "queued" => write.row.attempts < MaxAttempts
      /\ write.lessons > 0 => write.row.status = "completed" \/ read.id \in partial'
  <2> HIDE DEF read
  <2>1. /\ outcome[1] \in {"queued", "completed", "skipped", "failed"}
        /\ outcome[2] \in 0..1
        /\ outcome[1] = "queued" => attempts < MaxAttempts
        /\ outcome[2] > 0 => outcome[1] = "completed" \/ outcome = <<Failed(attempts), 1>>
    BY <1>4, OutcomeTypes
  <2>2. attempts \in 0..MaxAttempts
    BY <1>4
  <2> HIDE DEF attempts
  <2> QED
    BY <2>1, <2>2, <1>4, <1>5 DEF Write, Row
<1>7. done' = [done EXCEPT ![a] = done[a] \cup {write}]
  BY <1>5
<1> HIDE DEF read, attempts, write
<1>8. /\ \A w \in done'[a] : w \in done[a] \/ w = write
      /\ \A b \in Actors \ {a} : done'[b] = done[b]
      /\ done' \in [Actors -> SUBSET Write]
  BY <1>1, <1>6, <1>7 DEF TypeOK, Write
<1>9. /\ todo'[a] = Tail(todo[a]) /\ \A b \in Actors \ {a} : todo'[b] = todo[b]
      /\ todo' \in [Actors -> Seq(Read)]
  BY <1>1, <1>3 DEF TypeOK, Read
<1>10. /\ stale \subseteq stale' /\ partial \subseteq partial'
       /\ stale' \subseteq Jobs /\ partial' \subseteq Jobs
       /\ job[read.id].status = "queued" \/ read.id \in stale'
  BY <1>1, <1>4, <1>5 DEF TypeOK
<1>11. TypeOK'
  BY <1>1, <1>8, <1>9, <1>10 DEF TypeOK, Read, Write
<1>12. AttemptLeft'
  <2>1. ASSUME NEW b \in Actors, NEW i \in DOMAIN todo'[b]
        PROVE  todo'[b][i].attempts < MaxAttempts
    <3>1. CASE b = a
      BY <3>1, <1>3, <1>9 DEF IInv, AttemptLeft
    <3>2. CASE b # a
      BY <3>2, <1>9 DEF IInv, AttemptLeft
    <3> QED
      BY <3>1, <3>2
  <2>2. ASSUME NEW b \in Actors, NEW w \in done'[b], w.row.status = "queued"
        PROVE  w.row.attempts < MaxAttempts
    BY <2>2, <1>6, <1>8 DEF IInv, AttemptLeft
  <2>3. \A j \in Jobs : job[j].status = "queued" => job[j].attempts < MaxAttempts
    BY DEF IInv, AttemptLeft
  <2> QED
    BY <2>1, <2>2, <2>3, <1>1 DEF AttemptLeft
<1>13. OneWriter'
  <2>1. \A b \in Actors \ {a} : \A w \in done[b] : w.id # read.id
    BY <1>1 DEF Locked
  <2>2. ASSUME NEW b \in Actors, NEW c \in Actors, NEW v \in done'[b], NEW w \in done'[c],
               v.id = w.id
        PROVE  b = c
    <3>1. CASE v \in done[b] /\ w \in done[c]
      BY <3>1, <2>2 DEF IInv, OneWriter
    <3>2. CASE b = a /\ v = write
      BY <3>2, <2>1, <2>2, <1>6, <1>8
    <3>3. CASE c = a /\ w = write
      BY <3>3, <2>1, <2>2, <1>6, <1>8
    <3> QED
      BY <3>1, <3>2, <3>3, <1>8
  <2> QED
    BY <2>2 DEF OneWriter
<1>14. ReplacesQueued'
  BY <1>1, <1>6, <1>8, <1>10 DEF IInv, ReplacesQueued
<1>15. LessonsComplete'
  BY <1>1, <1>6, <1>8, <1>10 DEF IInv, LessonsComplete
<1>16. mode = "embedded" /\ ~leaked =>
          job[read.id] = [status |-> "queued", attempts |-> read.attempts]
  BY <1>3 DEF IInv, HolderWorksAlone
<1>17. HolderWorksAlone'
  <2> DEFINE Fresh(b) == \A i \in DOMAIN todo'[b] :
                /\ pc[b] = "working"
                /\ job[todo'[b][i].id] = [status |-> "queued", attempts |-> todo'[b][i].attempts]
  <2>1. ASSUME mode = "embedded", ~leaked
        PROVE  Fresh(a)
    <3> SUFFICES ASSUME NEW i \in DOMAIN todo'[a]
                 PROVE  job[todo'[a][i].id]
                           = [status |-> "queued", attempts |-> todo'[a][i].attempts]
      BY <1>1
    <3>1. todo'[a] = Tail(todo[a])
      BY <1>9
    <3>2. i + 1 \in DOMAIN todo[a] /\ todo'[a][i] = todo[a][i + 1]
      BY <3>1, <1>3
    <3> QED
      BY <2>1, <3>2 DEF IInv, HolderWorksAlone
  <2>2. ASSUME mode = "embedded", ~leaked, NEW b \in Actors \ {a}
        PROVE  Fresh(b)
    <3>1. todo'[b] = todo[b]
      BY <1>9
    <3>2. \A i \in DOMAIN todo[b] :
             /\ pc[b] = "working"
             /\ job[todo[b][i].id] = [status |-> "queued", attempts |-> todo[b][i].attempts]
      BY <2>2 DEF IInv, HolderWorksAlone
    <3> QED
      BY <3>1, <3>2
  <2>3. mode = "embedded" /\ ~leaked =>
           \A b \in Actors : pc[b] = "working" => b \in Pollers /\ lock = b
    BY DEF IInv, HolderWorksAlone
  <2>4. (mode = "embedded" /\ ~leaked) => \A b \in Actors : Fresh(b)
    <3> HIDE DEF Fresh
    <3> QED
      BY <2>1, <2>2
  <2>5. mode' = mode /\ job' = job /\ lock' = lock /\ pc' = pc /\ leaked' = leaked
    BY <1>1
  <2> QED
    BY <2>3, <2>4, <2>5, Zenon DEF HolderWorksAlone
<1>18. LearnedTwiceNeedsACause'
  BY <1>1, <1>10, <1>16 DEF IInv, LearnedTwiceNeedsACause
<1> QED
  BY <1>11, <1>12, <1>13, <1>14, <1>15, <1>17, <1>18 DEF IInv
-----------------------------------------------------------------------------
(* The end of a transaction *)

(* An actor that has no transaction has read and written nothing. *)
LEMMA Released ==
    ASSUME TypeOK, NEW a \in Actors, NEW label \in {"idle", "over"}, Goto(a, label),
           todo' = [todo EXCEPT ![a] = <<>>], done' = [done EXCEPT ![a] = {}]
    PROVE  /\ pc' \in [Actors -> {"idle", "working", "over"}] /\ pc'[a] # "working"
           /\ \A b \in Actors \ {a} : pc'[b] = pc[b]
           /\ todo' \in [Actors -> Seq(Read)] /\ DOMAIN todo'[a] = {}
           /\ \A b \in Actors \ {a} : todo'[b] = todo[b]
           /\ done' \in [Actors -> SUBSET Write] /\ done'[a] = {}
           /\ \A b \in Actors \ {a} : done'[b] = done[b]
<1>1. <<>> \in Seq(Read) /\ DOMAIN <<>> = {}
  BY EmptySeq, LenProperties
<1>2. todo \in [Actors -> Seq(Read)] /\ done \in [Actors -> SUBSET Write]
  BY DEF TypeOK, Read, Write
<1>3. pc' \in [Actors -> {"idle", "working", "over"}] /\ pc'[a] = label
      /\ \A b \in Actors \ {a} : pc'[b] = pc[b]
  BY DEF TypeOK, Goto
<1> QED
  BY <1>1, <1>2, <1>3

(* The lock is left as it is or given back. *)
LEMMA LockReleased ==
    ASSUME TypeOK, NEW a \in Actors, lock' \in IF a \in Pollers THEN {None, lock} ELSE {lock}
    PROVE  lock' \in {None, lock} /\ lock' \in Pollers \cup {None}
BY DEF TypeOK

(* Once a transaction has been undone, nothing but its end is seen. *)
LEMMA UndoneKeeps ==
    ASSUME IInv, NEW a \in Actors, pc[a] = "working", NEW label \in {"idle", "over"}, Goto(a, label),
           todo' = [todo EXCEPT ![a] = <<>>], done' = [done EXCEPT ![a] = {}],
           lock' \in {None, lock}, faults' \in 0..MaxFaults,
           UNCHANGED <<mode, rows, history>>
    PROVE  IInv'
<1>1. TypeOK /\ UNCHANGED <<mode, job, lessons, stale, partial, leaked>>
  BY DEF IInv, rows, history
<1>2. /\ pc' \in [Actors -> {"idle", "working", "over"}] /\ pc'[a] # "working"
      /\ \A b \in Actors \ {a} : pc'[b] = pc[b]
      /\ todo' \in [Actors -> Seq(Read)] /\ DOMAIN todo'[a] = {}
      /\ \A b \in Actors \ {a} : todo'[b] = todo[b]
      /\ done' \in [Actors -> SUBSET Write] /\ done'[a] = {}
      /\ \A b \in Actors \ {a} : done'[b] = done[b]
  BY <1>1, Released
<1>3. TypeOK'
  BY <1>1, <1>2 DEF TypeOK, Read, Write
<1>4. \A b \in Actors : done'[b] \subseteq done[b]
  BY <1>2
<1>5. AttemptLeft'
  BY <1>1, <1>2 DEF IInv, AttemptLeft
<1>6. OneWriter' /\ ReplacesQueued' /\ LessonsComplete' /\ LearnedTwiceNeedsACause'
  BY <1>1, <1>4 DEF IInv, OneWriter, ReplacesQueued, LessonsComplete, LearnedTwiceNeedsACause
<1>7. HolderWorksAlone'
  <2> SUFFICES ASSUME mode = "embedded", ~leaked
               PROVE  \A b \in Actors : pc'[b] # "working" /\ DOMAIN todo'[b] = {}
    BY <1>1 DEF HolderWorksAlone
  <2>1. \A b \in Actors \ {a} : pc[b] # "working" /\ DOMAIN todo[b] = {}
    BY DEF IInv, HolderWorksAlone
  <2> QED
    BY <2>1, <1>2
<1> QED
  BY <1>3, <1>5, <1>6, <1>7 DEF IInv

(* A transaction that fails is undone, and a poller may give the lock back. *)
LEMMA RollBackKeeps == ASSUME IInv, NEW a \in Actors, RollBack(a) PROVE IInv'
<1> DEFINE label == IF a \in Jobs THEN "over" ELSE "idle"
<1>1. label \in {"idle", "over"} /\ Goto(a, label)
  BY DEF RollBack, Finish
<1>2. faults' \in 0..MaxFaults
  BY Constants DEF IInv, TypeOK, RollBack
<1> HIDE DEF label
<1>3. lock' \in {None, lock}
  BY LockReleased DEF IInv, RollBack, Finish
<1> QED
  BY <1>1, <1>2, <1>3, UndoneKeeps DEF RollBack, Finish

(* One that dies with its process is undone, and the lock stays. *)
LEMMA CrashKeeps == ASSUME IInv, NEW a \in Actors, Crash(a) PROVE IInv'
<1>1. faults' \in 0..MaxFaults
  BY Constants DEF IInv, TypeOK, Crash
<1> QED
  BY <1>1, UndoneKeeps DEF Crash

(* Adding lessons is counted up to two. *)
LEMMA CountedToTwo ==
    ASSUME NEW n \in 0..2, NEW k \in 0..1
    PROVE  /\ AtMostTwo(n + k) \in 0..2
           /\ AtMostTwo(n + k) > 0 => n > 0 \/ k > 0
           /\ AtMostTwo(n + k) > 1 => n > 0
BY DEF AtMostTwo

(* A commit replaces queued rows, unless they had changed since they were   *)
(* read, so it adds lessons to lessons only of those.                       *)
LEMMA CommitKeeps == ASSUME IInv, NEW a \in Actors, Commit(a) PROVE IInv'
<1> DEFINE Ids == {w.id : w \in done[a]}
           Of(j) == CHOOSE w \in done[a] : w.id = j
           label == IF a \in Jobs THEN "over" ELSE "idle"
<1>1. /\ TypeOK /\ pc[a] = "working"
      /\ job' = [j \in Jobs |-> IF j \in Ids THEN Of(j).row ELSE job[j]]
      /\ lessons' = [j \in Jobs |->
                       IF j \in Ids THEN AtMostTwo(lessons[j] + Of(j).lessons) ELSE lessons[j]]
      /\ UNCHANGED <<mode, faults, stale, partial, leaked>>
  BY DEF IInv, Commit, history
<1>2. label \in {"idle", "over"} /\ Goto(a, label)
      /\ todo' = [todo EXCEPT ![a] = <<>>] /\ done' = [done EXCEPT ![a] = {}]
  BY DEF Commit, Finish
<1> HIDE DEF label
<1>3. /\ pc' \in [Actors -> {"idle", "working", "over"}] /\ pc'[a] # "working"
      /\ \A b \in Actors \ {a} : pc'[b] = pc[b]
      /\ todo' \in [Actors -> Seq(Read)] /\ DOMAIN todo'[a] = {}
      /\ \A b \in Actors \ {a} : todo'[b] = todo[b]
      /\ done' \in [Actors -> SUBSET Write] /\ done'[a] = {}
      /\ \A b \in Actors \ {a} : done'[b] = done[b]
  BY <1>1, <1>2, Released
<1>4. lock' \in Pollers \cup {None}
  BY <1>1, LockReleased DEF Commit, Finish
<1>5. ASSUME NEW j \in Ids
      PROVE  /\ Of(j) \in done[a] /\ Of(j).id = j
             /\ Of(j).row \in Row /\ Of(j).lessons \in 0..1
  <2>1. \E w \in done[a] : w.id = j
    OBVIOUS
  <2>2. Of(j) \in done[a] /\ Of(j).id = j
    BY <2>1
  <2> HIDE DEF Of
  <2> QED
    BY <2>2, <1>1 DEF TypeOK
<1>6. Ids \subseteq Jobs
  BY <1>1 DEF TypeOK
<1>7. \A j \in Ids : job'[j] = Of(j).row /\ lessons'[j] = AtMostTwo(lessons[j] + Of(j).lessons)
  BY <1>1, <1>6
<1>8. \A j \in Jobs \ Ids : job'[j] = job[j] /\ lessons'[j] = lessons[j]
  BY <1>1
<1>9. \A b \in Actors \ {a} : \A w \in done[b] : w.id \notin Ids
  BY DEF IInv, OneWriter
<1>10. \A j \in Ids : lessons[j] \in 0..2
  BY <1>1, <1>6 DEF TypeOK
<1>11. job' \in [Jobs -> Rows] /\ lessons' \in [Jobs -> 0..2]
  <2>1. \A j \in Jobs : job[j] \in Rows /\ lessons[j] \in 0..2
    BY <1>1 DEF TypeOK, Rows
  <2>2. \A j \in Ids : Of(j).row \in Rows /\ AtMostTwo(lessons[j] + Of(j).lessons) \in 0..2
    BY <1>5, <1>10, CountedToTwo DEF Rows
  <2> HIDE DEF Ids, Of
  <2> QED
    BY <2>1, <2>2, <1>1
<1> HIDE DEF Ids, Of
<1>12. TypeOK'
  BY <1>1, <1>3, <1>4, <1>11 DEF TypeOK, Read, Write, Rows
<1>13. AttemptLeft'
  <2>1. ASSUME NEW j \in Jobs, job'[j].status = "queued"
        PROVE  job'[j].attempts < MaxAttempts
    BY <2>1, <1>5, <1>7, <1>8 DEF IInv, AttemptLeft
  <2> QED
    BY <2>1, <1>3 DEF IInv, AttemptLeft
<1>14. \A b \in Actors : done'[b] \subseteq done[b]
  BY <1>3
<1>15. OneWriter'
  BY <1>14 DEF IInv, OneWriter
<1>16. ReplacesQueued'
  <2>1. ASSUME NEW b \in Actors, NEW w \in done'[b]
        PROVE  w.id \in stale \/ job'[w.id].status = "queued"
    <3>1. b # a /\ w \in done[b] /\ w.id \in Jobs \ Ids
      BY <1>1, <1>3, <1>9 DEF TypeOK
    <3> QED
      BY <3>1, <1>8 DEF IInv, ReplacesQueued
  <2> QED
    BY <2>1, <1>1 DEF ReplacesQueued
<1>17. ASSUME NEW j \in Ids
       PROVE  lessons[j] = 0 \/ j \in stale \cup partial
  <2>1. j \in stale \/ job[j].status = "queued"
    BY <1>5 DEF IInv, ReplacesQueued
  <2>2. lessons[j] > 0 => job[j].status = "completed" \/ j \in stale \cup partial
    BY <1>6 DEF IInv, LessonsComplete
  <2> QED
    BY <2>1, <2>2, <1>10
<1>18. LessonsComplete'
  <2>1. ASSUME NEW j \in Jobs, lessons'[j] > 0
        PROVE  job'[j].status = "completed" \/ j \in stale \cup partial
    <3>1. CASE j \in Ids
      <4>1. lessons[j] > 0 \/ Of(j).lessons > 0
        BY <2>1, <3>1, <1>5, <1>7, <1>10, CountedToTwo
      <4>2. Of(j).lessons > 0 => Of(j).row.status = "completed" \/ j \in partial
        BY <3>1, <1>5 DEF IInv, LessonsComplete
      <4> QED
        BY <4>1, <4>2, <3>1, <1>7, <1>10, <1>17
    <3>2. CASE j \notin Ids
      BY <2>1, <3>2, <1>8 DEF IInv, LessonsComplete
    <3> QED
      BY <3>1, <3>2
  <2>2. \A b \in Actors : \A w \in done'[b] : w.lessons > 0 => w.row.status = "completed" \/ w.id \in partial
    BY <1>14 DEF IInv, LessonsComplete
  <2> QED
    BY <2>1, <2>2, <1>1 DEF LessonsComplete
<1>19. HolderWorksAlone'
  <2> SUFFICES ASSUME mode = "embedded", ~leaked
               PROVE  \A b \in Actors : pc'[b] # "working" /\ DOMAIN todo'[b] = {}
    BY <1>1 DEF HolderWorksAlone
  <2>1. \A b \in Actors \ {a} : pc[b] # "working" /\ DOMAIN todo[b] = {}
    BY <1>1 DEF IInv, HolderWorksAlone
  <2> QED
    BY <2>1, <1>3
<1>20. LearnedTwiceNeedsACause'
  <2>1. ASSUME NEW j \in Jobs, lessons'[j] > 1
        PROVE  j \in stale \cup partial
    <3>1. CASE j \in Ids
      <4>1. lessons[j] > 0
        BY <2>1, <3>1, <1>5, <1>7, <1>10, CountedToTwo
      <4> QED
        BY <4>1, <3>1, <1>17
    <3>2. CASE j \notin Ids
      BY <2>1, <3>2, <1>8 DEF IInv, LearnedTwiceNeedsACause
    <3> QED
      BY <3>1, <3>2
  <2> QED
    BY <2>1, <1>1 DEF IInv, LearnedTwiceNeedsACause
<1> QED
  BY <1>12, <1>13, <1>15, <1>16, <1>18, <1>19, <1>20 DEF IInv
-----------------------------------------------------------------------------
(* The theorems *)

(* Before any run has ended there is nothing to learn. *)
LEMMA InitEstablishes == Init => IInv
<1> SUFFICES ASSUME Init
             PROVE  IInv
  OBVIOUS
<1>1. <<>> \in Seq(Read) /\ DOMAIN <<>> = {}
  BY EmptySeq, LenProperties
<1>2. TypeOK
  <2>1. todo \in [Actors -> Seq(Read)] /\ done \in [Actors -> SUBSET Write]
    BY <1>1 DEF Init
  <2>2. job \in [Jobs -> Rows] /\ lessons \in [Jobs -> 0..2] /\ faults \in 0..MaxFaults
    BY Constants DEF Init, Rows
  <2> QED
    BY <2>1, <2>2 DEF Init, TypeOK, Read, Write, Rows
<1>3. \A a \in Actors : DOMAIN todo[a] = {} /\ done[a] = {} /\ pc[a] = "idle"
  BY <1>1 DEF Init
<1>4. \A j \in Jobs : job[j].status = "absent" /\ lessons[j] = 0
  BY DEF Init
<1> QED
  BY <1>2, <1>3, <1>4
  DEF Init, IInv, AttemptLeft, OneWriter, ReplacesQueued, LessonsComplete, HolderWorksAlone,
      LearnedTwiceNeedsACause

(* Every step keeps the inductive invariant. *)
LEMMA StepKeeps == IInv /\ [Next]_vars => IInv'
<1> SUFFICES ASSUME IInv, [Next]_vars
             PROVE  IInv'
  OBVIOUS
<1>1. ASSUME NEW j \in Jobs, Arrive(j) \/ ReadOne(j)
      PROVE  IInv'
  BY <1>1, ArriveKeeps, ReadOneKeeps
<1>2. ASSUME NEW p \in Pollers, Poll(p)
      PROVE  IInv'
  BY <1>2, PollKeeps
<1>3. ASSUME NEW s \in Sweepers, Sweep(s)
      PROVE  IInv'
  BY <1>3, SweepKeeps
<1>4. ASSUME NEW a \in Actors, Work(a) \/ RollBack(a) \/ Crash(a)
      PROVE  IInv'
  BY <1>4, ProcessKeeps, CommitKeeps, RollBackKeeps, CrashKeeps DEF Work
<1>5. CASE Expire
  BY <1>5, ExpireKeeps
<1>6. CASE UNCHANGED vars
  <2>1. UNCHANGED <<mode, job, lessons, lock, pc, todo, done, faults, stale, partial, leaked>>
    BY <1>6 DEF vars, rows, history
  <2>2. TypeOK' /\ LearnedTwiceNeedsACause'
    BY <2>1 DEF IInv, TypeOK, LearnedTwiceNeedsACause
  <2>3. AttemptLeft' /\ OneWriter' /\ ReplacesQueued' /\ LessonsComplete'
    BY <2>1 DEF IInv, AttemptLeft, OneWriter, ReplacesQueued, LessonsComplete
  <2>4. HolderWorksAlone'
    BY <2>1 DEF IInv, HolderWorksAlone
  <2> QED
    BY <2>2, <2>3, <2>4 DEF IInv
<1> QED
  BY <1>1, <1>2, <1>3, <1>4, <1>5, <1>6 DEF Next

(* IInv is an inductive invariant of the learning queue. *)
THEOREM Inductive == Spec => []IInv
BY InitEstablishes, StepKeeps, PTL DEF Spec

(* Job rows, what drains have read and written, and the lock keep their     *)
(* types: no job is attempted more often than it may be (learning.py:       *)
(* drain_post_mortem_queue; worker.py: process_post_mortem_job).            *)
THEOREM TypeCorrect == Spec => []TypeOK
<1>1. IInv => TypeOK
  BY DEF IInv
<1> QED
  BY <1>1, Inductive, PTL

(* A run's lessons are written twice only after an attempt that failed      *)
(* halfway or by drains that read the row before either wrote it, and       *)
(* pollers do the latter only when the lock expired under one of them or    *)
(* Redis failed (learning.py: learning_worker_loop,                         *)
(* drain_post_mortem_queue; worker.py: process_post_mortem_job).            *)
THEOREM TwiceForACause == Spec => []LearnedTwiceNeedsACause
<1>1. IInv => LearnedTwiceNeedsACause
  BY DEF IInv
<1> QED
  BY <1>1, Inductive, PTL
=============================================================================
