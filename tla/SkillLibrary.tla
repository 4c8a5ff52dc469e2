---------------------------- MODULE SkillLibrary ----------------------------
(***************************************************************************)
(* The executable skills of a team, services/skills.py: their rows, the    *)
(* statistics that promote and quarantine them, the audit of their         *)
(* executions, and the requests of api/v1/skills.py.                       *)
(*                                                                         *)
(* A database session works on its own copies of the rows.  It loads a row *)
(* once, counts in the copy, and a flush writes the columns that changed;  *)
(* the row is then locked until the session commits or rolls back.         *)
(***************************************************************************)
EXTENDS Naturals, FiniteSets, Functions

CONSTANTS
    Skills,           \* rows of agent_skills that may come to exist
    Sessions,         \* database sessions: requests, and those of AgentRuntime
    Callers,          \* the sessions of requests for /skills/{id}/execute
    PromoteAfter,     \* 3: successes that verify a candidate without failures
    QuarantineAfter,  \* 5: failures that quarantine a skill without successes
    MaxExecutions     \* bound of the model: no request begins after so many executions

ASSUME LibraryAssumption ==
    /\ Callers \subseteq Sessions
    /\ PromoteAfter \in Nat \ {0}
    /\ QuarantineAfter \in Nat \ {0}
    /\ MaxExecutions \in Nat

VARIABLES
    enabled,  \* SANDBOX_ENABLED
    skill,    \* agent_skills, as committed
    audit,    \* skill_executions, as committed: successes and failures of each skill
    view,     \* the rows each session has loaded and counted in; absent: not loaded
    wrote,    \* the columns it has flushed
    ran,      \* the executions it has flushed
    stale,    \* history: the rows it has flushed although they had changed since it loaded them
    raced,    \* history: skills of which such a flush was committed
    smoked    \* history: skills registered as verified

committed == <<skill, audit, raced, smoked>>

session == <<view, wrote, ran, stale>>

library == <<enabled, committed, session>>

Retired == {"deprecated", "quarantined"}

Statuses == {"candidate", "verified"} \cup Retired

(* Latency and time of use are left out: nothing is decided by them. *)
Columns == {"status", "uses", "ok", "bad"}

Row == [status : Statuses, uses : Nat, ok : Nat, bad : Nat]

Absent == [status |-> "absent", uses |-> 0, ok |-> 0, bad |-> 0]

Tally == [ok : Nat, bad : Nat]

Nothing == [ok |-> 0, bad |-> 0]

LibraryTypeOK ==
    /\ enabled \in BOOLEAN
    /\ skill \in [Skills -> Row \cup {Absent}]
    /\ audit \in [Skills -> Tally]
    /\ view \in [Sessions -> [Skills -> Row \cup {Absent}]]
    /\ wrote \in [Sessions -> [Skills -> SUBSET Columns]]
    /\ ran \in [Sessions -> [Skills -> Tally]]
    /\ stale \in [Sessions -> SUBSET Skills]
    /\ raced \subseteq Skills /\ smoked \subseteq Skills

LibraryInit ==
    /\ enabled \in BOOLEAN
    /\ skill = [k \in Skills |-> Absent]
    /\ audit = [k \in Skills |-> Nothing]
    /\ view = [s \in Sessions |-> [k \in Skills |-> Absent]]
    /\ wrote = [s \in Sessions |-> [k \in Skills |-> {}]]
    /\ ran = [s \in Sessions |-> [k \in Skills |-> Nothing]]
    /\ stale = [s \in Sessions |-> {}]
    /\ raced = {} /\ smoked = {}
-----------------------------------------------------------------------------
(* Sessions *)

Exists(k) == skill[k] # Absent

Loaded(s, k) == view[s][k] # Absent

(* SkillService.search: only skills in use are offered. *)
Searchable == {k \in Skills : skill[k].status \in {"verified", "candidate"}}

(* A row that the session already holds is not read again. *)
Load(s, ks) ==
    view' = [view EXCEPT ![s] = [k \in Skills |-> IF k \in ks /\ ~Loaded(s, k) THEN skill[k] ELSE @[k]]]

Locked(s, k) == \E t \in Sessions \ {s} : wrote[t][k] # {}

(* The session is over without a commit. *)
Close(s) ==
    /\ view' = [view EXCEPT ![s] = [k \in Skills |-> Absent]]
    /\ wrote' = [wrote EXCEPT ![s] = [k \in Skills |-> {}]]
    /\ ran' = [ran EXCEPT ![s] = [k \in Skills |-> Nothing]]
    /\ stale' = [stale EXCEPT ![s] = {}]

(* The columns it has flushed and its executions become visible. *)
Publish(s) ==
    /\ skill' = [k \in Skills |->
                    [c \in Columns |-> IF c \in wrote[s][k] THEN view[s][k][c] ELSE skill[k][c]]]
    /\ audit' = [k \in Skills |->
                    [ok |-> audit[k].ok + ran[s][k].ok, bad |-> audit[k].bad + ran[s][k].bad]]
    /\ raced' = raced \cup stale[s]
    /\ Close(s)
    /\ UNCHANGED <<enabled, smoked>>
-----------------------------------------------------------------------------
(* run_in_sandbox *)

(* An answer, an error or the time limit is a result; a process that cannot *)
(* be started raises.                                                      *)
Subprocess == {"ok", "bad", "raises"}

(* Any error of the Docker API falls over to a subprocess, also after the   *)
(* container has run the code.                                             *)
Docker == {"ok", "bad"} \cup Subprocess

(* Stored code has passed the validation it is put through again here. *)
RunInSandbox == IF enabled THEN Docker \cup Subprocess ELSE {"raises"}
-----------------------------------------------------------------------------
(* SkillService.execute *)

(* Mutant: promotion does not look at the status. *)
Counted_Revives(row, success) ==
    LET new == [row EXCEPT !.uses = @ + 1, !.ok = @ + (IF success THEN 1 ELSE 0), !.bad = @ + (IF success THEN 0 ELSE 1)]
    IN [new EXCEPT !.status =
           CASE new.ok >= PromoteAfter /\ new.bad = 0 -> "verified"
             [] new.bad >= QuarantineAfter /\ new.ok = 0 -> "quarantined"
             [] OTHER -> @]

(* The statistics after an execution, and the status they lead to. *)
Counted(row, success) ==
    LET new == [row EXCEPT !.uses = @ + 1, !.ok = @ + (IF success THEN 1 ELSE 0), !.bad = @ + (IF success THEN 0 ELSE 1)]
    IN [new EXCEPT !.status =
           CASE @ = "candidate" /\ new.ok >= PromoteAfter /\ new.bad = 0 -> "verified"
             [] new.bad >= QuarantineAfter /\ new.ok = 0 -> "quarantined"
             [] OTHER -> @]

(* Mutant: a failed execution leaves no audit row. *)
Executed_SuccessesOnly(s, k, success) ==
    LET new == Counted(view[s][k], success)
    IN /\ ~Locked(s, k)
       /\ view' = [view EXCEPT ![s][k] = new]
       /\ wrote' = [wrote EXCEPT ![s][k] = @ \cup {c \in Columns : new[c] # view[s][k][c]}]
       /\ ran' = IF success THEN [ran EXCEPT ![s][k].ok = @ + 1] ELSE ran
       /\ stale' = IF wrote[s][k] = {} /\ view[s][k] # skill[k] THEN [stale EXCEPT ![s] = @ \cup {k}] ELSE stale
       /\ UNCHANGED <<enabled, committed>>

(* The sandbox has answered: audit row and statistics are flushed, from     *)
(* what the session read before the sandbox ran, which may be long ago.    *)
Executed(s, k, success) ==
    LET new == Counted(view[s][k], success)
    IN /\ ~Locked(s, k)
       /\ view' = [view EXCEPT ![s][k] = new]
       /\ wrote' = [wrote EXCEPT ![s][k] = @ \cup {c \in Columns : new[c] # view[s][k][c]}]
       /\ ran' = IF success THEN [ran EXCEPT ![s][k].ok = @ + 1] ELSE [ran EXCEPT ![s][k].bad = @ + 1]
       /\ stale' = IF wrote[s][k] = {} /\ view[s][k] # skill[k] THEN [stale EXCEPT ![s] = @ \cup {k}] ELSE stale
       /\ UNCHANGED <<enabled, committed>>

(* Execute: the sandbox's result for k, or an exception that changes nothing. *)
Execute(s, k) ==
    \E result \in RunInSandbox :
        IF result = "raises" THEN UNCHANGED library ELSE Executed(s, k, result = "ok")
-----------------------------------------------------------------------------
(* Requests *)

(* SkillService.register: a smoke test that passes verifies the skill; a    *)
(* skill that fails validation or the test is not stored.                  *)
Register(k) ==
    /\ ~Exists(k)
    /\ \E smoke_tested \in BOOLEAN :
          /\ smoke_tested => enabled
          /\ skill' = [skill EXCEPT ![k] = [Absent EXCEPT !.status = IF smoke_tested THEN "verified" ELSE "candidate"]]
          /\ smoked' = IF smoke_tested THEN smoked \cup {k} ELSE smoked
    /\ UNCHANGED <<enabled, audit, raced, session>>

(* deprecate_skill; of a skill that is deprecated already no column changes, *)
(* and nothing is written.                                                  *)
Deprecate(k) ==
    /\ Exists(k) /\ skill[k].status # "deprecated"
    /\ \A s \in Sessions : wrote[s][k] = {}
    /\ skill' = [skill EXCEPT ![k].status = "deprecated"]
    /\ UNCHANGED <<enabled, audit, raced, smoked, session>>

Idle(c) == \A k \in Skills : ~Loaded(c, k)

(* execute_skill begins; it does not ask what status the skill has. *)
CallBegins(c, k) ==
    /\ Idle(c)
    /\ Exists(k)
    /\ FoldFunction(+, 0, [j \in Skills |-> audit[j].ok + audit[j].bad]) < MaxExecutions
    /\ Load(c, {k})
    /\ UNCHANGED <<enabled, committed, wrote, ran, stale>>

(* Its execution raises, or is counted ... *)
CallRuns(c, k) ==
    /\ Loaded(c, k) /\ wrote[c][k] = {}
    /\ \E result \in RunInSandbox :
          IF result = "raises" THEN Close(c) /\ UNCHANGED <<enabled, committed>> ELSE Executed(c, k, result = "ok")

(* ... and committed when the request ends. *)
CallEnds(c, k) ==
    /\ wrote[c][k] # {}
    /\ Publish(c)

Library ==
    \/ \E k \in Skills : Register(k) \/ Deprecate(k)
    \/ \E c \in Callers, k \in Skills : CallBegins(c, k) \/ CallRuns(c, k) \/ CallEnds(c, k)
-----------------------------------------------------------------------------
(* Properties *)

(* Statistics never claim an execution that the audit does not show: each   *)
(* count is at most that of the audit and falls behind only when two        *)
(* sessions counted on the same row; a candidate that was promoted has      *)
(* really succeeded often enough (skills.py 133-171).                      *)
CountersTrailAudit ==
    \A k \in Skills :
        LET row == skill[k] IN
        /\ row.uses <= audit[k].ok + audit[k].bad /\ row.ok <= audit[k].ok /\ row.bad <= audit[k].bad
        /\ k \notin raced => row.uses = row.ok + row.bad /\ row.ok = audit[k].ok /\ row.bad = audit[k].bad
        /\ row.status = "verified" /\ k \notin smoked => audit[k].ok >= PromoteAfter

(* A skill that was deprecated or quarantined is taken into use again only  *)
(* by a session that had read it before and writes its statistics over the  *)
(* new ones (skills.py 133-171, api/v1/skills.py 87-100).                  *)
RetiredStaysRetired ==
    [][\A k \in Skills :
          skill[k].status \in Retired /\ skill'[k].status \notin Retired => \E s \in Sessions : k \in stale[s]]_library
-----------------------------------------------------------------------------
(* The library's part of the inductive invariant of AgentRuntimeProofs *)

(* A session holds rows that exist, writes rows that it holds, and executes *)
(* nothing without writing.                                                 *)
SessionsInOrder ==
    \A s \in Sessions, k \in Skills :
        /\ Loaded(s, k) => Exists(k)
        /\ wrote[s][k] # {} => Loaded(s, k)
        /\ wrote[s][k] = {} => ran[s][k] = Nothing

(* No two sessions have written the same row. *)
OneWriter ==
    \A s, t \in Sessions, k \in Skills : wrote[s][k] # {} /\ wrote[t][k] # {} => s = t

(* What CountersTrailAudit says of the committed rows, a session's copies   *)
(* obey with the executions it has not committed yet.                       *)
CopiesTrailAudit ==
    \A s \in Sessions, k \in Skills :
        LET row == view[s][k]
            oks == audit[k].ok + ran[s][k].ok
            bads == audit[k].bad + ran[s][k].bad
        IN /\ row.uses <= oks + bads /\ row.ok <= oks /\ row.bad <= bads
           /\ row.status = "verified" /\ k \notin smoked => oks >= PromoteAfter

(* A row that had not changed when a session first wrote it has not changed *)
(* since: what the session did not write is as committed, what it counted   *)
(* is what it executed, and it took no retired skill into use.              *)
FreshWrites ==
    \A s \in Sessions, k \in Skills :
        (wrote[s][k] # {} /\ k \notin stale[s]) =>
            /\ \A c \in Columns \ wrote[s][k] : view[s][k][c] = skill[k][c]
            /\ view[s][k].uses = skill[k].uses + ran[s][k].ok + ran[s][k].bad
            /\ view[s][k].ok = skill[k].ok + ran[s][k].ok
            /\ view[s][k].bad = skill[k].bad + ran[s][k].bad
            /\ skill[k].status \in Retired => view[s][k].status \in Retired

LibraryInv ==
    /\ LibraryTypeOK
    /\ SessionsInOrder
    /\ OneWriter
    /\ CopiesTrailAudit
    /\ FreshWrites
    /\ CountersTrailAudit
=============================================================================
