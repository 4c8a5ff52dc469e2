---------------------------- MODULE AgentRuntime ----------------------------
(***************************************************************************)
(* One invocation of a person node, services/agent_runtime.py, as the      *)
(* LangGraph node runs it in a session of its own: persona assembly, the   *)
(* skill loop with its approval gate, the constitutional audit, and the    *)
(* commit.  Several invocations and the requests of SkillLibrary share the *)
(* skills.                                                                 *)
(*                                                                         *)
(* A gate that has no verdict yet interrupts the graph: the session is     *)
(* rolled back, and once the operator has decided, the node is executed    *)
(* again from its start.  Its gates then take the verdicts in the order in *)
(* which they were given.                                                  *)
(***************************************************************************)
EXTENDS SkillLibrary, Sequences

CONSTANTS
    Agents,       \* invocations
    Gated,        \* those with a gate: LangGraph's, under HITL_REQUIRE_APPROVAL_FOR_NEW_SKILLS
    MaxRounds,    \* 4: _MAX_SKILL_ITERATIONS
    MaxRetries,   \* 2: _MAX_CONSTITUTION_RETRIES
    MaxVerdicts   \* bound of the model: verdicts an operator gives one invocation

ASSUME RuntimeAssumption ==
    /\ Agents \subseteq Sessions
    /\ Agents \cap Callers = {}
    /\ Gated \subseteq Agents
    /\ MaxRounds \in Nat /\ MaxRetries \in Nat /\ MaxVerdicts \in Nat

VARIABLES
    provider,   \* what LLMGateway answers with
    phase,      \* where each invocation is
    round,      \* iteration of the skill loop
    want,       \* the skill it has asked for
    gates,      \* gates passed in this execution of the node
    verdicts,   \* the operator's verdicts, and the skill each was asked for
    retries,    \* constitution_retries: audits failed
    unverified  \* history, until the last gate: unverified skills run behind the gate in this
                \* execution of the node, each with the number of gates passed until then

invocation == <<provider, phase, round, want, gates, verdicts, retries, unverified>>

vars == <<library, invocation>>

Phases == {"ready", "thinking", "gate", "running", "auditing", "suspended", "over"}

TypeOK ==
    /\ LibraryTypeOK
    /\ provider \in {"real", "mock", "missing"}
    /\ phase \in [Agents -> Phases]
    /\ round \in [Agents -> 0..MaxRounds]
    /\ want \in [Agents -> Skills]
    /\ gates \in [Agents -> Nat]
    /\ verdicts \in [Agents -> Seq([skill : Skills, approved : BOOLEAN])]
    /\ \A a \in Agents : gates[a] <= Len(verdicts[a])
    /\ retries \in [Agents -> 0..MaxRetries + 1]
    /\ unverified \in [Agents -> Seq([skill : Skills, gate : Nat])]

Init ==
    /\ LibraryInit
    /\ provider \in {"real", "mock", "missing"}
    /\ phase = [a \in Agents |-> "ready"]
    /\ round = [a \in Agents |-> 0]
    /\ want \in [Agents -> Skills]
    /\ gates = [a \in Agents |-> 0]
    /\ verdicts = [a \in Agents |-> <<>>]
    /\ retries = [a \in Agents |-> 0]
    /\ unverified = [a \in Agents |-> <<>>]

Goto(a, label) == phase' = [phase EXCEPT ![a] = label]

At(a, label) == phase[a] = label

(* This execution of the node has met its last gate ... *)
LeaveLoop(a) ==
    /\ round' = [round EXCEPT ![a] = 0]
    /\ gates' = [gates EXCEPT ![a] = 0]
    /\ unverified' = [unverified EXCEPT ![a] = <<>>]

(* ... and there will be no other. *)
LastExecution(a) ==
    /\ LeaveLoop(a)
    /\ verdicts' = [verdicts EXCEPT ![a] = <<>>]
-----------------------------------------------------------------------------
(* Persona assembly and the model's answers *)

(* PersonaAssembler.assemble: some of the skills in use are offered. *)
Offers == SUBSET Searchable

(* LLMGateway.complete: with a provider any answer, or an exception once    *)
(* all attempts have failed; without one the mock's answer, which calls no  *)
(* skill, or an exception.                                                 *)
Completions ==
    CASE provider = "real" -> {"answer", "call", "raises"}
      [] provider = "mock" -> {"answer"}
      [] provider = "missing" -> {"raises"}

(* ConstitutionalInterceptor.check: without a provider, without an audit    *)
(* that can be read, and without constraints, every output complies.       *)
Audits == IF provider = "real" THEN {"complies", "violates"} ELSE {"complies"}

Assemble(a) ==
    /\ At(a, "ready")
    /\ \E offered \in Offers : Load(a, offered)
    /\ Goto(a, "thinking")
    /\ UNCHANGED <<enabled, committed, wrote, ran, stale, provider, round, want, gates, verdicts, retries, unverified>>

(* An answer; a skill call in the last iteration is taken for one. *)
Answer(a) ==
    /\ At(a, "thinking")
    /\ "answer" \in Completions
    /\ LastExecution(a)
    /\ Goto(a, "auditing")
    /\ UNCHANGED <<library, provider, want, retries>>

NextRound(a) == round' = [round EXCEPT ![a] = @ + 1]

(* Mutant: calls of unknown skills may go on after the last iteration. *)
AskUnknown_Unbounded(a) ==
    /\ At(a, "thinking")
    /\ "call" \in Completions
    /\ NextRound(a)
    /\ UNCHANGED <<library, provider, phase, want, gates, verdicts, retries, unverified>>

(* A skill that was not offered: the agent is told so. *)
AskUnknown(a) ==
    /\ At(a, "thinking")
    /\ "call" \in Completions /\ round[a] < MaxRounds
    /\ NextRound(a)
    /\ UNCHANGED <<library, provider, phase, want, gates, verdicts, retries, unverified>>

(* Mutant: only quarantined skills are held back. *)
RequiresApproval_Quarantined(row) == row.status = "quarantined"

(* _requires_approval, by the row the session loaded.  Builtin skills need  *)
(* none, but nothing in the code registers a skill as builtin.             *)
RequiresApproval(row) == row.status # "verified"

Ask(a, k) ==
    /\ At(a, "thinking")
    /\ "call" \in Completions /\ round[a] < MaxRounds
    /\ Loaded(a, k)
    /\ want' = [want EXCEPT ![a] = k]
    /\ Goto(a, IF a \in Gated /\ RequiresApproval(view[a][k]) THEN "gate" ELSE "running")
    /\ UNCHANGED <<library, provider, round, gates, verdicts, retries, unverified>>
-----------------------------------------------------------------------------
(* The approval gate *)

Judged(a) == gates[a] < Len(verdicts[a])

Verdict(a) == verdicts[a][gates[a] + 1]

(* interrupt() returns the next verdict, whatever it was given for. *)
PassGate(a) ==
    /\ At(a, "gate")
    /\ Judged(a)
    /\ gates' = [gates EXCEPT ![a] = @ + 1]
    /\ \/ Verdict(a).approved /\ Goto(a, "running") /\ UNCHANGED round
       \/ ~Verdict(a).approved /\ Goto(a, "thinking") /\ NextRound(a)
    /\ UNCHANGED <<library, provider, want, verdicts, retries, unverified>>

(* interrupt() raises: what this execution of the node has flushed is lost. *)
Suspend(a) ==
    /\ At(a, "gate")
    /\ ~Judged(a)
    /\ Close(a)
    /\ LeaveLoop(a)
    /\ Goto(a, "suspended")
    /\ UNCHANGED <<enabled, committed, provider, want, verdicts, retries>>

(* The operator decides, and the node begins again. *)
Decide(a) ==
    /\ At(a, "suspended")
    /\ Len(verdicts[a]) < MaxVerdicts
    /\ \E approved \in BOOLEAN :
          verdicts' = [verdicts EXCEPT ![a] = Append(@, [skill |-> want[a], approved |-> approved])]
    /\ Goto(a, "ready")
    /\ UNCHANGED <<library, provider, round, want, gates, retries, unverified>>

(* The result, or the exception, is told to the agent. *)
RunSkill(a) ==
    /\ At(a, "running")
    /\ Execute(a, want[a])
    /\ NextRound(a)
    /\ unverified' =
          IF a \in Gated /\ view[a][want[a]].status # "verified"
          THEN [unverified EXCEPT ![a] = Append(@, [skill |-> want[a], gate |-> gates[a]])] ELSE unverified
    /\ Goto(a, "thinking")
    /\ UNCHANGED <<provider, want, gates, verdicts, retries>>
-----------------------------------------------------------------------------
(* The constitutional audit and the end *)

(* The audit fails: it is counted, whether a rewrite follows or not. *)
AuditFails(a) ==
    /\ "violates" \in Audits
    /\ retries' = [retries EXCEPT ![a] = @ + 1]

(* The output does not comply: the model rewrites it. *)
Rewrite(a) ==
    /\ At(a, "auditing")
    /\ AuditFails(a) /\ retries[a] < MaxRetries
    /\ UNCHANGED <<library, provider, phase, round, want, gates, verdicts, unverified>>

(* It complies, it cannot be audited, or the rewrites are used up and a     *)
(* refusal takes its place: the message is flushed, the dialogue turns are  *)
(* pushed, and the node commits.                                           *)
Record(a) ==
    /\ At(a, "auditing")
    /\ \/ "complies" \in Audits /\ UNCHANGED retries
       \/ AuditFails(a) /\ retries[a] >= MaxRetries
    /\ Publish(a)
    /\ Goto(a, "over")
    /\ UNCHANGED <<provider, round, want, gates, verdicts, unverified>>

(* Every attempt of a model call fails, or there is no provider; the        *)
(* database refuses a statement; the task is cancelled or its process dies. *)
Fail(a) ==
    /\ phase[a] \in {"thinking", "gate", "running", "auditing"}
    /\ Close(a)
    /\ LastExecution(a)
    /\ Goto(a, "over")
    /\ UNCHANGED <<enabled, committed, provider, want, retries>>
-----------------------------------------------------------------------------
Step(a) ==
    \/ Assemble(a) \/ Answer(a) \/ AskUnknown(a) \/ \E k \in Skills : Ask(a, k)
    \/ PassGate(a) \/ Suspend(a) \/ RunSkill(a)
    \/ Rewrite(a) \/ Record(a)

Next ==
    \/ \E a \in Agents : Step(a) \/ Decide(a) \/ Fail(a)
    \/ Library /\ UNCHANGED invocation

Spec == Init /\ [][Next]_vars
-----------------------------------------------------------------------------
(* Properties *)

(* Behind a gate every run of an unverified skill has an approval of its    *)
(* own: the operator said yes at the gate that it passed, and no other run  *)
(* of the same execution rests on that verdict, however often the node is   *)
(* executed again and however many verdicts have piled up before            *)
(* (agent_runtime.py 192-234, engine/nodes.py 464-470).                    *)
EachRunHasAnApproval ==
    \A a \in Agents :
        LET runs == unverified[a]
        IN /\ \A i \in DOMAIN runs :
                 /\ runs[i].gate \in DOMAIN verdicts[a]
                 /\ verdicts[a][runs[i].gate].approved
           /\ \A i, j \in DOMAIN runs : i < j => runs[i].gate < runs[j].gate

(* "Unverified (candidate) code must be approved before it reaches the      *)
(* sandbox" (services/agent_runtime.py:190-191): the operator has said yes  *)
(* to this very skill.  Verdicts are matched with gates by their order, and *)
(* an execution may ask for another skill than the one that was approved.   *)
OnlyApprovedSkillsRun ==
    \A a \in Agents : \A i \in DOMAIN unverified[a] :
        [skill |-> unverified[a][i].skill, approved |-> TRUE] \in {verdicts[a][j] : j \in DOMAIN verdicts[a]}
-----------------------------------------------------------------------------
(* The inductive invariant of AgentRuntimeProofs *)

(* A skill that waits for a gate or for the sandbox has been offered, in an *)
(* iteration before the last.                                               *)
AsksForOffered ==
    \A a \in Agents : phase[a] \in {"gate", "running"} => Loaded(a, want[a]) /\ round[a] < MaxRounds

(* Only the refusal that ends an invocation is counted beyond the rewrites. *)
RewritesCounted ==
    \A a \in Agents : phase[a] # "over" => retries[a] <= MaxRetries

(* Runs have passed their gates already, and an unverified skill that is    *)
(* about to run behind a gate has just passed one that no other run has.    *)
GateWasPassed ==
    \A a \in Agents :
        /\ \A i \in DOMAIN unverified[a] : unverified[a][i].gate <= gates[a]
        /\ (a \in Gated /\ phase[a] = "running" /\ RequiresApproval(view[a][want[a]])) =>
              /\ gates[a] \in DOMAIN verdicts[a] /\ verdicts[a][gates[a]].approved
              /\ \A i \in DOMAIN unverified[a] : unverified[a][i].gate < gates[a]

IInv ==
    /\ LibraryInv
    /\ TypeOK
    /\ AsksForOffered
    /\ RewritesCounted
    /\ GateWasPassed
    /\ EachRunHasAnApproval
=============================================================================
