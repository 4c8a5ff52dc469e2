--------------------------- MODULE MCAgentRuntime ---------------------------
(* AgentRuntime and SkillLibrary: one invocation and one request that      *)
(* share two skills.                                                       *)
EXTENDS AgentRuntime, TLC

CONSTANTS a1, c1, k1, k2

MCSkills == {k1, k2}

MCAgents == {a1}

MCCallers == {c1}

MCSessions == MCAgents \cup MCCallers

SkillsAreAlike == Permutations(MCSkills)
=============================================================================
