---------------------------- MODULE MCAgentSlots ----------------------------
(* Bot and web handlers run the same operations, and repositories and agents *)
(* are only compared, so each of these sets may be permuted.                 *)
EXTENDS AgentSlots, TLC

Symmetry == Permutations(Handlers) \cup Permutations(Repos) \cup Permutations(Agents)
=============================================================================
