------------------------ MODULE MCSubagentWorktree ------------------------
(* TLC instances of SubagentWorktree. *)
EXTENDS SubagentWorktreeInv, TLC

\* Agents differ only in their names.
AgentSymmetry == Permutations(Agents)
=============================================================================
