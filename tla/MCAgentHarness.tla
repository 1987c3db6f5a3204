-------------------------- MODULE MCAgentHarness --------------------------
(* TLC instances of AgentHarness. *)
EXTENDS AgentHarnessStatusInv, TLC

\* Sessions differ only in their names.
SessionSymmetry == Permutations(Sessions)
=============================================================================
