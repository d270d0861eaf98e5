----------------------------- MODULE Frontends -----------------------------
(***************************************************************************)
(* What runs in front of the engine: the agents' loop and briefing         *)
(* (Agents), agent memory (Memory) and the dashboard's process supervisor  *)
(* (Supervisor).  They share no state and do not call each other, so each  *)
(* is explored while the others are in their initial states.               *)
(***************************************************************************)
EXTENDS Agents, Memory, Supervisor, TLC

\* Namespaces and writers are only compared.
Symmetry == Permutations(Namespaces) \cup Permutations(Writers)

Others(A, B) == UNCHANGED A /\ UNCHANGED B

FrontendsInit == AgentsInit /\ MemoryInit /\ SupervisorInit

\* The supervisor's mode means nothing to the others: one will do for them.
SupervisorRests == SupervisorInit /\ ~mode_raft /\ ~remote

FrontendsNext ==
  \/ MemoryInit /\ SupervisorRests /\ AgentsNext /\ Others(memory_vars, sup_vars)
  \/ AgentsInit /\ SupervisorRests /\ MemoryNext /\ Others(agent_vars, sup_vars)
  \/ AgentsInit /\ MemoryInit /\ SupervisorNext /\ Others(agent_vars, memory_vars)

FrontendsSpec == FrontendsInit /\ [][FrontendsNext]_<<agent_vars, memory_vars, sup_vars>>
=============================================================================
