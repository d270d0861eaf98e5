------------------------------ MODULE Services ------------------------------
(***************************************************************************)
(* The services that keep their state in one process, each behind a lock   *)
(* of its own: the coordinator's registry (Registry) and what runs in      *)
(* front of the engine (Frontends).  No operation of one reads the state   *)
(* of another, so each is explored while the others are in their initial   *)
(* states.                                                                 *)
(***************************************************************************)
EXTENDS Registry, Frontends

CONSTANT MaxFollowers   \* bound on follower entries: mixed-mode registration
                        \* can pile up duplicates without limit

FewFollowers == Cardinality(followers) <= MaxFollowers

\* Nodes, namespaces and writers are only compared.
ServicesSymmetry == Symmetry \cup Permutations(Nodes)

ServicesInit == Init /\ FrontendsInit

ServicesNext ==
  \/ Init /\ FrontendsNext /\ UNCHANGED vars
  \/ /\ AgentsInit /\ MemoryInit /\ SupervisorRests
     /\ Next
     /\ UNCHANGED <<agent_vars, memory_vars, sup_vars>>

ServicesSpec == ServicesInit /\ [][ServicesNext]_<<vars, agent_vars, memory_vars, sup_vars>>
=============================================================================
