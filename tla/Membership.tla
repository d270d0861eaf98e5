----------------------------- MODULE Membership -----------------------------
(***************************************************************************)
(* The two stages of a shard's raft group: its formation at launch         *)
(* (GroupFormation), and the reconciliation of its membership with the     *)
(* coordinator's list from then on (Reconciler).                           *)
(*                                                                         *)
(* A member runs its reconciler after bootstrap_group has returned, and    *)
(* bootstrap_group is not called again, so a behaviour is in one stage:    *)
(* the second starts from the voters of any group that was formed.         *)
(***************************************************************************)
EXTENDS Reconciler, GroupFormation

VARIABLE stage   \* "forming" or "formed"

stages == <<vars, formation_vars, stage>>

MembershipInit ==
  /\ Init /\ FormationInit
  /\ stage \in {"forming", "formed"}

Forming(A) == stage = "forming" /\ A /\ UNCHANGED <<vars, stage>>

Formed(A) == stage = "formed" /\ A /\ UNCHANGED <<formation_vars, stage>>

MembershipNext == Forming(FormationNext) \/ Formed(Next)

\* The fairness of the stage: FormationFair, or Fairness
MembershipFair ==
  /\ WF_stages(Forming(FounderStep))
  /\ \A n \in Nodes : WF_stages(Formed(Pass(n))) /\ WF_stages(Formed(Register(n)))
  /\ WF_stages(Formed(leader = 0 /\ \E n \in Nodes : Elect(n)))

MembershipSpec == MembershipInit /\ [][MembershipNext]_stages /\ MembershipFair

-----------------------------------------------------------------------------
\* A launch without restarts and joining nodes ends with a group: some founder
\* finds itself the smallest of the list it waits for, however late and in
\* whatever order the others register with the coordinators.  With a joining
\* node in the lists every founder may miss its own entry or find a smaller id,
\* and none initializes.
GroupForms ==
  <>(stage = "formed" \/ ~Clean \/ \E n \in Founders : initialized[n] # {})
=============================================================================
