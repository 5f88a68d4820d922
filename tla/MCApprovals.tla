---------------------------- MODULE MCApprovals ----------------------------
(* One card, its requester and another member, three clicks. *)
EXTENDS Approvals, TLC

CONSTANTS ann, bob

MCRequesterOf == [t \in Cards |-> ann]
MCClickSymmetry == Permutations(Clicks)

=============================================================================
