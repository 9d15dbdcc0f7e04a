------------------------- MODULE MCApprovalManager -------------------------
(* Small instances of ApprovalManager for TLC. *)
EXTENDS ApprovalManager, TLC

CONSTANTS alice, bob, a1, a2

MCApprovalIds == {a1, a2}
TwoApprovers == {alice, bob} \cup Timers

(* Approvers are interchangeable, and so are the uuids; the timer is neither. *)
Symmetry == Permutations({alice, bob}) \cup Permutations(MCApprovalIds)
=============================================================================
