---------------------------- MODULE MCApprovals ----------------------------
(* The approvals table under two connections, two concurrent decisions, a  *)
(* single-use and a reusable approval.                                     *)
EXTENDS Approvals, TLC

InUtc  == [a \in Approvals |-> "utc"]
InAsia == [a \in Approvals |-> "ahead"]
MCSymmetry == Permutations(Conns) \cup Permutations(Deciders)
=============================================================================
