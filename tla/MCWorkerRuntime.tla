-------------------------- MODULE MCWorkerRuntime --------------------------
(* The worker on small instances.  WorkerIdOf gives every process its own  *)
(* --worker-id, or all of them the default.                                *)
EXTENDS WorkerRuntime, TLC

CONSTANTS
  a1,           \* the approval the payloads name
  localWorker1  \* the default worker id, where processes share it

MCWorkerIdOf == [p \in Conns |-> p]
SharedWorkerId == [p \in Conns |-> localWorker1]
ConnSymmetry == Permutations(Conns)

(* One free item, retried once.                                            *)
OneItem       == {1}
OneAttempts   == <<2>>
OnePriority   == <<1>>
OneCost       == <<0>>
OneLocal      == <<"LOCAL">>
OneUnapproved == <<NoApproval>>

(* Two items: a paid local one and an approval-gated one, the younger the  *)
(* more urgent.                                                            *)
TwoItems      == 1..2
TwoPriority   == <<2, 1>>
TwoAttempts   == <<2, 1>>
TwoCost       == <<1, 0>>
TwoGates      == <<"LOCAL", "APPROVAL">>
TwoApprovals  == <<NoApproval, a1>>

(* The gated one names no approval.                                        *)
NoneNamed     == <<NoApproval, NoApproval>>

(* Two items whose payloads name the same approval.                        *)
SharedGates     == <<"APPROVAL", "APPROVAL">>
SharedApprovals == <<a1, a1>>
SharedCost      == <<0, 0>>
SharedAttempts  == <<1, 1>>

InUtc == [a \in Approvals |-> "utc"]
=============================================================================
