-------------------------- MODULE MCBackupTransfer --------------------------
(* Two plans that may share an object key, or one plan; two approvals for  *)
(* the first.                                                              *)
EXTENDS BackupTransfer, TLC

CONSTANTS a1, a2, k1

OneRow     == {1}
TwoRows    == {1, 2}
TwoTries   == [t \in Rows |-> 2]
OneTry     == [t \in Rows |-> 1]
FewTries   == [t \in Rows |-> IF t = 1 THEN 2 ELSE 1]
OneTarget  == [t \in Rows |-> 1]
OneKey     == [t \in Rows |-> k1]
ForOne     == [a \in Approvals |-> 1]
EachItsOwn == [a \in Approvals |-> IF a = a1 THEN 1 ELSE 2]

MCSymmetry == Permutations(Conns)

InUtc == [a \in Approvals |-> "utc"]
=============================================================================
