--------------------------- MODULE MCBackupRestore ---------------------------
(* Two plans, each with its approvals, and two paths.                      *)
EXTENDS BackupRestore, TLC

CONSTANTS a1, a2, a3, f1, f2

OneRow     == {1}
TwoRows    == {1, 2}
TwoTries   == [t \in Rows |-> 2]
FewTries   == [t \in Rows |-> IF t = 1 THEN 2 ELSE 1]
EachItsOwn == [t \in Rows |-> t]
LastForTwo == [a \in Approvals |-> IF a = a3 THEN 2 ELSE 1]
ForOne     == [a \in Approvals |-> 1]
InUtc      == [a \in Approvals |-> "utc"]

PathSymmetry == Permutations(Files)
MCSymmetry   == Permutations(Conns) \cup Permutations(Files)
=============================================================================
