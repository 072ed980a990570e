------------------------------ MODULE MCAlerts ------------------------------
(* A delivery for each of two approvals, or two approvals for one.         *)
EXTENDS Alerts, TLC

CONSTANTS a1, a2

OneRow     == {1}
TwoRows    == {1, 2}
OneTry     == [t \in Rows |-> 1]
TwoTries   == [t \in Rows |-> 2]
EachItsOwn == [t \in Rows |-> t]
RowEach    == [a \in Approvals |-> IF a = a1 THEN 1 ELSE 2]
ForOne     == [a \in Approvals |-> 1]
InUtc      == [a \in Approvals |-> "utc"]
=============================================================================
