------------------------------- MODULE Totals -------------------------------
(***************************************************************************)
(* The total of a table's column: the sum of the values of a function into *)
(* the natural numbers.  A value is counted out unit by unit, each unit    *)
(* marked with its row, and the units are then counted: a sum stated so,   *)
(* without recursion, is one that facts about finite sets reason about.    *)
(***************************************************************************)
EXTENDS Integers, FiniteSets

UnitsOf(f, w) == {w} \X (1..f[w])

Total(f) == Cardinality(UNION {UnitsOf(f, w) : w \in DOMAIN f})
=============================================================================
