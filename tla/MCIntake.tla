------------------------------ MODULE MCIntake ------------------------------
(* One day's report; a delivery that is asked for under two request ids;   *)
(* and an import that comes again with other contents.                     *)
EXTENDS Intake, TLC

CONSTANTS day, delivery, import, altered, note, r1, r2

Kinds5 == [c \in Commands |->
  CASE c = day -> "REPORT" [] c = delivery -> "DELIVERY" [] c = note -> "NOTE" [] OTHER -> "IMPORT"]
Keys5  == [c \in Commands |-> IF c = altered THEN import ELSE c]
Calls5 == {<<r2, note>>, <<r1, delivery>>, <<r2, delivery>>, <<r1, import>>, <<r2, altered>>}

MCSymmetry == Permutations(Workers) \cup Permutations(Gateways)
=============================================================================
