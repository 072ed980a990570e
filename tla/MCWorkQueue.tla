---------------------------- MODULE MCWorkQueue ----------------------------
(* The queue on a small instance.  Both items cost money and the limits    *)
(* fit one of them or both, so that holding, charging and refusing all     *)
(* happen; the younger is the more urgent, so that priority and age        *)
(* disagree; one may be tried again and the other not.                     *)
EXTENDS WorkQueue, TLC

MCItems       == 1..2
MCWorkerIdOf  == [p \in Conns |-> p]
MCPriority    == <<2, 1>>
MCMaxAttempts == <<1, 2>>
MCCost        == <<1, 2>>
MCLimits      == {1, 3}

ConnSymmetry == Permutations(Conns)
=============================================================================
