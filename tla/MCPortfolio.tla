----------------------------- MODULE MCPortfolio -----------------------------
(* Two plans of the agents and a project recorded by hand; a maintenance   *)
(* and a review with room for one, of which only the maintenance finds the *)
(* poor plan's fit too low; and one evaluation.                            *)
EXTENDS Portfolio, TLC

CONSTANTS good, poor, hand, p1, p2

Scores    == [x \in Plans |-> CASE x = hand -> 3 [] x = poor -> 2 [] x = good -> 1]
Fits      == [x \in Plans |-> CASE x = hand -> 3 [] x = poor -> 1 [] x = good -> 2]
OnePart   == [x \in Plans |-> 1]
OfficeJobs == {[does |-> "create", plan |-> good], [does |-> "create", plan |-> poor],
               [does |-> "record", plan |-> hand],
               [does |-> "maintain", cap |-> 1, threshold |-> 2],
               [does |-> "review", ids |-> {1, 2}, cap |-> 1, threshold |-> 1],
               [does |-> "evaluate", id |-> 1, verdict |-> "ACTIVE"]}

MCSymmetry == Permutations(Workers)
=============================================================================
