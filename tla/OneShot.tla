------------------------------ MODULE OneShot -------------------------------
(***************************************************************************)
(* What an approval-gated outbox promises: an irreversible effect (a new   *)
(* object in the bucket, a new file at the restore target) is produced     *)
(* only for a plan that was granted, at most once per place, and never for *)
(* a plan whose outcome is known.  The outcome is decided once; "kept"     *)
(* means the place holds what this plan put there.                         *)
(***************************************************************************)
CONSTANTS Plans, Places, PlaceOf, Nobody

VARIABLES
  granted,   \* plans Sean has authorised
  holder,    \* per place, the plan whose effect it holds
  outcome    \* per plan

Outcomes == {"kept", "failed", "held"}

Init ==
  /\ granted = {}
  /\ holder  = [k \in Places |-> Nobody]
  /\ outcome = [t \in Plans |-> "open"]

Grant(t) ==
  /\ granted' = granted \cup {t}
  /\ UNCHANGED <<holder, outcome>>

Act(t) ==
  /\ t \in granted /\ outcome[t] = "open"
  /\ holder[PlaceOf[t]] = Nobody
  /\ holder' = [holder EXCEPT ![PlaceOf[t]] = t]
  /\ UNCHANGED <<granted, outcome>>

Conclude(t, o) ==
  /\ t \in granted /\ outcome[t] = "open"
  /\ o = "kept" => holder[PlaceOf[t]] = t
  /\ outcome' = [outcome EXCEPT ![t] = o]
  /\ UNCHANGED <<granted, holder>>

(* A claim may conclude several exhausted plans at once.                   *)
ConcludeFailed(T) ==
  /\ \A t \in T : t \in granted /\ outcome[t] = "open"
  /\ outcome' = [t \in Plans |-> IF t \in T THEN "failed" ELSE outcome[t]]
  /\ UNCHANGED <<granted, holder>>

Next ==
  \/ \E t \in Plans : Grant(t) \/ Act(t) \/ \E o \in Outcomes : Conclude(t, o)
  \/ \E T \in SUBSET Plans : ConcludeFailed(T)

Spec == Init /\ [][Next]_<<granted, holder, outcome>>
=============================================================================
