----------------------------- MODULE Approvals -----------------------------
(***************************************************************************)
(* The approvals table of sean_os/store.py: requested or created, decided  *)
(* by Sean, expiring, and consumed by the action they authorise.           *)
(*                                                                         *)
(* consume_approval reads the row and updates it by id alone.  A caller    *)
(* that has opened BEGIN IMMEDIATE does both in one transaction            *)
(* (ConsumeExactly); the policy registry has not, so there the read and    *)
(* the write are two actions.                                              *)
(***************************************************************************)
EXTENDS Naturals, RuntimeState

CONSTANTS
  Approvals,   \* approval record ids, each for one exact action and target
  Reusable,    \* those created with reusable=True
  Deciders,    \* concurrent calls of decide_approval
  Zone,        \* the UTC offset each expires_at is written with, "utc" for none,
               \* "ahead" for a positive and "behind" for a negative one
  MaxUses,     \* bound of ApSpec: an approval is consumed at most this often
  NoApproval   \* no approval

ASSUME ApprovalsAssumption ==
  /\ Reusable \subseteq Approvals
  /\ NoApproval \notin Approvals
  /\ Zone \in [Approvals -> {"utc", "ahead", "behind"}]
  /\ MaxUses \in Nat

VARIABLES
  approval,    \* approvals.status, "ABSENT" before the row exists
  outdated,    \* what has passed of approvals.expires_at: the instant, its text
  deciding,    \* per call of decide_approval, the row it read as PENDING
  consuming,   \* per connection, the row consume_approval found acceptable
  uses         \* history: the number of calls of consume_approval that returned

apVars == <<approval, outdated, deciding, consuming, uses>>

ApprovalStatuses == {"ABSENT", "PENDING", "APPROVED", "DENIED", "EXPIRED", "CONSUMED"}

ApInit ==
  /\ approval  = [a \in Approvals |-> "ABSENT"]
  /\ outdated  = [a \in Approvals |-> {}]
  /\ deciding  = [d \in Deciders |-> NoApproval]
  /\ consuming = [p \in Conns |-> NoApproval]
  /\ uses      = [a \in Approvals |-> 0]

SetApproval(a, s) == approval' = [approval EXCEPT ![a] = s]

(* create_approval: Sean records a decision already taken.                 *)
CreateApproval(a) ==
  /\ approval[a] = "ABSENT"
  /\ SetApproval(a, "APPROVED")
  /\ UNCHANGED <<outdated, deciding, consuming, uses>>

(* request_approval: always single-use.                                    *)
RequestApproval(a) ==
  /\ approval[a] = "ABSENT"
  /\ a \notin Reusable
  /\ SetApproval(a, "PENDING")
  /\ UNCHANGED <<outdated, deciding, consuming, uses>>

(* decide_approval and request_*_approval parse expires_at; consume_approval *)
(* compares its text with the text of now(), which is in UTC.                *)
Overdue(a)      == "instant" \in outdated[a]
LooksOverdue(a) == "text" \in outdated[a]

FirstToPass == [utc |-> {"instant", "text"}, ahead |-> {"instant"}, behind |-> {"text"}]

ApprovalExpires(a) ==
  /\ approval[a] # "ABSENT" /\ outdated[a] # {"instant", "text"}
  /\ outdated' = [outdated EXCEPT ![a] = @ \cup (IF @ = {} THEN FirstToPass[Zone[a]]
                                                 ELSE {"instant", "text"})]
  /\ UNCHANGED <<approval, deciding, consuming, uses>>

(* decide_approval: a read, then one of two updates.  Only the update that *)
(* records a decision is guarded by the status.                            *)
DecideReads(d, a) ==
  /\ deciding[d] = NoApproval
  /\ approval[a] = "PENDING"
  /\ deciding' = [deciding EXCEPT ![d] = a]
  /\ UNCHANGED <<approval, outdated, consuming, uses>>

DecideWritesBug(d, approve) ==           \* without AND status='PENDING'
  /\ deciding[d] # NoApproval
  /\ SetApproval(deciding[d], IF Overdue(deciding[d]) THEN "EXPIRED"
                              ELSE IF approve THEN "APPROVED" ELSE "DENIED")
  /\ deciding' = [deciding EXCEPT ![d] = NoApproval]
  /\ UNCHANGED <<outdated, consuming, uses>>

DecideWrites(d, approve) ==
  LET a == deciding[d] IN
  /\ a # NoApproval
  /\ \/ Overdue(a) /\ SetApproval(a, "EXPIRED")
     \/ /\ ~Overdue(a) /\ approval[a] = "PENDING"
        /\ SetApproval(a, IF approve THEN "APPROVED" ELSE "DENIED")
     \/ ~Overdue(a) /\ approval[a] # "PENDING" /\ UNCHANGED approval
  /\ deciding' = [deciding EXCEPT ![d] = NoApproval]
  /\ UNCHANGED <<outdated, consuming, uses>>

ConsumableAgainBug(a)   == approval[a] \in {"APPROVED", "CONSUMED"} /\ ~LooksOverdue(a)
(* What consume_approval accepts.                                          *)
Consumable(a) == approval[a] = "APPROVED" /\ ~LooksOverdue(a)

ConsumeReads(p, a) ==
  /\ consuming[p] = NoApproval
  /\ Consumable(a)
  /\ consuming' = [consuming EXCEPT ![p] = a]
  /\ UNCHANGED <<approval, outdated, deciding, uses>>

ConsumeWrites(p) ==
  LET a == consuming[p] IN
  /\ a # NoApproval
  /\ IF a \in Reusable THEN UNCHANGED approval ELSE SetApproval(a, "CONSUMED")
  /\ uses' = [uses EXCEPT ![a] = @ + 1]
  /\ consuming' = [consuming EXCEPT ![p] = NoApproval]
  /\ UNCHANGED <<outdated, deciding>>

ConsumeExactly(a) ==
  /\ Consumable(a)
  /\ IF a \in Reusable THEN UNCHANGED approval ELSE SetApproval(a, "CONSUMED")
  /\ uses' = [uses EXCEPT ![a] = @ + 1]
  /\ UNCHANGED <<outdated, deciding, consuming>>

ApDisconnects(p) ==
  /\ consuming' = [consuming EXCEPT ![p] = NoApproval]
  /\ UNCHANGED <<approval, outdated, deciding, uses>>

(* What happens to the table besides the consumption by its users.         *)
Sean ==
  \/ \E a \in Approvals : CreateApproval(a) \/ RequestApproval(a)
  \/ \E d \in Deciders :
       \/ \E a \in Approvals : DecideReads(d, a)
       \/ \E approve \in BOOLEAN : DecideWrites(d, approve)

ApTime == \E a \in Approvals : ApprovalExpires(a)

(* The table under any callers.  Approvals do not look at the kill switch. *)
ApStep ==
  \/ Sean \/ ApTime
  \/ \E p \in Conns :
       (\E a \in Approvals : ConsumeReads(p, a)) \/ ConsumeWrites(p) \/ ApDisconnects(p)
  \/ \E a \in Approvals : ConsumeExactly(a)

ApNext == ApStep /\ (\A a \in Approvals : uses'[a] <= MaxUses) /\ UNCHANGED killSwitch

ApStart == killSwitch = FALSE /\ ApInit

ApSpec == ApStart /\ [][ApNext]_<<apVars, killSwitch>>

-----------------------------------------------------------------------------
ApTypeOK ==
  /\ approval  \in [Approvals -> ApprovalStatuses]
  /\ outdated  \in [Approvals -> SUBSET {"instant", "text"}]
  /\ deciding  \in [Deciders -> Approvals \cup {NoApproval}]
  /\ consuming \in [Conns -> Approvals \cup {NoApproval}]
  /\ uses      \in [Approvals -> Nat]

(* An approval that was denied, has expired or is used up never becomes    *)
(* usable again, although decide_approval writes on what it read before.   *)
Closed == {"DENIED", "EXPIRED", "CONSUMED"}
NeverRevived ==
  [][\A a \in Approvals : approval[a] \in Closed => approval'[a] \in Closed]_apVars

(* A single-use approval authorises one action: README.md promises         *)
(* "single-use or reusable approval records".                              *)
SingleUse == \A a \in Approvals \ Reusable : uses[a] <= 1

(* Nothing is done on an approval that Sean has denied or not yet decided, *)
(* although consume_approval acts on a row it read a moment ago and other  *)
(* calls of decide_approval may be between their read and their write.     *)
UsedOnlyIfApproved ==
  [][\A a \in Approvals :
       uses'[a] > uses[a] => approval[a] \notin {"ABSENT", "PENDING", "DENIED"}]_apVars

(* "External and irreversible handlers require an exact, unexpired         *)
(* approval" (OPERATIONS.md, 9): consume_approval accepts none whose       *)
(* expires_at has passed.  The code does for one written with an offset    *)
(* ahead of UTC.                                                           *)
AcceptedInForce ==
  [][/\ \A p \in Conns :
          consuming'[p] \in Approvals => consuming'[p] = consuming[p] \/ ~Overdue(consuming'[p])
     /\ \A a \in Approvals :
          uses'[a] > uses[a] => ~Overdue(a) \/ \E p \in Conns : consuming[p] = a]_apVars
=============================================================================
