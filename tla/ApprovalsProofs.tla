-------------------------- MODULE ApprovalsProofs --------------------------
(* What holds of the approvals table for every set of approvals, and any   *)
(* number of connections and concurrent decisions.                         *)
EXTENDS Approvals, TLAPS

(* A row that someone has read stays decided, or at least there.           *)
ReadsAreOfRealRows ==
  /\ \A d \in Deciders : deciding[d] # NoApproval => approval[deciding[d]] # "ABSENT"
  /\ \A p \in Conns : consuming[p] # NoApproval =>
       approval[consuming[p]] \in {"APPROVED", "EXPIRED", "CONSUMED"}

ApInv == ApTypeOK /\ ReadsAreOfRealRows

LEMMA ApInvAtInit == ApInit => ApInv
BY ApprovalsAssumption
DEF ApInit, ApInv, ApTypeOK, ApprovalStatuses, ReadsAreOfRealRows

LEMMA ApInvAtStep ==
  ASSUME ApInv, [ApStep]_apVars
  PROVE  ApInv'
<1> USE DEF ApInv, ApTypeOK, ReadsAreOfRealRows
<1>1. ASSUME NEW a \in Approvals, CreateApproval(a) \/ RequestApproval(a) PROVE ApInv'
  BY <1>1 DEF CreateApproval, RequestApproval, SetApproval, ApprovalStatuses
<1>2. ASSUME NEW d \in Deciders, NEW a \in Approvals, DecideReads(d, a) PROVE ApInv'
  BY <1>2 DEF DecideReads
<1>3. ASSUME NEW d \in Deciders, NEW approve \in BOOLEAN, DecideWrites(d, approve) PROVE ApInv'
  <2> DEFINE a == deciding[d]
  <2>1. /\ a \in Approvals /\ UNCHANGED <<outdated, consuming, uses>>
        /\ deciding' = [deciding EXCEPT ![d] = NoApproval]
    BY <1>3 DEF DecideWrites
  <2>2. \/ approval' = approval
        \/ approval' = [approval EXCEPT ![a] = "EXPIRED"]
        \/ /\ approval[a] = "PENDING"
           /\ \E s \in {"APPROVED", "DENIED"} : approval' = [approval EXCEPT ![a] = s]
    BY <1>3 DEF DecideWrites, SetApproval
  <2> HIDE DEF a
  <2>3. QED
    BY <2>1, <2>2 DEF ApprovalStatuses
<1>4. ASSUME NEW a \in Approvals, ApprovalExpires(a) PROVE ApInv'
  <2>1. FirstToPass[Zone[a]] \subseteq {"instant", "text"}
    <3>1. Zone[a] \in {"utc", "ahead", "behind"}
      BY ApprovalsAssumption
    <3>2. QED
      BY <3>1 DEF FirstToPass
  <2>2. PICK what \in SUBSET {"instant", "text"} : outdated' = [outdated EXCEPT ![a] = what]
    <3>1. outdated[a] \cup (IF outdated[a] = {} THEN FirstToPass[Zone[a]]
                            ELSE {"instant", "text"}) \in SUBSET {"instant", "text"}
      BY <2>1
    <3>2. QED
      BY <3>1, <1>4 DEF ApprovalExpires
  <2>3. QED
    BY <2>2, <1>4 DEF ApprovalExpires
<1>5. ASSUME NEW p \in Conns, NEW a \in Approvals, ConsumeReads(p, a) PROVE ApInv'
  BY <1>5 DEF ConsumeReads, Consumable
<1>6. ASSUME NEW p \in Conns, ConsumeWrites(p) PROVE ApInv'
  <2> DEFINE a == consuming[p]
  <2>1. /\ a \in Approvals /\ UNCHANGED <<outdated, deciding>>
        /\ consuming' = [consuming EXCEPT ![p] = NoApproval]
        /\ uses' = [uses EXCEPT ![a] = @ + 1]
        /\ approval' = approval \/ approval' = [approval EXCEPT ![a] = "CONSUMED"]
    BY <1>6 DEF ConsumeWrites, SetApproval
  <2> HIDE DEF a
  <2>2. QED
    BY <2>1 DEF ApprovalStatuses
<1>7. ASSUME NEW p \in Conns, ApDisconnects(p) PROVE ApInv'
  BY <1>7 DEF ApDisconnects
<1>8. ASSUME NEW a \in Approvals, ConsumeExactly(a) PROVE ApInv'
  BY <1>8 DEF ConsumeExactly, Consumable, SetApproval, ApprovalStatuses
<1>9. CASE UNCHANGED apVars
  BY <1>9 DEF apVars
<1>10. QED
  BY <1>1, <1>2, <1>3, <1>4, <1>5, <1>6, <1>7, <1>8, <1>9 DEF ApStep, Sean, ApTime

LEMMA ApNextIsApStep == [ApNext]_<<apVars, killSwitch>> => [ApStep]_apVars
BY DEF ApNext

(* The table keeps its types, and nobody acts on a row that was not there. *)
THEOREM ApTypeCorrect == ApSpec => []ApInv
<1>1. ApInv /\ [ApNext]_<<apVars, killSwitch>> => ApInv'
  BY ApNextIsApStep, ApInvAtStep
<1>2. ApStart => ApInv
  BY ApInvAtInit DEF ApStart
<1>3. QED
  BY <1>1, <1>2, PTL DEF ApSpec

(* No action is ever taken on an approval that Sean denied or has not      *)
(* decided.                                                                *)
LEMMA UseIsApproved ==
  ASSUME ApInv, [ApStep]_apVars, NEW a \in Approvals, uses'[a] > uses[a]
  PROVE  approval[a] \notin {"ABSENT", "PENDING", "DENIED"}
<1>1. uses' # uses
  BY DEF ApInv, ApTypeOK
<1>2. CASE \E p \in Conns : ConsumeWrites(p)
  <2>1. PICK p \in Conns : ConsumeWrites(p)
    BY <1>2
  <2>2. consuming[p] = a /\ a # NoApproval
    BY <2>1, ApprovalsAssumption DEF ConsumeWrites, ApInv, ApTypeOK
  <2>3. QED
    BY <2>2 DEF ApInv, ReadsAreOfRealRows
<1>3. CASE \E b \in Approvals : ConsumeExactly(b)
  BY <1>3 DEF ConsumeExactly, Consumable, ApInv, ApTypeOK
<1>4. QED
  BY <1>1, <1>2, <1>3 DEF ApStep, Sean, ApTime, apVars, CreateApproval, RequestApproval,
     DecideReads, DecideWrites, ApprovalExpires, ConsumeReads, ApDisconnects

(* The same as a property of the table's behaviours.                       *)
THEOREM UseNeedsApproval == ApSpec => UsedOnlyIfApproved
<1>1. ApInv /\ [ApNext]_<<apVars, killSwitch>>
        => [\A a \in Approvals :
              uses'[a] > uses[a] => approval[a] \notin {"ABSENT", "PENDING", "DENIED"}]_apVars
  BY ApNextIsApStep, UseIsApproved
<1>2. QED
  BY <1>1, ApTypeCorrect, PTL DEF ApSpec, UsedOnlyIfApproved

(* What is denied, expired or used up stays so: no late decision revives it*)
LEMMA ClosedStaysClosed ==
  ASSUME ApInv, [ApStep]_apVars, NEW a \in Approvals, approval[a] \in Closed
  PROVE  approval'[a] \in Closed
<1> USE DEF ApInv, ApTypeOK, Closed
<1>1. ASSUME NEW b \in Approvals, CreateApproval(b) \/ RequestApproval(b)
      PROVE  approval'[a] \in Closed
  BY <1>1 DEF CreateApproval, RequestApproval, SetApproval
<1>2. ASSUME NEW d \in Deciders, NEW approve \in BOOLEAN, DecideWrites(d, approve)
      PROVE  approval'[a] \in Closed
  BY <1>2 DEF DecideWrites, SetApproval
<1>3. ASSUME NEW p \in Conns, ConsumeWrites(p) PROVE approval'[a] \in Closed
  BY <1>3 DEF ConsumeWrites, SetApproval
<1>4. ASSUME NEW b \in Approvals, ConsumeExactly(b) PROVE approval'[a] \in Closed
  BY <1>4 DEF ConsumeExactly, Consumable, SetApproval
<1>5. CASE approval' = approval
  BY <1>5
<1>6. QED
  BY <1>1, <1>2, <1>3, <1>4, <1>5
  DEF ApStep, Sean, ApTime, apVars, DecideReads, ApprovalExpires, ConsumeReads, ApDisconnects

(* The same as a property of the table's behaviours.                       *)
THEOREM ClosedForGood == ApSpec => NeverRevived
<1>1. ApInv /\ [ApNext]_<<apVars, killSwitch>>
        => [\A a \in Approvals : approval[a] \in Closed => approval'[a] \in Closed]_apVars
  BY ClosedStaysClosed, ApNextIsApStep
<1>2. QED
  BY <1>1, ApTypeCorrect, PTL DEF ApSpec, NeverRevived

(* A used single-use approval is closed, and nobody is about to use it.    *)
UsedUp ==
  \A a \in Approvals \ Reusable :
    /\ uses[a] <= 1
    /\ uses[a] = 1 => approval[a] \in Closed /\ \A p \in Conns : consuming[p] # a

(* What keeps an approval single-use: that no call which has already found *)
(* it acceptable is left behind when another one uses it.                  *)
LEMMA UsedUpAtStep ==
  ASSUME ApInv, UsedUp, [ApStep]_apVars,
         \A a \in Approvals : uses'[a] # uses[a] => \A p \in Conns : consuming'[p] # a
  PROVE  UsedUp'
<1>1. SUFFICES ASSUME NEW a \in Approvals \ Reusable
               PROVE  /\ uses'[a] <= 1
                      /\ uses'[a] = 1 =>
                           approval'[a] \in Closed /\ \A p \in Conns : consuming'[p] # a
  BY DEF UsedUp
<1>2. uses[a] \in Nat /\ approval \in [Approvals -> ApprovalStatuses]
  BY DEF ApInv, ApTypeOK
<1>3. CASE uses'[a] = uses[a]
  <2>1. ASSUME uses[a] = 1, NEW p \in Conns, consuming'[p] = a PROVE FALSE
    <3>1. consuming[p] # a /\ approval[a] \in Closed
      BY <2>1 DEF UsedUp
    <3>2. ConsumeReads(p, a)
      BY <2>1, <3>1, ApprovalsAssumption
      DEF ApStep, Sean, ApTime, apVars, CreateApproval, RequestApproval, DecideReads,
          DecideWrites, ApprovalExpires, ConsumeReads, ConsumeWrites, ConsumeExactly,
          ApDisconnects, ApInv, ApTypeOK
    <3>3. QED
      BY <3>1, <3>2 DEF ConsumeReads, Consumable, Closed
  <2>2. QED
    BY <1>3, <2>1, ClosedStaysClosed DEF UsedUp
<1>4. CASE uses'[a] # uses[a]
  <2>1. \/ \E p \in Conns : ConsumeWrites(p)
        \/ \E b \in Approvals : ConsumeExactly(b)
    BY <1>4 DEF ApStep, Sean, ApTime, apVars, CreateApproval, RequestApproval, DecideReads,
       DecideWrites, ApprovalExpires, ConsumeReads, ApDisconnects
  <2>2. CASE \E p \in Conns : ConsumeWrites(p)
    <3>1. PICK p \in Conns : ConsumeWrites(p)
      BY <2>2
    <3>2. consuming[p] = a /\ uses'[a] = uses[a] + 1 /\ approval'[a] = "CONSUMED"
      BY <1>2, <1>4, <3>1 DEF ConsumeWrites, SetApproval, ApInv, ApTypeOK
    <3>3. uses[a] = 0
      BY <1>2, <3>2 DEF UsedUp
    <3>4. QED
      BY <1>4, <3>2, <3>3 DEF Closed
  <2>3. CASE \E b \in Approvals : ConsumeExactly(b)
    <3>1. ConsumeExactly(a)
      BY <1>2, <1>4, <2>3 DEF ConsumeExactly, ApInv, ApTypeOK
    <3>2. approval[a] = "APPROVED" /\ uses'[a] = uses[a] + 1 /\ approval'[a] = "CONSUMED"
      BY <1>2, <3>1 DEF ConsumeExactly, Consumable, SetApproval, ApInv, ApTypeOK
    <3>3. uses[a] = 0
      BY <1>2, <3>2 DEF UsedUp, Closed
    <3>4. QED
      BY <1>4, <3>2, <3>3 DEF Closed
  <2>4. QED
    BY <2>1, <2>2, <2>3
<1>5. QED
  BY <1>3, <1>4

LEMMA UsedUpAtInit == ApInit => UsedUp
BY DEF ApInit, UsedUp
=============================================================================
