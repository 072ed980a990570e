-------------------------- MODULE WorkQueueProofs --------------------------
(* What holds of the work queue for every set of items, connections,       *)
(* periods, costs and limits.                                              *)
EXTENDS WorkQueue, FiniteSetTheorems, TLAPS

(* A pending failure names a real item.                                    *)
FailingNamesItem ==
  \A p \in Conns : failing[p] # NotFailing => failing[p].item \in Items

LEMMA NotFailingType == NotFailing \in FailReads
  BY DEF NotFailing, FailReads

(* What _reserve_cost and _settle_cost do to the types of the ledger.      *)
LedgerTypes ==
  /\ limit    \in [Periods -> Nat \cup {-1}]
  /\ used     \in [Periods -> Int]
  /\ reserved \in [Periods -> Int]
  /\ held     \in [Items -> Periods \cup {0}]
  /\ usage    \in [Items -> [Periods -> Nat]]

LEMMA ReserveTypes ==
  ASSUME LedgerTypes, period \in Periods, NEW w \in Items, ReserveCost(w)
  PROVE  LedgerTypes'
<1>1. Units(w) \in Int
  BY PayloadAssumption DEF Units
<1>2. QED
  BY <1>1 DEF LedgerTypes, ReserveCost

LEMMA SettleTypes ==
  ASSUME LedgerTypes, NEW w \in Items, NEW consume \in BOOLEAN, SettleCost(w, consume)
  PROVE  LedgerTypes'
<1>1. Cost[w] \in Int
  BY PayloadAssumption
<1>2. CASE held[w] = 0
  BY <1>2 DEF LedgerTypes, SettleCost
<1>3. CASE held[w] # 0
  <2>1. held[w] \in Periods
    BY <1>3 DEF LedgerTypes
  <2>2. held' \in [Items -> Periods \cup {0}] /\ limit' \in [Periods -> Nat \cup {-1}]
    BY <1>3 DEF LedgerTypes, SettleCost
  <2>3. reserved' \in [Periods -> Int] /\ used' \in [Periods -> Int]
    BY <1>1, <1>3, <2>1 DEF LedgerTypes, SettleCost
  <2>4. usage' \in [Items -> [Periods -> Nat]]
    <3>1. CASE consume
      <4>1. usage' = [usage EXCEPT ![w] = [usage[w] EXCEPT ![held[w]] = usage[w][held[w]] + 1]]
        BY <1>3, <3>1 DEF SettleCost
      <4>2. [usage[w] EXCEPT ![held[w]] = usage[w][held[w]] + 1] \in [Periods -> Nat]
        BY <2>1 DEF LedgerTypes
      <4>3. QED
        BY <4>1, <4>2 DEF LedgerTypes
    <3>2. CASE ~consume
      BY <1>3, <3>2 DEF LedgerTypes, SettleCost
    <3>3. QED
      BY <3>1, <3>2
  <2>5. QED
    BY <2>2, <2>3, <2>4 DEF LedgerTypes
<1>4. QED
  BY <1>2, <1>3

(* Giving an item a status and taking the lease away keeps the row's types.*)
LEMMA ReleaseTypes ==
  ASSUME WQTypeOK, NEW w \in Items, NEW next \in Statuses, Release(w, next)
  PROVE  /\ status' \in [Items -> Statuses]
         /\ owner'  \in [Items -> WorkerIds \cup {NoOne}]
         /\ lapsed' \in [Items -> BOOLEAN]
BY DEF WQTypeOK, Release

LEMMA TypesAtInit == WQInit => WQTypeOK /\ FailingNamesItem
<1> SUFFICES ASSUME WQInit PROVE WQTypeOK /\ FailingNamesItem
  OBVIOUS
<1>1. period \in Periods /\ LedgerTypes
  BY BoundsAssumption DEF Periods, WQInit, LedgerTypes
<1>2. failing \in [Conns -> FailReads] /\ FailingNamesItem
  BY NotFailingType DEF WQInit, FailingNamesItem
<1>3. status \in [Items -> Statuses]
  BY DEF WQInit, Statuses
<1>4. QED
  BY <1>1, <1>2, <1>3 DEF WQInit, WQTypeOK, LedgerTypes

(* Every operation keeps the types, whoever calls it.                      *)
LEMMA TypesAtStep ==
  WQTypeOK /\ FailingNamesItem /\ [WQNext]_wqVars => WQTypeOK' /\ FailingNamesItem'
<1> DEFINE Inv == WQTypeOK /\ FailingNamesItem
<1> SUFFICES ASSUME WQTypeOK, FailingNamesItem, [WQNext]_wqVars
             PROVE  WQTypeOK' /\ FailingNamesItem'
  OBVIOUS
<1> USE DEF WQTypeOK, FailingNamesItem
<1>1. ASSUME NEW on \in BOOLEAN, SetKillSwitch(on) PROVE Inv'
  BY <1>1 DEF SetKillSwitch, KillSwitchSet, rowVars, budgetVars, callVars
<1>2. ASSUME NEW m \in Periods, NEW units \in Limits, ConfigureBudget(m, units) PROVE Inv'
  BY <1>2, BoundsAssumption DEF ConfigureBudget, rowVars, callVars
<1>3. ASSUME NEW w \in Items, NEW now \in BOOLEAN, EnqueueWork(w, now) PROVE Inv'
  BY <1>3 DEF EnqueueWork, budgetVars, callVars, Statuses
<1>4. ASSUME NEW w \in Items, BecomesAvailable(w) PROVE Inv'
  BY <1>4 DEF BecomesAvailable, budgetVars, callVars
<1>5. ASSUME NEW w \in Items, LeaseExpires(w) PROVE Inv'
  BY <1>5 DEF LeaseExpires, budgetVars, callVars
<1>6. CASE NextPeriod
  BY <1>6, BoundsAssumption DEF Periods, NextPeriod, rowVars, budgetVars, callVars
<1>7. ASSUME NEW p \in Conns, ClaimPassesKillSwitch(p) PROVE Inv'
  BY <1>7 DEF ClaimPassesKillSwitch, rowVars, budgetVars
<1>8. ASSUME NEW p \in Conns, ClaimFindsNothing(p) PROVE Inv'
  BY <1>8 DEF ClaimFindsNothing, rowVars, budgetVars
<1>9. ASSUME NEW p \in Conns, NEW w \in Items, ClaimBlocksOnBudget(p, w) PROVE Inv'
  BY <1>9 DEF ClaimBlocksOnBudget, budgetVars, Statuses, Settled, Blocked
<1>10. ASSUME NEW p \in Conns, NEW w \in Items, ClaimGrants(p, w) PROVE Inv'
  <2>1. LedgerTypes'
    BY <1>10, ReserveTypes DEF ClaimGrants, LedgerTypes
  <2>2. status' \in [Items -> Statuses] /\ owner' \in [Items -> WorkerIds \cup {NoOne}]
    BY <1>10, ConnsAssumption DEF ClaimGrants, Statuses
  <2>3. lapsed' \in [Items -> BOOLEAN] /\ attempts' \in [Items -> Nat] /\ claiming' \subseteq Conns
    BY <1>10 DEF ClaimGrants
  <2>4. QED
    BY <1>10, <2>1, <2>2, <2>3 DEF ClaimGrants, LedgerTypes
<1>11. ASSUME NEW p \in Conns, NEW w \in Items, NEW n \in 1..attempts[w],
              CompleteWork(p, w, n)
       PROVE Inv'
  <2>1. LedgerTypes'
    BY <1>11, SettleTypes DEF CompleteWork, LedgerTypes
  <2>2. Release(w, "SUCCEEDED") /\ "SUCCEEDED" \in Statuses
    BY <1>11 DEF CompleteWork, Statuses, Settled
  <2>3. payload' \in [Items -> Nat]
    BY <1>11 DEF CompleteWork
  <2>4. QED
    BY <1>11, <2>1, <2>2, <2>3, ReleaseTypes DEF CompleteWork, LedgerTypes, callVars
<1>12. ASSUME NEW p \in Conns, NEW w \in Items,
              NEW next \in {"APPROVAL_BLOCKED", "POLICY_BLOCKED"}, BlockWork(p, w, next)
       PROVE Inv'
  <2>1. LedgerTypes'
    BY <1>12, SettleTypes DEF BlockWork, LedgerTypes
  <2>2. Release(w, next) /\ next \in Statuses
    BY <1>12 DEF BlockWork, Statuses, Settled, Blocked
  <2>3. QED
    BY <1>12, <2>1, <2>2, ReleaseTypes DEF BlockWork, LedgerTypes, callVars
<1>13. ASSUME NEW p \in Conns, NEW w \in Items, FailReadsRow(p, w) PROVE Inv'
  <2> DEFINE seen == [item |-> w, dead |-> attempts[w] >= MaxAttempts[w]]
  <2>1. seen \in FailReads /\ seen.item = w
    BY DEF FailReads
  <2>2. failing' = [failing EXCEPT ![p] = seen]
    BY <1>13 DEF FailReadsRow, OutOfAttempts
  <2> HIDE DEF seen
  <2>3. failing' \in [Conns -> FailReads] /\ FailingNamesItem'
    BY <2>1, <2>2
  <2>4. QED
    BY <1>13, <2>3 DEF FailReadsRow, rowVars, budgetVars
<1>14. ASSUME NEW p \in Conns, FailWrites(p) PROVE Inv'
  <2> DEFINE w == failing[p].item
             next == IF failing[p].dead THEN "DEAD_LETTER" ELSE "QUEUED"
  <2>1. w \in Items /\ next \in Statuses
    BY <1>14 DEF FailWrites, StatusAfterFail, Statuses, Settled
  <2>2. Release(w, next) /\ SettleCost(w, FALSE)
    BY <1>14 DEF FailWrites, StatusAfterFail
  <2>3. ready' \in [Items -> BOOLEAN] /\ failing' \in [Conns -> FailReads] /\ FailingNamesItem'
    BY <1>14, <2>1, NotFailingType DEF FailWrites
  <2> HIDE DEF w, next
  <2>4. LedgerTypes'
    BY <2>1, <2>2, SettleTypes DEF LedgerTypes
  <2>5. QED
    BY <1>14, <2>1, <2>2, <2>3, <2>4, ReleaseTypes DEF FailWrites, LedgerTypes
<1>15. ASSUME NEW p \in Conns, Disconnects(p) PROVE Inv'
  BY <1>15, NotFailingType DEF Disconnects, rowVars, budgetVars
<1>16. CASE UNCHANGED wqVars
  BY <1>16 DEF wqVars, rowVars, budgetVars, callVars
<1>17. QED
  BY <1>1, <1>2, <1>3, <1>4, <1>5, <1>6, <1>7, <1>8, <1>9, <1>10, <1>11,
     <1>12, <1>13, <1>14, <1>15, <1>16
  DEF WQNext, Operator, Time, Calls

(* The columns keep their types under every operation, whoever calls it.   *)
THEOREM TypeCorrect == WQSpec => [](WQTypeOK /\ FailingNamesItem)
BY TypesAtInit, TypesAtStep, PTL DEF WQSpec
-----------------------------------------------------------------------------
(* What _settle_cost leaves behind, and whom it touches.                   *)
LEMMA SettleEffect ==
  ASSUME LedgerTypes, NEW w \in Items, NEW consume \in BOOLEAN, SettleCost(w, consume)
  PROVE  /\ held' = [held EXCEPT ![w] = 0]
         /\ \A v \in Items \ {w} : usage'[v] = usage[v]
         /\ held[w] = 0 \/ ~consume => usage' = usage
         /\ held[w] # 0 /\ consume => usage'[w] = [usage[w] EXCEPT ![held[w]] = @ + 1]
<1>1. CASE held[w] = 0
  BY <1>1 DEF SettleCost, LedgerTypes
<1>2. CASE held[w] # 0
  <2>1. held' = [held EXCEPT ![w] = 0]
    BY <1>2 DEF SettleCost
  <2>2. CASE consume
    BY <1>2, <2>1, <2>2 DEF SettleCost, LedgerTypes
  <2>3. CASE ~consume
    BY <1>2, <2>1, <2>3 DEF SettleCost, LedgerTypes
  <2>4. QED
    BY <2>2, <2>3
<1>3. QED
  BY <1>1, <1>2

(* The inductive invariant of charging.  ChargedOnce is not inductive: it  *)
(* needs that a charged item's payload is its result, for a stored result  *)
(* asks for no money again, and that money is held only while the payload  *)
(* is still the task.                                                      *)
ChargedIsAnswered ==
  \A w \in Items : \A m \in Periods : usage[w][m] > 0 => payload[w] # 0

ChargeInv == HeldExactlyWhileRunning /\ ChargedIsAnswered /\ ChargedOnce

(* A step that leaves status, payload and the ledger alone.                *)
LEMMA QuietKeepsChargeInv ==
  ASSUME ChargeInv, UNCHANGED <<status, payload, held, usage>>
  PROVE  ChargeInv'
BY DEF ChargeInv, HeldExactlyWhileRunning, ChargedIsAnswered, ChargedOnce

(* Leaving RUNNING with the reservation settled and nothing charged.       *)
LEMMA GiveBackKeepsChargeInv ==
  ASSUME WQTypeOK, ChargeInv, NEW w \in Items, NEW next \in Statuses \ {"RUNNING"},
         Release(w, next), SettleCost(w, FALSE), payload' = payload
  PROVE  ChargeInv'
<1>1. held' = [held EXCEPT ![w] = 0] /\ usage' = usage
  BY SettleEffect DEF WQTypeOK, LedgerTypes
<1>2. status' = [status EXCEPT ![w] = next] /\ next # "RUNNING"
  BY DEF Release
<1>3. HeldExactlyWhileRunning'
  BY <1>1, <1>2 DEF HeldExactlyWhileRunning, ChargeInv, WQTypeOK
<1>4. QED
  BY <1>1, <1>3 DEF ChargeInv, ChargedIsAnswered, ChargedOnce

(* Completing an item: the reservation becomes the item's only usage event.*)
LEMMA CompleteKeepsChargeInv ==
  ASSUME WQTypeOK, ChargeInv, NEW p \in Conns, NEW w \in Items,
         NEW n \in Nat \ {0}, CompleteWork(p, w, n)
  PROVE  ChargeInv'
<1>1. /\ held' = [held EXCEPT ![w] = 0]
      /\ \A v \in Items \ {w} : usage'[v] = usage[v]
      /\ held[w] = 0 => usage' = usage
      /\ held[w] # 0 => usage'[w] = [usage[w] EXCEPT ![held[w]] = @ + 1]
  BY SettleEffect DEF CompleteWork, WQTypeOK, LedgerTypes
<1>2. /\ status' = [status EXCEPT ![w] = "SUCCEEDED"]
      /\ payload' = [payload EXCEPT ![w] = n]
  BY DEF CompleteWork, Release
<1>3. HeldExactlyWhileRunning'
  BY <1>1, <1>2 DEF HeldExactlyWhileRunning, ChargeInv, WQTypeOK
<1>4. ChargedIsAnswered'
  BY <1>1, <1>2 DEF ChargedIsAnswered, ChargeInv, WQTypeOK
<1>5. ChargedOnce'
  <2>1. SUFFICES ASSUME NEW v \in Items, NEW m \in Periods, NEW k \in Periods
                 PROVE  /\ usage'[v][m] <= 1
                        /\ usage'[v][m] = 1 /\ usage'[v][k] = 1 => m = k
    BY DEF ChargedOnce
  <2>2. CASE v # w \/ held[w] = 0
    BY <1>1, <2>2 DEF ChargedOnce, ChargeInv
  <2>3. CASE v = w /\ held[w] # 0
    <3>1. \A j \in Periods : usage[w][j] = 0
      BY <2>3 DEF ChargeInv, HeldExactlyWhileRunning, ChargedIsAnswered, WQTypeOK
    <3>2. \A j \in Periods : usage'[w][j] = IF j = held[w] THEN 1 ELSE 0
      BY <1>1, <2>3, <3>1 DEF WQTypeOK
    <3>3. QED
      BY <2>3, <3>2
  <2>4. QED
    BY <2>2, <2>3
<1>6. QED
  BY <1>3, <1>4, <1>5 DEF ChargeInv

(* Claiming: the item runs, and it runs funded.                            *)
LEMMA ClaimKeepsChargeInv ==
  ASSUME WQTypeOK, ChargeInv, NEW p \in Conns, NEW w \in Items, ClaimGrants(p, w)
  PROVE  ChargeInv'
<1>1. status' = [status EXCEPT ![w] = "RUNNING"] /\ payload' = payload /\ usage' = usage
  BY DEF ClaimGrants, ReserveCost
<1>2. period # 0 /\ Cost[w] \in Nat
  BY BoundsAssumption, PayloadAssumption DEF WQTypeOK, Periods
<1>3. CASE NeedsReservation(w)
  <2>1. held' = [held EXCEPT ![w] = period] /\ Cost[w] > 0 /\ payload[w] = 0
    BY <1>3 DEF ClaimGrants, ReserveCost, NeedsReservation, Units
  <2>2. HeldExactlyWhileRunning'
    BY <1>1, <1>2, <2>1 DEF HeldExactlyWhileRunning, ChargeInv, WQTypeOK
  <2>3. QED
    BY <1>1, <2>2 DEF ChargeInv, ChargedIsAnswered, ChargedOnce
<1>4. CASE ~NeedsReservation(w)
  <2>1. held' = held
    BY <1>4 DEF ClaimGrants, ReserveCost
  <2>2. held[w] # 0 <=> Cost[w] > 0 /\ payload[w] = 0
    BY <1>2, <1>4 DEF NeedsReservation, Units, ChargeInv, HeldExactlyWhileRunning
  <2>3. HeldExactlyWhileRunning'
    BY <1>1, <2>1, <2>2 DEF HeldExactlyWhileRunning, ChargeInv, WQTypeOK
  <2>4. QED
    BY <1>1, <2>3 DEF ChargeInv, ChargedIsAnswered, ChargedOnce
<1>5. QED
  BY <1>3, <1>4

(* A budget refusal never strands money: the refused item held none.       *)
LEMMA RefusalKeepsChargeInv ==
  ASSUME WQTypeOK, ChargeInv, NEW p \in Conns, NEW w \in Items, ClaimBlocksOnBudget(p, w)
  PROVE  ChargeInv'
<1>1. /\ status' = [status EXCEPT ![w] = "BUDGET_BLOCKED"] /\ held[w] = 0
      /\ payload' = payload /\ held' = held /\ usage' = usage
  BY DEF ClaimBlocksOnBudget, NeedsReservation, budgetVars
<1>2. HeldExactlyWhileRunning'
  BY <1>1 DEF HeldExactlyWhileRunning, ChargeInv, WQTypeOK
<1>3. QED
  BY <1>1, <1>2 DEF ChargeInv, ChargedIsAnswered, ChargedOnce

LEMMA EnqueueKeepsChargeInv ==
  ASSUME WQTypeOK, ChargeInv, NEW w \in Items, NEW now \in BOOLEAN, EnqueueWork(w, now)
  PROVE  ChargeInv'
<1>1. /\ status[w] = "ABSENT" /\ status' = [status EXCEPT ![w] = "QUEUED"]
      /\ payload' = payload /\ held' = held /\ usage' = usage
  BY DEF EnqueueWork, budgetVars
<1>2. HeldExactlyWhileRunning'
  BY <1>1 DEF HeldExactlyWhileRunning, ChargeInv, WQTypeOK
<1>3. QED
  BY <1>1, <1>2 DEF ChargeInv, ChargedIsAnswered, ChargedOnce

LEMMA ChargeInvHolds == WQSpec => []ChargeInv
<1>1. WQInit => ChargeInv
  BY DEF WQInit, ChargeInv, HeldExactlyWhileRunning, ChargedIsAnswered, ChargedOnce
<1>2. WQTypeOK /\ FailingNamesItem /\ ChargeInv /\ [WQNext]_wqVars => ChargeInv'
  <2> SUFFICES ASSUME WQTypeOK, FailingNamesItem, ChargeInv, [WQNext]_wqVars
               PROVE  ChargeInv'
    OBVIOUS
  <2>1. ASSUME NEW on \in BOOLEAN, SetKillSwitch(on) PROVE ChargeInv'
    BY <2>1, QuietKeepsChargeInv DEF SetKillSwitch, rowVars, budgetVars
  <2>2. ASSUME NEW m \in Periods, NEW units \in Limits, ConfigureBudget(m, units)
        PROVE ChargeInv'
    BY <2>2, QuietKeepsChargeInv DEF ConfigureBudget, rowVars
  <2>3. ASSUME NEW w \in Items, NEW now \in BOOLEAN, EnqueueWork(w, now) PROVE ChargeInv'
    BY <2>3, EnqueueKeepsChargeInv
  <2>4. ASSUME NEW w \in Items, BecomesAvailable(w) \/ LeaseExpires(w) PROVE ChargeInv'
    BY <2>4, QuietKeepsChargeInv DEF BecomesAvailable, LeaseExpires, budgetVars
  <2>5. CASE NextPeriod
    BY <2>5, QuietKeepsChargeInv DEF NextPeriod, rowVars, budgetVars
  <2>6. ASSUME NEW p \in Conns, ClaimPassesKillSwitch(p) \/ ClaimFindsNothing(p) \/ Disconnects(p)
        PROVE ChargeInv'
    BY <2>6, QuietKeepsChargeInv
    DEF ClaimPassesKillSwitch, ClaimFindsNothing, Disconnects, rowVars, budgetVars
  <2>7. ASSUME NEW p \in Conns, NEW w \in Items, ClaimBlocksOnBudget(p, w) PROVE ChargeInv'
    BY <2>7, RefusalKeepsChargeInv
  <2>8. ASSUME NEW p \in Conns, NEW w \in Items, ClaimGrants(p, w) PROVE ChargeInv'
    BY <2>8, ClaimKeepsChargeInv
  <2>9. ASSUME NEW p \in Conns, NEW w \in Items, NEW n \in 1..attempts[w], CompleteWork(p, w, n)
        PROVE ChargeInv'
    BY <2>9, CompleteKeepsChargeInv DEF WQTypeOK
  <2>10. ASSUME NEW p \in Conns, NEW w \in Items,
                NEW next \in {"APPROVAL_BLOCKED", "POLICY_BLOCKED"}, BlockWork(p, w, next)
         PROVE ChargeInv'
    BY <2>10, GiveBackKeepsChargeInv DEF BlockWork, Statuses, Settled, Blocked
  <2>11. ASSUME NEW p \in Conns, NEW w \in Items, FailReadsRow(p, w) PROVE ChargeInv'
    BY <2>11, QuietKeepsChargeInv DEF FailReadsRow, rowVars, budgetVars
  <2>12. ASSUME NEW p \in Conns, FailWrites(p) PROVE ChargeInv'
    <3> DEFINE w == failing[p].item
               next == IF failing[p].dead THEN "DEAD_LETTER" ELSE "QUEUED"
    <3>1. w \in Items /\ next \in Statuses \ {"RUNNING"}
      BY <2>12 DEF FailWrites, StatusAfterFail, FailingNamesItem, Statuses, Settled
    <3>2. Release(w, next) /\ SettleCost(w, FALSE) /\ payload' = payload
      BY <2>12 DEF FailWrites, StatusAfterFail
    <3> HIDE DEF w, next
    <3>3. QED
      BY <3>1, <3>2, GiveBackKeepsChargeInv
  <2>13. CASE UNCHANGED wqVars
    BY <2>13, QuietKeepsChargeInv DEF wqVars, rowVars, budgetVars
  <2>14. QED
    BY <2>1, <2>2, <2>3, <2>4, <2>5, <2>6, <2>7, <2>8, <2>9, <2>10, <2>11, <2>12, <2>13
    DEF WQNext, Operator, Time, Calls
<1>3. QED
  BY <1>1, <1>2, TypeCorrect, PTL DEF WQSpec

(* An item is charged at most once, and money is held for exactly the paid *)
(* items that run, for any callers in any order.                           *)
THEOREM ChargingIsSafe == WQSpec => [](HeldExactlyWhileRunning /\ ChargedOnce)
BY ChargeInvHolds, PTL DEF ChargeInv
-----------------------------------------------------------------------------
(* What fail_work has read stays true: attempts never go down.             *)
DeadMeansExhausted ==
  \A p \in Conns :
    failing[p].dead => attempts[failing[p].item] >= MaxAttempts[failing[p].item]

DeadInv == DeadLetterAfterMaxAttempts /\ DeadMeansExhausted

(* A step that buries nothing, reads nothing and takes no attempt back.    *)
LEMMA GrowthKeepsDeadInv ==
  ASSUME WQTypeOK, FailingNamesItem, DeadInv, attempts' \in [Items -> Nat],
         \A w \in Items : attempts'[w] >= attempts[w],
         \A w \in Items : status'[w] = "DEAD_LETTER" => status[w] = "DEAD_LETTER",
         \A p \in Conns : failing'[p] = failing[p] \/ failing'[p] = NotFailing
  PROVE  DeadInv'
<1>1. DeadLetterAfterMaxAttempts'
  BY PayloadAssumption DEF DeadInv, DeadLetterAfterMaxAttempts, WQTypeOK
<1>2. ASSUME NEW p \in Conns, failing'[p].dead
      PROVE  attempts'[failing'[p].item] >= MaxAttempts[failing'[p].item]
  <2>1. failing'[p] = failing[p] /\ failing[p] # NotFailing
    BY <1>2 DEF NotFailing
  <2>2. failing[p].item \in Items
    BY <2>1 DEF FailingNamesItem
  <2>3. QED
    BY <1>2, <2>1, <2>2, PayloadAssumption DEF DeadInv, DeadMeansExhausted, WQTypeOK
<1>3. QED
  BY <1>1, <1>2 DEF DeadInv, DeadMeansExhausted

(* Only an item whose attempts are used up is ever dead-lettered, although *)
(* fail_work decides on a row that may change before it writes.            *)
THEOREM DeadLettersAreExhausted == WQSpec => []DeadLetterAfterMaxAttempts
<1>1. WQInit => DeadInv
  BY DEF WQInit, DeadInv, DeadLetterAfterMaxAttempts, DeadMeansExhausted, NotFailing
<1>2. WQTypeOK /\ FailingNamesItem /\ DeadInv /\ [WQNext]_wqVars => DeadInv'
  <2> SUFFICES ASSUME WQTypeOK, FailingNamesItem, DeadInv, [WQNext]_wqVars PROVE DeadInv'
    OBVIOUS
  <2>1. \/ UNCHANGED <<status, attempts, failing>>
        \/ \E w \in Items, now \in BOOLEAN : EnqueueWork(w, now)
        \/ \E p \in Conns : Disconnects(p) \/ FailWrites(p)
        \/ \E p \in Conns, w \in Items :
             \/ ClaimBlocksOnBudget(p, w) \/ ClaimGrants(p, w) \/ FailReadsRow(p, w)
             \/ \E n \in 1..attempts[w] : CompleteWork(p, w, n)
             \/ \E next \in {"APPROVAL_BLOCKED", "POLICY_BLOCKED"} : BlockWork(p, w, next)
    <3>1. CASE Operator \/ Time \/ UNCHANGED wqVars
      BY <3>1 DEF Operator, Time, SetKillSwitch, ConfigureBudget, BecomesAvailable,
                  LeaseExpires, NextPeriod, wqVars, rowVars, callVars
    <3>2. ASSUME NEW p \in Conns, Calls(p)
          PROVE  \/ ClaimPassesKillSwitch(p) \/ ClaimFindsNothing(p)
                 \/ Disconnects(p) \/ FailWrites(p)
                 \/ \E w \in Items :
                      \/ ClaimBlocksOnBudget(p, w) \/ ClaimGrants(p, w) \/ FailReadsRow(p, w)
                      \/ \E n \in 1..attempts[w] : CompleteWork(p, w, n)
                      \/ \E next \in {"APPROVAL_BLOCKED", "POLICY_BLOCKED"} :
                           BlockWork(p, w, next)
      BY <3>2 DEF Calls
    <3>3. ASSUME NEW p \in Conns, ClaimPassesKillSwitch(p) \/ ClaimFindsNothing(p)
          PROVE  UNCHANGED <<status, attempts, failing>>
      BY <3>3 DEF ClaimPassesKillSwitch, ClaimFindsNothing, rowVars
    <3>4. QED
      BY <3>1, <3>2, <3>3 DEF WQNext
  <2>2. CASE UNCHANGED <<status, attempts, failing>>
    BY <2>2, GrowthKeepsDeadInv DEF WQTypeOK
  <2>3. ASSUME NEW w \in Items, NEW now \in BOOLEAN, EnqueueWork(w, now) PROVE DeadInv'
    BY <2>3, GrowthKeepsDeadInv DEF EnqueueWork, callVars, WQTypeOK
  <2>4. ASSUME NEW p \in Conns, Disconnects(p) PROVE DeadInv'
    BY <2>4, GrowthKeepsDeadInv DEF Disconnects, rowVars, WQTypeOK
  <2>5. ASSUME NEW p \in Conns, NEW w \in Items, ClaimBlocksOnBudget(p, w) PROVE DeadInv'
    BY <2>5, GrowthKeepsDeadInv DEF ClaimBlocksOnBudget, WQTypeOK
  <2>6. ASSUME NEW p \in Conns, NEW w \in Items, ClaimGrants(p, w) PROVE DeadInv'
    BY <2>6, GrowthKeepsDeadInv DEF ClaimGrants, WQTypeOK
  <2>7. ASSUME NEW p \in Conns, NEW w \in Items, NEW n \in 1..attempts[w], CompleteWork(p, w, n)
        PROVE  DeadInv'
    BY <2>7, GrowthKeepsDeadInv DEF CompleteWork, Release, callVars, WQTypeOK
  <2>8. ASSUME NEW p \in Conns, NEW w \in Items,
               NEW next \in {"APPROVAL_BLOCKED", "POLICY_BLOCKED"}, BlockWork(p, w, next)
        PROVE  DeadInv'
    BY <2>8, GrowthKeepsDeadInv DEF BlockWork, Release, callVars, WQTypeOK
  <2>9. ASSUME NEW p \in Conns, NEW w \in Items, FailReadsRow(p, w) PROVE DeadInv'
    <3>1. /\ UNCHANGED <<status, attempts>>
          /\ failing' = [failing EXCEPT ![p] = [item |-> w, dead |-> OutOfAttempts(w)]]
      BY <2>9 DEF FailReadsRow, rowVars
    <3>2. DeadLetterAfterMaxAttempts'
      BY <3>1 DEF DeadInv, DeadLetterAfterMaxAttempts
    <3>3. \A q \in Conns : failing'[q].dead =>
            attempts[failing'[q].item] >= MaxAttempts[failing'[q].item]
      BY <3>1 DEF DeadInv, DeadMeansExhausted, OutOfAttempts, WQTypeOK
    <3>4. QED
      BY <3>1, <3>2, <3>3 DEF DeadInv, DeadMeansExhausted
  <2>10. ASSUME NEW p \in Conns, FailWrites(p) PROVE DeadInv'
    <3> DEFINE w == failing[p].item
    <3>1. /\ w \in Items /\ attempts' = attempts
          /\ status' = [status EXCEPT ![w] = StatusAfterFail(failing[p].dead)]
          /\ failing' = [failing EXCEPT ![p] = NotFailing]
      BY <2>10 DEF FailWrites, Release, FailingNamesItem
    <3>2. failing[p].dead => attempts[w] >= MaxAttempts[w]
      BY DEF DeadInv, DeadMeansExhausted
    <3>3. StatusAfterFail(failing[p].dead) = "DEAD_LETTER" => failing[p].dead
      BY DEF StatusAfterFail
    <3> HIDE DEF w
    <3>4. DeadLetterAfterMaxAttempts'
      BY <3>1, <3>2, <3>3 DEF DeadInv, DeadLetterAfterMaxAttempts, WQTypeOK
    <3>5. DeadMeansExhausted'
      BY <3>1 DEF DeadInv, DeadMeansExhausted, NotFailing, WQTypeOK
    <3>6. QED
      BY <3>4, <3>5 DEF DeadInv
  <2>11. QED
    BY <2>1, <2>2, <2>3, <2>4, <2>5, <2>6, <2>7, <2>8, <2>9, <2>10
<1>3. QED
  BY <1>1, <1>2, TypeCorrect, PTL DEF WQSpec, DeadInv
-----------------------------------------------------------------------------
(* Settling never adds to what a period owes and has spent.                *)
LEMMA SettleSpendsNothingNew ==
  ASSUME WQTypeOK, NEW w \in Items, NEW consume \in BOOLEAN, SettleCost(w, consume),
         NEW m \in Periods
  PROVE  /\ used'[m] \in Int /\ reserved'[m] \in Int
         /\ used'[m] + reserved'[m] <= used[m] + reserved[m]
<1>1. Cost[w] \in Nat
  BY PayloadAssumption
<1>2. CASE held[w] = 0
  BY <1>2 DEF SettleCost, WQTypeOK
<1>3. CASE held[w] # 0
  <2>1. reserved' = [reserved EXCEPT ![held[w]] = @ - Cost[w]]
    BY <1>3 DEF SettleCost
  <2>2. used' = used \/ used' = [used EXCEPT ![held[w]] = @ + Cost[w]]
    BY <1>3 DEF SettleCost
  <2>3. QED
    BY <1>1, <2>1, <2>2 DEF WQTypeOK
<1>4. QED
  BY <1>2, <1>3

(* A period's commitments grow only inside the limit in force, whatever    *)
(* Sean does to the limit in between.                                      *)
THEOREM SpendingIsBounded == WQSpec => SpendGrowsWithinLimit
<1>1. WQTypeOK /\ FailingNamesItem /\ [WQNext]_wqVars
        => [\A m \in Periods :
              used'[m] + reserved'[m] > used[m] + reserved[m]
                => used'[m] + reserved'[m] <= limit[m]]_wqVars
  <2> SUFFICES ASSUME WQTypeOK, FailingNamesItem, [WQNext]_wqVars, NEW m \in Periods,
                      used'[m] + reserved'[m] > used[m] + reserved[m]
               PROVE  used'[m] + reserved'[m] <= limit[m]
    OBVIOUS
  <2>1. ~UNCHANGED <<used, reserved>>
    BY DEF WQTypeOK
  <2>2. \A w \in Items, consume \in BOOLEAN : ~SettleCost(w, consume)
    BY SettleSpendsNothingNew DEF WQTypeOK
  <2>3. ASSUME NEW p \in Conns, FailWrites(p) PROVE FALSE
    BY <2>2, <2>3 DEF FailWrites, FailingNamesItem
  <2>4. PICK p \in Conns, w \in Items : ClaimGrants(p, w)
    BY <2>1, <2>2, <2>3
    DEF WQNext, Operator, Time, Calls, SetKillSwitch, ConfigureBudget, EnqueueWork,
        BecomesAvailable, LeaseExpires, NextPeriod, ClaimPassesKillSwitch,
        ClaimFindsNothing, ClaimBlocksOnBudget, CompleteWork, BlockWork, FailReadsRow,
        Disconnects, wqVars, budgetVars
  <2>5. ReserveCost(w) /\ UNCHANGED used
    BY <2>4 DEF ClaimGrants, ReserveCost
  <2>6. NeedsReservation(w)
    BY <2>1, <2>5 DEF ReserveCost
  <2>7. Affordable(w) /\ reserved' = [reserved EXCEPT ![period] = @ + Units(w)]
    BY <2>5, <2>6 DEF ReserveCost
  <2>8. Units(w) \in Int /\ period \in Periods
    BY PayloadAssumption DEF Units, WQTypeOK
  <2>9. m = period
    BY <2>5, <2>7 DEF WQTypeOK
  <2>10. QED
    BY <2>5, <2>7, <2>8, <2>9 DEF Affordable, WQTypeOK
<1>2. QED
  BY <1>1, TypeCorrect, PTL DEF WQSpec, SpendGrowsWithinLimit
-----------------------------------------------------------------------------
(* Totals.  What one row adds to the total of a column, and what one       *)
(* changed row changes in it.                                              *)
OtherUnits(f, w) == UNION {UnitsOf(f, v) : v \in Items \ {w}}

LEMMA UnitsOfARow ==
  ASSUME NEW f \in [Items -> Nat], NEW w \in Items
  PROVE  IsFiniteSet(UnitsOf(f, w)) /\ Cardinality(UnitsOf(f, w)) = f[w]
<1>1. IsFiniteSet({w}) /\ Cardinality({w}) = 1
  BY ONLY FS_Singleton
<1>2. f[w] \in Nat
  OBVIOUS
<1>3. IsFiniteSet(1..f[w]) /\ Cardinality(1..f[w]) = IF 1 > f[w] THEN 0 ELSE f[w] - 1 + 1
  BY ONLY <1>2, FS_Interval
<1>4. /\ IsFiniteSet({w} \X (1..f[w]))
      /\ Cardinality({w} \X (1..f[w])) = Cardinality({w}) * Cardinality(1..f[w])
  BY ONLY <1>1, <1>3, FS_Product
<1>5. QED
  BY <1>1, <1>2, <1>3, <1>4 DEF UnitsOf

LEMMA UnitsAreFinite ==
  ASSUME NEW f \in [Items -> Nat], NEW S \in SUBSET Items
  PROVE  IsFiniteSet(UNION {UnitsOf(f, w) : w \in S})
<1> DEFINE T == {UnitsOf(f, w) : w \in S}
           g == [w \in S |-> UnitsOf(f, w)]
<1>1. IsFiniteSet(S)
  BY ItemsFinite, FS_Subset
<1>2. g \in Surjection(S, T)
  BY DEF Surjection
<1>3. IsFiniteSet(T)
  BY <1>1, <1>2, FS_Surjection
<1>4. ASSUME NEW w \in S PROVE IsFiniteSet(UnitsOf(f, w))
  BY <1>4, UnitsOfARow
<1>5. QED
  BY <1>3, <1>4, FS_UNION

(* A total is one row's value and the units of the others.                 *)
LEMMA TotalSplits ==
  ASSUME NEW f \in [Items -> Nat], NEW w \in Items
  PROVE  /\ Cardinality(OtherUnits(f, w)) \in Nat
         /\ Total(f) = Cardinality(OtherUnits(f, w)) + f[w]
<1> DEFINE O == OtherUnits(f, w)
           U == UnitsOf(f, w)
<1>1. IsFiniteSet(O)
  BY UnitsAreFinite DEF OtherUnits
<1>2. IsFiniteSet(U) /\ Cardinality(U) = f[w]
  BY UnitsOfARow
<1>3. O \cap U = {}
  BY DEF OtherUnits, UnitsOf
<1>4. UNION {UnitsOf(f, v) : v \in DOMAIN f} = O \cup U
  BY DEF OtherUnits
<1>5. Cardinality(O \cap U) = 0
  BY <1>3, FS_EmptySet
<1> HIDE DEF O, U
<1>6. Cardinality(O \cup U) = Cardinality(O) + Cardinality(U) - Cardinality(O \cap U)
  BY ONLY <1>1, <1>2, FS_Union
<1>7. QED
  <2>1. Cardinality(O) \in Nat
    BY ONLY <1>1, FS_CardinalityType
  <2>2. Total(f) = Cardinality(O \cup U)
    BY <1>4 DEF Total
  <2>3. QED
    BY <1>2, <1>5, <1>6, <2>1, <2>2 DEF O

(* Changing one row changes the total by that row's difference.            *)
LEMMA TotalChanges ==
  ASSUME NEW f \in [Items -> Nat], NEW g \in [Items -> Nat], NEW w \in Items,
         \A v \in Items \ {w} : g[v] = f[v]
  PROVE  Total(f) \in Nat /\ Total(g) = Total(f) - f[w] + g[w]
<1>1. OtherUnits(f, w) = OtherUnits(g, w)
  BY DEF OtherUnits, UnitsOf
<1>2. QED
  BY <1>1, TotalSplits

(* A column of zeroes totals nothing.                                      *)
LEMMA TotalOfZeroes ==
  ASSUME NEW f \in [Items -> Nat], \A w \in Items : f[w] = 0
  PROVE  Total(f) = 0
<1>1. \A w \in Items : UnitsOf(f, w) = {}
  BY DEF UnitsOf
<1>2. UNION {UnitsOf(f, w) : w \in DOMAIN f} = {}
  BY <1>1
<1>3. QED
  BY <1>2, FS_EmptySet DEF Total

(* A column split in two, every row belonging to one of them.              *)
LEMMA TotalOfDisjoint ==
  ASSUME NEW f \in [Items -> Nat], NEW g \in [Items -> Nat], NEW h \in [Items -> Nat],
         \A w \in Items : h[w] = f[w] + g[w] /\ (f[w] = 0 \/ g[w] = 0)
  PROVE  Total(h) = Total(f) + Total(g)
<1> DEFINE A == UNION {UnitsOf(f, w) : w \in DOMAIN f}
           B == UNION {UnitsOf(g, w) : w \in DOMAIN g}
           C == UNION {UnitsOf(h, w) : w \in DOMAIN h}
<1>1. IsFiniteSet(A) /\ IsFiniteSet(B)
  BY UnitsAreFinite
<1>2. \A w \in Items : UnitsOf(h, w) = UnitsOf(f, w) \cup UnitsOf(g, w)
  BY DEF UnitsOf
<1>3. C = A \cup B
  BY <1>2
<1>4. A \cap B = {}
  <2>1. SUFFICES ASSUME NEW x \in A, x \in B PROVE FALSE
    OBVIOUS
  <2>2. PICK w \in Items : x \in UnitsOf(f, w)
    OBVIOUS
  <2>3. PICK v \in Items : x \in UnitsOf(g, v)
    BY <2>1
  <2>4. w = v /\ x[2] \in 1..f[w] /\ x[2] \in 1..g[w]
    BY <2>2, <2>3 DEF UnitsOf
  <2>5. QED
    BY <2>4
<1>5. Cardinality(A \cap B) = 0
  BY <1>4, FS_EmptySet
<1>6. Total(f) = Cardinality(A) /\ Total(g) = Cardinality(B) /\ Total(h) = Cardinality(C)
  BY DEF Total
<1> HIDE DEF A, B, C
<1>7. Cardinality(A \cup B) = Cardinality(A) + Cardinality(B) - Cardinality(A \cap B)
  BY ONLY <1>1, FS_Union
<1>8. Cardinality(A) \in Nat /\ Cardinality(B) \in Nat
  BY ONLY <1>1, FS_CardinalityType
<1>9. QED
  BY <1>3, <1>5, <1>6, <1>7, <1>8
-----------------------------------------------------------------------------
(* The columns the two totals are taken of.                                *)
LEMMA ColumnTypes ==
  ASSUME LedgerTypes, NEW m \in Periods
  PROVE  HeldIn(m) \in [Items -> Nat] /\ SpentIn(m) \in [Items -> Nat]
<1>1. ASSUME NEW w \in Items PROVE usage[w][m] * Cost[w] \in Nat
  <2>1. usage[w][m] \in Nat /\ Cost[w] \in Nat
    BY PayloadAssumption DEF LedgerTypes
  <2>2. QED
    BY <2>1
<1>2. QED
  BY <1>1, PayloadAssumption DEF HeldIn, SpentIn

(* What one item's reservation, opened or closed, does to a period's sum.  *)
LEMMA HeldColumnMoves ==
  ASSUME LedgerTypes, LedgerTypes', NEW w \in Items, NEW n, held' = [held EXCEPT ![w] = n],
         NEW m \in Periods
  PROVE  Total(HeldIn(m))' = Total(HeldIn(m)) - HeldIn(m)[w] + (IF n = m THEN Cost[w] ELSE 0)
<1> DEFINE f == HeldIn(m)
           g == HeldIn(m)'
<1>1. f \in [Items -> Nat] /\ g \in [Items -> Nat]
  <2>1. \A v \in Items : Cost[v] \in Nat
    BY PayloadAssumption
  <2>2. QED
    BY <2>1 DEF HeldIn
<1>2. \A v \in Items \ {w} : g[v] = f[v]
  BY DEF HeldIn, LedgerTypes
<1>3. g[w] = IF n = m THEN Cost[w] ELSE 0
  BY DEF HeldIn, LedgerTypes
<1> HIDE DEF f, g
<1>4. Total(g) = Total(f) - f[w] + g[w]
  BY <1>1, <1>2, TotalChanges
<1>5. QED
  BY <1>3, <1>4 DEF f, g

(* What one more usage event does to a period's sum.                       *)
LEMMA SpentColumnMoves ==
  ASSUME LedgerTypes, LedgerTypes', NEW w \in Items, NEW n \in Nat, NEW m \in Periods,
         \A v \in Items \ {w} : usage'[v] = usage[v], usage'[w][m] = usage[w][m] + n
  PROVE  Total(SpentIn(m))' = Total(SpentIn(m)) + n * Cost[w]
<1> DEFINE f == SpentIn(m)
           g == SpentIn(m)'
<1>1. f \in [Items -> Nat]
  BY ColumnTypes
<1>2. g \in [Items -> Nat]
  <2>1. ASSUME NEW v \in Items PROVE usage'[v][m] * Cost[v] \in Nat
    <3>1. usage'[v][m] \in Nat /\ Cost[v] \in Nat
      BY PayloadAssumption DEF LedgerTypes
    <3>2. QED
      BY <3>1
  <2>2. QED
    BY <2>1 DEF SpentIn
<1>3. \A v \in Items \ {w} : g[v] = f[v]
  BY DEF SpentIn
<1>4. g[w] = f[w] + n * Cost[w]
  <2>1. usage[w][m] \in Nat /\ Cost[w] \in Nat
    BY PayloadAssumption DEF LedgerTypes
  <2>2. f[w] = usage[w][m] * Cost[w] /\ g[w] = (usage[w][m] + n) * Cost[w]
    BY DEF SpentIn
  <2>3. QED
    BY <2>1, <2>2
<1> HIDE DEF f, g
<1>5. Total(f) \in Nat /\ Total(g) = Total(f) - f[w] + g[w]
  BY <1>1, <1>2, <1>3, TotalChanges
<1>6. f[w] \in Nat /\ n * Cost[w] \in Nat
  BY <1>1, PayloadAssumption
<1>7. QED
  BY <1>4, <1>5, <1>6 DEF f, g

(* _reserve_cost keeps reserved_units in step with the reservations.       *)
LEMMA ReserveConserves ==
  ASSUME LedgerTypes, period \in Periods, LedgerConserved, NEW w \in Items, ReserveCost(w)
  PROVE  LedgerConserved'
<1>1. usage' = usage /\ used' = used
  BY DEF ReserveCost
<1>2. CASE ~NeedsReservation(w)
  BY <1>1, <1>2 DEF ReserveCost, LedgerConserved, HeldIn, SpentIn
<1>3. CASE NeedsReservation(w)
  <2>1. /\ reserved' = [reserved EXCEPT ![period] = @ + Cost[w]]
        /\ held[w] = 0 /\ held' = [held EXCEPT ![w] = period]
    BY <1>3 DEF ReserveCost, NeedsReservation, Units
  <2>2. LedgerTypes'
    BY ReserveTypes
  <2>3. SUFFICES ASSUME NEW m \in Periods PROVE reserved'[m] = Total(HeldIn(m))'
    BY <1>1 DEF LedgerConserved, SpentIn
  <2>4. HeldIn(m)[w] = 0
    BY <2>1 DEF HeldIn, Periods
  <2>5. Total(HeldIn(m))' = Total(HeldIn(m)) - 0 + (IF period = m THEN Cost[w] ELSE 0)
    BY <2>1, <2>2, <2>4, HeldColumnMoves
  <2>6. reserved[m] = Total(HeldIn(m)) /\ reserved[m] \in Int /\ Cost[w] \in Nat
    BY PayloadAssumption DEF LedgerConserved, LedgerTypes
  <2>7. QED
    BY <2>1, <2>5, <2>6 DEF LedgerTypes
<1>4. QED
  BY <1>2, <1>3

(* _settle_cost moves what it releases, in the period that holds it.       *)
LEMMA SettleConserves ==
  ASSUME LedgerTypes, LedgerConserved, NEW w \in Items, NEW consume \in BOOLEAN,
         SettleCost(w, consume)
  PROVE  LedgerConserved'
<1>1. CASE held[w] = 0
  BY <1>1 DEF SettleCost, LedgerConserved, HeldIn, SpentIn
<1>2. CASE held[w] # 0
  <2>1. LedgerTypes' /\ held[w] \in Periods /\ Cost[w] \in Nat
    BY <1>2, SettleTypes, PayloadAssumption DEF LedgerTypes
  <2>2. /\ held' = [held EXCEPT ![w] = 0]
        /\ \A v \in Items \ {w} : usage'[v] = usage[v]
        /\ ~consume => usage' = usage
        /\ consume => usage'[w] = [usage[w] EXCEPT ![held[w]] = @ + 1]
    BY <1>2, SettleEffect
  <2>3. /\ reserved' = [reserved EXCEPT ![held[w]] = @ - Cost[w]]
        /\ ~consume => used' = used
        /\ consume => used' = [used EXCEPT ![held[w]] = @ + Cost[w]]
    BY <1>2 DEF SettleCost
  <2>4. SUFFICES ASSUME NEW m \in Periods
                 PROVE  reserved'[m] = Total(HeldIn(m))' /\ used'[m] = Total(SpentIn(m))'
    BY DEF LedgerConserved
  <2>5. /\ reserved[m] = Total(HeldIn(m)) /\ reserved[m] \in Int
        /\ used[m] = Total(SpentIn(m)) /\ used[m] \in Int
    BY DEF LedgerConserved, LedgerTypes
  <2>6. reserved'[m] = Total(HeldIn(m))'
    <3>1. HeldIn(m)[w] = (IF held[w] = m THEN Cost[w] ELSE 0) /\ 0 # m
      BY DEF HeldIn, Periods
    <3>2. Total(HeldIn(m))' = Total(HeldIn(m)) - HeldIn(m)[w] + (IF 0 = m THEN Cost[w] ELSE 0)
      BY <2>1, <2>2, HeldColumnMoves
    <3>3. QED
      BY <2>1, <2>3, <2>5, <3>1, <3>2 DEF LedgerTypes
  <2>7. used'[m] = Total(SpentIn(m))'
    <3>1. CASE ~consume
      BY <2>2, <2>3, <2>5, <3>1 DEF SpentIn
    <3>2. CASE consume
      <4> DEFINE n == IF held[w] = m THEN 1 ELSE 0
      <4>1. usage'[w][m] = usage[w][m] + n
        BY <2>1, <2>2, <3>2 DEF LedgerTypes
      <4>2. n \in Nat /\ n * Cost[w] = (IF held[w] = m THEN Cost[w] ELSE 0)
        BY <2>1
      <4> HIDE DEF n
      <4>3. Total(SpentIn(m))' = Total(SpentIn(m)) + n * Cost[w]
        BY <2>1, <2>2, <4>1, <4>2, SpentColumnMoves
      <4>4. QED
        BY <2>1, <2>3, <2>5, <3>2, <4>2, <4>3 DEF LedgerTypes
    <3>3. QED
      BY <3>1, <3>2
  <2>8. QED
    BY <2>6, <2>7
<1>3. QED
  BY <1>1, <1>2

(* The totals of a budgets row are the sums of the rows they summarise,    *)
(* although four operations keep them by separate UPDATEs and fail_work    *)
(* settles an item it no longer holds.                                     *)
THEOREM LedgerBalances == WQSpec => []LedgerConserved
<1>1. WQInit => LedgerConserved
  <2> SUFFICES ASSUME WQInit, NEW m \in Periods
               PROVE  reserved[m] = Total(HeldIn(m)) /\ used[m] = Total(SpentIn(m))
    BY DEF LedgerConserved
  <2>1. LedgerTypes /\ m # 0
    BY TypesAtInit DEF WQTypeOK, LedgerTypes, Periods
  <2>2. \A w \in Items : Cost[w] \in Nat
    BY PayloadAssumption
  <2>3. \A w \in Items : HeldIn(m)[w] = 0 /\ SpentIn(m)[w] = 0
    BY <2>1, <2>2 DEF WQInit, HeldIn, SpentIn
  <2>4. Total(HeldIn(m)) = 0 /\ Total(SpentIn(m)) = 0
    BY <2>1, <2>3, ColumnTypes, TotalOfZeroes
  <2>5. QED
    BY <2>4 DEF WQInit
<1>2. WQTypeOK /\ FailingNamesItem /\ LedgerConserved /\ [WQNext]_wqVars => LedgerConserved'
  <2> SUFFICES ASSUME WQTypeOK, FailingNamesItem, LedgerConserved, [WQNext]_wqVars
               PROVE  LedgerConserved'
    OBVIOUS
  <2>1. LedgerTypes /\ period \in Periods
    BY DEF WQTypeOK, LedgerTypes
  <2>2. \/ UNCHANGED <<used, reserved, held, usage>>
        \/ \E w \in Items : ReserveCost(w)
        \/ \E w \in Items, consume \in BOOLEAN : SettleCost(w, consume)
    <3>1. ASSUME NEW p \in Conns, FailWrites(p)
          PROVE  \E w \in Items : SettleCost(w, FALSE)
      BY <3>1 DEF FailWrites, FailingNamesItem
    <3>2. QED
      BY <3>1
      DEF WQNext, Operator, Time, Calls, SetKillSwitch, ConfigureBudget, EnqueueWork,
          BecomesAvailable, LeaseExpires, NextPeriod, ClaimPassesKillSwitch, ClaimFindsNothing,
          ClaimBlocksOnBudget, ClaimGrants, CompleteWork, BlockWork, FailReadsRow,
          Disconnects, wqVars, budgetVars
  <2>3. CASE UNCHANGED <<used, reserved, held, usage>>
    BY <2>3 DEF LedgerConserved, HeldIn, SpentIn
  <2>4. QED
    BY <2>1, <2>2, <2>3, ReserveConserves, SettleConserves
<1>3. QED
  BY <1>1, <1>2, TypeCorrect, PTL DEF WQSpec
-----------------------------------------------------------------------------
(* What an item's entry in the ledger is, by its tables.                   *)
EntryMeaning ==
  \A w \in Items :
    /\ \A m \in Periods : usage[w][m] > 0 => LedgerEntry[w] = Ledger!Spent(m)
    /\ held[w] # 0 => LedgerEntry[w] = Ledger!Held(held[w])
    /\ held[w] = 0 /\ (\A m \in Periods : usage[w][m] = 0) => LedgerEntry[w] = Ledger!Free

LEMMA EntryIsMeant == WQTypeOK /\ ChargeInv => EntryMeaning
<1> SUFFICES ASSUME WQTypeOK, ChargeInv, NEW w \in Items
             PROVE  /\ \A m \in Periods : usage[w][m] > 0 => LedgerEntry[w] = Ledger!Spent(m)
                    /\ held[w] # 0 => LedgerEntry[w] = Ledger!Held(held[w])
                    /\ held[w] = 0 /\ (\A m \in Periods : usage[w][m] = 0)
                         => LedgerEntry[w] = Ledger!Free
  BY DEF EntryMeaning
<1>1. \A m \in Periods : usage[w][m] \in Nat /\ usage[w][m] <= 1
  BY DEF WQTypeOK, ChargeInv, ChargedOnce
<1>2. ASSUME NEW m \in Periods, usage[w][m] > 0 PROVE LedgerEntry[w] = Ledger!Spent(m)
  <2>1. usage[w][m] = 1
    BY <1>1, <1>2
  <2>2. \A n \in Periods : usage[w][n] > 0 <=> n = m
    BY <1>1, <2>1 DEF ChargeInv, ChargedOnce
  <2>3. {n \in Periods : usage[w][n] > 0} = {m}
    BY <2>2
  <2>4. LedgerEntry[w] = EntryOf(held[w], {m})
    BY <2>3 DEF LedgerEntry
  <2>5. (CHOOSE n \in {m} : TRUE) = m
    OBVIOUS
  <2>6. QED
    BY <2>4, <2>5 DEF Ledger!Spent, EntryOf
<1>3. ASSUME held[w] # 0 PROVE LedgerEntry[w] = Ledger!Held(held[w])
  <2>1. payload[w] = 0
    BY <1>3 DEF ChargeInv, HeldExactlyWhileRunning
  <2>2. \A m \in Periods : ~(usage[w][m] > 0)
    BY <2>1 DEF ChargeInv, ChargedIsAnswered
  <2>3. LedgerEntry[w] = EntryOf(held[w], {})
    BY <2>2 DEF LedgerEntry
  <2>4. QED
    BY <1>3, <2>3 DEF Ledger!Held, EntryOf
<1>4. ASSUME held[w] = 0, \A m \in Periods : usage[w][m] = 0
      PROVE  LedgerEntry[w] = Ledger!Free
  <2>1. LedgerEntry[w] = EntryOf(0, {})
    BY <1>4 DEF LedgerEntry
  <2>2. QED
    BY <2>1 DEF EntryOf, Ledger!Free
<1>5. QED
  BY <1>2, <1>3, <1>4

(* An abstract period is committed to what its row owes and has spent.     *)
LEMMA CommittedIsOwed ==
  ASSUME WQTypeOK, ChargeInv, LedgerConserved, NEW m \in Periods
  PROVE  Ledger!Committed(m) = used[m] + reserved[m]
<1> DEFINE h == [w \in Items |-> IF LedgerEntry[w].in = m THEN Cost[w] ELSE 0]
<1>1. /\ HeldIn(m) \in [Items -> Nat] /\ SpentIn(m) \in [Items -> Nat]
      /\ h \in [Items -> Nat]
  BY ColumnTypes, PayloadAssumption DEF WQTypeOK, LedgerTypes
<1>2. ASSUME NEW w \in Items
      PROVE  /\ h[w] = SpentIn(m)[w] + HeldIn(m)[w]
             /\ SpentIn(m)[w] = 0 \/ HeldIn(m)[w] = 0
  <2>1. /\ Cost[w] \in Nat /\ m # 0
        /\ \A n \in Periods : usage[w][n] \in Nat /\ usage[w][n] <= 1
    <3>1. \A n \in Periods : usage[w][n] \in Nat /\ usage[w][n] <= 1
      BY DEF WQTypeOK, ChargeInv, ChargedOnce
    <3>2. QED
      BY <3>1, PayloadAssumption DEF Periods
  <2>2. EntryMeaning
    BY EntryIsMeant
  <2>3. HeldIn(m)[w] = (IF held[w] = m THEN Cost[w] ELSE 0) /\ SpentIn(m)[w] = usage[w][m] * Cost[w]
    BY DEF HeldIn, SpentIn
  <2>4. CASE \E n \in Periods : usage[w][n] > 0
    <3>1. PICK n \in Periods : usage[w][n] > 0
      BY <2>4
    <3>2. held[w] = 0
      BY <3>1 DEF ChargeInv, ChargedIsAnswered, HeldExactlyWhileRunning
    <3>3. h[w] = IF n = m THEN Cost[w] ELSE 0
      <4>1. LedgerEntry[w] = [kind |-> "spent", in |-> n]
        BY <2>2, <3>1 DEF EntryMeaning, Ledger!Spent
      <4>2. QED
        BY <4>1
    <3>4. usage[w][m] = IF n = m THEN 1 ELSE 0
      BY <2>1, <3>1 DEF ChargeInv, ChargedOnce
    <3>5. QED
      BY <2>1, <2>3, <3>2, <3>3, <3>4
  <2>5. CASE \A n \in Periods : ~(usage[w][n] > 0)
    <3>1. \A n \in Periods : usage[w][n] = 0
      BY <2>1, <2>5
    <3>2. CASE held[w] # 0
      <4>1. LedgerEntry[w] = [kind |-> "held", in |-> held[w]]
        BY <2>2, <3>2 DEF EntryMeaning, Ledger!Held
      <4>2. h[w] = IF held[w] = m THEN Cost[w] ELSE 0
        BY <4>1
      <4>3. QED
        BY <2>1, <2>3, <3>1, <4>2
    <3>3. CASE held[w] = 0
      <4>1. LedgerEntry[w] = [kind |-> "free", in |-> 0]
        BY <2>2, <3>1, <3>3 DEF EntryMeaning, Ledger!Free
      <4>2. h[w] = IF 0 = m THEN Cost[w] ELSE 0
        BY <4>1
      <4>3. QED
        BY <2>1, <2>3, <3>1, <3>3, <4>2
    <3>4. QED
      BY <3>2, <3>3
  <2>6. QED
    BY <2>4, <2>5
<1>3. Ledger!Committed(m) = Total(h)
  BY DEF Ledger!Committed, Ledger!Total, Ledger!UnitsOf, Total, UnitsOf,
         Cardinality, Ledger!Cardinality
<1> HIDE DEF h
<1>4. Total(h) = Total(SpentIn(m)) + Total(HeldIn(m))
  BY <1>1, <1>2, TotalOfDisjoint
<1>5. QED
  BY <1>3, <1>4 DEF LedgerConserved

(* An operation that opens or closes one item's row changes its entry only.*)
LEMMA OneEntryMoves ==
  ASSUME NEW w \in Items, NEW n, held' = [held EXCEPT ![w] = n], WQTypeOK,
         \A v \in Items \ {w} : usage'[v] = usage[v]
  PROVE  LedgerEntry' = [LedgerEntry EXCEPT ![w] = LedgerEntry'[w]]
<1>1. \A v \in Items \ {w} : held'[v] = held[v] /\ usage'[v] = usage[v]
  BY DEF WQTypeOK
<1>2. ASSUME NEW v \in Items \ {w} PROVE LedgerEntry'[v] = LedgerEntry[v]
  BY <1>1 DEF LedgerEntry
<1>3. /\ LedgerEntry = [v \in Items |-> LedgerEntry[v]]
      /\ LedgerEntry' = [v \in Items |-> LedgerEntry'[v]]
  BY DEF LedgerEntry
<1>4. QED
  BY <1>2, <1>3

(* _reserve_cost holds an item's money, or does nothing.                   *)
LEMMA ReserveHolds ==
  ASSUME WQTypeOK, ChargeInv, LedgerConserved, EntryMeaning, EntryMeaning',
         NEW w \in Items, ReserveCost(w)
  PROVE  [Ledger!CLNext]_<<LedgerEntry, limit>>
<1>1. usage' = usage /\ limit' = limit
  BY DEF ReserveCost
<1>2. CASE ~NeedsReservation(w)
  BY <1>1, <1>2 DEF ReserveCost, LedgerEntry
<1>3. CASE NeedsReservation(w)
  <2>1. /\ held[w] = 0 /\ held' = [held EXCEPT ![w] = period] /\ period \in Periods
        /\ payload[w] = 0 /\ Cost[w] > 0 /\ Affordable(w) /\ Units(w) = Cost[w]
    BY <1>3 DEF ReserveCost, NeedsReservation, Units, WQTypeOK
  <2>2. \A m \in Periods : usage[w][m] = 0
    BY <2>1 DEF ChargeInv, ChargedIsAnswered, WQTypeOK
  <2>3. LedgerEntry[w] = Ledger!Free
    BY <2>1, <2>2 DEF EntryMeaning
  <2>4. held'[w] = period /\ period # 0
    BY <2>1 DEF WQTypeOK, Periods
  <2>5. LedgerEntry'[w] = Ledger!Held(period)
    BY <2>4 DEF EntryMeaning, Ledger!Held
  <2>6. LedgerEntry' = [LedgerEntry EXCEPT ![w] = Ledger!Held(period)]
    BY <1>1, <2>1, <2>5, OneEntryMoves
  <2>7. Ledger!Committed(period) + Cost[w] <= limit[period]
    BY <2>1, CommittedIsOwed DEF Affordable
  <2>8. Ledger!Hold(w, period)
    BY <1>1, <2>1, <2>3, <2>6, <2>7 DEF Ledger!Hold
  <2>9. QED
    BY <2>1, <2>8 DEF Ledger!CLNext
<1>4. QED
  BY <1>2, <1>3

(* _settle_cost gives an item's money back or spends it, or does nothing.  *)
LEMMA SettleReturnsOrSpends ==
  ASSUME WQTypeOK, ChargeInv, EntryMeaning, EntryMeaning',
         NEW w \in Items, NEW consume \in BOOLEAN, SettleCost(w, consume)
  PROVE  [Ledger!CLNext]_<<LedgerEntry, limit>>
<1>1. limit' = limit
  BY DEF SettleCost
<1>2. CASE held[w] = 0
  BY <1>1, <1>2 DEF SettleCost, LedgerEntry
<1>3. CASE held[w] # 0
  <2> DEFINE m == held[w]
  <2>1. /\ held' = [held EXCEPT ![w] = 0]
        /\ \A v \in Items \ {w} : usage'[v] = usage[v]
        /\ ~consume => usage' = usage
        /\ consume => usage'[w] = [usage[w] EXCEPT ![m] = @ + 1]
    <3>1. LedgerTypes
      BY DEF WQTypeOK, LedgerTypes
    <3>2. QED
      BY <1>3, <3>1, SettleEffect
  <2>2. m \in Periods /\ held'[w] = 0
    BY <1>3, <2>1 DEF WQTypeOK
  <2>3. \A n \in Periods : usage[w][n] = 0
    BY <1>3 DEF ChargeInv, ChargedIsAnswered, HeldExactlyWhileRunning, WQTypeOK
  <2>4. LedgerEntry[w] = Ledger!Held(m)
    BY <1>3 DEF EntryMeaning
  <2>5. LedgerEntry' = [LedgerEntry EXCEPT ![w] = LedgerEntry'[w]]
    BY <2>1, OneEntryMoves
  <2>6. CASE ~consume
    <3>1. LedgerEntry'[w] = Ledger!Free
      BY <2>1, <2>2, <2>3, <2>6 DEF EntryMeaning, Ledger!Free
    <3>2. Ledger!GiveBack(w, m)
      BY <1>1, <2>4, <2>5, <3>1 DEF Ledger!GiveBack
    <3>3. QED
      BY <2>2, <3>2 DEF Ledger!CLNext
  <2>7. CASE consume
    <3>1. usage'[w][m] > 0
      BY <2>1, <2>2, <2>3, <2>7 DEF WQTypeOK
    <3>2. \A n \in Periods : usage'[w][n] > 0 => LedgerEntry'[w] = Ledger!Spent(n)
      BY DEF EntryMeaning, Ledger!Spent
    <3>3. LedgerEntry'[w] = Ledger!Spent(m)
      BY <2>2, <3>1, <3>2
    <3>4. Ledger!Spend(w, m)
      BY <1>1, <2>4, <2>5, <3>3 DEF Ledger!Spend
    <3>5. QED
      BY <2>2, <3>4 DEF Ledger!CLNext
  <2>8. QED
    BY <2>6, <2>7
<1>4. QED
  BY <1>2, <1>3

(* Every operation of the queue is a step of the ledger, or none of its    *)
(* business.                                                               *)
LEMMA StepIsLedgerStep ==
  ASSUME WQTypeOK, FailingNamesItem, ChargeInv, LedgerConserved, EntryMeaning, EntryMeaning',
         [WQNext]_wqVars
  PROVE  [Ledger!CLNext]_<<LedgerEntry, limit>>
<1>1. \/ UNCHANGED <<limit, held, usage>>
      \/ \E m \in Periods, units \in Limits : ConfigureBudget(m, units)
      \/ \E w \in Items : ReserveCost(w)
      \/ \E w \in Items, consume \in BOOLEAN : SettleCost(w, consume)
  <2>1. ASSUME NEW p \in Conns, FailWrites(p)
        PROVE  \E w \in Items : SettleCost(w, FALSE)
    BY <2>1 DEF FailWrites, FailingNamesItem
  <2>2. QED
    BY <2>1
    DEF WQNext, Operator, Time, Calls, SetKillSwitch, EnqueueWork,
        BecomesAvailable, LeaseExpires, NextPeriod, ClaimPassesKillSwitch, ClaimFindsNothing,
        ClaimBlocksOnBudget, ClaimGrants, CompleteWork, BlockWork, FailReadsRow,
        Disconnects, wqVars, budgetVars
<1>2. CASE UNCHANGED <<limit, held, usage>>
  BY <1>2 DEF LedgerEntry
<1>3. ASSUME NEW m \in Periods, NEW units \in Limits, ConfigureBudget(m, units)
      PROVE  [Ledger!CLNext]_<<LedgerEntry, limit>>
  <2>1. LedgerEntry' = LedgerEntry /\ limit' = [limit EXCEPT ![m] = units]
    BY <1>3 DEF ConfigureBudget, LedgerEntry
  <2>2. Ledger!SetCap(m)
    BY <2>1 DEF Ledger!SetCap
  <2>3. QED
    BY <2>2 DEF Ledger!CLNext
<1>4. QED
  BY <1>1, <1>2, <1>3, ReserveHolds, SettleReturnsOrSpends

(* The queue's three tables implement the abstract ledger: money is held   *)
(* in one period before an item runs, only if everything committed there   *)
(* fits the cap, and is then given back or spent for good.                 *)
THEOREM QueueImplementsLedger == WQSpec => ImplementsCostLedger
<1>1. WQInit => Ledger!CLInit
  <2> SUFFICES ASSUME WQInit PROVE Ledger!CLInit
    OBVIOUS
  <2>1. \A w \in Items : {m \in Periods : usage[w][m] > 0} = {}
    BY DEF WQInit
  <2>2. LedgerEntry = [w \in Items |-> EntryOf(0, {})]
    BY <2>1 DEF WQInit, LedgerEntry
  <2>3. QED
    BY <2>2 DEF WQInit, Ledger!CLInit, EntryOf, Ledger!Free
<1>2. /\ WQTypeOK /\ FailingNamesItem /\ ChargeInv /\ LedgerConserved
      /\ EntryMeaning /\ EntryMeaning' /\ [WQNext]_wqVars
      => [Ledger!CLNext]_<<LedgerEntry, limit>>
  BY StepIsLedgerStep
<1>3. QED
  BY <1>1, <1>2, TypeCorrect, ChargeInvHolds, LedgerBalances, EntryIsMeant, PTL
  DEF WQSpec, ImplementsCostLedger, Ledger!CLSpec
=============================================================================
