----------------------------- MODULE WorkQueue -----------------------------
(***************************************************************************)
(* The durable work queue of sean_os/store.py, with the cost ledger that   *)
(* claiming and settling keep and the kill switch that claiming reads.     *)
(*                                                                         *)
(* One action is one committed SQLite transaction.  Where the code reads   *)
(* the database before the transaction that acts on the answer, the read   *)
(* and the write are two actions and what was read is kept per connection  *)
(* (claiming, failing).  The module says what the store does for ANY       *)
(* caller: every connection may call every operation at any time.          *)
(* WorkerRuntime restricts the callers to what scripts/worker.py does.     *)
(*                                                                         *)
(* The database is bound to one scope profile (IAC), so all rows have one  *)
(* owner scope and there is one budget row per period.  Time is the        *)
(* passing of the three deadlines the code compares with now():            *)
(* available_at, lease_expires_at and the end of a budget period.          *)
(*                                                                         *)
(* A definition whose name ends in Bug is the definition after it with a   *)
(* plausible mistake.  No specification uses one: they are there to show   *)
(* that a property would notice (README, "What would be noticed").         *)
(***************************************************************************)
EXTENDS Integers, FiniteSets, RuntimeState, Totals

CONSTANTS
  WorkerIds,    \* the --worker-id strings
  WorkerIdOf,   \* the worker id each connection presents
  Items,        \* work_queue ids, numbered in the order of created_at
  Priority,     \* priority of each item, smaller is claimed first
  MaxAttempts,  \* max_attempts of each item
  Cost,         \* estimated_cost_units of each item, 0 when it declares none
  Limits,       \* limits an operator may configure
  MaxPeriod,    \* bound: budget periods (months) are 1..MaxPeriod
  MaxClaims,    \* bound: an item is claimed at most this often
  NoOne         \* a NULL lease_owner

Periods == 1..MaxPeriod

ASSUME ConnsAssumption == WorkerIdOf \in [Conns -> WorkerIds]
ASSUME ItemsAssumption == Items \subseteq Nat \ {0}
ASSUME PayloadAssumption ==
  /\ Priority \in [Items -> Int]
  /\ MaxAttempts \in [Items -> Nat \ {0}]
  /\ Cost \in [Items -> Nat]
ASSUME ItemsFinite == IsFiniteSet(Items)
ASSUME BoundsAssumption ==
  /\ Limits \subseteq Nat
  /\ MaxPeriod \in Nat \ {0}
  /\ MaxClaims \in Nat
ASSUME NoOneAssumption == NoOne \notin WorkerIds

VARIABLES
  status,       \* work_queue.status, "ABSENT" before the row exists
  owner,        \* lease_owner
  lapsed,       \* lease_expires_at <= now()
  ready,        \* available_at <= now()
  attempts,     \* attempts
  payload,      \* 0: the payload as enqueued; n > 0: replaced by result n
  period,       \* current_period()
  limit,        \* budgets.limit_units, -1 where there is no budgets row
  used,         \* budgets.used_units
  reserved,     \* budgets.reserved_units
  held,         \* cost_reservations: the period charged, 0 for no row
  usage,        \* usage_events: the number of rows per item and period
  claiming,     \* connections past the kill-switch read of claim_work
  failing       \* per connection, what fail_work has read and not yet acted on

rowVars    == <<status, owner, lapsed, ready, attempts, payload>>
budgetVars == <<limit, used, reserved, held, usage>>
callVars   == <<claiming, failing>>
wqVars     == <<killSwitch, rowVars, period, budgetVars, callVars>>

Blocked  == {"BUDGET_BLOCKED", "APPROVAL_BLOCKED", "POLICY_BLOCKED"}
Settled  == {"SUCCEEDED", "DEAD_LETTER"} \cup Blocked
Statuses == {"ABSENT", "QUEUED", "RUNNING"} \cup Settled
NotFailing == [item |-> 0, dead |-> FALSE]
FailReads  == [item : Items \cup {0}, dead : BOOLEAN]

WQInit ==
  /\ killSwitch = FALSE
  /\ status   = [w \in Items |-> "ABSENT"]
  /\ owner    = [w \in Items |-> NoOne]
  /\ lapsed   = [w \in Items |-> FALSE]
  /\ ready    = [w \in Items |-> FALSE]
  /\ attempts = [w \in Items |-> 0]
  /\ payload  = [w \in Items |-> 0]
  /\ period   = 1
  /\ limit    = [m \in Periods |-> -1]
  /\ used     = [m \in Periods |-> 0]
  /\ reserved = [m \in Periods |-> 0]
  /\ held     = [w \in Items |-> 0]
  /\ usage    = [w \in Items |-> [m \in Periods |-> 0]]
  /\ claiming = {}
  /\ failing  = [p \in Conns |-> NotFailing]

-----------------------------------------------------------------------------
(* Sean's controls: the kill switch and the budget of a period.            *)

SetKillSwitch(on) ==
  /\ KillSwitchSet(on)
  /\ UNCHANGED <<rowVars, period, budgetVars, callVars>>

ConfigureBudget(m, units) ==
  /\ limit' = [limit EXCEPT ![m] = units]
  /\ UNCHANGED <<killSwitch, rowVars, period, used, reserved, held, usage, callVars>>

(* enqueue_work: available_at is the present or a moment still to come.    *)
EnqueueWork(w, now) ==
  /\ status[w] = "ABSENT"
  /\ \A v \in Items : v < w => status[v] # "ABSENT"
  /\ status' = [status EXCEPT ![w] = "QUEUED"]
  /\ ready'  = [ready EXCEPT ![w] = now]
  /\ UNCHANGED <<killSwitch, owner, lapsed, attempts, payload, period, budgetVars, callVars>>

-----------------------------------------------------------------------------
(* The passing of time.                                                    *)

BecomesAvailable(w) ==
  /\ status[w] = "QUEUED" /\ ~ready[w]
  /\ ready' = [ready EXCEPT ![w] = TRUE]
  /\ UNCHANGED <<killSwitch, status, owner, lapsed, attempts, payload, period, budgetVars, callVars>>

LeaseExpires(w) ==
  /\ status[w] = "RUNNING" /\ ~lapsed[w]
  /\ lapsed' = [lapsed EXCEPT ![w] = TRUE]
  /\ UNCHANGED <<killSwitch, status, owner, ready, attempts, payload, period, budgetVars, callVars>>

NextPeriod ==
  /\ period < MaxPeriod
  /\ period' = period + 1
  /\ UNCHANGED <<killSwitch, rowVars, budgetVars, callVars>>

-----------------------------------------------------------------------------
(* The cost ledger: _reserve_cost and _settle_cost run inside the          *)
(* transaction of their caller.                                            *)

UnitsBug(w) == Cost[w]                   \* as if a result kept the estimate

(* float(payload.get("estimated_cost_units", 0)): a stored result declares *)
(* no estimate.                                                            *)
Units(w) == IF payload[w] = 0 THEN Cost[w] ELSE 0

NeedsReservationBug(w) == Units(w) > 0   \* no look for an existing row

NeedsReservation(w) == Units(w) > 0 /\ held[w] = 0

Affordable(w) ==
  /\ limit[period] # -1
  /\ used[period] + reserved[period] + Units(w) <= limit[period]

ReserveCost(w) ==
  /\ IF NeedsReservation(w)
       THEN /\ Affordable(w)
            /\ reserved' = [reserved EXCEPT ![period] = @ + Units(w)]
            /\ held'     = [held EXCEPT ![w] = period]
       ELSE UNCHANGED <<reserved, held>>
  /\ UNCHANGED <<limit, used, usage>>

(* cost_reservations.units is the estimate of the payload as enqueued.     *)
SettleCost(w, consume) ==
  /\ IF held[w] = 0
       THEN UNCHANGED <<used, reserved, held, usage>>
       ELSE LET m == held[w] IN
            /\ reserved' = [reserved EXCEPT ![m] = @ - Cost[w]]
            /\ held'     = [held EXCEPT ![w] = 0]
            /\ IF consume
                 THEN /\ used'  = [used EXCEPT ![m] = @ + Cost[w]]
                      /\ usage' = [usage EXCEPT ![w][m] = usage[w][m] + 1]
                 ELSE UNCHANGED <<used, usage>>
  /\ UNCHANGED limit

-----------------------------------------------------------------------------
(* claim_work: the kill switch is read before BEGIN IMMEDIATE.             *)

ClaimableBug(w) == status[w] = "QUEUED" /\ ready[w]   \* leases never recovered

ClaimableBlockedBug(w) ==                              \* blocked work is tried again
  \/ status[w] \in {"QUEUED", "BUDGET_BLOCKED"} /\ ready[w]
  \/ status[w] = "RUNNING" /\ lapsed[w]

Claimable(w) ==
  \/ status[w] = "QUEUED"  /\ ready[w]
  \/ status[w] = "RUNNING" /\ lapsed[w]

ClaimedBefore(v, w) ==
  Priority[v] < Priority[w] \/ (Priority[v] = Priority[w] /\ v < w)

FirstClaimable(w) ==
  /\ Claimable(w)
  /\ \A v \in Items : v # w /\ Claimable(v) => ClaimedBefore(w, v)

ClaimPassesKillSwitch(p) ==
  /\ ~killSwitch
  /\ p \notin claiming
  /\ claiming' = claiming \cup {p}
  /\ UNCHANGED <<killSwitch, rowVars, period, budgetVars, failing>>

ClaimFindsNothing(p) ==
  /\ p \in claiming
  /\ \A w \in Items : ~Claimable(w)
  /\ claiming' = claiming \ {p}
  /\ UNCHANGED <<killSwitch, rowVars, period, budgetVars, failing>>

ClaimBlocksOnBudget(p, w) ==
  /\ p \in claiming
  /\ FirstClaimable(w)
  /\ NeedsReservation(w) /\ ~Affordable(w)
  /\ claiming' = claiming \ {p}
  /\ status'   = [status EXCEPT ![w] = "BUDGET_BLOCKED"]
  /\ UNCHANGED <<killSwitch, owner, lapsed, ready, attempts, payload, period, budgetVars, failing>>

ClaimGrants(p, w) ==
  /\ p \in claiming
  /\ FirstClaimable(w)
  /\ attempts[w] < MaxClaims
  /\ ReserveCost(w)
  /\ claiming' = claiming \ {p}
  /\ status'   = [status EXCEPT ![w] = "RUNNING"]
  /\ owner'    = [owner EXCEPT ![w] = WorkerIdOf[p]]
  /\ lapsed'   = [lapsed EXCEPT ![w] = FALSE]
  /\ attempts' = [attempts EXCEPT ![w] = @ + 1]
  /\ UNCHANGED <<killSwitch, ready, payload, period, failing>>

-----------------------------------------------------------------------------
(* Settling.  complete_work and block_work are one guarded UPDATE each;    *)
(* the guard is the owner's name, not the lease's deadline.                *)

HoldsRow(p, w) == status[w] = "RUNNING" /\ owner[w] = WorkerIdOf[p]

Release(w, next) ==
  /\ status' = [status EXCEPT ![w] = next]
  /\ owner'  = [owner EXCEPT ![w] = NoOne]
  /\ lapsed' = [lapsed EXCEPT ![w] = FALSE]

CompleteWork(p, w, result) ==
  /\ HoldsRow(p, w)
  /\ Release(w, "SUCCEEDED")
  /\ payload' = [payload EXCEPT ![w] = result]
  /\ SettleCost(w, TRUE)
  /\ UNCHANGED <<killSwitch, ready, attempts, period, callVars>>

BlockWork(p, w, next) ==
  /\ HoldsRow(p, w)
  /\ Release(w, next)
  /\ SettleCost(w, FALSE)
  /\ UNCHANGED <<killSwitch, ready, attempts, payload, period, callVars>>

(* fail_work reads the guarded row, then updates it by id alone.           *)
OutOfAttemptsBug(w) == attempts[w] + 1 >= MaxAttempts[w]
OutOfAttempts(w)    == attempts[w] >= MaxAttempts[w]

StatusAfterFailBug(dead) == IF dead THEN "FAILED" ELSE "QUEUED"
StatusAfterFail(dead)    == IF dead THEN "DEAD_LETTER" ELSE "QUEUED"

FailReadsRow(p, w) ==
  /\ HoldsRow(p, w)
  /\ failing[p] = NotFailing
  /\ failing' = [failing EXCEPT ![p] = [item |-> w, dead |-> OutOfAttempts(w)]]
  /\ UNCHANGED <<killSwitch, rowVars, period, budgetVars, claiming>>

FailWrites(p) ==
  LET w == failing[p].item IN
  /\ failing[p] # NotFailing
  /\ Release(w, StatusAfterFail(failing[p].dead))
  /\ ready' = [ready EXCEPT ![w] = FALSE]
  /\ SettleCost(w, FALSE)
  /\ failing' = [failing EXCEPT ![p] = NotFailing]
  /\ UNCHANGED <<killSwitch, attempts, payload, period, claiming>>

(* A process dies: what its connection had read is gone, and SQLite rolls  *)
(* back whatever it had not committed.                                     *)
Disconnects(p) ==
  /\ claiming' = claiming \ {p}
  /\ failing'  = [failing EXCEPT ![p] = NotFailing]
  /\ UNCHANGED <<killSwitch, rowVars, period, budgetVars>>

-----------------------------------------------------------------------------
Operator ==
  \/ \E on \in BOOLEAN : SetKillSwitch(on)
  \/ \E m \in Periods, units \in Limits : ConfigureBudget(m, units)
  \/ \E w \in Items, now \in BOOLEAN : EnqueueWork(w, now)

Time ==
  \/ \E w \in Items : BecomesAvailable(w) \/ LeaseExpires(w)
  \/ NextPeriod

Calls(p) ==
  \/ ClaimPassesKillSwitch(p)
  \/ ClaimFindsNothing(p)
  \/ \E w \in Items :
       \/ ClaimBlocksOnBudget(p, w)
       \/ ClaimGrants(p, w)
       \/ \E n \in 1..attempts[w] : CompleteWork(p, w, n)
       \/ \E next \in {"APPROVAL_BLOCKED", "POLICY_BLOCKED"} : BlockWork(p, w, next)
       \/ FailReadsRow(p, w)
  \/ FailWrites(p)
  \/ Disconnects(p)

WQNext == Operator \/ Time \/ \E p \in Conns : Calls(p)

WQSpec == WQInit /\ [][WQNext]_wqVars
-----------------------------------------------------------------------------
(* Properties.                                                             *)

(* Every variable has the type its column or its local has.                *)
WQTypeOK ==
  /\ killSwitch \in BOOLEAN
  /\ status   \in [Items -> Statuses]
  /\ owner    \in [Items -> WorkerIds \cup {NoOne}]
  /\ lapsed   \in [Items -> BOOLEAN]
  /\ ready    \in [Items -> BOOLEAN]
  /\ attempts \in [Items -> Nat]
  /\ payload  \in [Items -> Nat]
  /\ period   \in Periods
  /\ limit    \in [Periods -> Nat \cup {-1}]
  /\ used     \in [Periods -> Int]
  /\ reserved \in [Periods -> Int]
  /\ held     \in [Items -> Periods \cup {0}]
  /\ usage    \in [Items -> [Periods -> Nat]]
  /\ claiming \subseteq Conns
  /\ failing  \in [Conns -> FailReads]

(* What each item holds, and what it has spent, in a period.               *)
HeldIn(m)  == [w \in Items |-> IF held[w] = m THEN Cost[w] ELSE 0]
SpentIn(m) == [w \in Items |-> usage[w][m] * Cost[w]]

(* The two totals of a budgets row are the sums of the rows they summarise:*)
(* reserved_units of the open cost_reservations, used_units of the         *)
(* usage_events.  Four operations keep the three tables by separate        *)
(* UPDATEs (_reserve_cost, _settle_cost), fail_work after a stale read.    *)
LedgerConserved ==
  \A m \in Periods :
    /\ reserved[m] = Total(HeldIn(m))
    /\ used[m]     = Total(SpentIn(m))

(* A work item is charged at most once in its life, in one period, however *)
(* often its lease is lost and whatever a late fail_work undoes.           *)
ChargedOnce ==
  \A w \in Items : \A m, n \in Periods :
    /\ usage[w][m] <= 1
    /\ usage[w][m] = 1 /\ usage[w][n] = 1 => m = n

(* Money is held for exactly the paid items that are running: no           *)
(* reservation outlives its item's run, and no paid item runs unfunded.    *)
HeldExactlyWhileRunning ==
  \A w \in Items :
    held[w] # 0 <=> status[w] = "RUNNING" /\ Cost[w] > 0 /\ payload[w] = 0

(* An item is dead-lettered only once its attempts are used up, also when  *)
(* fail_work decided on a row that has been claimed again since.           *)
DeadLetterAfterMaxAttempts ==
  \A w \in Items : status[w] = "DEAD_LETTER" => attempts[w] >= MaxAttempts[w]

(* What a period owes and has spent grows only inside its limit, although  *)
(* Sean may lower the limit below what is already committed.               *)
SpendGrowsWithinLimit ==
  [][\A m \in Periods :
       used'[m] + reserved'[m] > used[m] + reserved[m]
         => used'[m] + reserved'[m] <= limit[m]]_wqVars

(* The queue's tables implement the abstract ledger: an item is spent once *)
(* a usage_events row names it, held while a cost_reservations row does.   *)
EntryOf(heldIn, chargedIn) ==
  IF chargedIn # {}
    THEN [kind |-> "spent", in |-> CHOOSE m \in chargedIn : TRUE]
    ELSE [kind |-> IF heldIn # 0 THEN "held" ELSE "free", in |-> heldIn]

LedgerEntry == [w \in Items |-> EntryOf(held[w], {m \in Periods : usage[w][m] > 0})]

Ledger == INSTANCE CostLedger WITH entry <- LedgerEntry, cap <- limit

ImplementsCostLedger == Ledger!CLSpec
=============================================================================
