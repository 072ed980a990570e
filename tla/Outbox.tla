------------------------------- MODULE Outbox -------------------------------
(***************************************************************************)
(* What the three outbox tables of sean_os/store.py have in common         *)
(* (backup_transfer_outbox, backup_restore_outbox, alert_delivery_outbox): *)
(* a row is authorised by consuming an approval made for exactly that row, *)
(* leased to a worker, and completed, failed, or held for reconciliation.  *)
(*                                                                         *)
(* authorize_* consumes and updates in one transaction; a claim is one     *)
(* transaction after a read of the kill switch; fail_claimed_* is a        *)
(* guarded read and an update by id alone; hold_claimed_* is a read and a  *)
(* guarded update whose row count nobody looks at.                         *)
(***************************************************************************)
EXTENDS Approvals, FiniteSets

CONSTANTS
  Rows,        \* plans or deliveries, numbered in the order of their creation
  MaxTries,    \* max_attempts of each row
  RowOf,       \* the row whose target and conditions an approval names
  TargetOf,    \* approval_target of each row: rows of one proposal share it
  Requesters,  \* concurrent calls of request_*_approval
  NoOne        \* no lease owner

ASSUME OutboxAssumption ==
  /\ Rows \subseteq Nat \ {0}
  /\ MaxTries \in [Rows -> Nat \ {0}]
  /\ RowOf \in [Approvals -> Rows]
  /\ NoOne \notin Conns

VARIABLES
  status,      \* status of each row, "ABSENT" before it exists
  boundTo,     \* approval_id
  lessee,      \* lease_owner
  lapsed,      \* now() >= lease_expires_at
  waiting,     \* now() < available_at
  tries,       \* attempt_count
  failing,     \* per process: the row fail_claimed_* has read, and its verdict
  holding,     \* per process: the row hold_claimed_* has read
  requesting   \* per call of request_*_approval: the row it found unasked for

rowVars  == <<status, boundTo, lessee, lapsed, waiting, tries>>
callVars == <<failing, holding>>
obVars   == <<rowVars, callVars, requesting>>

Finished == {"COMPLETED", "RESTORED", "SYNTHETIC_DELIVERED"}
Terminal == Finished \cup {"FAILED", "RECONCILIATION_REQUIRED"}
RowStatuses == {"ABSENT", "STAGED", "PREFLIGHT_VALIDATED", "AUTHORIZED"} \cup Terminal
NotFailing == [row |-> 0, dead |-> FALSE]

ObInit ==
  /\ status     = [t \in Rows |-> "ABSENT"]
  /\ boundTo    = [t \in Rows |-> NoApproval]
  /\ lessee     = [t \in Rows |-> NoOne]
  /\ lapsed     = [t \in Rows |-> FALSE]
  /\ waiting    = [t \in Rows |-> FALSE]
  /\ tries      = [t \in Rows |-> 0]
  /\ failing    = [p \in Conns |-> NotFailing]
  /\ holding    = [p \in Conns |-> 0]
  /\ requesting = [q \in Requesters |-> 0]

SetStatus(t, s) == status' = [status EXCEPT ![t] = s]

(* A row is INSERTed STAGED, due at once; the next one is created later.   *)
StageRow(t) ==
  /\ status[t] = "ABSENT"
  /\ \A u \in Rows : u < t => status[u] # "ABSENT"
  /\ SetStatus(t, "STAGED")
  /\ UNCHANGED <<boundTo, lessee, lapsed, waiting, tries, callVars, requesting>>

Preflight(t) ==
  /\ status[t] = "STAGED"
  /\ SetStatus(t, "PREFLIGHT_VALIDATED")
  /\ UNCHANGED <<boundTo, lessee, lapsed, waiting, tries, callVars, requesting>>

-----------------------------------------------------------------------------
(* request_*_approval looks for a pending request of the same target,      *)
(* marks those that are overdue, and inserts one if none is left.  Only   *)
(* an overdue row is written, which nothing can make usable again.        *)
PendingFor(t) ==
  {a \in Approvals : approval[a] = "PENDING" /\ TargetOf[RowOf[a]] = TargetOf[t]}

RequestReads(q, t, awaiting) ==
  /\ requesting[q] = 0
  /\ status[t] = awaiting
  /\ approval' = [a \in Approvals |->
                    IF a \in PendingFor(t) /\ Overdue(a) THEN "EXPIRED" ELSE approval[a]]
  /\ requesting' = IF \A a \in PendingFor(t) : Overdue(a)
                     THEN [requesting EXCEPT ![q] = t] ELSE requesting
  /\ UNCHANGED <<outdated, deciding, consuming, uses, rowVars, callVars>>

RequestWrites(q, a) ==
  /\ requesting[q] # 0 /\ RowOf[a] = requesting[q]
  /\ RequestApproval(a)
  /\ requesting' = [requesting EXCEPT ![q] = 0]
  /\ UNCHANGED <<rowVars, callVars>>

AuthorizeUncheckedBug(t, a, awaiting) ==    \* the status is not looked at
  /\ status[t] # "ABSENT" /\ RowOf[a] = t
  /\ ConsumeExactly(a)
  /\ SetStatus(t, "AUTHORIZED")
  /\ boundTo' = [boundTo EXCEPT ![t] = a]
  /\ UNCHANGED <<lessee, lapsed, waiting, tries, callVars, requesting>>

(* BEGIN IMMEDIATE; consume; UPDATE guarded by the status, or roll back.   *)
Authorize(t, a, awaiting) ==
  /\ status[t] = awaiting /\ RowOf[a] = t
  /\ ConsumeExactly(a)
  /\ SetStatus(t, "AUTHORIZED")
  /\ boundTo' = [boundTo EXCEPT ![t] = a]
  /\ UNCHANGED <<lessee, lapsed, waiting, tries, callVars, requesting>>

-----------------------------------------------------------------------------
(* Claiming.                                                               *)
UnleasedBug(t) == status[t] = "AUTHORIZED" /\ lessee[t] = NoOne   \* never reclaimed
Unleased(t)    == status[t] = "AUTHORIZED" /\ (lessee[t] = NoOne \/ lapsed[t])

ExhaustedEarlyBug(t) == tries[t] + 1 >= MaxTries[t]
Exhausted(t) == tries[t] >= MaxTries[t]
Claimable(t) == Unleased(t) /\ ~waiting[t] /\ ~Exhausted(t)

(* Give the lease of row t to process p; the rows of dead become FAILED.   *)
Lease(p, t, dead) ==
  /\ status' = [u \in Rows |-> IF u \in dead THEN "FAILED" ELSE status[u]]
  /\ lessee' = [u \in Rows |-> IF u = t THEN p ELSE IF u \in dead THEN NoOne ELSE lessee[u]]
  /\ lapsed' = [u \in Rows |-> u # t /\ u \notin dead /\ lapsed[u]]
  /\ tries'  = [u \in Rows |-> IF u = t THEN tries[u] + 1 ELSE tries[u]]
  /\ UNCHANGED <<boundTo, waiting, callVars, requesting>>

ReleaseRow(t) ==
  /\ lessee' = [lessee EXCEPT ![t] = NoOne]
  /\ lapsed' = [lapsed EXCEPT ![t] = FALSE]

Holds(p, t) == status[t] = "AUTHORIZED" /\ lessee[t] = p

-----------------------------------------------------------------------------
(* Settling.                                                               *)
Complete(p, t, done) ==
  /\ Holds(p, t) /\ ~lapsed[t]
  /\ SetStatus(t, done)
  /\ ReleaseRow(t)
  /\ UNCHANGED <<boundTo, waiting, tries, callVars, requesting>>

FailReads(p, t) ==
  /\ Holds(p, t)
  /\ failing' = [failing EXCEPT ![p] = [row |-> t, dead |-> Exhausted(t)]]
  /\ UNCHANGED <<rowVars, holding, requesting>>

FailWritesBug(p) ==                         \* a status nobody looks for
  LET t == failing[p].row IN
  /\ t # 0
  /\ SetStatus(t, IF failing[p].dead THEN "FAILED" ELSE "RETRY")
  /\ waiting' = [waiting EXCEPT ![t] = TRUE]
  /\ ReleaseRow(t)
  /\ failing' = [failing EXCEPT ![p] = NotFailing]
  /\ UNCHANGED <<boundTo, tries, holding, requesting>>

FailWrites(p) ==
  LET t == failing[p].row IN
  /\ t # 0
  /\ SetStatus(t, IF failing[p].dead THEN "FAILED" ELSE "AUTHORIZED")
  /\ waiting' = [waiting EXCEPT ![t] = TRUE]
  /\ ReleaseRow(t)
  /\ failing' = [failing EXCEPT ![p] = NotFailing]
  /\ UNCHANGED <<boundTo, tries, holding, requesting>>

HoldReads(p, t) ==
  /\ Holds(p, t)
  /\ holding' = [holding EXCEPT ![p] = t]
  /\ UNCHANGED <<rowVars, failing, requesting>>

HoldWrites(p) ==
  LET t == holding[p] IN
  /\ t # 0
  /\ IF Holds(p, t)
       THEN SetStatus(t, "RECONCILIATION_REQUIRED") /\ ReleaseRow(t)
       ELSE UNCHANGED <<status, lessee, lapsed>>
  /\ holding' = [holding EXCEPT ![p] = 0]
  /\ UNCHANGED <<boundTo, waiting, tries, failing, requesting>>

ObDisconnects(p) ==
  /\ failing' = [failing EXCEPT ![p] = NotFailing]
  /\ holding' = [holding EXCEPT ![p] = 0]
  /\ UNCHANGED <<rowVars, requesting>>

-----------------------------------------------------------------------------
(* The passing of time.                                                    *)
LeaseLapses(t) ==
  /\ status[t] = "AUTHORIZED" /\ lessee[t] # NoOne /\ ~lapsed[t]
  /\ lapsed' = [lapsed EXCEPT ![t] = TRUE]
  /\ UNCHANGED <<status, boundTo, lessee, waiting, tries, callVars, requesting>>

BackoffEnds(t) ==
  /\ waiting[t]
  /\ waiting' = [waiting EXCEPT ![t] = FALSE]
  /\ UNCHANGED <<status, boundTo, lessee, lapsed, tries, callVars, requesting>>

-----------------------------------------------------------------------------
ObTypeOK ==
  /\ status  \in [Rows -> RowStatuses]
  /\ boundTo \in [Rows -> Approvals \cup {NoApproval}]
  /\ lessee  \in [Rows -> Conns \cup {NoOne}]
  /\ lapsed  \in [Rows -> BOOLEAN]
  /\ waiting \in [Rows -> BOOLEAN]
  /\ tries   \in [Rows -> Nat]
  /\ failing \in [Conns -> [row : Rows \cup {0}, dead : BOOLEAN]]
  /\ holding \in [Conns -> Rows \cup {0}]
  /\ requesting \in [Requesters -> Rows \cup {0}]

(* Every consumed approval authorised exactly one row, the one it names,   *)
(* and no row was authorised without consuming one: the consumption and    *)
(* the authorisation are never half done, whoever calls authorize_* at the *)
(* same time and with whichever of several approvals.                      *)
ApprovalsAreSpentExactly ==
  \A a \in Approvals :
    /\ uses[a] = Cardinality({t \in Rows : boundTo[t] = a})
    /\ \A t \in Rows : boundTo[t] = a => RowOf[a] = t

(* A row is claimed at most max_attempts times, also by workers that die   *)
(* on it: the claim that finds the last lease expired fails the row.       *)
TriesBounded == \A t \in Rows : tries[t] <= MaxTries[t]
=============================================================================
