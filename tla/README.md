# The IAC AI runtime in TLA+

Sean OS is a local-first runtime: one SQLite file, a worker process that claims
durable work items from it, and a set of default-off outboxes (alert delivery,
backup upload, isolated restore) that the same file drives.  Every promise the
documents make (leases, retry limits, budgets, single-use approvals, the kill
switch, "never retried automatically") is kept by SQL statements that several
processes may run at any time, and by Python code that may die between any two
of its commits.  This directory states those promises as TLA+ properties of
modules translated from the source, checks them with TLC, and proves the most
important ones with TLAPS.

## How to read it

`tlc -config X.cfg M` checks a run, `tlapm M.tla` a proof module.
`PROJECT.json` lists the runs, which source lines each definition stands for
(`map`), the hazards the properties are aimed at, the disagreements found
between code and documents (`findings`) and the theorems.

Conventions used in every module:

* one action is one committed transaction, or one read whose answer the code
  uses after the read.  Nothing else is atomic: Python's `sqlite3` opens a
  transaction at the first UPDATE, so a SELECT before it is a separate step,
  unless the code issues `BEGIN IMMEDIATE` first;
* time is not a number.  A deadline the code compares with `now()` is a Boolean
  that becomes TRUE once (`lapsed`, `ready`, `outdated`), at any moment;
* a process that dies loses its locals; SQLite rolls back what it had not
  committed;
* the `_audit` rows, which are written by separate commits after the fact, the
  heartbeats and all texts are left out;
* a definition whose name ends in `Bug` is the next definition with a plausible
  mistake in it.  No specification uses it (see "What would be noticed").

## Inventory

| Component | State | Operations | Hard because |
|---|---|---|---|
| Work queue and cost ledger (`store.py`) | `work_queue`, `budgets`, `cost_reservations`, `usage_events`, kill switch | enqueue, claim, complete, block, fail, reserve, settle, configure budget | leases lapse under a live worker, `fail_work` reads and then writes unguarded, three tables carry one sum, a reservation outlives its month |
| Approvals (`store.py`) | `approvals` | create, request, decide, consume | read and update in separate steps; expiry; single use across processes |
| Worker loop and policy registry (`worker.py`, `policy.py`) | `action_executions`, the process's locals | claim, replay, gate, approve, handle, record, settle | a crash between any two commits, overlapping attempts, the switch turned mid-item |
| Backup transfer (`store.py`, `backup_execution.py`, `worker.py`) | `backup_transfer_outbox`, the bucket | stage, preflight, request, authorize, claim, guard, upload, complete, hold, fail | the upload may succeed and its answer be lost; the guard is a check before an irreversible act |
| Isolated restore (`store.py`, `backup_restore_execution.py`, `restore_worker.py`) | restore outbox, the destination file | stage, authorize, claim, guard, download, complete, hold, fail | an approval window, a destination that must never be overwritten |
| Alert incidents and delivery (`store.py`, `monitoring.py`) | incidents, observations, outbox | observe, resolve, reopen, acknowledge, stage, authorize, claim, deliver, fail, reset | generations of an incident against the deliveries of the earlier one |
| Migration guard (`migration_guard.py`, `migrations.py`, `container_entrypoint.py`) | database file, backups and manifests, quarantined files, schema version | back up, migrate version by version, restore, hold | a crash between two file operations, restarts that repeat them, deployments back and forth |
| Scheduler (`scheduler.py`) | `schedule_dispatches` | tick | two workers at the same boundary |
| Command gateway and HTTP interface (`commands.py`, `interface.py`) | `command_requests`, `coding_delivery_requests` | submit, status | a request repeated while its first copy is being stored, one delivery under two request ids |
| Reports, imports, deliveries (`reporting.py`, `integrations.py`) | `report_runs`, `imported_artifacts`, `coding_deliveries` | generate, ingest, record | look-up, record, registration and links are separate commits, repeated after a crash |
| Chief of Staff (`chief_of_staff.py`) | `project_state`, DECISION records, GOVERNS links | create, evaluate, review, maintain | several commits that belong together, reviews that judge by what they read before |
| Records, sale export, audit | `records`, `relationships`, `audit_log` | create, update with version, link, export | optimistic versions |
| Contracts, cryptography, secrets, health, scripts | none of their own | validate, encrypt, resolve, summarise | not state machines: not modelled |

Components interact through the database only: every arrow between them is a
row one writes and another reads.  The kill switch row is read by claiming, by
the policy gate and by the guards of the backup and restore outboxes; an
approval row is consumed by the registry and by the three `authorize_*` calls;
the worker process runs, in one loop and in this order, the monitor, the
scheduler, the alert outbox, the backup outbox and one work item.

## What makes each component correct

* *Work queue and ledger*: an item's money is held exactly while it runs and is
  charged at most once, in the month that held it; spending grows only under
  the limit; retries end.
* *Approvals*: nothing is done on an undecided, denied, used up or expired
  approval; a closed one is never usable again.
* *Worker*: a handler that succeeded is not run again for the same item; what is
  reported SUCCEEDED really happened; nothing new starts under the kill switch;
  every item settles.
* *Backup transfer*: one authorised upload per object key, a receipt that attests
  the stored bytes, bounded attempts, no upload under the kill switch, and an
  outcome that is recorded once and is true.
* *Restore*: the plaintext a receipt attests exists, a plan is given up only when
  its attempts or its window are used up, nothing is published under the kill
  switch, one outcome and one plaintext per plan.
* *Alerts*: a condition that lasts has an active incident in the end; only what
  was seen is resolved; an authorised delivery is settled in the end.
* *Migration guard*: no write is ever destroyed, whatever has been migrated can
  be taken back, and a release runs on its own schema version with everything
  that was written.
* *Scheduler, gateway, reports, imports*: one work item per request, period or
  delivery, from any number of callers; one registered record per key, which
  every answer names; whole deliveries.
* *Chief of Staff*: a project is paused for a cause, stays paused until there is
  evidence, and a decision says why.

## Modules

    RuntimeState              kill switch, connections
      WorkQueue               queue, leases, budget: any caller, any order
        CostLedger            what the budget promises (abstract)
        Totals                sums of a table's column, for both
        WorkQueueProofs       theorems
      Approvals               approvals
        ApprovalsProofs       theorems
        Outbox                what the three outbox tables share
          BackupTransfer      the upload: outbox, worker, guards, bucket
            OneShot           what an approval-gated effect promises (abstract)
            BackupTransferProofs   theorems
          BackupRestore       the isolated restore; also implements OneShot
            BackupRestoreProofs    theorems
          Alerts              incidents, monitor, deliveries, interface calls
      WorkerRuntime           scripts/worker.py driving WorkQueue and Approvals
        WorkerRuntimeProofs   theorems
    Intake                    gateway, scheduler, reports, imports, deliveries
      IntakeProofs            theorems
    Portfolio                 the Chief of Staff's projects
      PortfolioProofs         theorems
    MigrationGuard            starts, migrations, restorations, deployments
      MigrationGuardProofs    theorems
    MC<module>                instances for TLC: MCWorkQueue, MCApprovals,
                              MCWorkerRuntime, MCBackupTransfer, MCBackupRestore,
                              MCAlerts, MCIntake, MCPortfolio, MCMigrationGuard

**WorkQueue.**  Each operation of the store is an action that any connection
may take at any time; `WorkerRuntime` later restricts the callers.  `claim_work`
is two steps, because the kill switch is read before `BEGIN IMMEDIATE`
(`claiming`); `fail_work` is two, because its UPDATE is not guarded by what its
SELECT saw (`failing`).  `complete_work` and `block_work` are one guarded UPDATE
each.  `_reserve_cost` and `_settle_cost` are operators inside their callers'
actions, as in the code.  The database is bound to the IAC profile, so all rows
have one scope and there is one budget row per month.  An item's payload is
either as enqueued, with its declared cost, or the result that replaced it.
`claim_work` takes its time stamp just before it waits for the write lock; the
model compares deadlines when the transaction runs.

**CostLedger** is the abstract promise: per item *free, held, spent*; money is
held only under the cap, and ends up given back or spent in the period it was
held in.  `WorkQueue!Ledger` is the refinement mapping (an item is spent once a
`usage_events` row names it, held while a `cost_reservations` row does).
**Totals** states a sum as the number of its units, each marked with the row it
comes from: without recursion, so that what a change of one row does to the sum
follows from the cardinality of finite sets.

**Approvals.**  `consume_approval` is two steps when its caller has opened no
transaction, which is how the registry calls it (`ConsumeReads`,
`ConsumeWrites`), and one inside an outbox's `BEGIN IMMEDIATE`
(`ConsumeExactly`).  `decide_approval` is always a read and a write.  An expiry
is compared as an instant in one place and as text in another; `Zone` says how
each `expires_at` is written and `outdated` which of the two has passed.

**WorkerRuntime.**  `pc` is the place of each process in the loop of
`scripts/worker.py` and `ActionRegistry.execute`; `receipts` is
`action_executions`.  A handler's result is named by the attempt number that
produced it, `ran` is the history of invocations.  A rejected `complete_work`
goes to `fail_work` like a handler error; a rejected `fail_work` or
`block_work` ends the process.  `Crash` is possible at every place and
`Restart` is the supervisor's (`railway.json`, ON_FAILURE).

**Outbox** holds the row state and the operations on it that the transfer,
restore and alert outboxes write in the same way: request, authorise, lease,
complete, fail, hold.  `fail_claimed_*` is a guarded read and an update by id
alone (`failing`); `hold_claimed_*` is a read and a guarded update whose row
count nobody looks at (`holding`); `request_*_approval` looks for a pending
request and inserts one in a later transaction (`requesting`).

**BackupTransfer** is `process_backup_transfer_once` over that table.  `place`
is the process's position between the claim and the settling call, with the
three guards of `execute_claimed_backup_transfer` as places of their own; a
guard reads the row and then the kill switch (`looked`).  The bucket is known
only by its conditional Put Object: a put under a free key stores the object
and may or may not be answered; a put under a taken key, or one that is lost,
ends as an ambiguous failure.  Every attempt encrypts anew, so that an object is
named by plan and attempt (`version`).  The claimed plan is validated twice in
the code, against the same documents; the model has one step for both.  Every
error of the code before the request leads to `fail`, every one after it to
`hold`.

**OneShot** is the abstract promise: an irreversible effect only for a granted
plan whose outcome is open, at most one per place, and an outcome that is
concluded once and, when it says *kept*, is true.  `BackupTransfer!Promise`
maps the tables onto it: granted is "bound to an approval", the place is the
object key, the outcome is read off the status.

**BackupRestore** is the one-shot `restore_worker.py` over the same table
operations.  A worker is started by hand with a path that does not exist yet
(`target`), claims one plan, passes the three guards, downloads, decrypts,
links the plaintext to the path (`Links`), cleans up and completes.  The claim
sweeps rows whose attempts or whose approved window are used up, and caps the
lease at the window's end; `window` is *before*, *open* or *over*, and may turn
at any moment.  `Reviews` and `RequestRestoreReads`/`Writes` are the two looks
for a live approval that the operator script and the store take before the
insertion.  `Promise` maps it onto **OneShot** as well: here the place is the
plan itself, and the effect takes hold when the plaintext is published and
cleaned up after.

**Alerts** has the incident per (scope, route, code), the monitor's snapshot and
what it records of it alert by alert, the interface's calls on incidents and
deliveries, and the worker's delivery loop over the outbox table.  An alert's
condition is read off the model's own state: the switch that is ON, a delivery
that is FAILED.  The interface answers one request at a time, so that one call
(`call`) at most is between its read and its write.

**Intake** is how a request becomes records: the gateway's look-up and its
insertion (`SubmitLooksUp`, `SubmitInserts`, with the unique keys that make the
second of two racing calls fail, `SubmitLost`), the scheduler's dispatch in one
transaction, and the four kinds of handler as one sequence of commits (look,
scan, create, register, links, receipt) of which each kind takes its part.
Queue items, records and registrations are numbers in the order of insertion.

**Portfolio** is what the Chief of Staff's handlers do to projects, one commit
at a time: the creation with its parts and the activation, the ranking that
reads before it judges, the transition of each project, the decision, the links
that govern.  An item is a job that is begun again until its receipt is stored.
A review's capacity and low-fit threshold are its payload's (`cap`,
`threshold`), and a paused row keeps the limit its reason names (`life`).
Ownership is by worker id, as in the code, where the agent of a handler is the
worker that runs it.

**MigrationGuard** is a start of the container: `place` is where
`guarded_migrate` or `restore_pre_migration_backup` is; the volume holds the
database, one backup and manifest per (source, target) pair, and the quarantined
files.  A database is its schema version, the writes it contains and the version
its first migration came from.  The platform restarts a start that raised, as
often as `restartPolicyMaxRetries` allows; the operator deploys either release
at any time, with or without a version to restore; a running release writes.
`losses` is a history variable: the three ways in which the code leaves writes
behind in another file (`stale`, `torn`, and the approved `rollback`).

## Runs

| Run | Instance | Question | Distinct states |
|---|---|---|---|
| work_queue | 2 connections, 2 paid items, 2 months, 2 limits, 2 claims per item | does the money stay straight whatever is called, and is the ledger implemented? | 465,460 |
| worker_single | 1 process, a paid and an approval-gated item, 2 faults, 2 deciders | what the deployed single worker guarantees, and that a closed approval stays closed | 711,484 |
| worker_pair | 2 processes, a paid item and one the policy refuses, 1 fault, fair | what survives overlapping attempts, and does every item settle? | 200,422 |
| transfer_single | 1 process, 2 plans of one key (2 tries and 1), 2 approvals, one of them reusable, 1 fault, fair | the abstract promise and the end of every transfer | 256,578 |
| transfer_pair | 2 processes, 1 plan, 2 approvals for it, a requester and a decider, 2 faults | what survives two workers on one plan | 1,599,104 |
| restore_single | 1 process, 2 plans, 2 paths, an approval each, 1 fault | causes of failure, one plaintext per plan, the abstract promise | 354,000 |
| restore_pair | 2 processes, 1 plan, 2 approvals for it, 2 paths, 1 fault | what survives two workers on one plan | 451,000 |
| alerts | 1 worker, 2 alert codes, 1 delivery of 2 tries, a reopening, a reset, 1 fault, fair | is a lasting condition reported, is only what was seen resolved, is a delivery settled? | 199,000 |
| migration | 2 releases two versions apart, 2 crashes, 2 deployments, 2 retries each, 2 writes | are writes ever destroyed, can a migration be taken back, what does a release run on? | 137,542 |
| intake | 2 gateways, 2 workers, 2 request ids, a report, a delivery, an import and its altered copy, a note; 1 fault, 1 lapse | one item per request, one registered record per answer, whole deliveries | 1,200,000 |
| portfolio | 2 workers, 3 plans for 2 places, a creation of each kind, a maintenance and a review of different thresholds, an evaluation; 1 cut-off, 1 lapse | are projects paused for cause, for good, and with a decision? | 4,414,859 |
| expired_accepted | 2 connections, 2 approvals, expiries written east of UTC | AcceptedInForce, which the code breaks | |

*Bounds.*  Two connections are enough for every race here: each hazard is one
process acting between another's read and write.  Two items give the order of
claiming and competition for one budget; two plans under one key give the
collision in the bucket; two approvals for one plan give the race to authorise
it.  Two months let a reservation cross a boundary.  `MaxClaims` cuts the
endless recovery of a lapsed lease; in `worker_pair` it is far above what one
fault and the retries allow, so that it never stops anything the liveness
property speaks of.  `MaxFaults` counts crashes and leases that lapse on a live
process; a lease nobody works on lapses freely.  In `alerts`, incidents that
were reopened `MaxReopens` times are not resolved again, and failed deliveries
are reset `MaxResets` times: one of each is a whole cycle.  In `migration`, two
versions between the releases leave a database half way; two deployments go to
the candidate and back, or to the restoration and back; two retries per
deployment repeat each start that failed, where the platform allows ten.  In
`intake`, two items for one key are what an overlapping or a repeated request
gives.  In `portfolio`, three plans and two places let a copy that an
interrupted creation left take part in the ranking, and a plan whose fit is too
low for the maintenance but not for the review is paused by either, for its fit
or for capacity.

*Fairness* (`FairSpec`, `BTFairSpec`, `AlFairSpec`): a process that is alive
takes its next step, a dead one is restarted, deadlines pass; the monitor of
`alerts`, whose interval is short of the loop's life, looks again and again.
The loop has no blocking call other than SQLite's own lock and the provider's
request, which its client bounds, and the supervisor restarts a failed container
up to ten times, more than `MaxFaults`.  Nothing is assumed of Sean, of
approvals, of the window or of the kill switch; `EveryItemSettles`,
`TransferEnds` and `DeliverySettles` have "the switch stays OFF from some time
on" as their premise.  No liveness is claimed of the restore (its worker is
started by hand), of `intake` and `portfolio` (their items are the queue's,
whose settling `worker_pair` checks), or of the migration, which may well give
up.

*Deadlock* is checked except where the modelled system may stop: in
`migration`, when the platform has used up its retries; in `intake` and
`portfolio`, when every request has been answered and every job receipted, and
what remains is polling.

*Type invariants.*  `ApTypeOK`, `WRTypeOK`, `MgTypeOK` and `PfTypeOK` are proved
(see Proofs) and `WQTypeOK`, `BTTypeOK` are checked in runs and proved;
`BRTypeOK`, `AlTypeOK` and `InTypeOK` hold in the instances above, to be seen by
adding them as an `INVARIANT` of the configuration.

*Two processes or one.*  The deployed container runs one worker.  Several are
foreseen (leases "may be recovered by another worker", OPERATIONS.md:14;
"Restart one worker and observe health before scaling", OPERATIONS.md:389), and
the store's API does not exclude them.  `SingleUse`, `ReceiptIsTheAnswer`,
`SettledIsFinal`, `UploadsOnce`, `RestoresOnce`, `FailedForCause` and
`PlaintextNotRetried` are promises of one process, checked with one, and
`DeliverySettles` is checked for one.  Two processes break the first
(SingleUseRace.cfg), and by late failures `SettledIsFinal` (as in
LateFailure.cfg), a transfer that is held (TransferUndone.cfg) and a delivery
that was made (LateDelivery.cfg).  What two workers cannot break is in the pair
runs, and in the theorems for any number of processes, such as
`EffectsAreAuthorised`.  Every process has a worker id of its own, as operators
must see to: the default `--worker-id` is one constant, and two processes that
share it pass each other's lease checks (SharedIdentity.cfg).

### Findings

**AcceptedInForce** (run `expired_accepted`).  `consume_approval` compares
`expires_at` as text with the time in UTC: an expiry written with an offset
ahead of UTC is accepted for hours after it has passed, and one behind UTC, such
as Toronto's, is refused for hours before.

Each of the configurations below is kept beside the runs and ends in a
counterexample to one documented promise:

| Configuration | Module, property | The document | The code |
|---|---|---|---|
| AttemptsBounded.cfg | MCWorkerRuntime, `AttemptsBounded` | "Failures retry only up to the task's configured maximum, then move to DEAD_LETTER" (OPERATIONS.md:15) | `claim_work` recovers an expired lease without looking at `max_attempts` (store.py:2302); a worker that dies on an item is given it again for ever |
| SingleUseRace.cfg | MCWorkerRuntime, `SingleUse` | "Exact-target, expiring, single-use or reusable approval records" (README.md:18) | `consume_approval` reads and then marks by id alone, outside a transaction (store.py:409, 431); two processes consume one approval |
| KillSwitchGap.cfg | MCWorkerRuntime, `NoClaimUnderKillSwitch` | "The kill switch prevents new work from being claimed" (OPERATIONS.md:13) | the switch is read before `BEGIN IMMEDIATE` (store.py:2291, 2295); the gate in `execute` still stops the handler (`KillSwitchBrakes`), and the item ends POLICY_BLOCKED |
| LateFailure.cfg | MCWorkerRuntime, `FailureNeedsTheLease` | "Worker does not hold the active lease" (store.py:2422) | `fail_work` checks the lease with a SELECT and updates by id alone (store.py:2426): a late failure resets a row another worker holds or has completed; `ChargedOnce` and `ReplaySuppressed` survive it |
| SharedIdentity.cfg | MCWorkerRuntime, `LastAttemptAnswers` | "Worker does not hold the active lease" (store.py:2409) | leases are compared by worker id, which defaults to one constant (worker.py:165): of two processes with that id, one whose lease was recovered completes the other's attempt; with ids of their own the property holds |
| TransferLost.cfg | MCBackupTransfer, `StoredIsNeverFailed` | "any ambiguous or post-upload failure ... becomes RECONCILIATION_REQUIRED and cannot retry automatically" (SUPERVISED_BACKUP_ACTIVATION_RUNBOOK.md:103) | a worker that dies after the object is stored, on its last attempt, leaves the plan to be swept to FAILED (store.py:566); while nothing dies and nothing lapses the promise holds (`WriteNotRetried`) |
| TransferUndone.cfg | MCBackupTransfer, `HeldIsFinal` | "a terminal `RECONCILIATION_REQUIRED` state that is never claimable or automatically retried" (OPERATIONS.md:100) | `fail_claimed_backup_transfer` checks the lease with a SELECT and updates by id alone (store.py:640): a failure written late, with two workers, makes a held transfer AUTHORIZED again; `ReceiptAttestsObject` survives it |
| StaleApproval.cfg | MCAlerts, `FreshApproval` | "clears prior authorization and requires fresh approval" (INTERFACE_CONTRACT.md:49; also OPERATIONS.md:286, README.md:119) | `reset_failed_alert_delivery` unbinds the approval of the delivery (store.py:1502); another approval for it, granted before the failure and never consumed, authorises it again |
| LateDelivery.cfg | MCAlerts, `DeliveredIsFinal` | "Worker does not hold the active alert delivery lease" (store.py:1746) | `fail_claimed_alert_delivery` does the same (store.py:1752): a delivery another worker has made is due again |
| MigrationLost.cfg | MCMigrationGuard, `RunsOnAllButRolledBack` | "Any migration exception restores the exact source schema from the verified backup" (OPERATIONS.md, Guarded schema release and rollback) | a backup of an earlier start is used again without being compared with the database (migration_guard.py:115): the schema is restored, what was written since is only in the quarantined file |
| PauseUndecided.cfg | MCPortfolio, `EveryPauseGoverned` | "lifecycle control, and once-daily durable portfolio maintenance" (ACCEPTANCE_AUDIT.md:11) with the decision that lists what was "autonomously_paused" (chief_of_staff.py:160) | a maintenance cut off after a pause and before its decision is repeated on the projects that are live (chief_of_staff.py:182): what it has paused never gets a decision; a review, which names its projects, ranks and governs them again (`PausesAreGoverned`) |

### Observations

What the models show without contradicting a document word for word, or what
lies at the edge of what they cover:

* *Transfer.*  After a crash with attempts left, the successor sends the write
  again (README.md:61 says an ambiguous write is never retried; the conditional
  put makes it harmless to the bucket).  A transfer failure written late by one
  of two workers puts back to AUTHORIZED what its successor has just held
  (OPERATIONS.md:100).  Two concurrent requests for one target both find none
  pending and leave two.
* *Restore.*  The destination is the operator's word and nothing ties it to the
  plan's `restore_target_ref`.  A plan whose configuration does not match, at
  the head of the line, burns its attempts, because the claim precedes the
  comparison.  With two workers, a window that closes under a live process lets
  the other's claim mark FAILED a plan whose plaintext is then published.  A
  crash after the link leaves a plaintext the row knows nothing of, and the plan
  is claimed again ("Automatic retry is prohibited",
  ISOLATED_RESTORE_RUNBOOK.md:63); `PlaintextNotRetried` holds while nothing
  dies or lapses, `ReceiptAttestsFile` always.
* *Alerts.*  `record_synthetic_alert_delivery` and `acknowledge_alert_observation`
  have no caller.
* *Migration.*  The second way to run without what was written: a crash between
  the quarantine (migration_guard.py:216) and the copy (220) leaves no database,
  and the next start creates an empty one.  A hot journal, left by a crash in
  the middle of a commit, makes the `mode=ro` open raise, so that every start is
  refused until someone opens the file; the `-journal` sidecar is not
  quarantined with its file.  A database with tables and an empty ledger, left by
  a crash in a first creation, is refused for ever as well.
* *Intake.*  A delivery deduplicated under a second request id does not record
  that id, which may later be used with other content ("Reusing an ID with
  different content is rejected", INTERFACE_CONTRACT.md:10).  An import cut off
  between the record and its registration leaves a duplicate KNOWLEDGE record
  ("duplicate suppression for imports", README.md:94), one cut off between the
  registration and the link leaves EVIDENCE_FOR missing for good
  (integrations.py:107), for the retry answers from the registration; a report
  likewise leaves an orphan.  The loser of two racing submissions gets a
  database error; a repetition is answered.  `create_project` and the revenue
  handler, retried after a crash, make a second project.
* *Portfolio.*  Ownership serialises the lifecycle only as long as every worker
  has its own id; with two workers of the default id `PausesAreKept` fails.  A
  review repeated by another worker than the one that was cut off ranks and
  governs what that one has paused, but does not list it as paused, for the
  project is not its own.  An interrupted creation leaves an INCUBATOR copy
  that competes for capacity, and a project of low fit occupies a place in the
  ranking.  A review that names a KILLED project makes it PAUSED and clears its
  `reopen_trigger` (store.py:1776 looks at no state).  A paused project is
  reopened by an evaluation only, and nothing in `scripts/` enqueues
  CHIEF_EVALUATE_PROJECT.

### What would be noticed

Every property of a passing run has a mistake in the code's model that breaks
it (`mutants` in PROJECT.json).  Queue and worker: the estimate kept in a
result, the missing look for an existing reservation, `reserved_units` left out
of the sum, a block that forgets to settle, an off-by-one in a retry limit, a
kill switch not looked at after claiming or in a guard, a receipt not stored or
not replayed, an approval accepted twice or while pending, leases never
recovered.  Outboxes: an upload without `IfNoneMatch`, an ambiguous write handed
back for retry, a plan authorised whatever its status, a sweep that takes what
is leased, an incident that is not reopened, a resolution by a read that is
old.  Migration: a quarantine that deletes, a manifest not written for a backup
used again, a restoration that goes on to the worker.  Intake and portfolio: a
key not unique, a registration not looked up, a scan for what an earlier attempt
left that is missing, a ranking that counts from two, a review repeated only
on what is still live, any agent's project taken for one's own.

## Proofs

All theorems hold for every value of the constants that satisfies the named
assumptions of the modules (identifiers are not the null values, limits and
costs are naturals, every plan has a key), in particular for every number of
processes, items, plans, approvals, releases, faults and claims.

`WorkQueueProofs`: `TypeCorrect`; `ChargingIsSafe` (`HeldExactlyWhileRunning`
and `ChargedOnce`: the invariant adds that an item ever charged carries a result
in place of its payload, so that it declares no cost and is never reserved
again, which is what protects it when a late `fail_work` puts it back in the
queue); `DeadLettersAreExhausted` (what a pending `fail_work` has read stays
true, because attempts never go down); `SpendingIsBounded`; `LedgerBalances`
(what the budget row says is reserved and used is what the reservations and the
usage events add up to) and `QueueImplementsLedger` (the refinement of
`CostLedger`).  The last two rest on lemmas about totals: a row that changes
takes its old value out of the total and puts its new one in (`TotalChanges`),
and a column split in two, every row belonging to one of them, totals the sum of
both (`TotalOfDisjoint`).  A call changes each column in one row at most, the
item's, which gives `LedgerBalances`; with `ChargeInv`, that an item is held or
charged but not both, what an abstract period is committed to is what its row
owes and has spent (`CommittedIsOwed`), so that the cap of the ledger is the
comparison `_reserve_cost` makes.

`ApprovalsProofs`: `ApTypeCorrect`, `UseNeedsApproval`, `ClosedForGood`.  The
invariant adds that a row someone has read for consumption was granted and can
since only have expired or been used.

`WorkerRuntimeProofs`, for any number of processes: `WorkersImplementQueue`
(every step of the workers is a step of `WorkQueue` or leaves it alone, so that
the queue's theorems hold of the workers), `WorkersKeepApprovals` (likewise of
the approvals), `KillSwitchHolds`, `ReplayIsSuppressed`, `SuccessIsAlwaysEarned`
and `EffectsAreAuthorised`.  The invariants say where a process can be once
braked, that a process about to run a handler has no fresh receipt behind it,
and that what a process carries to `complete_work` was produced under a counted
attempt.  `EffectsAreAuthorised` counts: the invocations of an approval's
handlers, and the processes that have consumed it and not yet run theirs, are
together no more than its uses; so an approval two processes consume at once is
used twice, and each of them has its own use.  For one process:
`OneWorkerUsesOnce`, `OneWorkerAnswersOnce`, `OneWorkerSettlesForGood` and
`OneWorkerFailsUnderLease`, all of them broken by two.  A lease may lapse under
the one process as often as it likes, and it may die anywhere: what holds the
theorems up is that nobody else comes between its reads and its writes, and that
a failure it has read was of the item it still has.
For any number of processes, until one dies or is slower than its lease:
`LeasesExclude`, `AnswersOnceWithoutFaults` and `SettledForGoodWithoutFaults`.
Their invariant is `LeasesAreKept`: a busy process holds the lease of its item,
unexpired, so that no claim is granted that item and, the owner's name being its
own, no guarded UPDATE of another process matches the row; a `fail_work` that
has read is of its process's own item, so the unguarded UPDATE that follows is
covered by the lease too.  The theorems assume that no two processes have the
same worker id, which the default of `--worker-id` does not give them
(`scripts/worker.py:165`).

`BackupTransferProofs`: `TransferTypeCorrect`, `TriesAreBounded`,
`FailureIsExhaustion`, `NoUploadUnderKillSwitch`, `ReceiptsAreTrue` and
`SpentExactly` for any number of workers; `OneWorkerKeepsPromise` (the
refinement of `OneShot`) and `OneWorkerIsFinal` for one.  `BaseInv` says that a
busy process works on a bound plan and that a half done fail or hold is of its
own plan.  `ReceiptsAreTrue` rests on "nothing replaces an object": what a
process past the upload has stored is still there (`StoredIsMine`).  The
one-worker theorems rest on `OwnerInv`: a busy process still holds its plan,
however long ago its lease lapsed, because nobody else can claim it.
`AmbiguousWritesAreNotRetried` and `OutcomesFinalWithoutFaults` are again for
any number of workers, as long as nothing has died and no lease has lapsed under
a living process.  Then every busy process holds a lease in force
(`LeasesAreKept`), so that no two are on one plan; a plan whose request was sent
is settled or still in its sender's hands, past the upload
(`SentIsSettledOrInHand`), and an object in the bucket was sent (`StoredWasSent`).

`BackupRestoreProofs`: `RestoreTypeCorrect`, `NoRestoreUnderKillSwitch`,
`GivenUpForCause` and `ReceiptsAttestFiles`, for any number of processes, paths,
plans, windows and faults; `OneWorkerRestoresOnce` (the refinement of `OneShot`)
and `OneWorkerPublishesOnce` for one process; `OneInterfaceAsksOnce` for one
requester, any number of deciders and workers.  The first steps say that
whatever a process does by itself disturbs no table (`MovesDisturbNoTable`) and
that only a claim makes one busy (`BusyByClaim`).  `BrakeInv` follows a braked
process: short of the decryption or giving up.  `CauseInv` adds to the property
that a verdict read stays true.  `ReceiptsAttestFiles` rests on `VersionsInv`,
that the attempts of a plan which are under way and the one its receipt attests
have different numbers, and on `FilesInv`, that a path holds what the process
that published there put in it: so the file a process takes back is its own and
nobody's receipt.  The refinement rests on `OwnerInv`, as in the transfer, and
on `KeptAtStep`: a plaintext counts once its process is past the clean-up, or
dies in it, and nothing takes one back that counts.  `OneWorkerPublishesOnce`
adds `CopiesInv`: without faults a plaintext of a plan is the one its process
has in hand, or the plan is completed or held.  It is about one process because
a window that closes ends the lease of a process that is alive and no fault: a
second process then marks FAILED what the first is about to publish.
`OneInterfaceAsksOnce` rests on `AskingInv`: what the look has found stays so
until the insertion, because only the requester inserts and nothing that is
closed opens again.

`MigrationGuardProofs`: `MigrationTypeCorrect`, `MigrationsDestroyNothing`,
`EveryMigrationCanBeTakenBack` and `RunsWithEverything`, for any releases,
versions, crashes and deployments.  `MgShape` says what each place of a start may
rely on: a migration past its source version has its backup and manifest
(`Evidenced`), a copy is made only where no database is, with the moved file in
quarantine.  The second theorem needs only that and that no file is overwritten;
the third, that a backup or a manifest once there stays as it is
(`RestorableIsKept`); the last, `MgWhole`: as long as none of the three losses has
occurred, the writes are in the database, or, while it is replaced, in the
quarantined file and in the backup, and before a migration's end the backup's
contents are the database's.

`PortfolioProofs`: `PortfolioTypeCorrect`, `PausedOnlyForCause`,
`PausedStaysPaused` and `EveryPauseHasItsDecision`, for any workers, plans and
jobs.  `PausedStaysPaused` rests on `Untouched`: the project a worker is still
creating is an INCUBATOR of its own, and every handler that pauses or kills asks
for ownership, so that no activation follows a pause.  `PausedOnlyForCause`
rests on "those ranked are projects, and projects stay" and on the
monotonicity of cardinality (`RivalsRemain`), for the limit the row itself
names.  `EveryPauseHasItsDecision` rests on `Carries`: what a review ranks and
pauses it carries to its decision, and from there each project is still to be
governed or governed; and on `Carried`: what a cut-off review has paused is
among the projects it names, and a review with a receipt has a decision that
governs all of those.

`IntakeProofs`: `IntakeTypeCorrect`, `AnswersAreTheRegistered`,
`OneItemForEachRequest` and `DeliveriesAreWhole`, for any gateways, workers,
requests, schedules and faults.  `AnswersAreTheRegistered` rests on `AnswerInv`:
a key once registered keeps its record (`RegistryGrows`), what a worker carries
past its registration or replays is that record (`HandOK`), and a row that has
not been inserted has no receipt.  `OneItemForEachRequest` rests on `Origin`:
every row is the one its request id, its period or its delivery id names.
`DeliveriesAreWhole` has two halves.  How far a worker has come among the links
tells which of them its record has (`LinkedSoFar`), and links are never taken
away: so a receipt, which is written last, is of a whole delivery, lapses or
not.  And until a lease lapses under a living worker each busy one holds its item
alone (`Owned`), a delivery has one item (`OneItemPerRequest`), so that the
worker which has scanned and found no record is the only one about to create it
(`HasNoRecord`).  The assumptions say that two schedules have two period keys
and that a request id is not a period.

Only model-checked: `EveryItemSettles`, `TransferEnds`, `ConditionReported` and
`DeliverySettles`, because fairness and ENABLED are out of the prover's reach,
and `UnseenNotResolved`, so that of `Alerts` nothing is proved.  The promises of
one process (`SingleUse`, `ReceiptIsTheAnswer`, `SettledIsFinal`, `UploadsOnce`,
`RestoresOnce`, `PlaintextNotRetried`) and of one requester (`OneLiveApproval`)
are proved for one, as they are checked: with two they fail (`SettledIsFinal` and
`ReceiptIsTheAnswer` only once something has died or lapsed).  Nothing is proved
about the converse, that the code breaks what the configurations under Findings
say it breaks; there a counterexample is the proof.

## Not modelled

* *Pure validation and data*: backup contracts and proposals, secret scanning,
  the bridge contract, the content of configuration documents, the sale export,
  scopes and principals of records: deterministic checks with no state.
* *Cryptography and secret look-up*: only the order of the decryptor's file
  operations is modelled.
* *Reading*: health summaries, status queries, diagnostics, heartbeats, audit
  rows.  They change nothing another component decides by, except the alerts'
  conditions, which are modelled.
* *HTTP and transports*: an adapter is its possible answers.
* *The revenue agent*: arithmetic over validated inputs; its commits are those of
  `create_record`, `link_records` and `create_project`.
* *Operator scripts, drills, release verification*: command lines around modelled
  calls, or checks of the repository itself.  Of the operator workflows, the
  steps that write to an outbox are modelled; their review digests only where a
  property needs them (restore).
* *`SeanOSStore.backup` and `restore`*: run by hand on a stopped system.
* Of modelled components: `backup_activation_evidence`, `ConnectorGate.configure`,
  versioned `update_record` and with it changes of a project's metrics, the limits
  of 100 projects and 5 tasks, the local calendar that yields a period.

## Plan

What would add most next:

1. The outcome of a restore for any number of processes as long as no lease
   lapses and no window closes (`OutcomesFinalWithoutFaults` and
   `SettledForGoodWithoutFaults` are the models for it).
2. `UnseenNotResolved`, from "a resolution under way is of an incident that is
   ACTIVE in the generation that was read".
3. Versioned `update_record` and its effect on the portfolio's ranking.
