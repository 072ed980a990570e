---------------------------- MODULE BackupRestore ----------------------------
(***************************************************************************)
(* The isolated restore of an encrypted backup: backup_restore_outbox in   *)
(* sean_os/store.py, the hash-bound operator workflow that leads to it     *)
(* (backup_restore_operator.py), the one-shot scripts/restore_worker.py,   *)
(* execute_claimed_backup_restore and the two ports it is given.           *)
(*                                                                         *)
(*   idle -> switch -> claim -> validate -> GUARD -> download -> GUARD     *)
(*                                 |          |          |         |       *)
(*                                 +----------+-> caught <---------+       *)
(*   complete <- GUARD <- cleanup <- link <- decrypt                       *)
(*   completing    +--------+- hold <- caught -> fail                      *)
(*                                                                         *)
(* The worker is started by hand, with the path of a file that does not    *)
(* exist yet; it does one plan and exits.  The path is the operator's      *)
(* word: nothing ties it to the plan's restore_target_ref.                 *)
(***************************************************************************)
EXTENDS Outbox

CONSTANTS
  Files,       \* paths a worker may be started with
  MaxFaults    \* bound: crashes, and leases that lapse on a live process

ASSUME FaultsAssumption == MaxFaults \in Nat

VARIABLES
  place,     \* where each process is
  task,      \* the plan it claimed
  looked,    \* it is inside a guard, past the row and short of the switch
  version,   \* the attempt it made of it
  target,    \* --restore-destination
  window,    \* the plan's execution window, before, open or over
  files,     \* per path, the attempt whose plaintext was published there
  receipt,   \* receipt_payload: the attempt it attests
  reviewed,  \* per requester, the plan a review showed without a live approval
  braked,    \* history: processes short of decryption when the switch went ON
  faults

procVars == <<place, task, looked, version, target>>
outside  == <<window, files, receipt, braked, faults>>
brVars   == <<killSwitch, apVars, obVars, procVars, reviewed, outside>>
held     == <<killSwitch, apVars, obVars>>        \* the database and the switch
steady   == <<task, version, target, reviewed>>

Guards == {"before_download", "after_download", "after_decryption"}
Spots  == {"idle", "switch", "claim", "validate", "download", "decrypt", "link", "cleanup",
           "complete", "completing", "caught", "fail", "failing", "hold", "holding"} \cup Guards
Nothing == <<0, 0>>

BRInit ==
  /\ killSwitch = FALSE
  /\ ApInit /\ ObInit
  /\ place    = [p \in Conns |-> "idle"]
  /\ task     = [p \in Conns |-> 0]
  /\ looked   = [p \in Conns |-> FALSE]
  /\ version  = [p \in Conns |-> 0]
  /\ target   \in [Conns -> Files]
  /\ window   = [t \in Rows |-> "before"]
  /\ files    = [f \in Files |-> Nothing]
  /\ receipt  = [t \in Rows |-> 0]
  /\ reviewed = [q \in Requesters |-> 0]
  /\ braked   = {}
  /\ faults   = 0

At(p, s)   == place[p] = s
Goto(p, s) == place' = [place EXCEPT ![p] = s]
Free(f)    == files[f] = Nothing

-----------------------------------------------------------------------------
(* process_backup_restore_once, up to the claim.  _new_restore_destination *)
(* raises for a path that exists, and the process ends.                    *)
Starts(p) ==
  /\ At(p, "idle")
  /\ \E f \in Files :
       /\ Free(f)
       /\ target' = [target EXCEPT ![p] = f]
  /\ Goto(p, "switch")
  /\ UNCHANGED <<held, task, version, looked, reviewed, outside>>

ClaimReadsKillSwitch(p) ==
  /\ At(p, "switch")
  /\ Goto(p, IF killSwitch THEN "idle" ELSE "claim")
  /\ UNCHANGED <<held, steady, looked, outside>>

(* claim_authorized_backup_restore takes the due rows in their order and   *)
(* stops at the first it can run; those it passed are FAILED if they have  *)
(* no attempt or no window left, and skipped if their window has not come. *)
Due == {t \in Rows : Unleased(t) /\ ~waiting[t]}

Hopeless(t) == Exhausted(t) \/ window[t] = "over"
Runnable(t) == ~Hopeless(t) /\ window[t] = "open"

ClaimsRestore(p) ==
  \E t \in Due :
    /\ At(p, "claim")
    /\ Runnable(t) /\ \A u \in Due : Runnable(u) => t <= u
    /\ Lease(p, t, {u \in Due : u < t /\ Hopeless(u)})
    /\ Goto(p, "validate")
    /\ task' = [task EXCEPT ![p] = t]
    /\ version' = [version EXCEPT ![p] = tries[t] + 1]
    /\ UNCHANGED <<killSwitch, apVars, looked, target, reviewed, outside>>

FindsNoRestore(p) ==
  /\ At(p, "claim")
  /\ \A t \in Due : ~Runnable(t)
  /\ Lease(p, 0, {u \in Due : Hopeless(u)})
  /\ Goto(p, "idle")
  /\ UNCHANGED <<killSwitch, apVars, steady, looked, outside>>

-----------------------------------------------------------------------------
(* execute_claimed_backup_restore.  The lease ends with the window.        *)
HasLease(p, t) == Holds(p, t) /\ ~lapsed[t] /\ window[t] = "open"

ValidatesRestore(p) ==
  /\ At(p, "validate")
  /\ \/ HasLease(p, task[p]) /\ Free(target[p]) /\ Goto(p, "before_download")
     \/ Goto(p, "caught")
  /\ UNCHANGED <<held, steady, looked, outside>>

(* assert_backup_restore_execution_allowed; once the plaintext is there,   *)
(* whatever it raises becomes a request for reconciliation.                *)
AfterGuard(s) == CASE s = "before_download"  -> "download"
                   [] s = "after_download"   -> "decrypt"
                   [] s = "after_decryption" -> "complete"

Refused(s) == IF s = "after_decryption" THEN "hold" ELSE "caught"

GuardReadsRow(p) ==
  /\ place[p] \in Guards /\ ~looked[p]
  /\ IF HasLease(p, task[p]) /\ boundTo[task[p]] # NoApproval
       THEN looked' = [looked EXCEPT ![p] = TRUE] /\ UNCHANGED place
       ELSE Goto(p, Refused(place[p])) /\ UNCHANGED looked
  /\ UNCHANGED <<held, steady, outside>>

GuardReadsKillSwitchBug(p) ==                       \* the switch is not read
  /\ looked[p]
  /\ looked' = [looked EXCEPT ![p] = FALSE]
  /\ Goto(p, AfterGuard(place[p]))
  /\ UNCHANGED <<held, steady, outside>>

GuardReadsKillSwitch(p) ==
  /\ looked[p]
  /\ looked' = [looked EXCEPT ![p] = FALSE]
  /\ Goto(p, IF killSwitch THEN Refused(place[p]) ELSE AfterGuard(place[p]))
  /\ UNCHANGED <<held, steady, outside>>

(* download_exact and _verify_download: into a file of their own.          *)
Downloads(p) ==
  /\ At(p, "download")
  /\ Goto(p, "after_download") \/ Goto(p, "caught")
  /\ UNCHANGED <<held, steady, looked, outside>>

(* decrypt_to: into a partial file, linked to its name when authenticated. *)
Decrypts(p) ==
  /\ At(p, "decrypt")
  /\ (Free(target[p]) /\ Goto(p, "link")) \/ Goto(p, "caught")
  /\ UNCHANGED <<held, steady, looked, outside>>

Publish(p) == files' = [files EXCEPT ![target[p]] = <<task[p], version[p]>>]

LinksBug(p) ==                                      \* os.replace for os.link
  /\ At(p, "link")
  /\ Publish(p) /\ Goto(p, "cleanup")
  /\ UNCHANGED <<held, steady, looked, window, receipt, braked, faults>>

Links(p) ==
  /\ At(p, "link")
  /\ \/ Free(target[p]) /\ Publish(p) /\ Goto(p, "cleanup")
     \/ Goto(p, "caught") /\ UNCHANGED files
  /\ UNCHANGED <<held, steady, looked, window, receipt, braked, faults>>

CleansUpBug(p) ==                                   \* destination.unlink
  /\ At(p, "cleanup")
  /\ Goto(p, "after_decryption")
  /\ files' = [files EXCEPT ![target[p]] = Nothing]
  /\ UNCHANGED <<held, steady, looked, window, receipt, braked, faults>>

(* partial.unlink; if it raises, the destination is taken back, which may  *)
(* raise as well.  Then _verify_decrypted.                                 *)
CleansUp(p) ==
  /\ At(p, "cleanup")
  /\ \/ Goto(p, "after_decryption") /\ UNCHANGED files
     \/ Goto(p, "hold") /\ UNCHANGED files
     \/ files' = [files EXCEPT ![target[p]] = Nothing] /\ Goto(p, "caught")
     \/ Goto(p, "caught") /\ UNCHANGED files
  /\ UNCHANGED <<held, steady, looked, window, receipt, braked, faults>>

-----------------------------------------------------------------------------
(* complete_claimed_backup_restore reads the kill switch first.            *)
CompleteReadsKillSwitch(p) ==
  /\ At(p, "complete")
  /\ Goto(p, IF killSwitch THEN "hold" ELSE "completing")
  /\ UNCHANGED <<held, steady, looked, outside>>

CompletesRestore(p) ==
  LET t == task[p] IN
  /\ At(p, "completing")
  /\ \/ /\ Complete(p, t, "RESTORED")
        /\ receipt' = [receipt EXCEPT ![t] = version[p]]
        /\ Goto(p, "idle")
     \/ /\ ~(Holds(p, t) /\ ~lapsed[t])
        /\ Goto(p, "hold")
        /\ UNCHANGED <<obVars, receipt>>
  /\ UNCHANGED <<killSwitch, apVars, steady, looked, window, files, braked, faults>>

(* The worker's except clause.                                             *)
CatchesBug(p) ==                                    \* without destination.exists()
  /\ At(p, "caught")
  /\ Goto(p, "fail")
  /\ UNCHANGED <<held, steady, looked, outside>>

Catches(p) ==
  /\ At(p, "caught")
  /\ Goto(p, IF Free(target[p]) THEN "fail" ELSE "hold")
  /\ UNCHANGED <<held, steady, looked, outside>>

(* fail_claimed and hold_claimed raise for a worker without the lease, and *)
(* the process ends.                                                       *)
FailRestoreReads(p) ==
  /\ At(p, "fail")
  /\ \/ FailReads(p, task[p]) /\ Goto(p, "failing")
     \/ ~Holds(p, task[p]) /\ Goto(p, "idle") /\ UNCHANGED obVars
  /\ UNCHANGED <<killSwitch, apVars, steady, looked, outside>>

FailRestoreWrites(p) ==
  /\ At(p, "failing")
  /\ FailWrites(p)
  /\ Goto(p, "idle")
  /\ UNCHANGED <<killSwitch, apVars, steady, looked, outside>>

HoldRestoreReads(p) ==
  /\ At(p, "hold")
  /\ \/ HoldReads(p, task[p]) /\ Goto(p, "holding")
     \/ ~Holds(p, task[p]) /\ Goto(p, "idle") /\ UNCHANGED obVars
  /\ UNCHANGED <<killSwitch, apVars, steady, looked, outside>>

HoldRestoreWrites(p) ==
  /\ At(p, "holding")
  /\ HoldWrites(p)
  /\ Goto(p, "idle")
  /\ UNCHANGED <<killSwitch, apVars, steady, looked, outside>>

Crash(p) ==
  /\ ~At(p, "idle") /\ faults < MaxFaults
  /\ Goto(p, "idle")
  /\ looked' = [looked EXCEPT ![p] = FALSE]
  /\ ObDisconnects(p)
  /\ faults' = faults + 1
  /\ UNCHANGED <<killSwitch, apVars, steady, window, files, receipt, braked>>

-----------------------------------------------------------------------------
(* scripts/restore_operator.py.  Each command reviews, compares the hash   *)
(* with the one the operator saw, and then changes the store.              *)
StageRestore(t) ==
  StageRow(t) /\ UNCHANGED <<killSwitch, apVars, procVars, reviewed, outside>>

RecordPreflight(t) ==
  Preflight(t) /\ UNCHANGED <<killSwitch, apVars, procVars, reviewed, outside>>

Live(a) == approval[a] \in {"PENDING", "APPROVED"} /\ ~Overdue(a)

ReviewsBug(q, t) ==                                 \* an approved request is not active
  /\ reviewed[q] = 0 /\ requesting[q] = 0
  /\ status[t] = "PREFLIGHT_VALIDATED" /\ window[t] # "over"
  /\ \A a \in Approvals : RowOf[a] = t => approval[a] # "PENDING" \/ Overdue(a)
  /\ reviewed' = [reviewed EXCEPT ![q] = t]
  /\ UNCHANGED <<held, procVars, outside>>

(* request_exact_restore_approval.                                         *)
Reviews(q, t) ==
  /\ reviewed[q] = 0 /\ requesting[q] = 0
  /\ status[t] = "PREFLIGHT_VALIDATED" /\ window[t] # "over"
  /\ \A a \in Approvals : RowOf[a] = t => ~Live(a)
  /\ reviewed' = [reviewed EXCEPT ![q] = t]
  /\ UNCHANGED <<held, procVars, outside>>

RequestRestoreReads(q) ==
  /\ reviewed[q] # 0
  /\ \/ RequestReads(q, reviewed[q], "PREFLIGHT_VALIDATED")
     \/ /\ status[reviewed[q]] # "PREFLIGHT_VALIDATED"
        /\ UNCHANGED <<apVars, obVars>>
  /\ reviewed' = [reviewed EXCEPT ![q] = 0]
  /\ UNCHANGED <<killSwitch, procVars, outside>>

RequestRestoreWrites(q, a) ==
  RequestWrites(q, a) /\ UNCHANGED <<killSwitch, procVars, reviewed, outside>>

(* authorize_exact_restore_state: inside the window only.                  *)
AuthorizeRestore(t, a) ==
  /\ window[t] = "open"
  /\ Authorize(t, a, "PREFLIGHT_VALIDATED")
  /\ UNCHANGED <<killSwitch, procVars, reviewed, outside>>

Decides ==
  /\ \/ \E d \in Deciders :
          \/ \E a \in Approvals : DecideReads(d, a)
          \/ \E approve \in BOOLEAN : DecideWrites(d, approve)
     \/ ApTime
  /\ UNCHANGED <<killSwitch, obVars, procVars, reviewed, outside>>

ShortOfDecryption(p) ==
  place[p] \in {"idle", "switch", "claim", "validate", "before_download", "download",
                "after_download"}

SwitchKill(on) ==
  /\ KillSwitchSet(on)
  /\ braked' = IF on /\ ~killSwitch THEN {p \in Conns : ShortOfDecryption(p)}
               ELSE IF on THEN braked ELSE {}
  /\ UNCHANGED <<apVars, obVars, procVars, reviewed, window, files, receipt, faults>>

-----------------------------------------------------------------------------
(* Time.  A lease is cut to the end of the window, so both end at once.    *)
WindowOpens(t) ==
  /\ window[t] = "before"
  /\ window' = [window EXCEPT ![t] = "open"]
  /\ UNCHANGED <<held, procVars, reviewed, files, receipt, braked, faults>>

WindowCloses(t) ==
  /\ window[t] = "open"
  /\ window' = [window EXCEPT ![t] = "over"]
  /\ lapsed' = [lapsed EXCEPT ![t] = lessee[t] # NoOne]
  /\ UNCHANGED <<killSwitch, apVars, status, boundTo, lessee, waiting, tries, callVars,
                 requesting, procVars, reviewed, files, receipt, braked, faults>>

WorkingOn(p, t) == task[p] = t /\ place[p] \notin {"idle", "switch", "claim"}

Lapse(t) ==
  /\ LeaseLapses(t)
  /\ IF \E p \in Conns : WorkingOn(p, t)
       THEN faults < MaxFaults /\ faults' = faults + 1
       ELSE UNCHANGED faults
  /\ UNCHANGED <<killSwitch, apVars, procVars, reviewed, window, files, receipt, braked>>

Backoff(t) ==
  BackoffEnds(t) /\ UNCHANGED <<killSwitch, apVars, procVars, reviewed, outside>>

-----------------------------------------------------------------------------
RestoreStep(p) ==
  \/ ClaimReadsKillSwitch(p) \/ ClaimsRestore(p) \/ FindsNoRestore(p)
  \/ ValidatesRestore(p) \/ GuardReadsRow(p) \/ GuardReadsKillSwitch(p)
  \/ Downloads(p) \/ Decrypts(p) \/ Links(p) \/ CleansUp(p)
  \/ CompleteReadsKillSwitch(p) \/ CompletesRestore(p) \/ Catches(p)
  \/ FailRestoreReads(p) \/ FailRestoreWrites(p)
  \/ HoldRestoreReads(p) \/ HoldRestoreWrites(p)

Environment ==
  \/ \E t \in Rows :
       \/ StageRestore(t) \/ RecordPreflight(t)
       \/ \E q \in Requesters : Reviews(q, t)
       \/ \E a \in Approvals : AuthorizeRestore(t, a)
       \/ WindowOpens(t) \/ WindowCloses(t) \/ Lapse(t) \/ Backoff(t)
  \/ \E q \in Requesters :
       RequestRestoreReads(q) \/ \E a \in Approvals : RequestRestoreWrites(q, a)
  \/ Decides
  \/ \E on \in BOOLEAN : SwitchKill(on)

BRNext ==
  \/ \E p \in Conns : Starts(p) \/ RestoreStep(p) \/ Crash(p)
  \/ Environment

BRSpec == BRInit /\ [][BRNext]_brVars

-----------------------------------------------------------------------------
(* Properties.                                                             *)
BRTypeOK ==
  /\ killSwitch \in BOOLEAN
  /\ ApTypeOK /\ ObTypeOK
  /\ place    \in [Conns -> Spots]
  /\ task     \in [Conns -> Rows \cup {0}]
  /\ looked   \in [Conns -> BOOLEAN]
  /\ version  \in [Conns -> Nat]
  /\ target   \in [Conns -> Files]
  /\ window   \in [Rows -> {"before", "open", "over"}]
  /\ files    \in [Files -> (Rows \X Nat) \cup {Nothing}]
  /\ receipt  \in [Rows -> Nat]
  /\ reviewed \in [Requesters -> Rows \cup {0}]
  /\ braked   \subseteq Conns
  /\ faults   \in Nat

(* "Publish only a new mode-0600 SQLite file" (ISOLATED_RESTORE_RUNBOOK.md): *)
(* the plaintext a RESTORED plan's receipt attests is there, whichever     *)
(* workers, plans and attempts were given the same path.                   *)
ReceiptAttestsFile ==
  \A t \in Rows : status[t] = "RESTORED" => \E f \in Files : files[f] = <<t, receipt[t]>>

(* "Enable the Sean kill switch to block new claims and every execution    *)
(* guard" (the runbook): a process short of the decryption when the switch *)
(* goes ON publishes nothing until it is OFF.                              *)
KillSwitchStopsRestores ==
  \A p \in braked : place[p] \notin {"decrypt", "link", "cleanup", "after_decryption",
                                     "complete", "completing"}

(* A restore is given up because its attempts or its window are used up,   *)
(* never because of the order the claim meets the rows in.                 *)
FailedForCause ==
  \A t \in Rows : status[t] = "FAILED" => tries[t] >= MaxTries[t] \/ window[t] = "over"

(* "An active isolated restore approval already exists"                    *)
(* (backup_restore_operator.py): with one interface asking, a plan never   *)
(* has two approvals that are pending or approved and in force, although   *)
(* the review, the store's own look and the insertion are three steps.     *)
OneLiveApproval ==
  \A a, b \in Approvals : Live(a) /\ Live(b) /\ RowOf[a] = RowOf[b] => a = b

(* "If a plaintext destination may exist ... the item becomes              *)
(* RECONCILIATION_REQUIRED. Automatic retry is prohibited" (the runbook):  *)
(* while no process dies and no lease lapses under a live one, no plan has *)
(* two plaintexts, and none that has one is FAILED or up for a claim.      *)
PlaintextNotRetried ==
  faults = 0 =>
    \A t \in Rows :
      LET copies == {f \in Files : files[f][1] = t} IN
      /\ Cardinality(copies) <= 1
      /\ copies # {} => status[t] # "FAILED" /\ (status[t] = "AUTHORIZED" => lessee[t] # NoOne)

(* One process implements the abstract promise: a plaintext is published   *)
(* for an authorised plan only, and not after its outcome is known.        *)
OutcomeOf(s) == CASE s = "RESTORED" -> "kept" [] s = "FAILED" -> "failed"
                  [] s = "RECONCILIATION_REQUIRED" -> "held" [] OTHER -> "open"
Settled(f) == \A p \in Conns : At(p, "cleanup") => target[p] # f
Promise == INSTANCE OneShot WITH
  Plans <- Rows, Places <- Rows, PlaceOf <- [t \in Rows |-> t], Nobody <- 0,
  granted <- {t \in Rows : boundTo[t] # NoApproval},
  holder  <- [t \in Rows |-> IF \E f \in Files : files[f][1] = t /\ Settled(f) THEN t ELSE 0],
  outcome <- [t \in Rows |-> OutcomeOf(status[t])]
RestoresOnce == Promise!Spec
=============================================================================
