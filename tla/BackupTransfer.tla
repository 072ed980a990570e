--------------------------- MODULE BackupTransfer ---------------------------
(***************************************************************************)
(* The upload of an encrypted backup: backup_transfer_outbox in            *)
(* sean_os/store.py, process_backup_transfer_once of scripts/worker.py,    *)
(* execute_claimed_backup_transfer (sean_os/backup_execution.py) and the   *)
(* upload port (sean_os/backup_provider.py), against a bucket that the     *)
(* code only knows by its conditional Put Object.                          *)
(*                                                                         *)
(*   idle -> claim -> validate -> GUARD -> encrypt -> GUARD -> upload      *)
(*                       |          |         |         |    /    |        *)
(*                       +----------+--> fail <---------+---+   GUARD      *)
(*                                     failing                    |        *)
(*                                               hold <------- receipt     *)
(*                                             holding         complete    *)
(*                                                            completing   *)
(*                                                                         *)
(* Each GUARD is a read of the row and then of the kill switch.            *)
(***************************************************************************)
EXTENDS Outbox

CONSTANTS
  Keys,        \* object keys of the bucket
  KeyOf,       \* object_ref of each plan
  MaxFaults    \* bound: crashes, and leases that lapse on a live process

ASSUME KeyAssumption == KeyOf \in [Rows -> Keys] /\ MaxFaults \in Nat

VARIABLES
  place,     \* where each process is
  task,      \* the plan it claimed
  looked,    \* it is inside a guard, past the row and short of the switch
  version,   \* the attempt it made of it: each encrypts anew
  window,    \* the plan's execution window, before, open or over
  bucket,    \* per key, what the stored object was made by
  receipt,   \* receipt_payload: the attempt it attests
  puts,      \* history: the number of put_object requests sent per plan
  braked,    \* history: processes short of the upload when the switch went ON
  faults

procVars == <<place, task, looked, version>>
btVars   == <<killSwitch, apVars, obVars, procVars, window, bucket, receipt, puts, braked, faults>>

Guards == {"before_encryption", "before_upload", "after_upload"}
Spots  == {"idle", "claim", "validate", "encrypt", "upload", "receipt", "complete",
           "completing", "fail", "failing", "hold", "holding", "down"} \cup Guards
Nothing == <<0, 0>>

BTInit ==
  /\ killSwitch = FALSE
  /\ ApInit /\ ObInit
  /\ place   = [p \in Conns |-> "idle"]
  /\ task    = [p \in Conns |-> 0]
  /\ looked  = [p \in Conns |-> FALSE]
  /\ version = [p \in Conns |-> 0]
  /\ window  = [t \in Rows |-> "before"]
  /\ bucket  = [k \in Keys |-> Nothing]
  /\ receipt = [t \in Rows |-> 0]
  /\ puts    = [t \in Rows |-> 0]
  /\ braked  = {}
  /\ faults  = 0

At(p, s)   == place[p] = s
Goto(p, s) == place' = [place EXCEPT ![p] = s]

outside == <<window, bucket, receipt, puts, braked, faults>>

-----------------------------------------------------------------------------
(* claim_authorized_backup_transfer.                                       *)
Expired == {t \in Rows : Unleased(t) /\ Exhausted(t)}

ClaimReadsKillSwitch(p) ==
  /\ At(p, "idle") /\ ~killSwitch
  /\ Goto(p, "claim")
  /\ UNCHANGED <<killSwitch, apVars, obVars, task, looked, version, outside>>

ClaimsTransfer(p) ==
  \E t \in Rows :
    /\ At(p, "claim")
    /\ Claimable(t) /\ \A u \in Rows : Claimable(u) => t <= u
    /\ Lease(p, t, Expired)
    /\ Goto(p, "validate")
    /\ task' = [task EXCEPT ![p] = t]
    /\ version' = [version EXCEPT ![p] = tries[t] + 1]
    /\ UNCHANGED <<killSwitch, apVars, looked, outside>>

FindsNoTransfer(p) ==
  /\ At(p, "claim")
  /\ \A t \in Rows : ~Claimable(t)
  /\ Lease(p, 0, Expired)
  /\ Goto(p, "idle")
  /\ UNCHANGED <<killSwitch, apVars, task, looked, version, outside>>

-----------------------------------------------------------------------------
(* execute_claimed_backup_transfer.  Before the request is sent anything   *)
(* may fail: the source, the key, the disk, the bucket's settings.         *)
ValidatesTransfer(p) ==
  /\ At(p, "validate")
  /\ \/ window[task[p]] = "open" /\ Goto(p, "before_encryption")
     \/ Goto(p, "fail")
  /\ UNCHANGED <<killSwitch, apVars, obVars, task, looked, version, outside>>

(* assert_backup_transfer_execution_allowed.                               *)
Executable(p, t) == Holds(p, t) /\ boundTo[t] # NoApproval /\ ~lapsed[t]

AfterGuard(s) == CASE s = "before_encryption" -> "encrypt"
                   [] s = "before_upload"     -> "upload"
                   [] s = "after_upload"      -> "receipt"

Refused(s) == IF s = "after_upload" THEN "hold" ELSE "fail"

GuardReadsRow(p) ==
  /\ place[p] \in Guards /\ ~looked[p]
  /\ \/ /\ Executable(p, task[p])
        /\ looked' = [looked EXCEPT ![p] = TRUE] /\ UNCHANGED place
     \/ /\ ~Executable(p, task[p])
        /\ Goto(p, Refused(place[p])) /\ UNCHANGED looked
  /\ UNCHANGED <<killSwitch, apVars, obVars, task, version, outside>>

GuardReadsKillSwitchBug(p) ==               \* the switch is not read
  /\ looked[p]
  /\ looked' = [looked EXCEPT ![p] = FALSE]
  /\ Goto(p, AfterGuard(place[p]))
  /\ UNCHANGED <<killSwitch, apVars, obVars, task, version, outside>>

GuardReadsKillSwitch(p) ==
  /\ looked[p]
  /\ looked' = [looked EXCEPT ![p] = FALSE]
  /\ Goto(p, IF killSwitch THEN Refused(place[p]) ELSE AfterGuard(place[p]))
  /\ UNCHANGED <<killSwitch, apVars, obVars, task, version, outside>>

Encrypts(p) ==
  /\ At(p, "encrypt")
  /\ Goto(p, "before_upload") \/ Goto(p, "fail")
  /\ UNCHANGED <<killSwitch, apVars, obVars, task, looked, version, outside>>

PutObjectBug(k, made) ==                    \* without IfNoneMatch
  bucket' = [bucket EXCEPT ![k] = made]

(* put_object with IfNoneMatch="*".                                        *)
PutObject(k, made) ==
  /\ bucket[k] = Nothing
  /\ bucket' = [bucket EXCEPT ![k] = made]

FailsBeforeUpload(p) ==
  /\ At(p, "upload")
  /\ Goto(p, "fail")
  /\ UNCHANGED <<killSwitch, apVars, obVars, task, looked, version, outside>>

(* The request is sent.  Stored and answered; stored and not answered or   *)
(* not verified; refused, or lost on its way.                              *)
Uploads(p) ==
  LET t == task[p] IN
  /\ At(p, "upload")
  /\ puts' = [puts EXCEPT ![t] = @ + 1]
  /\ \/ /\ PutObject(KeyOf[t], <<t, version[p]>>)
        /\ Goto(p, "after_upload") \/ Goto(p, "hold")
     \/ Goto(p, "hold") /\ UNCHANGED bucket
  /\ UNCHANGED <<killSwitch, apVars, obVars, task, looked, version, window, receipt,
                 braked, faults>>

(* _build_upload_receipt verifies the provider's evidence.                 *)
BuildsReceipt(p) ==
  /\ At(p, "receipt")
  /\ Goto(p, "complete") \/ Goto(p, "hold")
  /\ UNCHANGED <<killSwitch, apVars, obVars, task, looked, version, outside>>

-----------------------------------------------------------------------------
(* complete_claimed_backup_transfer reads the kill switch first; whatever  *)
(* it raises, the receipt is there, so the transfer is held.               *)
CompleteReadsKillSwitch(p) ==
  /\ At(p, "complete")
  /\ Goto(p, IF killSwitch THEN "hold" ELSE "completing")
  /\ UNCHANGED <<killSwitch, apVars, obVars, task, looked, version, outside>>

CompletesTransfer(p) ==
  LET t == task[p] IN
  /\ At(p, "completing")
  /\ \/ /\ Complete(p, t, "COMPLETED")
        /\ receipt' = [receipt EXCEPT ![t] = version[p]]
        /\ Goto(p, "idle")
     \/ /\ ~(Holds(p, t) /\ ~lapsed[t])
        /\ Goto(p, "hold")
        /\ UNCHANGED <<obVars, receipt>>
  /\ UNCHANGED <<killSwitch, apVars, task, looked, version, window, bucket, puts, braked, faults>>

(* fail_claimed and hold_claimed raise for a worker without the lease, and *)
(* nothing in the worker's loop catches that.                              *)
FailTransferReads(p) ==
  /\ At(p, "fail")
  /\ \/ FailReads(p, task[p]) /\ Goto(p, "failing")
     \/ ~Holds(p, task[p]) /\ Goto(p, "down") /\ UNCHANGED obVars
  /\ UNCHANGED <<killSwitch, apVars, task, looked, version, outside>>

FailTransferWrites(p) ==
  /\ At(p, "failing")
  /\ FailWrites(p)
  /\ Goto(p, "idle")
  /\ UNCHANGED <<killSwitch, apVars, task, looked, version, outside>>

HoldTransferReads(p) ==
  /\ At(p, "hold")
  /\ \/ HoldReads(p, task[p]) /\ Goto(p, "holding")
     \/ ~Holds(p, task[p]) /\ Goto(p, "down") /\ UNCHANGED obVars
  /\ UNCHANGED <<killSwitch, apVars, task, looked, version, outside>>

HoldTransferWritesBug(p) ==                 \* an ambiguous write is retried
  LET t == holding[p] IN
  /\ At(p, "holding")
  /\ holding' = [holding EXCEPT ![p] = 0]
  /\ IF Holds(p, t) THEN ReleaseRow(t) ELSE UNCHANGED <<lessee, lapsed>>
  /\ Goto(p, "idle")
  /\ UNCHANGED <<killSwitch, apVars, status, boundTo, waiting, tries, failing, requesting,
                 task, looked, version, outside>>

HoldTransferWrites(p) ==
  /\ At(p, "holding")
  /\ HoldWrites(p)
  /\ Goto(p, "idle")
  /\ UNCHANGED <<killSwitch, apVars, task, looked, version, outside>>

-----------------------------------------------------------------------------
(* Crashes and restarts.                                                   *)
Crash(p) ==
  /\ ~At(p, "down") /\ faults < MaxFaults
  /\ Goto(p, "down")
  /\ looked' = [looked EXCEPT ![p] = FALSE]
  /\ ObDisconnects(p)
  /\ faults' = faults + 1
  /\ UNCHANGED <<killSwitch, apVars, task, version, window, bucket, receipt, puts, braked>>

Restart(p) ==
  /\ At(p, "down")
  /\ Goto(p, "idle")
  /\ UNCHANGED <<killSwitch, apVars, obVars, task, looked, version, outside>>

-----------------------------------------------------------------------------
(* Sean and the operators: staging, preflight, approval, authorisation.    *)
StageTransfer(t) ==
  StageRow(t) /\ UNCHANGED <<killSwitch, apVars, procVars, outside>>

RecordPreflight(t) ==
  Preflight(t) /\ UNCHANGED <<killSwitch, apVars, procVars, outside>>

RequestTransferReads(q, t) ==
  /\ RequestReads(q, t, "PREFLIGHT_VALIDATED")
  /\ UNCHANGED <<killSwitch, procVars, outside>>

RequestTransferWrites(q, a) ==
  RequestWrites(q, a) /\ UNCHANGED <<killSwitch, procVars, outside>>

AuthorizeTransfer(t, a) ==
  /\ Authorize(t, a, "PREFLIGHT_VALIDATED")
  /\ UNCHANGED <<killSwitch, procVars, outside>>

Decides ==
  /\ \/ \E a \in Approvals : CreateApproval(a)
     \/ \E d \in Deciders :
          \/ \E a \in Approvals : DecideReads(d, a)
          \/ \E approve \in BOOLEAN : DecideWrites(d, approve)
     \/ ApTime
  /\ UNCHANGED <<killSwitch, obVars, procVars, outside>>

(* Those that had not passed the last guard before the upload.             *)
ShortOfUpload(p) ==
  place[p] \in {"idle", "claim", "validate", "before_encryption", "encrypt",
                "before_upload", "down"}

SwitchKill(on) ==
  /\ KillSwitchSet(on)
  /\ braked' = IF on /\ ~killSwitch THEN {p \in Conns : ShortOfUpload(p)}
               ELSE IF on THEN braked ELSE {}
  /\ UNCHANGED <<apVars, obVars, procVars, window, bucket, receipt, puts, faults>>

-----------------------------------------------------------------------------
(* Time.                                                                   *)
WindowMoves(t) ==
  /\ window[t] # "over"
  /\ window' = [window EXCEPT ![t] = IF @ = "before" THEN "open" ELSE "over"]
  /\ UNCHANGED <<killSwitch, apVars, obVars, procVars, bucket, receipt, puts, braked, faults>>

WorkingOn(p, t) == task[p] = t /\ place[p] \notin {"idle", "claim", "down"}

Lapse(t) ==
  /\ LeaseLapses(t)
  /\ IF \E p \in Conns : WorkingOn(p, t)
       THEN faults < MaxFaults /\ faults' = faults + 1
       ELSE UNCHANGED faults
  /\ UNCHANGED <<killSwitch, apVars, procVars, window, bucket, receipt, puts, braked>>

Backoff(t) ==
  BackoffEnds(t) /\ UNCHANGED <<killSwitch, apVars, procVars, outside>>

-----------------------------------------------------------------------------
TransferStep(p) ==
  \/ ClaimReadsKillSwitch(p) \/ ClaimsTransfer(p) \/ FindsNoTransfer(p)
  \/ ValidatesTransfer(p) \/ GuardReadsRow(p) \/ GuardReadsKillSwitch(p)
  \/ Encrypts(p) \/ FailsBeforeUpload(p) \/ Uploads(p) \/ BuildsReceipt(p)
  \/ CompleteReadsKillSwitch(p) \/ CompletesTransfer(p)
  \/ FailTransferReads(p) \/ FailTransferWrites(p)
  \/ HoldTransferReads(p) \/ HoldTransferWrites(p)

Environment ==
  \/ \E t \in Rows :
       \/ StageTransfer(t) \/ RecordPreflight(t)
       \/ \E q \in Requesters : RequestTransferReads(q, t)
       \/ \E a \in Approvals : AuthorizeTransfer(t, a)
       \/ WindowMoves(t) \/ Lapse(t) \/ Backoff(t)
  \/ \E q \in Requesters, a \in Approvals : RequestTransferWrites(q, a)
  \/ Decides
  \/ \E on \in BOOLEAN : SwitchKill(on)

BTNext ==
  \/ \E p \in Conns : TransferStep(p) \/ Crash(p) \/ Restart(p)
  \/ Environment

BTSpec == BTInit /\ [][BTNext]_btVars

(* A living process goes on, a dead one is restarted, deadlines pass.      *)
BTFair ==
  /\ \A p \in Conns : WF_btVars(TransferStep(p)) /\ WF_btVars(Restart(p))
  /\ \A t \in Rows : WF_btVars(Lapse(t)) /\ WF_btVars(Backoff(t))

BTFairSpec == BTSpec /\ BTFair

-----------------------------------------------------------------------------
(* Properties.                                                             *)
BTTypeOK ==
  /\ killSwitch \in BOOLEAN
  /\ ApTypeOK /\ ObTypeOK
  /\ place   \in [Conns -> Spots]
  /\ task    \in [Conns -> Rows \cup {0}]
  /\ looked  \in [Conns -> BOOLEAN]
  /\ version \in [Conns -> Nat]
  /\ window  \in [Rows -> {"before", "open", "over"}]
  /\ bucket  \in [Keys -> (Rows \X Nat) \cup {Nothing}]
  /\ receipt \in [Rows -> Nat]
  /\ puts    \in [Rows -> Nat]
  /\ braked  \subseteq Conns
  /\ faults  \in Nat

(* A COMPLETED transfer's receipt attests the very bytes that lie under    *)
(* its key: not those of another plan with the same object_ref, nor those  *)
(* of another attempt of the same plan that encrypted anew.                *)
ReceiptAttestsObject ==
  \A t \in Rows : status[t] = "COMPLETED" => bucket[KeyOf[t]] = <<t, receipt[t]>>

(* A process short of the upload when the kill switch goes ON sends        *)
(* nothing until it is OFF again.                                          *)
KillSwitchStopsUploads ==
  \A p \in braked : place[p] \notin {"upload", "after_upload", "receipt", "complete", "completing"}

(* "exhausted work becomes FAILED" (OPERATIONS.md, 55), and only that.     *)
FailedIsExhausted == \A t \in Rows : status[t] = "FAILED" => tries[t] >= MaxTries[t]

(* A transfer's outcome, once recorded, is never changed.  Holds while one *)
(* worker process runs.                                                    *)
OutcomeIsFinal ==
  [][\A t \in Rows : status[t] \in Terminal => status'[t] = status[t]]_btVars

(* "a terminal RECONCILIATION_REQUIRED state that is never claimable or    *)
(* automatically retried" (OPERATIONS.md, 54).  The code breaks it when a  *)
(* second worker holds the transfer while the first, whose lease is gone,  *)
(* is between the read and the write of fail_claimed_backup_transfer.      *)
HeldIsFinal ==
  [][\A t \in Rows : status[t] = "RECONCILIATION_REQUIRED" => status'[t] = status[t]]_btVars

(* "Any ambiguous or post-upload failure ... becomes                       *)
(* RECONCILIATION_REQUIRED" (SUPERVISED_BACKUP_ACTIVATION_RUNBOOK.md): a   *)
(* transfer whose object exists is never reported FAILED.  The code breaks *)
(* it when the worker dies in between.                                     *)
StoredIsNeverFailed ==
  \A t \in Rows : bucket[KeyOf[t]] # Nothing /\ bucket[KeyOf[t]][1] = t => status[t] # "FAILED"

(* The worker "never auto-retries an ambiguous write" (README.md), and     *)
(* never reports a stored object as FAILED: so it is while no process dies *)
(* and no lease lapses under a live one, whatever the provider answers.    *)
WriteNotRetried ==
  faults = 0 => StoredIsNeverFailed /\ \A t \in Rows : puts[t] <= 1

(* An authorised transfer reaches an end, once the switch stays OFF.       *)
TransferEnds ==
  <>[](~killSwitch) =>
    \A t \in Rows : status[t] = "AUTHORIZED" ~> status[t] \in Terminal

(* One process implements the abstract promise.                            *)
OutcomeOf(s) == CASE s = "COMPLETED" -> "kept" [] s = "FAILED" -> "failed"
                  [] s = "RECONCILIATION_REQUIRED" -> "held" [] OTHER -> "open"
Promise == INSTANCE OneShot WITH
  Plans <- Rows, Places <- Keys, PlaceOf <- KeyOf, Nobody <- 0,
  granted <- {t \in Rows : boundTo[t] # NoApproval},
  holder  <- [k \in Keys |-> bucket[k][1]],
  outcome <- [t \in Rows |-> OutcomeOf(status[t])]
UploadsOnce == Promise!Spec
=============================================================================
