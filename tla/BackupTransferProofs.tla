------------------------ MODULE BackupTransferProofs ------------------------
(* What holds of backup transfers for every number of worker processes,    *)
(* plans, approvals, crashes and lapsed leases; and, for one process, that *)
(* the outbox keeps the abstract promise.                                  *)
EXTENDS BackupTransfer, ApprovalsProofs, FiniteSetTheorems

Busy(p) == place[p] \notin {"idle", "claim", "down"}

(* A process past its claim works on a plan that has been authorised; a    *)
(* guard half read is a guard; a half done fail or hold is of its own plan.*)
ProcessesAreSane ==
  \A p \in Conns :
    /\ looked[p] => place[p] \in Guards
    /\ Busy(p) => task[p] \in Rows /\ boundTo[task[p]] # NoApproval
    /\ failing[p].row = IF At(p, "failing") THEN task[p] ELSE 0
    /\ holding[p] = IF At(p, "holding") THEN task[p] ELSE 0

(* A plan is bound to an approval from its authorisation on.               *)
BoundOnceGranted ==
  \A t \in Rows :
    boundTo[t] # NoApproval <=> status[t] \in {"AUTHORIZED"} \cup Terminal

BaseInv == BTTypeOK /\ ApInv /\ ProcessesAreSane /\ BoundOnceGranted

LEMMA BaseAtInit == BTInit => BaseInv
<1> SUFFICES ASSUME BTInit PROVE BaseInv
  OBVIOUS
<1> USE DEF BTInit
<1>1. ApInv
  BY ApInvAtInit
<1>2. ObTypeOK
  BY DEF ObInit, ObTypeOK, RowStatuses, NotFailing
<1>3. BTTypeOK
  BY <1>1, <1>2 DEF BTTypeOK, ApInv, Spots, Nothing
<1>4. ProcessesAreSane
  BY DEF ProcessesAreSane, ObInit, NotFailing, Busy, At
<1>5. BoundOnceGranted
  BY DEF BoundOnceGranted, ObInit, Terminal, Finished
<1>6. QED
  BY <1>1, <1>3, <1>4, <1>5 DEF BaseInv

-----------------------------------------------------------------------------
(* The kinds of step.  A process moves on by itself, knowing no more than  *)
(* the world outside the two tables.                                       *)
Moves(p) ==
  \/ ClaimReadsKillSwitch(p) \/ ValidatesTransfer(p) \/ GuardReadsRow(p)
  \/ GuardReadsKillSwitch(p) \/ Encrypts(p) \/ FailsBeforeUpload(p) \/ Uploads(p)
  \/ BuildsReceipt(p) \/ CompleteReadsKillSwitch(p)

LEMMA MovesDisturbNoTable ==
  ASSUME BaseInv, NEW p \in Conns, Moves(p)
  PROVE  /\ UNCHANGED <<killSwitch, apVars, obVars, task, version, window, receipt, braked, faults>>
         /\ ~At(p, "failing") /\ ~At(p, "holding")
         /\ \E s \in Spots \ {"failing", "holding"} :
              /\ place' = [place EXCEPT ![p] = s]
              /\ s \notin {"idle", "claim", "down"} => Busy(p)
         /\ \E b \in BOOLEAN :
              /\ looked' = [looked EXCEPT ![p] = b]
              /\ b => place'[p] \in Guards
<1> USE DEF At, Goto, Busy, Spots, Guards, outside, BaseInv, BTTypeOK
<1>1. CASE ClaimReadsKillSwitch(p)
  BY <1>1 DEF ClaimReadsKillSwitch, ProcessesAreSane
<1>2. CASE ValidatesTransfer(p)
  BY <1>2 DEF ValidatesTransfer, ProcessesAreSane
<1>3. CASE GuardReadsRow(p)
  <2>1. CASE looked' = [looked EXCEPT ![p] = TRUE] /\ place' = place
    <3>1. place' = [place EXCEPT ![p] = place[p]] /\ place[p] \in Guards
      BY <1>3, <2>1 DEF GuardReadsRow
    <3>2. QED
      BY <1>3, <2>1, <3>1 DEF GuardReadsRow
  <2>2. CASE Goto(p, Refused(place[p])) /\ looked' = looked
    BY <1>3, <2>2 DEF GuardReadsRow, Refused
  <2>3. QED
    BY <1>3, <2>1, <2>2 DEF GuardReadsRow
<1>4. CASE GuardReadsKillSwitch(p)
  <2>1. place[p] \in Guards
    BY <1>4 DEF GuardReadsKillSwitch, ProcessesAreSane
  <2>2. Refused(place[p]) \in {"fail", "hold"} /\ AfterGuard(place[p]) \in {"encrypt", "upload", "receipt"}
    BY <2>1 DEF Refused, AfterGuard
  <2>3. QED
    BY <1>4, <2>1, <2>2 DEF GuardReadsKillSwitch
<1>5. CASE Encrypts(p) \/ FailsBeforeUpload(p) \/ BuildsReceipt(p) \/ CompleteReadsKillSwitch(p)
  BY <1>5 DEF Encrypts, FailsBeforeUpload, BuildsReceipt, CompleteReadsKillSwitch, ProcessesAreSane
<1>6. CASE Uploads(p)
  BY <1>6 DEF Uploads, ProcessesAreSane
<1>7. QED
  BY <1>1, <1>2, <1>3, <1>4, <1>5, <1>6 DEF Moves

(* A step of the approvals table, or one of the kinds listed.              *)
LEMMA ApInvAtTransferStep ==
  ASSUME BaseInv, [BTNext]_btVars
  PROVE  ApInv'
<1>1. CASE [ApStep]_apVars
  BY <1>1, ApInvAtStep DEF BaseInv
<1>2. ASSUME NEW p \in Conns, TransferStep(p) \/ Crash(p) \/ Restart(p) PROVE UNCHANGED apVars
  <2>1. CASE Moves(p)
    BY <2>1, MovesDisturbNoTable
  <2>2. CASE ~Moves(p)
    BY <1>2, <2>2
    DEF Moves, TransferStep, ClaimsTransfer, FindsNoTransfer, CompletesTransfer,
        FailTransferReads, FailTransferWrites, HoldTransferReads, HoldTransferWrites,
        Crash, Restart
  <2>3. QED
    BY <2>1, <2>2
<1>3. ASSUME NEW q \in Requesters, NEW t \in Rows, RequestTransferReads(q, t) PROVE ApInv'
  BY <1>3 DEF RequestTransferReads, RequestReads, PendingFor, BaseInv, ApInv, ApTypeOK,
              ApprovalStatuses, ReadsAreOfRealRows
<1>4. ASSUME NEW q \in Requesters, NEW a \in Approvals, RequestTransferWrites(q, a)
      PROVE  ApStep
  BY <1>4 DEF RequestTransferWrites, RequestWrites, ApStep, Sean
<1>5. ASSUME NEW t \in Rows, NEW a \in Approvals, AuthorizeTransfer(t, a) PROVE ApStep
  BY <1>5 DEF AuthorizeTransfer, Authorize, ApStep
<1>6. CASE Decides
  BY <1>1, <1>6 DEF Decides, ApStep, Sean, ApTime
<1>7. ASSUME NEW t \in Rows,
             StageTransfer(t) \/ RecordPreflight(t) \/ WindowMoves(t) \/ Lapse(t) \/ Backoff(t)
      PROVE  UNCHANGED apVars
  BY <1>7 DEF StageTransfer, RecordPreflight, WindowMoves, Lapse, Backoff
<1>8. ASSUME NEW on \in BOOLEAN, SwitchKill(on) PROVE UNCHANGED apVars
  BY <1>8 DEF SwitchKill
<1>9. CASE UNCHANGED btVars
  BY <1>1, <1>9 DEF btVars
<1>10. QED
  BY <1>1, <1>2, <1>3, <1>4, <1>5, <1>6, <1>7, <1>8, <1>9 DEF BTNext, Environment

-----------------------------------------------------------------------------
(* The rows keep their types.                                              *)
LEMMA LeaseTypes ==
  ASSUME ObTypeOK, NEW p \in Conns, NEW t, NEW dead \in SUBSET Rows, Lease(p, t, dead)
  PROVE  ObTypeOK'
<1>1. status' \in [Rows -> RowStatuses]
  BY DEF Lease, ObTypeOK, RowStatuses, Terminal
<1>2. lessee' \in [Rows -> Conns \cup {NoOne}] /\ lapsed' \in [Rows -> BOOLEAN]
  BY DEF Lease, ObTypeOK
<1>3. tries' \in [Rows -> Nat]
  BY DEF Lease, ObTypeOK
<1>4. QED
  BY <1>1, <1>2, <1>3 DEF Lease, callVars, ObTypeOK

LEMMA RowTypesAtProcessStep ==
  ASSUME BaseInv, NEW p \in Conns, TransferStep(p) \/ Crash(p) \/ Restart(p)
  PROVE  ObTypeOK'
<1> USE DEF rowVars, callVars, obVars, RowStatuses, Terminal, Finished, SetStatus, ReleaseRow
<1>0. ObTypeOK
  BY DEF BaseInv, BTTypeOK
<1>1. CASE UNCHANGED obVars
  BY <1>0, <1>1 DEF ObTypeOK
<1>2. CASE Moves(p)
  BY <1>1, <1>2, MovesDisturbNoTable
<1>3. CASE ClaimsTransfer(p) \/ FindsNoTransfer(p)
  BY <1>0, <1>3, LeaseTypes DEF ClaimsTransfer, FindsNoTransfer, Expired
<1>4. CASE CompletesTransfer(p)
  <2>1. CASE Complete(p, task[p], "COMPLETED")
    BY <1>0, <2>1 DEF Complete, ObTypeOK
  <2>2. QED
    BY <1>1, <1>4, <2>1 DEF CompletesTransfer
<1>5. CASE FailTransferReads(p)
  <2>1. CASE FailReads(p, task[p]) /\ At(p, "fail")
    <3>1. task[p] \in Rows
      BY <2>1 DEF BaseInv, ProcessesAreSane, Busy, At
    <3>2. [row |-> task[p], dead |-> Exhausted(task[p])] \in [row : Rows \cup {0}, dead : BOOLEAN]
      BY <3>1 DEF Exhausted
    <3>3. QED
      BY <1>0, <2>1, <3>2 DEF FailReads, ObTypeOK
  <2>2. QED
    BY <1>1, <1>5, <2>1 DEF FailTransferReads
<1>6. CASE FailTransferWrites(p)
  <2>1. \E s \in {"FAILED", "AUTHORIZED"} : status' = [status EXCEPT ![failing[p].row] = s]
    BY <1>6 DEF FailTransferWrites, FailWrites
  <2>2. failing' = [failing EXCEPT ![p] = NotFailing] /\ UNCHANGED <<boundTo, tries, holding, requesting>>
    BY <1>6 DEF FailTransferWrites, FailWrites
  <2>3. /\ waiting' = [waiting EXCEPT ![failing[p].row] = TRUE]
        /\ lessee' = [lessee EXCEPT ![failing[p].row] = NoOne]
        /\ lapsed' = [lapsed EXCEPT ![failing[p].row] = FALSE]
    BY <1>6 DEF FailTransferWrites, FailWrites
  <2>4. status' \in [Rows -> RowStatuses]
    BY <1>0, <2>1 DEF ObTypeOK
  <2>5. QED
    BY <1>0, <2>2, <2>3, <2>4 DEF ObTypeOK, NotFailing
<1>7. CASE HoldTransferReads(p)
  <2>1. CASE HoldReads(p, task[p]) /\ At(p, "hold")
    <3>1. task[p] \in Rows
      BY <2>1 DEF BaseInv, ProcessesAreSane, Busy, At
    <3>2. QED
      BY <1>0, <2>1, <3>1 DEF HoldReads, ObTypeOK
  <2>2. QED
    BY <1>1, <1>7, <2>1 DEF HoldTransferReads
<1>8. CASE HoldTransferWrites(p)
  BY <1>0, <1>8 DEF HoldTransferWrites, HoldWrites, ObTypeOK
<1>9. CASE Crash(p)
  BY <1>0, <1>9 DEF Crash, ObDisconnects, ObTypeOK, NotFailing
<1>10. CASE Restart(p)
  BY <1>1, <1>10 DEF Restart
<1>11. QED
  BY <1>2, <1>3, <1>4, <1>5, <1>6, <1>7, <1>8, <1>9, <1>10 DEF TransferStep, Moves

LEMMA RowTypesAtStep ==
  ASSUME BaseInv, [BTNext]_btVars
  PROVE  ObTypeOK'
<1> USE DEF rowVars, callVars, obVars, RowStatuses, Terminal, Finished, SetStatus
<1>0. ObTypeOK
  BY DEF BaseInv, BTTypeOK
<1>1. CASE UNCHANGED obVars
  BY <1>0, <1>1 DEF ObTypeOK
<1>2. ASSUME NEW t \in Rows, StageTransfer(t) \/ RecordPreflight(t) PROVE ObTypeOK'
  BY <1>0, <1>2 DEF StageTransfer, StageRow, RecordPreflight, Preflight, ObTypeOK
<1>3. ASSUME NEW q \in Requesters, NEW t \in Rows, RequestTransferReads(q, t) PROVE ObTypeOK'
  <2>1. /\ UNCHANGED <<rowVars, callVars>>
        /\ requesting' = requesting \/ requesting' = [requesting EXCEPT ![q] = t]
    BY <1>3 DEF RequestTransferReads, RequestReads
  <2>2. QED
    BY <1>0, <2>1 DEF ObTypeOK
<1>4. ASSUME NEW q \in Requesters, NEW a \in Approvals, RequestTransferWrites(q, a)
      PROVE  ObTypeOK'
  BY <1>0, <1>4 DEF RequestTransferWrites, RequestWrites, ObTypeOK
<1>5. ASSUME NEW t \in Rows, NEW a \in Approvals, AuthorizeTransfer(t, a) PROVE ObTypeOK'
  BY <1>0, <1>5 DEF AuthorizeTransfer, Authorize, ObTypeOK
<1>6. ASSUME NEW t \in Rows, Lapse(t) \/ Backoff(t) PROVE ObTypeOK'
  BY <1>0, <1>6 DEF Lapse, LeaseLapses, Backoff, BackoffEnds, ObTypeOK
<1>7. ASSUME NEW t \in Rows, WindowMoves(t) PROVE ObTypeOK'
  BY <1>1, <1>7 DEF WindowMoves
<1>8. ASSUME NEW on \in BOOLEAN, SwitchKill(on) PROVE ObTypeOK'
  BY <1>1, <1>8 DEF SwitchKill
<1>9. CASE Decides
  BY <1>1, <1>9 DEF Decides
<1>10. CASE UNCHANGED btVars
  BY <1>1, <1>10 DEF btVars
<1>11. QED
  BY RowTypesAtProcessStep, <1>2, <1>3, <1>4, <1>5, <1>6, <1>7, <1>8, <1>9, <1>10
  DEF BTNext, Environment

LEMMA ChangedInPlace ==
  ASSUME NEW S, NEW D, NEW f \in [D -> S], NEW k, NEW e \in S
  PROVE  [f EXCEPT ![k] = e] \in [D -> S]
OBVIOUS

(* The types of what BackupTransfer adds.                                  *)
LEMMA TransferTypesAtStep ==
  ASSUME BaseInv, [BTNext]_btVars
  PROVE  BTTypeOK'
<1> DEFINE Stored == [Keys -> (Rows \X Nat) \cup {Nothing}]
<1> DEFINE Goal == /\ killSwitch' \in BOOLEAN
                   /\ place'   \in [Conns -> Spots]
                   /\ task'    \in [Conns -> Rows \cup {0}]
                   /\ looked'  \in [Conns -> BOOLEAN]
                   /\ version' \in [Conns -> Nat]
                   /\ window'  \in [Rows -> {"before", "open", "over"}]
                   /\ bucket'  \in Stored
                   /\ receipt' \in [Rows -> Nat]
                   /\ puts'    \in [Rows -> Nat]
                   /\ braked'  \subseteq Conns
                   /\ faults'  \in Nat
<1>0. /\ killSwitch \in BOOLEAN
      /\ place   \in [Conns -> Spots]
      /\ task    \in [Conns -> Rows \cup {0}]
      /\ looked  \in [Conns -> BOOLEAN]
      /\ version \in [Conns -> Nat]
      /\ window  \in [Rows -> {"before", "open", "over"}]
      /\ bucket  \in Stored
      /\ receipt \in [Rows -> Nat]
      /\ puts    \in [Rows -> Nat]
      /\ braked  \subseteq Conns
      /\ faults  \in Nat
      /\ tries   \in [Rows -> Nat]
  BY DEF BaseInv, BTTypeOK, ObTypeOK
<1>a. \A p \in Conns : Busy(p) => task[p] \in Rows
  BY DEF BaseInv, ProcessesAreSane
<1> HIDE DEF Stored
<1>1. ASSUME NEW p \in Conns, Moves(p) PROVE Goal
  <2>1. CASE Uploads(p)
    <3>1. task[p] \in Rows
      BY <1>a, <2>1 DEF Uploads, Busy, At
    <3>2. bucket' = bucket \/ bucket' = [bucket EXCEPT ![KeyOf[task[p]]] = <<task[p], version[p]>>]
      BY <2>1 DEF Uploads, PutObject
    <3>3. bucket' \in Stored
      <4>1. <<task[p], version[p]>> \in (Rows \X Nat) \cup {Nothing}
        BY <1>0, <3>1
      <4>2. QED
        BY <1>0, <3>2, <4>1, ChangedInPlace DEF Stored
    <3>4. puts' \in [Rows -> Nat]
      BY <1>0, <2>1, <3>1 DEF Uploads
    <3>5. QED
      BY <1>0, <1>1, <3>3, <3>4, MovesDisturbNoTable DEF Spots
  <2>2. CASE ~Uploads(p)
    <3>1. UNCHANGED <<bucket, puts>>
      BY <1>1, <2>2
      DEF Moves, ClaimReadsKillSwitch, ValidatesTransfer, GuardReadsRow,
          GuardReadsKillSwitch, Encrypts, FailsBeforeUpload, BuildsReceipt,
          CompleteReadsKillSwitch, outside
    <3>2. QED
      BY <1>0, <1>1, <3>1, MovesDisturbNoTable DEF Spots
  <2>3. QED
    BY <2>1, <2>2
<1> USE <1>0 DEF procVars, outside, Goto
<1>2. ASSUME NEW p \in Conns, ClaimsTransfer(p) \/ FindsNoTransfer(p) PROVE Goal
  <2>1. CASE FindsNoTransfer(p)
    BY <2>1 DEF FindsNoTransfer, Spots
  <2>2. CASE ClaimsTransfer(p)
    <3>1. PICK t \in Rows : /\ task' = [task EXCEPT ![p] = t]
                            /\ version' = [version EXCEPT ![p] = tries[t] + 1]
      BY <2>2 DEF ClaimsTransfer
    <3>2. QED
      BY <2>2, <3>1 DEF ClaimsTransfer, Spots
  <2>3. QED
    BY <1>2, <2>1, <2>2
<1>3. ASSUME NEW p \in Conns, CompletesTransfer(p) PROVE Goal
  BY <1>3 DEF CompletesTransfer, Spots
<1>4. ASSUME NEW p \in Conns,
             \/ FailTransferReads(p) \/ FailTransferWrites(p)
             \/ HoldTransferReads(p) \/ HoldTransferWrites(p)
      PROVE Goal
  BY <1>4 DEF FailTransferReads, FailTransferWrites, HoldTransferReads, HoldTransferWrites, Spots
<1>5. ASSUME NEW p \in Conns, Crash(p) \/ Restart(p) PROVE Goal
  <2>1. CASE Crash(p)
    <3>1. faults' \in Nat
      BY <2>1 DEF Crash
    <3>2. looked' \in [Conns -> BOOLEAN]
      BY <2>1 DEF Crash
    <3>3. place' \in [Conns -> Spots]
      BY <2>1 DEF Crash, Spots
    <3>4. QED
      BY <2>1, <3>1, <3>2, <3>3 DEF Crash
  <2>2. CASE Restart(p)
    BY <2>2 DEF Restart, Spots
  <2>3. QED
    BY <1>5, <2>1, <2>2
<1>6. ASSUME NEW t \in Rows, WindowMoves(t) \/ Lapse(t) PROVE Goal
  BY <1>6 DEF WindowMoves, Lapse
<1>7. ASSUME NEW on \in BOOLEAN, SwitchKill(on) PROVE Goal
  <2>1. killSwitch' \in BOOLEAN
    BY <1>7 DEF SwitchKill, KillSwitchSet
  <2>2. braked' \subseteq Conns
    BY <1>7 DEF SwitchKill
  <2>3. UNCHANGED <<procVars, window, bucket, receipt, puts, faults>>
    BY <1>7 DEF SwitchKill
  <2>4. QED
    BY <2>1, <2>2, <2>3
<1>8. ASSUME UNCHANGED <<killSwitch, procVars, outside>> PROVE Goal
  BY <1>8
<1>9. Goal
  BY <1>1, <1>2, <1>3, <1>4, <1>5, <1>6, <1>7, <1>8
  DEF BTNext, TransferStep, Moves, Environment, StageTransfer, RecordPreflight, btVars,
      RequestTransferReads, RequestTransferWrites, AuthorizeTransfer, Backoff, Decides
<1>10. QED
  BY <1>9, RowTypesAtStep, ApInvAtTransferStep DEF ApInv, BTTypeOK, Stored

-----------------------------------------------------------------------------
(* The binding of a plan to its approval is kept, and it is there exactly  *)
(* from the authorisation on, also after a failure that is written late.   *)
LEMMA BindingAtStep ==
  ASSUME BaseInv, [BTNext]_btVars
  PROVE  /\ BoundOnceGranted'
         /\ \A t \in Rows : boundTo[t] # NoApproval => boundTo'[t] # NoApproval
<1> DEFINE Goal == /\ BoundOnceGranted'
                   /\ \A t \in Rows : boundTo[t] # NoApproval => boundTo'[t] # NoApproval
<1> USE DEF BoundOnceGranted, Terminal, Finished, SetStatus, rowVars, obVars
<1>0. /\ status \in [Rows -> RowStatuses] /\ BoundOnceGranted
      /\ boundTo \in [Rows -> Approvals \cup {NoApproval}]
  BY DEF BaseInv, BTTypeOK, ObTypeOK
<1>1. ASSUME UNCHANGED <<status, boundTo>> PROVE Goal
  BY <1>0, <1>1
<1>2. ASSUME NEW p \in Conns, ClaimsTransfer(p) \/ FindsNoTransfer(p) PROVE Goal
  <2>1. /\ status' = [t \in Rows |-> IF t \in Expired THEN "FAILED" ELSE status[t]]
        /\ boundTo' = boundTo
    BY <1>2 DEF ClaimsTransfer, FindsNoTransfer, Lease
  <2>2. QED
    BY <1>0, <2>1 DEF Expired, Unleased
<1>3. ASSUME NEW p \in Conns, NEW t \in Rows, NEW s \in Terminal, Holds(p, t),
             status' = [status EXCEPT ![t] = s], boundTo' = boundTo
      PROVE  Goal
  BY <1>0, <1>3 DEF Holds
<1>4. ASSUME NEW p \in Conns, CompletesTransfer(p) PROVE Goal
  <2>1. CASE Complete(p, task[p], "COMPLETED")
    <3>1. task[p] \in Rows
      BY <1>4 DEF BaseInv, ProcessesAreSane, Busy, CompletesTransfer, At
    <3>2. QED
      BY <1>3, <2>1, <3>1 DEF Complete
  <2>2. QED
    BY <1>1, <1>4, <2>1 DEF CompletesTransfer
<1>5. ASSUME NEW p \in Conns, FailTransferWrites(p) PROVE Goal
  <2>1. PICK s \in {"FAILED", "AUTHORIZED"} : status' = [status EXCEPT ![task[p]] = s]
    BY <1>5 DEF FailTransferWrites, FailWrites, BaseInv, ProcessesAreSane
  <2>2. task[p] \in Rows /\ boundTo[task[p]] # NoApproval /\ boundTo' = boundTo
    BY <1>5 DEF FailTransferWrites, FailWrites, BaseInv, ProcessesAreSane, Busy, At
  <2>3. QED
    BY <1>0, <2>1, <2>2
<1>6. ASSUME NEW p \in Conns, HoldTransferWrites(p) PROVE Goal
  <2>1. CASE Holds(p, holding[p])
    <3>1. holding[p] \in Rows /\ boundTo' = boundTo
      BY <1>6 DEF HoldTransferWrites, HoldWrites, BaseInv, BTTypeOK, ObTypeOK
    <3>2. status' = [status EXCEPT ![holding[p]] = "RECONCILIATION_REQUIRED"]
      BY <1>6, <2>1 DEF HoldTransferWrites, HoldWrites
    <3>3. QED
      BY <1>3, <2>1, <3>1, <3>2
  <2>2. QED
    BY <1>1, <1>6, <2>1 DEF HoldTransferWrites, HoldWrites
<1>7. ASSUME NEW t \in Rows, StageTransfer(t) \/ RecordPreflight(t) PROVE Goal
  BY <1>0, <1>7 DEF StageTransfer, StageRow, RecordPreflight, Preflight
<1>8. ASSUME NEW t \in Rows, NEW a \in Approvals, AuthorizeTransfer(t, a) PROVE Goal
  BY <1>0, <1>8, ApprovalsAssumption DEF AuthorizeTransfer, Authorize
<1>9. ASSUME NEW t \in Rows, Lapse(t) \/ Backoff(t) \/ WindowMoves(t) PROVE Goal
  BY <1>1, <1>9 DEF Lapse, LeaseLapses, Backoff, BackoffEnds, WindowMoves
<1>10. ASSUME NEW p \in Conns, Moves(p) PROVE Goal
  BY <1>1, <1>10, MovesDisturbNoTable
<1>11. ASSUME NEW p \in Conns, FailTransferReads(p) \/ HoldTransferReads(p) \/ Crash(p) \/ Restart(p)
       PROVE  Goal
  BY <1>1, <1>11 DEF FailTransferReads, FailReads, HoldTransferReads, HoldReads, Crash,
                     ObDisconnects, Restart
<1>12. ASSUME NEW q \in Requesters, NEW t \in Rows, RequestTransferReads(q, t) PROVE Goal
  BY <1>1, <1>12 DEF RequestTransferReads, RequestReads
<1>13. ASSUME NEW q \in Requesters, NEW a \in Approvals, RequestTransferWrites(q, a) PROVE Goal
  BY <1>1, <1>13 DEF RequestTransferWrites, RequestWrites
<1>14. ASSUME Decides \/ UNCHANGED btVars \/ \E on \in BOOLEAN : SwitchKill(on) PROVE Goal
  BY <1>1, <1>14 DEF Decides, btVars, SwitchKill
<1>15. Goal
  BY <1>2, <1>4, <1>5, <1>6, <1>7, <1>8, <1>9, <1>10, <1>11, <1>12, <1>13, <1>14
  DEF BTNext, TransferStep, Moves, Environment
<1>16. QED
  BY <1>15

-----------------------------------------------------------------------------
LEMMA ProcessesStaySane ==
  ASSUME BaseInv, [BTNext]_btVars
  PROVE  ProcessesAreSane'
<1> DEFINE Sane(q) ==
      /\ looked[q] => place[q] \in Guards
      /\ Busy(q) => task[q] \in Rows /\ boundTo[task[q]] # NoApproval
      /\ failing[q].row = IF At(q, "failing") THEN task[q] ELSE 0
      /\ holding[q] = IF At(q, "holding") THEN task[q] ELSE 0
<1>0. /\ place \in [Conns -> Spots] /\ task \in [Conns -> Rows \cup {0}]
      /\ looked \in [Conns -> BOOLEAN] /\ holding \in [Conns -> Rows \cup {0}]
      /\ failing \in [Conns -> [row : Rows \cup {0}, dead : BOOLEAN]]
  BY DEF BaseInv, BTTypeOK, ObTypeOK
<1>a. \A q \in Conns : Sane(q)
  BY DEF BaseInv, ProcessesAreSane
<1>b. \A t \in Rows : boundTo[t] # NoApproval => boundTo'[t] # NoApproval
  BY BindingAtStep
<1>1. ASSUME NEW q \in Conns, place'[q] = place[q], task'[q] = task[q], looked'[q] = looked[q],
             failing'[q] = failing[q], holding'[q] = holding[q]
      PROVE  Sane(q)'
  BY <1>a, <1>b, <1>1 DEF Busy, At
<1>2. ASSUME NEW p \in Conns, Moves(p) PROVE \A q \in Conns : Sane(q)'
  <2>1. PICK s \in Spots \ {"failing", "holding"} :
          /\ place' = [place EXCEPT ![p] = s]
          /\ s \notin {"idle", "claim", "down"} => Busy(p)
    BY <1>2, MovesDisturbNoTable
  <2>2. PICK b \in BOOLEAN :
          /\ looked' = [looked EXCEPT ![p] = b]
          /\ b => place'[p] \in Guards
    BY <1>2, MovesDisturbNoTable
  <2>3. /\ UNCHANGED <<task, failing, holding>> /\ ~At(p, "failing") /\ ~At(p, "holding")
    BY <1>2, MovesDisturbNoTable DEF obVars, callVars
  <2>4. Sane(p)'
    <3>1. looked'[p] = b /\ place'[p] = s
      BY <1>0, <2>1, <2>2
    <3>2. looked'[p] => place'[p] \in Guards
      BY <2>2, <3>1
    <3>3. Busy(p)' => task'[p] \in Rows /\ boundTo'[task'[p]] # NoApproval
      BY <1>a, <1>b, <2>1, <2>3, <3>1 DEF Busy
    <3>4. failing'[p].row = 0 /\ holding'[p] = 0 /\ ~At(p, "failing")' /\ ~At(p, "holding")'
      BY <1>a, <2>3, <3>1 DEF At
    <3>5. QED
      BY <3>2, <3>3, <3>4
  <2>5. ASSUME NEW q \in Conns, q # p PROVE Sane(q)'
    BY <1>0, <1>1, <2>1, <2>2, <2>3, <2>5
  <2>6. QED
    BY <2>4, <2>5
<1>3. ASSUME NEW p \in Conns, NEW s \in Spots \ Guards, ~looked'[p],
             task'[p] \in Rows \cup {0},
             place' = [place EXCEPT ![p] = s],
             \A q \in Conns \ {p} : /\ looked'[q] = looked[q] /\ task'[q] = task[q]
                                     /\ failing'[q] = failing[q] /\ holding'[q] = holding[q],
             s \notin {"idle", "claim", "down"}
               => task'[p] \in Rows /\ boundTo'[task'[p]] # NoApproval,
             failing'[p].row = IF s = "failing" THEN task'[p] ELSE 0,
             holding'[p] = IF s = "holding" THEN task'[p] ELSE 0
      PROVE  \A q \in Conns : Sane(q)'
  <2>1. place'[p] = s /\ \A q \in Conns \ {p} : place'[q] = place[q]
    BY <1>0, <1>3
  <2>2. Sane(p)'
    BY <1>3, <2>1 DEF Busy, At
  <2>3. QED
    BY <1>1, <1>3, <2>1, <2>2
<1>4. ASSUME NEW p \in Conns, ClaimsTransfer(p) PROVE \A q \in Conns : Sane(q)'
  <2>1. PICK t \in Rows : /\ place[p] = "claim" /\ status[t] = "AUTHORIZED"
                          /\ place' = [place EXCEPT ![p] = "validate"]
                          /\ task' = [task EXCEPT ![p] = t]
                          /\ UNCHANGED <<looked, failing, holding>>
    BY <1>4 DEF ClaimsTransfer, Claimable, Unleased, Lease, At, Goto, callVars
  <2>2. boundTo[t] # NoApproval
    BY <2>1 DEF BaseInv, BoundOnceGranted
  <2>3. ~looked[p] /\ failing[p].row = 0 /\ holding[p] = 0
    BY <1>a, <2>1 DEF Guards, At
  <2>4. QED
    BY <1>0, <1>b, <1>3, <2>1, <2>2, <2>3 DEF Spots, Guards
<1>5. ASSUME NEW p \in Conns, FindsNoTransfer(p) PROVE \A q \in Conns : Sane(q)'
  <2>1. /\ place[p] = "claim" /\ place' = [place EXCEPT ![p] = "idle"]
        /\ UNCHANGED <<task, looked, failing, holding>>
    BY <1>5 DEF FindsNoTransfer, Lease, At, Goto, callVars
  <2>2. ~looked[p] /\ failing[p].row = 0 /\ holding[p] = 0
    BY <1>a, <2>1 DEF Guards, At
  <2>3. QED
    BY <1>0, <1>3, <2>1, <2>2 DEF Spots, Guards
<1>6. ASSUME NEW p \in Conns, CompletesTransfer(p) PROVE \A q \in Conns : Sane(q)'
  <2>1. PICK s \in {"idle", "hold"} :
          /\ place[p] = "completing" /\ place' = [place EXCEPT ![p] = s]
          /\ UNCHANGED <<task, looked, failing, holding>>
    BY <1>6 DEF CompletesTransfer, Complete, At, Goto, callVars, obVars
  <2>2. /\ ~looked[p] /\ failing[p].row = 0 /\ holding[p] = 0
        /\ task[p] \in Rows /\ boundTo[task[p]] # NoApproval
    BY <1>a, <2>1 DEF Guards, At, Busy
  <2>3. QED
    BY <1>0, <1>b, <1>3, <2>1, <2>2 DEF Spots, Guards
<1>7. ASSUME NEW p \in Conns, FailTransferReads(p) PROVE \A q \in Conns : Sane(q)'
  <2>1. /\ place[p] = "fail" /\ UNCHANGED <<task, looked, holding>>
        /\ \/ /\ place' = [place EXCEPT ![p] = "failing"]
              /\ failing' = [failing EXCEPT ![p] = [row |-> task[p], dead |-> Exhausted(task[p])]]
           \/ place' = [place EXCEPT ![p] = "down"] /\ UNCHANGED failing
    BY <1>7 DEF FailTransferReads, FailReads, At, Goto, callVars, obVars
  <2>2. /\ ~looked[p] /\ failing[p].row = 0 /\ holding[p] = 0
        /\ task[p] \in Rows /\ boundTo[task[p]] # NoApproval
    BY <1>a, <2>1 DEF Guards, At, Busy
  <2>3. CASE place' = [place EXCEPT ![p] = "down"] /\ UNCHANGED failing
    BY <1>0, <1>3, <2>1, <2>2, <2>3 DEF Spots, Guards
  <2>4. CASE /\ place' = [place EXCEPT ![p] = "failing"]
             /\ failing' = [failing EXCEPT ![p] = [row |-> task[p], dead |-> Exhausted(task[p])]]
    <3>1. failing'[p].row = task[p] /\ \A q \in Conns \ {p} : failing'[q] = failing[q]
      BY <1>0, <2>4
    <3>2. QED
      BY <1>0, <1>b, <1>3, <2>1, <2>2, <2>4, <3>1 DEF Spots, Guards
  <2>5. QED
    BY <2>1, <2>3, <2>4
<1>8. ASSUME NEW p \in Conns, FailTransferWrites(p) PROVE \A q \in Conns : Sane(q)'
  <2>1. /\ place[p] = "failing" /\ place' = [place EXCEPT ![p] = "idle"]
        /\ UNCHANGED <<task, looked, holding>>
        /\ failing' = [failing EXCEPT ![p] = NotFailing]
    BY <1>8 DEF FailTransferWrites, FailWrites, At, Goto
  <2>2. ~looked[p] /\ holding[p] = 0
    BY <1>a, <2>1 DEF Guards, At
  <2>3. failing'[p].row = 0 /\ \A q \in Conns \ {p} : failing'[q] = failing[q]
    BY <1>0, <2>1 DEF NotFailing
  <2>4. QED
    BY <1>0, <1>3, <2>1, <2>2, <2>3 DEF Spots, Guards
<1>9. ASSUME NEW p \in Conns, HoldTransferReads(p) PROVE \A q \in Conns : Sane(q)'
  <2>1. /\ place[p] = "hold" /\ UNCHANGED <<task, looked, failing>>
        /\ \/ /\ place' = [place EXCEPT ![p] = "holding"]
              /\ holding' = [holding EXCEPT ![p] = task[p]]
           \/ place' = [place EXCEPT ![p] = "down"] /\ UNCHANGED holding
    BY <1>9 DEF HoldTransferReads, HoldReads, At, Goto, callVars, obVars
  <2>2. /\ ~looked[p] /\ failing[p].row = 0 /\ holding[p] = 0
        /\ task[p] \in Rows /\ boundTo[task[p]] # NoApproval
    BY <1>a, <2>1 DEF Guards, At, Busy
  <2>3. QED
    BY <1>0, <1>b, <1>3, <2>1, <2>2 DEF Spots, Guards
<1>10. ASSUME NEW p \in Conns, HoldTransferWrites(p) PROVE \A q \in Conns : Sane(q)'
  <2>1. /\ place[p] = "holding" /\ place' = [place EXCEPT ![p] = "idle"]
        /\ UNCHANGED <<task, looked, failing>>
        /\ holding' = [holding EXCEPT ![p] = 0]
    BY <1>10 DEF HoldTransferWrites, HoldWrites, At, Goto
  <2>2. ~looked[p] /\ failing[p].row = 0
    BY <1>a, <2>1 DEF Guards, At
  <2>3. QED
    BY <1>0, <1>3, <2>1, <2>2 DEF Spots, Guards
<1>11. ASSUME NEW p \in Conns, Crash(p) PROVE \A q \in Conns : Sane(q)'
  <2>1. /\ place' = [place EXCEPT ![p] = "down"] /\ looked' = [looked EXCEPT ![p] = FALSE]
        /\ failing' = [failing EXCEPT ![p] = NotFailing] /\ holding' = [holding EXCEPT ![p] = 0]
        /\ task' = task
    BY <1>11 DEF Crash, ObDisconnects, Goto
  <2>2. failing'[p].row = 0 /\ \A q \in Conns \ {p} : failing'[q] = failing[q]
    BY <1>0, <2>1 DEF NotFailing
  <2>3. QED
    BY <1>0, <1>3, <2>1, <2>2 DEF Spots, Guards
<1>12. ASSUME NEW p \in Conns, Restart(p) PROVE \A q \in Conns : Sane(q)'
  <2>1. /\ place[p] = "down" /\ place' = [place EXCEPT ![p] = "idle"]
        /\ UNCHANGED <<task, looked, failing, holding>>
    BY <1>12 DEF Restart, At, Goto, obVars, callVars
  <2>2. ~looked[p] /\ failing[p].row = 0 /\ holding[p] = 0
    BY <1>a, <2>1 DEF Guards, At
  <2>3. QED
    BY <1>0, <1>3, <2>1, <2>2 DEF Spots, Guards
<1>13. ASSUME Environment \/ UNCHANGED btVars PROVE \A q \in Conns : Sane(q)'
  <2>1. UNCHANGED <<procVars, callVars>>
    BY <1>13
    DEF Environment, StageTransfer, StageRow, RecordPreflight, Preflight,
        RequestTransferReads, RequestReads, RequestTransferWrites, RequestWrites,
        AuthorizeTransfer, Authorize, WindowMoves, Lapse, LeaseLapses, Backoff, BackoffEnds,
        Decides, SwitchKill, btVars, obVars
  <2>2. QED
    BY <1>1, <2>1 DEF procVars, callVars
<1>14. \A q \in Conns : Sane(q)'
  BY <1>2, <1>4, <1>5, <1>6, <1>7, <1>8, <1>9, <1>10, <1>11, <1>12, <1>13
  DEF BTNext, TransferStep, Moves
<1>15. QED
  BY <1>14 DEF ProcessesAreSane

(* The sanity of every process and plan holds for ever.                    *)
LEMMA BaseHolds == BTSpec => []BaseInv
<1>1. BTInit => BaseInv
  BY BaseAtInit
<1>2. BaseInv /\ [BTNext]_btVars => BaseInv'
  BY TransferTypesAtStep, ApInvAtTransferStep, ProcessesStaySane, BindingAtStep DEF BaseInv
<1>3. QED
  BY <1>1, <1>2, PTL DEF BTSpec

(* Every variable keeps its type, and every place a process can be is one. *)
THEOREM TransferTypeCorrect == BTSpec => []BTTypeOK
BY BaseHolds, PTL DEF BaseInv

-----------------------------------------------------------------------------
(* Attempts: what fail_claimed has read may be old when it writes, but     *)
(* attempts never go down.                                                 *)
VerdictIsDue ==
  \A p \in Conns : failing[p].row # 0 /\ failing[p].dead
    => tries[failing[p].row] >= MaxTries[failing[p].row]

TriesInv == TriesBounded /\ FailedIsExhausted /\ VerdictIsDue

LEMMA TriesInvAtStep ==
  ASSUME BaseInv, TriesInv, [BTNext]_btVars
  PROVE  TriesInv'
<1> USE DEF TriesInv, TriesBounded, FailedIsExhausted, VerdictIsDue
<1>0. /\ status \in [Rows -> RowStatuses] /\ tries \in [Rows -> Nat]
      /\ MaxTries \in [Rows -> Nat \ {0}]
      /\ failing \in [Conns -> [row : Rows \cup {0}, dead : BOOLEAN]]
  BY OutboxAssumption DEF BaseInv, BTTypeOK, ObTypeOK
<1>1. CASE UNCHANGED <<status, tries, failing>>
  BY <1>1
<1>2. ASSUME NEW t \in Rows, NEW s, s = "FAILED" => tries[t] >= MaxTries[t],
             status' = [status EXCEPT ![t] = s], UNCHANGED <<tries, failing>>
      PROVE  TriesInv'
  BY <1>0, <1>2
<1>3. ASSUME NEW p \in Conns, NEW t, NEW dead \in SUBSET Rows, Lease(p, t, dead),
             \A u \in dead : tries[u] >= MaxTries[u], t \notin dead,
             t \in Rows => tries[t] < MaxTries[t]
      PROVE  TriesInv'
  <2>1. /\ status' = [u \in Rows |-> IF u \in dead THEN "FAILED" ELSE status[u]]
        /\ tries' = [u \in Rows |-> IF u = t THEN tries[u] + 1 ELSE tries[u]]
        /\ failing' = failing
    BY <1>3 DEF Lease, callVars
  <2>2. \A u \in Rows : tries'[u] >= tries[u] /\ tries'[u] \in Nat /\ MaxTries[u] \in Nat
    BY <1>0, <2>1
  <2>3. TriesBounded'
    BY <1>0, <1>3, <2>1
  <2>4. FailedIsExhausted'
    BY <1>0, <1>3, <2>1, <2>2
  <2>5. VerdictIsDue'
    BY <1>0, <2>1, <2>2
  <2>6. QED
    BY <2>3, <2>4, <2>5
<1>4. ASSUME NEW p \in Conns, ClaimsTransfer(p) PROVE TriesInv'
  <2>1. PICK t \in Rows : Claimable(t) /\ Lease(p, t, Expired)
    BY <1>4 DEF ClaimsTransfer
  <2>2. QED
    BY <1>0, <1>3, <2>1 DEF Expired, Exhausted, Claimable
<1>5. ASSUME NEW p \in Conns, FindsNoTransfer(p) PROVE TriesInv'
  BY <1>3, <1>5, OutboxAssumption DEF FindsNoTransfer, Expired, Exhausted
<1>6. ASSUME NEW p \in Conns, CompletesTransfer(p) PROVE TriesInv'
  <2>1. CASE Complete(p, task[p], "COMPLETED")
    <3>1. task[p] \in Rows
      BY <1>6 DEF BaseInv, ProcessesAreSane, Busy, CompletesTransfer, At
    <3>2. QED
      BY <1>2, <2>1, <3>1 DEF Complete, SetStatus, callVars
  <2>2. QED
    BY <1>1, <1>6, <2>1 DEF CompletesTransfer, obVars, rowVars, callVars
<1>7. ASSUME NEW p \in Conns, FailTransferReads(p) PROVE TriesInv'
  <2>1. CASE FailReads(p, task[p])
    <3>1. /\ failing' = [failing EXCEPT ![p] = [row |-> task[p], dead |-> Exhausted(task[p])]]
          /\ UNCHANGED <<status, tries>>
      BY <2>1 DEF FailReads, rowVars
    <3>2. \A q \in Conns : failing'[q].row # 0 /\ failing'[q].dead
            => tries[failing'[q].row] >= MaxTries[failing'[q].row]
      BY <1>0, <3>1 DEF Exhausted
    <3>3. QED
      BY <3>1, <3>2
  <2>2. QED
    BY <1>1, <1>7, <2>1 DEF FailTransferReads, obVars, rowVars, callVars
<1>8. ASSUME NEW p \in Conns, FailTransferWrites(p) PROVE TriesInv'
  <2> DEFINE t == failing[p].row
  <2>1. /\ t \in Rows /\ t # 0 /\ tries' = tries
        /\ status' = [status EXCEPT ![t] = IF failing[p].dead THEN "FAILED" ELSE "AUTHORIZED"]
        /\ failing' = [failing EXCEPT ![p] = NotFailing]
    BY <1>0, <1>8 DEF FailTransferWrites, FailWrites, SetStatus
  <2>2. failing[p].dead => tries[t] >= MaxTries[t]
    BY <2>1
  <2> HIDE DEF t
  <2>3. FailedIsExhausted'
    BY <1>0, <2>1, <2>2
  <2>4. VerdictIsDue'
    BY <1>0, <2>1 DEF NotFailing
  <2>5. QED
    BY <2>1, <2>3, <2>4
<1>9. ASSUME NEW p \in Conns, HoldTransferWrites(p) PROVE TriesInv'
  <2>1. CASE Holds(p, holding[p])
    <3>1. holding[p] \in Rows
      BY <1>9 DEF HoldTransferWrites, HoldWrites, BaseInv, BTTypeOK, ObTypeOK
    <3>2. QED
      BY <1>2, <1>9, <2>1, <3>1 DEF HoldTransferWrites, HoldWrites, SetStatus
  <2>2. QED
    BY <1>1, <1>9, <2>1 DEF HoldTransferWrites, HoldWrites
<1>10. ASSUME NEW p \in Conns, Crash(p) PROVE TriesInv'
  BY <1>0, <1>10 DEF Crash, ObDisconnects, rowVars, NotFailing
<1>11. ASSUME NEW p \in Conns, Moves(p) \/ Restart(p) \/ HoldTransferReads(p) PROVE TriesInv'
  BY <1>1, <1>11, MovesDisturbNoTable
  DEF Restart, HoldTransferReads, HoldReads, obVars, rowVars, callVars
<1>12. ASSUME NEW t \in Rows, StageTransfer(t) \/ RecordPreflight(t) PROVE TriesInv'
  BY <1>2, <1>12 DEF StageTransfer, StageRow, RecordPreflight, Preflight, SetStatus, callVars
<1>13. ASSUME NEW t \in Rows, NEW a \in Approvals, AuthorizeTransfer(t, a) PROVE TriesInv'
  BY <1>2, <1>13 DEF AuthorizeTransfer, Authorize, SetStatus, callVars
<1>14. CASE /\ Environment
            /\ ~\E t \in Rows : \/ StageTransfer(t) \/ RecordPreflight(t)
                                 \/ \E a \in Approvals : AuthorizeTransfer(t, a)
  BY <1>1, <1>14
  DEF Environment, RequestTransferReads, RequestReads, RequestTransferWrites, RequestWrites,
      WindowMoves, Lapse, LeaseLapses, Backoff, BackoffEnds, Decides, SwitchKill,
      obVars, rowVars, callVars
<1>15. CASE UNCHANGED btVars
  BY <1>1, <1>15 DEF btVars, obVars, rowVars, callVars
<1>16. QED
  BY <1>4, <1>5, <1>6, <1>7, <1>8, <1>9, <1>10, <1>11, <1>12, <1>13, <1>14, <1>15
  DEF BTNext, TransferStep, Moves

LEMMA TriesInvAtInit == BTInit => TriesInv
BY OutboxAssumption
DEF BTInit, ObInit, TriesInv, TriesBounded, FailedIsExhausted, VerdictIsDue, NotFailing

(* A row is claimed at most max_attempts times, whoever dies on it.        *)
THEOREM TriesAreBounded == BTSpec => []TriesBounded
<1>1. BaseInv /\ TriesInv /\ [BTNext]_btVars => TriesInv'
  BY TriesInvAtStep
<1>2. QED
  BY <1>1, TriesInvAtInit, BaseHolds, PTL DEF BTSpec, TriesInv

(* Only exhausted work becomes FAILED, also by failures written late.      *)
THEOREM FailureIsExhaustion == BTSpec => []FailedIsExhausted
<1>1. BaseInv /\ TriesInv /\ [BTNext]_btVars => TriesInv'
  BY TriesInvAtStep
<1>2. QED
  BY <1>1, TriesInvAtInit, BaseHolds, PTL DEF BTSpec, TriesInv

-----------------------------------------------------------------------------
(* The kill switch: a process that was short of the upload when it went ON *)
(* stays short of it, or gives up, until it is OFF.                        *)
GivingUp == {"fail", "failing", "hold", "holding"}
BrakeInv ==
  \A p \in braked : killSwitch /\ (ShortOfUpload(p) \/ place[p] \in GivingUp)

LEMMA BrakeInvAtStep ==
  ASSUME BaseInv, BrakeInv, [BTNext]_btVars
  PROVE  BrakeInv'
<1> USE DEF BrakeInv, ShortOfUpload, GivingUp, At, Goto
<1>0. /\ place \in [Conns -> Spots] /\ killSwitch \in BOOLEAN /\ braked \subseteq Conns
      /\ \A p \in Conns : looked[p] => place[p] \in Guards
  BY DEF BaseInv, BTTypeOK, ProcessesAreSane
<1>1. ASSUME NEW p \in Conns, NEW s, place' = [place EXCEPT ![p] = s],
             UNCHANGED <<killSwitch, braked>>,
             p \in braked => s \in {"idle", "claim", "validate", "before_encryption",
                                   "encrypt", "before_upload", "down"} \cup GivingUp
      PROVE  BrakeInv'
  BY <1>0, <1>1
<1>2. ASSUME UNCHANGED <<killSwitch, braked, place>> PROVE BrakeInv'
  BY <1>2
<1>3. ASSUME NEW p \in Conns, TransferStep(p) \/ Crash(p) \/ Restart(p) PROVE BrakeInv'
  <2> USE DEF outside
  <2>1. CASE ClaimReadsKillSwitch(p)
    BY <1>1, <2>1 DEF ClaimReadsKillSwitch
  <2>2. CASE ClaimsTransfer(p)
    BY <1>1, <2>2 DEF ClaimsTransfer
  <2>3. CASE FindsNoTransfer(p)
    BY <1>1, <2>3 DEF FindsNoTransfer
  <2>4. CASE ValidatesTransfer(p)
    BY <1>1, <2>4 DEF ValidatesTransfer
  <2>5. CASE GuardReadsRow(p)
    BY <1>1, <1>2, <2>5 DEF GuardReadsRow, Refused
  <2>6. CASE GuardReadsKillSwitch(p)
    BY <1>0, <1>1, <2>6 DEF GuardReadsKillSwitch, Refused
  <2>7. CASE Encrypts(p)
    BY <1>1, <2>7 DEF Encrypts
  <2>8. CASE FailsBeforeUpload(p)
    BY <1>1, <2>8 DEF FailsBeforeUpload
  <2>9. CASE Uploads(p)
    BY <1>1, <2>9 DEF Uploads
  <2>10. CASE BuildsReceipt(p) \/ CompleteReadsKillSwitch(p) \/ CompletesTransfer(p)
    <3>1. p \notin braked
      BY <2>10 DEF BuildsReceipt, CompleteReadsKillSwitch, CompletesTransfer
    <3>2. QED
      BY <1>1, <2>10, <3>1 DEF BuildsReceipt, CompleteReadsKillSwitch, CompletesTransfer
  <2>11. CASE FailTransferReads(p) \/ FailTransferWrites(p)
    BY <1>1, <2>11 DEF FailTransferReads, FailTransferWrites
  <2>12. CASE HoldTransferReads(p) \/ HoldTransferWrites(p)
    BY <1>1, <2>12 DEF HoldTransferReads, HoldTransferWrites
  <2>13. CASE Crash(p) \/ Restart(p)
    BY <1>1, <2>13 DEF Crash, Restart
  <2>14. QED
    BY <1>3, <2>1, <2>2, <2>3, <2>4, <2>5, <2>6, <2>7, <2>8, <2>9, <2>10, <2>11, <2>12, <2>13
    DEF TransferStep
<1>4. ASSUME NEW on \in BOOLEAN, SwitchKill(on) PROVE BrakeInv'
  <2>1. place' = place /\ killSwitch' = on
    BY <1>4 DEF SwitchKill, KillSwitchSet, procVars
  <2>2. CASE on = TRUE
    BY <1>0, <1>4, <2>1, <2>2 DEF SwitchKill
  <2>3. CASE on = FALSE
    BY <1>4, <2>3 DEF SwitchKill
  <2>4. QED
    BY <2>2, <2>3
<1>5. CASE Environment /\ ~\E on \in BOOLEAN : SwitchKill(on)
  BY <1>2, <1>5
  DEF Environment, StageTransfer, RecordPreflight, RequestTransferReads, RequestTransferWrites,
      AuthorizeTransfer, WindowMoves, Lapse, Backoff, Decides, procVars, outside
<1>6. CASE UNCHANGED btVars
  BY <1>2, <1>6 DEF btVars, procVars
<1>7. QED
  BY <1>3, <1>4, <1>5, <1>6 DEF BTNext

(* No process starts an upload while the switch it should have seen is ON. *)
THEOREM NoUploadUnderKillSwitch == BTSpec => []KillSwitchStopsUploads
<1>1. BTInit => BrakeInv
  BY DEF BTInit, BrakeInv
<1>2. BaseInv /\ BrakeInv /\ [BTNext]_btVars => BrakeInv'
  BY BrakeInvAtStep
<1>3. BrakeInv => KillSwitchStopsUploads
  BY DEF BrakeInv, KillSwitchStopsUploads, ShortOfUpload, GivingUp
<1>4. QED
  BY <1>1, <1>2, <1>3, BaseHolds, PTL DEF BTSpec

-----------------------------------------------------------------------------
(* The bytes: nothing ever replaces an object, so what a process has just  *)
(* stored is still there when it writes its receipt, and ever after.       *)
PastUpload == {"after_upload", "receipt", "complete", "completing"}
StoredIsMine ==
  \A p \in Conns : place[p] \in PastUpload =>
    bucket[KeyOf[task[p]]] = <<task[p], version[p]>>

ObjectInv == StoredIsMine /\ ReceiptAttestsObject

(* An object, once stored, stays as it is.                                 *)
LEMMA ObjectsAreKept ==
  ASSUME BaseInv, [BTNext]_btVars
  PROVE  \A k \in Keys : bucket[k] # Nothing => bucket'[k] = bucket[k]
<1>1. CASE bucket' = bucket
  BY <1>1
<1>2. ASSUME NEW p \in Conns, Uploads(p)
      PROVE  \A k \in Keys : bucket[k] # Nothing => bucket'[k] = bucket[k]
  BY <1>2 DEF Uploads, PutObject, BaseInv, BTTypeOK
<1>3. ASSUME NEW p \in Conns, TransferStep(p) \/ Crash(p) \/ Restart(p), ~Uploads(p)
      PROVE  bucket' = bucket
  BY <1>3
  DEF TransferStep, ClaimReadsKillSwitch, ClaimsTransfer, FindsNoTransfer, ValidatesTransfer,
      GuardReadsRow, GuardReadsKillSwitch, Encrypts, FailsBeforeUpload, BuildsReceipt,
      CompleteReadsKillSwitch, CompletesTransfer, FailTransferReads, FailTransferWrites,
      HoldTransferReads, HoldTransferWrites, Crash, Restart, outside
<1>4. CASE Environment \/ UNCHANGED btVars
  BY <1>1, <1>4
  DEF Environment, StageTransfer, RecordPreflight, RequestTransferReads, RequestTransferWrites,
      AuthorizeTransfer, WindowMoves, Lapse, Backoff, Decides, SwitchKill, outside, btVars
<1>5. QED
  BY <1>1, <1>2, <1>3, <1>4 DEF BTNext

LEMMA EntersPastUpload ==
  ASSUME BaseInv, [BTNext]_btVars, NEW q \in Conns, place'[q] \in PastUpload
  PROVE  \/ place[q] \in PastUpload /\ task'[q] = task[q] /\ version'[q] = version[q]
         \/ Uploads(q)
<1> DEFINE Goal == \/ place[q] \in PastUpload /\ task'[q] = task[q] /\ version'[q] = version[q]
                   \/ Uploads(q)
<1> USE DEF PastUpload, At, Goto
<1>0. /\ place \in [Conns -> Spots] /\ task \in [Conns -> Rows \cup {0}]
      /\ version \in [Conns -> Nat] /\ \A p \in Conns : looked[p] => place[p] \in Guards
  BY DEF BaseInv, BTTypeOK, ProcessesAreSane
<1>1. ASSUME place'[q] = place[q], task'[q] = task[q], version'[q] = version[q] PROVE Goal
  BY <1>1
<1>2. ASSUME NEW p \in Conns, p # q, TransferStep(p) \/ Crash(p) \/ Restart(p) PROVE Goal
  <2>1. place'[q] = place[q] /\ task'[q] = task[q] /\ version'[q] = version[q]
    BY <1>0, <1>2
    DEF TransferStep, ClaimReadsKillSwitch, ClaimsTransfer, FindsNoTransfer, ValidatesTransfer,
        GuardReadsRow, GuardReadsKillSwitch, Encrypts, FailsBeforeUpload, Uploads, BuildsReceipt,
        CompleteReadsKillSwitch, CompletesTransfer, FailTransferReads, FailTransferWrites,
        HoldTransferReads, HoldTransferWrites, Crash, Restart
  <2>2. QED
    BY <1>1, <2>1
<1>3. ASSUME TransferStep(q) \/ Crash(q) \/ Restart(q) PROVE Goal
  <2>1. CASE GuardReadsRow(q)
    BY <1>0, <2>1 DEF GuardReadsRow, Refused
  <2>2. CASE GuardReadsKillSwitch(q)
    BY <1>0, <2>2 DEF GuardReadsKillSwitch, Refused, AfterGuard, Guards
  <2>3. CASE Uploads(q)
    BY <2>3
  <2>4. CASE BuildsReceipt(q) \/ CompleteReadsKillSwitch(q)
    BY <1>0, <2>4 DEF BuildsReceipt, CompleteReadsKillSwitch
  <2>5. CASE ~(GuardReadsRow(q) \/ GuardReadsKillSwitch(q) \/ Uploads(q) \/ BuildsReceipt(q)
               \/ CompleteReadsKillSwitch(q))
    <3>1. place'[q] \notin PastUpload
      BY <1>0, <1>3, <2>5
      DEF TransferStep, ClaimReadsKillSwitch, ClaimsTransfer, FindsNoTransfer,
          ValidatesTransfer, Encrypts, FailsBeforeUpload, CompletesTransfer,
          FailTransferReads, FailTransferWrites, HoldTransferReads, HoldTransferWrites,
          Crash, Restart
    <3>2. QED
      BY <3>1
  <2>6. QED
    BY <2>1, <2>2, <2>3, <2>4, <2>5
<1>4. ASSUME Environment \/ UNCHANGED btVars PROVE Goal
  BY <1>1, <1>4
  DEF Environment, StageTransfer, RecordPreflight, RequestTransferReads, RequestTransferWrites,
      AuthorizeTransfer, WindowMoves, Lapse, Backoff, Decides, SwitchKill, procVars, btVars
<1>5. QED
  BY <1>2, <1>3, <1>4 DEF BTNext

(* A transfer becomes COMPLETED by a process past the upload.              *)
LEMMA EntersCompleted ==
  ASSUME BaseInv, [BTNext]_btVars, NEW t \in Rows, status'[t] = "COMPLETED"
  PROVE  \/ status[t] = "COMPLETED" /\ receipt'[t] = receipt[t]
         \/ \E p \in Conns : /\ At(p, "completing") /\ task[p] = t
                             /\ receipt'[t] = version[p] /\ bucket' = bucket
<1> DEFINE Goal == \/ status[t] = "COMPLETED" /\ receipt'[t] = receipt[t]
                   \/ \E p \in Conns : /\ At(p, "completing") /\ task[p] = t
                                       /\ receipt'[t] = version[p] /\ bucket' = bucket
<1> USE DEF outside, SetStatus
<1>0. /\ status \in [Rows -> RowStatuses] /\ receipt \in [Rows -> Nat]
  BY DEF BaseInv, BTTypeOK, ObTypeOK
<1>1. ASSUME status' = status, receipt' = receipt PROVE Goal
  BY <1>1
<1>2. ASSUME NEW p \in Conns, ClaimsTransfer(p) \/ FindsNoTransfer(p) PROVE Goal
  BY <1>2 DEF ClaimsTransfer, FindsNoTransfer, Lease
<1>3. ASSUME NEW p \in Conns, CompletesTransfer(p) PROVE Goal
  <2>1. CASE Complete(p, task[p], "COMPLETED") /\ receipt' = [receipt EXCEPT ![task[p]] = version[p]]
    <3>1. task[p] \in Rows /\ At(p, "completing") /\ bucket' = bucket
      BY <1>3 DEF BaseInv, ProcessesAreSane, Busy, CompletesTransfer, At
    <3>2. CASE t = task[p]
      BY <1>0, <2>1, <3>1, <3>2
    <3>3. CASE t # task[p]
      BY <1>0, <2>1, <3>3 DEF Complete
    <3>4. QED
      BY <3>2, <3>3
  <2>2. QED
    BY <1>1, <1>3, <2>1 DEF CompletesTransfer, obVars, rowVars
<1>4. ASSUME NEW p \in Conns, FailTransferWrites(p) \/ HoldTransferWrites(p) PROVE Goal
  BY <1>0, <1>4 DEF FailTransferWrites, FailWrites, HoldTransferWrites, HoldWrites
<1>5. ASSUME NEW p \in Conns,
             \/ Moves(p) \/ FailTransferReads(p) \/ HoldTransferReads(p) \/ Crash(p) \/ Restart(p)
      PROVE Goal
  BY <1>1, <1>5, MovesDisturbNoTable
  DEF FailTransferReads, FailReads, HoldTransferReads, HoldReads, Crash, ObDisconnects,
      Restart, obVars, rowVars
<1>6. ASSUME NEW u \in Rows, StageTransfer(u) \/ RecordPreflight(u) PROVE Goal
  BY <1>0, <1>6 DEF StageTransfer, StageRow, RecordPreflight, Preflight
<1>7. ASSUME NEW u \in Rows, NEW a \in Approvals, AuthorizeTransfer(u, a) PROVE Goal
  BY <1>0, <1>7 DEF AuthorizeTransfer, Authorize
<1>8. ASSUME \/ UNCHANGED btVars
             \/ /\ Environment
                /\ ~\E u \in Rows : \/ StageTransfer(u) \/ RecordPreflight(u)
                                     \/ \E a \in Approvals : AuthorizeTransfer(u, a)
      PROVE Goal
  BY <1>1, <1>8
  DEF Environment, RequestTransferReads, RequestReads, RequestTransferWrites, RequestWrites,
      WindowMoves, Lapse, LeaseLapses, Backoff, BackoffEnds, Decides, SwitchKill, btVars,
      obVars, rowVars
<1>9. QED
  BY <1>2, <1>3, <1>4, <1>5, <1>6, <1>7, <1>8 DEF BTNext, TransferStep, Moves

LEMMA ObjectInvAtStep ==
  ASSUME BaseInv, ObjectInv, [BTNext]_btVars
  PROVE  ObjectInv'
<1>0. Rows \subseteq Nat \ {0} /\ KeyOf \in [Rows -> Keys]
  BY OutboxAssumption, KeyAssumption
<1>1. ASSUME NEW k \in Keys, NEW t \in Rows, NEW v, bucket[k] = <<t, v>>
      PROVE  bucket'[k] = <<t, v>>
  <2>1. bucket[k] # Nothing
    BY <1>0, <1>1 DEF Nothing
  <2>2. QED
    BY <1>1, <2>1, ObjectsAreKept
<1>2. ASSUME NEW q \in Conns, place'[q] \in PastUpload
      PROVE  bucket'[KeyOf[task'[q]]] = <<task'[q], version'[q]>>
  <2>1. CASE place[q] \in PastUpload /\ task'[q] = task[q] /\ version'[q] = version[q]
    <3>1. task[q] \in Rows
      BY <2>1 DEF BaseInv, ProcessesAreSane, Busy, PastUpload
    <3>2. bucket[KeyOf[task[q]]] = <<task[q], version[q]>>
      BY <2>1 DEF ObjectInv, StoredIsMine
    <3>3. bucket'[KeyOf[task[q]]] = <<task[q], version[q]>>
      <4>1. KeyOf[task[q]] \in Keys
        BY <1>0, <3>1
      <4>2. QED
        BY <1>1, <3>1, <3>2, <4>1, Zenon
    <3>4. QED
      BY <2>1, <3>3
  <2>2. CASE Uploads(q)
    <3>1. task[q] \in Rows /\ task' = task /\ version' = version
      BY <2>2 DEF Uploads, BaseInv, ProcessesAreSane, Busy, At
    <3>2. ~Goto(q, "hold")
      BY <1>2 DEF PastUpload, Goto, BaseInv, BTTypeOK
    <3>3. bucket' = [bucket EXCEPT ![KeyOf[task[q]]] = <<task[q], version[q]>>]
      BY <2>2, <3>2 DEF Uploads, PutObject
    <3>4. QED
      BY <1>0, <3>1, <3>3 DEF BaseInv, BTTypeOK
  <2>3. QED
    BY <1>2, <2>1, <2>2, EntersPastUpload
<1>3. ASSUME NEW t \in Rows, status'[t] = "COMPLETED"
      PROVE  bucket'[KeyOf[t]] = <<t, receipt'[t]>>
  <2>1. CASE status[t] = "COMPLETED" /\ receipt'[t] = receipt[t]
    BY <1>0, <1>1, <2>1 DEF ObjectInv, ReceiptAttestsObject
  <2>2. ASSUME NEW p \in Conns, At(p, "completing"), task[p] = t, receipt'[t] = version[p],
               bucket' = bucket
        PROVE  bucket'[KeyOf[t]] = <<t, receipt'[t]>>
    BY <2>2 DEF ObjectInv, StoredIsMine, PastUpload, At
  <2>3. QED
    BY <1>3, <2>1, <2>2, EntersCompleted
<1>4. QED
  BY <1>2, <1>3 DEF ObjectInv, StoredIsMine, ReceiptAttestsObject

(* A receipt attests the bytes that lie under the plan's key, however many *)
(* workers, attempts and plans with the same key there were.               *)
THEOREM ReceiptsAreTrue == BTSpec => []ReceiptAttestsObject
<1>1. BTInit => ObjectInv
  BY DEF BTInit, ObInit, ObjectInv, StoredIsMine, PastUpload, ReceiptAttestsObject
<1>2. BaseInv /\ ObjectInv /\ [BTNext]_btVars => ObjectInv'
  BY ObjectInvAtStep
<1>3. QED
  BY <1>1, <1>2, BaseHolds, PTL DEF BTSpec, ObjectInv

-----------------------------------------------------------------------------
(* Approvals: a plan is bound to one of its own, which was consumed once,  *)
(* and nothing else consumes.                                              *)
UseInv ==
  /\ \A t \in Rows : boundTo[t] # NoApproval => RowOf[boundTo[t]] = t
  /\ \A a \in Approvals : uses[a] = IF boundTo[RowOf[a]] = a THEN 1 ELSE 0

LEMMA OnlyAuthorizeBinds ==
  ASSUME BaseInv, [BTNext]_btVars,
         ~\E t \in Rows, a \in Approvals : AuthorizeTransfer(t, a)
  PROVE  UNCHANGED <<boundTo, uses>>
<1>1. ASSUME NEW p \in Conns, TransferStep(p) \/ Crash(p) \/ Restart(p)
      PROVE  UNCHANGED <<boundTo, uses>>
  <2>1. CASE Moves(p)
    BY <2>1, MovesDisturbNoTable DEF obVars, rowVars, apVars
  <2>2. CASE ~Moves(p)
    BY <1>1, <2>2
    DEF TransferStep, Moves, ClaimsTransfer, FindsNoTransfer, Lease, CompletesTransfer, Complete,
        FailTransferReads, FailReads, FailTransferWrites, FailWrites, HoldTransferReads,
        HoldReads, HoldTransferWrites, HoldWrites, Crash, ObDisconnects, Restart, obVars,
        rowVars, apVars
  <2>3. QED
    BY <2>1, <2>2
<1>2. CASE Decides
  BY <1>2
  DEF Decides, CreateApproval, DecideReads, DecideWrites, ApTime, ApprovalExpires, obVars, rowVars
<1>3. CASE Environment /\ ~Decides
  BY <1>3
  DEF Environment, StageTransfer, StageRow, RecordPreflight, Preflight, RequestTransferReads,
      RequestReads, RequestTransferWrites, RequestWrites, RequestApproval, WindowMoves, Lapse,
      LeaseLapses, Backoff, BackoffEnds, SwitchKill, obVars, rowVars, apVars
<1>4. CASE UNCHANGED btVars
  BY <1>4 DEF btVars, obVars, rowVars, apVars
<1>5. QED
  BY <1>1, <1>2, <1>3, <1>4 DEF BTNext

LEMMA UseInvAtStep ==
  ASSUME BaseInv, UseInv, [BTNext]_btVars
  PROVE  UseInv'
<1>0. /\ RowOf \in [Approvals -> Rows] /\ NoApproval \notin Approvals
      /\ boundTo \in [Rows -> Approvals \cup {NoApproval}] /\ uses \in [Approvals -> Nat]
  BY OutboxAssumption, ApprovalsAssumption DEF BaseInv, BTTypeOK, ObTypeOK, ApTypeOK
<1>1. CASE UNCHANGED <<boundTo, uses>>
  BY <1>1 DEF UseInv
<1>2. ASSUME NEW t \in Rows, NEW a \in Approvals, AuthorizeTransfer(t, a) PROVE UseInv'
  <2>1. /\ RowOf[a] = t /\ boundTo' = [boundTo EXCEPT ![t] = a]
        /\ uses' = [uses EXCEPT ![a] = @ + 1] /\ status[t] = "PREFLIGHT_VALIDATED"
    BY <1>2 DEF AuthorizeTransfer, Authorize, ConsumeExactly
  <2>2. boundTo[t] = NoApproval
    BY <2>1 DEF BaseInv, BoundOnceGranted, Terminal, Finished
  <2>3. \A u \in Rows : boundTo'[u] # NoApproval => RowOf[boundTo'[u]] = u
    BY <1>0, <2>1 DEF UseInv
  <2>4. ASSUME NEW b \in Approvals PROVE uses'[b] = IF boundTo'[RowOf[b]] = b THEN 1 ELSE 0
    <3>1. CASE b = a
      BY <1>0, <2>1, <2>2, <3>1 DEF UseInv
    <3>2. CASE b # a
      BY <1>0, <2>1, <2>2, <3>2 DEF UseInv
    <3>3. QED
      BY <3>1, <3>2
  <2>5. QED
    BY <2>3, <2>4 DEF UseInv
<1>3. QED
  BY <1>1, <1>2, OnlyAuthorizeBinds

(* An approval is consumed as often as it authorises a plan: once, for the *)
(* plan it names, or never.                                                *)
THEOREM SpentExactly == BTSpec => []ApprovalsAreSpentExactly
<1>1. BTInit => UseInv
  BY OutboxAssumption, ApprovalsAssumption DEF BTInit, ObInit, ApInit, UseInv
<1>2. BaseInv /\ UseInv /\ [BTNext]_btVars => UseInv'
  BY UseInvAtStep
<1>3. BaseInv /\ UseInv => ApprovalsAreSpentExactly
  <2> SUFFICES ASSUME BaseInv, UseInv, NEW a \in Approvals
               PROVE  /\ uses[a] = Cardinality({t \in Rows : boundTo[t] = a})
                      /\ \A t \in Rows : boundTo[t] = a => RowOf[a] = t
    BY DEF ApprovalsAreSpentExactly
  <2>1. a # NoApproval /\ RowOf[a] \in Rows
    BY OutboxAssumption, ApprovalsAssumption
  <2>2. \A t \in Rows : boundTo[t] = a => RowOf[a] = t
    BY <2>1 DEF UseInv
  <2>3. CASE boundTo[RowOf[a]] = a
    <3>1. {t \in Rows : boundTo[t] = a} = {RowOf[a]}
      BY <2>1, <2>2, <2>3
    <3>2. QED
      BY <2>2, <2>3, <3>1, FS_Singleton DEF UseInv
  <2>4. CASE boundTo[RowOf[a]] # a
    <3>1. {t \in Rows : boundTo[t] = a} = {}
      BY <2>2, <2>4
    <3>2. QED
      BY <2>2, <2>4, <3>1, FS_EmptySet DEF UseInv
  <2>5. QED
    BY <2>3, <2>4
<1>4. QED
  BY <1>1, <1>2, <1>3, BaseHolds, PTL DEF BTSpec

-----------------------------------------------------------------------------
(* While no process dies and no lease lapses under a live one, any number  *)
(* of processes: a busy process still holds its plan, on a live lease, so  *)
(* nobody else claims, fails or settles it; and a plan whose request was   *)
(* sent is settled, or in the hands of the process that sent it.           *)
Sent == PastUpload \cup {"hold", "holding"}
Settled == {"COMPLETED", "RECONCILIATION_REQUIRED"}

LeasesAreKept ==
  faults = 0 => \A p \in Conns : Busy(p) => Holds(p, task[p]) /\ ~lapsed[task[p]]

SentIsSettledOrInHand ==
  faults = 0 =>
    \A t \in Rows :
      \/ puts[t] = 0
      \/ /\ puts[t] = 1
         /\ status[t] \in Settled \/ \E p \in Conns : place[p] \in Sent /\ task[p] = t

StoredWasSent ==
  \A t \in Rows : bucket[KeyOf[t]] # Nothing /\ bucket[KeyOf[t]][1] = t => puts[t] # 0

WriteInv == LeasesAreKept /\ SentIsSettledOrInHand /\ StoredWasSent

LEMMA FaultsAreCounted ==
  ASSUME BaseInv, [BTNext]_btVars, faults' = 0
  PROVE  faults = 0 /\ \A p \in Conns : ~Crash(p)
<1>1. faults \in Nat
  BY DEF BaseInv, BTTypeOK
<1>2. CASE faults' = faults
  BY <1>1, <1>2 DEF Crash
<1>3. CASE faults' = faults + 1
  BY <1>1, <1>3
<1>4. ASSUME NEW p \in Conns, TransferStep(p) \/ Restart(p) PROVE faults' = faults
  BY <1>4
  DEF TransferStep, ClaimReadsKillSwitch, ClaimsTransfer, FindsNoTransfer, ValidatesTransfer,
      GuardReadsRow, GuardReadsKillSwitch, Encrypts, FailsBeforeUpload, Uploads, BuildsReceipt,
      CompleteReadsKillSwitch, CompletesTransfer, FailTransferReads, FailTransferWrites,
      HoldTransferReads, HoldTransferWrites, Restart, outside
<1>5. ASSUME NEW t \in Rows, Lapse(t) PROVE faults' = faults \/ faults' = faults + 1
  BY <1>5 DEF Lapse
<1>6. CASE (Environment /\ ~\E t \in Rows : Lapse(t)) \/ UNCHANGED btVars
  BY <1>2, <1>6
  DEF Environment, StageTransfer, RecordPreflight, RequestTransferReads, RequestTransferWrites,
      AuthorizeTransfer, WindowMoves, Backoff, Decides, SwitchKill, btVars, outside
<1>7. ASSUME NEW p \in Conns, Crash(p) PROVE faults' = faults + 1
  BY <1>7 DEF Crash
<1>8. QED
  BY <1>2, <1>3, <1>4, <1>5, <1>6, <1>7 DEF BTNext, Environment

(* What another process or the world does leaves a busy process and the    *)
(* plan it holds as they are.                                              *)
LEMMA HeldPlanIsLeft ==
  ASSUME BaseInv, LeasesAreKept, [BTNext]_btVars, faults' = 0,
         NEW q \in Conns, Busy(q), ~TransferStep(q), NEW u, u = task[q]
  PROVE  /\ status'[u] = status[u] /\ lessee'[u] = lessee[u] /\ lapsed'[u] = lapsed[u]
         /\ place'[q] = place[q] /\ task'[q] = u
<1> DEFINE Row  == status'[u] = status[u] /\ lessee'[u] = lessee[u] /\ lapsed'[u] = lapsed[u]
           Mine == place'[q] = place[q] /\ task'[q] = u
           Goal == Row /\ Mine
<1> USE DEF At, Goto, SetStatus, ReleaseRow, rowVars, obVars, callVars
<1>0. /\ place \in [Conns -> Spots] /\ task \in [Conns -> Rows \cup {0}]
      /\ status \in [Rows -> RowStatuses] /\ lessee \in [Rows -> Conns \cup {NoOne}]
      /\ lapsed \in [Rows -> BOOLEAN] /\ NoOne \notin Conns
  BY OutboxAssumption DEF BaseInv, BTTypeOK, ObTypeOK
<1>a. faults = 0 /\ \A p \in Conns : ~Crash(p)
  BY FaultsAreCounted
<1>b. \A p \in Conns : Busy(p) => task[p] \in Rows /\ Holds(p, task[p]) /\ ~lapsed[task[p]]
  BY <1>a DEF LeasesAreKept, BaseInv, ProcessesAreSane
<1>c. u \in Rows /\ status[u] = "AUTHORIZED" /\ lessee[u] = q /\ ~lapsed[u]
  BY <1>b DEF Holds
<1>d. \A p \in Conns : p # q /\ Busy(p) => task[p] # u
  BY <1>b, <1>c DEF Holds
<1>1. ASSUME UNCHANGED <<status, lessee, lapsed, place, task>> PROVE Goal
  BY <1>1
<1>2. ASSUME NEW p \in Conns, p # q, TransferStep(p) PROVE Goal
  <2>1. Mine
    BY <1>0, <1>2
    DEF TransferStep, ClaimReadsKillSwitch, ClaimsTransfer, FindsNoTransfer, ValidatesTransfer,
        GuardReadsRow, GuardReadsKillSwitch, Encrypts, FailsBeforeUpload, Uploads, BuildsReceipt,
        CompleteReadsKillSwitch, CompletesTransfer, FailTransferReads, FailTransferWrites,
        HoldTransferReads, HoldTransferWrites
  <2>2. CASE Moves(p)
    BY <2>1, <2>2, MovesDisturbNoTable
  <2>3. CASE ClaimsTransfer(p) \/ FindsNoTransfer(p)
    <3>1. PICK t : /\ Lease(p, t, Expired)
                   /\ t \in Rows => Claimable(t)
      BY <2>3, OutboxAssumption DEF ClaimsTransfer, FindsNoTransfer
    <3>2. u # t /\ u \notin Expired
      BY <1>0, <1>c, <3>1 DEF Claimable, Unleased, Expired
    <3>3. Row
      BY <1>0, <1>c, <3>1, <3>2 DEF Lease
    <3>4. QED
      BY <2>1, <3>3
  <2>4. CASE CompletesTransfer(p)
    <3>1. task[p] # u
      BY <1>2, <1>d, <2>4 DEF CompletesTransfer, Busy
    <3>2. Row
      BY <1>0, <1>c, <2>4, <3>1 DEF CompletesTransfer, Complete
    <3>3. QED
      BY <2>1, <3>2
  <2>5. CASE FailTransferWrites(p)
    <3>1. failing[p].row = task[p] /\ task[p] # u
      BY <1>2, <1>d, <2>5 DEF FailTransferWrites, Busy, BaseInv, ProcessesAreSane
    <3>2. /\ \E s \in {"FAILED", "AUTHORIZED"} : status' = [status EXCEPT ![task[p]] = s]
          /\ lessee' = [lessee EXCEPT ![task[p]] = NoOne]
          /\ lapsed' = [lapsed EXCEPT ![task[p]] = FALSE]
      BY <2>5, <3>1 DEF FailTransferWrites, FailWrites
    <3>3. Row
      BY <1>0, <1>c, <3>1, <3>2
    <3>4. QED
      BY <2>1, <3>3
  <2>6. CASE HoldTransferWrites(p)
    <3>1. holding[p] = task[p] /\ task[p] # u
      BY <1>2, <1>d, <2>6 DEF HoldTransferWrites, Busy, BaseInv, ProcessesAreSane
    <3>2. Row
      BY <1>0, <1>c, <2>6, <3>1 DEF HoldTransferWrites, HoldWrites
    <3>3. QED
      BY <2>1, <3>2
  <2>7. CASE FailTransferReads(p) \/ HoldTransferReads(p)
    BY <2>1, <2>7 DEF FailTransferReads, FailReads, HoldTransferReads, HoldReads
  <2>8. QED
    BY <1>2, <2>2, <2>3, <2>4, <2>5, <2>6, <2>7 DEF TransferStep, Moves
<1>3. ASSUME NEW p \in Conns, Restart(p) PROVE Goal
  <2>1. p # q
    BY <1>3 DEF Restart, Busy
  <2>2. QED
    BY <1>0, <1>3, <2>1 DEF Restart
<1>4. ASSUME NEW t \in Rows, StageTransfer(t) \/ RecordPreflight(t) PROVE Goal
  BY <1>0, <1>4, <1>c DEF StageTransfer, StageRow, RecordPreflight, Preflight, procVars
<1>5. ASSUME NEW t \in Rows, NEW a \in Approvals, AuthorizeTransfer(t, a) PROVE Goal
  BY <1>0, <1>5, <1>c DEF AuthorizeTransfer, Authorize, procVars
<1>6. ASSUME NEW t \in Rows, Lapse(t) PROVE Goal
  <2>1. t # u
    BY <1>6, <1>a DEF Lapse, WorkingOn, Busy
  <2>2. QED
    BY <1>0, <1>c, <1>6, <2>1 DEF Lapse, LeaseLapses, procVars
<1>7. ASSUME \/ UNCHANGED btVars
             \/ /\ Environment
                /\ ~\E t \in Rows : \/ StageTransfer(t) \/ RecordPreflight(t) \/ Lapse(t)
                                     \/ \E a \in Approvals : AuthorizeTransfer(t, a)
      PROVE Goal
  BY <1>1, <1>7
  DEF Environment, RequestTransferReads, RequestReads, RequestTransferWrites, RequestWrites,
      WindowMoves, Backoff, BackoffEnds, Decides, SwitchKill, procVars, btVars
<1>8. Goal
  BY <1>2, <1>3, <1>4, <1>5, <1>6, <1>7, <1>a DEF BTNext
<1>9. QED
  BY <1>8

LEMMA LeasesAreKeptAtStep ==
  ASSUME BaseInv, LeasesAreKept, [BTNext]_btVars
  PROVE  LeasesAreKept'
<1> SUFFICES ASSUME faults' = 0, NEW q \in Conns, Busy(q)'
             PROVE  (Holds(q, task[q]) /\ ~lapsed[task[q]])'
  BY DEF LeasesAreKept
<1> DEFINE Goal == (Holds(q, task[q]) /\ ~lapsed[task[q]])'
<1> USE DEF At, Goto, rowVars, obVars, callVars
<1>0. /\ place \in [Conns -> Spots] /\ task \in [Conns -> Rows \cup {0}]
      /\ status \in [Rows -> RowStatuses] /\ lessee \in [Rows -> Conns \cup {NoOne}]
      /\ lapsed \in [Rows -> BOOLEAN]
  BY DEF BaseInv, BTTypeOK, ObTypeOK
<1>a. faults = 0 /\ \A p \in Conns : ~Crash(p)
  BY FaultsAreCounted
<1>b. Busy(q) => Holds(q, task[q]) /\ ~lapsed[task[q]]
  BY <1>a DEF LeasesAreKept
<1>1. ASSUME Busy(q), ~TransferStep(q) PROVE Goal
  <2>1. PICK u : u = task[q]
    OBVIOUS
  <2>2. /\ status'[u] = status[u] /\ lessee'[u] = lessee[u] /\ lapsed'[u] = lapsed[u]
        /\ task'[q] = u
    BY <1>1, <2>1, HeldPlanIsLeft
  <2>3. QED
    BY <1>1, <1>b, <2>1, <2>2 DEF Holds
<1>2. ASSUME ~Busy(q), ~TransferStep(q) PROVE FALSE
  <2>1. ASSUME NEW p \in Conns, p # q, TransferStep(p) PROVE place'[q] = place[q]
    BY <1>0, <2>1
    DEF TransferStep, ClaimReadsKillSwitch, ClaimsTransfer, FindsNoTransfer, ValidatesTransfer,
        GuardReadsRow, GuardReadsKillSwitch, Encrypts, FailsBeforeUpload, Uploads, BuildsReceipt,
        CompleteReadsKillSwitch, CompletesTransfer, FailTransferReads, FailTransferWrites,
        HoldTransferReads, HoldTransferWrites
  <2>2. ASSUME NEW p \in Conns, Restart(p) PROVE place'[q] \in {place[q], "idle"}
    BY <1>0, <2>2 DEF Restart
  <2>3. ASSUME Environment \/ UNCHANGED btVars PROVE place'[q] = place[q]
    BY <2>3
    DEF Environment, StageTransfer, RecordPreflight, RequestTransferReads,
        RequestTransferWrites, AuthorizeTransfer, WindowMoves, Lapse, Backoff, Decides,
        SwitchKill, procVars, btVars
  <2>4. QED
    BY <1>2, <1>a, <2>1, <2>2, <2>3 DEF BTNext, Busy
<1>3. CASE ClaimsTransfer(q)
  <2>1. PICK t \in Rows : /\ Claimable(t) /\ Lease(q, t, Expired)
                          /\ task' = [task EXCEPT ![q] = t]
    BY <1>3 DEF ClaimsTransfer
  <2>2. status'[t] = "AUTHORIZED" /\ lessee'[t] = q /\ ~lapsed'[t] /\ task'[q] = t
    BY <1>0, <2>1 DEF Lease, Claimable, Unleased, Expired
  <2>3. QED
    BY <2>2 DEF Holds
<1>4. CASE Moves(q)
  <2>1. UNCHANGED <<status, lessee, lapsed, task>>
    BY <1>4, MovesDisturbNoTable
  <2>2. Busy(q)
    <3>1. PICK s \in Spots \ {"failing", "holding"} :
            place' = [place EXCEPT ![q] = s] /\ (s \notin {"idle", "claim", "down"} => Busy(q))
      BY <1>4, MovesDisturbNoTable
    <3>2. QED
      BY <1>0, <3>1 DEF Busy
  <2>3. QED
    BY <1>b, <2>1, <2>2 DEF Holds
<1>5. CASE FindsNoTransfer(q) \/ FailTransferWrites(q) \/ HoldTransferWrites(q)
  BY <1>0, <1>5 DEF FindsNoTransfer, FailTransferWrites, HoldTransferWrites, Busy
<1>6. CASE CompletesTransfer(q)
  <2>1. Busy(q)
    BY <1>6 DEF CompletesTransfer, Busy
  <2>2. place'[q] = "idle"
    BY <1>0, <1>6, <1>b, <2>1 DEF CompletesTransfer
  <2>3. QED
    BY <2>2 DEF Busy
<1>7. CASE FailTransferReads(q) \/ HoldTransferReads(q)
  <2>1. Busy(q) /\ UNCHANGED <<status, lessee, lapsed, task>>
    BY <1>7 DEF FailTransferReads, FailReads, HoldTransferReads, HoldReads, Busy
  <2>2. QED
    BY <1>b, <2>1 DEF Holds
<1>8. QED
  BY <1>1, <1>2, <1>3, <1>4, <1>5, <1>6, <1>7 DEF TransferStep, Moves

(* How a process that sent its request goes on: still in hand, or settled. *)
LEMMA SentGoesOn ==
  ASSUME BaseInv, LeasesAreKept, [BTNext]_btVars, faults' = 0,
         NEW q \in Conns, place[q] \in Sent, NEW u, u = task[q]
  PROVE  (place'[q] \in Sent /\ task'[q] = u) \/ status'[u] \in Settled
<1> DEFINE Goal == (place'[q] \in Sent /\ task'[q] = u) \/ status'[u] \in Settled
<1> USE DEF At, Goto, Sent, PastUpload
<1>0. /\ place \in [Conns -> Spots] /\ task \in [Conns -> Rows \cup {0}]
      /\ status \in [Rows -> RowStatuses] /\ looked \in [Conns -> BOOLEAN]
  BY DEF BaseInv, BTTypeOK, ObTypeOK
<1>a. faults = 0 /\ Busy(q)
  BY FaultsAreCounted DEF Busy
<1>b. u \in Rows /\ Holds(q, u) /\ ~lapsed[u] /\ (At(q, "holding") => holding[q] = u)
  BY <1>a DEF LeasesAreKept, BaseInv, ProcessesAreSane
<1>1. CASE ~TransferStep(q)
  BY <1>1, <1>a, HeldPlanIsLeft
<1>2. CASE GuardReadsRow(q)
  BY <1>0, <1>2 DEF GuardReadsRow, Refused, Guards
<1>3. CASE GuardReadsKillSwitch(q)
  <2>1. place[q] = "after_upload"
    BY <1>3 DEF GuardReadsKillSwitch, BaseInv, ProcessesAreSane, Guards
  <2>2. QED
    BY <1>0, <1>3, <2>1 DEF GuardReadsKillSwitch, Refused, AfterGuard
<1>4. CASE BuildsReceipt(q) \/ CompleteReadsKillSwitch(q)
  BY <1>0, <1>4 DEF BuildsReceipt, CompleteReadsKillSwitch
<1>5. CASE CompletesTransfer(q)
  BY <1>0, <1>5, <1>b DEF CompletesTransfer, Complete, SetStatus, Settled
<1>6. CASE HoldTransferReads(q)
  BY <1>0, <1>6, <1>b DEF HoldTransferReads, HoldReads
<1>7. CASE HoldTransferWrites(q)
  BY <1>0, <1>7, <1>b DEF HoldTransferWrites, HoldWrites, SetStatus, Settled
<1>8. CASE /\ TransferStep(q)
           /\ ~(GuardReadsRow(q) \/ GuardReadsKillSwitch(q) \/ BuildsReceipt(q)
                \/ CompleteReadsKillSwitch(q) \/ CompletesTransfer(q) \/ HoldTransferReads(q)
                \/ HoldTransferWrites(q))
  BY <1>8
  DEF TransferStep, ClaimReadsKillSwitch, ClaimsTransfer, FindsNoTransfer, ValidatesTransfer,
      Encrypts, FailsBeforeUpload, Uploads, FailTransferReads, FailTransferWrites
<1>9. QED
  BY <1>1, <1>2, <1>3, <1>4, <1>5, <1>6, <1>7, <1>8

(* While leases are kept, an outcome, once recorded, is never changed.     *)
LEMMA OutcomeIsLeft ==
  ASSUME BaseInv, LeasesAreKept, [BTNext]_btVars, faults' = 0,
         NEW t \in Rows, status[t] \in Terminal
  PROVE  status'[t] = status[t]
<1> DEFINE Goal == status'[t] = status[t]
<1> USE DEF At, Goto, SetStatus, Terminal, Finished, rowVars, obVars
<1>0. status \in [Rows -> RowStatuses]
  BY DEF BaseInv, BTTypeOK, ObTypeOK
<1>a. faults = 0
  BY FaultsAreCounted
<1>b. \A p \in Conns : Busy(p) => task[p] # t
  BY <1>a DEF LeasesAreKept, Holds
<1>1. ASSUME UNCHANGED status PROVE Goal
  BY <1>1
<1>2. ASSUME NEW p \in Conns, ClaimsTransfer(p) \/ FindsNoTransfer(p) PROVE Goal
  BY <1>2 DEF ClaimsTransfer, FindsNoTransfer, Lease, Expired, Unleased
<1>3. ASSUME NEW p \in Conns, CompletesTransfer(p) PROVE Goal
  <2>1. task[p] # t
    BY <1>3, <1>b DEF CompletesTransfer, Busy
  <2>2. QED
    BY <1>0, <1>3, <2>1 DEF CompletesTransfer, Complete
<1>4. ASSUME NEW p \in Conns, FailTransferWrites(p) PROVE Goal
  <2>1. failing[p].row # t
    BY <1>4, <1>b DEF FailTransferWrites, Busy, BaseInv, ProcessesAreSane
  <2>2. QED
    BY <1>0, <1>4, <2>1 DEF FailTransferWrites, FailWrites
<1>5. ASSUME NEW p \in Conns, HoldTransferWrites(p) PROVE Goal
  <2>1. CASE Holds(p, holding[p])
    <3>1. holding[p] # t
      BY <2>1 DEF Holds
    <3>2. QED
      BY <1>0, <1>5, <2>1, <3>1 DEF HoldTransferWrites, HoldWrites
  <2>2. QED
    BY <1>1, <1>5, <2>1 DEF HoldTransferWrites, HoldWrites
<1>6. ASSUME NEW p \in Conns,
             \/ Moves(p) \/ FailTransferReads(p) \/ HoldTransferReads(p) \/ Crash(p) \/ Restart(p)
      PROVE Goal
  BY <1>1, <1>6, MovesDisturbNoTable
  DEF FailTransferReads, FailReads, HoldTransferReads, HoldReads, Crash, ObDisconnects, Restart
<1>7. ASSUME NEW u \in Rows, StageTransfer(u) \/ RecordPreflight(u) PROVE Goal
  BY <1>0, <1>7 DEF StageTransfer, StageRow, RecordPreflight, Preflight
<1>8. ASSUME NEW u \in Rows, NEW a \in Approvals, AuthorizeTransfer(u, a) PROVE Goal
  BY <1>0, <1>8 DEF AuthorizeTransfer, Authorize
<1>9. ASSUME \/ UNCHANGED btVars
             \/ /\ Environment
                /\ ~\E u \in Rows : \/ StageTransfer(u) \/ RecordPreflight(u)
                                     \/ \E a \in Approvals : AuthorizeTransfer(u, a)
      PROVE Goal
  BY <1>1, <1>9
  DEF Environment, RequestTransferReads, RequestReads, RequestTransferWrites, RequestWrites,
      WindowMoves, Lapse, LeaseLapses, Backoff, BackoffEnds, Decides, SwitchKill, btVars
<1>10. Goal
  BY <1>2, <1>3, <1>4, <1>5, <1>6, <1>7, <1>8, <1>9 DEF BTNext, TransferStep, Moves
<1>11. QED
  BY <1>10

LEMMA PutsMove ==
  ASSUME BaseInv, [BTNext]_btVars
  PROVE  \/ UNCHANGED <<puts, bucket>>
         \/ \E q \in Conns : Uploads(q)
<1>1. ASSUME NEW p \in Conns, TransferStep(p) \/ Crash(p) \/ Restart(p), ~Uploads(p)
      PROVE  UNCHANGED <<puts, bucket>>
  BY <1>1
  DEF TransferStep, ClaimReadsKillSwitch, ClaimsTransfer, FindsNoTransfer, ValidatesTransfer,
      GuardReadsRow, GuardReadsKillSwitch, Encrypts, FailsBeforeUpload, BuildsReceipt,
      CompleteReadsKillSwitch, CompletesTransfer, FailTransferReads, FailTransferWrites,
      HoldTransferReads, HoldTransferWrites, Crash, Restart, outside
<1>2. CASE Environment \/ UNCHANGED btVars
  BY <1>2
  DEF Environment, StageTransfer, RecordPreflight, RequestTransferReads, RequestTransferWrites,
      AuthorizeTransfer, WindowMoves, Lapse, Backoff, Decides, SwitchKill, outside, btVars
<1>3. QED
  BY <1>1, <1>2 DEF BTNext

LEMMA SentAtStep ==
  ASSUME BaseInv, WriteInv, [BTNext]_btVars
  PROVE  SentIsSettledOrInHand'
<1> SUFFICES ASSUME faults' = 0, NEW t \in Rows
             PROVE  \/ puts'[t] = 0
                    \/ /\ puts'[t] = 1
                       /\ \/ status'[t] \in Settled
                          \/ \E p \in Conns : place'[p] \in Sent /\ task'[p] = t
  BY DEF SentIsSettledOrInHand
<1> DEFINE Goal == \/ puts'[t] = 0
                   \/ /\ puts'[t] = 1
                      /\ \/ status'[t] \in Settled
                         \/ \E p \in Conns : place'[p] \in Sent /\ task'[p] = t
<1>0. puts \in [Rows -> Nat] /\ place \in [Conns -> Spots]
  BY DEF BaseInv, BTTypeOK
<1>a. faults = 0 /\ LeasesAreKept
  BY FaultsAreCounted DEF WriteInv
<1>b. \/ puts[t] = 0
      \/ /\ puts[t] = 1
         /\ status[t] \in Settled \/ \E p \in Conns : place[p] \in Sent /\ task[p] = t
  BY <1>a DEF WriteInv, SentIsSettledOrInHand
<1>1. CASE puts'[t] = puts[t]
  <2>1. CASE puts[t] = 0
    BY <1>1, <2>1
  <2>2. CASE puts[t] = 1 /\ status[t] \in Settled
    BY <1>1, <1>a, <2>2, OutcomeIsLeft DEF Settled, Terminal, Finished
  <2>3. ASSUME puts[t] = 1, NEW p \in Conns, place[p] \in Sent, task[p] = t
        PROVE  Goal
    BY <1>1, <1>a, <2>3, SentGoesOn
  <2>4. QED
    BY <1>b, <2>1, <2>2, <2>3
<1>2. ASSUME NEW q \in Conns, Uploads(q), task[q] = t PROVE Goal
  <2>1. /\ At(q, "upload") /\ Busy(q) /\ task' = task
        /\ puts' = [puts EXCEPT ![t] = @ + 1]
        /\ Goto(q, "after_upload") \/ Goto(q, "hold")
    BY <1>2 DEF Uploads, At, Busy
  <2>2. Holds(q, t)
    BY <1>2, <1>a, <2>1 DEF LeasesAreKept
  <2>3. \A p \in Conns : place[p] \in Sent => task[p] # t
    <3>1. ASSUME NEW p \in Conns, place[p] \in Sent, task[p] = t PROVE FALSE
      <4>1. Holds(p, t)
        BY <1>a, <3>1 DEF LeasesAreKept, Busy, Sent, PastUpload
      <4>2. p = q
        BY <2>2, <4>1 DEF Holds
      <4>3. QED
        BY <2>1, <3>1, <4>2 DEF At, Sent, PastUpload
    <3>2. QED
      BY <3>1
  <2>4. puts[t] = 0
    BY <1>b, <2>2, <2>3 DEF Holds, Settled
  <2>5. puts'[t] = 1 /\ place'[q] \in Sent /\ task'[q] = t
    BY <1>0, <1>2, <2>1, <2>4 DEF Goto, Sent, PastUpload
  <2>6. QED
    BY <2>5
<1>3. ASSUME NEW q \in Conns, Uploads(q), task[q] # t PROVE puts'[t] = puts[t]
  BY <1>0, <1>3 DEF Uploads
<1>4. QED
  BY <1>1, <1>2, <1>3, PutsMove

LEMMA StoredWasSentAtStep ==
  ASSUME BaseInv, StoredWasSent, [BTNext]_btVars
  PROVE  StoredWasSent'
<1> SUFFICES ASSUME NEW t \in Rows, bucket'[KeyOf[t]] # Nothing, bucket'[KeyOf[t]][1] = t
             PROVE  puts'[t] # 0
  BY DEF StoredWasSent
<1>0. /\ puts \in [Rows -> Nat] /\ bucket \in [Keys -> (Rows \X Nat) \cup {Nothing}]
      /\ KeyOf \in [Rows -> Keys]
  BY KeyAssumption DEF BaseInv, BTTypeOK
<1>1. CASE UNCHANGED <<puts, bucket>>
  BY <1>1 DEF StoredWasSent
<1>2. ASSUME NEW q \in Conns, Uploads(q) PROVE puts'[t] # 0
  <2>1. PICK u \in Rows : u = task[q]
    BY <1>2 DEF Uploads, At, Busy, BaseInv, ProcessesAreSane
  <2>2. puts' = [puts EXCEPT ![u] = @ + 1]
    BY <1>2, <2>1 DEF Uploads
  <2>3. bucket' = bucket \/ bucket' = [bucket EXCEPT ![KeyOf[u]] = <<u, version[q]>>]
    BY <1>2, <2>1 DEF Uploads, PutObject
  <2>4. CASE u = t
    BY <1>0, <2>2, <2>4
  <2>5. CASE u # t
    <3>1. bucket'[KeyOf[t]] = bucket[KeyOf[t]]
      BY <1>0, <2>3, <2>5
    <3>2. puts'[t] = puts[t]
      BY <1>0, <2>2, <2>5
    <3>3. QED
      BY <3>1, <3>2 DEF StoredWasSent
  <2>6. QED
    BY <2>4, <2>5
<1>3. QED
  BY <1>1, <1>2, PutsMove

LEMMA WriteInvHolds == BTSpec => []WriteInv
<1>1. BTInit => WriteInv
  BY KeyAssumption
  DEF BTInit, ObInit, WriteInv, LeasesAreKept, SentIsSettledOrInHand, StoredWasSent, Busy
<1>2. BaseInv /\ WriteInv /\ [BTNext]_btVars => WriteInv'
  BY LeasesAreKeptAtStep, SentAtStep, StoredWasSentAtStep DEF WriteInv
<1>3. QED
  BY <1>1, <1>2, BaseHolds, PTL DEF BTSpec

(* However many worker processes there are, while none of them dies and no *)
(* lease lapses under a live one, a transfer's request is sent at most     *)
(* once, whatever the provider answered, and no stored object is FAILED.   *)
THEOREM AmbiguousWritesAreNotRetried == BTSpec => []WriteNotRetried
<1>1. BaseInv /\ WriteInv => WriteNotRetried
  <2> SUFFICES ASSUME BaseInv, WriteInv, faults = 0, NEW t \in Rows
               PROVE  /\ puts[t] <= 1
                      /\ bucket[KeyOf[t]] # Nothing /\ bucket[KeyOf[t]][1] = t
                           => status[t] # "FAILED"
    BY DEF WriteNotRetried, StoredIsNeverFailed
  <2>1. \/ puts[t] = 0
        \/ /\ puts[t] = 1
           /\ status[t] \in Settled \/ \E p \in Conns : place[p] \in Sent /\ task[p] = t
    BY DEF WriteInv, SentIsSettledOrInHand
  <2>2. ASSUME NEW p \in Conns, place[p] \in Sent, task[p] = t PROVE status[t] # "FAILED"
    BY <2>2 DEF WriteInv, LeasesAreKept, Holds, Busy, Sent, PastUpload
  <2>3. puts[t] = 0 => ~(bucket[KeyOf[t]] # Nothing /\ bucket[KeyOf[t]][1] = t)
    BY DEF WriteInv, StoredWasSent
  <2>4. QED
    BY <2>1, <2>2, <2>3 DEF Settled
<1>2. QED
  BY <1>1, WriteInvHolds, BaseHolds, PTL

(* Likewise an outcome, once recorded, is never changed.  (With a crash or *)
(* a lapse it is, unless the process is the only one: OneWorkerIsFinal.)   *)
OutcomeIsFinalUnlessFaults ==
  [][faults' = 0 => \A t \in Rows : status[t] \in Terminal => status'[t] = status[t]]_btVars

(* No complete, fail or hold of one worker overwrites what another has     *)
(* recorded, as long as nothing has died and no lease has lapsed.          *)
THEOREM OutcomesFinalWithoutFaults == BTSpec => OutcomeIsFinalUnlessFaults
<1>1. BaseInv /\ WriteInv /\ [BTNext]_btVars
        => [faults' = 0 => \A t \in Rows : status[t] \in Terminal => status'[t] = status[t]]_btVars
  BY OutcomeIsLeft DEF WriteInv
<1>2. QED
  BY <1>1, WriteInvHolds, BaseHolds, PTL DEF BTSpec, OutcomeIsFinalUnlessFaults

-----------------------------------------------------------------------------
(* One process.  Nobody else can claim a plan whose lease has lapsed, so a *)
(* busy process still holds its plan when it reports.  With two processes  *)
(* this fails, and OutcomeIsFinal with it.                                 *)
OwnerInv == \A p \in Conns : Busy(p) => Holds(p, task[p])

LEMMA OwnerAtStep ==
  ASSUME NEW p, Conns = {p}, BaseInv, OwnerInv, [BTNext]_btVars
  PROVE  OwnerInv'
<1> DEFINE Goal == Busy(p)' => Holds(p, task[p])'
<1> USE DEF Busy, Holds, At, Goto, SetStatus, rowVars, callVars
<1>0. /\ place \in [Conns -> Spots] /\ task \in [Conns -> Rows \cup {0}]
      /\ status \in [Rows -> RowStatuses] /\ lessee \in [Rows -> Conns \cup {NoOne}]
      /\ p \in Conns
  BY DEF BaseInv, BTTypeOK, ObTypeOK
<1>a. Busy(p) => Holds(p, task[p]) /\ task[p] \in Rows
  BY <1>0 DEF OwnerInv, BaseInv, ProcessesAreSane
<1>1. ASSUME UNCHANGED <<status, lessee>>, task'[p] = task[p],
             Busy(p)' => Busy(p)
      PROVE  Goal
  BY <1>a, <1>1
<1>2. ASSUME Moves(p) PROVE Goal
  <2>1. UNCHANGED <<status, lessee, task>>
    BY <1>0, <1>2, MovesDisturbNoTable DEF obVars
  <2>2. PICK s \in Spots \ {"failing", "holding"} :
          place' = [place EXCEPT ![p] = s] /\ (s \notin {"idle", "claim", "down"} => Busy(p))
    BY <1>0, <1>2, MovesDisturbNoTable
  <2>3. QED
    BY <1>0, <1>1, <2>1, <2>2
<1>3. ASSUME ClaimsTransfer(p) PROVE Goal
  <2>1. PICK t \in Rows : /\ Claimable(t) /\ Lease(p, t, Expired)
                          /\ task' = [task EXCEPT ![p] = t]
    BY <1>3 DEF ClaimsTransfer
  <2>2. status'[t] = "AUTHORIZED" /\ lessee'[t] = p
    BY <2>1 DEF Lease, Claimable, Unleased, Expired
  <2>3. QED
    BY <1>0, <2>1, <2>2
<1>4. ASSUME \/ FindsNoTransfer(p) \/ FailTransferWrites(p) \/ HoldTransferWrites(p)
             \/ Crash(p) \/ Restart(p)
      PROVE Goal
  BY <1>0, <1>4 DEF FindsNoTransfer, FailTransferWrites, HoldTransferWrites, Crash, Restart
<1>5. ASSUME CompletesTransfer(p) PROVE Goal
  <2>1. CASE Goto(p, "idle")
    BY <1>0, <2>1
  <2>2. CASE UNCHANGED obVars
    BY <1>0, <1>1, <1>5, <2>2 DEF CompletesTransfer, obVars
  <2>3. QED
    BY <1>5, <2>1, <2>2 DEF CompletesTransfer
<1>6. ASSUME FailTransferReads(p) \/ HoldTransferReads(p) PROVE Goal
  BY <1>0, <1>1, <1>6 DEF FailTransferReads, FailReads, HoldTransferReads, HoldReads, obVars
<1>7. ASSUME NEW t \in Rows, StageTransfer(t) \/ RecordPreflight(t) PROVE Goal
  BY <1>0, <1>a, <1>7 DEF StageTransfer, StageRow, RecordPreflight, Preflight, procVars
<1>8. ASSUME NEW t \in Rows, NEW a \in Approvals, AuthorizeTransfer(t, a) PROVE Goal
  BY <1>0, <1>a, <1>8 DEF AuthorizeTransfer, Authorize, procVars
<1>9. ASSUME \/ UNCHANGED btVars
             \/ /\ Environment
                /\ ~\E u \in Rows : \/ StageTransfer(u) \/ RecordPreflight(u)
                                     \/ \E a \in Approvals : AuthorizeTransfer(u, a)
      PROVE Goal
  <2>1. UNCHANGED <<status, lessee, procVars>>
    BY <1>9
    DEF Environment, RequestTransferReads, RequestReads, RequestTransferWrites, RequestWrites,
        WindowMoves, Lapse, LeaseLapses, Backoff, BackoffEnds, Decides, SwitchKill, btVars, obVars
  <2>2. QED
    BY <1>1, <2>1 DEF procVars
<1>10. Goal
  BY <1>2, <1>3, <1>4, <1>5, <1>6, <1>7, <1>8, <1>9
  DEF BTNext, TransferStep, Moves
<1>11. QED
  BY <1>0, <1>10 DEF OwnerInv

(* What a step of one process or of its environment is for the promise.    *)
LEMMA StepKeepsPromise ==
  ASSUME NEW p, Conns = {p}, BaseInv, OwnerInv, StoredIsMine, [BTNext]_btVars
  PROVE  /\ \/ Promise!Next
            \/ /\ UNCHANGED <<bucket, boundTo>>
               /\ \A t \in Rows : OutcomeOf(status'[t]) = OutcomeOf(status[t])
         /\ \A t \in Rows : status[t] \in Terminal => status'[t] = status[t]
<1> DEFINE Same == /\ UNCHANGED <<bucket, boundTo>>
                   /\ \A t \in Rows : OutcomeOf(status'[t]) = OutcomeOf(status[t])
           Final == \A t \in Rows : status[t] \in Terminal => status'[t] = status[t]
           Goal  == (Promise!Next \/ Same) /\ Final
           outcomes == [t \in Rows |-> OutcomeOf(status[t])]
<1> USE DEF At, Goto, SetStatus, rowVars, outside, obVars, Terminal, Finished
<1>0. /\ status \in [Rows -> RowStatuses] /\ bucket \in [Keys -> (Rows \X Nat) \cup {Nothing}]
      /\ boundTo \in [Rows -> Approvals \cup {NoApproval}] /\ place \in [Conns -> Spots]
      /\ version \in [Conns -> Nat]
      /\ Rows \subseteq Nat \ {0} /\ KeyOf \in [Rows -> Keys] /\ p \in Conns
  BY OutboxAssumption, KeyAssumption DEF BaseInv, BTTypeOK, ObTypeOK
<1>a. Busy(p) => /\ task[p] \in Rows /\ boundTo[task[p]] # NoApproval
                 /\ status[task[p]] = "AUTHORIZED"
  BY <1>0 DEF OwnerInv, BaseInv, ProcessesAreSane, Holds
<1>1. ASSUME UNCHANGED <<bucket, boundTo, status>> PROVE Goal
  BY <1>1
<1>2. ASSUME Uploads(p) PROVE Goal
  <2>0. PICK t \in Rows : t = task[p]
    BY <1>a, <1>2 DEF Uploads, Busy
  <2>1. /\ boundTo[t] # NoApproval /\ OutcomeOf(status[t]) = "open"
        /\ UNCHANGED <<boundTo, status>> /\ version[p] \in Nat
    BY <1>0, <1>a, <1>2, <2>0 DEF Uploads, Busy, OutcomeOf
  <2>2. CASE UNCHANGED bucket
    BY <1>1, <2>1, <2>2
  <2>3. CASE PutObject(KeyOf[t], <<t, version[p]>>)
    <3>1. bucket[KeyOf[t]] = Nothing /\ bucket' = [bucket EXCEPT ![KeyOf[t]] = <<t, version[p]>>]
      BY <2>3 DEF PutObject
    <3>2. KeyOf[t] \in Keys
      BY <1>0
    <3>3. [k \in Keys |-> bucket[k][1]]' = [[k \in Keys |-> bucket[k][1]] EXCEPT ![KeyOf[t]] = t]
      BY <1>0, <3>1, <3>2
    <3>4. [k \in Keys |-> bucket[k][1]][KeyOf[t]] = 0
      BY <3>1, <3>2 DEF Nothing
    <3>5. Promise!Act(t)
      BY <2>1, <3>3, <3>4 DEF Promise!Act
    <3>6. QED
      BY <2>1, <3>5 DEF Promise!Next
  <2>4. QED
    BY <1>2, <2>0, <2>2, <2>3 DEF Uploads
<1>3. ASSUME ClaimsTransfer(p) \/ FindsNoTransfer(p) PROVE Goal
  <2>1. /\ status' = [t \in Rows |-> IF t \in Expired THEN "FAILED" ELSE status[t]]
        /\ UNCHANGED <<bucket, boundTo>>
    BY <1>3 DEF ClaimsTransfer, FindsNoTransfer, Lease
  <2>2. \A t \in Expired : /\ t \in Rows /\ boundTo[t] # NoApproval
                            /\ OutcomeOf(status[t]) = "open" /\ status[t] = "AUTHORIZED"
    BY DEF Expired, Unleased, BaseInv, BoundOnceGranted, OutcomeOf
  <2>3. outcomes' = [t \in Rows |-> IF t \in Expired THEN "failed" ELSE OutcomeOf(status[t])]
    BY <2>1 DEF OutcomeOf
  <2>4. Promise!ConcludeFailed(Expired)
    BY <2>1, <2>2, <2>3 DEF Promise!ConcludeFailed
  <2>5. Expired \in SUBSET Rows
    BY DEF Expired
  <2>6. QED
    BY <1>0, <2>1, <2>2, <2>4, <2>5 DEF Promise!Next
<1>4. ASSUME NEW t \in Rows, NEW s \in {"COMPLETED", "FAILED", "RECONCILIATION_REQUIRED"},
             status[t] = "AUTHORIZED", boundTo[t] # NoApproval,
             s = "COMPLETED" => bucket[KeyOf[t]][1] = t,
             status' = [status EXCEPT ![t] = s], UNCHANGED <<bucket, boundTo>>
      PROVE  Goal
  <2>1. OutcomeOf(s) \in Promise!Outcomes /\ OutcomeOf(status[t]) = "open"
    BY <1>4 DEF OutcomeOf, Promise!Outcomes
  <2>2. outcomes' = [outcomes EXCEPT ![t] = OutcomeOf(s)]
    BY <1>0, <1>4
  <2>3. OutcomeOf(s) = "kept" => [k \in Keys |-> bucket[k][1]][KeyOf[t]] = t
    BY <1>0, <1>4 DEF OutcomeOf
  <2>4. Promise!Conclude(t, OutcomeOf(s))
    BY <1>4, <2>1, <2>2, <2>3 DEF Promise!Conclude
  <2>5. QED
    BY <1>0, <1>4, <2>1, <2>4 DEF Promise!Next
<1>5. ASSUME CompletesTransfer(p) PROVE Goal
  <2>1. CASE Complete(p, task[p], "COMPLETED")
    <3>1. task[p] \in Rows /\ bucket[KeyOf[task[p]]][1] = task[p]
      BY <1>0, <1>a, <1>5 DEF CompletesTransfer, StoredIsMine, PastUpload, Busy
    <3>2. QED
      BY <1>4, <1>5, <1>a, <2>1, <3>1 DEF CompletesTransfer, Complete, Busy
  <2>2. QED
    BY <1>1, <1>5, <2>1 DEF CompletesTransfer
<1>6. ASSUME FailTransferWrites(p) PROVE Goal
  <2>1. /\ failing[p].row = task[p] /\ UNCHANGED <<bucket, boundTo>>
        /\ task[p] \in Rows /\ status[task[p]] = "AUTHORIZED" /\ boundTo[task[p]] # NoApproval
    BY <1>0, <1>6, <1>a DEF FailTransferWrites, FailWrites, BaseInv, ProcessesAreSane, Busy
  <2>2. CASE failing[p].dead
    BY <1>4, <1>6, <2>1, <2>2 DEF FailTransferWrites, FailWrites
  <2>3. CASE ~failing[p].dead
    BY <1>0, <1>1, <1>6, <2>1, <2>3 DEF FailTransferWrites, FailWrites
  <2>4. QED
    BY <2>2, <2>3
<1>7. ASSUME HoldTransferWrites(p) PROVE Goal
  <2>1. /\ holding[p] = task[p] /\ UNCHANGED <<bucket, boundTo>>
        /\ task[p] \in Rows /\ status[task[p]] = "AUTHORIZED" /\ boundTo[task[p]] # NoApproval
    BY <1>0, <1>7, <1>a DEF HoldTransferWrites, HoldWrites, BaseInv, ProcessesAreSane, Busy
  <2>2. CASE Holds(p, holding[p])
    BY <1>4, <1>7, <2>1, <2>2 DEF HoldTransferWrites, HoldWrites
  <2>3. QED
    BY <1>1, <1>7, <2>1, <2>2 DEF HoldTransferWrites, HoldWrites
<1>8. ASSUME NEW t \in Rows, StageTransfer(t) \/ RecordPreflight(t) PROVE Goal
  BY <1>0, <1>8 DEF StageTransfer, StageRow, RecordPreflight, Preflight, OutcomeOf
<1>9. ASSUME NEW t \in Rows, NEW a \in Approvals, AuthorizeTransfer(t, a) PROVE Goal
  <2>1. /\ status[t] = "PREFLIGHT_VALIDATED" /\ status' = [status EXCEPT ![t] = "AUTHORIZED"]
        /\ boundTo' = [boundTo EXCEPT ![t] = a] /\ bucket' = bucket /\ a # NoApproval
    BY <1>9, ApprovalsAssumption DEF AuthorizeTransfer, Authorize
  <2>2. {u \in Rows : boundTo[u] # NoApproval}' = {u \in Rows : boundTo[u] # NoApproval} \cup {t}
    BY <1>0, <2>1
  <2>3. outcomes' = outcomes
    BY <1>0, <2>1 DEF OutcomeOf
  <2>4. Promise!Grant(t)
    BY <2>1, <2>2, <2>3 DEF Promise!Grant
  <2>5. QED
    BY <1>0, <2>1, <2>4 DEF Promise!Next
<1>10. ASSUME \/ Moves(p) /\ ~Uploads(p)
              \/ FailTransferReads(p) \/ HoldTransferReads(p) \/ Crash(p) \/ Restart(p)
       PROVE  Goal
  <2>1. UNCHANGED <<bucket, boundTo, status>>
    BY <1>10
    DEF Moves, ClaimReadsKillSwitch, ValidatesTransfer, GuardReadsRow, GuardReadsKillSwitch,
        Encrypts, FailsBeforeUpload, BuildsReceipt, CompleteReadsKillSwitch, FailTransferReads,
        FailReads, HoldTransferReads, HoldReads, Crash, ObDisconnects, Restart
  <2>2. QED
    BY <1>1, <2>1
<1>11. ASSUME \/ UNCHANGED btVars
              \/ /\ Environment
                 /\ ~\E u \in Rows : \/ StageTransfer(u) \/ RecordPreflight(u)
                                      \/ \E a \in Approvals : AuthorizeTransfer(u, a)
       PROVE Goal
  <2>1. UNCHANGED <<bucket, boundTo, status>>
    BY <1>11
    DEF Environment, RequestTransferReads, RequestReads, RequestTransferWrites, RequestWrites,
        WindowMoves, Lapse, LeaseLapses, Backoff, BackoffEnds, Decides, SwitchKill, btVars
  <2>2. QED
    BY <1>1, <2>1
<1>12. Goal
  BY <1>2, <1>3, <1>5, <1>6, <1>7, <1>8, <1>9, <1>10, <1>11
  DEF BTNext, TransferStep, Moves
<1>13. QED
  BY <1>12

(* One worker process: the outbox keeps the abstract promise, at most one  *)
(* authorised effect per key and one outcome per plan.                     *)
THEOREM OneWorkerKeepsPromise ==
  ASSUME NEW p, Conns = {p}
  PROVE  BTSpec => UploadsOnce
<1>1. BTInit => OwnerInv /\ ObjectInv
  BY DEF BTInit, ObInit, OwnerInv, Busy, ObjectInv, StoredIsMine, PastUpload, ReceiptAttestsObject
<1>2. BaseInv /\ OwnerInv /\ ObjectInv /\ [BTNext]_btVars => OwnerInv' /\ ObjectInv'
  BY OwnerAtStep, ObjectInvAtStep
<1>3. BTInit => Promise!Init
  <2> SUFFICES ASSUME BTInit PROVE Promise!Init
    OBVIOUS
  <2>1. {t \in Rows : boundTo[t] # NoApproval} = {}
    BY DEF BTInit, ObInit
  <2>2. [k \in Keys |-> bucket[k][1]] = [k \in Keys |-> 0]
    BY DEF BTInit, Nothing
  <2>3. [t \in Rows |-> OutcomeOf(status[t])] = [t \in Rows |-> "open"]
    BY DEF BTInit, ObInit, OutcomeOf
  <2>4. QED
    BY <2>1, <2>2, <2>3 DEF Promise!Init
<1>4. BaseInv /\ OwnerInv /\ ObjectInv /\ [BTNext]_btVars
        => [Promise!Next]_<<{t \in Rows : boundTo[t] # NoApproval},
                            [k \in Keys |-> bucket[k][1]],
                            [t \in Rows |-> OutcomeOf(status[t])]>>
  <2> SUFFICES ASSUME BaseInv, OwnerInv, ObjectInv, [BTNext]_btVars, ~Promise!Next
               PROVE  UNCHANGED <<{t \in Rows : boundTo[t] # NoApproval},
                                  [k \in Keys |-> bucket[k][1]],
                                  [t \in Rows |-> OutcomeOf(status[t])]>>
    OBVIOUS
  <2>1. /\ UNCHANGED <<bucket, boundTo>>
        /\ \A t \in Rows : OutcomeOf(status'[t]) = OutcomeOf(status[t])
    BY StepKeepsPromise DEF ObjectInv
  <2>2. [t \in Rows |-> OutcomeOf(status[t])]' = [t \in Rows |-> OutcomeOf(status[t])]
    BY <2>1
  <2>3. QED
    BY <2>1, <2>2
<1>5. QED
  BY <1>1, <1>2, <1>3, <1>4, BaseHolds, PTL DEF BTSpec, UploadsOnce, Promise!Spec

(* One worker process: a recorded outcome is never changed.                *)
THEOREM OneWorkerIsFinal ==
  ASSUME NEW p, Conns = {p}
  PROVE  BTSpec => OutcomeIsFinal
<1>1. BTInit => OwnerInv /\ ObjectInv
  BY DEF BTInit, ObInit, OwnerInv, Busy, ObjectInv, StoredIsMine, PastUpload, ReceiptAttestsObject
<1>2. BaseInv /\ OwnerInv /\ ObjectInv /\ [BTNext]_btVars => OwnerInv' /\ ObjectInv'
  BY OwnerAtStep, ObjectInvAtStep
<1>3. BaseInv /\ OwnerInv /\ ObjectInv /\ [BTNext]_btVars
        => [\A t \in Rows : status[t] \in Terminal => status'[t] = status[t]]_btVars
  BY StepKeepsPromise DEF ObjectInv
<1>4. QED
  BY <1>1, <1>2, <1>3, BaseHolds, PTL DEF BTSpec, OutcomeIsFinal
=============================================================================
