------------------------ MODULE BackupRestoreProofs ------------------------
(* What holds of isolated restores for every number of worker processes,   *)
(* plans, paths, approvals, crashes and lapsed leases.                     *)
EXTENDS BackupRestore, ApprovalsProofs, FiniteSetTheorems

Busy(p) == place[p] \notin {"idle", "switch", "claim"}

(* A guard half read is a guard; a process past its claim has a plan.      *)
Sane(p) ==
  /\ looked[p] => place[p] \in Guards
  /\ Busy(p) => task[p] \in Rows

RestoreBase == BRTypeOK /\ ApInv /\ \A p \in Conns : Sane(p)

LEMMA BaseAtInit == ASSUME BRInit PROVE RestoreBase
<1> USE DEF BRInit
<1>1. ApInv
  BY ApInvAtInit
<1>2. ObTypeOK
  BY DEF ObInit, ObTypeOK, RowStatuses, NotFailing
<1>3. BRTypeOK
  BY <1>1, <1>2 DEF BRTypeOK, ApInv, Spots, Nothing
<1>4. \A p \in Conns : Sane(p)
  BY DEF Sane, Busy
<1>5. QED
  BY <1>1, <1>3, <1>4 DEF RestoreBase

-----------------------------------------------------------------------------
(* The kinds of step.  A process moves on by itself, writing no table.     *)
Moves(p) ==
  \/ ClaimReadsKillSwitch(p) \/ ValidatesRestore(p) \/ GuardReadsRow(p)
  \/ GuardReadsKillSwitch(p) \/ Downloads(p) \/ Decrypts(p) \/ Links(p) \/ CleansUp(p)
  \/ CompleteReadsKillSwitch(p) \/ Catches(p)

(* Where it may come to, from where it is.                                 *)
GivingUp == {"caught", "fail", "failing", "hold", "holding"}
CanMove(p, s) ==
  \/ At(p, "switch") /\ s = "idle"
  \/ At(p, "switch") /\ ~killSwitch /\ s = "claim"
  \/ At(p, "validate") /\ s \in {"before_download", "caught"}
  \/ At(p, "before_download") /\ s \in {"before_download", "caught"}
  \/ At(p, "before_download") /\ ~killSwitch /\ s = "download"
  \/ At(p, "download") /\ s \in {"after_download", "caught"}
  \/ At(p, "after_download") /\ s \in {"after_download", "caught"}
  \/ At(p, "after_download") /\ ~killSwitch /\ s = "decrypt"
  \/ At(p, "decrypt") /\ s \in {"link", "caught"}
  \/ At(p, "link") /\ s \in {"cleanup", "caught"}
  \/ At(p, "cleanup") /\ s \in {"after_decryption", "hold", "caught"}
  \/ At(p, "after_decryption") /\ s \in {"after_decryption", "hold", "complete"}
  \/ At(p, "complete") /\ s \in {"completing", "hold"}
  \/ At(p, "caught") /\ s \in {"fail", "hold"}

LEMMA MovesDisturbNoTable ==
  ASSUME RestoreBase, NEW p \in Conns, Moves(p)
  PROVE  /\ UNCHANGED <<killSwitch, apVars, obVars, task, version, target, reviewed,
                        window, receipt, braked, faults>>
         /\ \E s : CanMove(p, s) /\ place' = [place EXCEPT ![p] = s]
         /\ \E b \in BOOLEAN :
              /\ looked' = [looked EXCEPT ![p] = b]
              /\ b => place' = place /\ place[p] \in Guards
<1> DEFINE Same == UNCHANGED <<killSwitch, apVars, obVars, task, version, target, reviewed,
                               window, receipt, braked, faults>>
           Goes(s) == place' = [place EXCEPT ![p] = s]
<1>0. /\ looked \in [Conns -> BOOLEAN] /\ place \in [Conns -> Spots]
      /\ looked[p] => place[p] \in Guards
  BY DEF RestoreBase, BRTypeOK, Sane
<1>a. ASSUME place[p] \notin Guards, UNCHANGED looked
      PROVE  \E b \in BOOLEAN : looked' = [looked EXCEPT ![p] = b]
                                  /\ (b => place' = place /\ place[p] \in Guards)
  BY <1>0, <1>a
<1>1. CASE ClaimReadsKillSwitch(p)
  <2>1. Same /\ UNCHANGED looked /\ place[p] \notin Guards
    BY <1>1 DEF ClaimReadsKillSwitch, held, steady, outside, At, Guards
  <2>2. \E s : CanMove(p, s) /\ Goes(s)
    BY <1>1 DEF ClaimReadsKillSwitch, CanMove, Goto
  <2>3. QED
    BY <1>a, <2>1, <2>2
<1>2. CASE ValidatesRestore(p) \/ Downloads(p) \/ Decrypts(p)
  <2>1. Same /\ UNCHANGED looked /\ place[p] \notin Guards
    BY <1>2 DEF ValidatesRestore, Downloads, Decrypts, held, steady, outside, At, Guards
  <2>2. \E s : CanMove(p, s) /\ Goes(s)
    BY <1>2 DEF ValidatesRestore, Downloads, Decrypts, CanMove, Goto
  <2>3. QED
    BY <1>a, <2>1, <2>2
<1>3. CASE GuardReadsRow(p)
  <2>1. Same /\ place[p] \in Guards /\ ~looked[p]
    BY <1>3 DEF GuardReadsRow, held, steady, outside
  <2>2. CASE looked' = [looked EXCEPT ![p] = TRUE] /\ place' = place
    <3>1. Goes(place[p])
      BY <1>0, <2>2
    <3>2. CanMove(p, place[p])
      BY <2>1 DEF Guards, CanMove, At
    <3>3. QED
      BY <2>1, <2>2, <3>1, <3>2
  <2>3. CASE Goes(Refused(place[p])) /\ looked' = looked
    <3>1. CanMove(p, Refused(place[p]))
      BY <2>1 DEF Guards, Refused, CanMove, At
    <3>2. looked' = [looked EXCEPT ![p] = FALSE]
      BY <1>0, <2>1, <2>3
    <3>3. QED
      BY <2>1, <2>3, <3>1, <3>2
  <2>4. QED
    BY <1>3, <2>2, <2>3 DEF GuardReadsRow, Goto
<1>4. CASE GuardReadsKillSwitch(p)
  <2>1. Same /\ place[p] \in Guards /\ looked' = [looked EXCEPT ![p] = FALSE]
    BY <1>0, <1>4 DEF GuardReadsKillSwitch, held, steady, outside
  <2>2. CASE killSwitch
    <3>1. CanMove(p, Refused(place[p])) /\ Goes(Refused(place[p]))
      BY <1>4, <2>1, <2>2 DEF GuardReadsKillSwitch, Goto, Guards, Refused, CanMove, At
    <3>2. QED
      BY <2>1, <3>1
  <2>3. CASE ~killSwitch
    <3>1. CanMove(p, AfterGuard(place[p])) /\ Goes(AfterGuard(place[p]))
      BY <1>4, <2>1, <2>3 DEF GuardReadsKillSwitch, Goto, Guards, AfterGuard, CanMove, At
    <3>2. QED
      BY <2>1, <3>1
  <2>4. QED
    BY <2>2, <2>3
<1>5. CASE Links(p) \/ CleansUp(p)
  <2>1. Same /\ UNCHANGED looked /\ place[p] \notin Guards
    BY <1>5 DEF Links, CleansUp, held, steady, At, Guards
  <2>2. \E s : CanMove(p, s) /\ Goes(s)
    BY <1>5 DEF Links, CleansUp, CanMove, Goto
  <2>3. QED
    BY <1>a, <2>1, <2>2
<1>6. CASE CompleteReadsKillSwitch(p) \/ Catches(p)
  <2>1. Same /\ UNCHANGED looked /\ place[p] \notin Guards
    BY <1>6 DEF CompleteReadsKillSwitch, Catches, held, steady, outside, At, Guards
  <2>2. \E s : CanMove(p, s) /\ Goes(s)
    BY <1>6 DEF CompleteReadsKillSwitch, Catches, CanMove, Goto
  <2>3. QED
    BY <1>a, <2>1, <2>2
<1>7. QED
  BY <1>1, <1>2, <1>3, <1>4, <1>5, <1>6 DEF Moves

LEMMA CanMoveStays ==
  ASSUME NEW p \in Conns, NEW s, CanMove(p, s)
  PROVE  /\ s \in Spots \ {"failing", "holding"}
         /\ s \notin {"idle", "switch", "claim"} => Busy(p)
         /\ ~At(p, "failing") /\ ~At(p, "holding") /\ ~At(p, "idle") /\ ~At(p, "claim")
BY DEF CanMove, At, Spots, Guards, Busy

-----------------------------------------------------------------------------
(* The approvals, the rows and the rest keep their types.                  *)
TableSteps(p) ==
  \/ ClaimsRestore(p) \/ FindsNoRestore(p) \/ CompletesRestore(p)
  \/ FailRestoreReads(p) \/ FailRestoreWrites(p) \/ HoldRestoreReads(p) \/ HoldRestoreWrites(p)

LEMMA ApInvAtRestoreStep ==
  ASSUME RestoreBase, [BRNext]_brVars
  PROVE  ApInv'
<1>1. CASE [ApStep]_apVars
  BY <1>1, ApInvAtStep DEF RestoreBase
<1>2. ASSUME NEW p \in Conns, Moves(p) PROVE UNCHANGED apVars
  BY <1>2, MovesDisturbNoTable
<1>3. ASSUME NEW p \in Conns, TableSteps(p) \/ Starts(p) \/ Crash(p) PROVE UNCHANGED apVars
  BY <1>3
  DEF TableSteps, ClaimsRestore, FindsNoRestore, CompletesRestore, FailRestoreReads,
      FailRestoreWrites, HoldRestoreReads, HoldRestoreWrites, Crash, Starts, held
<1>4. ASSUME NEW q \in Requesters, RequestRestoreReads(q) PROVE ApInv'
  <2>1. UNCHANGED apVars \/ \E t : RequestReads(q, t, "PREFLIGHT_VALIDATED")
    BY <1>4 DEF RequestRestoreReads
  <2>2. ASSUME NEW t, RequestReads(q, t, "PREFLIGHT_VALIDATED") PROVE ApInv'
    BY <2>2 DEF RequestReads, PendingFor, RestoreBase, ApInv, ApTypeOK, ApprovalStatuses,
                ReadsAreOfRealRows
  <2>3. QED
    BY <1>1, <2>1, <2>2
<1>5. ASSUME NEW q \in Requesters, NEW a \in Approvals, RequestRestoreWrites(q, a)
      PROVE  ApStep
  BY <1>5 DEF RequestRestoreWrites, RequestWrites, ApStep, Sean
<1>6. ASSUME NEW t \in Rows, NEW a \in Approvals, AuthorizeRestore(t, a) PROVE ApStep
  BY <1>6 DEF AuthorizeRestore, Authorize, ApStep
<1>7. CASE Decides
  BY <1>1, <1>7 DEF Decides, ApStep, Sean, ApTime
<1>8. ASSUME NEW t \in Rows,
             \/ StageRestore(t) \/ RecordPreflight(t) \/ WindowOpens(t) \/ WindowCloses(t)
             \/ Lapse(t) \/ Backoff(t) \/ \E q \in Requesters : Reviews(q, t)
      PROVE  UNCHANGED apVars
  BY <1>8
  DEF StageRestore, RecordPreflight, WindowOpens, WindowCloses, Lapse, Backoff, Reviews, held
<1>9. ASSUME NEW on \in BOOLEAN, SwitchKill(on) PROVE UNCHANGED apVars
  BY <1>9 DEF SwitchKill
<1>10. CASE UNCHANGED brVars
  BY <1>1, <1>10 DEF brVars
<1>11. QED
  BY <1>1, <1>2, <1>3, <1>4, <1>5, <1>6, <1>7, <1>8, <1>9, <1>10
  DEF BRNext, RestoreStep, Moves, TableSteps, Environment

LEMMA LeaseTypes ==
  ASSUME ObTypeOK, NEW p \in Conns, NEW t, NEW dead \in SUBSET Rows, Lease(p, t, dead)
  PROVE  ObTypeOK'
<1>1. status' \in [Rows -> RowStatuses]
  BY DEF Lease, ObTypeOK, RowStatuses, Terminal
<1>2. lessee' \in [Rows -> Conns \cup {NoOne}] /\ lapsed' \in [Rows -> BOOLEAN]
  BY DEF Lease, ObTypeOK
<1>3. tries' \in [Rows -> Nat]
  BY DEF Lease, ObTypeOK
<1>4. QED
  BY <1>1, <1>2, <1>3 DEF Lease, callVars, ObTypeOK

LEMMA TaskAtHand == ASSUME RestoreBase, NEW p \in Conns, Busy(p) PROVE task[p] \in Rows
BY DEF RestoreBase, Sane

LEMMA RowTypesAtTableStep ==
  ASSUME RestoreBase, NEW p \in Conns, TableSteps(p) \/ Crash(p)
  PROVE  ObTypeOK'
<1> USE DEF rowVars, callVars, obVars, RowStatuses, Terminal, Finished, SetStatus, ReleaseRow
<1>0. ObTypeOK
  BY DEF RestoreBase, BRTypeOK
<1>1. CASE UNCHANGED obVars
  BY <1>0, <1>1 DEF ObTypeOK
<1>2. CASE ClaimsRestore(p) \/ FindsNoRestore(p)
  <2>1. \E t, dead : dead \in SUBSET Rows /\ Lease(p, t, dead)
    BY <1>2 DEF ClaimsRestore, FindsNoRestore, Due
  <2>2. QED
    BY <1>0, <2>1, LeaseTypes
<1>3. CASE CompletesRestore(p)
  <2>1. CASE Complete(p, task[p], "RESTORED")
    BY <1>0, <2>1 DEF Complete, ObTypeOK
  <2>2. QED
    BY <1>1, <1>3, <2>1 DEF CompletesRestore
<1>4. CASE FailRestoreReads(p)
  <2>1. CASE FailReads(p, task[p]) /\ At(p, "fail")
    <3>1. task[p] \in Rows
      BY <2>1, TaskAtHand DEF Busy, At
    <3>2. [row |-> task[p], dead |-> Exhausted(task[p])] \in [row : Rows \cup {0}, dead : BOOLEAN]
      BY <3>1 DEF Exhausted
    <3>3. QED
      BY <1>0, <2>1, <3>2 DEF FailReads, ObTypeOK
  <2>2. QED
    BY <1>1, <1>4, <2>1 DEF FailRestoreReads
<1>5. CASE FailRestoreWrites(p)
  <2>1. \E s \in {"FAILED", "AUTHORIZED"} : status' = [status EXCEPT ![failing[p].row] = s]
    BY <1>5 DEF FailRestoreWrites, FailWrites
  <2>2. /\ failing' = [failing EXCEPT ![p] = NotFailing]
        /\ UNCHANGED <<boundTo, tries, holding, requesting>>
    BY <1>5 DEF FailRestoreWrites, FailWrites
  <2>3. /\ waiting' = [waiting EXCEPT ![failing[p].row] = TRUE]
        /\ lessee' = [lessee EXCEPT ![failing[p].row] = NoOne]
        /\ lapsed' = [lapsed EXCEPT ![failing[p].row] = FALSE]
    BY <1>5 DEF FailRestoreWrites, FailWrites
  <2>4. status' \in [Rows -> RowStatuses]
    BY <1>0, <2>1 DEF ObTypeOK
  <2>5. QED
    BY <1>0, <2>2, <2>3, <2>4 DEF ObTypeOK, NotFailing
<1>6. CASE HoldRestoreReads(p)
  <2>1. CASE HoldReads(p, task[p]) /\ At(p, "hold")
    <3>1. task[p] \in Rows
      BY <2>1, TaskAtHand DEF Busy, At
    <3>2. QED
      BY <1>0, <2>1, <3>1 DEF HoldReads, ObTypeOK
  <2>2. QED
    BY <1>1, <1>6, <2>1 DEF HoldRestoreReads
<1>7. CASE HoldRestoreWrites(p)
  BY <1>0, <1>7 DEF HoldRestoreWrites, HoldWrites, ObTypeOK
<1>8. CASE Crash(p)
  BY <1>0, <1>8 DEF Crash, ObDisconnects, ObTypeOK, NotFailing
<1>9. QED
  BY <1>2, <1>3, <1>4, <1>5, <1>6, <1>7, <1>8 DEF TableSteps

LEMMA RowTypesAtStep ==
  ASSUME RestoreBase, [BRNext]_brVars
  PROVE  ObTypeOK'
<1> USE DEF rowVars, callVars, obVars, RowStatuses, Terminal, Finished, SetStatus
<1>0. ObTypeOK /\ reviewed \in [Requesters -> Rows \cup {0}]
  BY DEF RestoreBase, BRTypeOK
<1>1. CASE UNCHANGED obVars
  BY <1>0, <1>1 DEF ObTypeOK
<1>2. ASSUME NEW t \in Rows, StageRestore(t) \/ RecordPreflight(t) PROVE ObTypeOK'
  BY <1>0, <1>2 DEF StageRestore, StageRow, RecordPreflight, Preflight, ObTypeOK
<1>3. ASSUME NEW q \in Requesters, RequestRestoreReads(q) PROVE ObTypeOK'
  <2>1. CASE UNCHANGED obVars
    BY <1>1, <2>1
  <2>2. CASE RequestReads(q, reviewed[q], "PREFLIGHT_VALIDATED")
    <3>1. /\ UNCHANGED <<rowVars, callVars>>
          /\ requesting' = requesting \/ requesting' = [requesting EXCEPT ![q] = reviewed[q]]
      BY <2>2 DEF RequestReads
    <3>2. QED
      BY <1>0, <3>1 DEF ObTypeOK
  <2>3. QED
    BY <1>3, <2>1, <2>2 DEF RequestRestoreReads
<1>4. ASSUME NEW q \in Requesters, NEW a \in Approvals, RequestRestoreWrites(q, a)
      PROVE  ObTypeOK'
  BY <1>0, <1>4 DEF RequestRestoreWrites, RequestWrites, ObTypeOK
<1>5. ASSUME NEW t \in Rows, NEW a \in Approvals, AuthorizeRestore(t, a) PROVE ObTypeOK'
  BY <1>0, <1>5 DEF AuthorizeRestore, Authorize, ObTypeOK
<1>6. ASSUME NEW t \in Rows, Lapse(t) \/ Backoff(t) \/ WindowCloses(t) PROVE ObTypeOK'
  BY <1>0, <1>6 DEF Lapse, LeaseLapses, Backoff, BackoffEnds, WindowCloses, ObTypeOK
<1>7. ASSUME NEW t \in Rows, WindowOpens(t) \/ \E q \in Requesters : Reviews(q, t) PROVE ObTypeOK'
  BY <1>1, <1>7 DEF WindowOpens, Reviews, held
<1>8. ASSUME NEW on \in BOOLEAN, SwitchKill(on) PROVE ObTypeOK'
  BY <1>1, <1>8 DEF SwitchKill
<1>9. CASE Decides
  BY <1>1, <1>9 DEF Decides
<1>10. ASSUME NEW p \in Conns, Starts(p) \/ Moves(p) PROVE ObTypeOK'
  BY <1>1, <1>10, MovesDisturbNoTable DEF Starts, held
<1>11. CASE UNCHANGED brVars
  BY <1>1, <1>11 DEF brVars
<1>12. QED
  BY RowTypesAtTableStep, <1>2, <1>3, <1>4, <1>5, <1>6, <1>7, <1>8, <1>9, <1>10, <1>11
  DEF BRNext, RestoreStep, Moves, TableSteps, Environment

LEMMA ChangedInPlace ==
  ASSUME NEW S, NEW D, NEW f \in [D -> S], NEW k, NEW e \in S
  PROVE  [f EXCEPT ![k] = e] \in [D -> S]
OBVIOUS

(* What the files may hold.                                                *)
Stored == (Rows \X Nat) \cup {Nothing}

LEMMA FilesAtMove ==
  ASSUME RestoreBase, NEW p \in Conns, Moves(p)
  PROVE  /\ files' \in [Files -> Stored]
         /\ \/ UNCHANGED files /\ (At(p, "link") => Goto(p, "caught"))
            \/ /\ At(p, "link") /\ Free(target[p]) /\ Goto(p, "cleanup")
               /\ files' = [files EXCEPT ![target[p]] = <<task[p], version[p]>>]
            \/ /\ At(p, "cleanup") /\ files' = [files EXCEPT ![target[p]] = Nothing]
               /\ Goto(p, "caught")
<1>0. files \in [Files -> Stored] /\ version \in [Conns -> Nat]
  BY DEF RestoreBase, BRTypeOK, Stored
<1>1. CASE Links(p)
  <2>1. \/ UNCHANGED files /\ Goto(p, "caught")
        \/ /\ At(p, "link") /\ Free(target[p]) /\ Goto(p, "cleanup")
           /\ files' = [files EXCEPT ![target[p]] = <<task[p], version[p]>>]
    BY <1>1 DEF Links, Publish
  <2>2. task[p] \in Rows
    BY <1>1, TaskAtHand DEF Links, Busy, At
  <2>3. <<task[p], version[p]>> \in Stored
    BY <1>0, <2>2 DEF Stored
  <2>4. QED
    BY <1>0, <2>1, <2>3, ChangedInPlace
<1>2. CASE CleansUp(p)
  <2>1. \/ UNCHANGED files /\ ~At(p, "link")
        \/ /\ At(p, "cleanup") /\ files' = [files EXCEPT ![target[p]] = Nothing]
           /\ Goto(p, "caught")
    BY <1>2 DEF CleansUp, At
  <2>2. Nothing \in Stored
    BY DEF Stored
  <2>3. QED
    BY <1>0, <2>1, <2>2, ChangedInPlace
<1>3. CASE ~Links(p) /\ ~CleansUp(p)
  <2>1. UNCHANGED files /\ ~At(p, "link")
    BY <1>3
    DEF Moves, At, Guards, RestoreBase, Sane, ClaimReadsKillSwitch, ValidatesRestore,
        GuardReadsRow, GuardReadsKillSwitch, Downloads, Decrypts, CompleteReadsKillSwitch,
        Catches, outside
  <2>2. QED
    BY <1>0, <2>1
<1>4. QED
  BY <1>1, <1>2, <1>3

(* Where the processes come to at the steps that are about a row.          *)
LEMMA TableStepPlaces ==
  ASSUME RestoreBase, NEW p \in Conns, TableSteps(p)
  PROVE  /\ UNCHANGED <<killSwitch, looked, target, reviewed, window, files, braked, faults>>
         /\ place[p] \in {"claim", "completing", "fail", "failing", "hold", "holding"}
         /\ \E s \in {"validate", "idle", "failing", "hold", "holding"} :
              /\ place' = [place EXCEPT ![p] = s]
              /\ s = "validate" <=> ClaimsRestore(p)
              /\ s = "hold" => At(p, "completing") /\ UNCHANGED <<task, version>>
              /\ s \in {"failing", "holding"}
                   => place[p] \in GivingUp /\ UNCHANGED <<task, version>>
<1> USE DEF Goto, steady, outside, At
<1>0. place \in [Conns -> Spots]
  BY DEF RestoreBase, BRTypeOK
<1>1. CASE ClaimsRestore(p)
  BY <1>1 DEF ClaimsRestore
<1>a. ASSUME place[p] # "claim" PROVE ~ClaimsRestore(p)
  BY <1>a DEF ClaimsRestore
<1>2. CASE FindsNoRestore(p)
  <2>1. ~ClaimsRestore(p)
    BY <1>2 DEF FindsNoRestore, ClaimsRestore
  <2>2. QED
    BY <1>2, <2>1 DEF FindsNoRestore
<1>3. CASE CompletesRestore(p)
  BY <1>3, <1>a DEF CompletesRestore
<1>4. CASE FailRestoreReads(p)
  BY <1>4, <1>a DEF FailRestoreReads, GivingUp
<1>5. CASE HoldRestoreReads(p)
  BY <1>5, <1>a DEF HoldRestoreReads, GivingUp
<1>6. CASE FailRestoreWrites(p) \/ HoldRestoreWrites(p)
  BY <1>6, <1>a DEF FailRestoreWrites, HoldRestoreWrites
<1>7. QED
  BY <1>1, <1>2, <1>3, <1>4, <1>5, <1>6 DEF TableSteps

(* What a claim hands to a process.                                        *)
LEMMA ClaimHands ==
  ASSUME RestoreBase, NEW p \in Conns, TableSteps(p)
  PROVE  \/ UNCHANGED <<task, version>> /\ ~ClaimsRestore(p)
         \/ \E t \in Rows : /\ task' = [task EXCEPT ![p] = t]
                            /\ version' = [version EXCEPT ![p] = tries[t] + 1]
                            /\ tries' = [tries EXCEPT ![t] = tries[t] + 1]
                            /\ ClaimsRestore(p)
<1>1. CASE ClaimsRestore(p)
  <2>1. PICK t \in Rows : /\ task' = [task EXCEPT ![p] = t]
                          /\ version' = [version EXCEPT ![p] = tries[t] + 1]
                          /\ tries' = [u \in Rows |-> IF u = t THEN tries[u] + 1 ELSE tries[u]]
    BY <1>1 DEF ClaimsRestore, Due, Lease
  <2>2. tries' = [tries EXCEPT ![t] = tries[t] + 1]
    BY <2>1 DEF RestoreBase, BRTypeOK, ObTypeOK
  <2>3. QED
    BY <1>1, <2>1, <2>2
<1>2. CASE ~ClaimsRestore(p)
  BY <1>2
  DEF TableSteps, FindsNoRestore, CompletesRestore, FailRestoreReads, FailRestoreWrites,
      HoldRestoreReads, HoldRestoreWrites, steady
<1>3. QED
  BY <1>1, <1>2

(* What the rest of the world does leaves the processes where they are.    *)
LEMMA EnvironmentStands ==
  ASSUME Environment \/ UNCHANGED brVars
  PROVE  UNCHANGED <<procVars, files, receipt>>
BY DEF Environment, brVars, StageRestore, RecordPreflight, Reviews, AuthorizeRestore, WindowOpens,
       WindowCloses, Lapse, Backoff, RequestRestoreReads, RequestRestoreWrites, Decides,
       SwitchKill, outside

LEMMA RestTypesAtStep ==
  ASSUME RestoreBase, [BRNext]_brVars
  PROVE  BRTypeOK'
<1> DEFINE Goal == /\ killSwitch' \in BOOLEAN
                   /\ place'    \in [Conns -> Spots]
                   /\ task'     \in [Conns -> Rows \cup {0}]
                   /\ looked'   \in [Conns -> BOOLEAN]
                   /\ version'  \in [Conns -> Nat]
                   /\ target'   \in [Conns -> Files]
                   /\ window'   \in [Rows -> {"before", "open", "over"}]
                   /\ files'    \in [Files -> Stored]
                   /\ receipt'  \in [Rows -> Nat]
                   /\ reviewed' \in [Requesters -> Rows \cup {0}]
                   /\ braked'   \subseteq Conns
                   /\ faults'   \in Nat
<1>0. /\ killSwitch \in BOOLEAN
      /\ place    \in [Conns -> Spots]
      /\ task     \in [Conns -> Rows \cup {0}]
      /\ looked   \in [Conns -> BOOLEAN]
      /\ version  \in [Conns -> Nat]
      /\ target   \in [Conns -> Files]
      /\ window   \in [Rows -> {"before", "open", "over"}]
      /\ files    \in [Files -> Stored]
      /\ receipt  \in [Rows -> Nat]
      /\ reviewed \in [Requesters -> Rows \cup {0}]
      /\ braked   \subseteq Conns
      /\ faults   \in Nat
      /\ tries    \in [Rows -> Nat]
  BY DEF RestoreBase, BRTypeOK, ObTypeOK, Stored
<1>1. ASSUME NEW p \in Conns, Moves(p) PROVE Goal
  <2>1. PICK s : CanMove(p, s) /\ place' = [place EXCEPT ![p] = s]
    BY <1>1, MovesDisturbNoTable
  <2>2. place' \in [Conns -> Spots]
    BY <1>0, <2>1, CanMoveStays
  <2>3. looked' \in [Conns -> BOOLEAN]
    BY <1>0, <1>1, MovesDisturbNoTable
  <2>4. QED
    BY <1>0, <1>1, <2>2, <2>3, MovesDisturbNoTable, FilesAtMove
<1>2. ASSUME NEW p \in Conns, TableSteps(p) PROVE Goal
  <2>1. place' \in [Conns -> Spots]
    BY <1>0, <1>2, TableStepPlaces DEF Spots
  <2>2. task' \in [Conns -> Rows \cup {0}] /\ version' \in [Conns -> Nat]
    BY <1>0, <1>2, ClaimHands
  <2>3. receipt' \in [Rows -> Nat]
    BY <1>0, <1>2
    DEF TableSteps, ClaimsRestore, FindsNoRestore, CompletesRestore, FailRestoreReads,
        FailRestoreWrites, HoldRestoreReads, HoldRestoreWrites, outside
  <2>4. QED
    BY <1>0, <1>2, <2>1, <2>2, <2>3, TableStepPlaces
<1>3. ASSUME NEW p \in Conns, Starts(p) PROVE Goal
  <2>1. place' \in [Conns -> Spots]
    BY <1>0, <1>3 DEF Starts, Goto, Spots
  <2>2. target' \in [Conns -> Files]
    BY <1>0, <1>3 DEF Starts
  <2>3. QED
    BY <1>0, <1>3, <2>1, <2>2 DEF Starts, held, outside
<1>4. ASSUME NEW p \in Conns, Crash(p) PROVE Goal
  <2>1. place' \in [Conns -> Spots] /\ looked' \in [Conns -> BOOLEAN] /\ faults' \in Nat
    BY <1>0, <1>4 DEF Crash, Goto, Spots
  <2>2. QED
    BY <1>0, <1>4, <2>1 DEF Crash, steady
<1>5. ASSUME Environment PROVE Goal
  <2>1. killSwitch' \in BOOLEAN /\ braked' \subseteq Conns
    BY <1>0, <1>5
    DEF Environment, StageRestore, RecordPreflight, Reviews, AuthorizeRestore, WindowOpens,
        WindowCloses, Lapse, Backoff, RequestRestoreReads, RequestRestoreWrites, Decides,
        SwitchKill, KillSwitchSet, outside, held
  <2>2. window' \in [Rows -> {"before", "open", "over"}] /\ faults' \in Nat
    BY <1>0, <1>5
    DEF Environment, StageRestore, RecordPreflight, Reviews, AuthorizeRestore, WindowOpens,
        WindowCloses, Lapse, Backoff, RequestRestoreReads, RequestRestoreWrites, Decides,
        SwitchKill, outside, held
  <2>3. reviewed' \in [Requesters -> Rows \cup {0}]
    BY <1>0, <1>5
    DEF Environment, StageRestore, RecordPreflight, Reviews, AuthorizeRestore, WindowOpens,
        WindowCloses, Lapse, Backoff, RequestRestoreReads, RequestRestoreWrites, Decides,
        SwitchKill
  <2>4. QED
    BY <1>0, <1>5, <2>1, <2>2, <2>3, EnvironmentStands DEF procVars
<1>6. ASSUME UNCHANGED brVars PROVE Goal
  BY <1>0, <1>6 DEF brVars, procVars, outside
<1>7. Goal
  BY <1>1, <1>2, <1>3, <1>4, <1>5, <1>6 DEF BRNext, RestoreStep, Moves, TableSteps
<1>8. QED
  BY <1>7, RowTypesAtStep, ApInvAtRestoreStep DEF ApInv, BRTypeOK, Stored

LEMMA SaneAtStep ==
  ASSUME RestoreBase, [BRNext]_brVars
  PROVE  \A q \in Conns : Sane(q)'
<1>0. /\ place \in [Conns -> Spots] /\ task \in [Conns -> Rows \cup {0}]
      /\ looked \in [Conns -> BOOLEAN] /\ \A q \in Conns : Sane(q)
  BY DEF RestoreBase, BRTypeOK
<1>1. ASSUME NEW q \in Conns, place'[q] = place[q], task'[q] = task[q], looked'[q] = looked[q]
      PROVE  Sane(q)'
  BY <1>0, <1>1 DEF Sane, Busy
<1>2. ASSUME NEW p \in Conns, NEW s, place' = [place EXCEPT ![p] = s],
             looked'[p] => s \in Guards,
             s \notin {"idle", "switch", "claim"} => task'[p] \in Rows,
             \A q \in Conns \ {p} : looked'[q] = looked[q] /\ task'[q] = task[q]
      PROVE  \A q \in Conns : Sane(q)'
  <2>1. place'[p] = s /\ \A q \in Conns \ {p} : place'[q] = place[q]
    BY <1>0, <1>2
  <2>2. Sane(p)'
    BY <1>2, <2>1 DEF Sane, Busy
  <2>3. QED
    BY <1>1, <1>2, <2>1, <2>2
<1>3. ASSUME NEW p \in Conns, Moves(p) PROVE \A q \in Conns : Sane(q)'
  <2>1. PICK s : CanMove(p, s) /\ place' = [place EXCEPT ![p] = s]
    BY <1>3, MovesDisturbNoTable
  <2>2. PICK b \in BOOLEAN : looked' = [looked EXCEPT ![p] = b]
                               /\ (b => place' = place /\ place[p] \in Guards)
    BY <1>3, MovesDisturbNoTable
  <2>3. task' = task /\ (s \notin {"idle", "switch", "claim"} => task[p] \in Rows)
    BY <1>3, <2>1, MovesDisturbNoTable, CanMoveStays, TaskAtHand
  <2>4. looked'[p] => s \in Guards
    BY <1>0, <2>1, <2>2
  <2>5. QED
    BY <1>0, <1>2, <2>1, <2>2, <2>3, <2>4
<1>4. ASSUME NEW p \in Conns, TableSteps(p) PROVE \A q \in Conns : Sane(q)'
  <2>1. looked' = looked /\ place[p] \notin Guards
    BY <1>4, TableStepPlaces DEF Guards
  <2>2. PICK s \in {"validate", "idle", "failing", "hold", "holding"} :
              /\ place' = [place EXCEPT ![p] = s]
              /\ s = "validate" <=> ClaimsRestore(p)
              /\ s = "hold" => At(p, "completing") /\ UNCHANGED <<task, version>>
              /\ s \in {"failing", "holding"}
                   => place[p] \in GivingUp /\ UNCHANGED <<task, version>>
    BY <1>4, TableStepPlaces
  <2>3. s \notin {"idle", "switch", "claim"} => task'[p] \in Rows
    <3>1. CASE s = "validate"
      BY <1>0, <1>4, <2>2, <3>1, ClaimHands
    <3>2. CASE s \in {"hold", "failing", "holding"}
      BY <2>2, <3>2, TaskAtHand DEF Busy, At, GivingUp
    <3>3. QED
      BY <3>1, <3>2
  <2>4. \A q \in Conns \ {p} : task'[q] = task[q]
    BY <1>0, <1>4, ClaimHands
  <2>5. QED
    BY <1>0, <1>2, <2>1, <2>2, <2>3, <2>4 DEF Sane
<1>5. ASSUME NEW p \in Conns, Starts(p) PROVE \A q \in Conns : Sane(q)'
  <2>1. place' = [place EXCEPT ![p] = "switch"] /\ UNCHANGED <<task, looked>> /\ place[p] = "idle"
    BY <1>5 DEF Starts, Goto, At
  <2>2. ~looked[p]
    BY <1>0, <2>1 DEF Sane, Guards
  <2>3. QED
    BY <1>2, <2>1, <2>2
<1>6. ASSUME NEW p \in Conns, Crash(p) PROVE \A q \in Conns : Sane(q)'
  <2>1. place' = [place EXCEPT ![p] = "idle"] /\ looked' = [looked EXCEPT ![p] = FALSE]
          /\ UNCHANGED task
    BY <1>6 DEF Crash, Goto, steady
  <2>2. QED
    BY <1>0, <1>2, <2>1
<1>7. CASE Environment \/ UNCHANGED brVars
  BY <1>1, <1>7, EnvironmentStands DEF procVars
<1>8. QED
  BY <1>3, <1>4, <1>5, <1>6, <1>7 DEF BRNext, RestoreStep, Moves, TableSteps

LEMMA BaseKept == ASSUME RestoreBase, [BRNext]_brVars PROVE RestoreBase'
BY RestTypesAtStep, ApInvAtRestoreStep, SaneAtStep DEF RestoreBase

LEMMA BaseHolds == BRSpec => []RestoreBase
<1>1. BRInit => RestoreBase
  BY BaseAtInit
<1>2. RestoreBase /\ [BRNext]_brVars => RestoreBase'
  BY BaseKept
<1>3. QED
  BY <1>1, <1>2, PTL DEF BRSpec

(* Every variable keeps its type, and every place a process can be is one. *)
THEOREM RestoreTypeCorrect == BRSpec => []BRTypeOK
BY BaseHolds, PTL DEF RestoreBase

-----------------------------------------------------------------------------
(* The kill switch: a process that was short of the decryption when it went *)
(* ON stays short of it, or gives up, until it is OFF.                     *)
Stopped(p) == ShortOfDecryption(p) \/ place[p] \in GivingUp
BrakeInv == \A p \in braked : killSwitch /\ Stopped(p)

LEMMA BrakeInvAtStep ==
  ASSUME RestoreBase, BrakeInv, [BRNext]_brVars
  PROVE  BrakeInv'
<1>0. place \in [Conns -> Spots] /\ killSwitch \in BOOLEAN /\ braked \subseteq Conns
  BY DEF RestoreBase, BRTypeOK
<1>1. ASSUME NEW p \in Conns, NEW s, place' = [place EXCEPT ![p] = s],
             UNCHANGED <<killSwitch, braked>>,
             p \in braked => s \in {"idle", "switch", "claim", "validate", "before_download",
                                    "download", "after_download"} \cup GivingUp
      PROVE  BrakeInv'
  BY <1>0, <1>1 DEF BrakeInv, Stopped, ShortOfDecryption
<1>2. ASSUME UNCHANGED <<killSwitch, braked, place>> PROVE BrakeInv'
  BY <1>2 DEF BrakeInv, Stopped, ShortOfDecryption
<1>3. ASSUME NEW p \in Conns, Moves(p) PROVE BrakeInv'
  <2>1. PICK s : CanMove(p, s) /\ place' = [place EXCEPT ![p] = s]
    BY <1>3, MovesDisturbNoTable
  <2>2. UNCHANGED <<killSwitch, braked>>
    BY <1>3, MovesDisturbNoTable
  <2>3. ASSUME p \in braked
        PROVE  s \in {"idle", "switch", "claim", "validate", "before_download", "download",
                      "after_download"} \cup GivingUp
    <3>1. killSwitch /\ Stopped(p)
      BY <2>3 DEF BrakeInv
    <3>2. QED
      BY <2>1, <3>1 DEF CanMove, Stopped, ShortOfDecryption, GivingUp, At
  <2>4. QED
    BY <1>1, <2>1, <2>2, <2>3
<1>4. ASSUME NEW p \in Conns, TableSteps(p) PROVE BrakeInv'
  <2>1. UNCHANGED <<killSwitch, braked>>
    BY <1>4, TableStepPlaces
  <2>2. \E s \in {"validate", "idle", "failing", "hold", "holding"} :
          place' = [place EXCEPT ![p] = s]
    BY <1>4, TableStepPlaces
  <2>3. QED
    BY <1>1, <2>1, <2>2 DEF GivingUp
<1>5. ASSUME NEW p \in Conns, Starts(p) \/ Crash(p) PROVE BrakeInv'
  BY <1>1, <1>5 DEF Starts, Crash, Goto, held, outside
<1>6. ASSUME NEW on \in BOOLEAN, SwitchKill(on) PROVE BrakeInv'
  <2>1. place' = place /\ killSwitch' = on
    BY <1>6 DEF SwitchKill, KillSwitchSet, procVars
  <2>2. CASE on /\ ~killSwitch
    <3>1. braked' = {p \in Conns : ShortOfDecryption(p)}
      BY <1>6, <2>2 DEF SwitchKill
    <3>2. QED
      BY <2>1, <2>2, <3>1 DEF BrakeInv, Stopped, ShortOfDecryption
  <2>3. CASE on /\ killSwitch
    BY <1>2, <1>6, <2>1, <2>3 DEF SwitchKill
  <2>4. CASE ~on
    BY <1>6, <2>4 DEF SwitchKill, BrakeInv
  <2>5. QED
    BY <1>0, <2>2, <2>3, <2>4
<1>7. ASSUME Environment, ~\E on \in BOOLEAN : SwitchKill(on) PROVE BrakeInv'
  <2>1. UNCHANGED <<killSwitch, braked>>
    BY <1>7
    DEF Environment, StageRestore, RecordPreflight, Reviews, AuthorizeRestore, WindowOpens,
        WindowCloses, Lapse, Backoff, RequestRestoreReads, RequestRestoreWrites, Decides,
        outside, held
  <2>2. UNCHANGED place
    BY <1>7, EnvironmentStands DEF procVars
  <2>3. QED
    BY <1>2, <2>1, <2>2
<1>8. ASSUME UNCHANGED brVars PROVE BrakeInv'
  BY <1>2, <1>8 DEF brVars, procVars, outside
<1>9. QED
  BY <1>3, <1>4, <1>5, <1>6, <1>7, <1>8 DEF BRNext, RestoreStep, Moves, TableSteps

(* "Enable the Sean kill switch to block new claims and every execution    *)
(* guard" (ISOLATED_RESTORE_RUNBOOK.md), for any number of workers: who was *)
(* short of the decryption when it went ON publishes nothing until it is   *)
(* OFF, wherever between its guards it was.                                *)
THEOREM NoRestoreUnderKillSwitch == BRSpec => []KillSwitchStopsRestores
<1>1. BRInit => BrakeInv
  BY DEF BRInit, BrakeInv
<1>2. RestoreBase /\ BrakeInv /\ [BRNext]_brVars => BrakeInv'
  BY BrakeInvAtStep
<1>3. BrakeInv => KillSwitchStopsRestores
  BY DEF BrakeInv, Stopped, ShortOfDecryption, GivingUp, KillSwitchStopsRestores
<1>4. QED
  BY <1>1, <1>2, <1>3, BaseHolds, PTL DEF BRSpec

-----------------------------------------------------------------------------
(* Failures: what fail_claimed has read may be old when it writes, but      *)
(* attempts never go down and a window that is over stays over.            *)
VerdictIsDue ==
  \A p \in Conns : failing[p].row # 0 /\ failing[p].dead
    => tries[failing[p].row] >= MaxTries[failing[p].row]

CauseInv == FailedForCause /\ VerdictIsDue

LEMMA CauseInvAtTableStep ==
  ASSUME RestoreBase, CauseInv, NEW p \in Conns, TableSteps(p)
  PROVE  CauseInv'
<1> USE DEF CauseInv, FailedForCause, VerdictIsDue
<1>0. /\ status \in [Rows -> RowStatuses] /\ tries \in [Rows -> Nat]
      /\ MaxTries \in [Rows -> Nat \ {0}] /\ window' = window
      /\ failing \in [Conns -> [row : Rows \cup {0}, dead : BOOLEAN]]
  BY OutboxAssumption, TableStepPlaces DEF RestoreBase, BRTypeOK, ObTypeOK
<1>1. ASSUME UNCHANGED <<status, tries, failing>> PROVE CauseInv'
  BY <1>0, <1>1
<1>2. ASSUME NEW t \in Rows, NEW s, s # "FAILED",
             status' = [status EXCEPT ![t] = s], UNCHANGED <<tries, failing>>
      PROVE  CauseInv'
  BY <1>0, <1>2
<1>3. ASSUME NEW t, NEW dead \in SUBSET Rows, Lease(p, t, dead), \A u \in dead : Hopeless(u)
      PROVE  CauseInv'
  <2>1. /\ status' = [u \in Rows |-> IF u \in dead THEN "FAILED" ELSE status[u]]
        /\ tries' = [u \in Rows |-> IF u = t THEN tries[u] + 1 ELSE tries[u]]
        /\ failing' = failing
    BY <1>3 DEF Lease, callVars
  <2>2. \A u \in Rows : tries'[u] >= tries[u] /\ tries'[u] \in Nat /\ MaxTries[u] \in Nat
    BY <1>0, <2>1
  <2>3. \A u \in dead : tries[u] >= MaxTries[u] \/ window[u] = "over"
    BY <1>3 DEF Hopeless, Exhausted
  <2>4. FailedForCause'
    BY <1>0, <2>1, <2>2, <2>3
  <2>5. VerdictIsDue'
    BY <1>0, <2>1, <2>2
  <2>6. QED
    BY <2>4, <2>5
<1>4. ASSUME ClaimsRestore(p) \/ FindsNoRestore(p) PROVE CauseInv'
  <2>1. CASE ClaimsRestore(p)
    <3>1. PICK t \in Rows : Lease(p, t, {u \in Due : u < t /\ Hopeless(u)})
      BY <2>1 DEF ClaimsRestore, Due
    <3>2. {u \in Due : u < t /\ Hopeless(u)} \in SUBSET Rows
      BY DEF Due
    <3>3. QED
      BY <1>3, <3>1, <3>2
  <2>2. CASE FindsNoRestore(p)
    <3>1. Lease(p, 0, {u \in Due : Hopeless(u)})
      BY <2>2 DEF FindsNoRestore
    <3>2. {u \in Due : Hopeless(u)} \in SUBSET Rows
      BY DEF Due
    <3>3. QED
      BY <1>3, <3>1, <3>2
  <2>3. QED
    BY <1>4, <2>1, <2>2
<1>5. ASSUME CompletesRestore(p) PROVE CauseInv'
  <2>1. CASE Complete(p, task[p], "RESTORED")
    <3>1. task[p] \in Rows
      BY <1>5, TaskAtHand DEF Busy, CompletesRestore, At
    <3>2. QED
      BY <1>2, <2>1, <3>1 DEF Complete, SetStatus, callVars
  <2>2. QED
    BY <1>1, <1>5, <2>1 DEF CompletesRestore, obVars, rowVars, callVars
<1>6. ASSUME FailRestoreReads(p) PROVE CauseInv'
  <2>1. CASE FailReads(p, task[p])
    <3>1. /\ failing' = [failing EXCEPT ![p] = [row |-> task[p], dead |-> Exhausted(task[p])]]
          /\ UNCHANGED <<status, tries>>
      BY <2>1 DEF FailReads, rowVars
    <3>2. \A q \in Conns : failing'[q].row # 0 /\ failing'[q].dead
            => tries[failing'[q].row] >= MaxTries[failing'[q].row]
      BY <1>0, <3>1 DEF Exhausted
    <3>3. QED
      BY <1>0, <3>1, <3>2
  <2>2. QED
    BY <1>1, <1>6, <2>1 DEF FailRestoreReads, obVars, rowVars, callVars
<1>7. ASSUME FailRestoreWrites(p) PROVE CauseInv'
  <2> DEFINE t == failing[p].row
  <2>1. /\ t \in Rows /\ t # 0 /\ tries' = tries
        /\ status' = [status EXCEPT ![t] = IF failing[p].dead THEN "FAILED" ELSE "AUTHORIZED"]
        /\ failing' = [failing EXCEPT ![p] = NotFailing]
    BY <1>0, <1>7 DEF FailRestoreWrites, FailWrites, SetStatus
  <2>2. failing[p].dead => tries[t] >= MaxTries[t]
    BY <2>1
  <2> HIDE DEF t
  <2>3. FailedForCause'
    BY <1>0, <2>1, <2>2
  <2>4. VerdictIsDue'
    BY <1>0, <2>1 DEF NotFailing
  <2>5. QED
    BY <2>1, <2>3, <2>4
<1>8. ASSUME HoldRestoreWrites(p) PROVE CauseInv'
  <2>1. CASE Holds(p, holding[p])
    <3>1. holding[p] \in Rows
      BY <1>8 DEF HoldRestoreWrites, HoldWrites, RestoreBase, BRTypeOK, ObTypeOK
    <3>2. QED
      BY <1>2, <1>8, <2>1, <3>1 DEF HoldRestoreWrites, HoldWrites, SetStatus
  <2>2. QED
    BY <1>1, <1>8, <2>1 DEF HoldRestoreWrites, HoldWrites
<1>9. ASSUME HoldRestoreReads(p) PROVE CauseInv'
  BY <1>1, <1>9 DEF HoldRestoreReads, HoldReads, obVars, rowVars, callVars
<1>10. QED
  BY <1>4, <1>5, <1>6, <1>7, <1>8, <1>9 DEF TableSteps

LEMMA CauseInvAtStep ==
  ASSUME RestoreBase, CauseInv, [BRNext]_brVars
  PROVE  CauseInv'
<1> USE DEF CauseInv, FailedForCause, VerdictIsDue
<1>0. /\ status \in [Rows -> RowStatuses] /\ window \in [Rows -> {"before", "open", "over"}]
      /\ failing \in [Conns -> [row : Rows \cup {0}, dead : BOOLEAN]]
  BY DEF RestoreBase, BRTypeOK, ObTypeOK
<1>1. ASSUME UNCHANGED <<status, tries, failing>>,
             \A t \in Rows : window[t] = "over" => window'[t] = "over"
      PROVE  CauseInv'
  BY <1>1
<1>2. ASSUME NEW t \in Rows, NEW s, s # "FAILED",
             status' = [status EXCEPT ![t] = s], UNCHANGED <<tries, failing, window>>
      PROVE  CauseInv'
  BY <1>0, <1>2
<1>3. ASSUME NEW p \in Conns, Moves(p) \/ Starts(p) PROVE CauseInv'
  BY <1>1, <1>3, MovesDisturbNoTable DEF Starts, held, outside, obVars, rowVars, callVars
<1>4. ASSUME NEW p \in Conns, Crash(p) PROVE CauseInv'
  BY <1>0, <1>4 DEF Crash, ObDisconnects, rowVars, NotFailing
<1>5. ASSUME NEW t \in Rows, StageRestore(t) \/ RecordPreflight(t) PROVE CauseInv'
  BY <1>2, <1>5
  DEF StageRestore, StageRow, RecordPreflight, Preflight, SetStatus, callVars, outside
<1>6. ASSUME NEW t \in Rows, NEW a \in Approvals, AuthorizeRestore(t, a) PROVE CauseInv'
  BY <1>2, <1>6 DEF AuthorizeRestore, Authorize, SetStatus, callVars, outside
<1>7. ASSUME NEW t \in Rows, WindowOpens(t) \/ WindowCloses(t) PROVE CauseInv'
  BY <1>0, <1>1, <1>7 DEF WindowOpens, WindowCloses, held, obVars, rowVars, callVars
<1>8. ASSUME Environment,
             ~\E t \in Rows : \/ StageRestore(t) \/ RecordPreflight(t)
                              \/ WindowOpens(t) \/ WindowCloses(t)
                              \/ \E a \in Approvals : AuthorizeRestore(t, a)
      PROVE  CauseInv'
  <2>1. UNCHANGED <<status, tries, failing, window>>
    BY <1>8
    DEF Environment, Reviews, RequestRestoreReads, RequestReads, RequestRestoreWrites,
        RequestWrites, Lapse, LeaseLapses, Backoff, BackoffEnds, Decides, SwitchKill,
        outside, held, obVars, rowVars, callVars
  <2>2. QED
    BY <1>1, <2>1
<1>9. ASSUME UNCHANGED brVars PROVE CauseInv'
  BY <1>1, <1>9 DEF brVars, obVars, rowVars, callVars, outside
<1>10. QED
  BY CauseInvAtTableStep, <1>3, <1>4, <1>5, <1>6, <1>7, <1>8, <1>9
  DEF BRNext, RestoreStep, Moves, TableSteps, Environment

(* A restore is given up only because its attempts or its window are used  *)
(* up, also by failures that are written late.                             *)
THEOREM GivenUpForCause == BRSpec => []FailedForCause
<1>1. BRInit => CauseInv
  BY DEF BRInit, ObInit, CauseInv, FailedForCause, VerdictIsDue, NotFailing
<1>2. RestoreBase /\ CauseInv /\ [BRNext]_brVars => CauseInv'
  BY CauseInvAtStep
<1>3. QED
  BY <1>1, <1>2, BaseHolds, PTL DEF BRSpec, CauseInv

-----------------------------------------------------------------------------
(* Plaintexts: attempts of a plan are told apart by their number, so a     *)
(* path holds the plaintext of the process that published there, and only  *)
(* that process takes it back, before its outcome is known.                *)
Published(p) == place[p] \in {"cleanup", "after_decryption", "complete", "completing"}

VersionsInv ==
  /\ \A t \in Rows : receipt[t] <= tries[t]
  /\ \A p \in Conns : Busy(p) =>
       /\ version[p] <= tries[task[p]]
       /\ version[p] # receipt[task[p]]
       /\ \A q \in Conns \ {p} : Busy(q) /\ task[q] = task[p] => version[q] # version[p]

FilesInv ==
  /\ ReceiptAttestsFile
  /\ \A p \in Conns : Published(p) => files[target[p]] = <<task[p], version[p]>>

LEMMA TypesForFiles ==
  ASSUME RestoreBase
  PROVE  /\ place \in [Conns -> Spots] /\ task \in [Conns -> Rows \cup {0}]
         /\ version \in [Conns -> Nat] /\ target \in [Conns -> Files]
         /\ files \in [Files -> Stored] /\ receipt \in [Rows -> Nat]
         /\ tries \in [Rows -> Nat] /\ status \in [Rows -> RowStatuses]
         /\ Rows \subseteq Nat \ {0}
         /\ \A p \in Conns : Busy(p) => task[p] \in Rows
BY OutboxAssumption DEF RestoreBase, BRTypeOK, ObTypeOK, Stored, Sane

(* Only the completion of a restore makes a plan RESTORED.                 *)
LEMMA RestoredByCompletion ==
  ASSUME RestoreBase, [BRNext]_brVars, \A p \in Conns : ~CompletesRestore(p)
  PROVE  /\ receipt' = receipt
         /\ \A t \in Rows : /\ status'[t] = "RESTORED" => status[t] = "RESTORED"
                            /\ tries'[t] >= tries[t]
<1> DEFINE Goal == /\ receipt' = receipt
                   /\ \A t \in Rows : /\ status'[t] = "RESTORED" => status[t] = "RESTORED"
                                      /\ tries'[t] >= tries[t]
<1>0. /\ status \in [Rows -> RowStatuses] /\ tries \in [Rows -> Nat]
      /\ failing \in [Conns -> [row : Rows \cup {0}, dead : BOOLEAN]]
  BY TypesForFiles DEF RestoreBase, BRTypeOK, ObTypeOK
<1>1. ASSUME UNCHANGED <<status, tries, receipt>> PROVE Goal
  BY <1>0, <1>1
<1>2. ASSUME NEW t, NEW s, s # "RESTORED", status' = [status EXCEPT ![t] = s],
             UNCHANGED <<tries, receipt>>
      PROVE  Goal
  BY <1>0, <1>2
<1>3. ASSUME NEW p \in Conns, NEW t, NEW dead, Lease(p, t, dead), UNCHANGED receipt PROVE Goal
  BY <1>0, <1>3 DEF Lease
<1>4. ASSUME NEW p \in Conns, Moves(p) \/ Starts(p) \/ Crash(p) PROVE Goal
  BY <1>1, <1>4, MovesDisturbNoTable
  DEF Starts, Crash, ObDisconnects, held, outside, obVars, rowVars
<1>5. ASSUME NEW p \in Conns, ClaimsRestore(p) \/ FindsNoRestore(p) PROVE Goal
  BY <1>3, <1>5 DEF ClaimsRestore, FindsNoRestore, outside
<1>6. ASSUME NEW p \in Conns, FailRestoreReads(p) \/ HoldRestoreReads(p) PROVE Goal
  BY <1>1, <1>6
  DEF FailRestoreReads, FailReads, HoldRestoreReads, HoldReads, outside, obVars, rowVars
<1>7. ASSUME NEW p \in Conns, FailRestoreWrites(p) PROVE Goal
  <2>1. \E s \in {"FAILED", "AUTHORIZED"} : status' = [status EXCEPT ![failing[p].row] = s]
    BY <1>7 DEF FailRestoreWrites, FailWrites, SetStatus
  <2>2. UNCHANGED <<tries, receipt>>
    BY <1>7 DEF FailRestoreWrites, FailWrites, outside
  <2>3. QED
    BY <1>2, <2>1, <2>2
<1>8. ASSUME NEW p \in Conns, HoldRestoreWrites(p) PROVE Goal
  BY <1>1, <1>2, <1>8 DEF HoldRestoreWrites, HoldWrites, SetStatus, outside
<1>9. ASSUME NEW t \in Rows, StageRestore(t) \/ RecordPreflight(t) PROVE Goal
  BY <1>2, <1>9 DEF StageRestore, StageRow, RecordPreflight, Preflight, SetStatus, outside
<1>10. ASSUME NEW t \in Rows, NEW a \in Approvals, AuthorizeRestore(t, a) PROVE Goal
  BY <1>2, <1>10 DEF AuthorizeRestore, Authorize, SetStatus, outside
<1>11. ASSUME Environment,
              ~\E t \in Rows : \/ StageRestore(t) \/ RecordPreflight(t)
                               \/ \E a \in Approvals : AuthorizeRestore(t, a)
       PROVE  Goal
  <2>1. UNCHANGED <<status, tries>>
    BY <1>11
    DEF Environment, Reviews, RequestRestoreReads, RequestReads, RequestRestoreWrites,
        RequestWrites, WindowOpens, WindowCloses, Lapse, LeaseLapses, Backoff, BackoffEnds,
        Decides, SwitchKill, held, obVars, rowVars
  <2>2. QED
    BY <1>1, <1>11, <2>1, EnvironmentStands
<1>12. ASSUME UNCHANGED brVars PROVE Goal
  BY <1>1, <1>12 DEF brVars, obVars, rowVars, outside
<1>13. QED
  BY <1>4, <1>5, <1>6, <1>7, <1>8, <1>9, <1>10, <1>11, <1>12
  DEF BRNext, RestoreStep, Moves, TableSteps, Environment

(* Nobody but a claiming process becomes busy.                             *)
LEMMA BusyByClaim ==
  ASSUME RestoreBase, [BRNext]_brVars, NEW q \in Conns, ~ClaimsRestore(q), Busy(q)'
  PROVE  Busy(q) /\ task'[q] = task[q] /\ version'[q] = version[q]
<1>0. place \in [Conns -> Spots] /\ task \in [Conns -> Rows \cup {0}] /\ version \in [Conns -> Nat]
  BY TypesForFiles
<1>1. ASSUME UNCHANGED <<place, task, version>>
      PROVE  Busy(q) /\ task'[q] = task[q] /\ version'[q] = version[q]
  BY <1>1 DEF Busy
<1>2. CASE Environment \/ UNCHANGED brVars
  BY <1>1, <1>2, EnvironmentStands DEF procVars
<1>3. ASSUME NEW p \in Conns, Moves(p)
      PROVE  Busy(q) /\ task'[q] = task[q] /\ version'[q] = version[q]
  <2>1. PICK s : CanMove(p, s) /\ place' = [place EXCEPT ![p] = s]
    BY <1>3, MovesDisturbNoTable
  <2>2. UNCHANGED <<task, version>>
    BY <1>3, MovesDisturbNoTable
  <2>3. s \notin {"idle", "switch", "claim"} => Busy(p)
    BY <2>1, CanMoveStays
  <2>4. QED
    BY <1>0, <2>1, <2>2, <2>3 DEF Busy
<1>4. ASSUME NEW p \in Conns, Starts(p) \/ Crash(p)
      PROVE  Busy(q) /\ task'[q] = task[q] /\ version'[q] = version[q]
  <2>1. /\ UNCHANGED <<task, version>>
        /\ \E s \in {"idle", "switch"} : place' = [place EXCEPT ![p] = s]
    BY <1>4 DEF Starts, Crash, Goto, steady
  <2>2. QED
    BY <1>0, <2>1 DEF Busy
<1>5. ASSUME NEW p \in Conns, TableSteps(p)
      PROVE  Busy(q) /\ task'[q] = task[q] /\ version'[q] = version[q]
  <2>1. place[p] \in {"claim", "completing", "fail", "failing", "hold", "holding"}
    BY <1>5, TableStepPlaces
  <2>2. PICK s \in {"validate", "idle", "failing", "hold", "holding"} :
              /\ place' = [place EXCEPT ![p] = s]
              /\ s = "validate" <=> ClaimsRestore(p)
              /\ s = "hold" => At(p, "completing") /\ UNCHANGED <<task, version>>
              /\ s \in {"failing", "holding"}
                   => place[p] \in GivingUp /\ UNCHANGED <<task, version>>
    BY <1>5, TableStepPlaces
  <2>3. \A r \in Conns \ {p} : task'[r] = task[r] /\ version'[r] = version[r]
    BY <1>0, <1>5, ClaimHands
  <2>4. CASE q # p
    BY <1>0, <2>2, <2>3, <2>4 DEF Busy
  <2>5. CASE q = p
    BY <1>0, <2>2, <2>5 DEF Busy, At, GivingUp
  <2>6. QED
    BY <2>4, <2>5
<1>6. QED
  BY <1>2, <1>3, <1>4, <1>5 DEF BRNext, RestoreStep, Moves, TableSteps

LEMMA ReceiptAtCompletion ==
  ASSUME RestoreBase, NEW p \in Conns, CompletesRestore(p)
  PROVE  /\ At(p, "completing") /\ task[p] \in Rows
         /\ UNCHANGED <<task, version, target, files, tries>>
         /\ \/ UNCHANGED <<status, receipt>>
            \/ /\ Goto(p, "idle")
               /\ receipt' = [receipt EXCEPT ![task[p]] = version[p]]
               /\ status' = [status EXCEPT ![task[p]] = "RESTORED"]
<1>1. At(p, "completing") /\ UNCHANGED <<task, version, target, files>>
  BY DEF CompletesRestore, steady
<1>2. task[p] \in Rows
  BY <1>1, TypesForFiles DEF Busy, At
<1>3. tries' = tries
  BY DEF CompletesRestore, Complete, obVars, rowVars
<1>4. \/ UNCHANGED <<status, receipt>>
      \/ /\ Goto(p, "idle")
         /\ receipt' = [receipt EXCEPT ![task[p]] = version[p]]
         /\ status' = [status EXCEPT ![task[p]] = "RESTORED"]
  BY DEF CompletesRestore, Complete, SetStatus, obVars, rowVars
<1>5. QED
  BY <1>1, <1>2, <1>3, <1>4

LEMMA VersionsInvAtStep ==
  ASSUME RestoreBase, VersionsInv, [BRNext]_brVars
  PROVE  VersionsInv'
<1>0. /\ place \in [Conns -> Spots] /\ task \in [Conns -> Rows \cup {0}]
      /\ version \in [Conns -> Nat] /\ receipt \in [Rows -> Nat] /\ tries \in [Rows -> Nat]
      /\ \A p \in Conns : Busy(p) => task[p] \in Rows
  BY TypesForFiles
<1>1. CASE \E p \in Conns : ClaimsRestore(p)
  <2>1. PICK p \in Conns : ClaimsRestore(p)
    BY <1>1
  <2>2. PICK t \in Rows : /\ task' = [task EXCEPT ![p] = t]
                          /\ version' = [version EXCEPT ![p] = tries[t] + 1]
                          /\ tries' = [tries EXCEPT ![t] = tries[t] + 1]
    BY <2>1, ClaimHands DEF TableSteps
  <2>3. place' = [place EXCEPT ![p] = "validate"] /\ receipt' = receipt
    BY <2>1 DEF ClaimsRestore, Goto, outside
  <2>4. \A q \in Conns \ {p} : /\ task'[q] = task[q] /\ version'[q] = version[q]
                               /\ Busy(q)' => Busy(q)
    BY <1>0, <2>2, <2>3 DEF Busy
  <2>5. \A u \in Rows : tries[u] \in Nat /\ receipt[u] \in Nat /\ tries'[u] >= tries[u]
                          /\ tries'[u] \in Nat
    BY <1>0, <2>2
  <2>6. task'[p] = t /\ version'[p] = tries[t] + 1 /\ tries'[t] = tries[t] + 1
    BY <1>0, <2>2
  <2>7. \A u \in Rows : receipt'[u] <= tries'[u]
    BY <2>3, <2>5 DEF VersionsInv
  <2>8. version'[p] <= tries'[t] /\ version'[p] # receipt'[t]
    BY <2>3, <2>5, <2>6 DEF VersionsInv
  <2>9. ASSUME NEW q \in Conns \ {p}, Busy(q)'
        PROVE  /\ version'[q] <= tries'[task'[q]] /\ version'[q] # receipt'[task'[q]]
               /\ task'[q] = t => version'[q] # version'[p]
    <3>1. Busy(q) /\ task'[q] = task[q] /\ version'[q] = version[q] /\ task[q] \in Rows
      BY <1>0, <2>4, <2>9
    <3>2. version[q] <= tries[task[q]] /\ version[q] # receipt[task[q]] /\ version[q] \in Nat
      BY <1>0, <3>1 DEF VersionsInv
    <3>3. QED
      BY <2>3, <2>5, <2>6, <3>1, <3>2
  <2>10. ASSUME NEW q \in Conns \ {p}, NEW r \in Conns \ {q}, r # p,
                Busy(q)', Busy(r)', task'[r] = task'[q]
         PROVE  version'[r] # version'[q]
    BY <2>4, <2>10 DEF VersionsInv
  <2>11. QED
    BY <2>6, <2>7, <2>8, <2>9, <2>10 DEF VersionsInv
<1>2. CASE ~\E p \in Conns : ClaimsRestore(p)
  <2>1. \A q \in Conns : Busy(q)' => Busy(q) /\ task'[q] = task[q] /\ version'[q] = version[q]
    BY <1>2, BusyByClaim
  <2>2. CASE \E p \in Conns : CompletesRestore(p)
    <3>1. PICK p \in Conns : CompletesRestore(p)
      BY <2>2
    <3>2. tries' = tries /\ task[p] \in Rows /\ Busy(p)
      BY <3>1, ReceiptAtCompletion DEF Busy, At
    <3>3. CASE receipt' = receipt
      BY <2>1, <3>2, <3>3 DEF VersionsInv
    <3>4. CASE Goto(p, "idle") /\ receipt' = [receipt EXCEPT ![task[p]] = version[p]]
      <4>1. ~Busy(p)'
        BY <1>0, <3>4 DEF Goto, Busy
      <4>2. \A u \in Rows : receipt'[u] <= tries'[u]
        BY <1>0, <3>2, <3>4 DEF VersionsInv
      <4>3. ASSUME NEW q \in Conns, Busy(q)' PROVE version[q] # receipt'[task[q]]
        <5>1. q # p /\ Busy(q) /\ task[q] \in Rows
          BY <1>0, <2>1, <4>1, <4>3
        <5>2. CASE task[q] = task[p]
          BY <1>0, <3>2, <3>4, <5>1, <5>2 DEF VersionsInv
        <5>3. CASE task[q] # task[p]
          BY <1>0, <3>4, <5>1, <5>3 DEF VersionsInv
        <5>4. QED
          BY <5>2, <5>3
      <4>4. QED
        BY <2>1, <3>2, <4>2, <4>3 DEF VersionsInv
    <3>5. QED
      BY <3>1, <3>3, <3>4, ReceiptAtCompletion
  <2>3. CASE ~\E p \in Conns : CompletesRestore(p)
    <3>1. receipt' = receipt /\ \A t \in Rows : tries'[t] >= tries[t]
      BY <2>3, RestoredByCompletion
    <3>2. \A t \in Rows : tries'[t] \in Nat
      BY BaseKept DEF RestoreBase, BRTypeOK, ObTypeOK
    <3>3. \A t \in Rows : receipt'[t] <= tries'[t]
      BY <1>0, <3>1, <3>2 DEF VersionsInv
    <3>4. ASSUME NEW q \in Conns, Busy(q)'
          PROVE  version'[q] <= tries'[task'[q]] /\ version'[q] # receipt'[task'[q]]
      <4>1. Busy(q) /\ task'[q] = task[q] /\ version'[q] = version[q] /\ task[q] \in Rows
        BY <1>0, <2>1, <3>4
      <4>2. version[q] <= tries[task[q]] /\ version[q] # receipt[task[q]] /\ version[q] \in Nat
        BY <1>0, <4>1 DEF VersionsInv
      <4>3. QED
        BY <1>0, <3>1, <3>2, <4>1, <4>2
    <3>5. QED
      BY <2>1, <3>3, <3>4 DEF VersionsInv
  <2>4. QED
    BY <2>2, <2>3
<1>3. QED
  BY <1>1, <1>2

(* One step and the plaintexts.                                            *)
LEMMA FilesInvAtMove ==
  ASSUME RestoreBase, VersionsInv, FilesInv, NEW p \in Conns, Moves(p)
  PROVE  FilesInv'
<1>0. /\ place \in [Conns -> Spots] /\ target \in [Conns -> Files]
      /\ files \in [Files -> Stored] /\ Rows \subseteq Nat \ {0}
      /\ \A q \in Conns : Busy(q) => task[q] \in Rows
  BY TypesForFiles
<1>1. UNCHANGED <<task, version, target, receipt, status>>
  BY MovesDisturbNoTable DEF obVars, rowVars
<1>2. PICK s : CanMove(p, s) /\ place' = [place EXCEPT ![p] = s]
  BY MovesDisturbNoTable
<1>3. \A q \in Conns \ {p} : Published(q)' => Published(q)
  BY <1>0, <1>2 DEF Published
<1>4. \A q \in Conns : Published(q) => Busy(q)
  BY DEF Published, Busy
<1>5. place'[p] = s /\ (Published(p)' => Published(p) \/ At(p, "link"))
  BY <1>0, <1>2 DEF CanMove, Published, At, Guards
<1>6. ASSUME UNCHANGED files, At(p, "link") => Goto(p, "caught")
      PROVE  FilesInv'
  <2>1. Published(p)' => Published(p)
    BY <1>0, <1>5, <1>6 DEF Goto, Published
  <2>2. \A q \in Conns : Published(q)' => Published(q)
    BY <1>3, <2>1
  <2>3. QED
    BY <1>1, <1>6, <2>2 DEF FilesInv, ReceiptAttestsFile
<1>7. ASSUME At(p, "link"), Free(target[p]),
             files' = [files EXCEPT ![target[p]] = <<task[p], version[p]>>]
      PROVE  FilesInv'
  <2>1. files'[target[p]] = <<task[p], version[p]>>
    BY <1>0, <1>7
  <2>2. \A f \in Files : files[f] # Nothing => files'[f] = files[f]
    BY <1>0, <1>7 DEF Free
  <2>3. \A t \in Rows : \A v : <<t, v>> # Nothing
    BY <1>0 DEF Nothing
  <2>4. ReceiptAttestsFile'
    <3>1. ASSUME NEW t \in Rows, status'[t] = "RESTORED"
          PROVE  \E f \in Files : files'[f] = <<t, receipt'[t]>>
      <4>1. PICK f \in Files : files[f] = <<t, receipt[t]>>
        BY <1>1, <3>1 DEF FilesInv, ReceiptAttestsFile
      <4>2. files'[f] = files[f]
        BY <2>2, <2>3, <4>1
      <4>3. QED
        BY <1>1, <4>1, <4>2
    <3>2. QED
      BY <3>1 DEF ReceiptAttestsFile
  <2>5. ASSUME NEW q \in Conns \ {p}, Published(q)'
        PROVE  files'[target[q]] = <<task[q], version[q]>>
    <3>1. files[target[q]] = <<task[q], version[q]>> /\ task[q] \in Rows
      BY <1>0, <1>3, <1>4, <2>5 DEF FilesInv
    <3>2. QED
      BY <1>0, <2>2, <2>3, <3>1
  <2>6. QED
    BY <1>1, <2>1, <2>4, <2>5 DEF FilesInv
<1>8. ASSUME At(p, "cleanup"), files' = [files EXCEPT ![target[p]] = Nothing], Goto(p, "caught")
      PROVE  FilesInv'
  <2>1. ~Published(p)' /\ Published(p) /\ Busy(p)
    BY <1>0, <1>8 DEF Goto, Published, Busy, At
  <2>2. files[target[p]] = <<task[p], version[p]>> /\ task[p] \in Rows
    BY <1>0, <2>1 DEF FilesInv
  <2>3. \A f \in Files : f # target[p] => files'[f] = files[f]
    BY <1>0, <1>8
  <2>4. version[p] # receipt[task[p]]
    BY <2>1 DEF VersionsInv
  <2>5. ReceiptAttestsFile'
    <3>1. ASSUME NEW t \in Rows, status'[t] = "RESTORED"
          PROVE  \E f \in Files : files'[f] = <<t, receipt'[t]>>
      <4>1. PICK f \in Files : files[f] = <<t, receipt[t]>>
        BY <1>1, <3>1 DEF FilesInv, ReceiptAttestsFile
      <4>2. f # target[p]
        BY <2>2, <2>4, <4>1
      <4>3. QED
        BY <1>1, <2>3, <4>1, <4>2
    <3>2. QED
      BY <3>1 DEF ReceiptAttestsFile
  <2>6. ASSUME NEW q \in Conns \ {p}, Published(q)'
        PROVE  files'[target[q]] = <<task[q], version[q]>>
    <3>1. files[target[q]] = <<task[q], version[q]>> /\ Busy(q)
      BY <1>3, <1>4, <2>6 DEF FilesInv
    <3>2. ~(task[q] = task[p] /\ version[q] = version[p])
      BY <2>1, <3>1 DEF VersionsInv
    <3>3. target[q] # target[p]
      BY <2>2, <3>1, <3>2
    <3>4. QED
      BY <1>0, <2>3, <3>1, <3>3
  <2>7. QED
    BY <1>1, <2>1, <2>5, <2>6 DEF FilesInv
<1>9. QED
  BY <1>6, <1>7, <1>8, FilesAtMove

LEMMA FilesInvAtStep ==
  ASSUME RestoreBase, VersionsInv, FilesInv, [BRNext]_brVars
  PROVE  FilesInv'
<1>0. /\ place \in [Conns -> Spots] /\ target \in [Conns -> Files]
      /\ receipt \in [Rows -> Nat] /\ status \in [Rows -> RowStatuses]
  BY TypesForFiles
<1>1. ASSUME NEW p \in Conns, CompletesRestore(p) PROVE FilesInv'
  <2>1. /\ At(p, "completing") /\ task[p] \in Rows
        /\ UNCHANGED <<task, version, target, files>>
    BY <1>1, ReceiptAtCompletion
  <2>2. files[target[p]] = <<task[p], version[p]>> /\ target[p] \in Files
    BY <1>0, <2>1 DEF FilesInv, Published, At
  <2>3. PICK s \in {"validate", "idle", "failing", "hold", "holding"} :
              place' = [place EXCEPT ![p] = s]
    BY <1>1, TableStepPlaces DEF TableSteps
  <2>4. \A q \in Conns : Published(q)' => Published(q)
    BY <1>0, <2>3 DEF Published
  <2>5. ReceiptAttestsFile'
    <3>1. CASE UNCHANGED <<status, receipt>>
      BY <2>1, <3>1 DEF FilesInv, ReceiptAttestsFile
    <3>2. CASE /\ receipt' = [receipt EXCEPT ![task[p]] = version[p]]
               /\ status' = [status EXCEPT ![task[p]] = "RESTORED"]
      <4>1. receipt'[task[p]] = version[p]
        BY <1>0, <2>1, <3>2
      <4>2. \A u \in Rows : u # task[p] => receipt'[u] = receipt[u] /\ status'[u] = status[u]
        BY <1>0, <3>2
      <4>3. QED
        BY <2>1, <2>2, <4>1, <4>2 DEF FilesInv, ReceiptAttestsFile
    <3>3. QED
      BY <1>1, <3>1, <3>2, ReceiptAtCompletion
  <2>6. QED
    BY <2>1, <2>4, <2>5 DEF FilesInv
<1>2. ASSUME NEW p \in Conns, Moves(p) PROVE FilesInv'
  BY <1>2, FilesInvAtMove
<1>3. ASSUME \A p \in Conns : ~CompletesRestore(p), files' = files,
             \A p \in Conns : Published(p)' =>
               Published(p) /\ UNCHANGED <<task[p], version[p], target[p]>>
      PROVE  FilesInv'
  BY <1>3, RestoredByCompletion DEF FilesInv, ReceiptAttestsFile
<1>4. ASSUME \A p \in Conns : ~CompletesRestore(p),
             \/ Environment \/ UNCHANGED brVars
             \/ \E p \in Conns : TableSteps(p) \/ Starts(p) \/ Crash(p)
      PROVE  FilesInv'
  <2>1. CASE Environment \/ UNCHANGED brVars
    BY <1>3, <1>4, <2>1, EnvironmentStands DEF procVars, Published
  <2>2. ASSUME NEW p \in Conns, TableSteps(p) \/ Starts(p) \/ Crash(p) PROVE FilesInv'
    <3>1. files' = files /\ \E s \in Spots : /\ place' = [place EXCEPT ![p] = s]
                                             /\ s \notin {"cleanup", "after_decryption",
                                                          "complete", "completing"}
      <4>1. CASE TableSteps(p)
        BY <4>1, TableStepPlaces DEF Spots
      <4>2. CASE Starts(p) \/ Crash(p)
        BY <4>2 DEF Starts, Crash, Goto, Spots, outside
      <4>3. QED
        BY <2>2, <4>1, <4>2
    <3>2. ~Published(p)' /\ \A q \in Conns \ {p} : Published(q)' => Published(q)
      BY <1>0, <3>1 DEF Published
    <3>3. \A q \in Conns \ {p} : UNCHANGED <<task[q], version[q], target[q]>>
      <4>1. CASE TableSteps(p)
        <5>1. target' = target
          BY <4>1, TableStepPlaces
        <5>2. \A q \in Conns \ {p} : UNCHANGED <<task[q], version[q]>>
          BY <4>1, ClaimHands, TypesForFiles
        <5>3. QED
          BY <5>1, <5>2
      <4>2. CASE Starts(p) \/ Crash(p)
        BY <1>0, <4>2 DEF Starts, Crash, steady
      <4>3. QED
        BY <2>2, <4>1, <4>2
    <3>4. QED
      BY <1>3, <1>4, <3>1, <3>2, <3>3
  <2>3. QED
    BY <1>4, <2>1, <2>2
<1>5. QED
  BY <1>1, <1>2, <1>4 DEF BRNext, RestoreStep, Moves, TableSteps

(* The plaintext a RESTORED plan's receipt attests is there, for any number *)
(* of workers given the same path and any order of their attempts.         *)
THEOREM ReceiptsAttestFiles == BRSpec => []ReceiptAttestsFile
<1>1. BRInit => VersionsInv /\ FilesInv
  BY DEF BRInit, ObInit, VersionsInv, FilesInv, ReceiptAttestsFile, Busy, Published
<1>2. RestoreBase /\ VersionsInv /\ FilesInv /\ [BRNext]_brVars => VersionsInv' /\ FilesInv'
  BY VersionsInvAtStep, FilesInvAtStep
<1>3. FilesInv => ReceiptAttestsFile
  BY DEF FilesInv
<1>4. QED
  BY <1>1, <1>2, <1>3, BaseHolds, PTL DEF BRSpec

-----------------------------------------------------------------------------
(* Approvals of a plan, with one interface asking for them: between its    *)
(* review and the insertion it is on one plan, and that plan has no live   *)
(* approval, because nothing makes an approval live but the insertion.     *)
AskedFor(q) == {reviewed[q], requesting[q]} \ {0}

AskingInv ==
  /\ \A q \in Requesters : reviewed[q] = 0 \/ requesting[q] = 0
  /\ \A q \in Requesters, a \in Approvals : Live(a) => RowOf[a] \notin AskedFor(q)
  /\ OneLiveApproval

LEMMA OnlyAskingMakesLive ==
  ASSUME RestoreBase, [BRNext]_brVars,
         ~\E q \in Requesters, b \in Approvals : RequestRestoreWrites(q, b),
         NEW a \in Approvals, Live(a)'
  PROVE  Live(a)
<1> USE DEF Live, Overdue
<1>0. /\ approval \in [Approvals -> ApprovalStatuses]
      /\ outdated \in [Approvals -> SUBSET {"instant", "text"}]
      /\ deciding \in [Deciders -> Approvals \cup {NoApproval}]
  BY DEF RestoreBase, ApInv, ApTypeOK
<1>1. CASE UNCHANGED <<approval, outdated>>
  BY <1>1
<1>2. CASE Decides
  <2>1. ASSUME NEW d \in Deciders, NEW b, DecideReads(d, b) PROVE Live(a)
    BY <1>1, <2>1 DEF DecideReads
  <2>2. ASSUME NEW d \in Deciders, NEW approve \in BOOLEAN, DecideWrites(d, approve) PROVE Live(a)
    <3>1. outdated' = outdated /\ (approval' = approval
            \/ /\ approval[deciding[d]] = "PENDING" /\ ~Overdue(deciding[d])
               /\ \E s : approval' = [approval EXCEPT ![deciding[d]] = s]
            \/ approval' = [approval EXCEPT ![deciding[d]] = "EXPIRED"])
      BY <2>2 DEF DecideWrites, SetApproval
    <3>2. QED
      BY <1>0, <3>1
  <2>3. ASSUME NEW b \in Approvals, ApprovalExpires(b) PROVE Live(a)
    BY <1>0, <2>3 DEF ApprovalExpires
  <2>4. QED
    BY <1>2, <2>1, <2>2, <2>3 DEF Decides, ApTime
<1>3. ASSUME NEW q \in Requesters, RequestRestoreReads(q) PROVE Live(a)
  <2>1. UNCHANGED apVars \/ \E t : RequestReads(q, t, "PREFLIGHT_VALIDATED")
    BY <1>3 DEF RequestRestoreReads
  <2>2. ASSUME NEW t, RequestReads(q, t, "PREFLIGHT_VALIDATED") PROVE Live(a)
    BY <1>0, <2>2 DEF RequestReads
  <2>3. QED
    BY <1>1, <2>1, <2>2 DEF apVars
<1>4. ASSUME NEW t \in Rows, NEW b \in Approvals, AuthorizeRestore(t, b) PROVE Live(a)
  <2>1. /\ outdated' = outdated
        /\ approval' = approval \/ approval' = [approval EXCEPT ![b] = "CONSUMED"]
    BY <1>4 DEF AuthorizeRestore, Authorize, ConsumeExactly, SetApproval
  <2>2. QED
    BY <1>0, <2>1
<1>5. ASSUME NEW p \in Conns, Moves(p) \/ TableSteps(p) \/ Starts(p) \/ Crash(p)
      PROVE  UNCHANGED apVars
  BY <1>5, MovesDisturbNoTable
  DEF TableSteps, ClaimsRestore, FindsNoRestore, CompletesRestore, FailRestoreReads,
      FailRestoreWrites, HoldRestoreReads, HoldRestoreWrites, Crash, Starts, held
<1>6. ASSUME NEW t \in Rows,
             \/ StageRestore(t) \/ RecordPreflight(t) \/ WindowOpens(t) \/ WindowCloses(t)
             \/ Lapse(t) \/ Backoff(t) \/ \E q \in Requesters : Reviews(q, t)
      PROVE  UNCHANGED apVars
  BY <1>6
  DEF StageRestore, RecordPreflight, WindowOpens, WindowCloses, Lapse, Backoff, Reviews, held
<1>7. ASSUME NEW on \in BOOLEAN, SwitchKill(on) PROVE UNCHANGED apVars
  BY <1>7 DEF SwitchKill
<1>8. CASE UNCHANGED brVars
  BY <1>1, <1>8 DEF brVars, apVars
<1>9. QED
  BY <1>1, <1>2, <1>3, <1>4, <1>5, <1>6, <1>7, <1>8
  DEF BRNext, RestoreStep, Moves, TableSteps, Environment, apVars

LEMMA AskingMoves ==
  ASSUME RestoreBase, [BRNext]_brVars,
         \A r \in Requesters :
           /\ \A t \in Rows : ~Reviews(r, t)
           /\ ~RequestRestoreReads(r)
           /\ \A b \in Approvals : ~RequestRestoreWrites(r, b)
  PROVE  UNCHANGED <<reviewed, requesting>>
<1>1. ASSUME NEW p \in Conns, Moves(p) \/ TableSteps(p) \/ Starts(p) \/ Crash(p)
      PROVE  UNCHANGED <<reviewed, requesting>>
  <2> USE DEF held, steady, obVars
  <2>1. CASE Moves(p)
    BY <2>1, MovesDisturbNoTable
  <2>2. CASE ClaimsRestore(p) \/ FindsNoRestore(p)
    BY <2>2 DEF ClaimsRestore, FindsNoRestore, Lease
  <2>3. CASE CompletesRestore(p)
    BY <2>3 DEF CompletesRestore, Complete
  <2>4. CASE FailRestoreReads(p) \/ HoldRestoreReads(p)
    BY <2>4 DEF FailRestoreReads, FailReads, HoldRestoreReads, HoldReads
  <2>5. CASE FailRestoreWrites(p) \/ HoldRestoreWrites(p)
    BY <2>5 DEF FailRestoreWrites, FailWrites, HoldRestoreWrites, HoldWrites
  <2>6. CASE Starts(p) \/ Crash(p)
    BY <2>6 DEF Starts, Crash, ObDisconnects
  <2>7. QED
    BY <1>1, <2>1, <2>2, <2>3, <2>4, <2>5, <2>6 DEF TableSteps
<1>2. CASE Environment
  <2> USE DEF held, obVars
  <2>1. ASSUME NEW t \in Rows,
               \/ StageRestore(t) \/ RecordPreflight(t) \/ WindowOpens(t) \/ WindowCloses(t)
               \/ Lapse(t) \/ Backoff(t) \/ \E a \in Approvals : AuthorizeRestore(t, a)
        PROVE  UNCHANGED <<reviewed, requesting>>
    BY <2>1
    DEF StageRestore, StageRow, RecordPreflight, Preflight, AuthorizeRestore, Authorize,
        WindowOpens, WindowCloses, Lapse, LeaseLapses, Backoff, BackoffEnds
  <2>2. ASSUME Decides \/ \E on \in BOOLEAN : SwitchKill(on)
        PROVE  UNCHANGED <<reviewed, requesting>>
    BY <2>2 DEF Decides, SwitchKill
  <2>3. QED
    BY <1>2, <2>1, <2>2 DEF Environment
<1>3. CASE UNCHANGED brVars
  BY <1>3 DEF brVars, obVars
<1>4. QED
  BY <1>1, <1>2, <1>3 DEF BRNext, RestoreStep, Moves, TableSteps

LEMMA AskingInvAtStep ==
  ASSUME NEW q, Requesters = {q}, RestoreBase, AskingInv, [BRNext]_brVars
  PROVE  AskingInv'
<1> USE DEF AskedFor
<1>0. /\ reviewed \in [Requesters -> Rows \cup {0}] /\ requesting \in [Requesters -> Rows \cup {0}]
      /\ approval \in [Approvals -> ApprovalStatuses]
      /\ RowOf \in [Approvals -> Rows] /\ Rows \subseteq Nat \ {0} /\ q \in Requesters
  BY OutboxAssumption DEF RestoreBase, BRTypeOK, ObTypeOK, ApInv, ApTypeOK
<1>a. /\ reviewed[q] = 0 \/ requesting[q] = 0
      /\ \A a \in Approvals : Live(a) => RowOf[a] # reviewed[q] /\ RowOf[a] # requesting[q]
  BY <1>0 DEF AskingInv
<1>1. ASSUME NEW t \in Rows, Reviews(q, t) PROVE AskingInv'
  <2>1. /\ reviewed' = [reviewed EXCEPT ![q] = t] /\ requesting[q] = 0
        /\ \A a \in Approvals : RowOf[a] = t => ~Live(a)
        /\ UNCHANGED <<requesting, approval, outdated>>
    BY <1>1 DEF Reviews, held, obVars, apVars
  <2>2. reviewed'[q] = t /\ \A a \in Approvals : Live(a)' <=> Live(a)
    BY <1>0, <2>1 DEF Live, Overdue
  <2>3. QED
    BY <1>0, <2>1, <2>2 DEF AskingInv, OneLiveApproval
<1>2. ASSUME NEW a \in Approvals, RequestRestoreWrites(q, a) PROVE AskingInv'
  <2>1. /\ RowOf[a] = requesting[q] /\ requesting[q] # 0
        /\ approval' = [approval EXCEPT ![a] = "PENDING"]
        /\ requesting' = [requesting EXCEPT ![q] = 0] /\ UNCHANGED <<outdated, reviewed>>
    BY <1>2 DEF RequestRestoreWrites, RequestWrites, RequestApproval, SetApproval
  <2>2. \A b \in Approvals : b # a => (Live(b)' <=> Live(b))
    BY <1>0, <2>1 DEF Live, Overdue
  <2>3. requesting'[q] = 0 /\ reviewed'[q] = 0
    BY <1>0, <1>a, <2>1
  <2>4. OneLiveApproval'
    BY <1>a, <2>1, <2>2 DEF AskingInv, OneLiveApproval
  <2>5. QED
    BY <1>0, <2>3, <2>4 DEF AskingInv
<1>3. ASSUME ~\E b \in Approvals : RequestRestoreWrites(q, b),
             reviewed'[q] = 0 \/ requesting'[q] = 0,
             AskedFor(q)' \subseteq AskedFor(q)
      PROVE  AskingInv'
  <2>1. \A a \in Approvals : Live(a)' => Live(a)
    BY <1>0, <1>3, OnlyAskingMakesLive
  <2>2. QED
    BY <1>0, <1>3, <2>1 DEF AskingInv, OneLiveApproval
<1>4. ASSUME RequestRestoreReads(q) PROVE AskingInv'
  <2>1. /\ reviewed[q] # 0 /\ reviewed'[q] = 0
        /\ requesting'[q] = requesting[q] \/ requesting'[q] = reviewed[q]
    BY <1>0, <1>4 DEF RequestRestoreReads, RequestReads, obVars
  <2>2. CASE \E b \in Approvals : RequestRestoreWrites(q, b)
    BY <1>2, <2>2
  <2>3. QED
    BY <1>3, <2>1, <2>2
<1>5. CASE ~(RequestRestoreReads(q) \/ (\E t \in Rows : Reviews(q, t))
             \/ \E b \in Approvals : RequestRestoreWrites(q, b))
  <2>1. UNCHANGED <<reviewed, requesting>>
    BY <1>0, <1>5, AskingMoves
  <2>2. QED
    BY <1>3, <1>5, <1>a, <2>1
<1>6. QED
  BY <1>1, <1>2, <1>4, <1>5

(* One interface asking: a plan never has two approvals in force, although *)
(* the look and the insertion are not one step.                            *)
THEOREM OneInterfaceAsksOnce ==
  ASSUME NEW q, Requesters = {q}
  PROVE  BRSpec => []OneLiveApproval
<1>1. BRInit => AskingInv
  BY OutboxAssumption DEF BRInit, ObInit, ApInit, AskingInv, AskedFor, OneLiveApproval, Live
<1>2. RestoreBase /\ AskingInv /\ [BRNext]_brVars => AskingInv'
  BY AskingInvAtStep
<1>3. AskingInv => OneLiveApproval
  BY DEF AskingInv
<1>4. QED
  BY <1>1, <1>2, <1>3, BaseHolds, PTL DEF BRSpec

-----------------------------------------------------------------------------
(* One process.  Nobody else can claim a plan whose lease has lapsed, so a *)
(* busy process still holds its plan when it publishes and when it reports. *)
Owner(p) ==
  /\ Busy(p) => Holds(p, task[p])
  /\ failing[p].row # 0 => At(p, "failing") /\ failing[p].row = task[p]

OwnerInv ==
  /\ \A t \in Rows : status[t] \in Terminal \cup {"AUTHORIZED"} => boundTo[t] # NoApproval
  /\ \A p \in Conns : Owner(p)

LEMMA OwnerAtStep ==
  ASSUME NEW p, Conns = {p}, RestoreBase, OwnerInv, [BRNext]_brVars
  PROVE  Owner(p)'
<1> USE DEF At, Goto, SetStatus, rowVars, callVars
<1>0. /\ place \in [Conns -> Spots] /\ task \in [Conns -> Rows \cup {0}]
      /\ status \in [Rows -> RowStatuses] /\ lessee \in [Rows -> Conns \cup {NoOne}]
      /\ failing \in [Conns -> [row : Rows \cup {0}, dead : BOOLEAN]]
      /\ p \in Conns
  BY DEF RestoreBase, BRTypeOK, ObTypeOK
<1>a. /\ Busy(p) => Holds(p, task[p]) /\ task[p] \in Rows
      /\ failing[p].row # 0 => place[p] = "failing" /\ failing[p].row = task[p]
  BY <1>0, TypesForFiles DEF OwnerInv, Owner
<1>1. ASSUME UNCHANGED <<status, lessee>>, task'[p] = task[p], Busy(p)' => Busy(p),
             failing'[p].row # 0 => place'[p] = "failing" /\ failing'[p].row = task[p]
      PROVE  Owner(p)'
  BY <1>a, <1>1 DEF Owner, Holds
<1>2. ASSUME ~Busy(p)', failing'[p].row = 0 PROVE Owner(p)'
  BY <1>2 DEF Owner
<1>3. CASE Moves(p)
  <2>1. UNCHANGED <<status, lessee, task, failing>>
    BY <1>0, <1>3, MovesDisturbNoTable DEF obVars
  <2>2. PICK s : CanMove(p, s) /\ place' = [place EXCEPT ![p] = s]
    BY <1>0, <1>3, MovesDisturbNoTable
  <2>3. (s \notin {"idle", "switch", "claim"} => Busy(p)) /\ place[p] # "failing"
    BY <1>0, <2>2, CanMoveStays
  <2>4. Busy(p)' => Busy(p)
    BY <1>0, <2>2, <2>3 DEF Busy
  <2>5. QED
    BY <1>1, <1>a, <2>1, <2>3, <2>4
<1>4. CASE ClaimsRestore(p)
  <2>1. PICK t \in Rows : /\ t \in Due /\ Lease(p, t, {u \in Due : u < t /\ Hopeless(u)})
                          /\ task' = [task EXCEPT ![p] = t] /\ place[p] = "claim"
    BY <1>4 DEF ClaimsRestore, Due
  <2>2. t \notin {u \in Due : u < t /\ Hopeless(u)}
    BY OutboxAssumption
  <2>3. status'[t] = "AUTHORIZED" /\ lessee'[t] = p /\ failing' = failing
    BY <2>1, <2>2 DEF Lease, Due, Unleased
  <2>4. task'[p] = t
    BY <1>0, <2>1
  <2>5. QED
    BY <1>a, <2>1, <2>3, <2>4 DEF Owner, Holds
<1>5. CASE FindsNoRestore(p) \/ HoldRestoreWrites(p) \/ Starts(p)
  <2>1. failing' = failing /\ place[p] # "failing" /\ place'[p] \in {"idle", "switch"}
    BY <1>0, <1>5 DEF FindsNoRestore, Lease, HoldRestoreWrites, HoldWrites, Starts, held, obVars
  <2>2. QED
    BY <1>2, <1>a, <2>1 DEF Busy
<1>6. CASE FailRestoreWrites(p) \/ Crash(p)
  <2>1. failing' = [failing EXCEPT ![p] = NotFailing] /\ place'[p] = "idle"
    BY <1>0, <1>6 DEF FailRestoreWrites, FailWrites, Crash, ObDisconnects
  <2>2. QED
    BY <1>0, <1>2, <2>1 DEF Busy, NotFailing
<1>7. CASE CompletesRestore(p)
  <2>1. failing' = failing /\ place[p] = "completing" /\ task' = task
    BY <1>7 DEF CompletesRestore, Complete, obVars, steady
  <2>2. CASE Goto(p, "idle")
    BY <1>0, <1>2, <1>a, <2>1, <2>2 DEF Busy
  <2>3. CASE UNCHANGED obVars
    BY <1>1, <1>a, <2>1, <2>3 DEF obVars, Busy
  <2>4. QED
    BY <1>7, <2>2, <2>3 DEF CompletesRestore
<1>8. CASE FailRestoreReads(p)
  <2>1. place[p] = "fail" /\ task' = task
    BY <1>8 DEF FailRestoreReads, steady
  <2>2. CASE FailReads(p, task[p]) /\ Goto(p, "failing")
    <3>1. UNCHANGED <<status, lessee>> /\ failing'[p].row = task[p] /\ place'[p] = "failing"
      BY <1>0, <2>2 DEF FailReads
    <3>2. QED
      BY <1>1, <2>1, <3>1 DEF Busy
  <2>3. CASE Goto(p, "idle") /\ UNCHANGED obVars
    BY <1>0, <1>2, <1>a, <2>1, <2>3 DEF obVars, Busy
  <2>4. QED
    BY <1>8, <2>2, <2>3 DEF FailRestoreReads
<1>9. CASE HoldRestoreReads(p)
  <2>1. UNCHANGED <<status, lessee, failing, task>> /\ place[p] = "hold"
    BY <1>9 DEF HoldRestoreReads, HoldReads, obVars, steady
  <2>2. QED
    BY <1>1, <1>a, <2>1 DEF Busy
<1>10. CASE Environment \/ UNCHANGED brVars
  <2>1. UNCHANGED <<place, task>>
    BY <1>10, EnvironmentStands DEF procVars
  <2>2. UNCHANGED <<lessee, failing>>
    BY <1>10
    DEF Environment, StageRestore, StageRow, RecordPreflight, Preflight, Reviews, AuthorizeRestore,
        Authorize, WindowOpens, WindowCloses, Lapse, LeaseLapses, Backoff, BackoffEnds,
        RequestRestoreReads, RequestReads, RequestRestoreWrites, RequestWrites, Decides,
        SwitchKill, brVars, held, obVars
  <2>3. \A t \in Rows : status[t] = "AUTHORIZED" => status'[t] = "AUTHORIZED"
    BY <1>0, <1>10
    DEF Environment, StageRestore, StageRow, RecordPreflight, Preflight, Reviews, AuthorizeRestore,
        Authorize, WindowOpens, WindowCloses, Lapse, LeaseLapses, Backoff, BackoffEnds,
        RequestRestoreReads, RequestReads, RequestRestoreWrites, RequestWrites, Decides,
        SwitchKill, brVars, held, obVars
  <2>4. QED
    BY <1>a, <2>1, <2>2, <2>3 DEF Owner, Busy, Holds
<1>11. QED
  BY <1>0, <1>3, <1>4, <1>5, <1>6, <1>7, <1>8, <1>9, <1>10
  DEF BRNext, RestoreStep, Moves

(* The plans whose plaintext is there for good.                            *)
Kept == [t \in Rows |-> IF \E f \in Files : files[f][1] = t /\ Settled(f) THEN t ELSE 0]

LEMMA KeptAtStep ==
  ASSUME NEW p, Conns = {p}, RestoreBase, FilesInv, [BRNext]_brVars
  PROVE  \/ Kept' = Kept
         \/ /\ Moves(p) \/ Crash(p)
            /\ At(p, "cleanup") /\ Kept[task[p]] = 0
            /\ Kept' = [Kept EXCEPT ![task[p]] = task[p]]
<1> DEFINE Settles == /\ Kept[task[p]] = 0
                      /\ Kept' = [Kept EXCEPT ![task[p]] = task[p]]
<1>0. /\ place \in [Conns -> Spots] /\ target \in [Conns -> Files] /\ p \in Conns
      /\ files \in [Files -> Stored] /\ Rows \subseteq Nat \ {0}
      /\ \A q \in Conns : Busy(q) => task[q] \in Rows
  BY TypesForFiles
<1>1. \A f \in Files : /\ Settled(f) <=> ~(At(p, "cleanup") /\ target[p] = f)
                       /\ Settled(f)' <=> ~(At(p, "cleanup")' /\ target'[p] = f)
  BY <1>0 DEF Settled
<1>2. ASSUME \A t \in Rows : (\E f \in Files : files[f][1] = t /\ Settled(f))
                               <=> (\E f \in Files : files'[f][1] = t /\ Settled(f)')
      PROVE  Kept' = Kept
  BY <1>2 DEF Kept
<1>3. ASSUME files' = files, ~At(p, "cleanup"), ~At(p, "cleanup")' PROVE Kept' = Kept
  BY <1>1, <1>2, <1>3
<1>4. ASSUME files' = files, At(p, "cleanup"), ~At(p, "cleanup")'
      PROVE  Kept' = Kept \/ Settles
  <2>1. PICK t \in Rows : t = task[p]
    BY <1>0, <1>4 DEF Busy, At
  <2>2. files[target[p]][1] = t /\ target[p] \in Files
    BY <1>0, <1>4, <2>1 DEF FilesInv, Published, At
  <2>3. \A u \in Rows \ {t} : Kept'[u] = Kept[u]
    <3>1. ASSUME NEW u \in Rows \ {t}
          PROVE  (\E f \in Files : files[f][1] = u /\ Settled(f))
                   <=> (\E f \in Files : files'[f][1] = u /\ Settled(f)')
      BY <1>1, <1>4, <2>2
    <3>2. QED
      BY <3>1 DEF Kept
  <2>4. Kept'[t] = t
    BY <1>1, <1>4, <2>2 DEF Kept
  <2>5. Kept[t] = t \/ Kept[t] = 0
    BY DEF Kept
  <2>6. Kept = [u \in Rows |-> Kept[u]] /\ Kept' = [u \in Rows |-> Kept'[u]]
    BY DEF Kept
  <2>7. CASE Kept[t] = t
    <3>1. \A u \in Rows : Kept'[u] = Kept[u]
      BY <2>3, <2>4, <2>7
    <3>2. QED
      BY <2>6, <3>1
  <2>8. CASE Kept[t] = 0
    <3>1. Kept' = [Kept EXCEPT ![t] = t]
      BY <2>3, <2>4, <2>6
    <3>2. QED
      BY <2>1, <2>8, <3>1
  <2>9. QED
    BY <2>5, <2>7, <2>8
<1>5. CASE Moves(p)
  <2>1. PICK s : CanMove(p, s) /\ place' = [place EXCEPT ![p] = s]
    BY <1>0, <1>5, MovesDisturbNoTable
  <2>2. target' = target /\ place'[p] = s
    BY <1>0, <1>5, <2>1, MovesDisturbNoTable
  <2>3. CASE UNCHANGED files /\ (At(p, "link") => Goto(p, "caught"))
    <3>1. place'[p] # "cleanup"
      BY <1>0, <2>1, <2>2, <2>3 DEF CanMove, At, Goto, Guards
    <3>2. QED
      BY <1>3, <1>4, <1>5, <2>3, <3>1 DEF At
  <2>4. CASE /\ At(p, "link") /\ Free(target[p]) /\ Goto(p, "cleanup")
             /\ files' = [files EXCEPT ![target[p]] = <<task[p], version[p]>>]
    <3>1. At(p, "cleanup")' /\ ~At(p, "cleanup")
      BY <1>0, <2>4 DEF At, Goto
    <3>2. \A f \in Files : f # target[p] => files'[f] = files[f]
      BY <1>0, <2>4
    <3>3. files[target[p]][1] = 0
      BY <2>4 DEF Free, Nothing
    <3>4. QED
      BY <1>0, <1>1, <1>2, <2>2, <3>1, <3>2, <3>3
  <2>5. CASE /\ At(p, "cleanup") /\ files' = [files EXCEPT ![target[p]] = Nothing]
             /\ Goto(p, "caught")
    <3>1. ~At(p, "cleanup")'
      BY <1>0, <2>5 DEF At, Goto
    <3>2. \A f \in Files : f # target[p] => files'[f] = files[f]
      BY <1>0, <2>5
    <3>3. files'[target[p]][1] = 0
      BY <1>0, <2>5 DEF Nothing
    <3>4. QED
      BY <1>0, <1>1, <1>2, <2>5, <3>1, <3>2, <3>3
  <2>6. QED
    BY <1>0, <1>5, <2>3, <2>4, <2>5, FilesAtMove
<1>6. CASE TableSteps(p)
  <2>1. files' = files /\ place[p] # "cleanup" /\ place'[p] # "cleanup"
    BY <1>0, <1>6, TableStepPlaces
  <2>2. QED
    BY <1>3, <2>1 DEF At
<1>7. CASE Starts(p)
  <2>1. files' = files /\ place[p] # "cleanup" /\ place'[p] # "cleanup"
    BY <1>0, <1>7 DEF Starts, At, Goto, outside
  <2>2. QED
    BY <1>3, <2>1 DEF At
<1>8. CASE Crash(p)
  <2>1. files' = files /\ place'[p] # "cleanup"
    BY <1>0, <1>8 DEF Crash, Goto
  <2>2. QED
    BY <1>3, <1>4, <1>8, <2>1 DEF At
<1>9. CASE Environment \/ UNCHANGED brVars
  BY <1>9, EnvironmentStands DEF procVars, Kept, Settled, At
<1>10. QED
  BY <1>0, <1>5, <1>6, <1>7, <1>8, <1>9 DEF BRNext, RestoreStep, Moves, TableSteps

(* What a step of one process or of its environment is for the promise.    *)
LEMMA StepKeepsPromise ==
  ASSUME NEW p, Conns = {p}, RestoreBase, FilesInv, OwnerInv, [BRNext]_brVars
  PROVE  /\ \/ Promise!Next
            \/ /\ Kept' = Kept /\ boundTo' = boundTo
               /\ \A t \in Rows : OutcomeOf(status'[t]) = OutcomeOf(status[t])
         /\ \A t \in Rows : status'[t] \in Terminal \cup {"AUTHORIZED"} => boundTo'[t] # NoApproval
<1> DEFINE Same == /\ Kept' = Kept /\ boundTo' = boundTo
                   /\ \A t \in Rows : OutcomeOf(status'[t]) = OutcomeOf(status[t])
           Bound == \A t \in Rows : status'[t] \in Terminal \cup {"AUTHORIZED"}
                                      => boundTo'[t] # NoApproval
           Goal  == (Promise!Next \/ Same) /\ Bound
           outcomes == [t \in Rows |-> OutcomeOf(status[t])]
<1> USE DEF At, Goto, SetStatus, rowVars, outside, obVars, Terminal, Finished
<1>0. /\ status \in [Rows -> RowStatuses] /\ boundTo \in [Rows -> Approvals \cup {NoApproval}]
      /\ place \in [Conns -> Spots] /\ Rows \subseteq Nat \ {0} /\ p \in Conns
      /\ failing \in [Conns -> [row : Rows \cup {0}, dead : BOOLEAN]]
      /\ holding \in [Conns -> Rows \cup {0}]
  BY OutboxAssumption DEF RestoreBase, BRTypeOK, ObTypeOK
<1>a. Busy(p) => /\ task[p] \in Rows /\ boundTo[task[p]] # NoApproval
                 /\ status[task[p]] = "AUTHORIZED"
  BY <1>0, TypesForFiles DEF OwnerInv, Owner, Holds
<1>b. \A t \in Rows : status[t] \in Terminal \cup {"AUTHORIZED"} => boundTo[t] # NoApproval
  BY DEF OwnerInv
<1>1. ASSUME UNCHANGED <<boundTo, status>>, Kept' = Kept PROVE Goal
  BY <1>1, <1>b
<1>2. ASSUME Moves(p) \/ Crash(p) PROVE UNCHANGED <<boundTo, status>>
  BY <1>0, <1>2, MovesDisturbNoTable DEF Crash, ObDisconnects
<1>3. ASSUME Moves(p) \/ Crash(p), At(p, "cleanup"), Kept[task[p]] = 0,
             Kept' = [Kept EXCEPT ![task[p]] = task[p]]
      PROVE  Goal
  <2>1. PICK t \in Rows : t = task[p]
    BY <1>3, <1>a DEF Busy
  <2>2. boundTo[t] # NoApproval /\ OutcomeOf(status[t]) = "open"
    BY <1>3, <1>a, <2>1 DEF Busy, OutcomeOf
  <2>3. Promise!Act(t)
    BY <1>2, <1>3, <2>1, <2>2 DEF Promise!Act, Kept
  <2>4. QED
    BY <1>2, <1>3, <1>b, <2>3 DEF Promise!Next
<1>4. ASSUME Kept' = Kept, ClaimsRestore(p) \/ FindsNoRestore(p) PROVE Goal
  <2>1. PICK T \in SUBSET Due : status' = [t \in Rows |-> IF t \in T THEN "FAILED" ELSE status[t]]
    BY <1>4 DEF ClaimsRestore, FindsNoRestore, Lease
  <2>2. boundTo' = boundTo
    BY <1>4 DEF ClaimsRestore, FindsNoRestore, Lease
  <2>3. \A t \in T : /\ t \in Rows /\ boundTo[t] # NoApproval
                     /\ OutcomeOf(status[t]) = "open" /\ status[t] = "AUTHORIZED"
    BY <1>b, <2>1 DEF Due, Unleased, OutcomeOf
  <2>4. outcomes' = [t \in Rows |-> IF t \in T THEN "failed" ELSE OutcomeOf(status[t])]
    BY <2>1 DEF OutcomeOf
  <2>5. Promise!ConcludeFailed(T)
    BY <1>4, <2>2, <2>3, <2>4 DEF Promise!ConcludeFailed, Kept
  <2>6. T \in SUBSET Rows
    BY <2>3
  <2>7. Bound
    BY <1>b, <2>1, <2>2, <2>3
  <2>8. QED
    BY <2>5, <2>6, <2>7 DEF Promise!Next
<1>5. ASSUME NEW t \in Rows, NEW s \in {"RESTORED", "FAILED", "RECONCILIATION_REQUIRED"},
             status[t] = "AUTHORIZED", s = "RESTORED" => Kept[t] = t,
             status' = [status EXCEPT ![t] = s], boundTo' = boundTo, Kept' = Kept
      PROVE  Goal
  <2>1. /\ boundTo[t] # NoApproval /\ OutcomeOf(s) \in Promise!Outcomes
        /\ OutcomeOf(status[t]) = "open"
    BY <1>5, <1>b DEF OutcomeOf, Promise!Outcomes
  <2>2. outcomes' = [outcomes EXCEPT ![t] = OutcomeOf(s)]
    BY <1>0, <1>5
  <2>3. OutcomeOf(s) = "kept" => Kept[t] = t
    BY <1>5 DEF OutcomeOf
  <2>4. Promise!Conclude(t, OutcomeOf(s))
    BY <1>5, <2>1, <2>2, <2>3 DEF Promise!Conclude, Kept
  <2>5. Bound
    BY <1>0, <1>5, <1>b, <2>1
  <2>6. QED
    BY <2>1, <2>4, <2>5 DEF Promise!Next
<1>6. ASSUME Kept' = Kept, CompletesRestore(p) PROVE Goal
  <2>1. CASE Complete(p, task[p], "RESTORED")
    <3>1. task[p] \in Rows /\ status[task[p]] = "AUTHORIZED" /\ place[p] = "completing"
      BY <1>6, <1>a DEF CompletesRestore, Busy
    <3>2. files[target[p]] = <<task[p], version[p]>> /\ target[p] \in Files
      BY <1>0, <3>1, TypesForFiles DEF FilesInv, Published
    <3>3. Settled(target[p])
      BY <3>1 DEF Settled
    <3>4. Kept[task[p]] = task[p]
      BY <3>1, <3>2, <3>3 DEF Kept
    <3>5. QED
      BY <1>5, <1>6, <2>1, <3>1, <3>4 DEF Complete
  <2>2. CASE UNCHANGED obVars
    BY <1>1, <1>6, <2>2
  <2>3. QED
    BY <1>6, <2>1, <2>2 DEF CompletesRestore
<1>7. ASSUME Kept' = Kept, FailRestoreWrites(p) PROVE Goal
  <2>1. PICK t \in Rows : t = failing[p].row
    BY <1>0, <1>7 DEF FailRestoreWrites, FailWrites
  <2>2. failing[p].row # 0 /\ boundTo' = boundTo
        /\ status' = [status EXCEPT ![t] = IF failing[p].dead THEN "FAILED" ELSE "AUTHORIZED"]
    BY <1>7, <2>1 DEF FailRestoreWrites, FailWrites
  <2>3. status[t] = "AUTHORIZED"
    BY <1>0, <1>a, <2>1, <2>2 DEF OwnerInv, Owner, Busy
  <2>4. CASE failing[p].dead
    BY <1>5, <1>7, <2>2, <2>3, <2>4
  <2>5. CASE ~failing[p].dead
    BY <1>0, <1>1, <1>7, <2>2, <2>3, <2>5
  <2>6. QED
    BY <2>4, <2>5
<1>8. ASSUME Kept' = Kept, HoldRestoreWrites(p) PROVE Goal
  <2>1. holding[p] \in Rows /\ boundTo' = boundTo
    BY <1>0, <1>8 DEF HoldRestoreWrites, HoldWrites
  <2>2. CASE Holds(p, holding[p])
    <3>1. /\ status[holding[p]] = "AUTHORIZED"
          /\ status' = [status EXCEPT ![holding[p]] = "RECONCILIATION_REQUIRED"]
      BY <1>8, <2>2 DEF HoldRestoreWrites, HoldWrites, Holds
    <3>2. QED
      BY <1>5, <1>8, <2>1, <3>1
  <2>3. CASE ~Holds(p, holding[p])
    BY <1>1, <1>8, <2>1, <2>3 DEF HoldRestoreWrites, HoldWrites
  <2>4. QED
    BY <2>2, <2>3
<1>9. ASSUME NEW t \in Rows, Kept' = Kept, StageRestore(t) \/ RecordPreflight(t) PROVE Goal
  BY <1>0, <1>9, <1>b DEF StageRestore, StageRow, RecordPreflight, Preflight, OutcomeOf
<1>10. ASSUME NEW t \in Rows, NEW a \in Approvals, Kept' = Kept, AuthorizeRestore(t, a) PROVE Goal
  <2>1. /\ status[t] = "PREFLIGHT_VALIDATED" /\ status' = [status EXCEPT ![t] = "AUTHORIZED"]
        /\ boundTo' = [boundTo EXCEPT ![t] = a] /\ a # NoApproval
    BY <1>10, ApprovalsAssumption DEF AuthorizeRestore, Authorize
  <2>2. {u \in Rows : boundTo[u] # NoApproval}' = {u \in Rows : boundTo[u] # NoApproval} \cup {t}
    BY <1>0, <2>1
  <2>3. outcomes' = outcomes
    BY <1>0, <2>1 DEF OutcomeOf
  <2>4. Promise!Grant(t)
    BY <1>10, <2>2, <2>3 DEF Promise!Grant, Kept
  <2>5. Bound
    BY <1>0, <1>b, <2>1
  <2>6. QED
    BY <2>4, <2>5 DEF Promise!Next
<1>11. ASSUME FailRestoreReads(p) \/ HoldRestoreReads(p) \/ Starts(p)
       PROVE  UNCHANGED <<boundTo, status>>
  BY <1>11 DEF FailRestoreReads, FailReads, HoldRestoreReads, HoldReads, Starts, held
<1>12. ASSUME \/ UNCHANGED brVars
              \/ /\ Environment
                 /\ ~\E u \in Rows : \/ StageRestore(u) \/ RecordPreflight(u)
                                      \/ \E a \in Approvals : AuthorizeRestore(u, a)
       PROVE  UNCHANGED <<boundTo, status>>
  BY <1>12
  DEF Environment, Reviews, RequestRestoreReads, RequestReads, RequestRestoreWrites,
      RequestWrites, WindowOpens, WindowCloses, Lapse, LeaseLapses, Backoff, BackoffEnds,
      Decides, SwitchKill, brVars, held
<1>13. ASSUME Kept' = Kept PROVE Goal
  BY <1>0, <1>1, <1>2, <1>4, <1>6, <1>7, <1>8, <1>9, <1>10, <1>11, <1>12, <1>13
  DEF BRNext, RestoreStep, Moves
<1>14. Goal
  BY <1>3, <1>13, KeptAtStep
<1>15. QED
  BY <1>14

(* What one process keeps: its plan while it is busy, and its files.       *)
LEMMA OneWorkerOwns ==
  ASSUME NEW p, Conns = {p}
  PROVE  BRSpec => [](FilesInv /\ OwnerInv)
<1>1. BRInit => VersionsInv /\ FilesInv /\ OwnerInv
  BY DEF BRInit, ObInit, VersionsInv, FilesInv, ReceiptAttestsFile, Busy, Published,
         OwnerInv, Owner, Terminal, Finished, NotFailing
<1>2. RestoreBase /\ VersionsInv /\ FilesInv /\ OwnerInv /\ [BRNext]_brVars
        => VersionsInv' /\ FilesInv' /\ OwnerInv'
  <2> SUFFICES ASSUME RestoreBase, VersionsInv, FilesInv, OwnerInv, [BRNext]_brVars
               PROVE  VersionsInv' /\ FilesInv' /\ OwnerInv'
    OBVIOUS
  <2>1. VersionsInv' /\ FilesInv'
    BY VersionsInvAtStep, FilesInvAtStep
  <2>2. Owner(p)'
    BY OwnerAtStep
  <2>3. \A t \in Rows : status'[t] \in Terminal \cup {"AUTHORIZED"} => boundTo'[t] # NoApproval
    BY StepKeepsPromise
  <2>4. QED
    BY <2>1, <2>2, <2>3 DEF OwnerInv
<1>3. QED
  BY <1>1, <1>2, BaseHolds, PTL DEF BRSpec

(* One worker process: the outbox of restores keeps the abstract promise, a *)
(* plaintext for an authorised plan only, not after its outcome is known,   *)
(* and one outcome per plan, although the process may be killed anywhere.  *)
THEOREM OneWorkerRestoresOnce ==
  ASSUME NEW p, Conns = {p}
  PROVE  BRSpec => RestoresOnce
<1>1. BRInit => Promise!Init
  <2> SUFFICES ASSUME BRInit PROVE Promise!Init
    OBVIOUS
  <2>1. {t \in Rows : boundTo[t] # NoApproval} = {}
    BY DEF BRInit, ObInit
  <2>2. Kept = [t \in Rows |-> 0]
    BY OutboxAssumption DEF BRInit, Nothing, Kept
  <2>3. [t \in Rows |-> OutcomeOf(status[t])] = [t \in Rows |-> "open"]
    BY DEF BRInit, ObInit, OutcomeOf
  <2>4. QED
    BY <2>1, <2>2, <2>3 DEF Promise!Init, Kept
<1>2. RestoreBase /\ FilesInv /\ OwnerInv /\ [BRNext]_brVars
        => [Promise!Next]_<<{t \in Rows : boundTo[t] # NoApproval}, Kept,
                            [t \in Rows |-> OutcomeOf(status[t])]>>
  <2> SUFFICES ASSUME RestoreBase, FilesInv, OwnerInv, [BRNext]_brVars, ~Promise!Next
               PROVE  UNCHANGED <<{t \in Rows : boundTo[t] # NoApproval}, Kept,
                                  [t \in Rows |-> OutcomeOf(status[t])]>>
    OBVIOUS
  <2>1. /\ Kept' = Kept /\ boundTo' = boundTo
        /\ \A t \in Rows : OutcomeOf(status'[t]) = OutcomeOf(status[t])
    BY StepKeepsPromise
  <2>2. [t \in Rows |-> OutcomeOf(status[t])]' = [t \in Rows |-> OutcomeOf(status[t])]
    BY <2>1
  <2>3. QED
    BY <2>1, <2>2
<1>3. QED
  BY <1>1, <1>2, OneWorkerOwns, BaseHolds, PTL DEF BRSpec, RestoresOnce, Promise!Spec, Kept

-----------------------------------------------------------------------------
(* Plaintexts, with one process that does not die: a plan has at most one, *)
(* and one that has it is settled or in the hands of the process, which is *)
(* then on its way to reporting it, not to failing it.                     *)
Copies(t)  == {f \in Files : files[f][1] = t}
Concluded  == {"RESTORED", "RECONCILIATION_REQUIRED"}
InHand(q, t, f) ==
  /\ task[q] = t /\ target[q] = f
  /\ place[q] \in {"cleanup", "after_decryption", "complete", "completing", "caught",
                   "hold", "holding"}

OneCopy(t) ==
  \/ Copies(t) = {}
  \/ \E f \in Files : /\ Copies(t) = {f}
                      /\ status[t] \in Concluded \/ \E q \in Conns : InHand(q, t, f)

CopiesInv ==
  /\ \A q \in Conns : At(q, "holding") => holding[q] = task[q]
  /\ faults = 0 => \A t \in Rows : OneCopy(t)

LEMMA HoldingAtStep ==
  ASSUME RestoreBase, [BRNext]_brVars, NEW q \in Conns, At(q, "holding")',
         At(q, "holding") => holding[q] = task[q]
  PROVE  holding'[q] = task'[q]
<1> USE DEF At, Goto
<1>0. /\ place \in [Conns -> Spots] /\ task \in [Conns -> Rows \cup {0}]
      /\ holding \in [Conns -> Rows \cup {0}]
  BY DEF RestoreBase, BRTypeOK, ObTypeOK
<1>1. ASSUME place'[q] = place[q], holding'[q] = holding[q], task'[q] = task[q]
      PROVE  holding'[q] = task'[q]
  BY <1>1
<1>2. ASSUME NEW p \in Conns, Moves(p) PROVE holding'[q] = task'[q]
  <2>1. PICK s : CanMove(p, s) /\ place' = [place EXCEPT ![p] = s]
    BY <1>2, MovesDisturbNoTable
  <2>2. s # "holding" /\ UNCHANGED <<holding, task>>
    BY <1>2, <2>1, CanMoveStays, MovesDisturbNoTable DEF obVars, callVars
  <2>3. QED
    BY <1>0, <1>1, <2>1, <2>2
<1>3. ASSUME NEW p \in Conns, ClaimsRestore(p) \/ FindsNoRestore(p) PROVE holding'[q] = task'[q]
  <2>1. /\ task' = task \/ \E t : task' = [task EXCEPT ![p] = t]
        /\ \E s \in {"validate", "idle"} : place' = [place EXCEPT ![p] = s]
    BY <1>3 DEF ClaimsRestore, FindsNoRestore, Lease, callVars, steady
  <2>2. holding' = holding
    BY <1>3 DEF ClaimsRestore, FindsNoRestore, Lease, callVars
  <2>3. p # q
    BY <1>0, <2>1 DEF Spots
  <2>4. QED
    BY <1>0, <1>1, <2>1, <2>2, <2>3
<1>4. ASSUME NEW p \in Conns, HoldRestoreReads(p) PROVE holding'[q] = task'[q]
  <2>1. /\ task' = task
        /\ \/ /\ holding' = [holding EXCEPT ![p] = task[p]]
              /\ place' = [place EXCEPT ![p] = "holding"]
           \/ holding' = holding /\ place' = [place EXCEPT ![p] = "idle"]
    BY <1>4 DEF HoldRestoreReads, HoldReads, obVars, callVars, steady
  <2>2. QED
    BY <1>0, <1>1, <2>1
<1>5. ASSUME NEW p \in Conns,
             \/ CompletesRestore(p) \/ FailRestoreReads(p) \/ FailRestoreWrites(p)
             \/ HoldRestoreWrites(p) \/ Starts(p) \/ Crash(p)
      PROVE holding'[q] = task'[q]
  <2>1. /\ task' = task /\ \A r \in Conns \ {p} : holding'[r] = holding[r]
        /\ \E s \in {"idle", "switch", "failing", "hold"} : place' = [place EXCEPT ![p] = s]
    <3> USE <1>0 DEF steady, obVars, callVars, held
    <3>1. CASE CompletesRestore(p)
      BY <3>1 DEF CompletesRestore, Complete
    <3>2. CASE FailRestoreReads(p) \/ FailRestoreWrites(p)
      BY <3>2 DEF FailRestoreReads, FailReads, FailRestoreWrites, FailWrites
    <3>3. CASE HoldRestoreWrites(p)
      BY <3>3 DEF HoldRestoreWrites, HoldWrites
    <3>4. CASE Starts(p) \/ Crash(p)
      BY <3>4 DEF Starts, Crash, ObDisconnects
    <3>5. QED
      BY <1>5, <3>1, <3>2, <3>3, <3>4
  <2>2. p # q
    BY <1>0, <2>1
  <2>3. QED
    BY <1>0, <1>1, <2>1, <2>2
<1>6. CASE Environment \/ UNCHANGED brVars
  <2>1. UNCHANGED <<place, task>>
    BY <1>6, EnvironmentStands DEF procVars
  <2>2. holding' = holding
    BY <1>6
    DEF Environment, StageRestore, StageRow, RecordPreflight, Preflight, Reviews, AuthorizeRestore,
        Authorize, WindowOpens, WindowCloses, Lapse, LeaseLapses, Backoff, BackoffEnds,
        RequestRestoreReads, RequestReads, RequestRestoreWrites, RequestWrites, Decides,
        SwitchKill, brVars, held, obVars, callVars
  <2>3. QED
    BY <1>1, <2>1, <2>2
<1>7. QED
  BY <1>2, <1>3, <1>4, <1>5, <1>6 DEF BRNext, RestoreStep, Moves

LEMMA FaultsAreCounted ==
  ASSUME RestoreBase, [BRNext]_brVars, faults' = 0
  PROVE  faults = 0 /\ \A p \in Conns : ~Crash(p)
<1>1. faults \in Nat
  BY DEF RestoreBase, BRTypeOK
<1>2. ASSUME faults' = faults \/ faults' = faults + 1 PROVE faults = 0
  BY <1>1, <1>2
<1>3. \A p \in Conns : ~Crash(p)
  BY <1>1 DEF Crash
<1>4. ASSUME NEW p \in Conns, Moves(p) \/ TableSteps(p) \/ Starts(p) PROVE faults' = faults
  BY <1>4, MovesDisturbNoTable, TableStepPlaces DEF Starts, outside
<1>5. ASSUME NEW t \in Rows, Lapse(t) PROVE faults' = faults \/ faults' = faults + 1
  BY <1>5 DEF Lapse
<1>6. CASE Environment
  BY <1>2, <1>5, <1>6, <1>3
  DEF Environment, StageRestore, RecordPreflight, Reviews, AuthorizeRestore, WindowOpens,
      WindowCloses, Backoff, RequestRestoreReads, RequestRestoreWrites, Decides, SwitchKill,
      outside
<1>7. CASE UNCHANGED brVars
  BY <1>2, <1>3, <1>7 DEF brVars, outside
<1>8. QED
  BY <1>2, <1>3, <1>4, <1>6, <1>7 DEF BRNext, RestoreStep, Moves, TableSteps

LEMMA CopyAtMove ==
  ASSUME NEW p, Conns = {p}, RestoreBase, OwnerInv, Moves(p),
         \A t \in Rows : OneCopy(t), NEW u \in Rows
  PROVE  OneCopy(u)'
<1>0. /\ place \in [Conns -> Spots] /\ target \in [Conns -> Files] /\ p \in Conns
      /\ files \in [Files -> Stored] /\ Rows \subseteq Nat \ {0}
      /\ Busy(p) => task[p] \in Rows
  BY TypesForFiles
<1>1. UNCHANGED <<status, task, target>>
  BY <1>0, <1>0, MovesDisturbNoTable DEF obVars, rowVars
<1>2. PICK s : CanMove(p, s) /\ place' = [place EXCEPT ![p] = s]
  BY <1>0, MovesDisturbNoTable
<1>3. CASE UNCHANGED files
  <2>1. Copies(u)' = Copies(u)
    BY <1>3 DEF Copies
  <2>2. ASSUME NEW f \in Files, Copies(u) = {f}, InHand(p, u, f)
        PROVE  InHand(p, u, f)' \/ At(p, "link")
    <3>1. files[target[p]] # Nothing
      BY <1>0, <2>2 DEF Copies, InHand, Nothing
    <3>2. CASE At(p, "caught")
      <4>1. Catches(p)
        BY <1>0, <3>2
        DEF Moves, At, Guards, ClaimReadsKillSwitch, ValidatesRestore, GuardReadsRow,
            GuardReadsKillSwitch, Downloads, Decrypts, Links, CleansUp,
            CompleteReadsKillSwitch, RestoreBase, Sane
      <4>2. place'[p] = "hold"
        BY <1>0, <3>1, <4>1 DEF Catches, Free, Goto
      <4>3. QED
        BY <1>1, <2>2, <4>2 DEF InHand
    <3>3. CASE ~At(p, "caught")
      BY <1>0, <1>1, <1>2, <2>2, <3>3 DEF InHand, CanMove, At
    <3>4. QED
      BY <3>2, <3>3
  <2>3. ASSUME NEW f \in Files, InHand(p, u, f) PROVE ~At(p, "link")
    BY <2>3 DEF InHand, At
  <2>4. QED
    BY <1>0, <1>1, <2>1, <2>2, <2>3 DEF OneCopy
<1>4. CASE /\ At(p, "link") /\ Free(target[p]) /\ Goto(p, "cleanup")
           /\ files' = [files EXCEPT ![target[p]] = <<task[p], version[p]>>]
  <2>1. task[p] \in Rows /\ status[task[p]] = "AUTHORIZED"
    BY <1>0, <1>4 DEF OwnerInv, Owner, Holds, Busy, At
  <2>2. files[target[p]][1] = 0 /\ \A f \in Files : f # target[p] => files'[f] = files[f]
    BY <1>0, <1>4 DEF Free, Nothing
  <2>3. files'[target[p]][1] = task[p]
    BY <1>0, <1>4
  <2>4. CASE u = task[p]
    <3>1. \A f \in Files : ~InHand(p, u, f)
      BY <1>4 DEF InHand, At
    <3>2. Copies(u) = {}
      BY <1>0, <2>1, <2>4, <3>1 DEF OneCopy, Concluded
    <3>3. Copies(u)' = {target[p]}
      <4>1. \A f \in Files : files[f][1] # u
        BY <3>2 DEF Copies
      <4>2. \A f \in Files : files'[f][1] = u <=> f = target[p]
        BY <2>2, <2>3, <2>4, <4>1
      <4>3. target[p] \in Files
        BY <1>0
      <4>4. {f \in Files : files'[f][1] = u} = {target[p]}
        BY <4>2, <4>3
      <4>5. QED
        BY <4>4 DEF Copies
    <3>4. PICK f \in Files : f = target[p]
      BY <1>0
    <3>5. InHand(p, u, f)'
      BY <1>0, <1>1, <1>4, <2>4, <3>4 DEF InHand, Goto
    <3>6. QED
      BY <1>0, <3>3, <3>4, <3>5 DEF OneCopy
  <2>5. CASE u # task[p]
    <3>1. Copies(u)' = Copies(u)
      BY <1>0, <2>2, <2>3, <2>5 DEF Copies
    <3>2. \A f \in Files : ~InHand(p, u, f)
      BY <2>5 DEF InHand
    <3>3. QED
      BY <1>0, <1>1, <3>1, <3>2 DEF OneCopy
  <2>6. QED
    BY <2>4, <2>5
<1>5. CASE /\ At(p, "cleanup") /\ files' = [files EXCEPT ![target[p]] = Nothing]
           /\ Goto(p, "caught")
  <2>1. files'[target[p]][1] = 0 /\ \A f \in Files : f # target[p] => files'[f] = files[f]
    BY <1>0, <1>5 DEF Nothing
  <2>2. Copies(u)' = Copies(u) \ {target[p]}
    BY <1>0, <2>1 DEF Copies
  <2>3. ASSUME NEW f \in Files, Copies(u) = {f} PROVE Copies(u)' = {} \/ Copies(u)' = {f}
    BY <2>2, <2>3
  <2>4. ASSUME NEW f \in Files, Copies(u) = {f}, InHand(p, u, f) PROVE Copies(u)' = {}
    BY <2>2, <2>4 DEF InHand
  <2>5. CASE Copies(u) = {}
    BY <2>2, <2>5 DEF OneCopy
  <2>6. QED
    BY <1>0, <1>1, <2>3, <2>4, <2>5 DEF OneCopy
<1>6. QED
  BY <1>0, <1>3, <1>4, <1>5, FilesAtMove

LEMMA CopyAtStep ==
  ASSUME NEW p, Conns = {p}, RestoreBase, OwnerInv, CopiesInv, [BRNext]_brVars,
         faults' = 0, NEW u \in Rows
  PROVE  OneCopy(u)'
<1>0. /\ place \in [Conns -> Spots] /\ p \in Conns /\ status \in [Rows -> RowStatuses]
      /\ Busy(p) => task[p] \in Rows
      /\ target \in [Conns -> Files]
  BY TypesForFiles
<1>a. faults = 0 /\ ~Crash(p)
  BY <1>0, FaultsAreCounted
<1>b. /\ \A t \in Rows : OneCopy(t)
      /\ At(p, "holding") => holding[p] = task[p]
      /\ Busy(p) => Holds(p, task[p])
      /\ failing[p].row # 0 => At(p, "failing") /\ failing[p].row = task[p]
  BY <1>0, <1>a DEF CopiesInv, OwnerInv, Owner
<1>1. ASSUME UNCHANGED files, status[u] \in Concluded => status'[u] \in Concluded,
             \A f \in Files : InHand(p, u, f) => InHand(p, u, f)' \/ status'[u] \in Concluded
      PROVE  OneCopy(u)'
  <2>1. Copies(u)' = Copies(u)
    BY <1>1 DEF Copies
  <2>2. QED
    BY <1>0, <1>1, <1>b, <2>1 DEF OneCopy
<1>2. CASE Moves(p)
  BY <1>2, <1>b, CopyAtMove
<1>3. CASE ClaimsRestore(p) \/ FindsNoRestore(p)
  <2>1. \E t, dead : dead \subseteq Due /\ Lease(p, t, dead)
    <3>1. \A t : {v \in Due : v < t /\ Hopeless(v)} \subseteq Due
      OBVIOUS
    <3>2. {v \in Due : Hopeless(v)} \subseteq Due
      OBVIOUS
    <3>3. QED
      BY <1>3, <3>1, <3>2 DEF ClaimsRestore, FindsNoRestore
  <2>2. status[u] \in Concluded => status'[u] \in Concluded
    BY <2>1 DEF Lease, Due, Unleased, Concluded
  <2>3. files' = files /\ place[p] = "claim"
    BY <1>3 DEF ClaimsRestore, FindsNoRestore, outside, At
  <2>4. \A f \in Files : ~InHand(p, u, f)
    BY <2>3 DEF InHand
  <2>5. QED
    BY <1>1, <2>2, <2>3, <2>4
<1>4. CASE CompletesRestore(p)
  <2>1. /\ At(p, "completing") /\ task[p] \in Rows /\ UNCHANGED <<task, target, files>>
        /\ \/ UNCHANGED status
           \/ status' = [status EXCEPT ![task[p]] = "RESTORED"]
    BY <1>4, ReceiptAtCompletion
  <2>2. \/ Goto(p, "hold") /\ UNCHANGED status
        \/ status' = [status EXCEPT ![task[p]] = "RESTORED"]
    BY <1>4 DEF CompletesRestore, Complete, SetStatus, obVars, rowVars
  <2>3. status[u] \in Concluded => status'[u] \in Concluded
    BY <1>0, <2>1 DEF Concluded
  <2>4. ASSUME NEW f \in Files, InHand(p, u, f)
        PROVE  InHand(p, u, f)' \/ status'[u] \in Concluded
    BY <1>0, <2>1, <2>2, <2>4 DEF InHand, Concluded, Goto
  <2>5. QED
    BY <1>1, <2>1, <2>3, <2>4
<1>5. CASE FailRestoreReads(p) \/ FailRestoreWrites(p)
  <2>1. files' = files /\ \A f \in Files : ~InHand(p, u, f)
    BY <1>5 DEF FailRestoreReads, FailRestoreWrites, InHand, At, outside
  <2>2. status[u] \in Concluded => status'[u] = status[u]
    <3>1. CASE FailRestoreReads(p)
      BY <3>1 DEF FailRestoreReads, FailReads, obVars, rowVars
    <3>2. CASE FailRestoreWrites(p)
      <4>1. /\ failing[p].row = task[p] /\ status[task[p]] = "AUTHORIZED"
            /\ \E s : status' = [status EXCEPT ![failing[p].row] = s]
        BY <1>b, <3>2 DEF FailRestoreWrites, FailWrites, SetStatus, Holds, Busy, At
      <4>2. QED
        BY <1>0, <4>1 DEF Concluded
    <3>3. QED
      BY <1>5, <3>1, <3>2
  <2>3. QED
    BY <1>1, <2>1, <2>2
<1>6. CASE HoldRestoreReads(p)
  <2>1. /\ At(p, "hold") /\ UNCHANGED <<files, status, task, target>>
    BY <1>6 DEF HoldRestoreReads, HoldReads, obVars, rowVars, steady, outside
  <2>2. Goto(p, "holding")
    BY <1>6, <1>b, <2>1 DEF HoldRestoreReads, Busy, At
  <2>3. \A f \in Files : InHand(p, u, f) => InHand(p, u, f)'
    BY <1>0, <2>1, <2>2 DEF InHand, Goto
  <2>4. QED
    BY <1>1, <2>1, <2>3
<1>7. CASE HoldRestoreWrites(p)
  <2>1. At(p, "holding") /\ holding[p] = task[p] /\ Holds(p, task[p]) /\ task[p] \in Rows
    BY <1>0, <1>7, <1>b DEF HoldRestoreWrites, Busy, At
  <2>2. files' = files /\ status' = [status EXCEPT ![task[p]] = "RECONCILIATION_REQUIRED"]
    BY <1>7, <2>1 DEF HoldRestoreWrites, HoldWrites, SetStatus, outside
  <2>3. status[u] \in Concluded => status'[u] \in Concluded
    BY <1>0, <2>1, <2>2 DEF Concluded
  <2>4. \A f \in Files : InHand(p, u, f) => status'[u] \in Concluded
    BY <1>0, <2>1, <2>2 DEF InHand, Concluded
  <2>5. QED
    BY <1>1, <2>2, <2>3, <2>4
<1>8. CASE Starts(p)
  <2>1. UNCHANGED <<files, status>> /\ \A f \in Files : ~InHand(p, u, f)
    BY <1>8 DEF Starts, InHand, At, held, outside, obVars, rowVars
  <2>2. QED
    BY <1>1, <2>1
<1>9. CASE Environment \/ UNCHANGED brVars
  <2>1. UNCHANGED <<place, task, target, files>>
    BY <1>9, EnvironmentStands DEF procVars
  <2>2. status[u] \in Concluded => status'[u] = status[u]
    <3>1. ASSUME NEW t \in Rows, StageRestore(t) \/ RecordPreflight(t)
          PROVE  status[u] \in Concluded => status'[u] = status[u]
      BY <1>0, <3>1 DEF StageRestore, StageRow, RecordPreflight, Preflight, SetStatus, Concluded
    <3>2. ASSUME NEW t \in Rows, NEW a \in Approvals, AuthorizeRestore(t, a)
          PROVE  status[u] \in Concluded => status'[u] = status[u]
      BY <1>0, <3>2 DEF AuthorizeRestore, Authorize, SetStatus, Concluded
    <3>3. ASSUME NEW t \in Rows,
                 \/ WindowOpens(t) \/ WindowCloses(t) \/ Lapse(t) \/ Backoff(t)
                 \/ \E q \in Requesters : Reviews(q, t)
          PROVE  status' = status
      BY <3>3
      DEF WindowOpens, WindowCloses, Lapse, LeaseLapses, Backoff, BackoffEnds, Reviews, held,
          obVars, rowVars
    <3>4. ASSUME NEW q \in Requesters, RequestRestoreReads(q) PROVE status' = status
      BY <3>4 DEF RequestRestoreReads, RequestReads, obVars, rowVars
    <3>5. ASSUME NEW q \in Requesters, NEW a \in Approvals, RequestRestoreWrites(q, a)
          PROVE  status' = status
      BY <3>5 DEF RequestRestoreWrites, RequestWrites, rowVars
    <3>6. ASSUME Decides \/ UNCHANGED brVars \/ \E on \in BOOLEAN : SwitchKill(on)
          PROVE  status' = status
      BY <3>6 DEF Decides, SwitchKill, brVars, obVars, rowVars
    <3>7. QED
      BY <1>9, <3>1, <3>2, <3>3, <3>4, <3>5, <3>6 DEF Environment
  <2>3. QED
    BY <1>1, <2>1, <2>2 DEF InHand
<1>10. QED
  BY <1>0, <1>a, <1>2, <1>3, <1>4, <1>5, <1>6, <1>7, <1>8, <1>9
  DEF BRNext, RestoreStep, Moves

(* One process: while it does not die, no plan has two plaintexts, and none *)
(* that has one is FAILED or up for another claim.                         *)
THEOREM OneWorkerPublishesOnce ==
  ASSUME NEW p, Conns = {p}
  PROVE  BRSpec => []PlaintextNotRetried
<1>1. BRInit => OwnerInv /\ CopiesInv
  <2> SUFFICES ASSUME BRInit PROVE OwnerInv /\ CopiesInv
    OBVIOUS
  <2>1. OwnerInv
    BY DEF BRInit, ObInit, OwnerInv, Owner, Busy, NotFailing, Terminal, Finished
  <2>2. \A t \in Rows : Copies(t) = {}
    BY OutboxAssumption DEF BRInit, Copies, Nothing
  <2>3. QED
    BY <2>1, <2>2 DEF BRInit, CopiesInv, OneCopy, At
<1>2. RestoreBase /\ OwnerInv /\ CopiesInv /\ [BRNext]_brVars => CopiesInv'
  <2> SUFFICES ASSUME RestoreBase, OwnerInv, CopiesInv, [BRNext]_brVars PROVE CopiesInv'
    OBVIOUS
  <2>1. \A q \in Conns : At(q, "holding")' => holding'[q] = task'[q]
    BY HoldingAtStep DEF CopiesInv
  <2>2. faults' = 0 => \A t \in Rows : OneCopy(t)'
    BY CopyAtStep
  <2>3. QED
    BY <2>1, <2>2 DEF CopiesInv
<1>3. RestoreBase /\ OwnerInv /\ CopiesInv => PlaintextNotRetried
  <2> SUFFICES ASSUME RestoreBase, OwnerInv, CopiesInv, faults = 0, NEW t \in Rows
               PROVE  /\ Cardinality(Copies(t)) <= 1
                      /\ Copies(t) # {} =>
                           status[t] # "FAILED" /\ (status[t] = "AUTHORIZED" => lessee[t] # NoOne)
    BY DEF PlaintextNotRetried, Copies
  <2>1. OneCopy(t)
    BY DEF CopiesInv
  <2>2. Cardinality(Copies(t)) <= 1
    <3>1. CASE Copies(t) = {}
      BY <3>1, FS_EmptySet
    <3>2. ASSUME NEW f \in Files, Copies(t) = {f} PROVE Cardinality(Copies(t)) <= 1
      BY <3>2, FS_Singleton
    <3>3. QED
      BY <2>1, <3>1, <3>2 DEF OneCopy
  <2>3. ASSUME NEW q \in Conns, NEW f \in Files, InHand(q, t, f)
        PROVE  status[t] = "AUTHORIZED" /\ lessee[t] # NoOne
    <3>1. Holds(q, t)
      BY <2>3 DEF OwnerInv, Owner, Busy, InHand
    <3>2. QED
      BY <3>1, OutboxAssumption DEF Holds
  <2>4. QED
    BY <2>1, <2>2, <2>3 DEF OneCopy, Concluded
<1>4. QED
  BY <1>1, <1>2, <1>3, OneWorkerOwns, BaseHolds, PTL DEF BRSpec
=============================================================================
