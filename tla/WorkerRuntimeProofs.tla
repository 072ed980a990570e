------------------------ MODULE WorkerRuntimeProofs ------------------------
(* What holds of the workers for every number of processes, items,         *)
(* approvals, crashes and lapsed leases.                                   *)
EXTENDS WorkerRuntime, WorkQueueProofs, ApprovalsProofs

Busy(p) == pc[p] \notin {"idle", "claim", "down"}

(* A process past its claim works on an item, for an attempt that has been *)
(* counted; it looks for an approval only when the item names one.         *)
JobIsClaimed ==
  \A p \in Conns :
    /\ Busy(p) => job[p] \in Items /\ run[p] \in 1..attempts[job[p]]
    /\ pc[p] = "approve" => ApprovalOf[job[p]] \in Approvals

(* What a process carries to complete_work, and what a receipt stores, was *)
(* produced by the handler under a counted attempt.                        *)
ResultIsProduced ==
  /\ \A p \in Conns : pc[p] \in {"record", "complete"} =>
       out[p] \in 1..attempts[job[p]] /\ <<job[p], out[p]>> \in ran
  /\ \A w \in Items : receipts[w] # NoReceipt =>
       receipts[w].result \in 1..attempts[w] /\ <<w, receipts[w].result>> \in ran

BaseInv ==
  WRTypeOK /\ FailingNamesItem /\ ReadsAreOfRealRows /\ JobIsClaimed /\ ResultIsProduced

-----------------------------------------------------------------------------
(* Every step of the workers is a step of the queue, or none of its business*)
LEMMA StepIsQueueStep ==
  ASSUME BaseInv, [WRNext]_wrVars
  PROVE  [WQNext]_wqVars
<1>1. ASSUME NEW p \in Conns, WorkerStep(p) PROVE [WQNext]_wqVars
  <2>1. CASE WorkerReadsKillSwitch(p)
    BY <2>1 DEF WorkerReadsKillSwitch, WQNext, Calls
  <2>2. CASE WorkerFindsNothing(p)
    BY <2>2 DEF WorkerFindsNothing, WQNext, Calls
  <2>3. CASE WorkerClaims(p)
    BY <2>3 DEF WorkerClaims, WQNext, Calls
  <2>4. CASE WorkerCompletes(p)
    <3>1. job[p] \in Items /\ out[p] \in 1..attempts[job[p]]
      BY <2>4 DEF WorkerCompletes, At, BaseInv, JobIsClaimed, ResultIsProduced, Busy
    <3>2. QED
      BY <2>4, <3>1 DEF WorkerCompletes, WQNext, Calls
  <2>5. CASE WorkerBlocks(p)
    <3>1. job[p] \in Items /\ verdict[p] \in {"APPROVAL_BLOCKED", "POLICY_BLOCKED"}
      BY <2>5 DEF WorkerBlocks, At, BaseInv, JobIsClaimed, Busy, WRTypeOK, Verdicts
    <3>2. QED
      BY <2>5, <3>1 DEF WorkerBlocks, WQNext, Calls
  <2>6. CASE WorkerFailReads(p)
    <3>1. job[p] \in Items
      BY <2>6 DEF WorkerFailReads, At, BaseInv, JobIsClaimed, Busy
    <3>2. QED
      BY <2>6, <3>1 DEF WorkerFailReads, WQNext, Calls
  <2>7. CASE WorkerFailWrites(p)
    BY <2>7 DEF WorkerFailWrites, WQNext, Calls
  <2>8. CASE WorkerLooksForReceipt(p) \/ WorkerPassesGate(p) \/ WorkerReadsApproval(p)
               \/ WorkerConsumesApproval(p) \/ WorkerRunsHandler(p) \/ WorkerRecordsReceipt(p)
    BY <2>8 DEF WorkerLooksForReceipt, WorkerPassesGate, WorkerReadsApproval,
                WorkerConsumesApproval, WorkerRunsHandler, WorkerRecordsReceipt
  <2>9. QED
    BY <1>1, <2>1, <2>2, <2>3, <2>4, <2>5, <2>6, <2>7, <2>8 DEF WorkerStep
<1>2. ASSUME NEW p \in Conns, Crash(p) \/ Restart(p) PROVE [WQNext]_wqVars
  BY <1>2 DEF Crash, Restart, WQNext, Calls
<1>3. CASE Environment
  BY <1>3 DEF Environment, SwitchKill, Lapse, WQNext, Operator, Time
<1>4. CASE UNCHANGED wrVars
  BY <1>4 DEF wrVars
<1>5. QED
  BY <1>1, <1>2, <1>3, <1>4 DEF WRNext

(* And it is a step of the approvals table, or none of its business.       *)
LEMMA StepIsApprovalStep ==
  ASSUME BaseInv, [WRNext]_wrVars
  PROVE  [ApStep]_apVars
<1>1. ASSUME NEW p \in Conns, WorkerStep(p) PROVE [ApStep]_apVars
  <2>1. CASE WorkerReadsApproval(p)
    <3>1. CASE ConsumeReads(p, ApprovalOf[job[p]])
      <4>1. ApprovalOf[job[p]] \in Approvals
        BY <2>1 DEF WorkerReadsApproval, At, BaseInv, JobIsClaimed
      <4>2. QED
        BY <3>1, <4>1 DEF ApStep
    <3>2. QED
      BY <2>1, <3>1 DEF WorkerReadsApproval
  <2>2. CASE WorkerConsumesApproval(p)
    BY <2>2 DEF WorkerConsumesApproval, ApStep
  <2>3. QED
    BY <1>1, <2>1, <2>2
    DEF WorkerStep, WorkerReadsKillSwitch, WorkerFindsNothing, WorkerClaims,
        WorkerLooksForReceipt, WorkerPassesGate, WorkerRunsHandler, WorkerRecordsReceipt,
        WorkerCompletes, WorkerBlocks, WorkerFailReads, WorkerFailWrites
<1>2. ASSUME NEW p \in Conns, Crash(p) \/ Restart(p) PROVE [ApStep]_apVars
  BY <1>2 DEF Crash, Restart, ApStep
<1>3. CASE Environment
  BY <1>3 DEF Environment, SwitchKill, Lapse, ApStep
<1>4. CASE UNCHANGED wrVars
  BY <1>4 DEF wrVars
<1>5. QED
  BY <1>1, <1>2, <1>3, <1>4 DEF WRNext

-----------------------------------------------------------------------------
(* What a process's own variables and the receipts do in each kind of step.*)
(* Attempts grow in a claim only, and never shrink.                        *)
LEMMA AttemptsGrow ==
  ASSUME WQTypeOK, FailingNamesItem, [WQNext]_wqVars
  PROVE  \A w \in Items : attempts'[w] >= attempts[w]
<1>1. CASE attempts' = attempts
  BY <1>1 DEF WQTypeOK
<1>2. ASSUME NEW p \in Conns, NEW w \in Items, ClaimGrants(p, w)
      PROVE  \A v \in Items : attempts'[v] >= attempts[v]
  BY <1>2 DEF ClaimGrants, WQTypeOK
<1>3. QED
  BY <1>1, <1>2
  DEF WQNext, Operator, Time, Calls, SetKillSwitch, ConfigureBudget, EnqueueWork,
      BecomesAvailable, LeaseExpires, NextPeriod, ClaimPassesKillSwitch, ClaimFindsNothing,
      ClaimBlocksOnBudget, CompleteWork, BlockWork, FailReadsRow, FailWrites, Disconnects,
      wqVars, rowVars

LEMMA BaseAtInit == WRInit => BaseInv
<1> SUFFICES ASSUME WRInit PROVE BaseInv
  OBVIOUS
<1>1. WQTypeOK /\ FailingNamesItem
  BY TypesAtInit DEF WRInit
<1>2. ApTypeOK /\ ReadsAreOfRealRows
  BY ApInvAtInit DEF WRInit, ApInv
<1>3. WRTypeOK
  BY <1>1, <1>2 DEF WRInit, WRTypeOK, Places, Verdicts, NoReceipt
<1>4. QED
  BY <1>1, <1>2, <1>3 DEF WRInit, BaseInv, JobIsClaimed, ResultIsProduced, Busy

(* The types of what the worker module adds.                               *)
LEMMA WorkerTypes ==
  ASSUME BaseInv, [WRNext]_wrVars
  PROVE  /\ pc'       \in [Conns -> Places]
         /\ job'      \in [Conns -> Items \cup {0}]
         /\ run'      \in [Conns -> Nat]
         /\ out'      \in [Conns -> Nat]
         /\ verdict'  \in [Conns -> Verdicts]
         /\ receipts' \in [Items -> [result : Nat, at : Nat]]
         /\ ran'      \subseteq Items \X Nat
         /\ braked'   \subseteq Conns
         /\ faults'   \in Nat
<1> DEFINE Goal == /\ pc'       \in [Conns -> Places]
                   /\ job'      \in [Conns -> Items \cup {0}]
                   /\ run'      \in [Conns -> Nat]
                   /\ out'      \in [Conns -> Nat]
                   /\ verdict'  \in [Conns -> Verdicts]
                   /\ receipts' \in [Items -> [result : Nat, at : Nat]]
                   /\ ran'      \subseteq Items \X Nat
                   /\ braked'   \subseteq Conns
                   /\ faults'   \in Nat
<1> USE DEF BaseInv, WRTypeOK, Places, histVars
<1>1. ASSUME NEW p \in Conns, WorkerReadsKillSwitch(p) PROVE Goal
  BY <1>1 DEF WorkerReadsKillSwitch, Goto
<1>2. ASSUME NEW p \in Conns, WorkerFindsNothing(p) PROVE Goal
  BY <1>2 DEF WorkerFindsNothing, Goto
<1>3. ASSUME NEW p \in Conns, WorkerClaims(p) PROVE Goal
  BY <1>3 DEF WorkerClaims, Goto, WQTypeOK
<1>4. ASSUME NEW p \in Conns, WorkerLooksForReceipt(p) PROVE Goal
  <2>1. receipts[job[p]].result \in Nat
    BY <1>4 DEF WorkerLooksForReceipt, At, JobIsClaimed, Busy
  <2>2. QED
    BY <1>4, <2>1 DEF WorkerLooksForReceipt, Goto
<1>5. ASSUME NEW p \in Conns, WorkerPassesGate(p) PROVE Goal
  BY <1>5 DEF WorkerPassesGate, Refuse, Goto, Verdicts
<1>6. ASSUME NEW p \in Conns, WorkerReadsApproval(p) PROVE Goal
  BY <1>6 DEF WorkerReadsApproval, Refuse, Goto, Verdicts
<1>7. ASSUME NEW p \in Conns, WorkerConsumesApproval(p) PROVE Goal
  BY <1>7 DEF WorkerConsumesApproval, Goto
<1>8. ASSUME NEW p \in Conns, WorkerRunsHandler(p) PROVE Goal
  <2>1. <<job[p], run[p]>> \in Items \X Nat
    BY <1>8 DEF WorkerRunsHandler, At, JobIsClaimed, Busy
  <2>2. QED
    BY <1>8, <2>1 DEF WorkerRunsHandler, Goto
<1>9. ASSUME NEW p \in Conns, WorkerRecordsReceipt(p) PROVE Goal
  <2>1. [result |-> out[p], at |-> attempts[job[p]]] \in [result : Nat, at : Nat]
    BY <1>9 DEF WorkerRecordsReceipt, At, JobIsClaimed, Busy, WQTypeOK
  <2>2. receipts' \in [Items -> [result : Nat, at : Nat]]
    BY <1>9, <2>1 DEF WorkerRecordsReceipt
  <2>3. QED
    BY <1>9, <2>2 DEF WorkerRecordsReceipt, Goto
<1>10. ASSUME NEW p \in Conns,
              WorkerCompletes(p) \/ WorkerBlocks(p) \/ WorkerFailReads(p) \/ WorkerFailWrites(p)
       PROVE  Goal
  BY <1>10 DEF WorkerCompletes, WorkerBlocks, WorkerFailReads, WorkerFailWrites, Goto
<1>11. ASSUME NEW p \in Conns, Crash(p) \/ Restart(p) PROVE Goal
  BY <1>11 DEF Crash, Restart, Goto
<1>12. CASE Environment
  BY <1>12 DEF Environment, SwitchKill, Lapse, procVars
<1>13. CASE UNCHANGED wrVars
  BY <1>13 DEF wrVars, procVars
<1>14. QED
  BY <1>1, <1>2, <1>3, <1>4, <1>5, <1>6, <1>7, <1>8, <1>9, <1>10, <1>11, <1>12, <1>13
  DEF WRNext, WorkerStep

(* A step after which a process is no longer busy, or goes on with the same*)
(* item and attempt, keeps every job claimed.                              *)
LEMMA JobsStayClaimed ==
  ASSUME BaseInv, [WRNext]_wrVars
  PROVE  JobIsClaimed'
<1>1. /\ \A w \in Items : attempts'[w] >= attempts[w]
      /\ attempts \in [Items -> Nat] /\ attempts' \in [Items -> Nat]
  BY StepIsQueueStep, AttemptsGrow, TypesAtStep DEF BaseInv, WRTypeOK, WQTypeOK
<1>2. pc \in [Conns -> Places] /\ job \in [Conns -> Items \cup {0}] /\ run \in [Conns -> Nat]
  BY DEF BaseInv, WRTypeOK
<1> DEFINE Claimed(p) == job'[p] \in Items /\ run'[p] \in 1..attempts'[job'[p]]
<1>3. ASSUME NEW p \in Conns, Busy(p), job'[p] = job[p], run'[p] = run[p]
      PROVE  Claimed(p)
  BY <1>1, <1>2, <1>3 DEF BaseInv, JobIsClaimed
<1>4. ASSUME NEW p \in Conns, NEW q \in Conns, WorkerStep(q),
             pc'[p] \notin {"idle", "claim", "down"}
      PROVE  Claimed(p)
  <2>1. CASE WorkerClaims(q) /\ p = q
    <3>1. PICK w \in Items : /\ attempts' = [attempts EXCEPT ![w] = @ + 1]
                             /\ job' = [job EXCEPT ![p] = w]
                             /\ run' = [run EXCEPT ![p] = attempts[w] + 1]
      BY <2>1 DEF WorkerClaims, ClaimGrants
    <3>2. QED
      BY <1>1, <1>2, <3>1
  <2>2. CASE ~(WorkerClaims(q) /\ p = q)
    <3>1. job'[p] = job[p] /\ run'[p] = run[p] /\ (pc'[p] = pc[p] \/ p = q)
      BY <1>2, <1>4, <2>2
      DEF WorkerStep, Goto, Refuse, WorkerReadsKillSwitch, WorkerFindsNothing, WorkerClaims,
          WorkerLooksForReceipt, WorkerPassesGate, WorkerReadsApproval, WorkerConsumesApproval,
          WorkerRunsHandler, WorkerRecordsReceipt, WorkerCompletes, WorkerBlocks,
          WorkerFailReads, WorkerFailWrites
    <3>2. Busy(p)
      BY <1>2, <1>4, <2>2, <3>1
      DEF Busy, At, WorkerStep, Goto, Refuse, WorkerReadsKillSwitch, WorkerFindsNothing,
          WorkerLooksForReceipt, WorkerPassesGate, WorkerReadsApproval, WorkerConsumesApproval,
          WorkerRunsHandler, WorkerRecordsReceipt, WorkerCompletes, WorkerBlocks,
          WorkerFailReads, WorkerFailWrites
    <3>3. QED
      BY <1>3, <3>1, <3>2
  <2>3. QED
    BY <2>1, <2>2
<1>5. ASSUME NEW p \in Conns, pc'[p] \notin {"idle", "claim", "down"}
      PROVE  Claimed(p)
  <2>1. CASE \E q \in Conns : WorkerStep(q)
    BY <1>4, <1>5, <2>1
  <2>2. CASE ~\E q \in Conns : WorkerStep(q)
    <3>1. Busy(p) /\ job'[p] = job[p] /\ run'[p] = run[p]
      BY <1>2, <1>5, <2>2 DEF Busy, WRNext, Crash, Restart, Goto, Environment, SwitchKill,
         Lapse, procVars, wrVars
    <3>2. QED
      BY <1>3, <3>1
  <2>3. QED
    BY <2>1, <2>2
<1>6. ASSUME NEW p \in Conns, pc'[p] = "approve" PROVE ApprovalOf[job'[p]] \in Approvals
  <2>1. CASE WorkerPassesGate(p)
    <3>1. ApprovalOf[job[p]] # NoApproval /\ job'[p] = job[p]
      BY <1>2, <1>6, <2>1 DEF WorkerPassesGate, Goto, Refuse
    <3>2. job[p] \in Items
      BY <2>1 DEF WorkerPassesGate, At, BaseInv, JobIsClaimed, Busy
    <3>3. QED
      BY <3>1, <3>2, GateAssumption
  <2>2. CASE ~WorkerPassesGate(p)
    <3>1. pc[p] = "approve" /\ job'[p] = job[p]
      BY <1>2, <1>6, <2>2
      DEF WRNext, WorkerStep, Goto, Refuse, WorkerReadsKillSwitch, WorkerFindsNothing, WorkerClaims,
          WorkerLooksForReceipt, WorkerPassesGate, WorkerReadsApproval, WorkerConsumesApproval,
          WorkerRunsHandler, WorkerRecordsReceipt, WorkerCompletes, WorkerBlocks,
          WorkerFailReads, WorkerFailWrites, Crash, Restart, Environment, SwitchKill,
          Lapse, procVars, wrVars
    <3>2. QED
      BY <3>1 DEF BaseInv, JobIsClaimed
  <2>3. QED
    BY <2>1, <2>2
<1>7. QED
  BY <1>5, <1>6 DEF JobIsClaimed, Busy

(* Which step touches a receipt, and how.                                  *)
LEMMA ReceiptsAreKept ==
  ASSUME BaseInv, [WRNext]_wrVars
  PROVE  /\ ran \subseteq ran'
         /\ \A w \in Items : receipts[w] # NoReceipt => receipts'[w] = receipts[w]
         /\ \A w \in Items : receipts'[w] # receipts[w] =>
              \E p \in Conns :
                /\ pc[p] = "record" /\ job[p] = w /\ receipts[w] = NoReceipt
                /\ receipts'[w] = [result |-> out[p], at |-> attempts[w]]
                /\ UNCHANGED <<attempts, ran>>
<1>1. receipts \in [Items -> [result : Nat, at : Nat]]
  BY DEF BaseInv, WRTypeOK
<1>2. ASSUME NEW p \in Conns, WorkerRecordsReceipt(p)
      PROVE  /\ ran' = ran /\ attempts' = attempts /\ pc[p] = "record" /\ job[p] \in Items
             /\ \/ receipts' = receipts
                \/ /\ receipts[job[p]] = NoReceipt
                   /\ receipts' = [receipts EXCEPT ![job[p]] =
                                     [result |-> out[p], at |-> attempts[job[p]]]]
  BY <1>2 DEF WorkerRecordsReceipt, At, histVars, wqVars, rowVars, BaseInv, JobIsClaimed, Busy
<1>3. CASE \E p \in Conns : WorkerRecordsReceipt(p)
  <2>1. PICK p \in Conns : WorkerRecordsReceipt(p)
    BY <1>3
  <2>2. CASE receipts' = receipts
    BY <1>2, <2>1, <2>2
  <2>3. CASE receipts' # receipts
    <3>1. /\ ran' = ran /\ attempts' = attempts /\ pc[p] = "record" /\ job[p] \in Items
          /\ receipts[job[p]] = NoReceipt
          /\ receipts' = [receipts EXCEPT ![job[p]] = [result |-> out[p], at |-> attempts[job[p]]]]
      BY <1>2, <2>1, <2>3
    <3>2. ASSUME NEW w \in Items, receipts'[w] # receipts[w]
          PROVE  job[p] = w /\ receipts'[w] = [result |-> out[p], at |-> attempts[w]]
      BY <1>1, <3>1, <3>2
    <3>3. \A w \in Items : receipts[w] # NoReceipt => receipts'[w] = receipts[w]
      BY <1>1, <3>1
    <3>4. QED
      BY <3>1, <3>2, <3>3
  <2>4. QED
    BY <2>2, <2>3
<1>4. CASE ~\E p \in Conns : WorkerRecordsReceipt(p)
  <2>1. receipts' = receipts /\ ran \subseteq ran'
    BY <1>4
    DEF WRNext, WorkerStep, WorkerReadsKillSwitch, WorkerFindsNothing, WorkerClaims,
        WorkerLooksForReceipt, WorkerPassesGate, WorkerReadsApproval, WorkerConsumesApproval,
        WorkerRunsHandler, WorkerCompletes, WorkerBlocks, WorkerFailReads, WorkerFailWrites,
        Crash, Restart, Environment, SwitchKill, Lapse, procVars, histVars, wrVars
  <2>2. QED
    BY <2>1
<1>5. QED
  BY <1>3, <1>4

(* No answer comes from nowhere.                                           *)
LEMMA ResultsStayProduced ==
  ASSUME BaseInv, [WRNext]_wrVars
  PROVE  ResultIsProduced'
<1>1. /\ \A w \in Items : attempts'[w] >= attempts[w]
      /\ attempts \in [Items -> Nat] /\ attempts' \in [Items -> Nat]
  BY StepIsQueueStep, AttemptsGrow, TypesAtStep DEF BaseInv, WRTypeOK, WQTypeOK
<1>2. /\ pc \in [Conns -> Places] /\ job \in [Conns -> Items \cup {0}]
      /\ run \in [Conns -> Nat] /\ out \in [Conns -> Nat]
  BY DEF BaseInv, WRTypeOK
<1> DEFINE Produced(w, n)  == n \in 1..attempts[w] /\ <<w, n>> \in ran
           ProducedN(w, n) == n \in 1..attempts'[w] /\ <<w, n>> \in ran'
<1>3. ASSUME NEW w \in Items, NEW n \in Nat, Produced(w, n) PROVE ProducedN(w, n)
  BY <1>1, <1>3, ReceiptsAreKept
<1>4. ASSUME NEW p \in Conns, pc'[p] \in {"record", "complete"} PROVE ProducedN(job'[p], out'[p])
  <2>1. CASE WorkerRunsHandler(p)
    <3>1. /\ job'[p] = job[p] /\ out'[p] = run[p] /\ attempts' = attempts
          /\ <<job[p], run[p]>> \in ran'
      BY <1>2, <1>4, <2>1 DEF WorkerRunsHandler, Goto, wqVars, rowVars
    <3>2. run[p] \in 1..attempts[job[p]]
      BY <2>1 DEF WorkerRunsHandler, At, BaseInv, JobIsClaimed, Busy
    <3>3. QED
      BY <3>1, <3>2
  <2>2. CASE WorkerLooksForReceipt(p)
    <3>1. /\ job'[p] = job[p] /\ out'[p] = receipts[job[p]].result
          /\ receipts[job[p]] # NoReceipt /\ UNCHANGED <<attempts, ran>>
      BY <1>2, <1>4, <2>2 DEF WorkerLooksForReceipt, Goto, wqVars, rowVars, histVars
    <3>2. job[p] \in Items
      BY <2>2 DEF WorkerLooksForReceipt, At, BaseInv, JobIsClaimed, Busy
    <3>3. QED
      BY <3>1, <3>2 DEF BaseInv, ResultIsProduced
  <2>3. CASE ~WorkerRunsHandler(p) /\ ~WorkerLooksForReceipt(p)
    <3>1. pc[p] \in {"record", "complete"} /\ job'[p] = job[p] /\ out'[p] = out[p]
      <4>1. ASSUME NEW q \in Conns, WorkerStep(q)
            PROVE  pc[p] \in {"record", "complete"} /\ job'[p] = job[p] /\ out'[p] = out[p]
        <5>1. CASE p = q
          BY <1>2, <1>4, <2>3, <4>1, <5>1
          DEF WorkerStep, At, Goto, Refuse, WorkerReadsKillSwitch, WorkerFindsNothing,
              WorkerClaims, WorkerPassesGate, WorkerReadsApproval, WorkerConsumesApproval,
              WorkerRecordsReceipt, WorkerCompletes, WorkerBlocks, WorkerFailReads,
              WorkerFailWrites
        <5>2. CASE p # q
          BY <1>2, <1>4, <4>1, <5>2
          DEF WorkerStep, Goto, Refuse, WorkerReadsKillSwitch, WorkerFindsNothing,
              WorkerClaims, WorkerLooksForReceipt, WorkerPassesGate, WorkerReadsApproval,
              WorkerConsumesApproval, WorkerRunsHandler, WorkerRecordsReceipt,
              WorkerCompletes, WorkerBlocks, WorkerFailReads, WorkerFailWrites
        <5>3. QED
          BY <5>1, <5>2
      <4>2. CASE ~\E q \in Conns : WorkerStep(q)
        BY <1>2, <1>4, <4>2 DEF WRNext, Crash, Restart, Goto, Environment, SwitchKill, Lapse,
           procVars, wrVars
      <4>3. QED
        BY <4>1, <4>2
    <3>2. job[p] \in Items
      BY <3>1 DEF BaseInv, JobIsClaimed, Busy
    <3>3. Produced(job[p], out[p])
      BY <3>1 DEF BaseInv, ResultIsProduced
    <3>4. QED
      BY <1>2, <1>3, <3>1, <3>2, <3>3
  <2>4. QED
    BY <2>1, <2>2, <2>3
<1>5. ASSUME NEW w \in Items, receipts'[w] # NoReceipt PROVE ProducedN(w, receipts'[w].result)
  <2>1. CASE receipts'[w] = receipts[w]
    BY <1>3, <1>5, <2>1 DEF BaseInv, ResultIsProduced, WRTypeOK
  <2>2. CASE receipts'[w] # receipts[w]
    <3>1. PICK p \in Conns :
            /\ pc[p] = "record" /\ job[p] = w
            /\ receipts'[w] = [result |-> out[p], at |-> attempts[w]]
      BY <2>2, ReceiptsAreKept
    <3>2. Produced(w, out[p])
      BY <3>1 DEF BaseInv, ResultIsProduced
    <3>3. QED
      BY <1>2, <1>3, <3>1, <3>2
  <2>3. QED
    BY <2>1, <2>2
<1>6. QED
  BY <1>4, <1>5 DEF ResultIsProduced

(* The types of the workers, and where their jobs and results come from.   *)
LEMMA BaseAtStep == BaseInv /\ [WRNext]_wrVars => BaseInv'
<1> SUFFICES ASSUME BaseInv, [WRNext]_wrVars PROVE BaseInv'
  OBVIOUS
<1>1. WQTypeOK' /\ FailingNamesItem'
  BY StepIsQueueStep, TypesAtStep DEF BaseInv, WRTypeOK
<1>2. ApTypeOK' /\ ReadsAreOfRealRows'
  BY StepIsApprovalStep, ApInvAtStep DEF BaseInv, WRTypeOK, ApInv
<1>3. QED
  BY <1>1, <1>2, WorkerTypes, JobsStayClaimed, ResultsStayProduced DEF BaseInv, WRTypeOK

(* Type correctness of the whole: queue, approvals, processes, receipts.   *)
THEOREM WorkerTypeCorrect == WRSpec => []BaseInv
BY BaseAtInit, BaseAtStep, PTL DEF WRSpec

(* The workers use the queue as it is meant to be used: what is proved of  *)
(* the queue under any callers holds of them.                              *)
THEOREM WorkersImplementQueue == WRSpec => WQSpec
<1>1. WRInit => WQInit
  BY DEF WRInit
<1>2. BaseInv /\ [WRNext]_wrVars => [WQNext]_wqVars
  BY StepIsQueueStep
<1>3. QED
  BY <1>1, <1>2, WorkerTypeCorrect, PTL DEF WRSpec, WQSpec
-----------------------------------------------------------------------------
(* The switch stays ON for as long as anybody is braked by it.             *)
BrakeInv == KillSwitchBrakes /\ (braked # {} => killSwitch)

(* No process that had not passed the gate when the kill switch went ON    *)
(* reaches a handler before it is OFF again.                               *)
THEOREM KillSwitchHolds == WRSpec => []KillSwitchBrakes
<1>1. WRInit => BrakeInv
  BY DEF WRInit, BrakeInv, KillSwitchBrakes
<1>2. BaseInv /\ BrakeInv /\ [WRNext]_wrVars => BrakeInv'
  <2> SUFFICES ASSUME BaseInv, BrakeInv, [WRNext]_wrVars PROVE BrakeInv'
    OBVIOUS
  <2>1. pc \in [Conns -> Places] /\ braked \subseteq Conns
    BY DEF BaseInv, WRTypeOK
  <2>2. ASSUME NEW on \in BOOLEAN, SwitchKill(on) PROVE BrakeInv'
    BY <2>2 DEF SwitchKill, SetKillSwitch, KillSwitchSet, BrakeInv, KillSwitchBrakes,
                ShortOfGate, procVars
  <2>3. ASSUME NEW q \in Conns, WorkerStep(q) PROVE BrakeInv'
    <3>1. braked' = braked /\ killSwitch' = killSwitch
      BY <2>3
      DEF WorkerStep, WorkerReadsKillSwitch, WorkerFindsNothing, WorkerClaims,
          WorkerLooksForReceipt, WorkerPassesGate, WorkerReadsApproval, WorkerConsumesApproval,
          WorkerRunsHandler, WorkerRecordsReceipt, WorkerCompletes, WorkerBlocks,
          WorkerFailReads, WorkerFailWrites, histVars, wqVars, ClaimPassesKillSwitch,
          ClaimFindsNothing, ClaimBlocksOnBudget, ClaimGrants, CompleteWork, BlockWork,
          FailReadsRow, FailWrites
    <3>2. ASSUME q \in braked PROVE pc'[q] \notin {"approve", "consume", "handler", "record"}
      <4>1. killSwitch /\ pc[q] \notin {"approve", "consume", "handler", "record"}
        BY <3>2 DEF BrakeInv, KillSwitchBrakes
      <4>2. QED
        BY <2>1, <2>3, <4>1
        DEF WorkerStep, At, Goto, Refuse, Forbidden, WorkerReadsKillSwitch, WorkerFindsNothing,
            WorkerClaims, WorkerLooksForReceipt, WorkerPassesGate, WorkerReadsApproval,
            WorkerConsumesApproval, WorkerRunsHandler, WorkerRecordsReceipt, WorkerCompletes,
            WorkerBlocks, WorkerFailReads, WorkerFailWrites
    <3>3. ASSUME NEW p \in braked, p # q PROVE pc'[p] = pc[p]
      BY <2>1, <2>3, <3>3
      DEF WorkerStep, Goto, Refuse, WorkerReadsKillSwitch, WorkerFindsNothing, WorkerClaims,
          WorkerLooksForReceipt, WorkerPassesGate, WorkerReadsApproval, WorkerConsumesApproval,
          WorkerRunsHandler, WorkerRecordsReceipt, WorkerCompletes, WorkerBlocks,
          WorkerFailReads, WorkerFailWrites
    <3>4. QED
      BY <3>1, <3>2, <3>3 DEF BrakeInv, KillSwitchBrakes
  <2>4. ASSUME NEW q \in Conns, Crash(q) \/ Restart(q) PROVE BrakeInv'
    BY <2>1, <2>4 DEF Crash, Restart, Goto, Disconnects, histVars, wqVars, BrakeInv,
                      KillSwitchBrakes
  <2>5. CASE Environment /\ ~\E on \in BOOLEAN : SwitchKill(on)
    BY <2>5 DEF Environment, Lapse, LeaseExpires, ConfigureBudget, EnqueueWork,
       BecomesAvailable, NextPeriod, histVars, procVars, wqVars, BrakeInv, KillSwitchBrakes
  <2>6. CASE UNCHANGED wrVars
    BY <2>6 DEF wrVars, histVars, procVars, wqVars, BrakeInv, KillSwitchBrakes
  <2>7. QED
    BY <2>2, <2>3, <2>4, <2>5, <2>6 DEF WRNext, Environment
<1>3. QED
  BY <1>1, <1>2, WorkerTypeCorrect, PTL DEF WRSpec, BrakeInv
-----------------------------------------------------------------------------
(* A process that has looked for a receipt and not yet run the handler is  *)
(* of an attempt no later than any receipt stored meanwhile, and so is     *)
(* every invocation made.                                                  *)
ReplayInv ==
  /\ \A r \in ran : r[2] <= attempts[r[1]]
  /\ \A w \in Items : receipts[w] # NoReceipt =>
       \A r \in ran : r[1] = w => r[2] <= receipts[w].at
  /\ \A p \in Conns :
       pc[p] \in {"gate", "approve", "consume", "handler"} /\ receipts[job[p]] # NoReceipt
         => run[p] <= receipts[job[p]].at

LEMMA ReplayInvAtStep ==
  ASSUME BaseInv, ReplayInv, [WRNext]_wrVars
  PROVE  ReplayInv'
<1>1. /\ \A w \in Items : attempts'[w] >= attempts[w]
      /\ attempts \in [Items -> Nat] /\ attempts' \in [Items -> Nat]
  BY StepIsQueueStep, AttemptsGrow, TypesAtStep DEF BaseInv, WRTypeOK, WQTypeOK
<1>2. /\ pc \in [Conns -> Places] /\ job \in [Conns -> Items \cup {0}]
      /\ run \in [Conns -> Nat] /\ ran \subseteq Items \X Nat
      /\ receipts \in [Items -> [result : Nat, at : Nat]]
  BY DEF BaseInv, WRTypeOK
<1>3. \/ ran' = ran
      \/ \E p \in Conns :
           /\ pc[p] = "handler" /\ ran' = ran \cup {<<job[p], run[p]>>}
           /\ UNCHANGED <<attempts, receipts>>
  BY DEF WRNext, WorkerStep, At, WorkerReadsKillSwitch, WorkerFindsNothing, WorkerClaims,
     WorkerLooksForReceipt, WorkerPassesGate, WorkerReadsApproval, WorkerConsumesApproval,
     WorkerRunsHandler, WorkerRecordsReceipt, WorkerCompletes, WorkerBlocks, WorkerFailReads,
     WorkerFailWrites, Crash, Restart, Environment, SwitchKill, Lapse, histVars, wrVars,
     wqVars, rowVars
<1>4. ASSUME NEW p \in Conns, pc[p] = "handler"
      PROVE  /\ job[p] \in Items /\ run[p] <= attempts[job[p]]
             /\ receipts[job[p]] # NoReceipt => run[p] <= receipts[job[p]].at
  BY <1>1, <1>2, <1>4 DEF BaseInv, JobIsClaimed, Busy, ReplayInv
<1>5. ASSUME NEW r \in ran' PROVE r[2] <= attempts'[r[1]]
  <2>1. r \in Items \X Nat /\ r[2] <= attempts[r[1]]
    BY <1>2, <1>3, <1>4, <1>5 DEF ReplayInv
  <2>2. QED
    BY <1>1, <2>1
<1>6. ASSUME NEW w \in Items, receipts'[w] # NoReceipt, NEW r \in ran', r[1] = w
      PROVE  r[2] <= receipts'[w].at
  <2>1. CASE receipts[w] # NoReceipt
    <3>1. receipts'[w] = receipts[w]
      BY <2>1, ReceiptsAreKept
    <3>2. QED
      BY <1>2, <1>3, <1>4, <1>6, <2>1, <3>1 DEF ReplayInv
  <2>2. CASE receipts[w] = NoReceipt
    <3>1. receipts'[w] # receipts[w]
      BY <1>6, <2>2
    <3>2. PICK q \in Conns :
            /\ receipts'[w] = [result |-> out[q], at |-> attempts[w]]
            /\ UNCHANGED <<attempts, ran>>
      BY <3>1, ReceiptsAreKept
    <3>3. r \in ran /\ receipts'[w].at = attempts[w]
      BY <1>6, <3>2
    <3>4. QED
      BY <1>6, <3>3 DEF ReplayInv
  <2>3. QED
    BY <2>1, <2>2
<1>7. ASSUME NEW p \in Conns, pc'[p] \in {"gate", "approve", "consume", "handler"},
             receipts'[job'[p]] # NoReceipt
      PROVE  run'[p] <= receipts'[job'[p]].at
  <2>1. CASE WorkerLooksForReceipt(p)
    <3>1. receipts[job[p]] = NoReceipt /\ job'[p] = job[p] /\ receipts' = receipts
      BY <1>2, <1>7, <2>1 DEF WorkerLooksForReceipt, Goto
    <3>2. QED
      BY <1>7, <3>1
  <2>2. CASE ~WorkerLooksForReceipt(p)
    <3>1. /\ pc[p] \in {"gate", "approve", "consume", "handler"}
          /\ job'[p] = job[p] /\ run'[p] = run[p]
      <4>1. ASSUME NEW q \in Conns, WorkerStep(q)
            PROVE  /\ pc[p] \in {"gate", "approve", "consume", "handler"}
                   /\ job'[p] = job[p] /\ run'[p] = run[p]
        <5>1. CASE p = q
          BY <1>2, <1>7, <2>2, <4>1, <5>1
          DEF WorkerStep, At, Goto, Refuse, WorkerReadsKillSwitch, WorkerFindsNothing,
              WorkerClaims, WorkerPassesGate, WorkerReadsApproval, WorkerConsumesApproval,
              WorkerRunsHandler, WorkerRecordsReceipt, WorkerCompletes, WorkerBlocks,
              WorkerFailReads, WorkerFailWrites
        <5>2. CASE p # q
          BY <1>2, <1>7, <4>1, <5>2
          DEF WorkerStep, Goto, Refuse, WorkerReadsKillSwitch, WorkerFindsNothing,
              WorkerClaims, WorkerLooksForReceipt, WorkerPassesGate, WorkerReadsApproval,
              WorkerConsumesApproval, WorkerRunsHandler, WorkerRecordsReceipt,
              WorkerCompletes, WorkerBlocks, WorkerFailReads, WorkerFailWrites
        <5>3. QED
          BY <5>1, <5>2
      <4>2. CASE ~\E q \in Conns : WorkerStep(q)
        BY <1>2, <1>7, <4>2 DEF WRNext, Crash, Restart, Goto, Environment, SwitchKill, Lapse,
           procVars, wrVars
      <4>3. QED
        BY <4>1, <4>2
    <3>2. job[p] \in Items /\ run[p] <= attempts[job[p]]
      BY <1>1, <1>2, <3>1 DEF BaseInv, JobIsClaimed, Busy
    <3>3. CASE receipts[job[p]] # NoReceipt
      <4>1. receipts'[job[p]] = receipts[job[p]]
        BY <3>2, <3>3, ReceiptsAreKept
      <4>2. QED
        BY <3>1, <3>3, <4>1 DEF ReplayInv
    <3>4. CASE receipts[job[p]] = NoReceipt
      <4>1. receipts'[job[p]] # receipts[job[p]]
        BY <1>7, <3>1, <3>4
      <4>2. PICK q \in Conns :
              receipts'[job[p]] = [result |-> out[q], at |-> attempts[job[p]]]
        BY <3>2, <4>1, ReceiptsAreKept
      <4>3. receipts'[job[p]].at = attempts[job[p]]
        BY <4>2
      <4>4. QED
        BY <3>1, <3>2, <4>3
    <3>5. QED
      BY <3>3, <3>4
  <2>3. QED
    BY <2>1, <2>2
<1>8. QED
  BY <1>5, <1>6, <1>7 DEF ReplayInv

(* Once a receipt is stored, no attempt claimed afterwards invokes the     *)
(* handler, whatever crashes and lapses in between.                        *)
THEOREM ReplayIsSuppressed == WRSpec => []ReplaySuppressed
<1>1. WRInit => ReplayInv
  BY DEF WRInit, ReplayInv
<1>2. BaseInv /\ ReplayInv /\ [WRNext]_wrVars => ReplayInv'
  BY ReplayInvAtStep
<1>3. ReplayInv => ReplaySuppressed
  BY DEF ReplayInv, ReplaySuppressed
<1>4. QED
  BY <1>1, <1>2, <1>3, WorkerTypeCorrect, PTL DEF WRSpec
-----------------------------------------------------------------------------
(* Which step pays for an item, or replaces its payload, and how.          *)
LEMMA OnlyCompletionPays ==
  ASSUME BaseInv, [WRNext]_wrVars, NEW w \in Items
  PROVE  \/ /\ payload'[w] = payload[w] /\ usage'[w] = usage[w]
            /\ status'[w] = "SUCCEEDED" => status[w] = "SUCCEEDED"
         \/ \E p \in Conns :
              /\ pc[p] = "complete" /\ job[p] = w
              /\ payload'[w] = out[p] /\ UNCHANGED <<receipts, ran>>
<1> DEFINE Kept == /\ payload'[w] = payload[w] /\ usage'[w] = usage[w]
                   /\ status'[w] = "SUCCEEDED" => status[w] = "SUCCEEDED"
<1>1. /\ status \in [Items -> Statuses] /\ payload \in [Items -> Nat]
      /\ usage \in [Items -> [Periods -> Nat]]
  BY DEF BaseInv, WRTypeOK, WQTypeOK
<1>2. ASSUME NEW p \in Conns, WorkerCompletes(p)
      PROVE  Kept \/ (/\ pc[p] = "complete" /\ job[p] = w
                      /\ payload'[w] = out[p] /\ UNCHANGED <<receipts, ran>>)
  <2>1. pc[p] = "complete" /\ job[p] \in Items /\ UNCHANGED <<receipts, ran>>
    BY <1>2 DEF WorkerCompletes, At, histVars, BaseInv, JobIsClaimed, Busy
  <2>2. CASE ~CompleteWork(p, job[p], out[p])
    BY <1>2, <2>2 DEF WorkerCompletes, wqVars, rowVars, budgetVars
  <2>3. CASE CompleteWork(p, job[p], out[p])
    <3>1. /\ payload' = [payload EXCEPT ![job[p]] = out[p]]
          /\ status' = [status EXCEPT ![job[p]] = "SUCCEEDED"]
          /\ SettleCost(job[p], TRUE)
      BY <2>3 DEF CompleteWork, Release
    <3>2. CASE job[p] = w
      BY <1>1, <2>1, <3>1, <3>2
    <3>3. CASE job[p] # w
      <4>1. usage'[w] = usage[w]
        BY <1>1, <2>1, <3>1, <3>3 DEF SettleCost
      <4>2. QED
        BY <1>1, <2>1, <3>1, <3>3, <4>1
    <3>4. QED
      BY <3>2, <3>3
  <2>4. QED
    BY <2>2, <2>3
<1>3. ASSUME NEW p \in Conns, WorkerFindsNothing(p) \/ WorkerClaims(p) PROVE Kept
  BY <1>1, <1>3 DEF WorkerFindsNothing, WorkerClaims, ClaimFindsNothing, ClaimBlocksOnBudget,
     ClaimGrants, ReserveCost, rowVars, budgetVars
<1>4. ASSUME NEW p \in Conns, WorkerBlocks(p) PROVE Kept
  <2>1. verdict[p] # "SUCCEEDED" /\ job[p] \in Items
    BY <1>4 DEF WorkerBlocks, At, BaseInv, WRTypeOK, Verdicts, JobIsClaimed, Busy
  <2>2. QED
    BY <1>1, <1>4, <2>1 DEF WorkerBlocks, BlockWork, Release, SettleCost, wqVars, rowVars,
       budgetVars
<1>5. ASSUME NEW p \in Conns, WorkerFailReads(p) \/ WorkerFailWrites(p) PROVE Kept
  BY <1>1, <1>5 DEF WorkerFailReads, WorkerFailWrites, FailReadsRow, FailWrites, Release,
     SettleCost, StatusAfterFail, wqVars, rowVars, budgetVars
<1>6. ASSUME NEW p \in Conns,
             \/ WorkerReadsKillSwitch(p) \/ WorkerLooksForReceipt(p) \/ WorkerPassesGate(p)
             \/ WorkerReadsApproval(p) \/ WorkerConsumesApproval(p) \/ WorkerRunsHandler(p)
             \/ WorkerRecordsReceipt(p) \/ Crash(p) \/ Restart(p)
      PROVE  Kept
  BY <1>6 DEF WorkerReadsKillSwitch, WorkerLooksForReceipt, WorkerPassesGate,
     WorkerReadsApproval, WorkerConsumesApproval, WorkerRunsHandler, WorkerRecordsReceipt,
     Crash, Restart, ClaimPassesKillSwitch, Disconnects, wqVars, rowVars, budgetVars
<1>7. ASSUME Environment PROVE Kept
  BY <1>1, <1>7 DEF Environment, SwitchKill, SetKillSwitch, ConfigureBudget, EnqueueWork,
     BecomesAvailable, NextPeriod, Lapse, LeaseExpires, wqVars, rowVars, budgetVars
<1>8. ASSUME UNCHANGED wrVars PROVE Kept
  BY <1>8 DEF wrVars, wqVars, rowVars, budgetVars
<1>9. QED
  BY <1>2, <1>3, <1>4, <1>5, <1>6, <1>7, <1>8 DEF WRNext, WorkerStep

(* A process reaches complete_work with a receipt stored for its item.     *)
EarnedInv ==
  /\ \A p \in Conns : pc[p] = "complete" => receipts[job[p]] # NoReceipt
  /\ SuccessIsEarned

(* Whatever was paid for or reported SUCCEEDED was really done.            *)
THEOREM SuccessIsAlwaysEarned == WRSpec => []SuccessIsEarned
<1>1. WRInit => EarnedInv
  BY DEF WRInit, WQInit, EarnedInv, SuccessIsEarned
<1>2. ASSUME BaseInv, EarnedInv, [WRNext]_wrVars PROVE EarnedInv'
  <2>1. /\ pc \in [Conns -> Places] /\ job \in [Conns -> Items \cup {0}]
        /\ receipts \in [Items -> [result : Nat, at : Nat]]
        /\ out \in [Conns -> Nat] /\ ran \subseteq ran'
    BY <1>2, ReceiptsAreKept DEF BaseInv, WRTypeOK
  <2>2. ASSUME NEW p \in Conns, pc'[p] = "complete" PROVE receipts'[job'[p]] # NoReceipt
    <3>1. CASE WorkerLooksForReceipt(p)
      BY <2>1, <2>2, <3>1 DEF WorkerLooksForReceipt, Goto
    <3>2. CASE WorkerRecordsReceipt(p)
      <4>1. job[p] \in Items /\ out[p] \in 1..attempts[job[p]] /\ attempts[job[p]] \in Nat
        BY <1>2, <3>2 DEF WorkerRecordsReceipt, At, BaseInv, JobIsClaimed, ResultIsProduced, Busy,
           WRTypeOK, WQTypeOK
      <4>2. [result |-> out[p], at |-> attempts[job[p]]] # NoReceipt
        BY <4>1 DEF NoReceipt
      <4>3. QED
        BY <2>1, <2>2, <3>2, <4>1, <4>2 DEF WorkerRecordsReceipt, Goto
    <3>3. CASE ~WorkerLooksForReceipt(p) /\ ~WorkerRecordsReceipt(p)
      <4>1. pc[p] = "complete" /\ job'[p] = job[p]
        <5>1. ASSUME NEW q \in Conns, WorkerStep(q) PROVE pc[p] = "complete" /\ job'[p] = job[p]
          <6>1. CASE p = q
            BY <2>1, <2>2, <3>3, <5>1, <6>1
            DEF WorkerStep, At, Goto, Refuse, WorkerReadsKillSwitch, WorkerFindsNothing,
                WorkerClaims, WorkerPassesGate, WorkerReadsApproval, WorkerConsumesApproval,
                WorkerRunsHandler, WorkerCompletes, WorkerBlocks, WorkerFailReads,
                WorkerFailWrites
          <6>2. CASE p # q
            BY <2>1, <2>2, <5>1, <6>2
            DEF WorkerStep, Goto, Refuse, WorkerReadsKillSwitch, WorkerFindsNothing,
                WorkerClaims, WorkerLooksForReceipt, WorkerPassesGate, WorkerReadsApproval,
                WorkerConsumesApproval, WorkerRunsHandler, WorkerRecordsReceipt,
                WorkerCompletes, WorkerBlocks, WorkerFailReads, WorkerFailWrites
          <6>3. QED
            BY <6>1, <6>2
        <5>2. CASE ~\E q \in Conns : WorkerStep(q)
          BY <1>2, <2>1, <2>2, <5>2 DEF WRNext, Crash, Restart, Goto, Environment, SwitchKill,
             Lapse, procVars, wrVars
        <5>3. QED
          BY <5>1, <5>2
      <4>2. job[p] \in Items /\ receipts[job[p]] # NoReceipt
        BY <1>2, <4>1 DEF BaseInv, JobIsClaimed, Busy, EarnedInv
      <4>3. QED
        BY <1>2, <4>1, <4>2, ReceiptsAreKept
    <3>4. QED
      BY <3>1, <3>2, <3>3
  <2>3. ASSUME NEW w \in Items,
               status'[w] = "SUCCEEDED" \/ \E m \in Periods : usage'[w][m] > 0
        PROVE  <<w, payload'[w]>> \in ran' /\ receipts'[w] # NoReceipt
    <3>1. CASE /\ payload'[w] = payload[w] /\ usage'[w] = usage[w]
               /\ status'[w] = "SUCCEEDED" => status[w] = "SUCCEEDED"
      <4>1. <<w, payload[w]>> \in ran /\ receipts[w] # NoReceipt
        BY <1>2, <2>3, <3>1 DEF EarnedInv, SuccessIsEarned
      <4>2. QED
        BY <1>2, <2>1, <3>1, <4>1, ReceiptsAreKept
    <3>2. CASE \E p \in Conns : /\ pc[p] = "complete" /\ job[p] = w
                                /\ payload'[w] = out[p] /\ UNCHANGED <<receipts, ran>>
      <4>1. PICK p \in Conns : /\ pc[p] = "complete" /\ job[p] = w
                               /\ payload'[w] = out[p] /\ UNCHANGED <<receipts, ran>>
        BY <3>2
      <4>2. <<w, out[p]>> \in ran /\ receipts[w] # NoReceipt
        BY <1>2, <4>1 DEF BaseInv, ResultIsProduced, EarnedInv
      <4>3. QED
        BY <4>1, <4>2
    <3>3. QED
      BY <1>2, <3>1, <3>2, OnlyCompletionPays
  <2>4. QED
    BY <2>2, <2>3 DEF EarnedInv, SuccessIsEarned
<1>3. EarnedInv => SuccessIsEarned
  BY DEF EarnedInv
<1>4. QED
  BY <1>1, <1>2, <1>3, WorkerTypeCorrect, PTL DEF WRSpec
-----------------------------------------------------------------------------
(* Whatever the workers do to the approvals, none that is closed is ever   *)
(* revived, and none is used that Sean denied or has not decided.          *)
THEOREM WorkersKeepApprovals == WRSpec => NeverRevived /\ UsedOnlyIfApproved
<1>1. BaseInv => ApInv
  BY DEF BaseInv, WRTypeOK, ApInv
<1>2. BaseInv /\ [WRNext]_wrVars
        => [\A a \in Approvals : approval[a] \in Closed => approval'[a] \in Closed]_apVars
  BY <1>1, StepIsApprovalStep, ClosedStaysClosed
<1>3. BaseInv /\ [WRNext]_wrVars
        => [\A a \in Approvals :
              uses'[a] > uses[a] => approval[a] \notin {"ABSENT", "PENDING", "DENIED"}]_apVars
  BY <1>1, StepIsApprovalStep, UseIsApproved
<1>4. QED
  BY <1>2, <1>3, WorkerTypeCorrect, PTL DEF WRSpec, NeverRevived, UsedOnlyIfApproved

(* The workers consume nothing but what they have read: each use is one    *)
(* process's step from consume_approval's read to its write.               *)
LEMMA UsesAreConsumptions ==
  ASSUME BaseInv, [WRNext]_wrVars
  PROVE  uses' = uses \/ \E p \in Conns : WorkerConsumesApproval(p)
BY DEF WRNext, WorkerStep, WorkerReadsKillSwitch, WorkerFindsNothing, WorkerClaims,
   WorkerLooksForReceipt, WorkerPassesGate, WorkerReadsApproval, WorkerRunsHandler,
   WorkerRecordsReceipt, WorkerCompletes, WorkerBlocks, WorkerFailReads, WorkerFailWrites,
   Crash, Restart, ApDisconnects, Environment, SwitchKill, Lapse, wrVars, apVars, ConsumeReads,
   Sean, ApTime, CreateApproval, RequestApproval, DecideReads, DecideWrites, ApprovalExpires

(* A single-use approval is used once while one worker process runs.  Two  *)
(* can both have found it acceptable before either uses it.                *)
THEOREM OneWorkerUsesOnce ==
  ASSUME NEW c, Conns = {c}
  PROVE  WRSpec => []SingleUse
<1>1. WRInit => UsedUp
  BY UsedUpAtInit DEF WRInit
<1>2. BaseInv /\ UsedUp /\ [WRNext]_wrVars => UsedUp'
  <2> SUFFICES ASSUME BaseInv, UsedUp, [WRNext]_wrVars PROVE UsedUp'
    OBVIOUS
  <2>1. ApInv /\ [ApStep]_apVars
    BY StepIsApprovalStep DEF BaseInv, WRTypeOK, ApInv
  <2>2. ASSUME NEW a \in Approvals, uses'[a] # uses[a] PROVE consuming'[c] # a
    <3>1. ConsumeWrites(c)
      BY <2>2, UsesAreConsumptions DEF WorkerConsumesApproval
    <3>2. QED
      BY <3>1, ApprovalsAssumption DEF ConsumeWrites, BaseInv, WRTypeOK, ApTypeOK
  <2>3. QED
    BY <2>1, <2>2, UsedUpAtStep
<1>3. UsedUp => SingleUse
  BY DEF UsedUp, SingleUse
<1>4. QED
  BY <1>1, <1>2, <1>3, WorkerTypeCorrect, PTL DEF WRSpec

-----------------------------------------------------------------------------
(* The books of what an approval paid for: the gated invocations made on   *)
(* it, and the processes that have used it and not yet invoked anything.   *)
Asks(w, a) == Gate[w] = "APPROVAL" /\ ApprovalOf[w] = a
Effects(a) == {r \in ran : Asks(r[1], a)}
InHand(a)  == {p \in Conns : pc[p] = "handler" /\ Asks(job[p], a)}

AuthorisedInv ==
  /\ \A p \in Conns : pc[p] = "consume" => consuming[p] = ApprovalOf[job[p]]
  /\ \A a \in Approvals :
       /\ IsFiniteSet(Effects(a)) /\ IsFiniteSet(InHand(a))
       /\ Cardinality(Effects(a)) + Cardinality(InHand(a)) <= uses[a]

(* One of a finite set more, or one less.                                  *)
LEMMA OneMore ==
  ASSUME NEW S, IsFiniteSet(S), NEW x
  PROVE  /\ IsFiniteSet(S \cup {x})
         /\ Cardinality(S) \in Nat /\ Cardinality(S \cup {x}) \in Nat
         /\ Cardinality(S \cup {x}) <= Cardinality(S) + 1
<1>1. /\ IsFiniteSet(S \cup {x})
      /\ Cardinality(S \cup {x}) = IF x \in S THEN Cardinality(S) ELSE Cardinality(S) + 1
  BY FS_AddElement
<1>2. Cardinality(S) \in Nat
  BY FS_CardinalityType
<1>3. QED
  BY <1>1, <1>2

LEMMA OneLess ==
  ASSUME NEW S, IsFiniteSet(S), NEW x \in S
  PROVE  /\ IsFiniteSet(S \ {x})
         /\ Cardinality(S) \in Nat /\ Cardinality(S \ {x}) = Cardinality(S) - 1
<1>1. /\ IsFiniteSet(S \ {x})
      /\ Cardinality(S \ {x}) = IF x \in S THEN Cardinality(S) - 1 ELSE Cardinality(S)
  BY FS_RemoveElement
<1>2. Cardinality(S) \in Nat
  BY FS_CardinalityType
<1>3. QED
  BY <1>1, <1>2

LEMMA Fewer ==
  ASSUME NEW S, IsFiniteSet(S), NEW T, T \subseteq S
  PROVE  /\ IsFiniteSet(T) /\ Cardinality(T) \in Nat /\ Cardinality(S) \in Nat
         /\ Cardinality(T) <= Cardinality(S)
BY FS_Subset, FS_CardinalityType

(* A step that invokes and uses nothing, and puts nothing in hand.         *)
LEMMA QuietKeepsTheBooks ==
  ASSUME BaseInv, AuthorisedInv, NEW a \in Approvals,
         ran' = ran, uses'[a] = uses[a], InHand(a)' \subseteq InHand(a)
  PROVE  /\ IsFiniteSet(Effects(a))' /\ IsFiniteSet(InHand(a))'
         /\ (Cardinality(Effects(a)) + Cardinality(InHand(a)) <= uses[a])'
<1>1. Effects(a)' = Effects(a)
  BY DEF Effects
<1>2. /\ IsFiniteSet(InHand(a)') /\ Cardinality(InHand(a)') \in Nat
      /\ Cardinality(InHand(a)) \in Nat
      /\ Cardinality(InHand(a)') <= Cardinality(InHand(a))
  BY Fewer DEF AuthorisedInv
<1>3. Cardinality(Effects(a)) \in Nat /\ uses[a] \in Nat
  BY FS_CardinalityType DEF AuthorisedInv, BaseInv, WRTypeOK, ApTypeOK
<1>4. QED
  BY <1>1, <1>2, <1>3 DEF AuthorisedInv

(* consume_approval's write: one use more, and one process with it in hand.*)
LEMMA ConsumptionKeepsTheBooks ==
  ASSUME BaseInv, AuthorisedInv, NEW p \in Conns, WorkerConsumesApproval(p), NEW a \in Approvals
  PROVE  /\ IsFiniteSet(Effects(a))' /\ IsFiniteSet(InHand(a))'
         /\ (Cardinality(Effects(a)) + Cardinality(InHand(a)) <= uses[a])'
<1>1. /\ pc' = [pc EXCEPT ![p] = "handler"] /\ job' = job /\ ran' = ran
      /\ consuming[p] = ApprovalOf[job[p]] /\ consuming[p] \in Approvals
      /\ uses' = [uses EXCEPT ![consuming[p]] = @ + 1]
  BY DEF WorkerConsumesApproval, At, Goto, ConsumeWrites, histVars, AuthorisedInv, BaseInv,
     WRTypeOK, ApTypeOK
<1>2. uses \in [Approvals -> Nat] /\ pc \in [Conns -> Places]
  BY DEF BaseInv, WRTypeOK, ApTypeOK
<1>3. CASE consuming[p] # a
  <2>1. InHand(a)' \subseteq InHand(a)
    BY <1>1, <1>2, <1>3 DEF InHand, Asks
  <2>2. uses'[a] = uses[a]
    BY <1>1, <1>2, <1>3
  <2>3. QED
    BY <1>1, <2>1, <2>2, QuietKeepsTheBooks
<1>4. CASE consuming[p] = a
  <2>1. InHand(a)' \subseteq InHand(a) \cup {p} /\ Effects(a)' = Effects(a)
    BY <1>1, <1>2 DEF InHand, Effects
  <2>2. uses'[a] = uses[a] + 1 /\ uses[a] \in Nat
    BY <1>1, <1>2, <1>4
  <2>3. IsFiniteSet(Effects(a)) /\ IsFiniteSet(InHand(a))
    BY DEF AuthorisedInv
  <2>4. /\ IsFiniteSet(InHand(a) \cup {p}) /\ Cardinality(InHand(a)) \in Nat
        /\ Cardinality(InHand(a) \cup {p}) <= Cardinality(InHand(a)) + 1
    BY <2>3, OneMore
  <2>5. /\ IsFiniteSet(InHand(a)') /\ Cardinality(InHand(a)') \in Nat
        /\ Cardinality(InHand(a) \cup {p}) \in Nat
        /\ Cardinality(InHand(a)') <= Cardinality(InHand(a) \cup {p})
    BY <2>1, <2>4, Fewer
  <2>6. Cardinality(Effects(a)) \in Nat
    BY <2>3, FS_CardinalityType
  <2>7. QED
    BY <2>1, <2>2, <2>3, <2>4, <2>5, <2>6 DEF AuthorisedInv
<1>5. QED
  BY <1>3, <1>4

(* An invocation: what was in hand is spent on it.                         *)
LEMMA InvocationKeepsTheBooks ==
  ASSUME BaseInv, AuthorisedInv, NEW p \in Conns, WorkerRunsHandler(p), NEW a \in Approvals
  PROVE  /\ IsFiniteSet(Effects(a))' /\ IsFiniteSet(InHand(a))'
         /\ (Cardinality(Effects(a)) + Cardinality(InHand(a)) <= uses[a])'
<1> DEFINE r == <<job[p], run[p]>>
<1>1. /\ pc[p] = "handler" /\ pc'[p] # "handler" /\ job' = job /\ uses' = uses
      /\ \A q \in Conns \ {p} : pc'[q] = pc[q]
      /\ ran' = ran \cup {r} /\ r[1] = job[p]
  BY DEF WorkerRunsHandler, At, Goto, apVars, BaseInv, WRTypeOK
<1> HIDE DEF r
<1>2. /\ IsFiniteSet(Effects(a)) /\ IsFiniteSet(InHand(a)) /\ uses[a] \in Nat
      /\ Cardinality(Effects(a)) + Cardinality(InHand(a)) <= uses[a]
  BY DEF AuthorisedInv, BaseInv, WRTypeOK, ApTypeOK
<1>3. InHand(a)' = InHand(a) \ {p}
  BY <1>1 DEF InHand
<1>4. CASE ~Asks(job[p], a)
  <2>1. Effects(a)' = Effects(a) /\ InHand(a)' = InHand(a)
    BY <1>1, <1>3, <1>4 DEF Effects, InHand
  <2>2. QED
    BY <1>1, <1>2, <2>1
<1>5. CASE Asks(job[p], a)
  <2>1. Effects(a)' = Effects(a) \cup {r} /\ p \in InHand(a)
    BY <1>1, <1>5 DEF Effects, InHand
  <2>2. /\ IsFiniteSet(Effects(a) \cup {r})
        /\ Cardinality(Effects(a)) \in Nat /\ Cardinality(Effects(a) \cup {r}) \in Nat
        /\ Cardinality(Effects(a) \cup {r}) <= Cardinality(Effects(a)) + 1
    BY <1>2, OneMore
  <2>3. /\ IsFiniteSet(InHand(a) \ {p})
        /\ Cardinality(InHand(a)) \in Nat
        /\ Cardinality(InHand(a) \ {p}) = Cardinality(InHand(a)) - 1
    BY <1>2, <2>1, OneLess
  <2>4. QED
    BY <1>1, <1>2, <1>3, <2>1, <2>2, <2>3
<1>6. QED
  BY <1>4, <1>5

(* Whoever is past consume_approval's read remembers its item's approval.  *)
LEMMA ReadsStayOwn ==
  ASSUME BaseInv, AuthorisedInv, [WRNext]_wrVars, NEW p \in Conns, pc'[p] = "consume"
  PROVE  consuming'[p] = ApprovalOf[job'[p]]
<1>1. pc \in [Conns -> Places] /\ consuming \in [Conns -> Approvals \cup {NoApproval}]
  BY DEF BaseInv, WRTypeOK, ApTypeOK
<1>2. CASE WorkerReadsApproval(p)
  BY <1>1, <1>2 DEF WorkerReadsApproval, ConsumeReads, Goto, Refuse
<1>3. CASE ~WorkerReadsApproval(p)
  <2>1. pc[p] = "consume" /\ job'[p] = job[p] /\ consuming'[p] = consuming[p]
    <3>1. ASSUME NEW q \in Conns, WorkerStep(q), q = p
          PROVE  pc[p] = "consume" /\ job'[p] = job[p] /\ consuming'[p] = consuming[p]
      BY <1>1, <1>3, <3>1
      DEF WorkerStep, At, Goto, Refuse, WorkerReadsKillSwitch, WorkerFindsNothing, WorkerClaims,
          WorkerLooksForReceipt, WorkerPassesGate, WorkerConsumesApproval, WorkerRunsHandler,
          WorkerRecordsReceipt, WorkerCompletes, WorkerBlocks, WorkerFailReads, WorkerFailWrites
    <3>2. ASSUME NEW q \in Conns, WorkerStep(q), q # p
          PROVE  pc[p] = "consume" /\ job'[p] = job[p] /\ consuming'[p] = consuming[p]
      <4>1. pc'[p] = pc[p] /\ job'[p] = job[p]
        BY <1>1, <3>2
        DEF WorkerStep, Goto, Refuse, WorkerReadsKillSwitch, WorkerFindsNothing, WorkerClaims,
            WorkerLooksForReceipt, WorkerPassesGate, WorkerReadsApproval, WorkerConsumesApproval,
            WorkerRunsHandler, WorkerRecordsReceipt, WorkerCompletes, WorkerBlocks,
            WorkerFailReads, WorkerFailWrites, BaseInv, WRTypeOK
      <4>2. consuming'[p] = consuming[p]
        BY <1>1, <3>2
        DEF WorkerStep, WorkerReadsKillSwitch, WorkerFindsNothing, WorkerClaims,
            WorkerLooksForReceipt, WorkerPassesGate, WorkerReadsApproval, WorkerConsumesApproval,
            WorkerRunsHandler, WorkerRecordsReceipt, WorkerCompletes, WorkerBlocks,
            WorkerFailReads, WorkerFailWrites, ConsumeReads, ConsumeWrites, apVars
      <4>3. QED
        BY <4>1, <4>2
    <3>3. CASE ~\E q \in Conns : WorkerStep(q)
      BY <1>1, <3>3 DEF WRNext, Crash, Restart, Goto, ApDisconnects, Environment, SwitchKill,
         Lapse, Sean, ApTime, CreateApproval, RequestApproval, DecideReads, DecideWrites,
         ApprovalExpires, apVars, procVars, wrVars
    <3>4. QED
      BY <3>1, <3>2, <3>3
  <2>2. QED
    BY <2>1 DEF AuthorisedInv
<1>4. QED
  BY <1>2, <1>3

(* Nothing but consume_approval's write puts an approval in hand, and      *)
(* nothing but an invocation adds to the effects.                          *)
LEMMA QuietStep ==
  ASSUME BaseInv, [WRNext]_wrVars,
         ~\E p \in Conns : WorkerConsumesApproval(p) \/ WorkerRunsHandler(p)
  PROVE  ran' = ran /\ uses' = uses /\ \A a \in Approvals : InHand(a)' \subseteq InHand(a)
<1>1. pc \in [Conns -> Places] /\ job \in [Conns -> Items \cup {0}]
  BY DEF BaseInv, WRTypeOK
<1>2. ran' = ran
  BY DEF WRNext, WorkerStep, WorkerReadsKillSwitch, WorkerFindsNothing, WorkerClaims,
     WorkerLooksForReceipt, WorkerPassesGate, WorkerReadsApproval, WorkerRecordsReceipt,
     WorkerCompletes, WorkerBlocks, WorkerFailReads, WorkerFailWrites, Crash, Restart,
     Environment, SwitchKill, Lapse, procVars, histVars, wrVars
<1>3. ASSUME NEW q \in Conns, NEW a \in Approvals, pc'[q] = "handler", Asks(job'[q], a)
      PROVE  pc[q] = "handler" /\ job'[q] = job[q]
  <2>1. ASSUME NEW p \in Conns, WorkerStep(p), p = q
        PROVE  pc[q] = "handler" /\ job'[q] = job[q]
    BY <1>1, <1>3, <2>1
    DEF WorkerStep, At, Goto, Refuse, WorkerReadsKillSwitch, WorkerFindsNothing, WorkerClaims,
        WorkerLooksForReceipt, WorkerPassesGate, WorkerReadsApproval, WorkerRecordsReceipt,
        WorkerCompletes, WorkerBlocks, WorkerFailReads, WorkerFailWrites, Asks
  <2>2. ASSUME NEW p \in Conns, WorkerStep(p), p # q
        PROVE  pc[q] = "handler" /\ job'[q] = job[q]
    BY <1>1, <1>3, <2>2
    DEF WorkerStep, Goto, Refuse, WorkerReadsKillSwitch, WorkerFindsNothing, WorkerClaims,
        WorkerLooksForReceipt, WorkerPassesGate, WorkerReadsApproval, WorkerRecordsReceipt,
        WorkerCompletes, WorkerBlocks, WorkerFailReads, WorkerFailWrites
  <2>3. CASE ~\E p \in Conns : WorkerStep(p)
    BY <1>1, <1>3, <2>3 DEF WRNext, Crash, Restart, Goto, Environment, SwitchKill, Lapse,
       procVars, wrVars
  <2>4. QED
    BY <2>1, <2>2, <2>3
<1>4. \A a \in Approvals : InHand(a)' \subseteq InHand(a)
  BY <1>3 DEF InHand
<1>5. QED
  BY <1>2, <1>4, UsesAreConsumptions

(* Every invocation of an approval-gated handler has a consumption of its  *)
(* approval to itself, for every number of processes and although the read *)
(* and the write of consume_approval are two steps.                        *)
THEOREM EffectsAreAuthorised == WRSpec => []EachEffectIsAuthorised
<1>1. WRInit => AuthorisedInv
  <2> SUFFICES ASSUME WRInit PROVE AuthorisedInv
    OBVIOUS
  <2>1. \A a \in Approvals : Effects(a) = {} /\ InHand(a) = {} /\ uses[a] = 0
    BY DEF WRInit, ApInit, Effects, InHand
  <2>2. IsFiniteSet({}) /\ Cardinality({}) = 0
    BY FS_EmptySet
  <2>3. QED
    BY <2>1, <2>2 DEF WRInit, AuthorisedInv
<1>2. BaseInv /\ AuthorisedInv /\ [WRNext]_wrVars => AuthorisedInv'
  <2> SUFFICES ASSUME BaseInv, AuthorisedInv, [WRNext]_wrVars PROVE AuthorisedInv'
    OBVIOUS
  <2>1. ASSUME NEW a \in Approvals
        PROVE  /\ IsFiniteSet(Effects(a))' /\ IsFiniteSet(InHand(a))'
               /\ (Cardinality(Effects(a)) + Cardinality(InHand(a)) <= uses[a])'
    BY QuietStep, QuietKeepsTheBooks, ConsumptionKeepsTheBooks, InvocationKeepsTheBooks
  <2>2. QED
    BY <2>1, ReadsStayOwn DEF AuthorisedInv
<1>3. BaseInv /\ AuthorisedInv => EachEffectIsAuthorised
  <2> SUFFICES ASSUME BaseInv, AuthorisedInv, NEW a \in Approvals
               PROVE  Cardinality(Effects(a)) <= uses[a]
    BY DEF EachEffectIsAuthorised, Effects, Asks
  <2>1. Cardinality(Effects(a)) \in Nat /\ Cardinality(InHand(a)) \in Nat /\ uses[a] \in Nat
    BY FS_CardinalityType DEF AuthorisedInv, BaseInv, WRTypeOK, ApTypeOK
  <2>2. QED
    BY <2>1 DEF AuthorisedInv
<1>4. QED
  BY <1>1, <1>2, <1>3, WorkerTypeCorrect, PTL DEF WRSpec
-----------------------------------------------------------------------------
(* Where a process has found that no answer is stored, and stored none.    *)
Unanswered == {"gate", "approve", "consume", "handler", "record"}

(* What the replay lookup found stays so until the process answers.        *)
AnswerInv ==
  /\ \A p \in Conns : pc[p] \in Unanswered => receipts[job[p]] = NoReceipt
  /\ \A p \in Conns : pc[p] = "complete" =>
       receipts[job[p]] # NoReceipt /\ out[p] = receipts[job[p]].result
  /\ \A w \in Items : status[w] = "SUCCEEDED" =>
       receipts[w] # NoReceipt /\ payload[w] = receipts[w].result

(* No two processes work on one item.                                      *)
Apart ==
  \A p, q \in Conns : p # q /\ Busy(p) /\ Busy(q) => job[p] # job[q]

(* A process's step leaves the places and locals of the others alone.      *)
LEMMA OthersStandStill ==
  ASSUME BaseInv, NEW p \in Conns, NEW q \in Conns, p # q,
         WorkerStep(p) \/ Crash(p) \/ Restart(p)
  PROVE  pc'[q] = pc[q] /\ job'[q] = job[q] /\ out'[q] = out[q]
<1>1. /\ pc \in [Conns -> Places] /\ job \in [Conns -> Items \cup {0}]
      /\ out \in [Conns -> Nat]
  BY DEF BaseInv, WRTypeOK
<1>2. CASE \/ WorkerReadsKillSwitch(p) \/ WorkerFindsNothing(p) \/ WorkerClaims(p)
           \/ WorkerLooksForReceipt(p) \/ WorkerPassesGate(p) \/ WorkerReadsApproval(p)
  BY <1>1, <1>2
  DEF Goto, Refuse, WorkerReadsKillSwitch, WorkerFindsNothing, WorkerClaims,
      WorkerLooksForReceipt, WorkerPassesGate, WorkerReadsApproval
<1>3. CASE \/ WorkerConsumesApproval(p) \/ WorkerRunsHandler(p) \/ WorkerRecordsReceipt(p)
           \/ WorkerCompletes(p) \/ WorkerBlocks(p) \/ WorkerFailReads(p)
           \/ WorkerFailWrites(p) \/ Crash(p) \/ Restart(p)
  BY <1>1, <1>3
  DEF Goto, WorkerConsumesApproval, WorkerRunsHandler, WorkerRecordsReceipt, WorkerCompletes,
      WorkerBlocks, WorkerFailReads, WorkerFailWrites, Crash, Restart
<1>4. QED
  BY <1>2, <1>3 DEF WorkerStep

(* One process's part of it.                                               *)
LEMMA ProcessAnswers ==
  ASSUME BaseInv, Apart, AnswerInv, [WRNext]_wrVars, NEW c \in Conns
  PROVE  /\ pc'[c] \in Unanswered => receipts'[job'[c]] = NoReceipt
         /\ pc'[c] = "complete" =>
              receipts'[job'[c]] # NoReceipt /\ out'[c] = receipts'[job'[c]].result
<1>1. /\ pc \in [Conns -> Places] /\ job \in [Conns -> Items \cup {0}]
      /\ out \in [Conns -> Nat] /\ receipts \in [Items -> [result : Nat, at : Nat]]
  BY DEF BaseInv, WRTypeOK
<1> DEFINE Goal == /\ pc'[c] \in Unanswered => receipts'[job'[c]] = NoReceipt
                   /\ pc'[c] = "complete" =>
                        /\ receipts'[job'[c]] # NoReceipt
                        /\ out'[c] = receipts'[job'[c]].result
<1>3. ASSUME WorkerLooksForReceipt(c) PROVE Goal
  <2>1. receipts' = receipts /\ job' = job
    BY <1>3 DEF WorkerLooksForReceipt
  <2>2. CASE receipts[job[c]] = NoReceipt
    <3>1. pc'[c] = "gate"
      BY <1>1, <1>3, <2>2 DEF WorkerLooksForReceipt, Goto
    <3>2. QED
      BY <2>1, <2>2, <3>1
  <2>3. CASE receipts[job[c]] # NoReceipt
    <3>1. pc'[c] = "complete" /\ out'[c] = receipts[job[c]].result
      BY <1>1, <1>3, <2>3 DEF WorkerLooksForReceipt, Goto
    <3>2. QED
      BY <2>1, <2>3, <3>1 DEF Unanswered
  <2>4. QED
    BY <2>2, <2>3
<1>4. ASSUME WorkerRecordsReceipt(c) PROVE Goal
  <2>1. job[c] \in Items /\ receipts[job[c]] = NoReceipt /\ out[c] \in Nat \ {0}
    <3>1. pc[c] = "record"
      BY <1>4 DEF WorkerRecordsReceipt, At
    <3>2. job[c] \in Items /\ out[c] \in 1..attempts[job[c]]
      BY <3>1 DEF BaseInv, JobIsClaimed, ResultIsProduced, Busy
    <3>3. receipts[job[c]] = NoReceipt
      BY <3>1 DEF AnswerInv, Unanswered
    <3>4. QED
      BY <1>1, <3>2, <3>3
  <2>2. CASE pc'[c] = "fail"
    BY <2>2 DEF Unanswered
  <2>3. CASE pc'[c] # "fail"
    <3> DEFINE r == [result |-> out[c], at |-> attempts[job[c]]]
    <3>1. /\ receipts' = [receipts EXCEPT ![job[c]] = r]
          /\ pc'[c] = "complete" /\ job' = job /\ out' = out
      BY <1>1, <1>4, <2>1, <2>3 DEF WorkerRecordsReceipt, Goto
    <3>2. r.result = out[c] /\ r # NoReceipt
      BY <2>1 DEF NoReceipt
    <3> HIDE DEF r
    <3>3. QED
      BY <1>1, <2>1, <3>1, <3>2 DEF Unanswered
  <2>4. QED
    BY <2>2, <2>3
<1>5. ASSUME \/ WorkerPassesGate(c) \/ WorkerReadsApproval(c) \/ WorkerConsumesApproval(c)
             \/ WorkerRunsHandler(c)
      PROVE  Goal
  <2>1. /\ pc[c] \in {"gate", "approve", "consume", "handler"}
        /\ receipts' = receipts /\ job' = job /\ pc'[c] # "complete"
    BY <1>1, <1>5 DEF WorkerPassesGate, WorkerReadsApproval, WorkerConsumesApproval,
       WorkerRunsHandler, At, Goto, Refuse
  <2>2. QED
    BY <2>1 DEF AnswerInv, Unanswered
<1>6. ASSUME \/ WorkerReadsKillSwitch(c) \/ WorkerFindsNothing(c) \/ WorkerClaims(c)
             \/ WorkerCompletes(c) \/ WorkerBlocks(c) \/ WorkerFailReads(c)
             \/ WorkerFailWrites(c) \/ Crash(c) \/ Restart(c)
      PROVE  Goal
  <2>1. pc'[c] \notin Unanswered \cup {"complete"}
    BY <1>1, <1>6 DEF WorkerReadsKillSwitch, WorkerFindsNothing, WorkerClaims, WorkerCompletes,
       WorkerBlocks, WorkerFailReads, WorkerFailWrites, Crash, Restart, Goto, Unanswered
  <2>2. QED
    BY <2>1
<1>7. ASSUME Environment \/ UNCHANGED wrVars PROVE Goal
  <2>1. UNCHANGED <<pc, job, out, receipts>>
    BY <1>7 DEF Environment, SwitchKill, Lapse, wrVars, procVars
  <2>2. QED
    BY <2>1 DEF AnswerInv
<1>8. ASSUME NEW p \in Conns, p # c, WorkerStep(p) \/ Crash(p) \/ Restart(p)
      PROVE  Goal
  <2>1. pc'[c] = pc[c] /\ job'[c] = job[c] /\ out'[c] = out[c]
    BY <1>1, <1>8, OthersStandStill
  <2>2. CASE receipts' = receipts
    BY <2>1, <2>2 DEF AnswerInv
  <2>3. CASE WorkerRecordsReceipt(p)
    <3>1. Busy(p)
      BY <2>3 DEF WorkerRecordsReceipt, At, Busy
    <3>2. ASSUME pc[c] \in Unanswered \cup {"complete"}
          PROVE  receipts'[job[c]] = receipts[job[c]]
      <4>1. Busy(c)
        BY <3>2 DEF Busy, Unanswered
      <4>2. job[p] # job[c] /\ job[c] \in Items
        BY <1>8, <3>1, <4>1 DEF Apart, BaseInv, JobIsClaimed
      <4>3. receipts' = receipts
              \/ \E r : receipts' = [receipts EXCEPT ![job[p]] = r]
        BY <2>3 DEF WorkerRecordsReceipt
      <4>4. QED
        BY <1>1, <4>2, <4>3
    <3>3. CASE pc[c] \notin Unanswered \cup {"complete"}
      BY <2>1, <3>3
    <3>4. CASE pc[c] \in Unanswered \cup {"complete"}
      <4>1. receipts'[job'[c]] = receipts[job[c]]
        BY <2>1, <3>2, <3>4
      <4>2. QED
        BY <2>1, <4>1 DEF AnswerInv
    <3>5. QED
      BY <3>3, <3>4
  <2>4. receipts' = receipts \/ WorkerRecordsReceipt(p)
    BY <1>8 DEF WorkerStep, WorkerReadsKillSwitch, WorkerFindsNothing, WorkerClaims,
       WorkerLooksForReceipt, WorkerPassesGate, WorkerReadsApproval, WorkerConsumesApproval,
       WorkerRunsHandler, WorkerCompletes, WorkerBlocks, WorkerFailReads, WorkerFailWrites,
       Crash, Restart
  <2>5. QED
    BY <2>2, <2>3, <2>4
<1> HIDE DEF Goal
<1>9. Goal
  BY <1>3, <1>4, <1>5, <1>6, <1>7, <1>8 DEF WRNext, WorkerStep
<1>10. QED
  BY <1>9 DEF Goal

(* While they keep apart, a process's replay lookup is still true when it  *)
(* answers.                                                                *)
LEMMA AnswerInvAtStep ==
  ASSUME BaseInv, Apart, AnswerInv, [WRNext]_wrVars
  PROVE  AnswerInv'
<1>1. ASSUME NEW w \in Items, status'[w] = "SUCCEEDED"
      PROVE  receipts'[w] # NoReceipt /\ payload'[w] = receipts'[w].result
  <2>1. CASE payload'[w] = payload[w] /\ status[w] = "SUCCEEDED"
    <3>1. receipts'[w] = receipts[w]
      BY <2>1, ReceiptsAreKept DEF AnswerInv
    <3>2. QED
      BY <2>1, <3>1 DEF AnswerInv
  <2>2. CASE \E p \in Conns : /\ pc[p] = "complete" /\ job[p] = w
                              /\ payload'[w] = out[p] /\ UNCHANGED <<receipts, ran>>
    BY <2>2 DEF AnswerInv
  <2>3. QED
    BY <1>1, <2>1, <2>2, OnlyCompletionPays
<1>2. ASSUME NEW c \in Conns
      PROVE  /\ pc'[c] \in Unanswered => receipts'[job'[c]] = NoReceipt
             /\ pc'[c] = "complete" =>
                  receipts'[job'[c]] # NoReceipt /\ out'[c] = receipts'[job'[c]].result
  BY ProcessAnswers
<1>3. QED
  BY <1>1, <1>2 DEF AnswerInv

(* The row and the receipt of a succeeded item hold the same answer while  *)
(* one worker process runs.                                                *)
THEOREM OneWorkerAnswersOnce ==
  ASSUME NEW c, Conns = {c}
  PROVE  WRSpec => []ReceiptIsTheAnswer
<1>1. WRInit => AnswerInv
  BY DEF WRInit, WQInit, AnswerInv, Unanswered
<1>2. BaseInv /\ AnswerInv /\ [WRNext]_wrVars => AnswerInv'
  BY AnswerInvAtStep DEF Apart
<1>3. AnswerInv => ReceiptIsTheAnswer
  BY DEF AnswerInv, ReceiptIsTheAnswer
<1>4. QED
  BY <1>1, <1>2, <1>3, WorkerTypeCorrect, PTL DEF WRSpec
-----------------------------------------------------------------------------
(* What a process's fail_work has read is still so when it writes.         *)
FailingIsHeld ==
  \A p \in Conns : failing[p] # NotFailing =>
    pc[p] = "failing" /\ failing[p].item = job[p] /\ HoldsRow(p, job[p])

LEMMA FailingStaysHeld ==
  ASSUME NEW p, Conns = {p}, BaseInv, FailingIsHeld, [WRNext]_wrVars
  PROVE  FailingIsHeld'
<1>1. /\ pc \in [Conns -> Places] /\ job \in [Conns -> Items \cup {0}]
      /\ failing \in [Conns -> FailReads]
      /\ status \in [Items -> Statuses] /\ owner \in [Items -> WorkerIds \cup {NoOne}]
  BY DEF BaseInv, WRTypeOK, WQTypeOK
<1>2. CASE WorkerFailReads(p)
  <2>1. job[p] \in Items
    BY <1>2 DEF WorkerFailReads, At, BaseInv, JobIsClaimed, Busy
  <2>2. CASE FailReadsRow(p, job[p]) /\ Goto(p, "failing")
    <3>1. /\ HoldsRow(p, job[p]) /\ UNCHANGED <<job, status, owner>>
          /\ failing' = [failing EXCEPT ![p] = [item |-> job[p], dead |-> OutOfAttempts(job[p])]]
          /\ pc' = [pc EXCEPT ![p] = "failing"]
      BY <1>2, <2>2 DEF WorkerFailReads, FailReadsRow, Goto, rowVars
    <3>2. failing'[p].item = job[p]
      BY <1>1, <3>1
    <3>3. QED
      BY <1>1, <3>1, <3>2 DEF FailingIsHeld, HoldsRow
  <2>3. CASE UNCHANGED wqVars
    BY <1>1, <1>2, <2>3 DEF WorkerFailReads, At, FailingIsHeld, wqVars, callVars
  <2>4. QED
    BY <1>2, <2>2, <2>3 DEF WorkerFailReads
<1>3. CASE WorkerFailWrites(p) \/ Crash(p)
  BY <1>1, <1>3 DEF WorkerFailWrites, FailWrites, Crash, Disconnects, FailingIsHeld
<1>4. CASE \/ WorkerReadsKillSwitch(p) \/ WorkerFindsNothing(p) \/ WorkerClaims(p)
           \/ WorkerLooksForReceipt(p) \/ WorkerPassesGate(p) \/ WorkerReadsApproval(p)
           \/ WorkerConsumesApproval(p) \/ WorkerRunsHandler(p) \/ WorkerRecordsReceipt(p)
           \/ WorkerCompletes(p) \/ WorkerBlocks(p) \/ Restart(p)
  <2>1. pc[p] # "failing" /\ failing' = failing
    BY <1>4 DEF WorkerReadsKillSwitch, WorkerFindsNothing, WorkerClaims,
       WorkerLooksForReceipt, WorkerPassesGate, WorkerReadsApproval, WorkerConsumesApproval,
       WorkerRunsHandler, WorkerRecordsReceipt, WorkerCompletes, WorkerBlocks, Restart, At,
       ClaimPassesKillSwitch, ClaimFindsNothing, ClaimBlocksOnBudget, ClaimGrants,
       CompleteWork, BlockWork, wqVars, callVars
  <2>2. QED
    BY <2>1 DEF FailingIsHeld
<1>5. CASE Environment \/ UNCHANGED wrVars
  <2>1. UNCHANGED <<pc, job, failing>>
    BY <1>5 DEF Environment, SwitchKill, SetKillSwitch, ConfigureBudget, EnqueueWork,
       BecomesAvailable, NextPeriod, Lapse, LeaseExpires, wrVars, wqVars, callVars, procVars
  <2>2. \A w \in Items : status[w] = "RUNNING" => status'[w] = status[w] /\ owner'[w] = owner[w]
    BY <1>1, <1>5 DEF Environment, SwitchKill, SetKillSwitch, ConfigureBudget, EnqueueWork,
       BecomesAvailable, NextPeriod, Lapse, LeaseExpires, wrVars, wqVars, rowVars
  <2>3. ASSUME failing[p] # NotFailing PROVE job[p] \in Items
    BY <2>3 DEF FailingIsHeld, BaseInv, JobIsClaimed, Busy
  <2>4. QED
    BY <2>1, <2>2, <2>3 DEF FailingIsHeld, HoldsRow
<1>6. QED
  BY <1>2, <1>3, <1>4, <1>5 DEF WRNext, WorkerStep

(* A settled row is rewritten by a fail_work that had read it, or by nobody*)
LEMMA OnlyFailuresUnsettle ==
  ASSUME WQTypeOK, FailingNamesItem, [WQNext]_wqVars, NEW w \in Items, status[w] \in Settled
  PROVE  status'[w] = status[w] \/ \E p \in Conns : failing[p] # NotFailing /\ failing[p].item = w
<1>1. status \in [Items -> Statuses] /\ status[w] \notin {"ABSENT", "QUEUED", "RUNNING"}
  BY DEF WQTypeOK, Settled, Blocked
<1>2. CASE Operator \/ Time \/ UNCHANGED wqVars
  BY <1>1, <1>2 DEF Operator, Time, SetKillSwitch, ConfigureBudget, EnqueueWork,
     BecomesAvailable, LeaseExpires, NextPeriod, wqVars, rowVars
<1>3. ASSUME NEW p \in Conns, Calls(p), ~FailWrites(p) PROVE status'[w] = status[w]
  BY <1>1, <1>3 DEF Calls, ClaimPassesKillSwitch, ClaimFindsNothing, ClaimBlocksOnBudget,
     ClaimGrants, FirstClaimable, Claimable, CompleteWork, BlockWork, FailReadsRow, HoldsRow,
     Release, Disconnects, rowVars
<1>4. ASSUME NEW p \in Conns, FailWrites(p), status'[w] # status[w]
      PROVE  failing[p] # NotFailing /\ failing[p].item = w
  BY <1>1, <1>4 DEF FailWrites, Release, FailingNamesItem
<1>5. QED
  BY <1>2, <1>3, <1>4 DEF WQNext

(* A settled item stays settled while one worker process runs, whatever    *)
(* crashes, restarts and lapsed leases it goes through.                    *)
THEOREM OneWorkerSettlesForGood ==
  ASSUME NEW p, Conns = {p}
  PROVE  WRSpec => SettledIsFinal
<1>1. WRInit => FailingIsHeld
  BY DEF WRInit, WQInit, FailingIsHeld
<1>2. BaseInv /\ FailingIsHeld /\ [WRNext]_wrVars => FailingIsHeld'
  BY FailingStaysHeld
<1>3. BaseInv /\ FailingIsHeld /\ [WRNext]_wrVars
        => [\A w \in Items : status[w] \in Settled => status'[w] = status[w]]_wrVars
  <2> SUFFICES ASSUME BaseInv, FailingIsHeld, [WRNext]_wrVars,
                      NEW w \in Items, status[w] \in Settled
               PROVE  status'[w] = status[w]
    OBVIOUS
  <2>1. \A q \in Conns : ~(failing[q] # NotFailing /\ failing[q].item = w)
    BY DEF FailingIsHeld, HoldsRow, Settled, Blocked
  <2>2. QED
    BY <2>1, StepIsQueueStep, OnlyFailuresUnsettle DEF BaseInv, WRTypeOK
<1>4. QED
  BY <1>1, <1>2, <1>3, WorkerTypeCorrect, PTL DEF WRSpec, SettledIsFinal

(* Only the lease's holder puts an item back or buries it while one worker *)
(* process runs; two processes break it.                                   *)
THEOREM OneWorkerFailsUnderLease ==
  ASSUME NEW c, Conns = {c}
  PROVE  WRSpec => FailureNeedsTheLease
<1>1. WRInit => FailingIsHeld
  BY DEF WRInit, WQInit, FailingIsHeld
<1>2. BaseInv /\ FailingIsHeld /\ [WRNext]_wrVars => FailingIsHeld'
  BY FailingStaysHeld
<1>3. BaseInv /\ FailingIsHeld /\ [WRNext]_wrVars
        => [\A p \in Conns : At(p, "failing") /\ pc'[p] = "idle"
              => HoldsRow(p, job[p])]_wrVars
  <2> SUFFICES ASSUME BaseInv, FailingIsHeld, [WRNext]_wrVars,
                      NEW p \in Conns, At(p, "failing"), pc'[p] = "idle"
               PROVE  HoldsRow(p, job[p])
    OBVIOUS
  <2>1. WorkerFailWrites(p)
    BY DEF At, Goto, WRNext, WorkerStep, WorkerReadsKillSwitch, WorkerFindsNothing, WorkerClaims,
       WorkerLooksForReceipt, WorkerPassesGate, WorkerReadsApproval, WorkerConsumesApproval,
       WorkerRunsHandler, WorkerRecordsReceipt, WorkerCompletes, WorkerBlocks, WorkerFailReads,
       Crash, Restart, Environment, SwitchKill, Lapse, procVars, wrVars, BaseInv, WRTypeOK
  <2>2. QED
    BY <2>1 DEF WorkerFailWrites, FailWrites, FailingIsHeld
<1>4. QED
  BY <1>1, <1>2, <1>3, WorkerTypeCorrect, PTL
  DEF WRSpec, FailureNeedsTheLease, At, HoldsRow
-----------------------------------------------------------------------------
(* Any number of processes, each under an id of its own.  Until a process  *)
(* dies or a lease lapses under a living one, a busy process holds the     *)
(* lease of its item; the lease keeps the others off it.                   *)
HoldsLease(p, w) == HoldsRow(p, w) /\ ~lapsed[w]

(* A fail_work that has read acts on its process's own item.               *)
FailingIsOwn ==
  \A p \in Conns : failing[p] # NotFailing => pc[p] = "failing" /\ failing[p].item = job[p]

LeasesAreKept ==
  /\ FailingIsOwn
  /\ faults = 0 => \A p \in Conns : Busy(p) => HoldsLease(p, job[p])

LEMMA FailingStaysOwn ==
  ASSUME BaseInv, FailingIsOwn, [WRNext]_wrVars
  PROVE  FailingIsOwn'
<1> SUFFICES ASSUME NEW q \in Conns, failing'[q] # NotFailing
             PROVE  pc'[q] = "failing" /\ failing'[q].item = job'[q]
  BY DEF FailingIsOwn
<1> DEFINE Goal == pc'[q] = "failing" /\ failing'[q].item = job'[q]
<1>1. /\ pc \in [Conns -> Places] /\ job \in [Conns -> Items \cup {0}]
      /\ failing \in [Conns -> FailReads]
  BY DEF BaseInv, WRTypeOK, WQTypeOK
<1>2. CASE WorkerFailReads(q)
  <2>1. CASE FailReadsRow(q, job[q]) /\ Goto(q, "failing")
    BY <1>1, <1>2, <2>1 DEF WorkerFailReads, FailReadsRow, Goto
  <2>2. CASE UNCHANGED wqVars
    BY <1>1, <1>2, <2>2 DEF WorkerFailReads, At, FailingIsOwn, wqVars, callVars
  <2>3. QED
    BY <1>2, <2>1, <2>2 DEF WorkerFailReads
<1>3. CASE WorkerFailWrites(q) \/ Crash(q)
  BY <1>1, <1>3 DEF WorkerFailWrites, FailWrites, Crash, Disconnects
<1>4. CASE \/ WorkerReadsKillSwitch(q) \/ WorkerFindsNothing(q) \/ WorkerClaims(q)
           \/ WorkerLooksForReceipt(q) \/ WorkerPassesGate(q) \/ WorkerReadsApproval(q)
           \/ WorkerConsumesApproval(q) \/ WorkerRunsHandler(q) \/ WorkerRecordsReceipt(q)
           \/ WorkerCompletes(q) \/ WorkerBlocks(q) \/ Restart(q)
  <2>1. pc[q] # "failing" /\ failing' = failing
    BY <1>4 DEF WorkerReadsKillSwitch, WorkerFindsNothing, WorkerClaims,
       WorkerLooksForReceipt, WorkerPassesGate, WorkerReadsApproval, WorkerConsumesApproval,
       WorkerRunsHandler, WorkerRecordsReceipt, WorkerCompletes, WorkerBlocks, Restart, At,
       ClaimPassesKillSwitch, ClaimFindsNothing, ClaimBlocksOnBudget, ClaimGrants,
       CompleteWork, BlockWork, wqVars, callVars
  <2>2. QED
    BY <2>1 DEF FailingIsOwn
<1>5. CASE Environment \/ UNCHANGED wrVars
  <2>1. UNCHANGED <<pc, job, failing>>
    BY <1>5 DEF Environment, SwitchKill, SetKillSwitch, ConfigureBudget, EnqueueWork,
       BecomesAvailable, NextPeriod, Lapse, LeaseExpires, wrVars, wqVars, callVars, procVars
  <2>2. QED
    BY <2>1 DEF FailingIsOwn
<1>6. ASSUME NEW p \in Conns, p # q, WorkerStep(p) \/ Crash(p) \/ Restart(p)
      PROVE  Goal
  <2>1. pc'[q] = pc[q] /\ job'[q] = job[q]
    BY <1>6, OthersStandStill
  <2>2. failing'[q] = failing[q]
    BY <1>1, <1>6 DEF WorkerStep, WorkerReadsKillSwitch, WorkerFindsNothing, WorkerClaims,
       WorkerLooksForReceipt, WorkerPassesGate, WorkerReadsApproval, WorkerConsumesApproval,
       WorkerRunsHandler, WorkerRecordsReceipt, WorkerCompletes, WorkerBlocks, Restart, Crash,
       WorkerFailReads, WorkerFailWrites, FailReadsRow, FailWrites, Disconnects,
       ClaimPassesKillSwitch, ClaimFindsNothing, ClaimBlocksOnBudget, ClaimGrants,
       CompleteWork, BlockWork, wqVars, callVars
  <2>3. QED
    BY <2>1, <2>2 DEF FailingIsOwn
<1> HIDE DEF Goal
<1>7. Goal
  BY <1>2, <1>3, <1>4, <1>5, <1>6 DEF WRNext, WorkerStep, Goal
<1>8. QED
  BY <1>7 DEF Goal

(* Until there has been a fault nothing dies, and no lease in use lapses.  *)
LEMMA FaultsAreCounted ==
  ASSUME BaseInv, [WRNext]_wrVars, faults' = 0
  PROVE  /\ faults = 0
         /\ \A p \in Conns : ~Crash(p)
         /\ \A w \in Items : Lapse(w) => \A p \in Conns : ~WorkingOn(p, w)
<1>1. faults \in Nat
  BY DEF BaseInv, WRTypeOK
<1>2. faults' = faults \/ faults' = faults + 1
  BY DEF WRNext, WorkerStep, WorkerReadsKillSwitch, WorkerFindsNothing, WorkerClaims,
     WorkerLooksForReceipt, WorkerPassesGate, WorkerReadsApproval, WorkerConsumesApproval,
     WorkerRunsHandler, WorkerRecordsReceipt, WorkerCompletes, WorkerBlocks, WorkerFailReads,
     WorkerFailWrites, Crash, Restart, Environment, SwitchKill, Lapse, histVars, wrVars
<1>3. QED
  BY <1>1, <1>2 DEF Crash, Lapse

(* A step of one process leaves the row another works on as it is.         *)
LEMMA RowIsLeft ==
  ASSUME \A p, q \in Conns : WorkerIdOf[p] = WorkerIdOf[q] => p = q,
         BaseInv, LeasesAreKept, faults = 0,
         NEW p \in Conns, NEW q \in Conns, p # q, Busy(q),
         WorkerStep(p) \/ Restart(p), NEW w \in Items, w = job[q]
  PROVE  status'[w] = status[w] /\ owner'[w] = owner[w] /\ lapsed'[w] = lapsed[w]
<1> DEFINE Goal == status'[w] = status[w] /\ owner'[w] = owner[w] /\ lapsed'[w] = lapsed[w]
<1>1. /\ status \in [Items -> Statuses] /\ owner \in [Items -> WorkerIds \cup {NoOne}]
      /\ lapsed \in [Items -> BOOLEAN]
  BY DEF BaseInv, WRTypeOK, WQTypeOK
<1>2. HoldsLease(q, w)
  BY DEF LeasesAreKept
<1>3. ~Claimable(w) /\ ~HoldsRow(p, w)
  BY <1>2 DEF Claimable, HoldsLease, HoldsRow
<1>4. CASE WorkerFindsNothing(p) \/ WorkerClaims(p)
  BY <1>1, <1>2, <1>3, <1>4
  DEF WorkerFindsNothing, WorkerClaims, ClaimFindsNothing, ClaimBlocksOnBudget, ClaimGrants,
      FirstClaimable, rowVars
<1>5. CASE WorkerCompletes(p) \/ WorkerBlocks(p)
  BY <1>1, <1>2, <1>3, <1>5
  DEF WorkerCompletes, WorkerBlocks, CompleteWork, BlockWork, Release, wqVars, rowVars
<1>6. CASE WorkerFailWrites(p)
  <2>1. failing[p].item = job[p] /\ Busy(p)
    BY <1>6 DEF WorkerFailWrites, FailWrites, LeasesAreKept, FailingIsOwn, Busy
  <2>2. job[p] # w
    BY <1>3, <2>1 DEF LeasesAreKept, HoldsLease
  <2>3. QED
    BY <1>1, <1>2, <1>6, <2>1, <2>2 DEF WorkerFailWrites, FailWrites, Release
<1>7. CASE \/ WorkerReadsKillSwitch(p) \/ WorkerLooksForReceipt(p) \/ WorkerPassesGate(p)
           \/ WorkerReadsApproval(p) \/ WorkerConsumesApproval(p) \/ WorkerRunsHandler(p)
           \/ WorkerRecordsReceipt(p) \/ WorkerFailReads(p) \/ Restart(p)
  BY <1>7 DEF WorkerReadsKillSwitch, WorkerLooksForReceipt, WorkerPassesGate,
     WorkerReadsApproval, WorkerConsumesApproval, WorkerRunsHandler, WorkerRecordsReceipt,
     WorkerFailReads, Restart, ClaimPassesKillSwitch, FailReadsRow, wqVars, rowVars
<1> HIDE DEF Goal
<1>8. Goal
  BY <1>4, <1>5, <1>6, <1>7 DEF WorkerStep, Goal
<1>9. QED
  BY <1>8 DEF Goal

LEMMA LeasesStayKept ==
  ASSUME \A p, q \in Conns : WorkerIdOf[p] = WorkerIdOf[q] => p = q,
         BaseInv, LeasesAreKept, [WRNext]_wrVars
  PROVE  LeasesAreKept'
<1>1. FailingIsOwn'
  BY FailingStaysOwn DEF LeasesAreKept
<1> SUFFICES ASSUME faults' = 0, NEW q \in Conns, Busy(q)'
             PROVE  HoldsLease(q, job[q])'
  BY <1>1 DEF LeasesAreKept
<1> DEFINE Goal == HoldsLease(q, job[q])'
<1>a. /\ faults = 0 /\ \A p \in Conns : ~Crash(p)
      /\ \A v \in Items : Lapse(v) => \A p \in Conns : ~WorkingOn(p, v)
  BY FaultsAreCounted
<1>b. Busy(q) => HoldsLease(q, job[q]) /\ job[q] \in Items
  BY <1>a DEF LeasesAreKept, BaseInv, JobIsClaimed
<1>c. /\ pc \in [Conns -> Places] /\ job \in [Conns -> Items \cup {0}]
      /\ status \in [Items -> Statuses] /\ owner \in [Items -> WorkerIds \cup {NoOne}]
      /\ lapsed \in [Items -> BOOLEAN]
  BY DEF BaseInv, WRTypeOK, WQTypeOK
<1>2. CASE WorkerClaims(q)
  BY <1>c, <1>2 DEF WorkerClaims, ClaimGrants, HoldsLease, HoldsRow
<1>3. CASE \/ WorkerReadsKillSwitch(q) \/ WorkerFindsNothing(q) \/ WorkerFailWrites(q)
           \/ Restart(q)
  BY <1>c, <1>3 DEF WorkerReadsKillSwitch, WorkerFindsNothing, WorkerFailWrites, Restart,
     Goto, Busy
<1>4. CASE \/ WorkerLooksForReceipt(q) \/ WorkerPassesGate(q) \/ WorkerReadsApproval(q)
           \/ WorkerConsumesApproval(q) \/ WorkerRunsHandler(q) \/ WorkerRecordsReceipt(q)
           \/ WorkerFailReads(q)
  <2>1. Busy(q) /\ UNCHANGED <<job, status, owner, lapsed>>
    BY <1>4 DEF WorkerLooksForReceipt, WorkerPassesGate, WorkerReadsApproval, At, Busy,
       WorkerConsumesApproval, WorkerRunsHandler, WorkerRecordsReceipt, WorkerFailReads,
       FailReadsRow, wqVars, rowVars
  <2>2. QED
    BY <1>b, <2>1 DEF HoldsLease, HoldsRow
<1>5. CASE WorkerCompletes(q) \/ WorkerBlocks(q)
  <2>1. Busy(q)
    BY <1>5 DEF WorkerCompletes, WorkerBlocks, At, Busy
  <2>2. pc'[q] = "idle"
    BY <1>b, <1>c, <1>5, <2>1 DEF WorkerCompletes, WorkerBlocks, Goto, HoldsLease
  <2>3. QED
    BY <2>2 DEF Busy
<1>6. ASSUME NEW p \in Conns, p # q, WorkerStep(p) \/ Restart(p) PROVE Goal
  <2>1. pc'[q] = pc[q] /\ job'[q] = job[q]
    BY <1>6, OthersStandStill
  <2>2. Busy(q)
    BY <2>1 DEF Busy
  <2>3. /\ status'[job[q]] = status[job[q]] /\ owner'[job[q]] = owner[job[q]]
        /\ lapsed'[job[q]] = lapsed[job[q]]
    BY <1>6, <1>a, <1>b, <2>2, RowIsLeft
  <2>4. QED
    BY <1>b, <2>1, <2>2, <2>3 DEF HoldsLease, HoldsRow
<1>7. CASE Environment \/ UNCHANGED wrVars
  <2>1. UNCHANGED <<pc, job>>
    BY <1>7 DEF Environment, SwitchKill, Lapse, wrVars, procVars
  <2>2. Busy(q) /\ WorkingOn(q, job[q])
    BY <2>1 DEF Busy, WorkingOn
  <2>3. ASSUME NEW w \in Items, status[w] = "RUNNING", ~Lapse(w)
        PROVE  status'[w] = status[w] /\ owner'[w] = owner[w] /\ lapsed'[w] = lapsed[w]
    BY <1>c, <1>7, <2>3 DEF Environment, SwitchKill, SetKillSwitch, ConfigureBudget, EnqueueWork,
       BecomesAvailable, NextPeriod, Lapse, LeaseExpires, wrVars, wqVars, rowVars
  <2>4. QED
    BY <1>a, <1>b, <2>1, <2>2, <2>3 DEF HoldsLease, HoldsRow
<1> HIDE DEF Goal
<1>8. Goal
  BY <1>2, <1>3, <1>4, <1>5, <1>6, <1>7, <1>a DEF WRNext, WorkerStep, Goal
<1>9. QED
  BY <1>8 DEF Goal

LEMMA LeaseInvHolds ==
  ASSUME \A p, q \in Conns : WorkerIdOf[p] = WorkerIdOf[q] => p = q
  PROVE  WRSpec => [](BaseInv /\ LeasesAreKept)
<1>1. WRInit => LeasesAreKept
  BY DEF WRInit, WQInit, LeasesAreKept, FailingIsOwn, Busy
<1>2. BaseInv /\ LeasesAreKept /\ [WRNext]_wrVars => LeasesAreKept'
  BY LeasesStayKept
<1>3. QED
  BY <1>1, <1>2, WorkerTypeCorrect, PTL DEF WRSpec

LEMMA LeasesSeparate ==
  ASSUME \A p, q \in Conns : WorkerIdOf[p] = WorkerIdOf[q] => p = q,
         LeasesAreKept, faults = 0
  PROVE  Apart
BY DEF LeasesAreKept, HoldsLease, HoldsRow, Apart

(* claim_work's lease excludes: no two processes are busy with one item,   *)
(* as long as none has died and none has been slower than its lease.       *)
THEOREM LeasesExclude ==
  ASSUME \A p, q \in Conns : WorkerIdOf[p] = WorkerIdOf[q] => p = q
  PROVE  WRSpec => [](faults = 0 => Apart)
<1>1. LeasesAreKept => (faults = 0 => Apart)
  BY LeasesSeparate
<1>2. QED
  BY <1>1, LeaseInvHolds, PTL

(* The row and the receipt of a succeeded item hold the same answer, for   *)
(* any number of processes, until something dies or lapses.                *)
THEOREM AnswersOnceWithoutFaults ==
  ASSUME \A p, q \in Conns : WorkerIdOf[p] = WorkerIdOf[q] => p = q
  PROVE  WRSpec => [](faults = 0 => ReceiptIsTheAnswer)
<1>1. WRInit => AnswerInv
  BY DEF WRInit, WQInit, AnswerInv, Unanswered
<1>2. BaseInv /\ LeasesAreKept /\ (faults = 0 => AnswerInv) /\ [WRNext]_wrVars
        => (faults = 0 => AnswerInv)'
  BY FaultsAreCounted, LeasesSeparate, AnswerInvAtStep
<1>3. AnswerInv => ReceiptIsTheAnswer
  BY DEF AnswerInv, ReceiptIsTheAnswer
<1>4. QED
  BY <1>1, <1>2, <1>3, LeaseInvHolds, PTL DEF WRSpec

(* Likewise no settled item is put back or settled again: whoever writes a *)
(* failure still holds the lease its read has seen.                        *)
SettledIsFinalUnlessFaults ==
  [][faults' = 0 => \A w \in Items : status[w] \in Settled => status'[w] = status[w]]_wrVars

THEOREM SettledForGoodWithoutFaults ==
  ASSUME \A p, q \in Conns : WorkerIdOf[p] = WorkerIdOf[q] => p = q
  PROVE  WRSpec => SettledIsFinalUnlessFaults
<1>1. BaseInv /\ LeasesAreKept /\ [WRNext]_wrVars
        => [faults' = 0 => \A w \in Items : status[w] \in Settled => status'[w] = status[w]]_wrVars
  <2> SUFFICES ASSUME BaseInv, LeasesAreKept, [WRNext]_wrVars, faults' = 0,
                      NEW w \in Items, status[w] \in Settled
               PROVE  status'[w] = status[w]
    OBVIOUS
  <2>1. faults = 0
    BY FaultsAreCounted
  <2>2. \A q \in Conns : ~(failing[q] # NotFailing /\ failing[q].item = w)
    BY <2>1 DEF LeasesAreKept, FailingIsOwn, Busy, HoldsLease, HoldsRow, Settled, Blocked
  <2>3. QED
    BY <2>2, StepIsQueueStep, OnlyFailuresUnsettle DEF BaseInv, WRTypeOK
<1>2. QED
  BY <1>1, LeaseInvHolds, PTL DEF WRSpec, SettledIsFinalUnlessFaults
=============================================================================
