--------------------------- MODULE WorkerRuntime ---------------------------
(***************************************************************************)
(* scripts/worker.py running against the store: each process loops over    *)
(* claim_work, ActionRegistry.execute (sean_os/policy.py) and the call     *)
(* that settles the item.  A process may die between any two of its        *)
(* commits; the supervisor starts it again under the same worker id.       *)
(*                                                                         *)
(*   idle -> claim -> replay -> gate -> handler -> record -> complete      *)
(*                                 |       |          |         |          *)
(*                              approve  fail <-------+---------+          *)
(*                              consume    |                               *)
(*                                 |    failing                            *)
(*                             refused                                     *)
(*                                                                         *)
(* A handler's result is named by the attempt that produced it.            *)
(***************************************************************************)
EXTENDS WorkQueue, Approvals

CONSTANTS
  Gate,         \* what the registered policy of each item's task asks for
  ApprovalOf,   \* approval_id in each item's payload
  MaxFaults     \* bound: crashes, and leases that lapse on a live process

Gates == {"LOCAL", "DENIED", "APPROVAL"}

ASSUME GateAssumption ==
  /\ Gate \in [Items -> Gates]
  /\ ApprovalOf \in [Items -> Approvals \cup {NoApproval}]
  /\ MaxFaults \in Nat

VARIABLES
  pc,        \* where each process is in the worker loop
  job,       \* the item it claimed
  run,       \* the attempt number it claimed
  out,       \* the result it carries to complete_work
  verdict,   \* the status a refusal will give the item
  receipts,  \* action_executions: whose result is stored, and when
  ran,       \* history: the handler invocations, by item and attempt
  braked,    \* history: processes short of the gate when the switch went ON
  faults     \* crashes and live lapses so far

procVars == <<pc, job, run, out, verdict>>
histVars == <<ran, braked, faults>>
wrVars   == <<wqVars, apVars, procVars, receipts, histVars>>

Places == {"idle", "claim", "replay", "gate", "approve", "consume", "refused",
           "handler", "record", "complete", "fail", "failing", "down"}
Verdicts == {"APPROVAL_BLOCKED", "POLICY_BLOCKED"}
NoReceipt == [result |-> 0, at |-> 0]

WRInit ==
  /\ WQInit /\ ApInit
  /\ pc       = [p \in Conns |-> "idle"]
  /\ job      = [p \in Conns |-> 0]
  /\ run      = [p \in Conns |-> 0]
  /\ out      = [p \in Conns |-> 0]
  /\ verdict  = [p \in Conns |-> "POLICY_BLOCKED"]
  /\ receipts = [w \in Items |-> NoReceipt]
  /\ ran      = {}
  /\ braked   = {}
  /\ faults   = 0

At(p, place)  == pc[p] = place
Goto(p, place) == pc' = [pc EXCEPT ![p] = place]

(* A process that is past the gate when the switch goes ON finishes what   *)
(* it has begun; braked are those that had not got that far.               *)
ShortOfGate(p) == pc[p] \in {"idle", "claim", "replay", "gate", "down"}

-----------------------------------------------------------------------------
(* claim_work as the worker calls it.                                      *)

WorkerReadsKillSwitch(p) ==
  /\ At(p, "idle")
  /\ ClaimPassesKillSwitch(p)
  /\ Goto(p, "claim")
  /\ UNCHANGED <<apVars, job, run, out, verdict, receipts, histVars>>

WorkerFindsNothing(p) ==
  /\ At(p, "claim")
  /\ \/ ClaimFindsNothing(p)
     \/ \E w \in Items : ClaimBlocksOnBudget(p, w)
  /\ Goto(p, "idle")
  /\ UNCHANGED <<apVars, job, run, out, verdict, receipts, histVars>>

WorkerClaims(p) ==
  \E w \in Items :
    /\ At(p, "claim")
    /\ ClaimGrants(p, w)
    /\ Goto(p, "replay")
    /\ job' = [job EXCEPT ![p] = w]
    /\ run' = [run EXCEPT ![p] = attempts[w] + 1]
    /\ UNCHANGED <<apVars, out, verdict, receipts, histVars>>

-----------------------------------------------------------------------------
(* ActionRegistry.execute: a stored result first, then the policy, then an *)
(* approval where the policy asks for one, then the handler.               *)

WorkerLooksForReceiptBug(p) ==           \* never replays a stored result
  /\ At(p, "replay")
  /\ Goto(p, "gate")
  /\ UNCHANGED <<wqVars, apVars, job, run, out, verdict, receipts, histVars>>

WorkerLooksForReceipt(p) ==
  LET r == receipts[job[p]] IN
  /\ At(p, "replay")
  /\ IF r = NoReceipt
       THEN Goto(p, "gate") /\ UNCHANGED out
       ELSE Goto(p, "complete") /\ out' = [out EXCEPT ![p] = r.result]
  /\ UNCHANGED <<wqVars, apVars, job, run, verdict, receipts, histVars>>

Refuse(p, v) == Goto(p, "refused") /\ verdict' = [verdict EXCEPT ![p] = v]

ForbiddenBug(w) == Gate[w] = "DENIED"    \* the switch is not looked at again
Forbidden(w)    == killSwitch \/ Gate[w] = "DENIED"

WorkerPassesGate(p) ==
  LET w == job[p] IN
  /\ At(p, "gate")
  /\ \/ /\ Forbidden(w)
        /\ Refuse(p, "POLICY_BLOCKED")
     \/ /\ ~Forbidden(w) /\ Gate[w] = "APPROVAL" /\ ApprovalOf[w] = NoApproval
        /\ Refuse(p, "APPROVAL_BLOCKED")
     \/ /\ ~Forbidden(w) /\ Gate[w] = "APPROVAL" /\ ApprovalOf[w] # NoApproval
        /\ Goto(p, "approve") /\ UNCHANGED verdict
     \/ /\ ~Forbidden(w) /\ Gate[w] = "LOCAL"
        /\ Goto(p, "handler") /\ UNCHANGED verdict
  /\ UNCHANGED <<wqVars, apVars, job, run, out, receipts, histVars>>

WorkerReadsApprovalBug(p) ==             \* looks, and does not consume
  /\ At(p, "approve")
  /\ IF Consumable(ApprovalOf[job[p]])
       THEN Goto(p, "handler") /\ UNCHANGED verdict
       ELSE Refuse(p, "APPROVAL_BLOCKED")
  /\ UNCHANGED <<wqVars, apVars, job, run, out, receipts, histVars>>

WorkerReadsApproval(p) ==
  LET a == ApprovalOf[job[p]] IN
  /\ At(p, "approve")
  /\ \/ /\ ConsumeReads(p, a)
        /\ Goto(p, "consume") /\ UNCHANGED verdict
     \/ /\ ~Consumable(a)
        /\ Refuse(p, "APPROVAL_BLOCKED") /\ UNCHANGED apVars
  /\ UNCHANGED <<wqVars, job, run, out, receipts, histVars>>

WorkerConsumesApproval(p) ==
  /\ At(p, "consume")
  /\ ConsumeWrites(p)
  /\ Goto(p, "handler")
  /\ UNCHANGED <<wqVars, job, run, out, verdict, receipts, histVars>>

(* The handler's effect happens whether or not it then raises.             *)
WorkerRunsHandler(p) ==
  /\ At(p, "handler")
  /\ ran' = ran \cup {<<job[p], run[p]>>}
  /\ \/ Goto(p, "record") /\ out' = [out EXCEPT ![p] = run[p]]
     \/ Goto(p, "fail") /\ UNCHANGED out
  /\ UNCHANGED <<wqVars, apVars, job, run, verdict, receipts, braked, faults>>

WorkerRecordsReceiptBug(p) ==            \* no receipt is stored
  /\ At(p, "record")
  /\ Goto(p, "complete")
  /\ UNCHANGED <<wqVars, apVars, job, run, out, verdict, receipts, histVars>>

(* record_action_result: INSERT OR IGNORE, unless the result holds secrets.*)
WorkerRecordsReceipt(p) ==
  LET w == job[p] IN
  /\ At(p, "record")
  /\ \/ /\ receipts' = IF receipts[w] = NoReceipt
                         THEN [receipts EXCEPT ![w] = [result |-> out[p], at |-> attempts[w]]]
                         ELSE receipts
        /\ Goto(p, "complete")
     \/ Goto(p, "fail") /\ UNCHANGED receipts
  /\ UNCHANGED <<wqVars, apVars, job, run, out, verdict, histVars>>

-----------------------------------------------------------------------------
(* Settling.  A rejected complete_work is caught like a handler's error and*)
(* goes to fail_work; a rejected block_work or fail_work ends the process. *)

WorkerCompletes(p) ==
  LET w == job[p] IN
  /\ At(p, "complete")
  /\ \/ CompleteWork(p, w, out[p]) /\ Goto(p, "idle")
     \/ ~HoldsRow(p, w) /\ Goto(p, "fail") /\ UNCHANGED wqVars
  /\ UNCHANGED <<apVars, job, run, out, verdict, receipts, histVars>>

WorkerBlocks(p) ==
  LET w == job[p] IN
  /\ At(p, "refused")
  /\ \/ BlockWork(p, w, verdict[p]) /\ Goto(p, "idle")
     \/ ~HoldsRow(p, w) /\ Goto(p, "down") /\ UNCHANGED wqVars
  /\ UNCHANGED <<apVars, job, run, out, verdict, receipts, histVars>>

WorkerFailReads(p) ==
  LET w == job[p] IN
  /\ At(p, "fail")
  /\ \/ FailReadsRow(p, w) /\ Goto(p, "failing")
     \/ ~HoldsRow(p, w) /\ Goto(p, "down") /\ UNCHANGED wqVars
  /\ UNCHANGED <<apVars, job, run, out, verdict, receipts, histVars>>

WorkerFailWrites(p) ==
  /\ At(p, "failing")
  /\ FailWrites(p)
  /\ Goto(p, "idle")
  /\ UNCHANGED <<apVars, job, run, out, verdict, receipts, histVars>>

-----------------------------------------------------------------------------
(* Crashes and restarts, the operator, and time.                           *)

Crash(p) ==
  /\ ~At(p, "down") /\ faults < MaxFaults
  /\ Goto(p, "down")
  /\ Disconnects(p) /\ ApDisconnects(p)
  /\ faults' = faults + 1
  /\ UNCHANGED <<job, run, out, verdict, receipts, ran, braked>>

Restart(p) ==
  /\ At(p, "down")
  /\ Goto(p, "idle")
  /\ UNCHANGED <<wqVars, apVars, job, run, out, verdict, receipts, histVars>>

SwitchKill(on) ==
  /\ SetKillSwitch(on)
  /\ braked' = IF on /\ ~killSwitch THEN {p \in Conns : ShortOfGate(p)}
               ELSE IF on THEN braked ELSE {}
  /\ UNCHANGED <<apVars, procVars, receipts, ran, faults>>

WorkingOn(p, w) == job[p] = w /\ pc[p] \notin {"idle", "claim", "down"}

Lapse(w) ==
  /\ LeaseExpires(w)
  /\ IF \E p \in Conns : WorkingOn(p, w)
       THEN faults < MaxFaults /\ faults' = faults + 1
       ELSE UNCHANGED faults
  /\ UNCHANGED <<apVars, procVars, receipts, ran, braked>>

Environment ==
  \/ \E on \in BOOLEAN : SwitchKill(on)
  \/ /\ \/ \E m \in Periods, units \in Limits : ConfigureBudget(m, units)
        \/ \E w \in Items, now \in BOOLEAN : EnqueueWork(w, now)
        \/ \E w \in Items : BecomesAvailable(w)
        \/ NextPeriod
     /\ UNCHANGED <<apVars, procVars, receipts, histVars>>
  \/ /\ Sean \/ ApTime
     /\ UNCHANGED <<wqVars, procVars, receipts, histVars>>
  \/ \E w \in Items : Lapse(w)

WorkerStep(p) ==
  \/ WorkerReadsKillSwitch(p) \/ WorkerFindsNothing(p) \/ WorkerClaims(p)
  \/ WorkerLooksForReceipt(p) \/ WorkerPassesGate(p)
  \/ WorkerReadsApproval(p) \/ WorkerConsumesApproval(p)
  \/ WorkerRunsHandler(p) \/ WorkerRecordsReceipt(p)
  \/ WorkerCompletes(p) \/ WorkerBlocks(p)
  \/ WorkerFailReads(p) \/ WorkerFailWrites(p)

WRNext ==
  \/ \E p \in Conns : WorkerStep(p) \/ Crash(p) \/ Restart(p)
  \/ Environment

WRSpec == WRInit /\ [][WRNext]_wrVars

(* Every step of a process's own program happens unless the process dies,  *)
(* the supervisor restarts it, and deadlines pass.  A crash, an operator's *)
(* command and an approval are never owed.                                 *)
Fairness ==
  /\ \A p \in Conns : WF_wrVars(WorkerStep(p)) /\ WF_wrVars(Restart(p))
  /\ \A w \in Items :
       /\ WF_wrVars(BecomesAvailable(w) /\ UNCHANGED <<apVars, procVars, receipts, histVars>>)
       /\ WF_wrVars(Lapse(w))

FairSpec == WRSpec /\ Fairness

-----------------------------------------------------------------------------
(* Properties.                                                             *)

WRTypeOK ==
  /\ WQTypeOK /\ ApTypeOK
  /\ pc       \in [Conns -> Places]
  /\ job      \in [Conns -> Items \cup {0}]
  /\ run      \in [Conns -> Nat]
  /\ out      \in [Conns -> Nat]
  /\ verdict  \in [Conns -> Verdicts]
  /\ receipts \in [Items -> [result : Nat, at : Nat]]
  /\ ran      \subseteq Items \X Nat
  /\ braked   \subseteq Conns
  /\ faults   \in Nat

(* "Completed action results are durably receipted so lease recovery       *)
(* suppresses handler replay" (OPERATIONS.md): once a receipt is stored no *)
(* attempt claimed afterwards invokes the handler, even when the item's    *)
(* lease is lost, its success undone by a late fail_work, or its worker    *)
(* crashes between the receipt and complete_work.                          *)
ReplaySuppressed ==
  \A w \in Items : receipts[w] # NoReceipt =>
    \A n \in 1..MaxClaims : <<w, n>> \in ran => n <= receipts[w].at

(* Nobody is charged for work that was not done: an item that was ever     *)
(* paid for or reported SUCCEEDED carries the result of an invocation of   *)
(* its handler that really happened.                                       *)
SuccessIsEarned ==
  \A w \in Items :
    status[w] = "SUCCEEDED" \/ (\E m \in Periods : usage[w][m] > 0)
      => <<w, payload[w]>> \in ran /\ receipts[w] # NoReceipt

(* A process that had not passed the policy gate when Sean turned the kill *)
(* switch ON starts no handler until the switch is OFF again, whichever    *)
(* lease it held and however often it restarted.                           *)
KillSwitchBrakes ==
  \A p \in braked : pc[p] \notin {"approve", "consume", "handler", "record"}

(* Every invocation of an approval-gated handler is backed by a            *)
(* consumption of its approval that no other invocation used.              *)
EachEffectIsAuthorised ==
  \A a \in Approvals :
    Cardinality({r \in ran : Gate[r[1]] = "APPROVAL" /\ ApprovalOf[r[1]] = a}) <= uses[a]

(* What complete_work stores in the row is what record_action_result       *)
(* stored in the receipt.  Holds while one worker process runs; two        *)
(* overlapping attempts can leave different results in the two tables.     *)
ReceiptIsTheAnswer ==
  \A w \in Items : status[w] = "SUCCEEDED" => payload[w] = receipts[w].result

(* A settled item stays settled.  Holds while one worker process runs.     *)
SettledIsFinal ==
  [][\A w \in Items : status[w] \in Settled => status'[w] = status[w]]_wrVars

(* "Failures retry only up to the task's configured maximum, then move to  *)
(* DEAD_LETTER" (OPERATIONS.md, safety invariant 4).                       *)
AttemptsBounded == \A w \in Items : attempts[w] <= MaxAttempts[w]

(* "The kill switch prevents new work from being claimed" (OPERATIONS.md,  *)
(* safety invariant 2).                                                    *)
NoClaimUnderKillSwitch ==
  [][\A w \in Items : killSwitch => attempts'[w] = attempts[w]]_wrVars

(* fail_work raises "Worker does not hold the active lease" for a caller   *)
(* that does not: only the holder may put an item back or bury it.         *)
FailureNeedsTheLease ==
  [][\A p \in Conns : At(p, "failing") /\ pc'[p] = "idle"
       => HoldsRow(p, job[p])]_wrVars

(* complete_work raises the same for a worker whose lease was recovered:   *)
(* it is the item's last attempt that completes it.  Every process needs a *)
(* worker id of its own for that, and --worker-id has a default.           *)
LastAttemptAnswers ==
  [][\A p \in Conns : At(p, "complete") /\ pc'[p] = "idle"
       => run[p] = attempts[job[p]]]_wrVars

(* With finitely many crashes and lapses, and the switch left OFF from     *)
(* some time on, every enqueued item is settled or blocked.                *)
EveryItemSettles ==
  <>[](~killSwitch) =>
    \A w \in Items : status[w] # "ABSENT" ~> status[w] \in Settled
=============================================================================
