------------------------------- MODULE Alerts -------------------------------
(***************************************************************************)
(* Alert incidents and their deliveries: what sean_os/monitoring.py makes  *)
(* of a health snapshot, alert_incidents and alert_delivery_outbox in      *)
(* sean_os/store.py, the calls of sean_os/commands.py behind the HTTP      *)
(* interface, and the synthetic adapter of scripts/worker.py.              *)
(*                                                                         *)
(*   down -> tick -> record -> switch -> claim -> work -> complete         *)
(*             ^        (per alert)                |          |            *)
(*             +--------- failing <- fail <--------+----------+            *)
(*                                    |                  completing -> tick *)
(*                                    +-> down (the lease is not its own)  *)
(*                                                                         *)
(* An incident stands for one (scope, route, code).  The interface serves  *)
(* one request at a time, so one of its calls is between its read and its  *)
(* write at most.                                                          *)
(***************************************************************************)
EXTENDS Outbox

CONSTANTS
  Codes,        \* of {"KILL_SWITCH_ACTIVE", "ALERT_DELIVERY_FAILED"}
  MaxReopens,   \* bound: incidents reopened so often are not resolved again
  MaxResets,    \* bound on reset_failed_alert_delivery
  MaxFaults     \* bound: crashes, and leases that lapse on a live process

ASSUME AlertsAssumption ==
  /\ Codes \subseteq {"KILL_SWITCH_ACTIVE", "ALERT_DELIVERY_FAILED"}
  /\ MaxReopens \in Nat /\ MaxResets \in Nat /\ MaxFaults \in Nat

VARIABLES
  place,      \* where each worker process is
  task,       \* the delivery it claimed
  snapshot,   \* the alerts of its last health snapshot it has not recorded
  incident,   \* alert_incidents.status, "ABSENT" before the row exists
  reopens,    \* alert_incidents.reopen_count
  about,      \* per delivery, the incident and generation it was staged for
  call,       \* the call of the interface that has read and not yet written
  resets,
  stale,      \* history: approvals that existed when their row was reset
  faults

procVars     == <<place, task, snapshot>>
incidentVars == <<incident, reopens, about, call>>
counters     == <<resets, stale, faults>>
alVars == <<killSwitch, apVars, obVars, procVars, incidentVars, counters>>
held   == <<killSwitch, apVars, obVars>>

Spots == {"down", "tick", "record", "switch", "claim", "work", "complete", "completing",
          "fail", "failing"}
NoCall == [op |-> "none", code |-> "none", gen |-> 0]
NoIncident == [code |-> "none", gen |-> 0]

AlInit ==
  /\ killSwitch = FALSE
  /\ ApInit /\ ObInit
  /\ place    = [p \in Conns |-> "down"]
  /\ task     = [p \in Conns |-> 0]
  /\ snapshot = [p \in Conns |-> {}]
  /\ incident = [c \in Codes |-> "ABSENT"]
  /\ reopens  = [c \in Codes |-> 0]
  /\ about    = [t \in Rows |-> NoIncident]
  /\ call     = NoCall
  /\ resets = 0 /\ stale = {} /\ faults = 0

At(p, s)   == place[p] = s
Goto(p, s) == place' = [place EXCEPT ![p] = s]

-----------------------------------------------------------------------------
(* capture_monitor_snapshot: runtime_health, classify_alerts, and one      *)
(* record_alert_observation for each alert, later and in turn.             *)
Condition(c) ==
  CASE c = "KILL_SWITCH_ACTIVE"    -> killSwitch
    [] c = "ALERT_DELIVERY_FAILED" -> \E t \in Rows : status[t] = "FAILED"

Boots(p) ==
  /\ At(p, "down")
  /\ Goto(p, "tick")
  /\ snapshot' = [snapshot EXCEPT ![p] = {}]
  /\ UNCHANGED <<held, task, incidentVars, counters>>

TakesSnapshot(p) ==
  /\ At(p, "tick")
  /\ snapshot' = [snapshot EXCEPT ![p] = {c \in Codes : Condition(c)}]
  /\ Goto(p, "record")
  /\ UNCHANGED <<held, task, incidentVars, counters>>

NotDue(p) ==                                        \* monotonic_now < next_due
  At(p, "tick") /\ Goto(p, "switch")
  /\ UNCHANGED <<held, task, snapshot, incidentVars, counters>>

ObserveBug(c) ==                                    \* DO NOTHING on conflict
  /\ incident' = [incident EXCEPT ![c] = IF @ = "ABSENT" THEN "ACTIVE" ELSE @]
  /\ UNCHANGED reopens

(* The upsert of alert_incidents.                                          *)
Observe(c) ==
  /\ incident' = [incident EXCEPT ![c] = "ACTIVE"]
  /\ reopens'  = [reopens EXCEPT ![c] = IF incident[c] = "RESOLVED" THEN @ + 1 ELSE @]

Records(p) ==
  /\ At(p, "record")
  /\ \/ \E c \in snapshot[p] :
          /\ Observe(c)
          /\ snapshot' = [snapshot EXCEPT ![p] = @ \ {c}]
          /\ UNCHANGED place
     \/ snapshot[p] = {} /\ Goto(p, "switch") /\ UNCHANGED <<snapshot, incident, reopens>>
  /\ UNCHANGED <<held, task, about, call, counters>>

-----------------------------------------------------------------------------
(* process_synthetic_delivery_once.                                        *)
ClaimReadsKillSwitch(p) ==
  /\ At(p, "switch")
  /\ Goto(p, IF killSwitch THEN "tick" ELSE "claim")
  /\ UNCHANGED <<held, task, snapshot, incidentVars, counters>>

(* A claim first fails every row without attempts left, waiting or not.    *)
Spent == {t \in Rows : Unleased(t) /\ Exhausted(t)}

ClaimsDelivery(p) ==
  \E t \in Rows :
    /\ At(p, "claim")
    /\ Claimable(t) /\ \A u \in Rows : Claimable(u) => t <= u
    /\ Lease(p, t, Spent)
    /\ Goto(p, "work")
    /\ task' = [task EXCEPT ![p] = t]
    /\ UNCHANGED <<killSwitch, apVars, snapshot, incidentVars, counters>>

FindsNoDelivery(p) ==
  /\ At(p, "claim")
  /\ \A t \in Rows : ~Claimable(t)
  /\ Lease(p, 0, Spent)
  /\ Goto(p, "tick")
  /\ UNCHANGED <<killSwitch, apVars, task, snapshot, incidentVars, counters>>

(* The row is read again after the claim has committed, and the adapter    *)
(* makes a receipt for an AUTHORIZED one only.                             *)
MakesReceipt(p) ==
  /\ At(p, "work")
  /\ Goto(p, IF status[task[p]] = "AUTHORIZED" THEN "complete" ELSE "fail")
  /\ UNCHANGED <<held, task, snapshot, incidentVars, counters>>

CompleteReadsKillSwitch(p) ==
  /\ At(p, "complete")
  /\ Goto(p, IF killSwitch THEN "fail" ELSE "completing")
  /\ UNCHANGED <<held, task, snapshot, incidentVars, counters>>

(* The owner may complete after its lease has run out, unless reclaimed.   *)
CompletesDelivery(p) ==
  LET t == task[p] IN
  /\ At(p, "completing")
  /\ \/ /\ Holds(p, t)
        /\ SetStatus(t, "SYNTHETIC_DELIVERED") /\ ReleaseRow(t)
        /\ Goto(p, "tick")
     \/ ~Holds(p, t) /\ Goto(p, "fail") /\ UNCHANGED <<status, lessee, lapsed>>
  /\ UNCHANGED <<killSwitch, apVars, boundTo, waiting, tries, callVars, requesting,
                 task, snapshot, incidentVars, counters>>

(* For a worker without the lease fail_claimed_alert_delivery raises, the  *)
(* main loop does not catch it, and the process ends.                      *)
FailDeliveryReads(p) ==
  /\ At(p, "fail")
  /\ \/ FailReads(p, task[p]) /\ Goto(p, "failing")
     \/ ~Holds(p, task[p]) /\ Goto(p, "down") /\ UNCHANGED obVars
  /\ UNCHANGED <<killSwitch, apVars, task, snapshot, incidentVars, counters>>

FailDeliveryWrites(p) ==
  /\ At(p, "failing")
  /\ FailWrites(p)
  /\ Goto(p, "tick")
  /\ UNCHANGED <<killSwitch, apVars, task, snapshot, incidentVars, counters>>

Crash(p) ==
  /\ ~At(p, "down") /\ faults < MaxFaults
  /\ Goto(p, "down")
  /\ ObDisconnects(p)
  /\ faults' = faults + 1
  /\ UNCHANGED <<killSwitch, apVars, task, snapshot, incidentVars, resets, stale>>

-----------------------------------------------------------------------------
(* The interface, when it is not in the middle of another request.         *)
Idle ==
  /\ call = NoCall
  /\ \A q \in Requesters : requesting[q] = 0
  /\ \A d \in Deciders : deciding[d] = NoApproval

Called(op, c) == Idle /\ call' = [op |-> op, code |-> c, gen |-> reopens[c]]

ResolveReadsBug(c) ==                               \* the status is not looked at
  /\ incident[c] # "ABSENT" /\ reopens[c] < MaxReopens
  /\ Called("resolve", c)
  /\ UNCHANGED <<held, procVars, incident, reopens, about, counters>>

ResolveReads(c) ==
  /\ incident[c] = "ACTIVE" /\ reopens[c] < MaxReopens
  /\ Called("resolve", c)
  /\ UNCHANGED <<held, procVars, incident, reopens, about, counters>>

(* The update names the incident alone.                                    *)
ResolveWrites ==
  /\ call.op = "resolve"
  /\ incident' = [incident EXCEPT ![call.code] = "RESOLVED"]
  /\ call' = NoCall
  /\ UNCHANGED <<held, procVars, reopens, about, counters>>

StageReads(c) ==
  /\ incident[c] = "ACTIVE"
  /\ Called("stage", c)
  /\ UNCHANGED <<held, procVars, incident, reopens, about, counters>>

(* INSERT OR IGNORE: one delivery for each generation of an incident.      *)
StageWrites ==
  LET for == [code |-> call.code, gen |-> call.gen] IN
  /\ call.op = "stage"
  /\ \/ \E t \in Rows :
          /\ \A u \in Rows : about[u] # for
          /\ StageRow(t)
          /\ about' = [about EXCEPT ![t] = for]
     \/ /\ \/ \E u \in Rows : about[u] = for
           \/ \A t \in Rows : status[t] # "ABSENT"        \* no more Rows: a bound
        /\ UNCHANGED <<obVars, about>>
  /\ call' = NoCall
  /\ UNCHANGED <<killSwitch, apVars, procVars, incident, reopens, counters>>

RequestDelivery(q, t) ==
  Idle /\ RequestReads(q, t, "STAGED") /\ UNCHANGED <<killSwitch, procVars, incidentVars, counters>>

RequestDeliveryWrites(q, a) ==
  RequestWrites(q, a) /\ UNCHANGED <<killSwitch, procVars, incidentVars, counters>>

AuthorizeDelivery(t, a) ==
  Idle /\ Authorize(t, a, "STAGED") /\ UNCHANGED <<killSwitch, procVars, incidentVars, counters>>

(* reset_failed_alert_delivery, by Sean; its update is guarded.            *)
ResetFailed(t) ==
  /\ Idle /\ status[t] = "FAILED" /\ resets < MaxResets
  /\ SetStatus(t, "STAGED") /\ ReleaseRow(t)
  /\ boundTo' = [boundTo EXCEPT ![t] = NoApproval]
  /\ waiting' = [waiting EXCEPT ![t] = FALSE]
  /\ tries'   = [tries EXCEPT ![t] = 0]
  /\ resets' = resets + 1
  /\ stale' = stale \cup {a \in Approvals : RowOf[a] = t /\ approval[a] # "ABSENT"}
  /\ UNCHANGED <<killSwitch, apVars, callVars, requesting, procVars, incidentVars, faults>>

(* Of an approval that is closed nobody asks whether its time has passed.  *)
Decides ==
  /\ \/ \E d \in Deciders :
          \/ Idle /\ \E a \in Approvals : DecideReads(d, a)
          \/ \E approve \in BOOLEAN : DecideWrites(d, approve)
     \/ \E a \in Approvals : approval[a] \notin Closed /\ ApprovalExpires(a)
  /\ UNCHANGED <<killSwitch, obVars, procVars, incidentVars, counters>>

SwitchKill(on) ==
  KillSwitchSet(on) /\ UNCHANGED <<apVars, obVars, procVars, incidentVars, counters>>

-----------------------------------------------------------------------------
(* Time.                                                                   *)
WorkingOn(p, t) ==
  task[p] = t /\ place[p] \in {"work", "complete", "completing", "fail", "failing"}

Lapse(t) ==
  /\ LeaseLapses(t)
  /\ IF \E p \in Conns : WorkingOn(p, t)
       THEN faults < MaxFaults /\ faults' = faults + 1
       ELSE UNCHANGED faults
  /\ UNCHANGED <<killSwitch, apVars, procVars, incidentVars, resets, stale>>

Backoff(t) ==
  BackoffEnds(t) /\ UNCHANGED <<killSwitch, apVars, procVars, incidentVars, counters>>

-----------------------------------------------------------------------------
WorkerStep(p) ==
  \/ Boots(p) \/ TakesSnapshot(p) \/ NotDue(p) \/ Records(p)
  \/ ClaimReadsKillSwitch(p) \/ ClaimsDelivery(p) \/ FindsNoDelivery(p)
  \/ MakesReceipt(p) \/ CompleteReadsKillSwitch(p) \/ CompletesDelivery(p)
  \/ FailDeliveryReads(p) \/ FailDeliveryWrites(p)

Interface ==
  \/ \E c \in Codes : ResolveReads(c) \/ StageReads(c)
  \/ ResolveWrites \/ StageWrites
  \/ \E t \in Rows :
       \/ \E q \in Requesters : RequestDelivery(q, t)
       \/ \E a \in Approvals : AuthorizeDelivery(t, a)
       \/ ResetFailed(t)
  \/ \E q \in Requesters : \E a \in Approvals : RequestDeliveryWrites(q, a)
  \/ Decides
  \/ \E on \in BOOLEAN : SwitchKill(on)

AlNext ==
  \/ \E p \in Conns : WorkerStep(p) \/ Crash(p)
  \/ Interface
  \/ \E t \in Rows : Lapse(t) \/ Backoff(t)

AlSpec == AlInit /\ [][AlNext]_alVars

(* The loop never blocks and is restarted when it dies; its monitor is due *)
(* again and again; leases and back-offs run out.  Sean does as he likes.  *)
AlFairSpec ==
  /\ AlSpec
  /\ \A p \in Conns : WF_alVars(WorkerStep(p)) /\ SF_alVars(TakesSnapshot(p))
  /\ \A t \in Rows : WF_alVars(Lapse(t)) /\ WF_alVars(Backoff(t))

-----------------------------------------------------------------------------
(* Properties.                                                             *)
AlTypeOK ==
  /\ killSwitch \in BOOLEAN
  /\ ApTypeOK /\ ObTypeOK
  /\ place    \in [Conns -> Spots]
  /\ task     \in [Conns -> Rows \cup {0}]
  /\ snapshot \in [Conns -> SUBSET Codes]
  /\ incident \in [Codes -> {"ABSENT", "ACTIVE", "RESOLVED"}]
  /\ reopens  \in [Codes -> Nat]
  /\ about    \in [Rows -> [code : Codes, gen : Nat] \cup {NoIncident}]
  /\ call     \in [op : {"resolve", "stage"}, code : Codes, gen : Nat] \cup {NoCall}
  /\ resets \in Nat /\ faults \in Nat
  /\ stale \subseteq Approvals

(* "A recurring condition automatically reopens the same incident"         *)
(* (OPERATIONS.md, 39): while an alert's condition lasts its incident is   *)
(* ACTIVE in the end, whatever Sean resolves in between, whatever is       *)
(* recorded from an older snapshot and however often the worker dies.      *)
ConditionReported ==
  \A c \in Codes : <>[]Condition(c) => <>[](incident[c] = "ACTIVE")

(* An authorised delivery is delivered or FAILED in the end, once the      *)
(* switch stays OFF: also one whose workers died at any point.             *)
DeliverySettles ==
  <>[](~killSwitch) =>
    \A t \in Rows : status[t] = "AUTHORIZED" ~> status[t] \in Terminal

(* "Worker does not hold the active alert delivery lease" (store.py): who  *)
(* has lost the lease changes nothing any more, so a delivery that was     *)
(* made is never due again.  So it is while one worker process runs.       *)
DeliveredIsFinal ==
  [][\A t \in Rows : status[t] \in Finished => status'[t] = status[t]]_alVars

(* "Sean may resolve an active incident only after reviewing recovery      *)
(* evidence" (OPERATIONS.md, Alert incident lifecycle): what is resolved   *)
(* is the generation that was read, never one the monitor has reopened     *)
(* between the read and the update, which names the incident alone.        *)
UnseenNotResolved ==
  [][\A c \in Codes : incident[c] = "ACTIVE" /\ incident'[c] = "RESOLVED"
                        => call.gen = reopens[c]]_alVars

(* "A separately authenticated reset remains staged and unclaimable until  *)
(* fresh approval" (OPERATIONS.md): the approval a delivery is authorised  *)
(* by was asked for after its last reset.  The code accepts one that was   *)
(* approved beforehand and not used.                                       *)
FreshApproval == \A t \in Rows : boundTo[t] \notin stale
=============================================================================
