------------------------------- MODULE Intake -------------------------------
(***************************************************************************)
(* How a request becomes records.  The command gateway and the scheduler   *)
(* put work items into the queue, at most one for each request, delivery   *)
(* or period (sean_os/commands.py, sean_os/scheduler.py); a worker claims  *)
(* an item and runs the registered handler, which commits several times:   *)
(*                                                                         *)
(*   idle -> replay -> look -> scan -> create -> register -> link(s)       *)
(*                                         -> record -> complete -> idle   *)
(*                                                                         *)
(* (reporting.py, integrations.py, chief_of_staff.py).  A worker may die   *)
(* between two commits, or a handler raise; the item is then tried again   *)
(* from the start.  Leases, retries and back-off are WorkQueue's; the      *)
(* budget, the kill switch and approvals are left to WorkerRuntime.        *)
(***************************************************************************)
EXTENDS Naturals, Sequences, FiniteSets

CONSTANTS
  Workers, Gateways,
  Requests,     \* external request ids
  Commands,     \* command contents, equal when their digests are
  Calls,        \* the requests clients make: <<request id, command>>
  Schedules,    \* the commands the scheduler dispatches, one per period
  KindOf,       \* REPORT, IMPORT, DELIVERY or NOTE
  KeyOf,        \* period_key or external_id of each command
  MaxAttempts,  \* max_attempts of every item (3 in the code)
  MaxItems,     \* bound: rows of work_queue
  MaxFaults,    \* bound: crashes, and handlers that raise
  MaxLapses     \* bound: leases that lapse under a live worker

Kinds == {"REPORT", "IMPORT", "DELIVERY", "NOTE"}
Keys  == {KeyOf[c] : c \in Commands}

ASSUME IntakeAssumption ==
  /\ Schedules \subseteq Commands /\ Calls \subseteq Requests \X Commands
  /\ KindOf \in [Commands -> Kinds]
  /\ \A c, d \in Commands : KeyOf[c] = KeyOf[d] => KindOf[c] = KindOf[d]
  /\ \A c \in Schedules : KindOf[c] = "REPORT"
  /\ \A c, d \in Schedules : KeyOf[c] = KeyOf[d] => c = d
  /\ Requests \cap Keys = {}            \* so that an origin is one or the other
  /\ IsFiniteSet(Gateways) /\ MaxAttempts \in Nat \ {0}
  /\ {MaxItems, MaxFaults, MaxLapses} \subseteq Nat

VARIABLES
  queue,      \* work_queue: the rows in the order they were inserted
  requests,   \* command_requests: the item of each request id, or 0
  deliveries, \* coding_delivery_requests: the item of each delivery id, or 0
  dispatched, \* schedule_dispatches: the item of each period, or 0
  records,    \* records made by handlers, each the command it was made for
  registry,   \* report_runs, imported_artifacts, coding_deliveries, by key
  links,      \* relationships, as <<record, type>>
  receipts,   \* action_executions: the record each item's receipt names
  asking,     \* what each gateway has looked up and found new
  pc, job,    \* each worker's place and item
  found, step, \* the record in its hands, the link it has come to
  faults, lapses

dbVars   == <<queue, requests, deliveries, dispatched, records, registry,
              links, receipts>>
procVars == <<pc, job, found, step>>
inVars   == <<dbVars, asking, procVars, faults, lapses>>

Items  == DOMAIN queue
NoAsk  == <<>>
Places == {"idle", "replay", "look", "scan", "create", "register", "link",
           "linking", "record", "complete", "fail", "failing", "burying", "down"}

(* The origin of an item is its request id or its period.                  *)
NewItem(c, origin) ==
  [asks |-> c, origin |-> origin, status |-> "QUEUED", holder |-> {},
   due |-> TRUE, attempts |-> 0, answer |-> 0]

InInit ==
  /\ queue = <<>> /\ records = <<>> /\ links = {}
  /\ requests   = [r \in Requests |-> 0]
  /\ deliveries = [k \in Keys |-> 0]
  /\ dispatched = [c \in Schedules |-> 0]
  /\ registry   = [k \in Keys |-> 0]
  /\ receipts   = [w \in 1..MaxItems |-> 0]
  /\ asking     = [g \in Gateways |-> NoAsk]
  /\ pc         = [p \in Workers |-> "idle"]
  /\ job        = [p \in Workers |-> 0]
  /\ found      = [p \in Workers |-> 0]
  /\ step       = [p \in Workers |-> 1]
  /\ faults = 0 /\ lapses = 0

(* The bound on rows counts those that a gateway is about to insert.       *)
Room == Len(queue) + Cardinality({g \in Gateways : asking[g] # NoAsk}) < MaxItems

-----------------------------------------------------------------------------
(* CommandGateway.submit: the look-ups, then one transaction that inserts  *)
(* the item and the rows that make its ids unique.  A request id already   *)
(* known, and a delivery id already known, are answered or rejected from   *)
(* the look-up; two gateways that both find nothing meet at the UNIQUE     *)
(* constraint, where the second is rolled back.                            *)

KnownBug(r, c) == requests[r] # 0               \* delivery ids are not unique
Known(r, c) ==
  \/ requests[r] # 0
  \/ KindOf[c] = "DELIVERY" /\ deliveries[KeyOf[c]] # 0

SubmitLooksUp(g, r, c) ==
  /\ asking[g] = NoAsk /\ ~Known(r, c) /\ Room
  /\ asking' = [asking EXCEPT ![g] = <<r, c>>]
  /\ UNCHANGED <<dbVars, procVars, faults, lapses>>

SubmitInserts(g) ==
  LET r == asking[g][1]
      c == asking[g][2] IN
  /\ asking[g] # NoAsk
  /\ asking' = [asking EXCEPT ![g] = NoAsk]
  /\ \/ /\ ~Known(r, c)
        /\ queue' = Append(queue, NewItem(c, r))
        /\ requests' = [requests EXCEPT ![r] = Len(queue) + 1]
        /\ deliveries' = IF KindOf[c] = "DELIVERY"
                           THEN [deliveries EXCEPT ![KeyOf[c]] = Len(queue) + 1]
                           ELSE deliveries
     \/ Known(r, c) /\ UNCHANGED <<queue, requests, deliveries>>
  /\ UNCHANGED <<dispatched, records, registry, links, receipts, procVars, faults, lapses>>

(* The interface process dies, or its transaction does: nothing is stored  *)
(* and the client, which has no answer, submits again.                     *)
SubmitLost(g) ==
  /\ asking[g] # NoAsk
  /\ asking' = [asking EXCEPT ![g] = NoAsk]
  /\ UNCHANGED <<dbVars, procVars, faults, lapses>>

(* LocalScheduler.tick, in a worker's loop: the look-up and both inserts in *)
(* one BEGIN IMMEDIATE transaction; nothing for a period dispatched before. *)
Dispatch(p, c) ==
  /\ pc[p] = "idle" /\ dispatched[c] = 0 /\ Room
  /\ queue' = Append(queue, NewItem(c, KeyOf[c]))
  /\ dispatched' = [dispatched EXCEPT ![c] = Len(queue) + 1]
  /\ UNCHANGED <<requests, deliveries, records, registry, links, receipts,
                 asking, procVars, faults, lapses>>

-----------------------------------------------------------------------------
(* The worker: claim, then ActionRegistry.execute.                         *)

At(p, place)   == pc[p] = place
Goto(p, place) == pc' = [pc EXCEPT ![p] = place]
Ends(p, place) ==                      \* and forgets what it had in hand
  /\ Goto(p, place)
  /\ job' = [job EXCEPT ![p] = 0]
  /\ found' = [found EXCEPT ![p] = 0]
  /\ step' = [step EXCEPT ![p] = 1]
Asks(p)        == queue[job[p]].asks
Key(p)         == KeyOf[Asks(p)]
Kind(p)        == KindOf[Asks(p)]
Holds(p)       == queue[job[p]].status = "RUNNING" /\ queue[job[p]].holder = {p}

(* What stays when a step only reads, or only touches the worker's locals. *)
Bystanders == <<requests, deliveries, dispatched, asking, faults, lapses>>

(* Claims, answers and failures rewrite a row; it is not due when they do. *)
Updates(w, status, holder, attempts, answer) ==
  queue' = [queue EXCEPT ![w] =
    [asks |-> @.asks, origin |-> @.origin, status |-> status, holder |-> holder,
     due |-> FALSE, attempts |-> attempts, answer |-> answer]]

(* claim_work: a due queued item, or a running one whose lease is over.    *)
Claims(p, w) ==
  /\ At(p, "idle") /\ w \in Items
  /\ queue[w].status \in {"QUEUED", "RUNNING"} /\ queue[w].due
  /\ Updates(w, "RUNNING", {p}, queue[w].attempts + 1, queue[w].answer)
  /\ job' = [job EXCEPT ![p] = w]
  /\ step' = [step EXCEPT ![p] = 1]
  /\ Goto(p, "replay")
  /\ UNCHANGED <<found, records, registry, links, receipts, Bystanders>>

(* A stored receipt is returned again and the handler not run.             *)
Replays(p) ==
  /\ At(p, "replay")
  /\ found' = [found EXCEPT ![p] = receipts[job[p]]]
  /\ Goto(p, IF receipts[job[p]] = 0 THEN "look" ELSE "complete")
  /\ UNCHANGED <<job, step, dbVars, asking, faults, lapses>>

AfterFoundBug(k) == "record"           \* a delivery's links are not repaired
AfterFound(k) == IF k = "DELIVERY" THEN "link" ELSE "record"

(* The handler's look-up of its key.  A report is returned whatever it     *)
(* holds; an import or a delivery of the same id must have the same digest.*)
LooksUp(p) ==
  LET r == registry[Key(p)] IN
  /\ At(p, "look")
  /\ \/ /\ r = 0
        /\ Goto(p, IF Kind(p) = "DELIVERY" THEN "scan" ELSE "create")
        /\ UNCHANGED found
     \/ /\ r # 0 /\ (Kind(p) = "REPORT" \/ records[r] = Asks(p))
        /\ found' = [found EXCEPT ![p] = r]
        /\ Goto(p, AfterFound(Kind(p)))
     \/ /\ r # 0 /\ Kind(p) # "REPORT" /\ records[r] # Asks(p)
        /\ Goto(p, "fail") /\ UNCHANGED found
  /\ UNCHANGED <<job, step, dbVars, asking, faults, lapses>>

(* CodingDeliveryAdapter.record adopts the first record that an attempt    *)
(* interrupted before its registration left behind.                        *)
Scans(p) ==
  LET left == {r \in DOMAIN records : KeyOf[records[r]] = Key(p)} IN
  /\ At(p, "scan")
  /\ \/ left = {} /\ Goto(p, "create") /\ UNCHANGED found
     \/ \E r \in left :
          /\ \A other \in left : r <= other
          /\ IF records[r] = Asks(p)
               THEN found' = [found EXCEPT ![p] = r] /\ Goto(p, "register")
               ELSE Goto(p, "fail") /\ UNCHANGED found
  /\ UNCHANGED <<job, step, dbVars, asking, faults, lapses>>

(* create_record, a commit of its own.                                     *)
Creates(p) ==
  /\ At(p, "create")
  /\ records' = Append(records, Asks(p))
  /\ found' = [found EXCEPT ![p] = Len(records) + 1]
  /\ Goto(p, IF Kind(p) = "NOTE" THEN "link" ELSE "register")
  /\ UNCHANGED <<job, step, queue, registry, links, receipts, Bystanders>>

RegistersBug(p) ==                     \* INSERT OR IGNORE
  /\ At(p, "register")
  /\ registry' = [registry EXCEPT ![Key(p)] = IF @ = 0 THEN found[p] ELSE @]
  /\ Goto(p, "link")
  /\ UNCHANGED <<job, step, found, queue, records, links, receipts, Bystanders>>

(* The row that makes the key unique; if it is there, the handler raises.  *)
Registers(p) ==
  /\ At(p, "register")
  /\ \/ /\ registry[Key(p)] = 0
        /\ registry' = [registry EXCEPT ![Key(p)] = found[p]] /\ Goto(p, "link")
     \/ registry[Key(p)] # 0 /\ Goto(p, "fail") /\ UNCHANGED registry
  /\ UNCHANGED <<job, step, found, queue, records, links, receipts, Bystanders>>

(* The relationships each kind of record gets, one commit each, in order.  *)
LinkTypes(k) ==
  CASE k = "DELIVERY" -> <<"DELIVERS", "EVIDENCE_FOR">>
    [] k = "IMPORT"   -> <<"EVIDENCE_FOR">>
    [] k = "NOTE"     -> <<"GOVERNS">>
    [] k = "REPORT"   -> <<>>

Link(p) == <<found[p], LinkTypes(Kind(p))[step[p]]>>

(* _ensure_link looks before it inserts.  The other handlers insert at once, *)
(* under a record of their own, where nothing can be found.                *)
LooksForLink(p) ==
  /\ At(p, "link")
  /\ \/ step[p] > Len(LinkTypes(Kind(p))) /\ Goto(p, "record") /\ UNCHANGED step
     \/ /\ step[p] <= Len(LinkTypes(Kind(p)))
        /\ IF Link(p) \in links
             THEN step' = [step EXCEPT ![p] = @ + 1] /\ UNCHANGED pc
             ELSE Goto(p, "linking") /\ UNCHANGED step
  /\ UNCHANGED <<job, found, dbVars, asking, faults, lapses>>

(* link_records raises if another worker's link is there by now: UNIQUE.   *)
AddsLink(p) ==
  /\ At(p, "linking")
  /\ \/ /\ Link(p) \notin links
        /\ links' = links \cup {Link(p)}
        /\ step' = [step EXCEPT ![p] = @ + 1] /\ Goto(p, "link")
     \/ Link(p) \in links /\ Goto(p, "fail") /\ UNCHANGED <<links, step>>
  /\ UNCHANGED <<job, found, queue, records, registry, receipts, Bystanders>>

(* record_action_result: INSERT OR IGNORE.                                 *)
RecordsReceipt(p) ==
  /\ At(p, "record")
  /\ receipts' = [receipts EXCEPT ![job[p]] = IF @ = 0 THEN found[p] ELSE @]
  /\ Goto(p, "complete")
  /\ UNCHANGED <<job, step, found, queue, records, registry, links, Bystanders>>

Completes(p) ==
  /\ At(p, "complete")
  /\ \/ /\ Holds(p) /\ Ends(p, "idle")
        /\ Updates(job[p], "SUCCEEDED", {}, queue[job[p]].attempts, found[p])
     \/ ~Holds(p) /\ Goto(p, "fail") /\ UNCHANGED <<job, step, found, queue>>
  /\ UNCHANGED <<records, registry, links, receipts, Bystanders>>

(* fail_work decides from the row it reads by its lease, then updates it by *)
(* id alone; a worker without the lease is ended by the exception.         *)
FailReads(p) ==
  /\ At(p, "fail")
  /\ \/ ~Holds(p) /\ Ends(p, "down")
     \/ /\ Holds(p) /\ UNCHANGED <<job, step, found>>
        /\ Goto(p, IF queue[job[p]].attempts < MaxAttempts THEN "failing" ELSE "burying")
  /\ UNCHANGED <<dbVars, asking, faults, lapses>>

FailWrites(p) ==
  /\ At(p, "failing") \/ At(p, "burying")
  /\ Updates(job[p], IF At(p, "failing") THEN "QUEUED" ELSE "DEAD_LETTER", {},
             queue[job[p]].attempts, queue[job[p]].answer)
  /\ Ends(p, "idle")
  /\ UNCHANGED <<records, registry, links, receipts, Bystanders>>

-----------------------------------------------------------------------------
(* Faults and time.                                                        *)

InHandler(p) == pc[p] \in {"look", "scan", "create", "register", "link", "linking", "record"}

Raises(p) ==                           \* the store is locked, a payload is refused
  /\ InHandler(p) /\ faults < MaxFaults
  /\ Goto(p, "fail") /\ faults' = faults + 1
  /\ UNCHANGED <<job, step, found, dbVars, asking, lapses>>

Crash(p) ==
  /\ ~At(p, "down") /\ faults < MaxFaults
  /\ Ends(p, "down") /\ faults' = faults + 1
  /\ UNCHANGED <<dbVars, asking, lapses>>

Restart(p) ==
  /\ At(p, "down") /\ Goto(p, "idle")
  /\ UNCHANGED <<job, step, found, dbVars, asking, faults, lapses>>

(* A lease runs out, or the back-off after a failure does.  One that runs  *)
(* out under a worker that is still alive lets another work on the item.   *)
FallsDue(w) ==
  /\ w \in Items /\ queue[w].status \in {"QUEUED", "RUNNING"} /\ ~queue[w].due
  /\ queue' = [queue EXCEPT ![w] = [@ EXCEPT !.due = TRUE]]
  /\ IF \E p \in Workers : job[p] = w /\ pc[p] \notin {"idle", "down"}
       THEN lapses < MaxLapses /\ lapses' = lapses + 1
       ELSE UNCHANGED lapses
  /\ UNCHANGED <<requests, deliveries, dispatched, records, registry, links,
                 receipts, asking, procVars, faults>>

WorkerStep(p) ==
  \/ \E w \in 1..MaxItems : Claims(p, w)
  \/ Replays(p) \/ LooksUp(p) \/ Scans(p) \/ Creates(p) \/ Registers(p)
  \/ LooksForLink(p) \/ AddsLink(p) \/ RecordsReceipt(p) \/ Completes(p)
  \/ FailReads(p) \/ FailWrites(p)

InNext ==
  \/ \E g \in Gateways :
       \/ \E call \in Calls : SubmitLooksUp(g, call[1], call[2])
       \/ SubmitInserts(g) \/ SubmitLost(g)
  \/ \E p \in Workers :
       \/ \E c \in Schedules : Dispatch(p, c)
       \/ WorkerStep(p) \/ Raises(p) \/ Crash(p) \/ Restart(p)
  \/ \E w \in 1..MaxItems : FallsDue(w)

InSpec == InInit /\ [][InNext]_inVars

-----------------------------------------------------------------------------
(* Properties.                                                             *)

InTypeOK ==
  /\ queue \in Seq([asks : Commands, origin : Requests \cup Keys,
                    status : {"QUEUED", "RUNNING", "SUCCEEDED", "DEAD_LETTER"},
                    holder : SUBSET Workers, due : BOOLEAN, attempts : Nat, answer : Nat])
  /\ records \in Seq(Commands)
  /\ requests \in [Requests -> Nat] /\ deliveries \in [Keys -> Nat]
  /\ dispatched \in [Schedules -> Nat] /\ registry \in [Keys -> Nat]
  /\ receipts \in [1..MaxItems -> Nat]
  /\ pc \in [Workers -> Places] /\ job \in [Workers -> Nat]
  /\ found \in [Workers -> Nat] /\ step \in [Workers -> Nat]
  /\ faults \in Nat /\ lapses \in Nat

(* "Request IDs are immutable and idempotent" (INTERFACE_CONTRACT.md) and  *)
(* "dispatched exactly once per period" (README.md): an id that is known   *)
(* has its item, and no two items share a request id, a period or a        *)
(* delivery id, however many gateways and schedulers insert at once.       *)
OneItemPerRequest ==
  /\ \A r \in Requests : requests[r] # 0 =>
       requests[r] \in Items /\ queue[requests[r]].origin = r
  /\ \A c \in Schedules : dispatched[c] # 0 =>
       dispatched[c] \in Items /\ queue[dispatched[c]].origin = KeyOf[c]
  /\ \A v, w \in Items :
       \/ queue[v].origin = queue[w].origin
       \/ /\ KindOf[queue[v].asks] = "DELIVERY"
          /\ KeyOf[queue[v].asks] = KeyOf[queue[w].asks]
       => v = w

(* Whoever asked, whenever, and after whatever crashes and repetitions:    *)
(* the receipt and the answer of a report, an import or a delivery name    *)
(* the one record registered for its period or id, never a duplicate that  *)
(* an interrupted or overlapping attempt left behind.                      *)
AnswersAreRegistered ==
  \A w \in Items : KindOf[queue[w].asks] # "NOTE" =>
    /\ receipts[w] # 0 => receipts[w] = registry[KeyOf[queue[w].asks]]
    /\ queue[w].status = "SUCCEEDED" => queue[w].answer = registry[KeyOf[queue[w].asks]]

(* "exact project/task links" (ACCEPTANCE_AUDIT.md): a coding delivery that *)
(* is receipted has both its links, wherever the attempts before it were   *)
(* cut off; and unless a lease ran out under a living worker there is one  *)
(* record of it, because a retry adopts what the one before it left.       *)
DeliveredWhole ==
  /\ \A w \in Items : KindOf[queue[w].asks] = "DELIVERY" /\ receipts[w] # 0 =>
       \A t \in {"DELIVERS", "EVIDENCE_FOR"} : <<receipts[w], t>> \in links
  /\ lapses = 0 =>
       \A r, s \in DOMAIN records :
         KindOf[records[r]] = "DELIVERY" /\ KeyOf[records[r]] = KeyOf[records[s]] => r = s
=============================================================================
